----------------------------- MODULE OrderStates -----------------------------
(***************************************************************************)
(* The constant part of the order lifecycle: the statuses, the transition  *)
(* table of services/order_manager.py and the transition chains of         *)
(* services/order_sync_service.py.                                         *)
(***************************************************************************)
EXTENDS Sequences

Status == {"draft", "validated", "pending_submit", "submitted", "acknowledged",
           "partially_filled", "filled", "cancel_pending", "cancelled",
           "rejected", "expired", "reconcile_required"}

\* _ALLOWED_TRANSITIONS; a status that is not a key of the dict has none.
Allowed ==
    [s \in Status |->
        CASE s = "draft"          -> {"validated"}
          [] s = "validated"      -> {"pending_submit"}
          [] s = "pending_submit" -> {"submitted", "reconcile_required",
                                      "rejected", "expired"}
          [] s = "submitted"      -> {"acknowledged", "reconcile_required",
                                      "expired"}
          [] s = "acknowledged"   -> {"partially_filled", "filled", "cancelled",
                                      "rejected", "reconcile_required", "expired"}
          [] s = "partially_filled" -> {"filled", "cancel_pending",
                                        "reconcile_required", "expired"}
          [] s = "cancel_pending" -> {"cancelled", "reconcile_required"}
          [] s = "reconcile_required" -> {"submitted", "acknowledged",
                                          "cancelled", "rejected", "expired"}
          [] s = "expired"        -> {"filled", "partially_filled",
                                      "reconcile_required"}
          [] OTHER                -> {}]

\* Mutant of Terminal: FILLED left out of the set.
TerminalButFilled == {"cancelled", "rejected", "expired"}

\* Mutant of Terminal: EXPIRED left out of the set.
TerminalButExpired == {"filled", "cancelled", "rejected"}

\* _TERMINAL_STATES
Terminal == {"filled", "cancelled", "rejected", "expired"}

\* _AUTHORITATIVE_REFLECTION_TARGETS
ReflectionTargets == {"filled", "acknowledged", "cancelled", "rejected", "expired"}

\* _MANUAL_RESOLVE_TARGETS
ManualTargets == {"filled", "cancelled", "rejected", "expired"}

\* _build_transition_chain: the steps tried when the direct transition fails.
Chain(current, target) ==
    CASE current \in {"submitted", "reconcile_required"} /\ target = "filled" ->
             <<"acknowledged", "partially_filled", "filled">>
      [] current = "submitted" /\ target = "partially_filled" ->
             <<"acknowledged", "partially_filled">>
      [] current = "acknowledged" /\ target = "filled" ->
             <<"partially_filled", "filled">>
      [] OTHER -> <<target>>

\* _SYNCABLE_STATUSES of order_sync_service.py
Syncable == {"submitted", "acknowledged", "partially_filled", "reconcile_required"}

\* The statuses the broker adapter reports: _parse_order_status_item, and
\* RECONCILE_REQUIRED when the inquiry finds no record of the order.
BrokerTruth == {"submitted", "acknowledged", "partially_filled", "filled",
                "cancelled", "rejected", "reconcile_required"}

\* The statuses the table never leaves: FILLED, CANCELLED and REJECTED.
Final == {s \in Status : Allowed[s] = {}}
=============================================================================
