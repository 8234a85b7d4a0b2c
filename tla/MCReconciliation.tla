-------------------------- MODULE MCReconciliation --------------------------
(* Small instances of Reconciliation.                                       *)
EXTENDS Reconciliation, TLC

CONSTANTS o1, o2, s1, s2

\* Two symbols traded at once: their transactions overlap.
TwoOrders == {o1, o2}
TwoScopes == {s1, s2}
Apart == (o1 :> s1) @@ (o2 :> s2)

AllScripts == {"backfill", "retry", "cleanup"}
=============================================================================
