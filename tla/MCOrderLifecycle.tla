-------------------------- MODULE MCOrderLifecycle --------------------------
(***************************************************************************)
(* Instances of OrderLifecycle for TLC: one row, two concurrent             *)
(* transactions.                                                           *)
(***************************************************************************)
EXTENDS OrderLifecycle, TLC

CONSTANTS o1, p1, p2

OneOrder == {o1}
TwoProcesses == {p1, p2}
Manager == {"sync", "reflect", "operator"}
Everybody == {"sync", "reflect", "operator", "fallback", "annotate"}
Symmetric == Permutations(TwoProcesses)
=============================================================================
