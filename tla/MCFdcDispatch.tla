---------------------------- MODULE MCFdcDispatch ----------------------------
(***************************************************************************)
(* Instances of FdcDispatch for TLC.                                       *)
(***************************************************************************)
EXTENDS FdcDispatch, TLC

CONSTANTS j1, j2, s1, s2

MCJob == {j1, j2}

MCSlot == {s1, s2}

MCOneSlot == {s1}

JobsAndSlots == Permutations(MCJob) \cup Permutations(MCSlot)

=============================================================================
