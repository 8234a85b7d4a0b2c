-------------------------- MODULE MCDecisionCycle --------------------------
(* Small instances of DecisionCycle.                                        *)
EXTENDS DecisionCycle, TLC

CONSTANTS c1, c2, h1, h2, h3, new, two, one, o1, o2

MCCore == {c1, c2}
MCHeld == {h1, h2, h3}

\* c1 may only be bought; h1 has two shares to sell; one share of a third
\* instrument is what c2, h2 and a resumed job, h3, are about.
MCSymbol == {new, two, one}
MCSymbolOf == (c1 :> new) @@ (h1 :> two) @@ [i \in {c2, h2, h3} |-> one]
MCPosition == (new :> 0) @@ (two :> 2) @@ (one :> 1)

\* A partial sell over several cycles, two sells of one instrument side by
\* side, two candidates for one budget.
MCUniverses == {{h1}, {h2, h3}, {c1, c2}}

\* Two sells of different instruments side by side.
MCTimeoutUniverses == {{h1, h2}}

MCOrder == {o1, o2}
OrdersAndItems == Permutations(MCOrder) \cup Permutations({h2, h3})
=============================================================================
