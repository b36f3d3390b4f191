--------------------------- MODULE MCTableServing ---------------------------
(* Two blocks of two slots and four addresses for TLC. *)
EXTENDS TableServing, TLC

CONSTANTS r1, r2, b1, b2, none

MCRuns == {r1, r2}
MCBundles == {b1, b2}
MCIntegralTypes == {"int"}
NoTypes == {}

\* No token: what the cells hold at first.
MCZero == [of |-> [tokens |-> none, bundle |-> none], at |-> 0]

Symmetry == Permutations(MCRuns) \cup Permutations(MCBundles)
=============================================================================
