--------------------------- MODULE MCPagedServing ---------------------------
(* Two pages of two slots and four addresses for TLC. *)
EXTENDS PagedServing, TLC

CONSTANTS run1, run2, regime1, regime2, none

MCRuns == {run1, run2}
MCBundles == {regime1, regime2}

\* No token: what the cells hold at first.
MCZero == [of |-> [tokens |-> none, bundle |-> none], at |-> 0]

Symmetry == Permutations(MCRuns) \cup Permutations(MCBundles)
=============================================================================
