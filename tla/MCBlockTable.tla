---------------------------- MODULE MCBlockTable ----------------------------
(* Instances of the block table for TLC. *)
EXTENDS BlockTableProperties

CONSTANTS r1, r2, a, b, none

MCRuns == {r1, r2}
MCBundles == {a, b}
MCIntegralTypes == {"int"}
MCOtherTypes == {"bool"}
NoTypes == {}

Symmetry == Permutations(MCRuns) \cup Permutations(MCBundles)
=============================================================================
