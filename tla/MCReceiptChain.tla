--------------------------- MODULE MCReceiptChain ---------------------------
(* Instance of the receipt chain for TLC. *)
EXTENDS ReceiptChain

CONSTANTS u, w

MCValues == {u, w}
Symmetry == Permutations(MCValues)
=============================================================================
