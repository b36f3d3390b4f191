-------------------------- MODULE MCBundleIdentity --------------------------
(* Two fields for TLC; a list and a tuple with the same canonical form, and a *)
(* value that has none.                                                       *)
EXTENDS BundleIdentity, TLC

CONSTANTS policy, budget

MCNames == {policy, budget}
Symmetry == Permutations(MCNames)

MCCanonical == ("list" :> "json") @@ ("tuple" :> "json") @@ ("other" :> "other")
                 @@ ("set" :> "raises")
=============================================================================
