---------------------------- MODULE FrozenBundles ----------------------------
(***************************************************************************)
(* What InvariantBundle promises: a bundle is a value.  It has the fields  *)
(* it was made with for ever, and an id that is their digest; there are no *)
(* objects, and so no copies and nobody who holds one.                     *)
(***************************************************************************)
EXTENDS Integers, Sequences

CONSTANTS Names, Values, Canonical, Unserializable

VARIABLES bundles,   \* bundles made so far, each with its regime and its id
          admitted   \* blocks admitted, each with its regime and its id

vars == <<bundles, admitted>>

Regimes == UNION {[N -> Values] : N \in (SUBSET Names) \ {{}}}
Serializable(regime) == \A n \in DOMAIN regime : Canonical[regime[n]] # Unserializable
Digest(regime) == [n \in DOMAIN regime |-> Canonical[regime[n]]]

Init == bundles = << >> /\ admitted = {}

\* One more bundle; those there were are as they were.
Make ==
  LET made == Len(bundles) + 1
  IN /\ DOMAIN bundles' = 1 .. made
     /\ \A b \in DOMAIN bundles : bundles'[b] = bundles[b]
     /\ bundles'[made].regime \in Regimes /\ Serializable(bundles'[made].regime)
     /\ bundles'[made].id = Digest(bundles'[made].regime)
     /\ UNCHANGED admitted

Admit(b) ==
  /\ admitted' = admitted \cup {[id |-> bundles[b].id, regime |-> bundles[b].regime]}
  /\ UNCHANGED bundles

Next == Make \/ \E b \in DOMAIN bundles : Admit(b)

Spec == Init /\ [][Next]_vars
=============================================================================
