--------------------------- MODULE BundleIdentity ---------------------------
(***************************************************************************)
(* InvariantBundle: a regime is named by the digest of its fields, and the *)
(* fields may be mutable objects that the caller keeps (a list of guards,  *)
(* a dict of budgets).  The memory in which such objects live is part of   *)
(* the state, for what matters is who can still change which of them.      *)
(*                                                                         *)
(* A location is a field name in the copy of that number: a deep copy is   *)
(* the next copy, in which every field has a place of its own.  What the   *)
(* canonical JSON makes of a value is a constant, for it does not tell all *)
(* values apart (a tuple from a list, the key 1 from the key "1") and does *)
(* not take them all.                                                      *)
(***************************************************************************)
EXTENDS Integers, Sequences, Functions

CONSTANTS
  Names,       \* names of fields
  Values,      \* what a field, or the object it is, may hold
  Canonical,   \* value -> what json.dumps writes for it, or Unserializable
  Unserializable,
  MaxCopies    \* bound on the deep copies

ASSUME BundleAssumption ==
  /\ DOMAIN Canonical = Values
  /\ MaxCopies \in Nat

VARIABLES
  memory,    \* copy -> name -> value, for the objects in it
  mine,      \* the locations the caller can change
  bundles,   \* bundles made so far: their fields and their ids
  admitted   \* blocks admitted: the id in the address and the regime that was
             \* in force (history)

vars == <<memory, mine, bundles, admitted>>

\* The objects of one place: {} of them is no fields at all.
Records(S) == UNION {[N -> S] : N \in SUBSET Names}

At(loc) == memory[loc.copy][loc.name]

\* What the objects under a record of locations hold now.
Contents(fields) == [n \in DOMAIN fields |-> At(fields[n])]

Init ==
  /\ \E own \in [Names -> Values] : memory = <<own>>
  /\ mine = [copy : {1}, name : Names]
  /\ bundles = << >>
  /\ admitted = {}

-----------------------------------------------------------------------------
\* copy.deepcopy: new objects, and the record that refers to them.
Copy(fields) == [n \in DOMAIN fields |-> [copy |-> Len(memory) + 1, name |-> n]]

\* Mutant: dict(fields), whose values are the objects of the original.
SameObjects(fields) == fields

Snapshot(fields) == Copy(fields)

Digest(regime) == [n \in DOMAIN regime |-> Canonical[regime[n]]]

\* InvariantBundle(**fields).  No fields, or fields without a canonical form,
\* raise, and there is no bundle.
Construct(fields) ==
  /\ Len(memory) <= MaxCopies
  /\ DOMAIN fields # {}
  /\ \A n \in DOMAIN fields : Digest(Contents(fields))[n] # Unserializable
  /\ memory' = Append(memory, Contents(fields))
  /\ bundles' = Append(bundles, [fields |-> Snapshot(fields),
                                 id |-> Digest(Contents(fields))])
  /\ UNCHANGED <<mine, admitted>>

\* derive: the overrides replace fields of a shallow copy, which is copied deep
\* by the constructor.
Merged(b, overrides) ==
  [n \in DOMAIN bundles[b].fields \cup DOMAIN overrides |->
     IF n \in DOMAIN overrides THEN overrides[n] ELSE bundles[b].fields[n]]

Derive(b, overrides) == Construct(Merged(b, overrides))

\* Mutant: the fields themselves are given away.
GiveAway(b) ==
  /\ mine' = mine \cup {bundles[b].fields[n] : n \in DOMAIN bundles[b].fields}
  /\ UNCHANGED <<memory, bundles, admitted>>

\* The property fields: a copy that is the caller's from then on.
Fields(b) ==
  /\ Len(memory) <= MaxCopies
  /\ memory' = Append(memory, Contents(bundles[b].fields))
  /\ mine' = mine \cup {Copy(bundles[b].fields)[n] : n \in DOMAIN bundles[b].fields}
  /\ UNCHANGED <<bundles, admitted>>

\* The caller changes an object it holds.
Mutate(loc, value) ==
  /\ memory' = [memory EXCEPT ![loc.copy][loc.name] = value]
  /\ UNCHANGED <<mine, bundles, admitted>>

\* A block is admitted: its address carries the bundle's id.
Admit(b) ==
  /\ admitted' = admitted \cup {[id |-> bundles[b].id,
                                 regime |-> Contents(bundles[b].fields)]}
  /\ UNCHANGED <<memory, mine, bundles>>

Next ==
  \/ \E fields \in Records(mine) : Construct(fields)
  \/ \E b \in DOMAIN bundles :
       \/ \E overrides \in Records(mine) : Derive(b, overrides)
       \/ Fields(b)
       \/ Admit(b)
  \/ \E loc \in mine, value \in Values : Mutate(loc, value)

Spec == Init /\ [][Next]_vars

-----------------------------------------------------------------------------
\* The locations of objects there are.
Live == {loc \in [copy : DOMAIN memory, name : Names] : loc.name \in DOMAIN memory[loc.copy]}

TypeOK ==
  /\ memory \in Seq(Records(Values))
  /\ mine \subseteq Live
  /\ bundles \in Seq([fields : Records(Live), id : UNION {[N -> Range(Canonical)] : N \in SUBSET Names}])

\* Same regime, as far as the canonical form tells.
SameRegime(r, s) == Digest(r) = Digest(s)

\* "The id names the regime": a block that was admitted under one bundle is
\* addressed by another, or by the same one later, only if the fields that one
\* shows now are the fields in force at the admission, whatever the caller has
\* done in between to what it passed in or was given out.
ReusedUnderSameRegime ==
  \A block \in admitted : \A b \in DOMAIN bundles :
    block.id = bundles[b].id <=>
      SameRegime(block.regime, Contents(bundles[b].fields))

Frozen == INSTANCE FrozenBundles WITH
  bundles <- [b \in DOMAIN bundles |->
                [regime |-> Contents(bundles[b].fields), id |-> bundles[b].id]]

\* Seen from outside, bundles are values: nothing that a caller does to what it
\* passed in, derived from or was given out ever changes a bundle or adds one.
ImplementsFrozenBundles == Frozen!Spec
=============================================================================
