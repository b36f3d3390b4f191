------------------------ MODULE BundleIdentityProofs ------------------------
(***************************************************************************)
(* That an id names the fields for the whole life of a bundle, for any     *)
(* names, values and number of copies: no object of a bundle is ever in    *)
(* the caller's hands, and only what is in the caller's hands changes.     *)
(***************************************************************************)
EXTENDS BundleIdentity, SequenceTheorems, TLAPS

\* No object of a bundle is the caller's.
Private ==
  \A b \in DOMAIN bundles : \A n \in DOMAIN bundles[b].fields :
    bundles[b].fields[n] \notin mine

\* Every id is the digest of what the fields hold now.
Named == \A b \in DOMAIN bundles : bundles[b].id = Digest(Contents(bundles[b].fields))

\* Every address in use is the digest of the regime it was computed from.
AdmittedNamed == \A block \in admitted : block.id = Digest(block.regime)

BundleInv == TypeOK /\ Private /\ Named /\ AdmittedNamed

\* The objects there were still are, as they were.
Kept == Live \subseteq Live' /\ \A loc \in Live : At(loc)' = At(loc)

Ids == UNION {[N -> Range(Canonical)] : N \in SUBSET Names}
BundleRecords == [fields : Records(Live), id : Ids]

-----------------------------------------------------------------------------
\* A record of places is a function of some of the names into them.
LEMMA RecordFacts ==
  ASSUME NEW S, NEW f
  PROVE  f \in Records(S) <=>
           /\ DOMAIN f \subseteq Names
           /\ f = [n \in DOMAIN f |-> f[n]]
           /\ \A n \in DOMAIN f : f[n] \in S
BY DEF Records

\* What the objects of a record hold are values, and a record of values has a
\* digest among the ids.
LEMMA ContentsAreValues ==
  ASSUME TypeOK, NEW fields \in Records(Live)
  PROVE  /\ Contents(fields) \in Records(Values)
         /\ Digest(Contents(fields)) \in Ids
<1>1. DOMAIN fields \subseteq Names /\ \A n \in DOMAIN fields : fields[n] \in Live
  BY RecordFacts
<1>2. ASSUME NEW n \in DOMAIN fields PROVE At(fields[n]) \in Values
  <2>1. fields[n] \in Live
    BY <1>1
  <2>2. memory[fields[n].copy] \in Records(Values)
    BY <2>1, ElementOfSeq, LenProperties DEF Live, TypeOK
  <2>3. fields[n].name \in DOMAIN memory[fields[n].copy]
    BY <2>1 DEF Live
  <2>. QED BY <2>2, <2>3, RecordFacts DEF At
<1>3. Contents(fields) \in Records(Values)
  BY <1>1, <1>2 DEF Records, Contents
<1>4. \A value \in Values : Canonical[value] \in Range(Canonical)
  BY BundleAssumption DEF Range
<1>5. Digest(Contents(fields)) \in Ids
  BY <1>1, <1>2, <1>4 DEF Digest, Contents, Ids
<1>. QED BY <1>3, <1>5

\* Objects that are kept keep what the records of them hold.
LEMMA KeptContents ==
  ASSUME Kept, NEW fields \in Records(Live)
  PROVE  fields \in Records(Live') /\ Contents(fields)' = Contents(fields)
<1>1. DOMAIN fields \subseteq Names /\ \A n \in DOMAIN fields : fields[n] \in Live
  BY RecordFacts
<1>2. fields \in Records(Live')
  BY <1>1 DEF Records, Kept
<1>3. \A n \in DOMAIN fields : At(fields[n])' = At(fields[n])
  BY <1>1 DEF Kept
<1>. QED BY <1>2, <1>3 DEF Contents

\* One more copy leaves the objects there are as they are, and is itself new.
LEMMA CopyIsNew ==
  ASSUME TypeOK, NEW fields \in Records(Live), memory' = Append(memory, Contents(fields))
  PROVE  /\ memory' \in Seq(Records(Values))
         /\ Kept
         /\ Copy(fields) \in Records(Live')
         /\ \A n \in DOMAIN fields : Copy(fields)[n] \notin Live
         /\ DOMAIN Copy(fields) = DOMAIN fields
         /\ \A copy : copy = Copy(fields) => Contents(copy)' = Contents(fields)
<1>1. Contents(fields) \in Records(Values)
  BY ContentsAreValues
<1>2. /\ memory' \in Seq(Records(Values)) /\ Len(memory) \in Nat
      /\ DOMAIN memory = 1 .. Len(memory) /\ DOMAIN memory' = 1 .. (Len(memory) + 1)
      /\ \A c \in DOMAIN memory : memory'[c] = memory[c]
      /\ memory'[Len(memory) + 1] = Contents(fields)
  BY <1>1, AppendProperties, LenProperties DEF TypeOK
<1>3. Kept
  BY <1>2 DEF Live, At, Kept
<1>4. DOMAIN fields \subseteq Names /\ \A n \in DOMAIN fields : fields[n] \in Live
  BY RecordFacts
<1>5. ASSUME NEW n \in DOMAIN fields
      PROVE  Copy(fields)[n] \in Live' /\ Copy(fields)[n] \notin Live
  <2>1. Copy(fields)[n] = [copy |-> Len(memory) + 1, name |-> n]
    BY DEF Copy
  <2>2. Len(memory) + 1 \in DOMAIN memory' /\ Len(memory) + 1 \notin DOMAIN memory
    BY <1>2
  <2>3. n \in DOMAIN memory'[Len(memory) + 1] /\ n \in Names
    BY <1>2, <1>4 DEF Contents
  <2>4. Copy(fields)[n] \in Live'
    BY <2>1, <2>2, <2>3 DEF Live
  <2>5. Copy(fields)[n] \notin Live
    BY <2>1, <2>2 DEF Live
  <2>. QED BY <2>4, <2>5
<1>6. DOMAIN Copy(fields) = DOMAIN fields
  BY DEF Copy
<1>7. Copy(fields) \in Records(Live')
  BY <1>4, <1>5, <1>6 DEF Copy, Records
<1>8. ASSUME NEW copy, copy = Copy(fields) PROVE Contents(copy)' = Contents(fields)
  <2>1. /\ DOMAIN copy = DOMAIN fields
        /\ \A n \in DOMAIN fields : copy[n] = [copy |-> Len(memory) + 1, name |-> n]
    BY <1>8 DEF Copy
  <2>2. \A n \in DOMAIN fields : At(copy[n])' = At(fields[n])
    BY <2>1, <1>2 DEF At, Contents
  <2>. QED BY <2>1, <2>2 DEF Contents
<1>. QED BY <1>2, <1>3, <1>5, <1>6, <1>7, <1>8

\* The fields of a bundle are objects there are.
LEMMA BundleFields ==
  ASSUME TypeOK, NEW b \in DOMAIN bundles
  PROVE  bundles[b].fields \in Records(Live) /\ bundles[b].id \in Ids
<1>1. bundles \in Seq(BundleRecords)
  BY DEF TypeOK, BundleRecords, Ids
<1>2. bundles[b] \in BundleRecords
  BY <1>1, ElementOfSeq, LenProperties
<1>. QED BY <1>2 DEF BundleRecords

\* Where objects are kept and the caller gets none of theirs, the bundles made
\* so far stay what they are.
LEMMA KeptBundles ==
  ASSUME BundleInv, Kept,
         \A b \in DOMAIN bundles : \A n \in DOMAIN bundles[b].fields :
           bundles[b].fields[n] \notin mine'
  PROVE  /\ bundles \in Seq(BundleRecords')
         /\ \A b \in DOMAIN bundles :
              /\ bundles[b] \in BundleRecords'
              /\ bundles[b].id = Digest(Contents(bundles[b].fields))
              /\ \A fields : fields = bundles[b].fields => Contents(fields)' = Contents(fields)
<1>1. bundles \in Seq(BundleRecords)
  BY DEF BundleInv, TypeOK, BundleRecords, Ids
<1>2. ASSUME NEW b \in DOMAIN bundles
      PROVE  /\ bundles[b] \in BundleRecords'
             /\ \A fields : fields = bundles[b].fields => Contents(fields)' = Contents(fields)
  <2>1. bundles[b] \in BundleRecords
    BY <1>1, ElementOfSeq, LenProperties
  <2>2. PICK fields \in Records(Live) : \E id \in Ids : bundles[b] = [fields |-> fields, id |-> id]
    BY <2>1 DEF BundleRecords
  <2>3. fields \in Records(Live') /\ Contents(fields)' = Contents(fields)
    BY KeptContents
  <2>. QED BY <2>2, <2>3 DEF BundleRecords
<1>3. bundles \in Seq(BundleRecords')
  BY <1>1, <1>2, LenProperties, SeqDef
<1>. QED BY <1>2, <1>3 DEF BundleInv, Named

-----------------------------------------------------------------------------
\* A bundle that is made is named, and its objects are its own.
LEMMA ConstructStep ==
  ASSUME BundleInv, NEW fields \in Records(Live), Construct(fields)
  PROVE  BundleInv'
<1>0. TypeOK /\ Private /\ Named /\ AdmittedNamed
  BY DEF BundleInv
<1>. DEFINE copy == Copy(fields)
            made == [fields |-> copy, id |-> Digest(Contents(fields))]
<1>1. memory' = Append(memory, Contents(fields)) /\ mine' = mine /\ admitted' = admitted
      /\ bundles' = Append(bundles, made)
  BY DEF Construct, Snapshot
<1>2. /\ memory' \in Seq(Records(Values)) /\ Kept
      /\ copy \in Records(Live') /\ DOMAIN copy = DOMAIN fields
      /\ \A n \in DOMAIN fields : copy[n] \notin Live
      /\ \A c : c = copy => Contents(c)' = Contents(fields)
  BY <1>0, <1>1, CopyIsNew
<1>3. Digest(Contents(fields)) \in Ids
  BY <1>0, ContentsAreValues
<1>4. made \in BundleRecords'
  BY <1>2, <1>3 DEF BundleRecords
<1>5. /\ bundles \in Seq(BundleRecords')
      /\ \A b \in DOMAIN bundles :
           /\ bundles[b].id = Digest(Contents(bundles[b].fields))
           /\ \A f : f = bundles[b].fields => Contents(f)' = Contents(f)
  <2>1. \A b \in DOMAIN bundles : \A n \in DOMAIN bundles[b].fields :
          bundles[b].fields[n] \notin mine'
    BY <1>0, <1>1 DEF Private
  <2>. QED BY <2>1, <1>2, KeptBundles
<1>. HIDE DEF made, copy
<1>6. /\ bundles' \in Seq(BundleRecords') /\ Len(bundles) \in Nat
      /\ DOMAIN bundles = 1 .. Len(bundles) /\ DOMAIN bundles' = 1 .. (Len(bundles) + 1)
      /\ \A b \in DOMAIN bundles : bundles'[b] = bundles[b]
      /\ bundles'[Len(bundles) + 1] = made
  BY <1>1, <1>4, <1>5, AppendProperties, LenProperties
<1>7. TypeOK'
  <2>1. mine' \subseteq Live'
    BY <1>0, <1>1, <1>2 DEF TypeOK, Kept
  <2>. QED BY <2>1, <1>2, <1>6 DEF TypeOK, BundleRecords, Ids
<1>8. ASSUME NEW b \in DOMAIN bundles'
      PROVE  b \in DOMAIN bundles \/ bundles'[b] = made
  BY <1>6
<1>9. Private'
  <2>1. ASSUME NEW b \in DOMAIN bundles', NEW n \in DOMAIN bundles'[b].fields
        PROVE  bundles'[b].fields[n] \notin mine'
    <3>1. CASE b \in DOMAIN bundles
      BY <3>1, <1>0, <1>1, <1>6 DEF Private
    <3>2. CASE bundles'[b] = made
      <4>1. bundles'[b].fields = copy
        BY <3>2 DEF made
      <4>. QED BY <4>1, <1>0, <1>1, <1>2 DEF TypeOK
    <3>. QED BY <3>1, <3>2, <1>8
  <2>. QED BY <2>1 DEF Private
<1>10. Named'
  <2>1. ASSUME NEW b \in DOMAIN bundles'
        PROVE  bundles'[b].id = Digest(Contents(bundles[b].fields)')
    <3>1. CASE b \in DOMAIN bundles
      <4>1. PICK f : f = bundles[b].fields
        OBVIOUS
      <4>2. Contents(f)' = Contents(f) /\ bundles'[b] = bundles[b]
        BY <4>1, <1>5, <1>6, <3>1
      <4>3. Contents(bundles[b].fields)' = Contents(f)'
        BY <4>1, <4>2 DEF Contents
      <4>. QED BY <4>1, <4>2, <4>3, <1>5, <3>1
    <3>2. CASE bundles'[b] = made
      <4>1. PICK c : c = copy
        OBVIOUS
      <4>2. bundles'[b].fields = c /\ bundles'[b].id = Digest(Contents(fields))
        BY <3>2, <4>1 DEF made
      <4>3. Contents(bundles[b].fields)' = Contents(c)'
        BY <4>2 DEF Contents
      <4>. QED BY <4>1, <4>2, <4>3, <1>2
    <3>. QED BY <3>1, <3>2, <1>8
  <2>. QED BY <2>1 DEF Named
<1>11. AdmittedNamed'
  BY <1>0, <1>1 DEF AdmittedNamed, Digest
<1>. QED BY <1>7, <1>9, <1>10, <1>11 DEF BundleInv

\* The bundles stay what they are where their number does.
LEMMA SameBundles ==
  ASSUME BundleInv, Kept, bundles' = bundles, memory' \in Seq(Records(Values)),
         mine' \subseteq Live',
         \A b \in DOMAIN bundles : \A n \in DOMAIN bundles[b].fields :
           bundles[b].fields[n] \notin mine'
  PROVE  TypeOK' /\ Private' /\ Named'
<1>1. /\ bundles \in Seq(BundleRecords')
      /\ \A b \in DOMAIN bundles :
           /\ bundles[b].id = Digest(Contents(bundles[b].fields))
           /\ \A f : f = bundles[b].fields => Contents(f)' = Contents(f)
  BY KeptBundles
<1>2. TypeOK'
  BY <1>1 DEF TypeOK, BundleRecords, Ids
<1>3. Private'
  BY DEF Private
<1>4. ASSUME NEW b \in DOMAIN bundles
      PROVE  bundles[b].id = Digest(Contents(bundles[b].fields)')
  <2>1. PICK f : f = bundles[b].fields
    OBVIOUS
  <2>2. Contents(f)' = Contents(f)
    BY <2>1, <1>1
  <2>3. Contents(bundles[b].fields)' = Contents(f)'
    BY <2>1 DEF Contents
  <2>. QED BY <2>1, <2>2, <2>3, <1>1
<1>5. Named'
  BY <1>4 DEF Named
<1>. QED BY <1>2, <1>3, <1>5

LEMMA FieldsStep ==
  ASSUME BundleInv, NEW b \in DOMAIN bundles, Fields(b)
  PROVE  BundleInv'
<1>0. TypeOK /\ Private /\ Named /\ AdmittedNamed
  BY DEF BundleInv
<1>1. PICK fields \in Records(Live) : fields = bundles[b].fields
  BY <1>0, BundleFields
<1>2. /\ memory' = Append(memory, Contents(fields)) /\ admitted' = admitted
      /\ mine' = mine \cup {Copy(fields)[n] : n \in DOMAIN fields}
      /\ bundles' = bundles
  BY <1>1 DEF Fields
<1>3. /\ memory' \in Seq(Records(Values)) /\ Kept
      /\ Copy(fields) \in Records(Live') /\ DOMAIN Copy(fields) = DOMAIN fields
      /\ \A n \in DOMAIN fields : Copy(fields)[n] \notin Live
  BY <1>0, <1>2, CopyIsNew
<1>4. mine' \subseteq Live'
  <2>1. \A n \in DOMAIN fields : Copy(fields)[n] \in Live'
    BY <1>3, RecordFacts
  <2>. QED BY <2>1, <1>0, <1>2, <1>3 DEF TypeOK, Kept
<1>5. ASSUME NEW c \in DOMAIN bundles, NEW n \in DOMAIN bundles[c].fields
      PROVE  bundles[c].fields[n] \notin mine'
  <2>1. bundles[c].fields[n] \in Live
    BY <1>0, BundleFields, RecordFacts
  <2>. QED BY <2>1, <1>0, <1>2, <1>3 DEF Private
<1>6. AdmittedNamed'
  BY <1>0, <1>2 DEF AdmittedNamed, Digest
<1>. QED BY <1>2, <1>3, <1>4, <1>5, <1>6, SameBundles DEF BundleInv

\* What the caller changes is no object of a bundle.
LEMMA MutateStep ==
  ASSUME BundleInv, NEW loc \in mine, NEW value \in Values, Mutate(loc, value)
  PROVE  BundleInv'
<1>0. TypeOK /\ Private /\ Named /\ AdmittedNamed
  BY DEF BundleInv
<1>1. memory' = [memory EXCEPT ![loc.copy][loc.name] = value]
      /\ mine' = mine /\ bundles' = bundles /\ admitted' = admitted
  BY DEF Mutate
<1>2. loc \in Live /\ loc.copy \in DOMAIN memory /\ loc.name \in DOMAIN memory[loc.copy]
      /\ loc = [copy |-> loc.copy, name |-> loc.name]
  BY <1>0 DEF TypeOK, Live
<1>. DEFINE old == memory[loc.copy]
            new == [old EXCEPT ![loc.name] = value]
<1>3. memory' = [memory EXCEPT ![loc.copy] = new]
  BY <1>1
<1>4. old \in Records(Values)
  BY <1>0, <1>2, ElementOfSeq, LenProperties DEF TypeOK
<1>5. new \in Records(Values) /\ DOMAIN new = DOMAIN old
  BY <1>2, <1>4 DEF Records
<1>. HIDE DEF new, old
<1>6. memory' \in Seq(Records(Values))
  BY <1>0, <1>2, <1>3, <1>5, ExceptSeq DEF TypeOK
<1>7. /\ DOMAIN memory' = DOMAIN memory
      /\ \A c \in DOMAIN memory : DOMAIN memory'[c] = DOMAIN memory[c]
  BY <1>0, <1>2, <1>3, <1>5 DEF old
<1>8. Live' = Live
  BY <1>7 DEF Live
<1>9. ASSUME NEW other \in Live, other # loc PROVE At(other)' = At(other)
  <2>1. other.copy # loc.copy \/ other.name # loc.name
    BY <1>2, <1>9 DEF Live
  <2>2. other.copy \in DOMAIN memory /\ other.name \in DOMAIN memory[other.copy]
    BY DEF Live
  <2>. QED BY <2>1, <2>2, <1>2, <1>3 DEF At, new, old
<1>10. ASSUME NEW b \in DOMAIN bundles
       PROVE  /\ bundles[b].fields \in Records(Live)
              /\ \A f : f = bundles[b].fields => Contents(f)' = Contents(f)
  <2>1. PICK f \in Records(Live) : f = bundles[b].fields
    BY <1>0, BundleFields
  <2>2. \A n \in DOMAIN f : f[n] \in Live /\ f[n] # loc
    BY <2>1, <1>0, RecordFacts DEF Private
  <2>3. \A n \in DOMAIN f : At(f[n])' = At(f[n])
    BY <2>2, <1>9
  <2>4. Contents(f)' = Contents(f)
    BY <2>3 DEF Contents
  <2>. QED BY <2>1, <2>4
<1>11. TypeOK'
  BY <1>0, <1>1, <1>6, <1>8 DEF TypeOK
<1>12. Private'
  BY <1>0, <1>1 DEF Private
<1>13. ASSUME NEW b \in DOMAIN bundles
       PROVE  bundles[b].id = Digest(Contents(bundles[b].fields)')
  <2>1. PICK f : f = bundles[b].fields
    OBVIOUS
  <2>2. Contents(f)' = Contents(f)
    BY <2>1, <1>10
  <2>3. Contents(bundles[b].fields)' = Contents(f)'
    BY <2>1, <1>1 DEF Contents
  <2>. QED BY <2>1, <2>2, <2>3, <1>0 DEF Named
<1>14. Named'
  BY <1>1, <1>13 DEF Named
<1>15. AdmittedNamed'
  BY <1>0, <1>1 DEF AdmittedNamed, Digest
<1>. QED BY <1>11, <1>12, <1>14, <1>15 DEF BundleInv

\* What is only read is left as it is.
LEMMA SameState ==
  ASSUME BundleInv, memory' = memory, mine' = mine, bundles' = bundles
  PROVE  TypeOK' /\ Private' /\ Named'
<1>0. TypeOK /\ Private
  BY DEF BundleInv
<1>1. Kept
  BY DEF Kept, Live, At
<1>2. mine' \subseteq Live' /\ memory' \in Seq(Records(Values))
  BY <1>0 DEF TypeOK, Live
<1>3. \A b \in DOMAIN bundles : \A n \in DOMAIN bundles[b].fields :
        bundles[b].fields[n] \notin mine'
  BY <1>0 DEF Private
<1>. QED BY <1>1, <1>2, <1>3, SameBundles

LEMMA AdmitStep ==
  ASSUME BundleInv, NEW b \in DOMAIN bundles, Admit(b)
  PROVE  BundleInv'
<1>0. TypeOK /\ Private /\ Named /\ AdmittedNamed
  BY DEF BundleInv
<1>1. /\ admitted' = admitted \cup {[id |-> bundles[b].id,
                                     regime |-> Contents(bundles[b].fields)]}
      /\ memory' = memory /\ mine' = mine /\ bundles' = bundles
  BY DEF Admit
<1>2. TypeOK' /\ Private' /\ Named'
  BY <1>1, SameState
<1>3. AdmittedNamed'
  <2>1. ASSUME NEW block \in admitted' PROVE block.id = Digest(block.regime)
    <3>1. CASE block \in admitted
      BY <3>1, <1>0 DEF AdmittedNamed
    <3>2. CASE block = [id |-> bundles[b].id, regime |-> Contents(bundles[b].fields)]
      BY <3>2, <1>0 DEF Named
    <3>. QED BY <3>1, <3>2, <1>1
  <2>. QED BY <2>1 DEF AdmittedNamed, Digest
<1>. QED BY <1>2, <1>3 DEF BundleInv

-----------------------------------------------------------------------------
LEMMA BundleInit == Init => BundleInv
<1>. SUFFICES ASSUME Init PROVE BundleInv
  OBVIOUS
<1>1. PICK own \in [Names -> Values] : memory = <<own>>
  BY DEF Init
<1>2. own \in Records(Values)
  BY DEF Records
<1>3. memory \in Seq(Records(Values)) /\ DOMAIN memory = {1} /\ memory[1] = own
  BY <1>1, <1>2
<1>4. mine \subseteq Live
  BY <1>3 DEF Init, Live
<1>5. bundles = << >> /\ admitted = {}
  BY DEF Init
<1>6. bundles \in Seq(BundleRecords) /\ DOMAIN bundles = {}
  BY <1>5
<1>. QED BY <1>3, <1>4, <1>5, <1>6
         DEF BundleInv, TypeOK, Private, Named, AdmittedNamed, BundleRecords, Ids

\* The caller's objects, and a bundle's with some of the caller's in their
\* place, are objects there are.
LEMMA RecordsOfLive ==
  ASSUME TypeOK
  PROVE  /\ Records(mine) \subseteq Records(Live)
         /\ \A b \in DOMAIN bundles, overrides \in Records(mine) :
              Merged(b, overrides) \in Records(Live)
<1>1. Records(mine) \subseteq Records(Live)
  BY DEF Records, TypeOK
<1>2. ASSUME NEW b \in DOMAIN bundles, NEW overrides \in Records(mine)
      PROVE  Merged(b, overrides) \in Records(Live)
  <2>1. /\ DOMAIN bundles[b].fields \subseteq Names
        /\ \A n \in DOMAIN bundles[b].fields : bundles[b].fields[n] \in Live
    BY BundleFields, RecordFacts
  <2>2. DOMAIN overrides \subseteq Names /\ \A n \in DOMAIN overrides : overrides[n] \in Live
    BY <1>1, RecordFacts
  <2>. DEFINE merged == Merged(b, overrides)
  <2>3. /\ DOMAIN merged = DOMAIN bundles[b].fields \cup DOMAIN overrides
        /\ merged = [n \in DOMAIN merged |-> merged[n]]
        /\ \A n \in DOMAIN merged :
             merged[n] = IF n \in DOMAIN overrides THEN overrides[n]
                                                   ELSE bundles[b].fields[n]
    BY DEF Merged
  <2>. HIDE DEF merged
  <2>4. DOMAIN merged \subseteq Names /\ \A n \in DOMAIN merged : merged[n] \in Live
    BY <2>1, <2>2, <2>3
  <2>5. merged \in Records(Live)
    BY <2>3, <2>4, RecordFacts
  <2>. QED BY <2>5 DEF merged
<1>. QED BY <1>1, <1>2

LEMMA BundleNext == BundleInv /\ [Next]_vars => BundleInv'
<1>. SUFFICES ASSUME BundleInv, [Next]_vars PROVE BundleInv'
  OBVIOUS
<1>0. TypeOK
  BY DEF BundleInv
<1>1. CASE \E fields \in Records(mine) : Construct(fields)
  BY <1>0, <1>1, RecordsOfLive, ConstructStep
<1>2. CASE \E b \in DOMAIN bundles, overrides \in Records(mine) : Derive(b, overrides)
  BY <1>0, <1>2, RecordsOfLive, ConstructStep DEF Derive
<1>3. CASE \E b \in DOMAIN bundles : Fields(b)
  BY <1>3, FieldsStep
<1>4. CASE \E b \in DOMAIN bundles : Admit(b)
  BY <1>4, AdmitStep
<1>5. CASE \E loc \in mine, value \in Values : Mutate(loc, value)
  BY <1>5, MutateStep
<1>6. CASE UNCHANGED vars
  <2>1. UNCHANGED <<memory, mine, bundles, admitted>>
    BY <1>6 DEF vars
  <2>2. AdmittedNamed'
    BY <2>1 DEF BundleInv, AdmittedNamed, Digest
  <2>. QED BY <2>1, <2>2, SameState DEF BundleInv
<1>. QED BY <1>1, <1>2, <1>3, <1>4, <1>5, <1>6 DEF Next

\* Bundles keep their objects to themselves and their ids name what the
\* objects hold, whatever the caller does.
THEOREM BundlesAreNamed == Spec => []BundleInv
<1>. QED BY BundleInit, BundleNext, PTL DEF Spec

\* The state keeps its type: InvariantBundle's fields are its own copies.
THEOREM BundleTypes == Spec => []TypeOK
<1>1. BundleInv => TypeOK
  BY DEF BundleInv
<1>. QED BY <1>1, BundlesAreNamed, PTL

\* A block is addressed by a bundle if, and only if, the bundle's fields are
\* those that were in force when the block was admitted.
THEOREM ReuseIsOfOneRegime == Spec => []ReusedUnderSameRegime
<1>1. BundleInv => ReusedUnderSameRegime
  BY DEF BundleInv, Named, AdmittedNamed, ReusedUnderSameRegime, SameRegime
<1>. QED BY <1>1, BundlesAreNamed, PTL

-----------------------------------------------------------------------------
(* Bundles over objects that callers keep implement bundles that are       *)
(* values.                                                                 *)

\* What a bundle is seen as from outside.
SeenAs(b) == [regime |-> Contents(bundles[b].fields), id |-> bundles[b].id]
AllSeen == [b \in DOMAIN bundles |-> SeenAs(b)]

\* A step that keeps the objects there are, and the bundles, changes nothing
\* that is seen of them.
LEMMA SeenAsBefore ==
  ASSUME BundleInv, Kept, NEW b \in DOMAIN bundles, bundles'[b] = bundles[b]
  PROVE  SeenAs(b)' = SeenAs(b)
<1>1. PICK f \in Records(Live) : f = bundles[b].fields
  BY BundleFields DEF BundleInv
<1>2. Contents(f)' = Contents(f)
  BY KeptContents
<1>3. Contents(bundles[b].fields)' = Contents(f)'
  BY <1>1 DEF Contents
<1>. QED BY <1>1, <1>2, <1>3 DEF SeenAs

LEMMA AllSeenAsBefore ==
  ASSUME BundleInv, Kept, bundles' = bundles
  PROVE  AllSeen' = AllSeen
<1>1. \A b \in DOMAIN bundles : SeenAs(b)' = SeenAs(b)
  BY SeenAsBefore
<1>. QED BY <1>1 DEF AllSeen

\* A bundle that is made is one more value.
LEMMA ConstructMakes ==
  ASSUME BundleInv, NEW fields \in Records(Live), Construct(fields)
  PROVE  Frozen!Make
<1>0. TypeOK
  BY DEF BundleInv
<1>. DEFINE regime == Contents(fields)
            copy == Copy(fields)
            new == Len(bundles) + 1
<1>1. /\ memory' = Append(memory, regime) /\ admitted' = admitted
      /\ bundles' = Append(bundles, [fields |-> copy, id |-> Digest(regime)])
      /\ DOMAIN fields # {}
      /\ \A n \in DOMAIN fields : Digest(regime)[n] # Unserializable
  BY DEF Construct, Snapshot
<1>2. /\ regime \in Records(Values) /\ DOMAIN regime = DOMAIN fields
      /\ Digest(regime) \in Ids
  BY <1>0, ContentsAreValues DEF Contents
<1>3. /\ Kept /\ copy \in Records(Live')
      /\ \A c : c = copy => Contents(c)' = regime
  BY <1>0, <1>1, CopyIsNew
<1>4. bundles \in Seq(BundleRecords) /\ Len(bundles) \in Nat /\ DOMAIN bundles = 1 .. Len(bundles)
  BY <1>0, LenProperties DEF TypeOK, BundleRecords, Ids
<1>5. /\ DOMAIN bundles' = 1 .. new
      /\ \A b \in DOMAIN bundles : bundles'[b] = bundles[b]
      /\ bundles'[new] = [fields |-> copy, id |-> Digest(regime)]
  BY <1>1, <1>4, AppendProperties
<1>6. /\ DOMAIN AllSeen = 1 .. Len(bundles) /\ Len(AllSeen) = Len(bundles)
      /\ DOMAIN AllSeen' = 1 .. new
  BY <1>4, <1>5 DEF AllSeen
<1>7. ASSUME NEW b \in DOMAIN AllSeen PROVE AllSeen'[b] = AllSeen[b]
  <2>1. b \in DOMAIN bundles /\ b \in DOMAIN bundles' /\ bundles'[b] = bundles[b]
    BY <1>4, <1>5, <1>6
  <2>2. SeenAs(b)' = SeenAs(b)
    BY <1>3, <2>1, SeenAsBefore
  <2>. QED BY <2>1, <2>2 DEF AllSeen
<1>8. AllSeen'[new] = [regime |-> regime, id |-> Digest(regime)]
  <2>1. PICK c, n : c = copy /\ n = new
    OBVIOUS
  <2>2. n \in DOMAIN bundles' /\ bundles'[n].fields = c /\ bundles'[n].id = Digest(regime)
    BY <1>4, <1>5, <2>1
  <2>. HIDE DEF regime, copy
  <2>3. Contents(bundles[n].fields)' = Contents(c)'
    BY <2>2 DEF Contents
  <2>4. Contents(c)' = regime
    BY <1>3, <2>1
  <2>5. AllSeen'[n] = [regime |-> regime, id |-> Digest(regime)]
    BY <2>2, <2>3, <2>4 DEF AllSeen, SeenAs
  <2>. QED BY <2>1, <2>5
<1>. HIDE DEF regime
<1>9. regime \in Frozen!Regimes
  BY <1>1, <1>2 DEF Frozen!Regimes, Records
<1>10. Frozen!Serializable(regime) /\ Frozen!Digest(regime) = Digest(regime)
  BY <1>1, <1>2 DEF Frozen!Serializable, Frozen!Digest, Digest
<1>11. AllSeen'[new].regime = regime /\ AllSeen'[new].id = Frozen!Digest(regime)
  BY <1>8, <1>10
<1>. QED BY <1>1, <1>6, <1>7, <1>9, <1>10, <1>11 DEF Frozen!Make, AllSeen, SeenAs

\* A block is admitted under the value the bundle is.
LEMMA AdmitAdmits ==
  ASSUME BundleInv, NEW b \in DOMAIN bundles, Admit(b)
  PROVE  b \in DOMAIN AllSeen /\ Frozen!Admit(b)
<1>1. /\ admitted' = admitted \cup {[id |-> bundles[b].id,
                                     regime |-> Contents(bundles[b].fields)]}
      /\ memory' = memory /\ bundles' = bundles
  BY DEF Admit
<1>2. Kept
  BY <1>1 DEF Kept, Live, At
<1>3. AllSeen' = AllSeen
  BY <1>1, <1>2, AllSeenAsBefore
<1>4. b \in DOMAIN AllSeen /\ AllSeen[b] = SeenAs(b)
  BY DEF AllSeen
<1>. QED BY <1>1, <1>3, <1>4 DEF Frozen!Admit, AllSeen, SeenAs

\* What the caller changes, and what it is given out, is no bundle's.
LEMMA MutateKeeps ==
  ASSUME BundleInv, NEW loc \in mine, NEW value \in Values, Mutate(loc, value)
  PROVE  AllSeen' = AllSeen /\ admitted' = admitted
<1>0. TypeOK /\ Private
  BY DEF BundleInv
<1>1. memory' = [memory EXCEPT ![loc.copy][loc.name] = value]
      /\ bundles' = bundles /\ admitted' = admitted
  BY DEF Mutate
<1>2. ASSUME NEW other \in Live, other # loc PROVE At(other)' = At(other)
  <2>1. loc \in Live
    BY <1>0 DEF TypeOK
  <2>2. other.copy # loc.copy \/ other.name # loc.name
    BY <1>2, <2>1 DEF Live
  <2>3. other.copy \in DOMAIN memory /\ other.name \in DOMAIN memory[other.copy]
    BY DEF Live
  <2>. QED BY <2>2, <2>3, <1>1 DEF At
<1>3. ASSUME NEW b \in DOMAIN bundles PROVE SeenAs(b)' = SeenAs(b)
  <2>1. PICK f \in Records(Live) : f = bundles[b].fields
    BY <1>0, BundleFields
  <2>2. \A n \in DOMAIN f : f[n] \in Live /\ f[n] # loc
    BY <2>1, <1>0, RecordFacts DEF Private
  <2>3. \A n \in DOMAIN f : At(f[n])' = At(f[n])
    BY <2>2, <1>2
  <2>. QED BY <2>1, <2>3, <1>1 DEF SeenAs, Contents
<1>. QED BY <1>1, <1>3 DEF AllSeen

LEMMA FieldsKeeps ==
  ASSUME BundleInv, NEW b \in DOMAIN bundles, Fields(b)
  PROVE  AllSeen' = AllSeen /\ admitted' = admitted
<1>1. bundles[b].fields \in Records(Live) /\ TypeOK
  BY BundleFields DEF BundleInv
<1>2. memory' = Append(memory, Contents(bundles[b].fields)) /\ bundles' = bundles
      /\ admitted' = admitted
  BY DEF Fields
<1>3. Kept
  BY <1>1, <1>2, CopyIsNew
<1>. QED BY <1>2, <1>3, AllSeenAsBefore

LEMMA FrozenStep == BundleInv /\ [Next]_vars => [Frozen!Next]_Frozen!vars
<1>. SUFFICES ASSUME BundleInv, [Next]_vars PROVE [Frozen!Next]_Frozen!vars
  OBVIOUS
<1>0. TypeOK
  BY DEF BundleInv
<1>1. CASE \E fields \in Records(mine) : Construct(fields)
  BY <1>0, <1>1, RecordsOfLive, ConstructMakes DEF Frozen!Next
<1>2. CASE \E b \in DOMAIN bundles, overrides \in Records(mine) : Derive(b, overrides)
  BY <1>0, <1>2, RecordsOfLive, ConstructMakes DEF Derive, Frozen!Next
<1>3. CASE \E b \in DOMAIN bundles : Fields(b)
  <2>1. AllSeen' = AllSeen /\ admitted' = admitted
    BY <1>3, FieldsKeeps
  <2>. QED BY <2>1 DEF Frozen!vars, AllSeen, SeenAs
<1>4. CASE \E b \in DOMAIN bundles : Admit(b)
  BY <1>4, AdmitAdmits DEF Frozen!Next, AllSeen, SeenAs
<1>5. CASE \E loc \in mine, value \in Values : Mutate(loc, value)
  <2>1. AllSeen' = AllSeen /\ admitted' = admitted
    BY <1>5, MutateKeeps
  <2>. QED BY <2>1 DEF Frozen!vars, AllSeen, SeenAs
<1>6. CASE UNCHANGED vars
  <2>1. Kept /\ bundles' = bundles /\ admitted' = admitted
    BY <1>6 DEF vars, Kept, Live, At
  <2>2. AllSeen' = AllSeen
    BY <2>1, AllSeenAsBefore
  <2>. QED BY <2>1, <2>2 DEF Frozen!vars, AllSeen, SeenAs
<1>. QED BY <1>1, <1>2, <1>3, <1>4, <1>5, <1>6 DEF Next

LEMMA FrozenInit == Init => Frozen!Init
<1>. SUFFICES ASSUME Init PROVE Frozen!Init
  OBVIOUS
<1>1. bundles = << >> /\ admitted = {}
  BY DEF Init
<1>2. [b \in DOMAIN bundles |-> [regime |-> Contents(bundles[b].fields), id |-> bundles[b].id]] = << >>
  BY <1>1
<1>. QED BY <1>1, <1>2 DEF Frozen!Init

\* Bundles are values, whatever the caller does to what it passed in, derived
\* from or was given out, for any fields and any number of copies.
THEOREM BundlesAreValues == Spec => ImplementsFrozenBundles
<1>. QED BY FrozenInit, FrozenStep, BundlesAreNamed, PTL
         DEF Spec, ImplementsFrozenBundles, Frozen!Spec
=============================================================================
