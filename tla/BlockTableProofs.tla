-------------------------- MODULE BlockTableProofs --------------------------
(***************************************************************************)
(* Proofs about the block table, for any sets of token runs and bundles,   *)
(* any capacity and any number of calls.                                   *)
(*                                                                         *)
(* The inductive invariant is Consistent(table, {}).  Its second argument  *)
(* is what makes it usable inside an operation: between _release or a pop  *)
(* of _free and the binding that ends admit, exactly one block is neither  *)
(* live nor free.  Each step of admit is a lemma about Consistent, and     *)
(* each branch of admit composes those lemmas.                             *)
(***************************************************************************)
EXTENDS TableServing, SequenceTheorems, FiniteSetTheorems, TLAPS

-----------------------------------------------------------------------------
(* The list operations of the block table, on lists without repetition:    *)
(* append, pop() from the end, and remove() of a given element.            *)

\* The members of a sequence are its entries.
LEMMA ToSetMember ==
  ASSUME NEW s, NEW e
  PROVE  e \in ToSet(s) <=> \E i \in DOMAIN s : s[i] = e
BY DEF ToSet

\* append(e) of a new element adds it, and the list stays free of
\* repetitions.
LEMMA AppendNew ==
  ASSUME NEW S, NEW s \in Seq(S), NEW e \in S,
         IsInjective(s), e \notin ToSet(s)
  PROVE  /\ Append(s, e) \in Seq(S)
         /\ IsInjective(Append(s, e))
         /\ ToSet(Append(s, e)) = ToSet(s) \cup {e}
         /\ Append(s, e) # << >>
         /\ Last(Append(s, e)) = e
         /\ Front(Append(s, e)) = s
<1> DEFINE t == Append(s, e)
<1>1. /\ t \in Seq(S)
      /\ t # << >>
      /\ Len(t) = Len(s) + 1
      /\ \A i \in 1 .. Len(s) : t[i] = s[i]
      /\ t[Len(s) + 1] = e
  BY AppendProperties
<1>2. /\ Len(s) \in Nat
      /\ DOMAIN s = 1 .. Len(s)
      /\ DOMAIN t = 1 .. (Len(s) + 1)
  BY <1>1
<1>3. IsInjective(t)
  BY <1>1, <1>2 DEF IsInjective, ToSet
<1>4. ToSet(t) = ToSet(s) \cup {e}
  BY <1>1, <1>2 DEF ToSet
<1>5. Last(t) = e
  BY <1>1, <1>2 DEF Last
<1>6. Front(t) = s
  <2>1. \A i \in 1 .. Len(s) : t[i] \in S
    BY <1>1
  <2>2. /\ SubSeq(t, 1, Len(s)) \in Seq(S)
        /\ Len(SubSeq(t, 1, Len(s))) = Len(s)
        /\ \A i \in 1 .. Len(s) : SubSeq(t, 1, Len(s))[i] = t[i]
    BY <2>1, <1>2, SubSeqProperties
  <2>3. SubSeq(t, 1, Len(s)) = s
    BY <2>2, <1>1, SeqEqual
  <2> QED  BY <2>3, <1>1, <1>2 DEF Front
<1> QED  BY <1>1, <1>3, <1>4, <1>5, <1>6

\* pop() takes the last element, and nothing else, off the list.
LEMMA PopLast ==
  ASSUME NEW S, NEW s \in Seq(S), IsInjective(s), s # << >>
  PROVE  /\ Last(s) \in S
         /\ Last(s) \in ToSet(s)
         /\ Front(s) \in Seq(S)
         /\ IsInjective(Front(s))
         /\ ToSet(Front(s)) = ToSet(s) \ {Last(s)}
<1>1. /\ Len(s) \in Nat
      /\ Len(s) # 0
      /\ DOMAIN s = 1 .. Len(s)
      /\ \A i \in 1 .. Len(s) : s[i] \in S
  BY EmptySeq
<1>2. /\ Front(s) \in Seq(S)
      /\ Len(Front(s)) = Len(s) - 1
      /\ \A i \in 1 .. (Len(s) - 1) : Front(s)[i] = s[i]
  BY <1>1, SubSeqProperties DEF Front
<1>3. DOMAIN Front(s) = 1 .. (Len(s) - 1)
  BY <1>2
<1>4. Last(s) \in S /\ Last(s) \in ToSet(s)
  BY <1>1 DEF Last, ToSet
<1>5. IsInjective(Front(s))
  BY <1>1, <1>2, <1>3 DEF IsInjective
<1>6. ToSet(Front(s)) = ToSet(s) \ {Last(s)}
  BY <1>1, <1>2, <1>3 DEF IsInjective, ToSet, Last
<1> QED  BY <1>2, <1>4, <1>5, <1>6

\* The first entry of a non-empty list is one of its elements.
LEMMA HeadMember ==
  ASSUME NEW S, NEW s \in Seq(S), s # << >>
  PROVE  Head(s) \in S /\ Head(s) \in ToSet(s)
BY EmptySeq, HeadTailProperties DEF ToSet

\* remove(e) moves what comes after e one place forward.
LEMMA RemoveShifts ==
  ASSUME NEW S, NEW s \in Seq(S), NEW e, IsInjective(s), e \in ToSet(s)
  PROVE  \E n \in 1 .. Len(s) :
           /\ s[n] = e
           /\ RemoveFirst(s, e) \in Seq(S)
           /\ Len(RemoveFirst(s, e)) = Len(s) - 1
           /\ \A i \in 1 .. (Len(s) - 1) :
                RemoveFirst(s, e)[i] = IF i < n THEN s[i] ELSE s[i + 1]
<1>1. /\ Len(s) \in Nat
      /\ DOMAIN s = 1 .. Len(s)
      /\ \A i \in 1 .. Len(s) : s[i] \in S
  OBVIOUS
<1>2. PICK n \in 1 .. Len(s) : s[n] = e
  BY <1>1 DEF ToSet
<1>3. {i \in 1 .. Len(s) : s[i] = e} = {n}
  BY <1>1, <1>2 DEF IsInjective
<1>4. Min({n}) = n
  BY <1>1 DEF Min
<1>5. SelectInSeq(s, LAMBDA v : v = e) = n
  BY <1>3, <1>4 DEF SelectInSeq
<1> DEFINE t == SubSeq(s, 1, n - 1)
           u == SubSeq(s, n + 1, Len(s))
           r == t \o u
<1>6. RemoveFirst(s, e) = r
  BY <1>1, <1>2, <1>5 DEF RemoveFirst, RemoveAt
<1>7. /\ t \in Seq(S)
      /\ Len(t) = n - 1
      /\ \A i \in 1 .. (n - 1) : t[i] = s[i]
  <2>1. \A i \in 1 .. (n - 1) : s[i] \in S
    BY <1>1
  <2> QED  BY <2>1, <1>1, SubSeqProperties
<1>8. /\ u \in Seq(S)
      /\ Len(u) = Len(s) - n
      /\ \A i \in 1 .. (Len(s) - n) : u[i] = s[n + i]
  <2>1. \A i \in (n + 1) .. Len(s) : s[i] \in S
    BY <1>1
  <2>2. /\ u \in Seq(S)
        /\ Len(u) = IF n + 1 <= Len(s) THEN Len(s) - (n + 1) + 1 ELSE 0
        /\ \A i \in 1 .. (Len(s) - (n + 1) + 1) : u[i] = s[(n + 1) + i - 1]
    BY <2>1, <1>1, SubSeqProperties
  <2> HIDE DEF u
  <2>3. Len(u) = Len(s) - n
    <3>1. Len(s) \in Nat /\ n \in Int /\ n <= Len(s)
      BY <1>1
    <3>2. (IF n + 1 <= Len(s) THEN Len(s) - (n + 1) + 1 ELSE 0) = Len(s) - n
      BY <3>1
    <3> QED  BY <3>2, <2>2
  <2>4. ASSUME NEW i \in 1 .. (Len(s) - n)
        PROVE  u[i] = s[n + i]
    <3>1. /\ i \in 1 .. (Len(s) - (n + 1) + 1)
          /\ (n + 1) + i - 1 = n + i
      BY <1>1
    <3> QED  BY <3>1, <2>2
  <2> QED  BY <2>2, <2>3, <2>4
<1> HIDE DEF t, u
<1>9. /\ r \in Seq(S)
      /\ Len(r) = Len(s) - 1
      /\ \A i \in 1 .. (Len(s) - 1) : r[i] = IF i < n THEN s[i] ELSE s[i + 1]
  <2>1. /\ r \in Seq(S)
        /\ Len(r) = Len(t) + Len(u)
        /\ \A i \in 1 .. (Len(t) + Len(u)) :
             r[i] = IF i <= Len(t) THEN t[i] ELSE u[i - Len(t)]
    BY <1>7, <1>8, ConcatProperties
  <2> HIDE DEF r
  <2>2. Len(r) = Len(s) - 1
    BY <2>1, <1>7, <1>8, <1>1
  <2>3. ASSUME NEW i \in 1 .. (Len(s) - 1)
        PROVE  r[i] = IF i < n THEN s[i] ELSE s[i + 1]
    <3>1. CASE i < n
      <4>1. i \in 1 .. (n - 1) /\ i \in 1 .. (Len(t) + Len(u)) /\ i <= Len(t)
        BY <3>1, <1>7, <1>8, <1>1
      <4>2. r[i] = t[i]
        BY <4>1, <2>1
      <4> QED  BY <4>1, <4>2, <3>1, <1>7
    <3>2. CASE i >= n
      <4>1. r[i] = u[i - (n - 1)]
        BY <3>2, <2>1, <1>7, <1>8, <1>1
      <4>2. i - (n - 1) \in 1 .. (Len(s) - n)
        BY <3>2, <1>1
      <4>3. n + (i - (n - 1)) = i + 1
        BY <1>1
      <4>4. r[i] = s[i + 1]
        BY <4>1, <4>2, <4>3, <1>8
      <4>5. ~ (i < n)
        BY <3>2, <1>1
      <4> QED  BY <4>4, <4>5
    <3> QED  BY <3>1, <3>2, <1>1
  <2> QED  BY <2>1, <2>2, <2>3
<1> HIDE DEF r
<1> QED  BY <1>2, <1>6, <1>9

\* remove(e) takes e, and nothing else, out of a list that holds it once.
LEMMA RemoveMember ==
  ASSUME NEW S, NEW s \in Seq(S), NEW e, IsInjective(s), e \in ToSet(s)
  PROVE  /\ RemoveFirst(s, e) \in Seq(S)
         /\ IsInjective(RemoveFirst(s, e))
         /\ ToSet(RemoveFirst(s, e)) = ToSet(s) \ {e}
<1> DEFINE r == RemoveFirst(s, e)
<1>1. Len(s) \in Nat /\ DOMAIN s = 1 .. Len(s)
  OBVIOUS
<1>2. PICK n \in 1 .. Len(s) :
        /\ s[n] = e /\ r \in Seq(S) /\ Len(r) = Len(s) - 1
        /\ \A i \in 1 .. (Len(s) - 1) : r[i] = IF i < n THEN s[i] ELSE s[i + 1]
  BY RemoveShifts
<1> HIDE DEF r
<1>9. \A i \in 1 .. (Len(s) - 1) : r[i] = IF i < n THEN s[i] ELSE s[i + 1]
  BY <1>2
<1>10. DOMAIN r = 1 .. (Len(s) - 1)
  BY <1>1, <1>2
<1>11. IsInjective(r)
  <2>. SUFFICES ASSUME NEW i \in 1 .. (Len(s) - 1), NEW j \in 1 .. (Len(s) - 1), r[i] = r[j]
                PROVE  i = j
    BY <1>10 DEF IsInjective
  <2>. DEFINE old(x) == IF x < n THEN x ELSE x + 1
  <2>1. old(i) \in DOMAIN s /\ old(j) \in DOMAIN s
    BY <1>1
  <2>2. s[old(i)] = s[old(j)]
    BY <1>9
  <2>3. old(i) = old(j)
    BY <2>1, <2>2 DEF IsInjective
  <2>. QED BY <1>1, <2>3
<1>12. ToSet(r) = ToSet(s) \ {e}
  <2>1. ASSUME NEW j \in 1 .. (Len(s) - 1)
        PROVE  r[j] \in ToSet(s) \ {e}
    <3>1. PICK i \in 1 .. Len(s) : i # n /\ r[j] = s[i]
      <4>1. CASE j < n
        BY <4>1, <1>1, <1>9
      <4>2. CASE ~ (j < n)
        <5>1. j + 1 \in 1 .. Len(s) /\ j + 1 # n
          BY <4>2, <1>1
        <5> QED  BY <5>1, <4>2, <1>9
      <4> QED  BY <4>1, <4>2
    <3>2. s[i] # e
      BY <3>1, <1>1, <1>2 DEF IsInjective
    <3> QED  BY <3>1, <3>2, <1>1 DEF ToSet
  <2>2. ASSUME NEW x \in ToSet(s) \ {e}
        PROVE  x \in ToSet(r)
    <3>1. PICK i \in 1 .. Len(s) : s[i] = x /\ i # n
      BY <1>1, <1>2 DEF ToSet
    <3>2. CASE i < n
      BY <3>1, <3>2, <1>1, <1>9, <1>10 DEF ToSet
    <3>3. CASE i > n
      <4>1. i - 1 \in 1 .. (Len(s) - 1) /\ ~ (i - 1 < n) /\ (i - 1) + 1 = i
        BY <3>1, <3>3, <1>1
      <4> QED  BY <4>1, <3>1, <1>9, <1>10 DEF ToSet
    <3> QED  BY <3>1, <3>2, <3>3, <1>1
  <2> QED  BY <2>1, <2>2, <1>10 DEF ToSet
<1> QED  BY <1>2, <1>11, <1>12 DEF r

\* remove(e), guarded by "if e in list", leaves other lists alone.
LEMMA RemoveAbsent ==
  ASSUME NEW S, NEW s \in Seq(S), NEW e, e \notin ToSet(s)
  PROVE  RemoveFirst(s, e) = s
BY DEF RemoveFirst, ToSet

-----------------------------------------------------------------------------

\* A table every part of which agrees with the others, where the blocks in
\* aside are out of circulation.
Consistent(t, aside) ==
  /\ t \in Tables
  /\ AddressesAgree(t)
  /\ OrderListsLive(t)
  /\ RunsOfLive(t)
  /\ FreeListsRest(t, aside)

-----------------------------------------------------------------------------
(* Membership of Tables, field by field. *)

\* What membership of Tables says of each field.
LEMMA TableFields ==
  ASSUME NEW t \in Tables
  PROVE  /\ DOMAIN t.byKey \subseteq Keys
         /\ \A k \in DOMAIN t.byKey : t.byKey[k] \in Physicals
         /\ Live(t) \subseteq Physicals
         /\ \A p \in Live(t) : t.meta[p] \in Entries
         /\ t.order \in Seq(Physicals)
         /\ DOMAIN t.runs \subseteq Runs
         /\ \A r \in DOMAIN t.runs : t.runs[r] \subseteq Bundles
         /\ t.runs = [r \in DOMAIN t.runs |-> t.runs[r]]
         /\ t.free \in Seq(Physicals)
         /\ t.byKey \in PartialFunctions(Keys, Physicals)
         /\ t.meta \in PartialFunctions(Physicals, Entries)
         /\ t.runs \in PartialFunctions(Runs, SUBSET Bundles)
<1>1. /\ t.byKey \in PartialFunctions(Keys, Physicals)
      /\ t.meta \in PartialFunctions(Physicals, Entries)
      /\ t.order \in Seq(Physicals)
      /\ t.runs \in PartialFunctions(Runs, SUBSET Bundles)
      /\ t.free \in Seq(Physicals)
  BY DEF Tables
<1>2. PICK D \in SUBSET Keys : t.byKey \in [D -> Physicals]
  BY <1>1 DEF PartialFunctions
<1>3. PICK E \in SUBSET Physicals : t.meta \in [E -> Entries]
  BY <1>1 DEF PartialFunctions
<1>4. PICK F \in SUBSET Runs : t.runs \in [F -> SUBSET Bundles]
  BY <1>1 DEF PartialFunctions
<1>5. /\ DOMAIN t.byKey \subseteq Keys
      /\ \A k \in DOMAIN t.byKey : t.byKey[k] \in Physicals
  BY <1>2
<1>6. /\ Live(t) \subseteq Physicals
      /\ \A p \in Live(t) : t.meta[p] \in Entries
  BY <1>3 DEF Live
<1>7. /\ DOMAIN t.runs \subseteq Runs
      /\ \A r \in DOMAIN t.runs : t.runs[r] \subseteq Bundles
      /\ t.runs = [r \in DOMAIN t.runs |-> t.runs[r]]
  BY <1>4
<1> QED  BY <1>1, <1>5, <1>6, <1>7

\* A function given by its domain and its values is a partial function.
LEMMA PartialFunctionIntro ==
  ASSUME NEW S, NEW T, NEW D \in SUBSET S, NEW f \in [D -> T]
  PROVE  f \in PartialFunctions(S, T)
BY DEF PartialFunctions

-----------------------------------------------------------------------------
(* The empty table. *)

\* __init__ builds a consistent table: every block is free.
LEMMA EmptyTableConsistent == Consistent(EmptyTable, {})
<1> USE BlockTableAssumption
<1> DEFINE t == EmptyTable
<1>1. t \in Tables
  <2>1. t.byKey \in PartialFunctions(Keys, Physicals)
    BY PartialFunctionIntro, {} \in SUBSET Keys,
       [k \in {} |-> 0] \in [{} -> Physicals] DEF EmptyTable
  <2>2. t.meta \in PartialFunctions(Physicals, Entries)
    BY PartialFunctionIntro, {} \in SUBSET Physicals,
       [p \in {} |-> [key |-> 0, run |-> 0, bundle |-> 0]] \in [{} -> Entries]
       DEF EmptyTable
  <2>3. t.runs \in PartialFunctions(Runs, SUBSET Bundles)
    BY PartialFunctionIntro, {} \in SUBSET Runs,
       [r \in {} |-> {}] \in [{} -> SUBSET Bundles] DEF EmptyTable
  <2>4. t.order \in Seq(Physicals)
    BY DEF EmptyTable
  <2>5. t.free \in Seq(Physicals)
    <3>1. [i \in 1 .. NumBlocks |-> NumBlocks - i]
            \in [1 .. NumBlocks -> Physicals]
      BY DEF Physicals
    <3> QED  BY <3>1, SeqDef DEF EmptyTable
  <2> QED  BY <2>1, <2>2, <2>3, <2>4, <2>5 DEF EmptyTable, Tables
<1>2. AddressesAgree(t) /\ RunsOfLive(t)
  BY DEF EmptyTable, AddressesAgree, RunsOfLive, Live
<1>3. OrderListsLive(t)
  BY DEF EmptyTable, OrderListsLive, Live, IsInjective, ToSet
<1>4. FreeListsRest(t, {})
  <2> DEFINE f == [i \in 1 .. NumBlocks |-> NumBlocks - i]
  <2>1. IsInjective(f)
    BY DEF IsInjective
  <2>2. ToSet(f) \subseteq Physicals
    BY DEF ToSet, Physicals
  <2>3. ASSUME NEW p \in Physicals
        PROVE  p \in ToSet(f)
    <3>1. NumBlocks - p \in 1 .. NumBlocks /\ NumBlocks - (NumBlocks - p) = p
      BY DEF Physicals
    <3> QED  BY <3>1 DEF ToSet
  <2>4. Live(t) = {} /\ t.free = f
    BY DEF EmptyTable, Live
  <2> QED  BY <2>1, <2>2, <2>3, <2>4 DEF FreeListsRest
<1> QED  BY <1>1, <1>2, <1>3, <1>4 DEF Consistent

-----------------------------------------------------------------------------
(* The steps of admit. *)

\* In a consistent table no two blocks hold the same tokens under the same
\* bundle, so _release always forgets the pairing of the block it drops.
LEMMA PairingsAreUnique ==
  ASSUME NEW t, NEW aside, Consistent(t, aside),
         NEW p \in Live(t), NEW q \in Live(t),
         t.meta[p].run = t.meta[q].run, t.meta[p].bundle = t.meta[q].bundle
  PROVE  p = q
BY DEF Consistent, AddressesAgree

\* _release: the block leaves the table and is out of circulation.
LEMMA ReleaseConsistent ==
  ASSUME NEW t, Consistent(t, {}), NEW p \in Live(t)
  PROVE  /\ Consistent(Release(t, p), {p})
         /\ Live(Release(t, p)) = Live(t) \ {p}
         /\ DOMAIN Release(t, p).byKey = DOMAIN t.byKey \ {t.meta[p].key}
<1> DEFINE u == Release(t, p)
           m == t.meta[p]
<1>1. t \in Tables /\ AddressesAgree(t) /\ OrderListsLive(t)
      /\ RunsOfLive(t) /\ FreeListsRest(t, {})
  BY DEF Consistent
<1>2. /\ DOMAIN t.byKey \subseteq Keys
      /\ \A k \in DOMAIN t.byKey : t.byKey[k] \in Physicals
      /\ Live(t) \subseteq Physicals
      /\ \A q \in Live(t) : t.meta[q] \in Entries
      /\ t.order \in Seq(Physicals)
      /\ DOMAIN t.runs \subseteq Runs
      /\ \A r \in DOMAIN t.runs : t.runs[r] \subseteq Bundles
      /\ t.runs \in PartialFunctions(Runs, SUBSET Bundles)
      /\ t.free \in Seq(Physicals)
  BY <1>1, TableFields
<1>3. /\ Live(u) = Live(t) \ {p}
      /\ \A q \in Live(u) : u.meta[q] = t.meta[q]
      /\ DOMAIN u.byKey = DOMAIN t.byKey \ {m.key}
      /\ \A k \in DOMAIN u.byKey : u.byKey[k] = t.byKey[k]
      /\ u.order = RemoveFirst(t.order, p)
      /\ u.runs = RunsWithout(t, p)
      /\ u.free = t.free
  BY DEF Release, Live
<1>4. AddressesAgree(u)
  BY <1>1, <1>3 DEF AddressesAgree
<1>5. /\ u.order \in Seq(Physicals)
      /\ OrderListsLive(u)
  BY <1>1, <1>2, <1>3, RemoveMember DEF OrderListsLive
<1>6. /\ u.runs \in PartialFunctions(Runs, SUBSET Bundles)
      /\ RunsOfLive(u)
  <2> DEFINE left == t.runs[m.run] \ {m.bundle}
  <2>1. ~ \E q \in Live(t) \ {p} :
            t.meta[q].run = m.run /\ t.meta[q].bundle = m.bundle
    BY PairingsAreUnique
  <2>2. m.run \in DOMAIN t.runs /\ m.bundle \in t.runs[m.run]
    BY <1>1 DEF RunsOfLive
  <2>3. CASE left = {}
    <3>1. u.runs = [r \in DOMAIN t.runs \ {m.run} |-> t.runs[r]]
      BY <2>1, <2>2, <2>3, <1>3 DEF RunsWithout
    <3>2. u.runs \in PartialFunctions(Runs, SUBSET Bundles)
      <4>1. DOMAIN t.runs \ {m.run} \in SUBSET Runs
        BY <1>2
      <4>2. u.runs \in [DOMAIN t.runs \ {m.run} -> SUBSET Bundles]
        BY <3>1, <1>2
      <4> QED  BY <4>1, <4>2, PartialFunctionIntro
    <3>3. ASSUME NEW q \in Live(u)
          PROVE  /\ u.meta[q].run \in DOMAIN u.runs
                 /\ u.meta[q].bundle \in u.runs[u.meta[q].run]
      <4>1. /\ t.meta[q].run \in DOMAIN t.runs
            /\ t.meta[q].bundle \in t.runs[t.meta[q].run]
        BY <1>1, <1>3 DEF RunsOfLive
      <4>2. t.meta[q].run # m.run
        BY <4>1, <2>1, <2>3, <1>3
      <4> QED  BY <4>1, <4>2, <3>1, <1>3
    <3>4. ASSUME NEW r \in DOMAIN u.runs
          PROVE  /\ u.runs[r] # {}
                 /\ \A b \in u.runs[r] : \E q \in Live(u) :
                      u.meta[q].run = r /\ u.meta[q].bundle = b
      <4>1. r \in DOMAIN t.runs /\ r # m.run /\ u.runs[r] = t.runs[r]
        BY <3>1
      <4>2. /\ t.runs[r] # {}
            /\ \A b \in t.runs[r] : \E q \in Live(t) :
                 t.meta[q].run = r /\ t.meta[q].bundle = b
        BY <4>1, <1>1 DEF RunsOfLive
      <4> QED  BY <4>1, <4>2, <1>3
    <3> QED  BY <3>2, <3>3, <3>4 DEF RunsOfLive
  <2>4. CASE left # {}
    <3>1. u.runs = [t.runs EXCEPT ![m.run] = left]
      BY <2>1, <2>2, <2>4, <1>3 DEF RunsWithout
    <3>2. /\ DOMAIN u.runs = DOMAIN t.runs
          /\ u.runs[m.run] = left
          /\ \A r \in DOMAIN t.runs \ {m.run} : u.runs[r] = t.runs[r]
      BY <3>1, <2>2
    <3>3. u.runs \in PartialFunctions(Runs, SUBSET Bundles)
      <4>1. DOMAIN t.runs \in SUBSET Runs
        BY <1>2
      <4>2. t.runs \in [DOMAIN t.runs -> SUBSET Bundles]
        BY <1>1, <1>2, TableFields
      <4>3. left \in SUBSET Bundles
        BY <2>2, <1>2
      <4>4. u.runs \in [DOMAIN t.runs -> SUBSET Bundles]
        BY <4>2, <4>3, <3>1
      <4> QED  BY <4>1, <4>4, PartialFunctionIntro
    <3>4. ASSUME NEW q \in Live(u)
          PROVE  /\ u.meta[q].run \in DOMAIN u.runs
                 /\ u.meta[q].bundle \in u.runs[u.meta[q].run]
      <4>1. /\ t.meta[q].run \in DOMAIN t.runs
            /\ t.meta[q].bundle \in t.runs[t.meta[q].run]
        BY <1>1, <1>3 DEF RunsOfLive
      <4>2. t.meta[q].run = m.run => t.meta[q].bundle # m.bundle
        BY <2>1, <1>3
      <4> QED  BY <4>1, <4>2, <3>2, <1>3
    <3>5. ASSUME NEW r \in DOMAIN u.runs
          PROVE  /\ u.runs[r] # {}
                 /\ \A b \in u.runs[r] : \E q \in Live(u) :
                      u.meta[q].run = r /\ u.meta[q].bundle = b
      <4>1. /\ r \in DOMAIN t.runs
            /\ u.runs[r] = IF r = m.run THEN left ELSE t.runs[r]
        BY <3>2
      <4>2. /\ t.runs[r] # {}
            /\ \A b \in t.runs[r] : \E q \in Live(t) :
                 t.meta[q].run = r /\ t.meta[q].bundle = b
        BY <4>1, <1>1 DEF RunsOfLive
      <4>3. u.runs[r] # {}
        BY <4>1, <4>2, <2>4
      <4>4. ASSUME NEW b \in u.runs[r]
            PROVE  \E q \in Live(u) : u.meta[q].run = r /\ u.meta[q].bundle = b
        <5>1. b \in t.runs[r] /\ ~ (r = m.run /\ b = m.bundle)
          BY <4>1
        <5>2. PICK q \in Live(t) : t.meta[q].run = r /\ t.meta[q].bundle = b
          BY <5>1, <4>2
        <5> QED  BY <5>1, <5>2, <1>3
      <4> QED  BY <4>3, <4>4
    <3> QED  BY <3>3, <3>4, <3>5 DEF RunsOfLive
  <2> QED  BY <2>3, <2>4
<1>7. FreeListsRest(u, {p})
  BY <1>1, <1>3 DEF FreeListsRest
<1>8. u \in Tables
  <2>1. u.byKey \in PartialFunctions(Keys, Physicals)
    <3>1. DOMAIN t.byKey \ {m.key} \in SUBSET Keys
      BY <1>2
    <3>2. u.byKey \in [DOMAIN t.byKey \ {m.key} -> Physicals]
      BY <1>2 DEF Release
    <3> QED  BY <3>1, <3>2, PartialFunctionIntro
  <2>2. u.meta \in PartialFunctions(Physicals, Entries)
    <3>1. Live(t) \ {p} \in SUBSET Physicals
      BY <1>2
    <3>2. u.meta \in [Live(t) \ {p} -> Entries]
      BY <1>2 DEF Release
    <3> QED  BY <3>1, <3>2, PartialFunctionIntro
  <2>3. u.free \in Seq(Physicals)
    BY <1>2, <1>3
  <2> QED  BY <2>1, <2>2, <2>3, <1>5, <1>6 DEF Release, Tables
<1> QED  BY <1>3, <1>4, <1>5, <1>6, <1>7, <1>8 DEF Consistent

\* The binding that ends admit puts the block that was out of circulation
\* under an address that was not bound.
LEMMA BindConsistent ==
  ASSUME NEW t, NEW p \in Physicals, Consistent(t, {p}), p \notin Live(t),
         NEW run \in Runs, NEW bundle \in Bundles,
         BlockKey(run, bundle) \notin DOMAIN t.byKey
  PROVE  /\ Consistent(Bind(t, p, run, bundle), {})
         /\ Live(Bind(t, p, run, bundle)) = Live(t) \cup {p}
         /\ Bind(t, p, run, bundle).meta[p] =
              [key |-> BlockKey(run, bundle), run |-> run, bundle |-> bundle]
         /\ \A q \in Live(t) :
              Bind(t, p, run, bundle).meta[q] = t.meta[q]
<1> DEFINE u == Bind(t, p, run, bundle)
           key == BlockKey(run, bundle)
<1>1. t \in Tables /\ AddressesAgree(t) /\ OrderListsLive(t)
      /\ RunsOfLive(t) /\ FreeListsRest(t, {p})
  BY DEF Consistent
<1>2. /\ DOMAIN t.byKey \subseteq Keys
      /\ \A k \in DOMAIN t.byKey : t.byKey[k] \in Physicals
      /\ Live(t) \subseteq Physicals
      /\ \A q \in Live(t) : t.meta[q] \in Entries
      /\ t.order \in Seq(Physicals)
      /\ DOMAIN t.runs \subseteq Runs
      /\ \A r \in DOMAIN t.runs : t.runs[r] \subseteq Bundles
      /\ t.free \in Seq(Physicals)
  BY <1>1, TableFields
<1>3. key \in Keys
  BY DEF Keys, BlockKey
<1>4. /\ Live(u) = Live(t) \cup {p}
      /\ u.meta[p] = [key |-> key, run |-> run, bundle |-> bundle]
      /\ \A q \in Live(t) : u.meta[q] = t.meta[q]
      /\ u.byKey = [k \in DOMAIN t.byKey \cup {key} |->
                      IF k = key THEN p ELSE t.byKey[k]]
      /\ DOMAIN u.byKey = DOMAIN t.byKey \cup {key}
      /\ u.byKey[key] = p
      /\ \A k \in DOMAIN t.byKey : u.byKey[k] = t.byKey[k]
      /\ u.order = Append(t.order, p)
      /\ u.free = t.free
  BY DEF Bind, Live
<1>5. /\ DOMAIN u.runs = DOMAIN t.runs \cup {run}
      /\ \A r \in DOMAIN u.runs :
           u.runs[r] = (IF r \in DOMAIN t.runs THEN t.runs[r] ELSE {})
                         \cup (IF r = run THEN {bundle} ELSE {})
  BY DEF Bind
<1>6. AddressesAgree(u)
  BY <1>1, <1>4 DEF AddressesAgree
<1>7. u.order \in Seq(Physicals) /\ OrderListsLive(u)
  BY <1>1, <1>2, <1>4, AppendNew DEF OrderListsLive
<1>8. RunsOfLive(u)
  <2>1. ASSUME NEW q \in Live(u)
        PROVE  /\ u.meta[q].run \in DOMAIN u.runs
               /\ u.meta[q].bundle \in u.runs[u.meta[q].run]
    <3>1. CASE q = p
      BY <3>1, <1>4, <1>5
    <3>2. CASE q # p
      BY <3>2, <1>1, <1>4, <1>5 DEF RunsOfLive
    <3> QED  BY <3>1, <3>2
  <2>2. ASSUME NEW r \in DOMAIN u.runs
        PROVE  u.runs[r] # {}
    BY <1>1, <1>5 DEF RunsOfLive
  <2>3. ASSUME NEW r \in DOMAIN u.runs, NEW b \in u.runs[r]
        PROVE  \E q \in Live(u) : u.meta[q].run = r /\ u.meta[q].bundle = b
    <3>1. CASE r = run /\ b = bundle
      BY <3>1, <1>4
    <3>2. CASE ~ (r = run /\ b = bundle)
      <4>1. r \in DOMAIN t.runs /\ b \in t.runs[r]
        BY <3>2, <1>5
      <4>2. PICK q \in Live(t) : t.meta[q].run = r /\ t.meta[q].bundle = b
        BY <4>1, <1>1 DEF RunsOfLive
      <4> QED  BY <4>2, <1>4
    <3> QED  BY <3>1, <3>2
  <2> QED  BY <2>1, <2>2, <2>3 DEF RunsOfLive
<1>9. FreeListsRest(u, {})
  BY <1>1, <1>4 DEF FreeListsRest
<1>10. u \in Tables
  <2>1. u.byKey \in PartialFunctions(Keys, Physicals)
    <3>1. DOMAIN t.byKey \cup {key} \in SUBSET Keys
      BY <1>2, <1>3
    <3>2. u.byKey \in [DOMAIN t.byKey \cup {key} -> Physicals]
      BY <1>2, <1>4
    <3> QED  BY <3>1, <3>2, PartialFunctionIntro
  <2>2. u.meta \in PartialFunctions(Physicals, Entries)
    <3>1. Live(t) \cup {p} \in SUBSET Physicals
      BY <1>2
    <3>2. [key |-> key, run |-> run, bundle |-> bundle] \in Entries
      BY <1>3 DEF Entries
    <3>3. u.meta \in [Live(t) \cup {p} -> Entries]
      BY <3>2, <1>2 DEF Bind
    <3> QED  BY <3>1, <3>3, PartialFunctionIntro
  <2>3. u.runs \in PartialFunctions(Runs, SUBSET Bundles)
    <3>1. DOMAIN t.runs \cup {run} \in SUBSET Runs
      BY <1>2
    <3>2. u.runs \in [DOMAIN t.runs \cup {run} -> SUBSET Bundles]
      BY <1>2 DEF Bind
    <3> QED  BY <3>1, <3>2, PartialFunctionIntro
  <2>4. u.free \in Seq(Physicals)
    BY <1>2, <1>4
  <2> QED  BY <2>1, <2>2, <2>3, <2>4, <1>7 DEF Bind, Tables
<1> QED  BY <1>4, <1>6, <1>7, <1>8, <1>9, <1>10 DEF Consistent

\* Changing only the free list keeps every other part of a table as it was.
LEMMA FreeListOnly ==
  ASSUME NEW t, NEW aside, Consistent(t, aside),
         NEW free \in Seq(Physicals)
  PROVE  LET u == [t EXCEPT !.free = free]
         IN  /\ u.byKey = t.byKey
             /\ u.meta = t.meta
             /\ u.order = t.order
             /\ u.runs = t.runs
             /\ u.free = free
             /\ u \in Tables
             /\ Live(u) = Live(t)
             /\ AddressesAgree(u)
             /\ OrderListsLive(u)
             /\ RunsOfLive(u)
<1> DEFINE u == [t EXCEPT !.free = free]
<1>1. t \in Tables
  BY DEF Consistent
<1>2. /\ u.byKey = t.byKey
      /\ u.meta = t.meta
      /\ u.order = t.order
      /\ u.runs = t.runs
      /\ u.free = free
      /\ u \in Tables
  BY <1>1 DEF Tables
<1>3. Live(u) = Live(t)
  BY <1>2 DEF Live
<1> HIDE DEF u
<1>4. AddressesAgree(u) /\ OrderListsLive(u) /\ RunsOfLive(u)
  BY <1>2, <1>3 DEF Consistent, AddressesAgree, OrderListsLive, RunsOfLive
<1> QED  BY <1>2, <1>3, <1>4 DEF u

\* _free.pop() takes a block that is not live out of circulation.
LEMMA PopFreeConsistent ==
  ASSUME NEW t, Consistent(t, {}), t.free # << >>
  PROVE  /\ Last(t.free) \in Physicals
         /\ Last(t.free) \notin Live(t)
         /\ Consistent(PopFree(t), {Last(t.free)})
         /\ Live(PopFree(t)) = Live(t)
         /\ PopFree(t).meta = t.meta
         /\ PopFree(t).byKey = t.byKey
<1> DEFINE p == Last(t.free)
           u == PopFree(t)
<1>1. t.free \in Seq(Physicals)
  BY TableFields DEF Consistent
<1>2. IsInjective(t.free) /\ ToSet(t.free) = Physicals \ Live(t)
  BY DEF Consistent, FreeListsRest
<1>3. /\ p \in ToSet(t.free)
      /\ Front(t.free) \in Seq(Physicals)
      /\ IsInjective(Front(t.free))
      /\ ToSet(Front(t.free)) = ToSet(t.free) \ {p}
  BY <1>1, <1>2, PopLast
<1>4. u = [t EXCEPT !.free = Front(t.free)]
  BY DEF PopFree
<1>5. /\ u.byKey = t.byKey /\ u.meta = t.meta /\ u.free = Front(t.free)
      /\ u \in Tables /\ Live(u) = Live(t)
      /\ AddressesAgree(u) /\ OrderListsLive(u) /\ RunsOfLive(u)
  BY <1>3, <1>4, FreeListOnly
<1>6. FreeListsRest(u, {p})
  BY <1>2, <1>3, <1>5 DEF FreeListsRest
<1> QED  BY <1>2, <1>3, <1>5, <1>6 DEF Consistent

\* _free.remove(physical), under its guard, takes the block the caller named
\* out of circulation, whether it was free or has just been released.
LEMMA TakeFreeConsistent ==
  ASSUME NEW t, NEW p \in Physicals, NEW aside \in {{}, {p}},
         Consistent(t, aside), p \notin Live(t)
  PROVE  /\ Consistent(TakeFree(t, p), {p})
         /\ Live(TakeFree(t, p)) = Live(t)
         /\ TakeFree(t, p).meta = t.meta
         /\ TakeFree(t, p).byKey = t.byKey
<1> DEFINE f == RemoveFirst(t.free, p)
           u == TakeFree(t, p)
<1>1. t.free \in Seq(Physicals)
  BY TableFields DEF Consistent
<1>2. /\ IsInjective(t.free)
      /\ ToSet(t.free) = Physicals \ (Live(t) \cup aside)
  BY DEF Consistent, FreeListsRest
<1>3. /\ f \in Seq(Physicals)
      /\ IsInjective(f)
      /\ ToSet(f) = ToSet(t.free) \ {p}
  <2>1. CASE aside = {}
    BY <2>1, <1>1, <1>2, RemoveMember
  <2>2. CASE aside = {p}
    <3>1. p \notin ToSet(t.free)
      BY <2>2, <1>2
    <3>2. f = t.free
      BY <3>1, <1>1, RemoveAbsent
    <3> QED  BY <3>1, <3>2, <1>1, <1>2
  <2> QED  BY <2>1, <2>2
<1>4. u = [t EXCEPT !.free = f]
  BY DEF TakeFree
<1>5. /\ u.byKey = t.byKey /\ u.meta = t.meta /\ u.free = f
      /\ u \in Tables /\ Live(u) = Live(t)
      /\ AddressesAgree(u) /\ OrderListsLive(u) /\ RunsOfLive(u)
  BY <1>3, <1>4, FreeListOnly
<1>6. FreeListsRest(u, {p})
  BY <1>2, <1>3, <1>5 DEF FreeListsRest
<1> QED  BY <1>5, <1>6 DEF Consistent

\* A consistent table without a free block has every block bound, so there
\* is a block to evict: _evict_one never returns empty-handed from admit.
LEMMA FullTable ==
  ASSUME NEW t, Consistent(t, {}), t.free = << >>
  PROVE  /\ Live(t) = Physicals
         /\ t.order # << >>
         /\ Oldest(t) \in Live(t)
<1>1. Live(t) \subseteq Physicals /\ t.order \in Seq(Physicals)
  BY TableFields DEF Consistent
<1>2. Live(t) = Physicals
  <2>1. ToSet(<< >>) = {}
    BY DEF ToSet
  <2>2. ToSet(t.free) = Physicals \ (Live(t) \cup {})
    BY DEF Consistent, FreeListsRest
  <2> QED  BY <2>1, <2>2, <1>1
<1>3. 0 \in Physicals
  BY BlockTableAssumption DEF Physicals
<1>4. ToSet(t.order) = Live(t)
  BY DEF Consistent, OrderListsLive
<1>5. t.order # << >>
  BY <1>2, <1>3, <1>4 DEF ToSet
<1> QED  BY <1>1, <1>2, <1>4, <1>5, HeadMember DEF Oldest

\* _evict_one followed by _free.pop(): the oldest block is out of
\* circulation, and it is the one popped.
LEMMA EvictThenPop ==
  ASSUME NEW t, Consistent(t, {}), t.free = << >>
  PROVE  LET p == Oldest(t)
             u == PopFree(Evict(t))
         IN  /\ p \in Physicals
             /\ Last(Evict(t).free) = p
             /\ Consistent(u, {p})
             /\ Live(u) = Physicals \ {p}
             /\ u.meta = Release(t, p).meta
             /\ u.byKey = Release(t, p).byKey
<1> DEFINE p == Oldest(t)
           r == Release(t, p)
           e == Evict(t)
           u == PopFree(e)
<1>1. /\ Live(t) = Physicals
      /\ p \in Live(t)
  BY FullTable
<1>2. /\ Consistent(r, {p})
      /\ Live(r) = Physicals \ {p}
  BY <1>1, ReleaseConsistent
<1>3. /\ r.free \in Seq(Physicals)
      /\ IsInjective(r.free)
      /\ ToSet(r.free) = Physicals \ (Live(r) \cup {p})
  BY <1>2, TableFields DEF Consistent, FreeListsRest
<1>4. e = [r EXCEPT !.free = Append(r.free, p)]
  BY DEF Evict
<1>5. r \in Tables /\ r.free \in Seq(Physicals)
  BY <1>2, <1>3 DEF Consistent
<1>6. /\ e.free = Append(r.free, p)
      /\ u = [r EXCEPT !.free = Front(Append(r.free, p))]
  BY <1>4, <1>5 DEF PopFree, Tables
<1>7. /\ Last(Append(r.free, p)) = p
      /\ Front(Append(r.free, p)) = r.free
  BY <1>1, <1>3, AppendNew
<1>8. u = r
  BY <1>5, <1>6, <1>7 DEF Tables
<1> QED  BY <1>1, <1>2, <1>6, <1>7, <1>8

-----------------------------------------------------------------------------
(* The admissions as a whole. *)

\* What a step that admits (run, bundle) into block p does to the table: it
\* stays consistent, p is the only block whose entry changes, and the only
\* address that can disappear is the one p was bound to.
Displaced(p) == IF p \in Live(table) THEN {table.meta[p].key} ELSE {}

Binds(p, run, bundle) ==
  /\ p \in Physicals
  /\ run \in Runs /\ bundle \in Bundles
  /\ BlockKey(run, bundle) \notin DOMAIN table.byKey
  /\ Consistent(table', {})
  /\ Live(table') = Live(table) \cup {p}
  /\ table'.meta[p] =
       [key |-> BlockKey(run, bundle), run |-> run, bundle |-> bundle]
  /\ \A q \in Live(table) \ {p} : table'.meta[q] = table.meta[q]
  /\ table'.byKey =
       [k \in (DOMAIN table.byKey \ Displaced(p)) \cup {BlockKey(run, bundle)} |->
          IF k = BlockKey(run, bundle) THEN p ELSE table.byKey[k]]
  /\ reply' = Returned("admit", run, bundle, "admitted", p)

\* The end of admit keeps the table consistent, provided block p is the one
\* that was taken out of circulation and its address is not bound.
LEMMA AdmittedBinds ==
  ASSUME Consistent(table, {}), NEW t, NEW s, NEW log, NEW p \in Physicals,
         NEW run \in Runs, NEW bundle \in Bundles,
         BlockKey(run, bundle) \notin DOMAIN table.byKey,
         Consistent(t, {p}),
         Live(t) = Live(table) \ {p},
         \A q \in Live(t) : t.meta[q] = table.meta[q],
         t.byKey = [k \in DOMAIN table.byKey \ Displaced(p) |-> table.byKey[k]],
         Admitted(t, s, log, p, run, bundle)
  PROVE  Binds(p, run, bundle)
<1> DEFINE key == BlockKey(run, bundle)
           u == Bind(t, p, run, bundle)
<1>1. /\ table' = u
      /\ reply' = Returned("admit", run, bundle, "admitted", p)
  BY DEF Admitted
<1>2. p \notin Live(t) /\ key \notin DOMAIN t.byKey
  OBVIOUS
<1>3. /\ Consistent(u, {})
      /\ Live(u) = Live(t) \cup {p}
      /\ u.meta[p] = [key |-> key, run |-> run, bundle |-> bundle]
      /\ \A q \in Live(t) : u.meta[q] = t.meta[q]
  BY <1>2, BindConsistent
<1>4. u.byKey = [k \in (DOMAIN table.byKey \ Displaced(p)) \cup {key} |->
                   IF k = key THEN p ELSE table.byKey[k]]
  BY DEF Bind
<1> HIDE DEF u, key
<1>5. Live(u) = Live(table) \cup {p}
  BY <1>3
<1>6. \A q \in Live(table) \ {p} : u.meta[q] = table.meta[q]
  BY <1>3
<1>7. /\ u.meta[p] = [key |-> key, run |-> run, bundle |-> bundle]
      /\ Consistent(u, {})
  BY <1>3
<1> QED  BY <1>1, <1>4, <1>5, <1>6, <1>7 DEF Binds, key

\* An accepted admission of a new address has admissible arguments.
LEMMA NewAddress ==
  ASSUME NEW raw \in RawRuns, NEW bundle, NEW arg \in PhysicalArgs,
         AdmitsNew(raw, bundle, arg)
  PROVE  /\ raw.ids \in Runs /\ bundle \in Bundles
         /\ BlockKey(raw.ids, bundle) \notin DOMAIN table.byKey
         /\ arg.given => arg.val \in Physicals
BY DEF AdmitsNew, AdmitAccepted, ValidPhysical, RawRuns

\* admit into a free block: one address is bound to one block.
LEMMA AdmitFreeBinds ==
  ASSUME Consistent(table, {}), NEW raw \in RawRuns, NEW bundle,
         NEW arg \in PhysicalArgs, AdmitFree(raw, bundle, arg)
  PROVE  /\ Binds(Last(table.free), raw.ids, bundle)
         /\ Last(table.free) \notin Live(table)
<1> DEFINE t == PopFree(table)
           p == Last(table.free)
<1>1. /\ raw.ids \in Runs /\ bundle \in Bundles
      /\ BlockKey(raw.ids, bundle) \notin DOMAIN table.byKey
  BY NewAddress DEF AdmitFree
<1>2. /\ p \in Physicals /\ p \notin Live(table)
      /\ Consistent(t, {p}) /\ Live(t) = Live(table)
      /\ t.meta = table.meta /\ t.byKey = table.byKey
  BY PopFreeConsistent DEF AdmitFree
<1>3. table.byKey = [k \in DOMAIN table.byKey |-> table.byKey[k]]
  BY TableFields DEF Consistent, PartialFunctions
<1>4. t.byKey = [k \in DOMAIN table.byKey \ Displaced(p) |-> table.byKey[k]]
  BY <1>2, <1>3 DEF Displaced
<1>5. Admitted(t, stats, rows, p, raw.ids, bundle)
  BY DEF AdmitFree
<1> HIDE DEF t, p
<1>6. Live(t) = Live(table) \ {p} /\ \A q \in Live(t) : t.meta[q] = table.meta[q]
  BY <1>2
<1>7. Binds(p, raw.ids, bundle)
  BY <1>1, <1>2, <1>4, <1>5, <1>6, AdmittedBinds
<1> QED  BY <1>2, <1>7 DEF p

\* admit into a full table: one address is bound to the evicted block.
LEMMA AdmitEvictingBinds ==
  ASSUME Consistent(table, {}), NEW raw \in RawRuns, NEW bundle,
         NEW arg \in PhysicalArgs, AdmitEvicting(raw, bundle, arg)
  PROVE  /\ Binds(Oldest(table), raw.ids, bundle)
         /\ Live(table) = Physicals
         /\ stats' = Count(Count(stats, "evicted"), "admitted")
<1> DEFINE e == Evict(table)
           t == PopFree(e)
           p == Oldest(table)
           s == Count(stats, "evicted")
           log == Emit(rows, EvictReceipt(p))
<1>1. /\ raw.ids \in Runs /\ bundle \in Bundles
      /\ BlockKey(raw.ids, bundle) \notin DOMAIN table.byKey
      /\ table.free = << >>
  BY NewAddress DEF AdmitEvicting
<1>2. Live(table) = Physicals /\ p \in Live(table)
  BY <1>1, FullTable
<1>3. /\ Last(e.free) = p
      /\ Consistent(t, {p}) /\ Live(t) = Physicals \ {p}
      /\ t.meta = Release(table, p).meta
      /\ t.byKey = Release(table, p).byKey
  BY <1>1, EvictThenPop
<1>4. /\ \A q \in Live(table) \ {p} : t.meta[q] = table.meta[q]
      /\ t.byKey = [k \in DOMAIN table.byKey \ Displaced(p) |-> table.byKey[k]]
  BY <1>2, <1>3 DEF Release, Displaced
<1>5. /\ Admitted(t, s, log, p, raw.ids, bundle)
      /\ stats' = Count(s, "admitted")
  BY <1>3 DEF AdmitEvicting, Admitted
<1>6. stats' = Count(Count(stats, "evicted"), "admitted")
  BY <1>5
<1> HIDE DEF t, p, s, log, e
<1>7. /\ p \in Physicals
      /\ Live(t) = Live(table) \ {p}
      /\ \A q \in Live(t) : t.meta[q] = table.meta[q]
  BY <1>2, <1>3, <1>4
<1>8. Consistent(t, {p}) /\ Admitted(t, s, log, p, raw.ids, bundle)
  BY <1>3, <1>5
<1>9. Binds(p, raw.ids, bundle)
  BY <1>1, <1>4, <1>7, <1>8, AdmittedBinds
<1> QED  BY <1>2, <1>9, <1>6, Zenon DEF p

\* admit at a named block nothing is bound to: it is bound.
LEMMA AdmitAtBinds ==
  ASSUME Consistent(table, {}), NEW raw \in RawRuns, NEW bundle,
         NEW arg \in PhysicalArgs, AdmitAt(raw, bundle, arg)
  PROVE  /\ Binds(arg.val, raw.ids, bundle)
         /\ arg.val \notin Live(table)
<1> DEFINE p == arg.val
           t == TakeFree(table, p)
<1>1. /\ raw.ids \in Runs /\ bundle \in Bundles
      /\ BlockKey(raw.ids, bundle) \notin DOMAIN table.byKey
      /\ p \in Physicals /\ p \notin Live(table)
  BY NewAddress DEF AdmitAt
<1>2. /\ Consistent(t, {p}) /\ Live(t) = Live(table)
      /\ t.meta = table.meta /\ t.byKey = table.byKey
  BY <1>1, TakeFreeConsistent, {} \in {{}, {p}}
<1>3. table.byKey = [k \in DOMAIN table.byKey |-> table.byKey[k]]
  BY TableFields DEF Consistent, PartialFunctions
<1>4. t.byKey = [k \in DOMAIN table.byKey \ Displaced(p) |-> table.byKey[k]]
  BY <1>1, <1>2, <1>3 DEF Displaced
<1>5. Admitted(t, stats, rows, p, raw.ids, bundle)
  BY DEF AdmitAt
<1> HIDE DEF t, p
<1>6. Live(t) = Live(table) \ {p} /\ \A q \in Live(t) : t.meta[q] = table.meta[q]
  BY <1>1, <1>2
<1>7. Binds(p, raw.ids, bundle)
  BY <1>1, <1>2, <1>4, <1>5, <1>6, AdmittedBinds
<1> QED  BY <1>1, <1>7 DEF p

\* admit at a named block that is bound: it is released and bound again.
LEMMA AdmitRebindBinds ==
  ASSUME Consistent(table, {}), NEW raw \in RawRuns, NEW bundle,
         NEW arg \in PhysicalArgs, AdmitRebind(raw, bundle, arg)
  PROVE  /\ Binds(arg.val, raw.ids, bundle)
         /\ arg.val \in Live(table)
         /\ ~ Strict \/ table.meta[arg.val].bundle = bundle
<1> DEFINE p == arg.val
           r == Release(table, p)
           t == TakeFree(r, p)
<1>1. /\ raw.ids \in Runs /\ bundle \in Bundles
      /\ BlockKey(raw.ids, bundle) \notin DOMAIN table.byKey
      /\ p \in Physicals /\ p \in Live(table)
  BY NewAddress DEF AdmitRebind
<1>2. Consistent(r, {p}) /\ Live(r) = Live(table) \ {p}
  BY <1>1, ReleaseConsistent
<1>3. /\ Consistent(t, {p}) /\ Live(t) = Live(r)
      /\ t.meta = r.meta /\ t.byKey = r.byKey
  BY <1>1, <1>2, TakeFreeConsistent, {p} \in {{}, {p}}
<1>4. /\ \A q \in Live(table) \ {p} : t.meta[q] = table.meta[q]
      /\ t.byKey = [k \in DOMAIN table.byKey \ Displaced(p) |-> table.byKey[k]]
  BY <1>1, <1>3 DEF Release, Displaced
<1>5. Admitted(t, stats, rows, p, raw.ids, bundle)
  BY DEF AdmitRebind
<1>6. ~ Strict \/ table.meta[p].bundle = bundle
  BY DEF AdmitRebind, ForeignBlock
<1> HIDE DEF t, p, r
<1>7. /\ Live(t) = Live(table) \ {p}
      /\ \A q \in Live(t) : t.meta[q] = table.meta[q]
  BY <1>2, <1>3, <1>4
<1>8. Consistent(t, {p})
  BY <1>3
<1>9. Binds(p, raw.ids, bundle)
  BY <1>1, <1>4, <1>5, <1>7, <1>8, AdmittedBinds
<1> QED  BY <1>1, <1>6, <1>9, Zenon DEF p

-----------------------------------------------------------------------------
(* The table is consistent in every reachable state. *)

\* A step either leaves the table alone or binds one address to one block.
LEMMA StepBindsOrKeeps ==
  ASSUME Consistent(table, {}), [Next]_vars
  PROVE  \/ table' = table
         \/ \E p \in Physicals, run \in Runs, bundle \in Bundles :
              Binds(p, run, bundle)
<1>1. CASE UNCHANGED vars
  BY <1>1 DEF vars
<1>2. CASE Next
  <2>1. PICK raw \in RawRuns, bundle \in Bundles \cup {NotABundle} :
          \/ Lookup(raw, bundle)
          \/ LookupRefused(raw, bundle)
          \/ \E arg \in PhysicalArgs : Admit(raw, bundle, arg)
    BY <1>2 DEF Next
  <2>2. CASE Lookup(raw, bundle) \/ LookupRefused(raw, bundle)
    BY <2>2 DEF Lookup, LookupRefused
  <2>3. ASSUME NEW arg \in PhysicalArgs, Admit(raw, bundle, arg)
        PROVE  \/ table' = table
               \/ \E p \in Physicals, run \in Runs, b \in Bundles :
                    Binds(p, run, b)
    <3>1. CASE \/ AdmitRefused(raw, bundle, arg)
               \/ AdmitExisting(raw, bundle, arg)
               \/ AdmitRejected(raw, bundle, arg)
      BY <3>1 DEF AdmitRefused, AdmitExisting, AdmitRejected
    <3>2. CASE AdmitFree(raw, bundle, arg)
      <4>1. Binds(Last(table.free), raw.ids, bundle)
        BY <3>2, AdmitFreeBinds
      <4> QED  BY <4>1 DEF Binds
    <3>3. CASE AdmitEvicting(raw, bundle, arg)
      <4>1. Binds(Oldest(table), raw.ids, bundle)
        BY <3>3, AdmitEvictingBinds
      <4> QED  BY <4>1 DEF Binds
    <3>4. CASE AdmitAt(raw, bundle, arg)
      <4>1. Binds(arg.val, raw.ids, bundle)
        BY <3>4, AdmitAtBinds
      <4> QED  BY <4>1 DEF Binds
    <3>5. CASE AdmitRebind(raw, bundle, arg)
      <4>1. Binds(arg.val, raw.ids, bundle)
        BY <3>5, AdmitRebindBinds
      <4> QED  BY <4>1 DEF Binds
    <3> QED  BY <2>3, <3>1, <3>2, <3>3, <3>4, <3>5 DEF Admit
  <2> QED  BY <2>1, <2>2, <2>3
<1> QED  BY <1>1, <1>2

\* No call of lookup or admit makes the table inconsistent.
LEMMA ConsistentStep ==
  ASSUME Consistent(table, {}), [Next]_vars
  PROVE  Consistent(table, {})'
<1>1. CASE table' = table
  BY <1>1 DEF Consistent, AddressesAgree, OrderListsLive, RunsOfLive,
       FreeListsRest, Live, Tables
<1>2. CASE \E p \in Physicals, run \in Runs, bundle \in Bundles :
             Binds(p, run, bundle)
  BY <1>2 DEF Binds, Consistent, AddressesAgree, OrderListsLive, RunsOfLive,
       FreeListsRest, Live, Tables
<1> QED  BY <1>1, <1>2, StepBindsOrKeeps

\* The table is consistent whatever calls were made: the invariant the
\* theorems below rest on.
THEOREM TableIsConsistent == Spec => []Consistent(table, {})
<1>1. Init => Consistent(table, {})
  BY EmptyTableConsistent DEF Init
<1>2. Consistent(table, {}) /\ [Next]_vars => Consistent(table, {})'
  BY ConsistentStep
<1> QED  BY <1>1, <1>2, PTL DEF Spec

\* _by_key and _meta never disagree, in any sequence of lookups, admissions,
\* evictions and rebindings.
THEOREM AddressBookHolds == Spec => []AddressBook
<1>1. Consistent(table, {}) => AddressBook
  BY DEF Consistent, AddressBook
<1> QED  BY <1>1, TableIsConsistent, PTL

\* No physical block is ever lost, bound twice, or free while it is bound.
THEOREM BlocksAreAccountedFor == Spec => []EveryBlockHasOnePlace
<1>1. Consistent(table, {}) => EveryBlockHasOnePlace
  BY DEF Consistent, EveryBlockHasOnePlace
<1> QED  BY <1>1, TableIsConsistent, PTL

\* The per-run memory of regimes stays exact, although it is updated apart
\* from the maps it summarises.
THEOREM RunsAreExact == Spec => []RunsAreLive
<1>1. Consistent(table, {}) => RunsAreLive
  BY DEF Consistent, RunsAreLive
<1> QED  BY <1>1, TableIsConsistent, PTL

-----------------------------------------------------------------------------
(* What callers are told is true. *)

Truthful == ServesOwnRegime /\ MissesToldApart

\* An address names its tokens and its bundle.
LEMMA BlockKeyInjective ==
  ASSUME NEW r1, NEW b1, NEW r2, NEW b2, BlockKey(r1, b1) = BlockKey(r2, b2)
  PROVE  r1 = r2 /\ b1 = b2
<1>1. /\ BlockKey(r1, b1).tokens = r1 /\ BlockKey(r1, b1).bundle = b1
      /\ BlockKey(r2, b2).tokens = r2 /\ BlockKey(r2, b2).bundle = b2
  BY DEF BlockKey
<1> QED  BY <1>1

\* The block a bound address resolves to holds that address's tokens under
\* that address's bundle.
LEMMA BoundAddress ==
  ASSUME NEW t, AddressesAgree(t), NEW run, NEW bundle,
         BlockKey(run, bundle) \in DOMAIN t.byKey
  PROVE  /\ t.byKey[BlockKey(run, bundle)] \in Live(t)
         /\ t.meta[t.byKey[BlockKey(run, bundle)]].run = run
         /\ t.meta[t.byKey[BlockKey(run, bundle)]].bundle = bundle
<1> DEFINE p == t.byKey[BlockKey(run, bundle)]
<1>1. p \in Live(t) /\ t.meta[p].key = BlockKey(run, bundle)
  BY DEF AddressesAgree
<1>2. t.meta[p].key = BlockKey(t.meta[p].run, t.meta[p].bundle)
  BY <1>1 DEF AddressesAgree
<1>3. BlockKey(t.meta[p].run, t.meta[p].bundle) = BlockKey(run, bundle)
  BY <1>1, <1>2
<1> HIDE DEF p
<1>4. t.meta[p].run = run /\ t.meta[p].bundle = bundle
  BY <1>3, BlockKeyInjective
<1> QED  BY <1>1, <1>4 DEF p

\* What lookup returns is true of the table.
LEMMA LookupTruthful ==
  ASSUME Consistent(table, {}), NEW raw \in RawRuns, NEW bundle,
         Lookup(raw, bundle)
  PROVE  Truthful'
<1> DEFINE run == raw.ids
           key == BlockKey(run, bundle)
           outcome == Outcome(table, run, bundle)
           physical == IF outcome = "hit" THEN table.byKey[key] ELSE -1
<1>1. /\ reply' = Returned("lookup", run, bundle, outcome, physical)
      /\ table' = table
  BY DEF Lookup
<1>2. AddressesAgree(table) /\ RunsOfLive(table)
  BY DEF Consistent
<1>3. /\ reply'.outcome = outcome /\ reply'.physical = physical
      /\ reply'.tokens = run /\ reply'.bundle = bundle
  BY <1>1 DEF Returned
<1>4. CASE key \in DOMAIN table.byKey
  <2>1. outcome = "hit" /\ physical = table.byKey[key]
    BY <1>4 DEF Outcome
  <2>2. /\ physical \in Live(table)
        /\ table.meta[physical].run = run
        /\ table.meta[physical].bundle = bundle
    BY <1>2, <1>4, <2>1, BoundAddress
  <2> QED  BY <1>1, <1>3, <2>1, <2>2
           DEF Truthful, ServesOwnRegime, MissesToldApart
<1>5. CASE key \notin DOMAIN table.byKey
  <2>1. \A p \in Live(table) :
          table.meta[p].run = run => table.meta[p].bundle # bundle
    BY <1>2, <1>5 DEF AddressesAgree
  <2>2. outcome \in {"miss_cold", "miss_cross_regime"}
    BY <1>5 DEF Outcome
  <2>3. outcome = "miss_cross_regime" =>
          \E p \in Live(table) : table.meta[p].run = run
    BY <1>2, <1>5 DEF Outcome, RunsOfLive
  <2>4. outcome = "miss_cold" =>
          \A p \in Live(table) : table.meta[p].run # run
    <3>1. ASSUME outcome = "miss_cold", run \in DOMAIN table.runs
          PROVE  FALSE
      <4>1. bundle \in table.runs[run]
        BY <3>1, <1>5 DEF Outcome
      <4>2. \E p \in Live(table) :
              table.meta[p].run = run /\ table.meta[p].bundle = bundle
        BY <3>1, <4>1, <1>2 DEF RunsOfLive
      <4> QED  BY <4>2, <2>1
    <3> QED  BY <3>1, <1>2 DEF RunsOfLive
  <2> HIDE DEF outcome, run
  <2> QED  BY <1>1, <1>3, <2>1, <2>2, <2>3, <2>4
           DEF Truthful, ServesOwnRegime, MissesToldApart
<1> QED  BY <1>4, <1>5

\* The block admit returns for an address it already holds is the right one.
LEMMA ExistingTruthful ==
  ASSUME Consistent(table, {}), NEW raw \in RawRuns, NEW bundle,
         NEW arg \in PhysicalArgs, AdmitExisting(raw, bundle, arg)
  PROVE  Truthful'
<1> DEFINE key == BlockKey(raw.ids, bundle)
           p == table.byKey[key]
<1>1. /\ reply' = Returned("admit", raw.ids, bundle, "existing", p)
      /\ table' = table
      /\ key \in DOMAIN table.byKey
  BY DEF AdmitExisting
<1>2. AddressesAgree(table)
  BY DEF Consistent
<1>3. /\ p \in Live(table)
      /\ table.meta[p].run = raw.ids
      /\ table.meta[p].bundle = bundle
  BY <1>1, <1>2, BoundAddress
<1> QED  BY <1>1, <1>3 DEF Truthful, ServesOwnRegime, MissesToldApart, Returned

\* The block a successful admission returns holds what its caller passed.
LEMMA BindsTruthful ==
  ASSUME NEW p, NEW run, NEW bundle, Binds(p, run, bundle)
  PROVE  Truthful'
<1>1. /\ reply' = Returned("admit", run, bundle, "admitted", p)
      /\ Live(table') = Live(table) \cup {p}
      /\ table'.meta[p] =
           [key |-> BlockKey(run, bundle), run |-> run, bundle |-> bundle]
  BY DEF Binds
<1>2. /\ p \in Live(table')
      /\ table'.meta[p].run = run
      /\ table'.meta[p].bundle = bundle
  BY <1>1
<1> QED  BY <1>1, <1>2
         DEF Truthful, ServesOwnRegime, MissesToldApart, Returned, Live

\* A call that raises returns no block and reports no miss.
LEMMA RaisedTruthful ==
  ASSUME NEW op, NEW error \in {"TypeError", "ValueError", "CrossRegimeError"},
         reply' = Raised(op, error)
  PROVE  Truthful'
BY DEF Truthful, ServesOwnRegime, MissesToldApart, Raised

\* Every call keeps the reply true of the table.
LEMMA TruthfulStep ==
  ASSUME Consistent(table, {}), Truthful, [Next]_vars
  PROVE  Truthful'
<1>1. CASE UNCHANGED vars
  BY <1>1 DEF vars, Truthful, ServesOwnRegime, MissesToldApart, Live
<1>2. CASE Next
  <2>1. PICK raw \in RawRuns, bundle \in Bundles \cup {NotABundle} :
          \/ Lookup(raw, bundle)
          \/ LookupRefused(raw, bundle)
          \/ \E arg \in PhysicalArgs : Admit(raw, bundle, arg)
    BY <1>2 DEF Next
  <2>2. CASE Lookup(raw, bundle)
    BY <2>2, LookupTruthful
  <2>3. CASE LookupRefused(raw, bundle)
    BY <2>3, RaisedTruthful DEF LookupRefused
  <2>4. ASSUME NEW arg \in PhysicalArgs, Admit(raw, bundle, arg)
        PROVE  Truthful'
    <3>1. CASE AdmitRefused(raw, bundle, arg)
      <4>1. \/ reply' = Raised("admit", "ValueError")
            \/ reply' = Raised("admit", "TypeError")
        BY <3>1 DEF AdmitRefused
      <4> QED  BY <4>1, RaisedTruthful
    <3>2. CASE AdmitExisting(raw, bundle, arg)
      BY <3>2, ExistingTruthful
    <3>3. CASE AdmitFree(raw, bundle, arg)
      BY <3>3, AdmitFreeBinds, BindsTruthful
    <3>4. CASE AdmitEvicting(raw, bundle, arg)
      BY <3>4, AdmitEvictingBinds, BindsTruthful
    <3>5. CASE AdmitAt(raw, bundle, arg)
      BY <3>5, AdmitAtBinds, BindsTruthful
    <3>6. CASE AdmitRebind(raw, bundle, arg)
      BY <3>6, AdmitRebindBinds, BindsTruthful
    <3>7. CASE AdmitRejected(raw, bundle, arg)
      BY <3>7, RaisedTruthful DEF AdmitRejected
    <3> QED  BY <2>4, <3>1, <3>2, <3>3, <3>4, <3>5, <3>6, <3>7 DEF Admit
  <2> QED  BY <2>1, <2>2, <2>3, <2>4
<1> QED  BY <1>1, <1>2

\* What the last call of lookup or admit returned is true of the table: its
\* block holds the tokens under the bundle, and its miss is of the right kind.
THEOREM CallersAreToldTheTruth == Spec => []Truthful
<1>1. Init => Truthful
  BY DEF Init, Truthful, ServesOwnRegime, MissesToldApart
<1>2. Consistent(table, {}) /\ Truthful /\ [Next]_vars => Truthful'
  BY TruthfulStep
<1> QED  BY <1>1, <1>2, TableIsConsistent, PTL DEF Spec

\* "There is no code path that returns a block keyed to another bundle",
\* for lookup and for admit.
THEOREM NoForeignBlockIsServed == Spec => []ServesOwnRegime
<1>1. Truthful => ServesOwnRegime
  BY DEF Truthful
<1> QED  BY <1>1, CallersAreToldTheTruth, PTL

\* A lookup says cross_regime exactly when governance, and not capacity or
\* novelty, is why it missed.
THEOREM MissesAreToldApart == Spec => []MissesToldApart
<1>1. Truthful => MissesToldApart
  BY DEF Truthful
<1> QED  BY <1>1, CallersAreToldTheTruth, PTL

-----------------------------------------------------------------------------
(* Types. *)

Typed ==
  /\ stats \in [Counters -> Nat]
  /\ rows \in Seq(Receipts)
  /\ reply \in Replies

\* Counting keeps the statistics typed.
LEMMA CountTyped ==
  ASSUME NEW s \in [Counters -> Nat], NEW c \in Counters
  PROVE  /\ Count(s, c) \in [Counters -> Nat]
         /\ Count(s, c)[c] = s[c] + 1
         /\ \A d \in Counters \ {c} : Count(s, c)[d] = s[d]
BY DEF Count

\* Emitting a receipt keeps the log typed.
LEMMA EmitTyped ==
  ASSUME NEW log \in Seq(Receipts), NEW payload \in Receipts
  PROVE  Emit(log, payload) \in Seq(Receipts)
<1>1. Append(log, payload) \in Seq(Receipts)
  BY AppendProperties
<1> QED  BY <1>1 DEF Emit

\* lookup keeps statistics, receipts and reply typed.
LEMMA LookupTyped ==
  ASSUME Consistent(table, {}), Typed, NEW raw \in RawRuns, NEW bundle,
         Lookup(raw, bundle)
  PROVE  Typed'
<1> DEFINE run == raw.ids
           key == BlockKey(run, bundle)
           outcome == Outcome(table, run, bundle)
           physical == IF outcome = "hit" THEN table.byKey[key] ELSE -1
<1>1. /\ run \in Runs /\ bundle \in Bundles
      /\ stats' = Count(stats, outcome)
      /\ rows' = Emit(rows, LookupReceipt(key, outcome, physical))
      /\ reply' = Returned("lookup", run, bundle, outcome, physical)
  BY DEF Lookup, RawRuns
<1>2. outcome \in Outcomes /\ (outcome = "hit" => key \in DOMAIN table.byKey)
  BY DEF Outcome, Outcomes
<1>3. physical \in Physicals \cup {-1}
  BY <1>2, TableFields DEF Consistent
<1>4. key \in Keys
  BY <1>1 DEF BlockKey, Keys
<1> HIDE DEF run, key, outcome, physical
<1>5. stats' \in [Counters -> Nat]
  BY <1>1, <1>2, CountTyped DEF Typed, Counters
<1>6. LookupReceipt(key, outcome, physical) \in Receipts
  BY <1>2, <1>3, <1>4 DEF LookupReceipt, Receipts
<1>7. rows' \in Seq(Receipts)
  BY <1>1, <1>6, EmitTyped DEF Typed
<1>8. reply' \in Replies
  BY <1>1, <1>2, <1>3 DEF Returned, Replies
<1> QED  BY <1>5, <1>7, <1>8 DEF Typed

\* The end of admit keeps statistics, receipts and reply typed.
LEMMA AdmittedTyped ==
  ASSUME NEW t, NEW s \in [Counters -> Nat], NEW log \in Seq(Receipts),
         NEW p \in Physicals, NEW run \in Runs, NEW bundle \in Bundles,
         Admitted(t, s, log, p, run, bundle)
  PROVE  Typed'
<1> DEFINE key == BlockKey(run, bundle)
<1>1. /\ stats' = Count(s, "admitted")
      /\ rows' = Emit(log, AdmitReceipt(key, p))
      /\ reply' = Returned("admit", run, bundle, "admitted", p)
  BY DEF Admitted
<1>2. key \in Keys
  BY DEF BlockKey, Keys
<1>3. AdmitReceipt(key, p) \in Receipts
  BY <1>2 DEF AdmitReceipt, Receipts
<1>4. stats' \in [Counters -> Nat]
  BY <1>1, CountTyped DEF Counters
<1>5. rows' \in Seq(Receipts)
  BY <1>1, <1>3, EmitTyped
<1>6. reply' \in Replies
  BY <1>1 DEF Returned, Replies
<1> QED  BY <1>4, <1>5, <1>6 DEF Typed

\* What a refused call raises is one of the three errors.
LEMMA RaisedTyped ==
  ASSUME NEW op \in {"lookup", "admit"},
         NEW error \in {"TypeError", "ValueError", "CrossRegimeError"}
  PROVE  Raised(op, error) \in Replies
BY DEF Raised, Replies

\* Every branch of admit keeps statistics, receipts and reply typed.
LEMMA AdmitTyped ==
  ASSUME Consistent(table, {}), Typed, NEW raw \in RawRuns,
         NEW bundle \in Bundles \cup {NotABundle}, NEW arg \in PhysicalArgs,
         Admit(raw, bundle, arg)
  PROVE  Typed'
<1> USE DEF Typed
<1>1. CASE AdmitRefused(raw, bundle, arg)
  <2>1. /\ \/ reply' = Raised("admit", "ValueError")
           \/ reply' = Raised("admit", "TypeError")
        /\ stats' = stats /\ rows' = rows
    BY <1>1 DEF AdmitRefused
  <2> QED  BY <2>1, RaisedTyped
<1>2. CASE AdmitExisting(raw, bundle, arg)
  <2> DEFINE key == BlockKey(raw.ids, bundle)
  <2>1. /\ raw.ids \in Runs /\ bundle \in Bundles
        /\ key \in DOMAIN table.byKey
        /\ reply' = Returned("admit", raw.ids, bundle, "existing",
                             table.byKey[key])
        /\ stats' = stats /\ rows' = rows
    BY <1>2 DEF AdmitExisting, AdmitAccepted, RawRuns
  <2>2. table.byKey[key] \in Physicals
    BY <2>1, TableFields DEF Consistent
  <2> QED  BY <2>1, <2>2 DEF Returned, Replies
<1>3. CASE AdmitFree(raw, bundle, arg)
  <2>1. Binds(Last(table.free), raw.ids, bundle)
    BY <1>3, AdmitFreeBinds
  <2>2. /\ Last(table.free) \in Physicals
        /\ raw.ids \in Runs /\ bundle \in Bundles
    BY <2>1 DEF Binds
  <2>3. Admitted(PopFree(table), stats, rows, Last(table.free),
                 raw.ids, bundle)
    BY <1>3 DEF AdmitFree
  <2> QED  BY <2>2, <2>3, AdmittedTyped
<1>4. CASE AdmitEvicting(raw, bundle, arg)
  <2> DEFINE e == Evict(table)
             p == Oldest(table)
             s == Count(stats, "evicted")
             log == Emit(rows, EvictReceipt(p))
  <2>1. Binds(p, raw.ids, bundle)
    BY <1>4, AdmitEvictingBinds
  <2>2. p \in Physicals /\ raw.ids \in Runs /\ bundle \in Bundles
    BY <2>1 DEF Binds
  <2>3. Last(e.free) = p
    BY <1>4, EvictThenPop DEF AdmitEvicting
  <2>4. Admitted(PopFree(e), s, log, p, raw.ids, bundle)
    BY <1>4, <2>3 DEF AdmitEvicting
  <2>5. s \in [Counters -> Nat]
    BY CountTyped DEF Counters
  <2>6. EvictReceipt(p) \in Receipts
    BY <2>2 DEF EvictReceipt, Receipts
  <2>7. log \in Seq(Receipts)
    BY <2>6, EmitTyped
  <2> HIDE DEF e, p, s, log
  <2> QED  BY <2>2, <2>4, <2>5, <2>7, AdmittedTyped
<1>5. CASE AdmitAt(raw, bundle, arg)
  <2>1. Binds(arg.val, raw.ids, bundle)
    BY <1>5, AdmitAtBinds
  <2>2. arg.val \in Physicals /\ raw.ids \in Runs /\ bundle \in Bundles
    BY <2>1 DEF Binds
  <2>3. Admitted(TakeFree(table, arg.val), stats, rows, arg.val,
                 raw.ids, bundle)
    BY <1>5 DEF AdmitAt
  <2> QED  BY <2>2, <2>3, AdmittedTyped
<1>6. CASE AdmitRebind(raw, bundle, arg)
  <2>1. Binds(arg.val, raw.ids, bundle)
    BY <1>6, AdmitRebindBinds
  <2>2. arg.val \in Physicals /\ raw.ids \in Runs /\ bundle \in Bundles
    BY <2>1 DEF Binds
  <2>3. Admitted(TakeFree(Release(table, arg.val), arg.val), stats, rows,
                 arg.val, raw.ids, bundle)
    BY <1>6 DEF AdmitRebind
  <2> QED  BY <2>2, <2>3, AdmittedTyped
<1>7. CASE AdmitRejected(raw, bundle, arg)
  <2>1. /\ raw.ids \in Runs /\ bundle \in Bundles
        /\ arg.given => arg.val \in Physicals
    BY <1>7, NewAddress DEF AdmitRejected
  <2>2. /\ arg.given
        /\ stats' = Count(stats, "rejected_cross_regime")
        /\ rows' = Emit(rows, RejectReceipt(BlockKey(raw.ids, bundle), arg.val))
        /\ reply' = Raised("admit", "CrossRegimeError")
    BY <1>7 DEF AdmitRejected
  <2>3. RejectReceipt(BlockKey(raw.ids, bundle), arg.val) \in Receipts
    BY <2>1, <2>2 DEF RejectReceipt, Receipts, BlockKey, Keys
  <2>4. rows' \in Seq(Receipts)
    BY <2>2, <2>3, EmitTyped
  <2>5. stats' \in [Counters -> Nat]
    BY <2>2, CountTyped DEF Counters
  <2> QED  BY <2>2, <2>4, <2>5, RaisedTyped
<1> QED  BY <1>1, <1>2, <1>3, <1>4, <1>5, <1>6, <1>7 DEF Admit

\* Every call keeps statistics, receipts and reply typed.
LEMMA TypedStep ==
  ASSUME Consistent(table, {}), Typed, [Next]_vars
  PROVE  Typed'
<1>1. CASE UNCHANGED vars
  BY <1>1 DEF vars, Typed
<1>2. CASE Next
  <2>1. PICK raw \in RawRuns, bundle \in Bundles \cup {NotABundle} :
          \/ Lookup(raw, bundle)
          \/ LookupRefused(raw, bundle)
          \/ \E arg \in PhysicalArgs : Admit(raw, bundle, arg)
    BY <1>2 DEF Next
  <2>2. CASE LookupRefused(raw, bundle)
    BY <2>2, RaisedTyped DEF LookupRefused, Typed
  <2> QED  BY <2>1, <2>2, LookupTyped, AdmitTyped
<1> QED  BY <1>1, <1>2

\* Every variable keeps its shape: counters count, receipts and replies have
\* the fields their readers expect, block numbers are in range.
THEOREM TypeCorrect == Spec => []TypeOK
<1>1. Init => Typed
  <2>1. << >> \in Seq(Receipts)
    OBVIOUS
  <2> QED  BY <2>1 DEF Init, Typed, Replies
<1>2. Consistent(table, {}) /\ Typed /\ [Next]_vars => Typed'
  BY TypedStep
<1>3. Consistent(table, {}) /\ Typed => TypeOK
  BY DEF Consistent, Typed, TypeOK
<1> QED  BY <1>1, <1>2, <1>3, TableIsConsistent, PTL DEF Spec

-----------------------------------------------------------------------------
(* What a step may never do. *)

\* The body of RegimeMovesOnlyByEviction.
RegimeStep ==
  \A p \in Live(table) :
    /\ Strict
    /\ p \in DOMAIN table'.meta
    /\ table'.meta[p].bundle # table.meta[p].bundle
    => /\ stats'["evicted"] = stats["evicted"] + 1
       /\ Live(table) = Physicals
       /\ p = Oldest(table)

\* A step that binds a block which was not live, or which already belonged
\* to the regime it is bound for, moves no block to another regime.
LEMMA BindingKeepsRegimes ==
  ASSUME NEW p, NEW run, NEW bundle, Binds(p, run, bundle),
         \/ p \notin Live(table)
         \/ ~ Strict
         \/ table.meta[p].bundle = bundle
  PROVE  RegimeStep
<1>1. /\ table'.meta[p] =
           [key |-> BlockKey(run, bundle), run |-> run, bundle |-> bundle]
      /\ \A q \in Live(table) \ {p} : table'.meta[q] = table.meta[q]
  BY DEF Binds
<1>2. table'.meta[p].bundle = bundle
  BY <1>1
<1> QED  BY <1>1, <1>2 DEF RegimeStep

\* In strict mode no step but an eviction moves a live block to another regime.
LEMMA RegimesMoveOnlyByEviction ==
  ASSUME Consistent(table, {}), Typed, [Next]_vars
  PROVE  RegimeStep
<1>1. CASE table' = table
  BY <1>1 DEF RegimeStep
<1>2. CASE Next /\ table' # table
  <2>1. PICK raw \in RawRuns, bundle \in Bundles \cup {NotABundle} :
          \E arg \in PhysicalArgs : Admit(raw, bundle, arg)
    BY <1>2 DEF Next, Lookup, LookupRefused
  <2>2. PICK arg \in PhysicalArgs : Admit(raw, bundle, arg)
    BY <2>1
  <2>3. CASE AdmitFree(raw, bundle, arg)
    BY <2>3, AdmitFreeBinds, BindingKeepsRegimes
  <2>4. CASE AdmitAt(raw, bundle, arg)
    BY <2>4, AdmitAtBinds, BindingKeepsRegimes
  <2>5. CASE AdmitRebind(raw, bundle, arg)
    BY <2>5, AdmitRebindBinds, BindingKeepsRegimes
  <2>6. CASE AdmitEvicting(raw, bundle, arg)
    <3>1. /\ Binds(Oldest(table), raw.ids, bundle)
          /\ Live(table) = Physicals
          /\ stats' = Count(Count(stats, "evicted"), "admitted")
      BY <2>6, AdmitEvictingBinds
    <3>2. /\ Count(stats, "evicted") \in [Counters -> Nat]
          /\ Count(stats, "evicted")["evicted"] = stats["evicted"] + 1
      BY CountTyped DEF Typed, Counters
    <3>3. stats'["evicted"] = stats["evicted"] + 1
      <4> DEFINE s == Count(stats, "evicted")
      <4>1. "admitted" \in Counters /\ "evicted" \in Counters \ {"admitted"}
        BY DEF Counters
      <4> HIDE DEF s
      <4>2. Count(s, "admitted")["evicted"] = s["evicted"]
        BY <3>2, <4>1, CountTyped DEF s
      <4> QED  BY <3>1, <3>2, <4>2 DEF s
    <3>4. \A q \in Live(table) \ {Oldest(table)} :
            table'.meta[q] = table.meta[q]
      BY <3>1 DEF Binds
    <3> QED  BY <3>1, <3>3, <3>4 DEF RegimeStep
  <2> QED  BY <1>2, <2>2, <2>3, <2>4, <2>5, <2>6
           DEF Admit, AdmitRefused, AdmitExisting, AdmitRejected
<1> QED  BY <1>1, <1>2 DEF vars

\* In strict mode no sequence of calls moves a live block to another regime,
\* except the eviction of the oldest block by a full table.
THEOREM RegimesAreKept == Spec => RegimeMovesOnlyByEviction
<1>1. Init => Typed
  <2>1. << >> \in Seq(Receipts)
    OBVIOUS
  <2> QED  BY <2>1 DEF Init, Typed, Replies
<1>2. Consistent(table, {}) /\ Typed /\ [Next]_vars => Typed'
  BY TypedStep
<1>3. Consistent(table, {}) /\ Typed /\ [Next]_vars => [RegimeStep]_vars
  BY RegimesMoveOnlyByEviction
<1>4. Spec => [][RegimeStep]_vars
  BY <1>1, <1>2, <1>3, TableIsConsistent, PTL DEF Spec
<1> QED  BY <1>4 DEF RegimeMovesOnlyByEviction, RegimeStep

-----------------------------------------------------------------------------
(* The table implements the cache RegimeCache describes. *)

\* An address is the pair of the tokens and the bundle it is made from.
LEMMA AddressFields ==
  ASSUME NEW run \in Runs, NEW bundle \in Bundles
  PROVE  /\ BlockKey(run, bundle) \in Cache!Addresses
         /\ BlockKey(run, bundle).tokens = run
         /\ BlockKey(run, bundle).bundle = bundle
BY DEF BlockKey, Cache!Addresses

\* The blocks the cache uses are the live blocks.
LEMMA UsedIsLive ==
  ASSUME Consistent(table, {})
  PROVE  Cache!Used = Live(table)
BY DEF Consistent, AddressesAgree, Cache!Used, Cache!Held

\* Tokens are held by some address exactly when a live block has them.
LEMMA HeldElsewhereIsLive ==
  ASSUME Consistent(table, {}), NEW run \in Runs, NEW bundle \in Bundles
  PROVE  Cache!HeldElsewhere(BlockKey(run, bundle))
           <=> \E p \in Live(table) : table.meta[p].run = run
<1>1. AddressesAgree(table) /\ table \in Tables
  BY DEF Consistent
<1>2. BlockKey(run, bundle).tokens = run
  BY AddressFields
<1>3. ASSUME NEW other \in DOMAIN table.byKey, other.tokens = run
      PROVE  \E p \in Live(table) : table.meta[p].run = run
  <2> DEFINE p == table.byKey[other]
  <2>1. /\ p \in Live(table) /\ table.meta[p].key = other
        /\ table.meta[p].key =
             BlockKey(table.meta[p].run, table.meta[p].bundle)
    BY <1>1 DEF AddressesAgree
  <2>2. other = BlockKey(table.meta[p].run, table.meta[p].bundle)
    BY <2>1
  <2>3. other.tokens = table.meta[p].run
    BY <2>2 DEF BlockKey
  <2>4. table.meta[p].run = run
    BY <2>3, <1>3
  <2> QED  BY <2>1, <2>4
<1>4. ASSUME NEW p \in Live(table), table.meta[p].run = run
      PROVE  \E other \in DOMAIN table.byKey : other.tokens = run
  <2>1. /\ table.meta[p].key \in DOMAIN table.byKey
        /\ table.meta[p].key = BlockKey(run, table.meta[p].bundle)
    BY <1>1, <1>4 DEF AddressesAgree
  <2>2. table.meta[p].key.tokens = run
    BY <2>1 DEF BlockKey
  <2> QED  BY <2>1, <2>2
<1> QED  BY <1>2, <1>3, <1>4 DEF Cache!HeldElsewhere, Cache!Held

\* lookup is a Hit, a MissCrossRegime or a MissCold of the cache; a block is
\* returned with a hit only.
LEMMA LookupActs ==
  ASSUME Consistent(table, {}), NEW raw \in RawRuns, NEW bundle,
         Lookup(raw, bundle)
  PROVE  LET a == BlockKey(raw.ids, bundle)
         IN  /\ a \in Cache!Addresses
             /\ \/ Cache!Hit(a) /\ reply'.physical \in Physicals
                \/ /\ Cache!MissCrossRegime(a) \/ Cache!MissCold(a)
                   /\ reply'.physical = -1
<1> DEFINE run == raw.ids
           a == BlockKey(run, bundle)
           outcome == Outcome(table, run, bundle)
           physical == IF outcome = "hit" THEN table.byKey[a] ELSE -1
<1>1. /\ run \in Runs /\ bundle \in Bundles
      /\ table' = table
      /\ reply' = Returned("lookup", run, bundle, outcome, physical)
  BY DEF Lookup, RawRuns
<1>2. /\ a \in Cache!Addresses /\ a.tokens = run /\ a.bundle = bundle
  BY <1>1, AddressFields
<1>3. Truthful'
  BY LookupTruthful
<1>4. /\ Cache!HeldElsewhere(a)
           <=> \E p \in Live(table) : table.meta[p].run = run
  BY <1>1, HeldElsewhereIsLive
<1>5. outcome = "hit" <=> a \in DOMAIN table.byKey
  BY DEF Outcome
<1>6. outcome \in {"hit", "miss_cold", "miss_cross_regime"}
  BY DEF Outcome
<1>. HIDE DEF run, a, outcome
<1>7. CASE outcome = "hit"
  <2>1. Cache!Hit(a)
    BY <1>1, <1>2, <1>5, <1>7 DEF Returned, Cache!Hit, Cache!Held, Cache!Reply
  <2>2. table.byKey[a] \in Physicals
    BY <1>5, <1>7, TableFields DEF Consistent
  <2>3. reply'.physical = table.byKey[a]
    BY <1>1, <1>7 DEF Returned
  <2> QED  BY <2>1, <2>2, <2>3, <1>2 DEF a, run
<1>8. CASE outcome = "miss_cross_regime"
  <2>1. Cache!HeldElsewhere(a)
    BY <1>1, <1>3, <1>4, <1>8
       DEF Truthful, MissesToldApart, Returned, Live
  <2>2. Cache!MissCrossRegime(a)
    BY <2>1, <1>1, <1>2, <1>5, <1>8
       DEF Returned, Cache!MissCrossRegime, Cache!Held, Cache!Reply
  <2>3. reply'.physical = -1
    BY <1>1, <1>8 DEF Returned
  <2> QED  BY <2>2, <2>3, <1>2 DEF a, run
<1>9. CASE outcome = "miss_cold"
  <2>1. ~ Cache!HeldElsewhere(a)
    BY <1>1, <1>3, <1>4, <1>9
       DEF Truthful, MissesToldApart, Returned, Live
  <2>2. Cache!MissCold(a)
    BY <2>1, <1>1, <1>2, <1>5, <1>9
       DEF Returned, Cache!MissCold, Cache!Held, Cache!Reply
  <2>3. reply'.physical = -1
    BY <1>1, <1>9 DEF Returned
  <2> QED  BY <2>2, <2>3, <1>2 DEF a, run
<1> QED  BY <1>6, <1>7, <1>8, <1>9

\* What binding steps have in common, said of the cache.
LEMMA BindsAddress ==
  ASSUME Consistent(table, {}), NEW p, NEW run, NEW bundle,
         Binds(p, run, bundle)
  PROVE  LET a == BlockKey(run, bundle)
         IN  /\ a \in Cache!Addresses /\ a \notin DOMAIN table.byKey
             /\ a.bundle = bundle /\ p \in Physicals
             /\ Cache!Used = Live(table) /\ Cache!Blocks = Physicals
             /\ Cache!Reply("admit", a, "admitted", p)
<1> DEFINE a == BlockKey(run, bundle)
<1>1. /\ p \in Physicals /\ run \in Runs /\ bundle \in Bundles
      /\ a \notin DOMAIN table.byKey
      /\ reply' = Returned("admit", run, bundle, "admitted", p)
  BY DEF Binds
<1>2. /\ a \in Cache!Addresses /\ a.tokens = run /\ a.bundle = bundle
  BY <1>1, AddressFields
<1>3. Cache!Used = Live(table) /\ Cache!Blocks = Physicals
  BY UsedIsLive DEF Cache!Blocks, Physicals
<1>. HIDE DEF a
<1>4. Cache!Reply("admit", a, "admitted", p)
  BY <1>1, <1>2 DEF Cache!Reply, Returned
<1>. QED  BY <1>1, <1>2, <1>3, <1>4 DEF a

\* Binding a block that is not live is a Place of the cache.
LEMMA BindsPlaces ==
  ASSUME Consistent(table, {}), NEW p, NEW run, NEW bundle,
         Binds(p, run, bundle), p \notin Live(table)
  PROVE  Cache!Place(BlockKey(run, bundle), p)
<1> DEFINE a == BlockKey(run, bundle)
<1>1. /\ a \notin DOMAIN table.byKey /\ Cache!Used = Live(table)
      /\ Cache!Reply("admit", a, "admitted", p)
  BY BindsAddress
<1>2. table'.byKey = [k \in DOMAIN table.byKey \cup {a} |->
                        IF k = a THEN p ELSE table.byKey[k]]
  BY DEF Binds, Displaced
<1>. HIDE DEF a
<1>3. Cache!Place(a, p)
  BY <1>1, <1>2 DEF Cache!Place, Cache!Held
<1>. QED  BY <1>3 DEF a

\* Binding a live block displaces the one address it had.
LEMMA BindsDisplaces ==
  ASSUME Consistent(table, {}), NEW p, NEW run, NEW bundle,
         Binds(p, run, bundle), p \in Live(table),
         \/ ~ Strict
         \/ table.meta[p].bundle = bundle
         \/ Live(table) = Physicals
  PROVE  LET victim == table.meta[p].key
         IN  /\ victim \in DOMAIN table.byKey /\ table.byKey[victim] = p
             /\ victim.bundle = table.meta[p].bundle
             /\ Cache!Displace(BlockKey(run, bundle), victim)
<1> DEFINE a == BlockKey(run, bundle)
           victim == table.meta[p].key
<1>1. /\ a \notin DOMAIN table.byKey /\ a.bundle = bundle
      /\ Cache!Used = Live(table) /\ Cache!Blocks = Physicals
      /\ Cache!Reply("admit", a, "admitted", p)
  BY BindsAddress
<1>2. AddressesAgree(table)
  BY DEF Consistent
<1>3. /\ victim \in DOMAIN table.byKey /\ table.byKey[victim] = p
      /\ victim = BlockKey(table.meta[p].run, table.meta[p].bundle)
  BY <1>2 DEF AddressesAgree
<1>4. victim.bundle = table.meta[p].bundle
  BY <1>3 DEF BlockKey
<1>5. table'.byKey = [k \in (DOMAIN table.byKey \ {victim}) \cup {a} |->
                        IF k = a THEN table.byKey[victim] ELSE table.byKey[k]]
  BY <1>3 DEF Binds, Displaced
<1>. HIDE DEF a, victim
<1>6. Cache!Displace(a, victim)
  BY <1>1, <1>3, <1>4, <1>5 DEF Cache!Displace, Cache!Held
<1>. QED  BY <1>3, <1>4, <1>6 DEF a, victim

\* An admission of an address that is bound is an AlreadyHeld.
LEMMA ExistingActs ==
  ASSUME NEW raw \in RawRuns, NEW bundle, NEW arg,
         AdmitExisting(raw, bundle, arg)
  PROVE  /\ BlockKey(raw.ids, bundle) \in Cache!Addresses
         /\ Cache!AlreadyHeld(BlockKey(raw.ids, bundle))
<1> DEFINE a == BlockKey(raw.ids, bundle)
<1>1. /\ raw.ids \in Runs /\ bundle \in Bundles
      /\ a \in DOMAIN table.byKey
      /\ reply' = Returned("admit", raw.ids, bundle, "existing", table.byKey[a])
      /\ table' = table
  BY DEF AdmitExisting, AdmitAccepted, RawRuns
<1>2. a \in Cache!Addresses /\ a.tokens = raw.ids /\ a.bundle = bundle
  BY <1>1, AddressFields
<1>. HIDE DEF a
<1>3. Cache!AlreadyHeld(a)
  BY <1>1, <1>2 DEF Returned, Cache!AlreadyHeld, Cache!Held, Cache!Reply
<1>. QED  BY <1>2, <1>3 DEF a

\* A binding step is a Place or a Displace of the cache.
LEMMA BindsImplements ==
  ASSUME Consistent(table, {}), NEW p, NEW run, NEW bundle,
         Binds(p, run, bundle),
         \/ p \notin Live(table)
         \/ ~ Strict
         \/ table.meta[p].bundle = bundle
         \/ Live(table) = Physicals
  PROVE  Cache!Next
<1> DEFINE a == BlockKey(run, bundle)
<1>1. a \in Cache!Addresses /\ p \in Cache!Blocks
  BY BindsAddress
<1>2. CASE p \notin Live(table)
  <2>1. Cache!Place(a, p)
    BY <1>2, BindsPlaces
  <2> QED  BY <1>1, <2>1 DEF Cache!Next
<1>3. CASE p \in Live(table)
  <2>1. table.meta[p].key \in Cache!Held /\ Cache!Displace(a, table.meta[p].key)
    BY <1>3, BindsDisplaces DEF Cache!Held
  <2> QED  BY <1>1, <2>1 DEF Cache!Next
<1>. QED  BY <1>2, <1>3

\* Every branch of admit is a step of the cache.
LEMMA AdmitImplements ==
  ASSUME Consistent(table, {}), NEW raw \in RawRuns,
         NEW bundle \in Bundles \cup {NotABundle}, NEW arg \in PhysicalArgs,
         Admit(raw, bundle, arg)
  PROVE  Cache!Next
<1>1. CASE AdmitRefused(raw, bundle, arg)
  <2>1. /\ \/ reply' = Raised("admit", "ValueError")
           \/ reply' = Raised("admit", "TypeError")
        /\ table' = table
    BY <1>1 DEF AdmitRefused
  <2> QED  BY <2>1 DEF Raised, Cache!Next, Cache!Refuse
<1>2. CASE AdmitExisting(raw, bundle, arg)
  BY <1>2, ExistingActs DEF Cache!Next
<1>3. CASE AdmitFree(raw, bundle, arg)
  BY <1>3, AdmitFreeBinds, BindsImplements
<1>4. CASE AdmitEvicting(raw, bundle, arg)
  BY <1>4, AdmitEvictingBinds, BindsImplements
<1>5. CASE AdmitAt(raw, bundle, arg)
  BY <1>5, AdmitAtBinds, BindsImplements
<1>6. CASE AdmitRebind(raw, bundle, arg)
  BY <1>6, AdmitRebindBinds, BindsImplements
<1>7. CASE AdmitRejected(raw, bundle, arg)
  BY <1>7 DEF AdmitRejected, Raised, Cache!Next, Cache!Refuse
<1> QED  BY <1>1, <1>2, <1>3, <1>4, <1>5, <1>6, <1>7 DEF Admit

\* Every step of the table is a step of the cache.
LEMMA StepImplements ==
  ASSUME Consistent(table, {}), [Next]_vars
  PROVE  [Cache!Next]_<<table.byKey, reply>>
<1>1. CASE UNCHANGED vars
  BY <1>1 DEF vars
<1>2. CASE Next
  <2>1. PICK raw \in RawRuns, bundle \in Bundles \cup {NotABundle} :
          \/ Lookup(raw, bundle)
          \/ LookupRefused(raw, bundle)
          \/ \E arg \in PhysicalArgs : Admit(raw, bundle, arg)
    BY <1>2 DEF Next
  <2>2. CASE LookupRefused(raw, bundle)
    BY <2>2 DEF LookupRefused, Raised, Cache!Next, Cache!Refuse
  <2>3. CASE Lookup(raw, bundle)
    BY <2>3, LookupActs DEF Cache!Next
  <2> QED  BY <2>1, <2>2, <2>3, AdmitImplements
<1> QED  BY <1>1, <1>2

\* With its free list, receipts and counters hidden, the table is a bounded
\* cache addressed by tokens and regime together.
THEOREM TableImplementsRegimeCache == Spec => ImplementsRegimeCache
<1>1. Init => Cache!Init
  BY DEF Init, EmptyTable, Cache!Init
<1>2. Consistent(table, {}) /\ [Next]_vars
        => [Cache!Next]_<<table.byKey, reply>>
  BY StepImplements
<1>3. Spec => Cache!Spec
  BY <1>1, <1>2, TableIsConsistent, PTL DEF Spec, Cache!Spec
<1> QED  BY <1>3 DEF ImplementsRegimeCache

-----------------------------------------------------------------------------
(* The receipts tell the bindings. *)

\* Which receipts still bind a block after one more receipt is appended.
LEMMA BoundAfterAppend ==
  ASSUME NEW log \in Seq(Receipts), NEW r \in Receipts, NEW p
  PROVE  /\ \A i \in DOMAIN log :
              BoundIn(Append(log, r), i, p)
                <=> /\ BoundIn(log, i, p)
                    /\ r.op \in {"block_admit", "block_evict"}
                         => r.physical # p
         /\ BoundIn(Append(log, r), Len(log) + 1, p)
              <=> r.op = "block_admit" /\ r.physical = p
         /\ DOMAIN Append(log, r) = DOMAIN log \cup {Len(log) + 1}
         /\ \A i \in DOMAIN log : Append(log, r)[i] = log[i]
         /\ Append(log, r)[Len(log) + 1] = r
<1> DEFINE new == Append(log, r)
           n == Len(log)
<1>1. /\ n \in Nat
      /\ new \in Seq(Receipts)
      /\ Len(new) = n + 1
      /\ DOMAIN log = 1 .. n
      /\ DOMAIN new = 1 .. (n + 1)
      /\ \A i \in 1 .. n : new[i] = log[i]
      /\ new[n + 1] = r
  BY AppendProperties
<1> HIDE DEF new, n
<1>2. ASSUME NEW i \in 1 .. n
      PROVE  BoundIn(new, i, p)
               <=> /\ BoundIn(log, i, p)
                   /\ r.op \in {"block_admit", "block_evict"}
                        => r.physical # p
  <2>1. i + 1 \in 1 .. (n + 1)
    BY <1>1
  <2>2. (i + 1) .. (n + 1) = ((i + 1) .. n) \cup {n + 1}
    BY <1>1
  <2>3. \A j \in (i + 1) .. n : new[j] = log[j]
    BY <1>1
  <2> QED  BY <1>1, <2>2, <2>3 DEF BoundIn, n
<1>3. BoundIn(new, n + 1, p) <=> r.op = "block_admit" /\ r.physical = p
  <2>1. ((n + 1) + 1) .. (n + 1) = {}
    BY <1>1
  <2> QED  BY <1>1, <2>1 DEF BoundIn
<1>4. 1 .. (n + 1) = (1 .. n) \cup {n + 1}
  BY <1>1
<1> QED  BY <1>1, <1>2, <1>3, <1>4 DEF new, n

\* A lookup and a refusal bind nothing.
LEMMA ExplainsOther ==
  ASSUME NEW log \in Seq(Receipts), NEW t, Explains(log, t),
         NEW r \in Receipts, r.op \notin {"block_admit", "block_evict"}
  PROVE  Explains(Append(log, r), t)
<1> DEFINE new == Append(log, r)
<1>1. ASSUME NEW p
      PROVE  /\ \A i \in DOMAIN log : BoundIn(new, i, p) <=> BoundIn(log, i, p)
             /\ ~ BoundIn(new, Len(log) + 1, p)
             /\ DOMAIN new = DOMAIN log \cup {Len(log) + 1}
             /\ \A i \in DOMAIN log : new[i] = log[i]
  BY BoundAfterAppend
<1> HIDE DEF new
<1> QED  BY <1>1 DEF Explains, new

\* An eviction receipt ends the binding of its block.
LEMMA ExplainsEviction ==
  ASSUME NEW log \in Seq(Receipts), NEW t, Explains(log, t),
         NEW p \in Physicals, NEW u, Live(u) = Live(t) \ {p},
         \A q \in Live(u) : u.meta[q] = t.meta[q]
  PROVE  Explains(Append(log, EvictReceipt(p)), u)
<1> DEFINE r == EvictReceipt(p)
           new == Append(log, r)
<1>1. r \in Receipts /\ r.op = "block_evict" /\ r.physical = p
  BY DEF EvictReceipt, Receipts
<1> HIDE DEF r
<1>2. ASSUME NEW q
      PROVE  /\ \A i \in DOMAIN log :
                  BoundIn(new, i, q) <=> BoundIn(log, i, q) /\ q # p
             /\ ~ BoundIn(new, Len(log) + 1, q)
             /\ DOMAIN new = DOMAIN log \cup {Len(log) + 1}
             /\ \A i \in DOMAIN log : new[i] = log[i]
  BY <1>1, BoundAfterAppend
<1> HIDE DEF new
<1>3. ASSUME NEW q \in Physicals
      PROVE  /\ q \in Live(u) <=> \E i \in DOMAIN new : BoundIn(new, i, q)
             /\ \A i \in DOMAIN new :
                  BoundIn(new, i, q) => new[i].key = u.meta[q].key
  <2>1. CASE q = p
    BY <2>1, <1>2
  <2>2. CASE q # p
    <3>1. /\ q \in Live(t) <=> \E i \in DOMAIN log : BoundIn(log, i, q)
          /\ \A i \in DOMAIN log :
               BoundIn(log, i, q) => log[i].key = t.meta[q].key
      BY DEF Explains
    <3>2. /\ \A i \in DOMAIN log : BoundIn(new, i, q) <=> BoundIn(log, i, q)
          /\ ~ BoundIn(new, Len(log) + 1, q)
          /\ DOMAIN new = DOMAIN log \cup {Len(log) + 1}
          /\ \A i \in DOMAIN log : new[i] = log[i]
      BY <2>2, <1>2
    <3>3. q \in Live(u) <=> q \in Live(t)
      BY <2>2
    <3>4. q \in Live(t) => u.meta[q] = t.meta[q]
      BY <2>2
    <3>5. q \in Live(u) <=> \E i \in DOMAIN new : BoundIn(new, i, q)
      BY <3>1, <3>2, <3>3
    <3>6. ASSUME NEW i \in DOMAIN new, BoundIn(new, i, q)
          PROVE  new[i].key = u.meta[q].key
      <4>1. i \in DOMAIN log /\ BoundIn(log, i, q) /\ new[i] = log[i]
        BY <3>6, <3>2
      <4>2. q \in Live(t)
        BY <4>1, <3>1
      <4> QED  BY <4>1, <4>2, <3>1, <3>4
    <3> QED  BY <3>5, <3>6
  <2> QED  BY <2>1, <2>2
<1> QED  BY <1>3 DEF Explains, new, r

\* An admission receipt binds its block, and only that one anew.
LEMMA ExplainsAdmission ==
  ASSUME NEW log \in Seq(Receipts), NEW t, Explains(log, t),
         NEW p \in Physicals, NEW key \in Keys, NEW u,
         Live(u) = Live(t) \cup {p},
         u.meta[p].key = key,
         \A q \in Live(t) \ {p} : u.meta[q] = t.meta[q]
  PROVE  Explains(Append(log, AdmitReceipt(key, p)), u)
<1> DEFINE r == AdmitReceipt(key, p)
           new == Append(log, r)
<1>1. /\ r \in Receipts /\ r.op = "block_admit" /\ r.physical = p
      /\ r.key = key
  BY DEF AdmitReceipt, Receipts
<1> HIDE DEF r
<1>2. ASSUME NEW q
      PROVE  /\ \A i \in DOMAIN log :
                  BoundIn(new, i, q) <=> BoundIn(log, i, q) /\ q # p
             /\ BoundIn(new, Len(log) + 1, q) <=> q = p
             /\ DOMAIN new = DOMAIN log \cup {Len(log) + 1}
             /\ \A i \in DOMAIN log : new[i] = log[i]
             /\ new[Len(log) + 1] = r
  BY <1>1, BoundAfterAppend
<1> HIDE DEF new
<1>3. ASSUME NEW q \in Physicals
      PROVE  /\ q \in Live(u) <=> \E i \in DOMAIN new : BoundIn(new, i, q)
             /\ \A i \in DOMAIN new :
                  BoundIn(new, i, q) => new[i].key = u.meta[q].key
  <2>1. CASE q = p
    BY <2>1, <1>1, <1>2
  <2>2. CASE q # p
    <3>1. /\ q \in Live(t) <=> \E i \in DOMAIN log : BoundIn(log, i, q)
          /\ \A i \in DOMAIN log :
               BoundIn(log, i, q) => log[i].key = t.meta[q].key
      BY DEF Explains
    <3>2. /\ \A i \in DOMAIN log : BoundIn(new, i, q) <=> BoundIn(log, i, q)
          /\ ~ BoundIn(new, Len(log) + 1, q)
          /\ DOMAIN new = DOMAIN log \cup {Len(log) + 1}
          /\ \A i \in DOMAIN log : new[i] = log[i]
      BY <2>2, <1>2
    <3>3. q \in Live(u) <=> q \in Live(t)
      BY <2>2
    <3>4. q \in Live(t) => u.meta[q] = t.meta[q]
      BY <2>2
    <3>5. q \in Live(u) <=> \E i \in DOMAIN new : BoundIn(new, i, q)
      BY <3>1, <3>2, <3>3
    <3>6. ASSUME NEW i \in DOMAIN new, BoundIn(new, i, q)
          PROVE  new[i].key = u.meta[q].key
      <4>1. i \in DOMAIN log /\ BoundIn(log, i, q) /\ new[i] = log[i]
        BY <3>6, <3>2
      <4>2. q \in Live(t)
        BY <4>1, <3>1
      <4> QED  BY <4>1, <4>2, <3>1, <3>4
    <3> QED  BY <3>5, <3>6
  <2> QED  BY <2>1, <2>2
<1> QED  BY <1>3 DEF Explains, new, r

\* A binding without an eviction, receipted by block_admit, keeps the log a
\* true account of the table.
LEMMA BindsExplained ==
  ASSUME NEW p, NEW run, NEW bundle, Binds(p, run, bundle),
         Typed, Explains(rows, table), Chained,
         rows' = Emit(rows, AdmitReceipt(BlockKey(run, bundle), p))
  PROVE  Explains(rows', table')
<1> DEFINE key == BlockKey(run, bundle)
<1>1. /\ p \in Physicals /\ run \in Runs /\ bundle \in Bundles
      /\ Live(table') = Live(table) \cup {p}
      /\ table'.meta[p] = [key |-> key, run |-> run, bundle |-> bundle]
      /\ \A q \in Live(table) \ {p} : table'.meta[q] = table.meta[q]
  BY DEF Binds
<1>2. key \in Keys /\ table'.meta[p].key = key
  BY <1>1 DEF Keys, BlockKey
<1>3. rows' = Append(rows, AdmitReceipt(key, p))
  BY DEF Emit
<1> HIDE DEF key
<1> QED  BY <1>1, <1>2, <1>3, ExplainsAdmission DEF Typed

\* An eviction and the admission after it, receipted in that order, keep the
\* log a true account of the table.
LEMMA EvictingExplained ==
  ASSUME Consistent(table, {}), Typed, Explains(rows, table), Chained,
         NEW raw \in RawRuns, NEW bundle, NEW arg \in PhysicalArgs,
         AdmitEvicting(raw, bundle, arg)
  PROVE  Explains(rows', table')
<1> DEFINE p == Oldest(table)
           r == Release(table, p)
           key == BlockKey(raw.ids, bundle)
           log == Append(rows, EvictReceipt(p))
<1>1. /\ Binds(p, raw.ids, bundle)
      /\ Live(table) = Physicals
  BY AdmitEvictingBinds
<1>2. /\ p \in Physicals
      /\ key \in Keys
      /\ Live(table') = Live(table) \cup {p}
      /\ table'.meta[p] =
           [key |-> key, run |-> raw.ids, bundle |-> bundle]
      /\ \A q \in Live(table) \ {p} : table'.meta[q] = table.meta[q]
  BY <1>1 DEF Binds, BlockKey, Keys
<1>3. /\ Live(r) = Live(table) \ {p}
      /\ \A q \in Live(r) : r.meta[q] = table.meta[q]
  BY DEF Release, Live
<1>4. Last(Evict(table).free) = p
  BY EvictThenPop DEF AdmitEvicting
<1>5. rows' = Append(log, AdmitReceipt(key, p))
  BY <1>4 DEF AdmitEvicting, Admitted, Emit
<1> HIDE DEF p, r, key
<1>6. EvictReceipt(p) \in Receipts
  BY <1>2 DEF EvictReceipt, Receipts
<1>7. log \in Seq(Receipts)
  BY <1>6, AppendProperties DEF Typed
<1>8. Explains(log, r)
  BY <1>2, <1>3, ExplainsEviction DEF Typed
<1> HIDE DEF log
<1>9. /\ Live(table') = Live(r) \cup {p}
      /\ table'.meta[p].key = key
      /\ \A q \in Live(r) \ {p} : table'.meta[q] = r.meta[q]
  BY <1>2, <1>3
<1> QED  BY <1>2, <1>5, <1>7, <1>8, <1>9, ExplainsAdmission

\* Every call keeps the log a true account of the table.
LEMMA ExplainedStep ==
  ASSUME Consistent(table, {}), Typed, ReceiptsExplainTable, [Next]_vars
  PROVE  ReceiptsExplainTable'
<1> SUFFICES ASSUME Chained
             PROVE  Explains(rows', table')
  BY DEF ReceiptsExplainTable, Explains, BoundIn, Live
<1>1. Explains(rows, table)
  BY DEF ReceiptsExplainTable
<1>2. CASE UNCHANGED <<table, rows>>
  BY <1>1, <1>2
<1>3. CASE Next /\ ~ UNCHANGED <<table, rows>>
  <2>1. PICK raw \in RawRuns, bundle \in Bundles \cup {NotABundle} :
          \/ Lookup(raw, bundle)
          \/ \E arg \in PhysicalArgs : Admit(raw, bundle, arg)
    BY <1>3 DEF Next, LookupRefused
  <2>2. CASE Lookup(raw, bundle)
    <3> DEFINE key == BlockKey(raw.ids, bundle)
               outcome == Outcome(table, raw.ids, bundle)
               physical == IF outcome = "hit" THEN table.byKey[key] ELSE -1
               r == LookupReceipt(key, outcome, physical)
    <3>1. /\ rows' = Append(rows, r) /\ table' = table
          /\ raw.ids \in Runs /\ bundle \in Bundles
      BY <2>2 DEF Lookup, Emit, RawRuns
    <3>2. /\ outcome \in Outcomes
          /\ outcome = "hit" => key \in DOMAIN table.byKey
      BY DEF Outcome, Outcomes
    <3>3. physical \in Physicals \cup {-1}
      BY <3>2, TableFields DEF Consistent
    <3>4. key \in Keys
      BY <3>1 DEF BlockKey, Keys
    <3> HIDE DEF key, outcome, physical
    <3>5. r \in Receipts /\ r.op = "block_lookup"
      BY <3>2, <3>3, <3>4 DEF LookupReceipt, Receipts
    <3> HIDE DEF r
    <3> QED  BY <1>1, <3>1, <3>5, ExplainsOther DEF Typed
  <2>3. ASSUME NEW arg \in PhysicalArgs, Admit(raw, bundle, arg)
        PROVE  Explains(rows', table')
    <3>1. CASE AdmitFree(raw, bundle, arg)
      <4>1. Binds(Last(table.free), raw.ids, bundle)
        BY <3>1, AdmitFreeBinds
      <4>2. rows' = Emit(rows, AdmitReceipt(BlockKey(raw.ids, bundle),
                                            Last(table.free)))
        BY <3>1 DEF AdmitFree, Admitted
      <4> QED  BY <4>1, <4>2, <1>1, BindsExplained
    <3>2. CASE AdmitEvicting(raw, bundle, arg)
      BY <3>2, <1>1, EvictingExplained
    <3>3. CASE AdmitAt(raw, bundle, arg)
      <4>1. Binds(arg.val, raw.ids, bundle)
        BY <3>3, AdmitAtBinds
      <4>2. rows' = Emit(rows, AdmitReceipt(BlockKey(raw.ids, bundle), arg.val))
        BY <3>3 DEF AdmitAt, Admitted
      <4> QED  BY <4>1, <4>2, <1>1, BindsExplained
    <3>4. CASE AdmitRebind(raw, bundle, arg)
      <4>1. Binds(arg.val, raw.ids, bundle)
        BY <3>4, AdmitRebindBinds
      <4>2. rows' = Emit(rows, AdmitReceipt(BlockKey(raw.ids, bundle), arg.val))
        BY <3>4 DEF AdmitRebind, Admitted
      <4> QED  BY <4>1, <4>2, <1>1, BindsExplained
    <3>5. CASE AdmitRejected(raw, bundle, arg)
      <4> DEFINE r == RejectReceipt(BlockKey(raw.ids, bundle), arg.val)
      <4>1. /\ raw.ids \in Runs /\ bundle \in Bundles
            /\ arg.given => arg.val \in Physicals
        BY <3>5, NewAddress DEF AdmitRejected
      <4>2. /\ arg.given
            /\ rows' = Append(rows, r)
            /\ table' = table
        BY <3>5 DEF AdmitRejected, Emit
      <4>3. r \in Receipts /\ r.op = "block_admit_rejected"
        BY <4>1, <4>2 DEF RejectReceipt, Receipts, BlockKey, Keys
      <4> HIDE DEF r
      <4> QED  BY <1>1, <4>2, <4>3, ExplainsOther DEF Typed
    <3> QED  BY <1>3, <2>3, <3>1, <3>2, <3>3, <3>4, <3>5
             DEF Admit, AdmitRefused, AdmitExisting
  <2> QED  BY <2>1, <2>2, <2>3
<1> QED  BY <1>2, <1>3 DEF vars

\* Whoever holds the receipts can tell, for every physical block, whether it
\* is bound and to which tokens and regime.
THEOREM ReceiptsTellBindings == Spec => []ReceiptsExplainTable
<1>1. Init => Typed /\ ReceiptsExplainTable
  <2>1. << >> \in Seq(Receipts)
    OBVIOUS
  <2>2. DOMAIN << >> = {}
    OBVIOUS
  <2> QED  BY <2>1, <2>2
           DEF Init, Typed, Replies, ReceiptsExplainTable, Explains,
               EmptyTable, Live
<1>2. Consistent(table, {}) /\ Typed /\ [Next]_vars => Typed'
  BY TypedStep
<1>3. Consistent(table, {}) /\ Typed /\ ReceiptsExplainTable /\ [Next]_vars
        => ReceiptsExplainTable'
  BY ExplainedStep
<1> QED  BY <1>1, <1>2, <1>3, TableIsConsistent, PTL DEF Spec

-----------------------------------------------------------------------------
(* The receipts can be replayed.                                           *)

\* A log that can be replayed, and one more receipt that is right where it comes.
LEMMA OneMoreReceipt ==
  ASSUME NEW log \in Seq(Receipts), NEW r \in Receipts,
         Replays(log), Warranted(Bindings(log), r)
  PROVE  Replays(Append(log, r))
<1> DEFINE new == Append(log, r)
<1>1. /\ new \in Seq(Receipts) /\ Len(log) \in Nat /\ Len(new) = Len(log) + 1
      /\ DOMAIN new = 1 .. (Len(log) + 1) /\ DOMAIN log = 1 .. Len(log)
      /\ \A i \in 1 .. Len(log) : new[i] = log[i] /\ log[i] \in Receipts
      /\ new[Len(log) + 1] = r
  BY AppendProperties, ElementOfSeq
<1> HIDE DEF new
<1>2. ASSUME NEW n \in 0 .. Len(log)
      PROVE  SubSeq(new, 1, n) = SubSeq(log, 1, n)
  <2>1. /\ n \in Int /\ \A i \in 1 .. n : new[i] = log[i] /\ log[i] \in Receipts
    BY <1>1
  <2>2. /\ SubSeq(new, 1, n) \in Seq(Receipts) /\ SubSeq(log, 1, n) \in Seq(Receipts)
        /\ Len(SubSeq(new, 1, n)) = Len(SubSeq(log, 1, n))
        /\ Len(SubSeq(log, 1, n)) = IF 1 <= n THEN n - 1 + 1 ELSE 0
        /\ \A i \in 1 .. n - 1 + 1 : SubSeq(new, 1, n)[i] = new[1 + i - 1]
                                     /\ SubSeq(log, 1, n)[i] = log[1 + i - 1]
    BY <2>1, SubSeqProperties
  <2>3. \A i \in 1 .. Len(SubSeq(new, 1, n)) : SubSeq(new, 1, n)[i] = SubSeq(log, 1, n)[i]
    BY <2>1, <2>2
  <2> QED  BY <2>2, <2>3, SeqEqual
<1>3. SubSeq(log, 1, Len(log)) = log
  BY SubSeqFull
<1>4. ASSUME NEW n \in DOMAIN new
      PROVE  Warranted(Bindings(SubSeq(new, 1, n - 1)), new[n])
  <2>1. CASE n \in DOMAIN log
    <3>1. n - 1 \in 0 .. Len(log) /\ new[n] = log[n]
      BY <1>1, <2>1
    <3> QED  BY <1>2, <2>1, <3>1 DEF Replays
  <2>2. CASE n = Len(log) + 1
    <3>1. n - 1 = Len(log) /\ Len(log) \in 0 .. Len(log)
      BY <1>1, <2>2
    <3> QED  BY <1>1, <1>2, <1>3, <2>2, <3>1
  <2> QED  BY <1>1, <2>1, <2>2
<1> QED  BY <1>4 DEF Replays, new

\* What a table holds, said as a reader of its receipts says it.
BoundBlocks(t) == {[key |-> t.meta[p].key, block |-> p] : p \in Live(t)}

LEMMA LiveIsBound ==
  ASSUME NEW t, NEW p \in Live(t)
  PROVE  \E b \in BoundBlocks(t) : b.block = p
<1> DEFINE b == [key |-> t.meta[p].key, block |-> p]
<1>1. b \in BoundBlocks(t)
  BY DEF BoundBlocks
<1>2. b.block = p
  OBVIOUS
<1> QED  BY <1>1, <1>2

\* A log that explains a table is read as what the table holds.
LEMMA BindingsAreBlocks ==
  ASSUME NEW log \in Seq(Receipts), NEW t, Live(t) \subseteq Physicals, Explains(log, t)
  PROVE  Bindings(log) = BoundBlocks(t)
<1>1. ASSUME NEW i \in DOMAIN log, BoundIn(log, i, log[i].physical)
      PROVE  [key |-> log[i].key, block |-> log[i].physical] \in BoundBlocks(t)
  <2>1. log[i] \in Receipts /\ log[i].op = "block_admit"
    BY <1>1 DEF BoundIn
  <2>2. log[i].physical \in Physicals
    BY <2>1 DEF Receipts
  <2>3. log[i].physical \in Live(t) /\ log[i].key = t.meta[log[i].physical].key
    BY <1>1, <2>2 DEF Explains
  <2> QED  BY <2>3 DEF BoundBlocks
<1>2. ASSUME NEW p \in Live(t)
      PROVE  [key |-> t.meta[p].key, block |-> p] \in Bindings(log)
  <2>1. PICK i \in DOMAIN log : BoundIn(log, i, p)
    BY DEF Explains
  <2>2. log[i].physical = p /\ log[i].key = t.meta[p].key
    BY <2>1 DEF BoundIn, Explains
  <2> QED  BY <2>1, <2>2 DEF Bindings
<1> QED  BY <1>1, <1>2 DEF Bindings, BoundBlocks

\* The blocks of a consistent table are its address book.
LEMMA BlocksOfTable ==
  ASSUME Consistent(table, {})
  PROVE  /\ \A b \in BoundBlocks(table) :
              /\ b.key \in DOMAIN table.byKey /\ b.block \in Live(table)
              /\ b.block = table.byKey[b.key]
              /\ b.key.bundle = table.meta[b.block].bundle
         /\ \A key \in DOMAIN table.byKey :
              [key |-> key, block |-> table.byKey[key]] \in BoundBlocks(table)
<1>1. AddressesAgree(table)
  BY DEF Consistent
<1>2. ASSUME NEW p \in Live(table)
      PROVE  /\ table.meta[p].key \in DOMAIN table.byKey
             /\ table.byKey[table.meta[p].key] = p
             /\ table.meta[p].key.bundle = table.meta[p].bundle
  <2>1. /\ table.meta[p].key \in DOMAIN table.byKey
        /\ table.byKey[table.meta[p].key] = p
        /\ table.meta[p].key = BlockKey(table.meta[p].run, table.meta[p].bundle)
    BY <1>1 DEF AddressesAgree
  <2> QED  BY <2>1 DEF BlockKey
<1>3. ASSUME NEW key \in DOMAIN table.byKey
      PROVE  [key |-> key, block |-> table.byKey[key]] \in BoundBlocks(table)
  <2>1. /\ table.byKey[key] \in Live(table)
        /\ table.meta[table.byKey[key]].key = key
    BY <1>1 DEF AddressesAgree
  <2> QED  BY <2>1 DEF BoundBlocks
<1> QED  BY <1>2, <1>3 DEF BoundBlocks

\* The receipt of a lookup is right about the table it was made of.
LEMMA LookupWarranted ==
  ASSUME Consistent(table, {}), NEW raw \in RawRuns, NEW bundle, Lookup(raw, bundle),
         Chained
  PROVE  \E r \in Receipts :
           rows' = Append(rows, r) /\ table' = table /\ r.op = "block_lookup"
             /\ Warranted(BoundBlocks(table), r)
<1> DEFINE key == BlockKey(raw.ids, bundle)
           outcome == Outcome(table, raw.ids, bundle)
           physical == IF outcome = "hit" THEN table.byKey[key] ELSE -1
           r == LookupReceipt(key, outcome, physical)
<1>1. /\ rows' = Append(rows, r) /\ table' = table
      /\ reply' = Returned("lookup", raw.ids, bundle, outcome, physical)
      /\ raw.ids \in Runs /\ bundle \in Bundles
  BY DEF Lookup, Emit, RawRuns
<1>2. /\ key \in Keys /\ outcome \in Outcomes
      /\ outcome = "hit" <=> key \in DOMAIN table.byKey
  BY <1>1 DEF BlockKey, Keys, Outcome, Outcomes
<1>3. /\ \/ Cache!Hit(key)
         \/ Cache!MissCrossRegime(key) \/ Cache!MissCold(key)
  BY LookupActs
<1>4. reply'.outcome = outcome
  BY <1>1 DEF Returned
<1>5. physical \in Physicals \cup {-1} /\ (outcome = "hit" => physical = table.byKey[key])
  BY <1>2, TableFields DEF Consistent
<1> HIDE DEF key, outcome, physical
<1>6. /\ r \in Receipts /\ r.op = "block_lookup" /\ r.key = key
      /\ r.outcome = outcome /\ r.physical = physical
  BY <1>2, <1>5 DEF LookupReceipt, Receipts
<1> HIDE DEF r
<1>7. key \in DOMAIN table.byKey <=> \E b \in BoundBlocks(table) : b.key = key
  BY BlocksOfTable
<1>8. Cache!HeldElsewhere(key) <=> \E b \in BoundBlocks(table) : b.key.tokens = key.tokens
  BY BlocksOfTable DEF Cache!HeldElsewhere, Cache!Held
<1>9. CASE outcome = "hit"
  <2>1. [key |-> r.key, block |-> r.physical] \in BoundBlocks(table)
    BY <1>2, <1>5, <1>6, <1>9, BlocksOfTable
  <2> QED  BY <1>1, <1>2, <1>6, <1>7, <1>9, <2>1 DEF Warranted
<1>10. CASE outcome # "hit"
  <2>1. outcome = IF Cache!HeldElsewhere(key) THEN "miss_cross_regime" ELSE "miss_cold"
    BY <1>3, <1>4, <1>10 DEF Cache!Hit, Cache!MissCrossRegime, Cache!MissCold, Cache!Reply
  <2> QED  BY <1>1, <1>2, <1>6, <1>7, <1>8, <1>10, <2>1 DEF Warranted
<1> QED  BY <1>9, <1>10

\* The receipt of a binding without an eviction is right: the address is new, and
\* a bound block keeps its regime in strict mode.
LEMMA BindsWarranted ==
  ASSUME Consistent(table, {}), NEW p, NEW run, NEW bundle, Binds(p, run, bundle),
         p \in Live(table) => ~ Strict \/ table.meta[p].bundle = bundle
  PROVE  /\ AdmitReceipt(BlockKey(run, bundle), p) \in Receipts
         /\ Warranted(BoundBlocks(table), AdmitReceipt(BlockKey(run, bundle), p))
<1> DEFINE key == BlockKey(run, bundle)
           r == AdmitReceipt(key, p)
<1>1. /\ key \in Keys /\ p \in Physicals /\ key \notin DOMAIN table.byKey
      /\ key.bundle = bundle
  BY DEF Binds, BlockKey, Keys
<1> HIDE DEF key
<1>2. r \in Receipts /\ r.op = "block_admit" /\ r.key = key /\ r.physical = p
  BY <1>1 DEF AdmitReceipt, Receipts
<1> HIDE DEF r
<1>3. Warranted(BoundBlocks(table), r)
  BY <1>1, <1>2, BlocksOfTable DEF Warranted
<1> QED  BY <1>2, <1>3 DEF r, key

\* The two receipts of an admission to a full table are right: the eviction says
\* that it was full, the admission comes when its block is bound to nobody.
LEMMA EvictingReplayed ==
  ASSUME Consistent(table, {}), Typed, Explains(rows, table), Replays(rows), Chained,
         NEW raw \in RawRuns, NEW bundle, NEW arg \in PhysicalArgs,
         AdmitEvicting(raw, bundle, arg)
  PROVE  Replays(rows')
<1> DEFINE p == Oldest(table)
           released == Release(table, p)
           key == BlockKey(raw.ids, bundle)
           evict == EvictReceipt(p)
           admit == AdmitReceipt(key, p)
           log == Append(rows, evict)
<1>1. Binds(p, raw.ids, bundle) /\ Live(table) = Physicals
  BY AdmitEvictingBinds
<1>2. p \in Physicals /\ key \in Keys /\ key \notin DOMAIN table.byKey
  BY <1>1 DEF Binds, BlockKey, Keys
<1>3. /\ Live(released) = Live(table) \ {p}
      /\ \A q \in Live(released) : released.meta[q] = table.meta[q]
  BY DEF Release, Live
<1>4. rows' = Append(log, admit)
  BY EvictThenPop DEF AdmitEvicting, Admitted, Emit
<1> HIDE DEF p, released, key
<1>5. /\ evict \in Receipts /\ evict.op = "block_evict"
      /\ admit \in Receipts /\ admit.op = "block_admit"
      /\ admit.key = key /\ admit.physical = p
  BY <1>2 DEF EvictReceipt, AdmitReceipt, Receipts
<1>6. Explains(log, released) /\ log \in Seq(Receipts)
  BY <1>2, <1>3, <1>5, ExplainsEviction, AppendProperties DEF Typed
<1> HIDE DEF evict, admit, log
<1>7. Bindings(rows) = BoundBlocks(table) /\ Bindings(log) = BoundBlocks(released)
  BY <1>1, <1>3, <1>6, BindingsAreBlocks DEF Typed
<1>8. Warranted(BoundBlocks(table), evict)
  <2>1. \A q \in Physicals : \E b \in BoundBlocks(table) : b.block = q
    BY <1>1, LiveIsBound
  <2> QED  BY <1>5, <2>1 DEF Warranted
<1>9. Replays(log)
  BY <1>5, <1>7, <1>8, OneMoreReceipt DEF log, Typed
<1>10. Warranted(BoundBlocks(released), admit)
  <2>1. ASSUME NEW b \in BoundBlocks(released)
        PROVE  b.block # p /\ b \in BoundBlocks(table)
    BY <1>3 DEF BoundBlocks
  <2>2. \A b \in BoundBlocks(released) : b.key # admit.key /\ b.block # admit.physical
    BY <1>2, <1>5, <2>1, BlocksOfTable
  <2>3. admit.op # "block_lookup" /\ admit.op # "block_admit_rejected" /\ admit.op # "block_evict"
    BY <1>5
  <2> QED  BY <1>5, <2>2, <2>3, Zenon DEF Warranted
<1> QED  BY <1>4, <1>5, <1>6, <1>7, <1>9, <1>10, OneMoreReceipt

\* Every call leaves a log that can be replayed.
LEMMA ReplayedStep ==
  ASSUME Consistent(table, {}), Typed, ReceiptsExplainTable, ReceiptsReplay, [Next]_vars
  PROVE  ReceiptsReplay'
<1> SUFFICES ASSUME Chained
             PROVE  Replays(rows')
  BY DEF ReceiptsReplay, Replays, Warranted, Bindings, BoundIn
<1>1. Explains(rows, table) /\ Replays(rows)
  BY DEF ReceiptsExplainTable, ReceiptsReplay
<1>2. Bindings(rows) = BoundBlocks(table)
  BY <1>1, BindingsAreBlocks, TableFields DEF Typed, Consistent
<1>3. ASSUME NEW r \in Receipts, rows' = Append(rows, r), Warranted(BoundBlocks(table), r)
      PROVE  Replays(rows')
  BY <1>1, <1>2, <1>3, OneMoreReceipt DEF Typed
<1>4. ASSUME NEW p, NEW run, NEW bundle, Binds(p, run, bundle),
             p \in Live(table) => ~ Strict \/ table.meta[p].bundle = bundle,
             rows' = Emit(rows, AdmitReceipt(BlockKey(run, bundle), p))
      PROVE  Replays(rows')
  BY <1>3, <1>4, BindsWarranted DEF Emit
<1>5. CASE rows' = rows
  BY <1>1, <1>5
<1>6. CASE Next /\ rows' # rows
  <2>1. PICK raw \in RawRuns, bundle \in Bundles \cup {NotABundle} :
          \/ Lookup(raw, bundle)
          \/ \E arg \in PhysicalArgs : Admit(raw, bundle, arg)
    BY <1>6 DEF Next, LookupRefused
  <2>2. CASE Lookup(raw, bundle)
    BY <1>3, <2>2, LookupWarranted
  <2>3. ASSUME NEW arg \in PhysicalArgs, Admit(raw, bundle, arg)
        PROVE  Replays(rows')
    <3>1. CASE AdmitFree(raw, bundle, arg)
      <4>1. Binds(Last(table.free), raw.ids, bundle) /\ Last(table.free) \notin Live(table)
        BY <3>1, AdmitFreeBinds
      <4>2. rows' = Emit(rows, AdmitReceipt(BlockKey(raw.ids, bundle), Last(table.free)))
        BY <3>1 DEF AdmitFree, Admitted
      <4> QED  BY <1>4, <4>1, <4>2
    <3>2. CASE AdmitEvicting(raw, bundle, arg)
      BY <1>1, <3>2, EvictingReplayed
    <3>3. CASE AdmitAt(raw, bundle, arg)
      <4>1. Binds(arg.val, raw.ids, bundle) /\ arg.val \notin Live(table)
        BY <3>3, AdmitAtBinds
      <4>2. rows' = Emit(rows, AdmitReceipt(BlockKey(raw.ids, bundle), arg.val))
        BY <3>3 DEF AdmitAt, Admitted
      <4> QED  BY <1>4, <4>1, <4>2
    <3>4. CASE AdmitRebind(raw, bundle, arg)
      <4>1. /\ Binds(arg.val, raw.ids, bundle)
            /\ ~ Strict \/ table.meta[arg.val].bundle = bundle
        BY <3>4, AdmitRebindBinds
      <4>2. rows' = Emit(rows, AdmitReceipt(BlockKey(raw.ids, bundle), arg.val))
        BY <3>4 DEF AdmitRebind, Admitted
      <4> QED  BY <1>4, <4>1, <4>2
    <3>5. CASE AdmitRejected(raw, bundle, arg)
      <4> DEFINE key == BlockKey(raw.ids, bundle)
                 p == arg.val
                 r == RejectReceipt(key, p)
      <4>1. /\ raw.ids \in Runs /\ bundle \in Bundles
            /\ key \notin DOMAIN table.byKey /\ p \in Physicals
        BY <3>5, NewAddress DEF AdmitRejected
      <4>2. /\ rows' = Append(rows, r) /\ p \in Live(table)
            /\ Strict /\ table.meta[p].bundle # bundle
        BY <3>5 DEF AdmitRejected, ForeignBlock, Emit
      <4>3. key \in Keys /\ key.bundle = bundle
        BY <4>1 DEF BlockKey, Keys
      <4> HIDE DEF key, p
      <4>4. r \in Receipts /\ r.op = "block_admit_rejected" /\ r.key = key /\ r.physical = p
        BY <4>1, <4>3 DEF RejectReceipt, Receipts
      <4> HIDE DEF r
      <4>5. PICK b \in BoundBlocks(table) : b.block = p
        BY <4>2, LiveIsBound
      <4>6. b.key.bundle # r.key.bundle /\ \A c \in BoundBlocks(table) : c.key # r.key
        BY <4>1, <4>2, <4>3, <4>4, <4>5, BlocksOfTable
      <4>7. Warranted(BoundBlocks(table), r)
        <5>1. /\ r.op # "block_lookup" /\ r.op # "block_admit" /\ r.op # "block_evict"
              /\ b.block = r.physical
          BY <4>4, <4>5
        <5> QED  BY <4>2, <4>5, <4>6, <5>1, Zenon DEF Warranted
      <4> QED  BY <1>3, <4>2, <4>4, <4>7
    <3> QED  BY <1>6, <2>3, <3>1, <3>2, <3>3, <3>4, <3>5
             DEF Admit, AdmitRefused, AdmitExisting
  <2> QED  BY <2>1, <2>2, <2>3
<1> QED  BY <1>5, <1>6 DEF vars

\* The log can be checked by whoever has nothing else: at its place, each receipt
\* is the one that the receipts before it call for.
THEOREM ReceiptsCanBeReplayed == Spec => []ReceiptsReplay
<1>1. Init => Typed /\ ReceiptsReplay
  <2>1. << >> \in Seq(Receipts) /\ DOMAIN << >> = {}
    OBVIOUS
  <2> QED  BY <2>1 DEF Init, Typed, Replies, ReceiptsReplay, Replays
<1>2. Consistent(table, {}) /\ Typed /\ [Next]_vars => Typed'
  BY TypedStep
<1>3. Consistent(table, {}) /\ Typed /\ ReceiptsExplainTable /\ ReceiptsReplay /\ [Next]_vars
        => ReceiptsReplay'
  BY ReplayedStep
<1> QED  BY <1>1, <1>2, <1>3, TableIsConsistent, ReceiptsTellBindings, PTL DEF Spec

-----------------------------------------------------------------------------
(* What a step counts and receipts, and what it does to the order.         *)

\* The receipts that go with a counter.
ReceiptsOf(c) ==
  {r \in Receipts :
     \/ c \in Outcomes /\ r.op = "block_lookup" /\ r.outcome = c
     \/ c = "admitted" /\ r.op = "block_admit"
     \/ c = "evicted" /\ r.op = "block_evict"
     \/ c = "rejected_cross_regime" /\ r.op = "block_admit_rejected"}

\* A call that binds nothing counts and receipts one event.
Notes(r, c) ==
  /\ r \in ReceiptsOf(c) /\ c \in Counters \ {"admitted", "evicted"}
  /\ rows' = Append(rows, r) /\ stats' = Count(stats, c) /\ table' = table

\* An admission moves its block to the end of the order.
Reordered(p) ==
  Append(IF p \in Live(table) THEN RemoveFirst(table.order, p) ELSE table.order, p)

Admits(p, key) ==
  /\ p \in Physicals /\ key \in Keys
  /\ table'.order = Reordered(p)
  /\ rows' = Append(rows, AdmitReceipt(key, p)) /\ stats' = Count(stats, "admitted")

Evicts(p, key) ==
  /\ p = Oldest(table) /\ p \in Physicals /\ Live(table) = Physicals /\ key \in Keys
  /\ table.order # << >> /\ table'.order = Reordered(p)
  /\ rows' = Append(Append(rows, EvictReceipt(p)), AdmitReceipt(key, p))
  /\ stats' = Count(Count(stats, "evicted"), "admitted")

\* The order after an admission, whatever was done to the free list.
LEMMA AdmittedMoves ==
  ASSUME NEW t, NEW s, NEW log, NEW p, NEW run, NEW bundle, Chained,
         Admitted(t, s, log, p, run, bundle)
  PROVE  /\ table'.order = Append(t.order, p) /\ stats' = Count(s, "admitted")
         /\ rows' = Append(log, AdmitReceipt(BlockKey(run, bundle), p))
BY DEF Admitted, Bind, Emit

\* With a chain a call does nothing, notes an event, or admits, with or without
\* an eviction before.
LEMMA StepCounts ==
  ASSUME Consistent(table, {}), Chained, [Next]_vars
  PROVE  \/ UNCHANGED <<table, stats, rows>>
         \/ \E r \in Receipts, c \in Counters : Notes(r, c)
         \/ \E p \in Physicals, key \in Keys : Admits(p, key) \/ Evicts(p, key)
<1>1. CASE UNCHANGED vars
  BY <1>1 DEF vars
<1>2. ASSUME NEW raw \in RawRuns, NEW bundle \in Bundles \cup {NotABundle}, Lookup(raw, bundle)
      PROVE  \E r \in Receipts, c \in Counters : Notes(r, c)
  <2>. DEFINE key == BlockKey(raw.ids, bundle)
              outcome == Outcome(table, raw.ids, bundle)
              physical == IF outcome = "hit" THEN table.byKey[key] ELSE -1
              r == LookupReceipt(key, outcome, physical)
  <2>1. /\ rows' = Append(rows, r) /\ table' = table /\ stats' = Count(stats, outcome)
        /\ raw.ids \in Runs /\ bundle \in Bundles
    BY <1>2 DEF Lookup, Emit, RawRuns
  <2>2. outcome \in Outcomes /\ (outcome = "hit" => key \in DOMAIN table.byKey)
    BY DEF Outcome, Outcomes
  <2>3. physical \in Physicals \cup {-1}
    BY <2>2, TableFields DEF Consistent
  <2>4. key \in Keys
    BY <2>1 DEF BlockKey, Keys
  <2>. HIDE DEF key, outcome, physical
  <2>5. r \in Receipts /\ r.op = "block_lookup" /\ r.outcome = outcome
    BY <2>2, <2>3, <2>4 DEF LookupReceipt, Receipts
  <2>6. outcome \in Counters \ {"admitted", "evicted"}
    BY <2>2 DEF Counters, Outcomes
  <2>. HIDE DEF r
  <2>. QED BY <2>1, <2>2, <2>5, <2>6 DEF Notes, ReceiptsOf
<1>3. ASSUME NEW raw \in RawRuns, NEW bundle \in Bundles \cup {NotABundle},
             NEW arg \in PhysicalArgs, AdmitsNew(raw, bundle, arg)
      PROVE  BlockKey(raw.ids, bundle) \in Keys /\ (arg.given => arg.val \in Physicals)
  BY <1>3, NewAddress DEF BlockKey, Keys
<1>4. ASSUME NEW raw \in RawRuns, NEW bundle \in Bundles \cup {NotABundle},
             NEW arg \in PhysicalArgs, AdmitRejected(raw, bundle, arg)
      PROVE  \E r \in Receipts, c \in Counters : Notes(r, c)
  <2>. DEFINE r == RejectReceipt(BlockKey(raw.ids, bundle), arg.val)
  <2>1. /\ rows' = Append(rows, r) /\ table' = table
        /\ stats' = Count(stats, "rejected_cross_regime")
        /\ arg.given /\ AdmitsNew(raw, bundle, arg)
    BY <1>4 DEF AdmitRejected, Emit
  <2>2. r \in Receipts /\ r.op = "block_admit_rejected"
    BY <1>3, <2>1 DEF RejectReceipt, Receipts
  <2>3. "rejected_cross_regime" \in Counters \ {"admitted", "evicted"}
    BY DEF Counters
  <2>. HIDE DEF r
  <2>. QED BY <2>1, <2>2, <2>3 DEF Notes, ReceiptsOf
<1>5. ASSUME NEW raw \in RawRuns, NEW bundle \in Bundles \cup {NotABundle},
             NEW arg \in PhysicalArgs, AdmitFree(raw, bundle, arg)
      PROVE  Admits(Last(table.free), BlockKey(raw.ids, bundle))
  <2>. DEFINE p == Last(table.free)
  <2>1. p \in Physicals /\ p \notin Live(table) /\ BlockKey(raw.ids, bundle) \in Keys
    BY <1>3, <1>5, AdmitFreeBinds DEF Binds, AdmitFree
  <2>2. Admitted(PopFree(table), stats, rows, p, raw.ids, bundle)
    BY <1>5 DEF AdmitFree
  <2>3. PopFree(table).order = table.order
    BY DEF PopFree, Consistent, Tables
  <2>. HIDE DEF p
  <2>4. /\ table'.order = Append(PopFree(table).order, p) /\ stats' = Count(stats, "admitted")
        /\ rows' = Append(rows, AdmitReceipt(BlockKey(raw.ids, bundle), p))
    BY <2>2, AdmittedMoves
  <2>. QED BY <2>1, <2>3, <2>4 DEF Admits, Reordered, p
<1>6. ASSUME NEW raw \in RawRuns, NEW bundle \in Bundles \cup {NotABundle},
             NEW arg \in PhysicalArgs, AdmitAt(raw, bundle, arg)
      PROVE  Admits(arg.val, BlockKey(raw.ids, bundle))
  <2>1. arg.val \in Physicals /\ arg.val \notin Live(table) /\ BlockKey(raw.ids, bundle) \in Keys
    BY <1>3, <1>6 DEF AdmitAt
  <2>2. Admitted(TakeFree(table, arg.val), stats, rows, arg.val, raw.ids, bundle)
    BY <1>6 DEF AdmitAt
  <2>3. TakeFree(table, arg.val).order = table.order
    BY DEF TakeFree, Consistent, Tables
  <2>4. /\ table'.order = Append(TakeFree(table, arg.val).order, arg.val)
        /\ stats' = Count(stats, "admitted")
        /\ rows' = Append(rows, AdmitReceipt(BlockKey(raw.ids, bundle), arg.val))
    BY <2>2, AdmittedMoves
  <2>. QED BY <2>1, <2>3, <2>4 DEF Admits, Reordered
<1>7. ASSUME NEW raw \in RawRuns, NEW bundle \in Bundles \cup {NotABundle},
             NEW arg \in PhysicalArgs, AdmitRebind(raw, bundle, arg)
      PROVE  Admits(arg.val, BlockKey(raw.ids, bundle))
  <2>. DEFINE t == TakeFree(Release(table, arg.val), arg.val)
  <2>1. arg.val \in Physicals /\ arg.val \in Live(table) /\ BlockKey(raw.ids, bundle) \in Keys
    BY <1>3, <1>7 DEF AdmitRebind
  <2>2. Admitted(t, stats, rows, arg.val, raw.ids, bundle)
    BY <1>7 DEF AdmitRebind
  <2>3. t.order = RemoveFirst(table.order, arg.val)
    BY DEF TakeFree, Release
  <2>. HIDE DEF t
  <2>4. /\ table'.order = Append(t.order, arg.val) /\ stats' = Count(stats, "admitted")
        /\ rows' = Append(rows, AdmitReceipt(BlockKey(raw.ids, bundle), arg.val))
    BY <2>2, AdmittedMoves
  <2>. QED BY <2>1, <2>3, <2>4 DEF Admits, Reordered
<1>8. ASSUME NEW raw \in RawRuns, NEW bundle \in Bundles \cup {NotABundle},
             NEW arg \in PhysicalArgs, AdmitEvicting(raw, bundle, arg)
      PROVE  Evicts(Oldest(table), BlockKey(raw.ids, bundle))
  <2>. DEFINE p == Oldest(table)
              t == PopFree(Evict(table))
              log == Emit(rows, EvictReceipt(p))
              s == Count(stats, "evicted")
  <2>1. table.free = << >> /\ BlockKey(raw.ids, bundle) \in Keys
    BY <1>3, <1>8 DEF AdmitEvicting
  <2>2. /\ Live(table) = Physicals /\ p \in Live(table) /\ table.order # << >>
        /\ Last(Evict(table).free) = p
    BY <2>1, FullTable, EvictThenPop
  <2>3. Admitted(t, s, log, p, raw.ids, bundle)
    BY <1>8, <2>2 DEF AdmitEvicting
  <2>4. t.order = RemoveFirst(table.order, p)
    BY DEF PopFree, Evict, Release
  <2>5. log = Append(rows, EvictReceipt(p))
    BY DEF Emit
  <2>. HIDE DEF p, t, log, s
  <2>6. /\ table'.order = Append(t.order, p) /\ stats' = Count(s, "admitted")
        /\ rows' = Append(log, AdmitReceipt(BlockKey(raw.ids, bundle), p))
    BY <2>3, AdmittedMoves
  <2>. QED BY <2>1, <2>2, <2>4, <2>5, <2>6 DEF Evicts, Reordered, p, s
<1>9. CASE Next
  <2>1. PICK raw \in RawRuns, bundle \in Bundles \cup {NotABundle} :
          \/ Lookup(raw, bundle)
          \/ LookupRefused(raw, bundle)
          \/ \E arg \in PhysicalArgs : Admit(raw, bundle, arg)
    BY <1>9 DEF Next
  <2>2. CASE LookupRefused(raw, bundle)
    BY <2>2 DEF LookupRefused
  <2>3. ASSUME NEW arg \in PhysicalArgs, Admit(raw, bundle, arg)
        PROVE  \/ UNCHANGED <<table, stats, rows>>
               \/ \E r \in Receipts, c \in Counters : Notes(r, c)
               \/ \E p \in Physicals, key \in Keys : Admits(p, key) \/ Evicts(p, key)
    <3>1. CASE AdmitRefused(raw, bundle, arg) \/ AdmitExisting(raw, bundle, arg)
      BY <3>1 DEF AdmitRefused, AdmitExisting
    <3>2. CASE AdmitFree(raw, bundle, arg) \/ AdmitAt(raw, bundle, arg)
               \/ AdmitRebind(raw, bundle, arg)
      BY <3>2, <1>5, <1>6, <1>7 DEF Admits
    <3>3. CASE AdmitEvicting(raw, bundle, arg)
      BY <3>3, <1>8 DEF Evicts
    <3>. QED BY <2>3, <3>1, <3>2, <3>3, <1>4 DEF Admit
  <2>. QED BY <2>1, <2>2, <2>3, <1>2
<1>. QED BY <1>1, <1>9

-----------------------------------------------------------------------------
(* The counters count the receipts.                                        *)

Tally(log, K) == Cardinality({i \in DOMAIN log : log[i] \in K})

\* Counters and log tell the same story.
Agree(s, log) == \A c \in Counters : s[c] = Tally(log, ReceiptsOf(c))

LEMMA TallyAppend ==
  ASSUME NEW log \in Seq(Receipts), NEW r \in Receipts, NEW K
  PROVE  /\ Tally(log, K) \in Nat
         /\ Tally(Append(log, r), K) = IF r \in K THEN Tally(log, K) + 1 ELSE Tally(log, K)
<1>. DEFINE new == Append(log, r)
            n == Len(log)
            old == {i \in DOMAIN log : log[i] \in K}
            all == {i \in DOMAIN new : new[i] \in K}
<1>1. /\ n \in Nat /\ DOMAIN log = 1 .. n /\ DOMAIN new = 1 .. (n + 1)
      /\ \A i \in 1 .. n : new[i] = log[i]
      /\ new[n + 1] = r
  BY AppendProperties
<1>2. IsFiniteSet(old)
  <2>1. IsFiniteSet(1 .. n)
    BY <1>1, FS_Interval
  <2>. QED BY <1>1, <2>1, FS_Subset
<1>3. 1 .. (n + 1) = (1 .. n) \cup {n + 1} /\ n + 1 \notin 1 .. n
  BY <1>1
<1>. HIDE DEF new, n
<1>4. n + 1 \notin old /\ all = IF r \in K THEN old \cup {n + 1} ELSE old
  BY <1>1, <1>3
<1>. HIDE DEF old, all
<1>5. Cardinality(old) \in Nat
      /\ Cardinality(all) = IF r \in K THEN Cardinality(old) + 1 ELSE Cardinality(old)
  BY <1>2, <1>4, FS_CardinalityType, FS_AddElement
<1>. QED BY <1>5 DEF Tally, old, all, new

\* A receipt goes with one counter.
LEMMA OneCounterEach ==
  ASSUME NEW c \in Counters, NEW d \in Counters, NEW r \in ReceiptsOf(c), r \in ReceiptsOf(d)
  PROVE  c = d
BY DEF ReceiptsOf, Counters, Outcomes

\* One event counted and receipted keeps counters and log together.
LEMMA CountedAndReceipted ==
  ASSUME NEW s \in [Counters -> Nat], NEW log \in Seq(Receipts), Agree(s, log),
         NEW c \in Counters, NEW r \in ReceiptsOf(c)
  PROVE  /\ Agree(Count(s, c), Append(log, r))
         /\ Count(s, c) \in [Counters -> Nat] /\ Append(log, r) \in Seq(Receipts)
<1>1. r \in Receipts
  BY DEF ReceiptsOf
<1>2. Count(s, c)[c] = s[c] + 1 /\ \A d \in Counters \ {c} : Count(s, c)[d] = s[d]
  BY CountTyped
<1>3. Count(s, c) \in [Counters -> Nat] /\ Append(log, r) \in Seq(Receipts)
  BY <1>1, CountTyped, AppendProperties
<1>4. ASSUME NEW d \in Counters
      PROVE  Count(s, c)[d] = Tally(Append(log, r), ReceiptsOf(d))
  <2>1. s[d] = Tally(log, ReceiptsOf(d))
    BY DEF Agree
  <2>2. CASE d = c
    BY <1>1, <1>2, <2>1, <2>2, TallyAppend
  <2>3. CASE d # c
    <3>1. r \notin ReceiptsOf(d)
      BY <2>3, OneCounterEach
    <3>. QED BY <1>1, <1>2, <2>1, <2>3, <3>1, TallyAppend
  <2>. QED BY <2>2, <2>3
<1>5. Agree(Count(s, c), Append(log, r))
  BY <1>4 DEF Agree
<1>. QED BY <1>3, <1>5

LEMMA AdmissionReceipts ==
  ASSUME NEW p \in Physicals, NEW key \in Keys
  PROVE  /\ AdmitReceipt(key, p) \in ReceiptsOf("admitted") /\ "admitted" \in Counters
         /\ EvictReceipt(p) \in ReceiptsOf("evicted") /\ "evicted" \in Counters
BY DEF AdmitReceipt, EvictReceipt, ReceiptsOf, Receipts, Counters

LEMMA CountersStep ==
  ASSUME Consistent(table, {}), Typed, Chained, Agree(stats, rows), [Next]_vars
  PROVE  Agree(stats', rows')
<1>1. stats \in [Counters -> Nat] /\ rows \in Seq(Receipts)
  BY DEF Typed
<1>2. CASE UNCHANGED <<table, stats, rows>>
  BY <1>2 DEF Agree
<1>3. ASSUME NEW r \in Receipts, NEW c \in Counters, Notes(r, c)
      PROVE  Agree(stats', rows')
  BY <1>1, <1>3, CountedAndReceipted DEF Notes
<1>4. ASSUME NEW p \in Physicals, NEW key \in Keys, Admits(p, key)
      PROVE  Agree(stats', rows')
  BY <1>1, <1>4, AdmissionReceipts, CountedAndReceipted DEF Admits
<1>5. ASSUME NEW p \in Physicals, NEW key \in Keys, Evicts(p, key)
      PROVE  Agree(stats', rows')
  <2>. DEFINE s == Count(stats, "evicted")
              log == Append(rows, EvictReceipt(p))
  <2>1. Agree(s, log) /\ s \in [Counters -> Nat] /\ log \in Seq(Receipts)
    BY <1>1, AdmissionReceipts, CountedAndReceipted
  <2>. HIDE DEF s, log
  <2>2. Agree(Count(s, "admitted"), Append(log, AdmitReceipt(key, p)))
    BY <2>1, AdmissionReceipts, CountedAndReceipted
  <2>. QED BY <1>5, <2>2 DEF Evicts, s, log
<1>. QED BY <1>2, <1>3, <1>4, <1>5, StepCounts

LEMMA EmptyLogAgrees == Init => Typed /\ Agree(stats, rows)
<1>. SUFFICES ASSUME Init PROVE Typed /\ Agree(stats, rows)
  OBVIOUS
<1>1. << >> \in Seq(Receipts) /\ DOMAIN << >> = {}
  OBVIOUS
<1>2. Typed
  BY <1>1 DEF Init, Typed, Replies
<1>3. ASSUME NEW K PROVE Tally(<< >>, K) = 0
  <2>1. {i \in DOMAIN << >> : << >>[i] \in K} = {}
    BY <1>1
  <2>. QED BY <2>1, FS_EmptySet DEF Tally
<1>4. Agree(stats, rows)
  BY <1>3 DEF Init, Agree
<1>. QED BY <1>2, <1>4

LEMMA AgreeCounts ==
  ASSUME Typed, Agree(stats, rows)
  PROVE  CountersMatchReceipts
<1>1. \A i \in DOMAIN rows : rows[i] \in Receipts
  BY DEF Typed
<1>2. ASSUME NEW c \in Counters
      PROVE  stats[c] = Cardinality({i \in DOMAIN rows : rows[i] \in ReceiptsOf(c)})
  BY DEF Agree, Tally
<1>3. ASSUME NEW o \in Outcomes
      PROVE  stats[o] = Cardinality({i \in DOMAIN rows : rows[i].op = "block_lookup"
                                                          /\ rows[i].outcome = o})
  <2>1. {i \in DOMAIN rows : rows[i] \in ReceiptsOf(o)}
          = {i \in DOMAIN rows : rows[i].op = "block_lookup" /\ rows[i].outcome = o}
    BY <1>1 DEF ReceiptsOf, Outcomes
  <2>. QED BY <1>2, <2>1 DEF Counters
<1>4. ASSUME NEW c, NEW op, <<c, op>> \in {<<"admitted", "block_admit">>, <<"evicted", "block_evict">>,
                             <<"rejected_cross_regime", "block_admit_rejected">>}
      PROVE  stats[c] = Cardinality({i \in DOMAIN rows : rows[i].op = op})
  <2>1. c \in Counters
    BY <1>4 DEF Counters
  <2>2. {i \in DOMAIN rows : rows[i] \in ReceiptsOf(c)} = {i \in DOMAIN rows : rows[i].op = op}
    BY <1>1, <1>4 DEF ReceiptsOf, Outcomes
  <2>. QED BY <1>2, <2>1, <2>2
<1>. QED BY <1>3, <1>4 DEF CountersMatchReceipts, ReceiptsWith

\* Every counter is the number of receipts of its kind, whatever was looked up,
\* admitted, evicted and refused.
THEOREM CountersCountReceipts == Spec => []CountersMatchReceipts
<1>. DEFINE Inv == Typed /\ (Chained => Agree(stats, rows))
<1>1. Init => Inv
  BY EmptyLogAgrees
<1>2. Consistent(table, {}) /\ Inv /\ [Next]_vars => Inv'
  <2>1. Consistent(table, {}) /\ Typed /\ [Next]_vars => Typed'
    BY TypedStep
  <2>2. Consistent(table, {}) /\ Typed /\ Chained /\ Agree(stats, rows) /\ [Next]_vars
          => Agree(stats', rows')
    BY CountersStep
  <2>3. Agree(stats, rows)' <=> Agree(stats', rows')
    BY DEF Agree
  <2>. QED BY <2>1, <2>2, <2>3
<1>3. Inv => CountersMatchReceipts
  BY AgreeCounts DEF CountersMatchReceipts
<1>. QED BY <1>1, <1>2, <1>3, TableIsConsistent, PTL DEF Spec

-----------------------------------------------------------------------------
(* Evictions by age.                                                       *)

Before(order, x, y) ==
  \E m, n \in DOMAIN order : m < n /\ order[m] = x /\ order[n] = y

\* The order of the table lists the blocks by the age of their bindings in the
\* log.
ByAge(order, log) ==
  \A x, y : Before(order, x, y) =>
    \A i, j \in DOMAIN log : BoundIn(log, i, x) /\ BoundIn(log, j, y) => i < j

\* remove(e) keeps the order of the others.
LEMMA RemoveKeepsOrder ==
  ASSUME NEW s \in Seq(Physicals), NEW e \in ToSet(s), IsInjective(s),
         NEW x, NEW y, Before(RemoveFirst(s, e), x, y)
  PROVE  Before(s, x, y)
<1>. DEFINE r == RemoveFirst(s, e)
            old(i, n) == IF i < n THEN i ELSE i + 1
<1>1. PICK n \in 1 .. Len(s) :
        /\ s[n] = e /\ r \in Seq(Physicals) /\ Len(r) = Len(s) - 1
        /\ \A i \in 1 .. (Len(s) - 1) : r[i] = IF i < n THEN s[i] ELSE s[i + 1]
  BY RemoveShifts
<1>2. Len(s) \in Nat /\ DOMAIN s = 1 .. Len(s)
  OBVIOUS
<1>. HIDE DEF r
<1>3. DOMAIN r = 1 .. (Len(s) - 1)
  BY <1>1, <1>2
<1>4. PICK a \in DOMAIN r, b \in DOMAIN r : a < b /\ r[a] = x /\ r[b] = y
  BY DEF Before, r
<1>5. /\ old(a, n) \in DOMAIN s /\ old(b, n) \in DOMAIN s
      /\ old(a, n) < old(b, n)
  BY <1>2, <1>3, <1>4
<1>6. s[old(a, n)] = x /\ s[old(b, n)] = y
  BY <1>1, <1>3, <1>4
<1>. QED BY <1>5, <1>6 DEF Before

\* What is bound before one more receipt was bound before it, unless the
\* receipt binds it.
LEMMA AgeOther ==
  ASSUME NEW order, NEW log \in Seq(Receipts), ByAge(order, log),
         NEW r \in Receipts, r.op # "block_admit"
  PROVE  ByAge(order, Append(log, r))
<1>. DEFINE new == Append(log, r)
<1>1. ASSUME NEW p, NEW i \in DOMAIN new, BoundIn(new, i, p)
      PROVE  i \in DOMAIN log /\ BoundIn(log, i, p)
  <2>1. /\ \A k \in DOMAIN log : BoundIn(new, k, p) => BoundIn(log, k, p)
        /\ ~ BoundIn(new, Len(log) + 1, p)
        /\ DOMAIN new = DOMAIN log \cup {Len(log) + 1}
    BY BoundAfterAppend
  <2>. HIDE DEF new
  <2>. QED BY <1>1, <2>1
<1>. HIDE DEF new
<1>. QED BY <1>1 DEF ByAge, new

\* An admission appends its block to the order and its receipt to the log.
LEMMA AgeAdmit ==
  ASSUME NEW order \in Seq(Physicals), NEW log \in Seq(Receipts), ByAge(order, log),
         NEW p \in Physicals, p \notin ToSet(order), NEW key \in Keys
  PROVE  ByAge(Append(order, p), Append(log, AdmitReceipt(key, p)))
<1>. DEFINE r == AdmitReceipt(key, p)
            new == Append(log, r)
            o == Append(order, p)
<1>1. r \in Receipts /\ r.op = "block_admit" /\ r.physical = p
  BY DEF AdmitReceipt, Receipts
<1>. HIDE DEF r
<1>2. ASSUME NEW q, NEW i \in DOMAIN new, BoundIn(new, i, q)
      PROVE  IF q = p THEN i = Len(log) + 1 ELSE i \in DOMAIN log /\ BoundIn(log, i, q)
  <2>1. /\ \A k \in DOMAIN log : BoundIn(new, k, q) => BoundIn(log, k, q) /\ q # p
        /\ BoundIn(new, Len(log) + 1, q) => q = p
        /\ DOMAIN new = DOMAIN log \cup {Len(log) + 1}
    BY <1>1, BoundAfterAppend
  <2>. HIDE DEF new
  <2>. QED BY <1>2, <2>1
<1>3. /\ Len(order) \in Nat /\ DOMAIN order = 1 .. Len(order)
      /\ DOMAIN o = 1 .. (Len(order) + 1) /\ o[Len(order) + 1] = p
      /\ \A i \in 1 .. Len(order) : o[i] = order[i] /\ order[i] # p
  BY AppendProperties DEF ToSet
<1>4. Len(log) \in Nat /\ DOMAIN log = 1 .. Len(log)
  OBVIOUS
<1>. HIDE DEF new, o
<1>5. ASSUME NEW x, NEW y, Before(o, x, y), NEW i \in DOMAIN new, NEW j \in DOMAIN new,
             BoundIn(new, i, x), BoundIn(new, j, y)
      PROVE  i < j
  <2>1. PICK m \in DOMAIN o, n \in DOMAIN o : m < n /\ o[m] = x /\ o[n] = y
    BY <1>5 DEF Before
  <2>2. m \in DOMAIN order /\ order[m] = x /\ x # p
    BY <1>3, <2>1
  <2>3. i \in DOMAIN log /\ BoundIn(log, i, x)
    BY <1>2, <1>5, <2>2
  <2>4. CASE y = p
    BY <1>2, <1>4, <1>5, <2>3, <2>4
  <2>5. CASE y # p
    <3>1. n \in DOMAIN order /\ order[n] = y
      BY <1>3, <2>1, <2>5
    <3>2. j \in DOMAIN log /\ BoundIn(log, j, y)
      BY <1>2, <1>5, <2>5
    <3>3. Before(order, x, y)
      BY <2>1, <2>2, <3>1 DEF Before
    <3>. QED BY <2>3, <3>2, <3>3 DEF ByAge
  <2>. QED BY <2>4, <2>5
<1>. QED BY <1>5 DEF ByAge, new, o, r

LEMMA AgeSub ==
  ASSUME NEW s \in Seq(Physicals), NEW e \in ToSet(s), IsInjective(s),
         NEW log, ByAge(s, log)
  PROVE  /\ ByAge(RemoveFirst(s, e), log) /\ RemoveFirst(s, e) \in Seq(Physicals)
         /\ e \notin ToSet(RemoveFirst(s, e))
<1>1. ByAge(RemoveFirst(s, e), log)
  BY RemoveKeepsOrder DEF ByAge
<1>. QED BY <1>1, RemoveMember

\* Every step keeps the order sorted by age.
LEMMA AgeStep ==
  ASSUME Consistent(table, {}), Typed, Chained, ByAge(table.order, rows), [Next]_vars
  PROVE  ByAge(table'.order, rows')
<1>1. /\ rows \in Seq(Receipts) /\ table.order \in Seq(Physicals)
      /\ IsInjective(table.order) /\ ToSet(table.order) = Live(table)
  BY TableFields DEF Typed, Consistent, OrderListsLive
<1>2. CASE UNCHANGED <<table, stats, rows>>
  BY <1>2
<1>3. ASSUME NEW r \in Receipts, NEW c \in Counters, Notes(r, c)
      PROVE  ByAge(table'.order, rows')
  <2>1. r.op # "block_admit"
    BY <1>3 DEF Notes, ReceiptsOf, Counters, Outcomes
  <2>. QED BY <1>1, <1>3, <2>1, AgeOther DEF Notes
<1>4. ASSUME NEW p \in Physicals, NEW log \in Seq(Receipts), ByAge(table.order, log),
             NEW key \in Keys
      PROVE  ByAge(Reordered(p), Append(log, AdmitReceipt(key, p)))
  <2>1. CASE p \in Live(table)
    BY <1>1, <1>4, <2>1, AgeSub, AgeAdmit DEF Reordered
  <2>2. CASE p \notin Live(table)
    BY <1>1, <1>4, <2>2, AgeAdmit DEF Reordered
  <2>. QED BY <2>1, <2>2
<1>5. ASSUME NEW p \in Physicals, NEW key \in Keys, Admits(p, key)
      PROVE  ByAge(table'.order, rows')
  BY <1>1, <1>4, <1>5 DEF Admits
<1>6. ASSUME NEW p \in Physicals, NEW key \in Keys, Evicts(p, key)
      PROVE  ByAge(table'.order, rows')
  <2>. DEFINE log == Append(rows, EvictReceipt(p))
  <2>1. EvictReceipt(p) \in Receipts /\ EvictReceipt(p).op # "block_admit"
    BY DEF EvictReceipt, Receipts
  <2>2. log \in Seq(Receipts) /\ ByAge(table.order, log)
    BY <1>1, <2>1, AgeOther, AppendProperties
  <2>. HIDE DEF log
  <2>3. ByAge(Reordered(p), Append(log, AdmitReceipt(key, p)))
    BY <1>4, <2>2
  <2>. QED BY <1>6, <2>3 DEF Evicts, log
<1>. QED BY <1>2, <1>3, <1>4, <1>5, <1>6, StepCounts

\* A step that counts an eviction evicts the first block of the order, which
\* then lists every block.
LEMMA EvictionStep ==
  ASSUME Consistent(table, {}), Typed, Chained, [Next]_vars,
         stats'["evicted"] # stats["evicted"]
  PROVE  /\ Live(table) = Physicals /\ table.order # << >>
         /\ rows'[Len(rows) + 1].physical = Head(table.order)
<1>1. stats \in [Counters -> Nat] /\ rows \in Seq(Receipts)
  BY DEF Typed
<1>2. "evicted" \in Counters /\ "admitted" \in Counters
  BY DEF Counters
<1>3. ~ UNCHANGED <<table, stats, rows>>
  OBVIOUS
<1>4. ASSUME NEW r \in Receipts, NEW c \in Counters, Notes(r, c) PROVE FALSE
  BY <1>1, <1>2, <1>4, CountTyped DEF Notes
<1>5. ASSUME NEW p \in Physicals, NEW key \in Keys, Admits(p, key) PROVE FALSE
  BY <1>1, <1>2, <1>5, CountTyped DEF Admits
<1>6. PICK p \in Physicals, key \in Keys : Evicts(p, key)
  BY <1>3, <1>4, <1>5, StepCounts
<1>. DEFINE log == Append(rows, EvictReceipt(p))
<1>7. EvictReceipt(p) \in Receipts /\ AdmitReceipt(key, p) \in Receipts
  BY DEF EvictReceipt, AdmitReceipt, Receipts
<1>8. log \in Seq(Receipts) /\ Len(log) = Len(rows) + 1 /\ log[Len(rows) + 1] = EvictReceipt(p)
  BY <1>1, <1>7, AppendProperties
<1>. HIDE DEF log
<1>9. rows' = Append(log, AdmitReceipt(key, p))
  BY <1>6 DEF Evicts, log
<1>10. Len(rows) + 1 \in 1 .. Len(log)
  BY <1>1, <1>8
<1>11. rows'[Len(rows) + 1] = EvictReceipt(p)
  BY <1>7, <1>8, <1>9, <1>10, AppendProperties
<1>. QED BY <1>6, <1>11 DEF Evicts, EvictReceipt, Oldest

LEMMA EvictionByAge ==
  ASSUME Consistent(table, {}), Typed, Chained, ByAge(table.order, rows), [Next]_vars,
         stats'["evicted"] # stats["evicted"]
  PROVE  LET evicted == rows'[Len(rows) + 1].physical
         IN  /\ Live(table) = Physicals
             /\ \A i, j \in DOMAIN rows : \A p \in Physicals \ {evicted} :
                  BoundBy(i, evicted) /\ BoundBy(j, p) => i < j
<1>. DEFINE evicted == rows'[Len(rows) + 1].physical
<1>1. /\ table.order \in Seq(Physicals) /\ ToSet(table.order) = Physicals
      /\ Live(table) = Physicals /\ table.order # << >> /\ evicted = table.order[1]
  <2>1. Live(table) = Physicals /\ table.order # << >> /\ evicted = Head(table.order)
    BY EvictionStep
  <2>. HIDE DEF evicted
  <2>2. table.order \in Seq(Physicals) /\ ToSet(table.order) = Live(table)
    BY TableFields DEF Consistent, OrderListsLive
  <2>. QED BY <2>1, <2>2
<1>2. Len(table.order) \in Nat /\ DOMAIN table.order = 1 .. Len(table.order)
      /\ 1 \in DOMAIN table.order
  BY <1>1, EmptySeq
<1>. HIDE DEF evicted
<1>3. ASSUME NEW p \in Physicals \ {evicted}
      PROVE  Before(table.order, evicted, p)
  <2>1. PICK n \in DOMAIN table.order : table.order[n] = p
    BY <1>1 DEF ToSet
  <2>2. 1 < n
    BY <1>1, <1>2, <2>1
  <2>. QED BY <1>1, <1>2, <2>1, <2>2 DEF Before
<1>4. ASSUME NEW i \in DOMAIN rows, NEW j \in DOMAIN rows, NEW p \in Physicals \ {evicted},
             BoundBy(i, evicted), BoundBy(j, p)
      PROVE  i < j
  BY <1>3, <1>4 DEF ByAge, BoundBy
<1>. QED BY <1>1, <1>4 DEF evicted

\* The block a full table gives up is the one whose binding is the oldest,
\* whatever was rebound, looked up or refused in between.
THEOREM OldestIsEvicted == Spec => EvictsOldestAdmission
<1>. DEFINE Inv == Typed /\ (Chained => ByAge(table.order, rows))
<1>1. Init => Inv
  <2>1. Init => Typed
    BY EmptyLogAgrees
  <2>2. DOMAIN << >> = {}
    OBVIOUS
  <2>. QED BY <2>1, <2>2 DEF Init, EmptyTable, ByAge
<1>2. Consistent(table, {}) /\ Inv /\ [Next]_vars => Inv'
  <2>1. Consistent(table, {}) /\ Typed /\ [Next]_vars => Typed'
    BY TypedStep
  <2>2. Consistent(table, {}) /\ Typed /\ Chained /\ ByAge(table.order, rows) /\ [Next]_vars
          => ByAge(table'.order, rows')
    BY AgeStep
  <2>3. ByAge(table.order, rows)' <=> ByAge(table'.order, rows')
    BY DEF ByAge, Before, BoundIn
  <2>. QED BY <2>1, <2>2, <2>3
<1>. DEFINE evicted == rows'[Len(rows) + 1].physical
            Aged == Chained /\ stats'["evicted"] # stats["evicted"] =>
                      /\ Live(table) = Physicals
                      /\ \A i, j \in DOMAIN rows : \A p \in Physicals \ {evicted} :
                           BoundBy(i, evicted) /\ BoundBy(j, p) => i < j
<1>3. Consistent(table, {}) /\ Inv /\ [Next]_vars => [Aged]_vars
  BY EvictionByAge
<1>4. Spec => [][Aged]_vars
  <2>. HIDE DEF Aged, Inv
  <2>. QED BY <1>1, <1>2, <1>3, TableIsConsistent, PTL DEF Spec
<1>. QED BY <1>4 DEF EvictsOldestAdmission

-----------------------------------------------------------------------------
(* The table behind the caller of PagedServing.                            *)

\* PagedServing instantiates the cache that the table implements.
LEMMA SameCache ==
  /\ Cache!Used = Serving!Table!Used /\ Cache!Blocks = Serving!Table!Blocks
  /\ Serving!Pages = Physicals /\ Serving!Addresses = Keys
  /\ \A a : /\ Cache!Hit(a) <=> Serving!Table!Hit(a)
            /\ Cache!MissCrossRegime(a) <=> Serving!Table!MissCrossRegime(a)
            /\ Cache!MissCold(a) <=> Serving!Table!MissCold(a)
            /\ Cache!AlreadyHeld(a) <=> Serving!Table!AlreadyHeld(a)
            /\ \A p : Cache!Place(a, p) <=> Serving!Table!Place(a, p)
            /\ \A x : Cache!Displace(a, x) <=> Serving!Table!Displace(a, x)
  /\ \A op, error : Cache!Refuse(op, error) <=> Serving!Table!Refuse(op, error)
<1>1. /\ Cache!Used = Serving!Table!Used /\ Cache!Blocks = Serving!Table!Blocks
      /\ Cache!Held = Serving!Table!Held
  BY DEF Cache!Used, Cache!Held, Cache!Blocks,
         Serving!Table!Used, Serving!Table!Held, Serving!Table!Blocks
<1>2. \A op, a, outcome, p :
        Cache!Reply(op, a, outcome, p) <=> Serving!Table!Reply(op, a, outcome, p)
  BY DEF Cache!Reply, Serving!Table!Reply
<1>3. Serving!Pages = Physicals /\ Serving!Addresses = Keys
  BY DEF Serving!Pages, Physicals, Serving!Addresses, Keys
<1>4. \A a : Cache!HeldElsewhere(a) <=> Serving!Table!HeldElsewhere(a)
  BY <1>1 DEF Cache!HeldElsewhere, Serving!Table!HeldElsewhere
<1>5. \A a : /\ Cache!Hit(a) <=> Serving!Table!Hit(a)
             /\ Cache!MissCrossRegime(a) <=> Serving!Table!MissCrossRegime(a)
             /\ Cache!MissCold(a) <=> Serving!Table!MissCold(a)
             /\ Cache!AlreadyHeld(a) <=> Serving!Table!AlreadyHeld(a)
  BY <1>1, <1>2, <1>4
     DEF Cache!Hit, Serving!Table!Hit, Cache!MissCrossRegime, Serving!Table!MissCrossRegime,
         Cache!MissCold, Serving!Table!MissCold, Cache!AlreadyHeld, Serving!Table!AlreadyHeld
<1>6. \A a : /\ \A p : Cache!Place(a, p) <=> Serving!Table!Place(a, p)
             /\ \A x : Cache!Displace(a, x) <=> Serving!Table!Displace(a, x)
  BY <1>1, <1>2 DEF Cache!Place, Serving!Table!Place, Cache!Displace, Serving!Table!Displace
<1>7. \A op, error : Cache!Refuse(op, error) <=> Serving!Table!Refuse(op, error)
  BY DEF Cache!Refuse, Serving!Table!Refuse
<1>. QED BY <1>1, <1>3, <1>5, <1>6, <1>7

\* The caller's arguments are arguments of the table, and the key that is made
\* of an address is the address.
LEMMA CallersArguments ==
  ASSUME NEW a \in Keys, NEW type \in IntegralTypes
  PROVE  LET raw == [ids |-> a.tokens, type |-> type]
         IN  /\ raw \in RawRuns /\ ValidTokens(raw) /\ a.bundle \in Bundles
             /\ BlockKey(raw.ids, a.bundle) = a
             /\ \A p \in Physicals :
                  LET arg == [given |-> TRUE, type |-> type, val |-> p]
                  IN arg \in PhysicalArgs /\ ValidPhysical(arg) /\ arg.val = p
<1>1. a.tokens \in Runs /\ a.bundle \in Bundles /\ a = [tokens |-> a.tokens, bundle |-> a.bundle]
  BY DEF Keys
<1>2. [ids |-> a.tokens, type |-> type] \in RawRuns
  BY <1>1 DEF RawRuns
<1>3. ASSUME NEW p \in Physicals
      PROVE  LET arg == [given |-> TRUE, type |-> type, val |-> p]
             IN arg \in PhysicalArgs /\ ValidPhysical(arg) /\ arg.val = p
  <2>1. p \in -1 .. NumBlocks
    BY BlockTableAssumption DEF Physicals
  <2>. QED BY <2>1 DEF PhysicalArgs, ValidPhysical
<1>. QED BY <1>1, <1>2, <1>3 DEF ValidTokens, BlockKey

LEMMA NoPhysicalIsValid == NoPhysical \in PhysicalArgs /\ ValidPhysical(NoPhysical) /\ ~NoPhysical.given
BY DEF PhysicalArgs, ValidPhysical, NoPhysical

\* The caller's calls are calls of the table.
LEMMA CallsAreSteps ==
  ASSUME NEW a \in Keys
  PROVE  /\ LookUp(a) \/ AdmitAnywhere(a) => Next
         /\ \A p \in Physicals : AdmitNumbered(a, p) => Next
<1>1. a.bundle \in Bundles \cup {NotABundle}
  BY DEF Keys
<1>2. LookUp(a) => Next
  BY <1>1, CallersArguments DEF LookUp, Next
<1>3. AdmitAnywhere(a) => Next
  BY <1>1, CallersArguments, NoPhysicalIsValid DEF AdmitAnywhere, Next
<1>4. ASSUME NEW p \in Physicals, AdmitNumbered(a, p) PROVE Next
  BY <1>1, <1>4, CallersArguments DEF AdmitNumbered, Next
<1>. QED BY <1>2, <1>3, <1>4

\* What the caller gets from lookup is what PagedServing lets it get.
LEMMA LookUpServes ==
  ASSUME Consistent(table, {}), NEW a \in Keys, LookUp(a)
  PROVE  /\ \/ Serving!Table!Hit(a) /\ reply'.physical \in Physicals
            \/ /\ Serving!Table!MissCrossRegime(a) \/ Serving!Table!MissCold(a)
               /\ reply'.physical = -1
         /\ table' = table
<1>1. PICK type \in IntegralTypes : Lookup([ids |-> a.tokens, type |-> type], a.bundle)
  BY DEF LookUp
<1>. DEFINE raw == [ids |-> a.tokens, type |-> type]
<1>2. raw \in RawRuns /\ BlockKey(raw.ids, a.bundle) = a
  BY CallersArguments
<1>. HIDE DEF raw
<1>3. Lookup(raw, a.bundle)
  BY <1>1 DEF raw
<1>4. table' = table
  BY <1>3 DEF Lookup
<1>. QED BY <1>2, <1>3, <1>4, LookupActs, SameCache

\* What admit does to an address that is not bound, without a number.
LEMMA AdmitAnywhereServes ==
  ASSUME Consistent(table, {}), NEW a \in Keys, a \notin DOMAIN table.byKey,
         AdmitAnywhere(a)
  PROVE  Serving!AdmitAutomatically(a) /\ reply'.physical \in Physicals
<1>1. PICK type \in IntegralTypes :
        Admit([ids |-> a.tokens, type |-> type], a.bundle, NoPhysical)
  BY DEF AdmitAnywhere
<1>. DEFINE raw == [ids |-> a.tokens, type |-> type]
<1>2. raw \in RawRuns /\ BlockKey(raw.ids, a.bundle) = a /\ ValidTokens(raw)
      /\ a.bundle \in Bundles
  BY CallersArguments
<1>. HIDE DEF raw
<1>3. Admit(raw, a.bundle, NoPhysical)
  BY <1>1 DEF raw
<1>4. AdmitFree(raw, a.bundle, NoPhysical) \/ AdmitEvicting(raw, a.bundle, NoPhysical)
  BY <1>2, <1>3, NoPhysicalIsValid
     DEF Admit, AdmitRefused, AdmitExisting, AdmitAt, AdmitRebind, AdmitRejected
<1>5. CASE AdmitFree(raw, a.bundle, NoPhysical)
  <2>. DEFINE p == Last(table.free)
  <2>1. Binds(p, raw.ids, a.bundle) /\ p \notin Live(table)
    BY <1>2, <1>5, NoPhysicalIsValid, AdmitFreeBinds
  <2>. HIDE DEF p
  <2>2. Cache!Place(a, p) /\ p \in Physicals
    BY <1>2, <2>1, BindsPlaces, BindsAddress
  <2>3. reply'.physical = p
    BY <2>1 DEF Binds, Returned
  <2>. QED BY <2>2, <2>3, SameCache DEF Serving!AdmitAutomatically
<1>6. CASE AdmitEvicting(raw, a.bundle, NoPhysical)
  <2>. DEFINE p == Oldest(table)
              victim == table.meta[p].key
  <2>1. Binds(p, raw.ids, a.bundle) /\ Live(table) = Physicals
    BY <1>2, <1>6, NoPhysicalIsValid, AdmitEvictingBinds
  <2>2. p \in Physicals
    BY <2>1 DEF Binds
  <2>3. victim \in DOMAIN table.byKey /\ Cache!Displace(a, victim)
    BY <1>2, <2>1, <2>2, BindsDisplaces
  <2>4. Cache!Used = Cache!Blocks
    BY <2>1, BindsAddress
  <2>5. reply'.physical = p
    BY <2>1 DEF Binds, Returned
  <2>. HIDE DEF p, victim
  <2>6. victim \in Serving!Table!Held
    BY <2>3 DEF Serving!Table!Held
  <2>. QED BY <2>2, <2>3, <2>4, <2>5, <2>6, SameCache DEF Serving!AdmitAutomatically
<1>. QED BY <1>4, <1>5, <1>6

\* What admit does to an address with a number.
LEMMA AdmitNumberedServes ==
  ASSUME Consistent(table, {}), NEW a \in Keys, NEW p \in Physicals, AdmitNumbered(a, p)
  PROVE  Serving!AdmitNumbered(a, p)
<1>1. PICK type \in IntegralTypes :
        Admit([ids |-> a.tokens, type |-> type], a.bundle,
              [given |-> TRUE, type |-> type, val |-> p])
  BY DEF AdmitNumbered
<1>. DEFINE raw == [ids |-> a.tokens, type |-> type]
            arg == [given |-> TRUE, type |-> type, val |-> p]
            victim == table.meta[p].key
<1>2. /\ raw \in RawRuns /\ BlockKey(raw.ids, a.bundle) = a /\ ValidTokens(raw)
      /\ a.bundle \in Bundles
      /\ arg \in PhysicalArgs /\ ValidPhysical(arg) /\ arg.val = p /\ arg.given
  BY CallersArguments
<1>. HIDE DEF raw, arg
<1>3. Admit(raw, a.bundle, arg)
  BY <1>1 DEF raw, arg
<1>4. CASE AdmitExisting(raw, a.bundle, arg)
  BY <1>2, <1>4, ExistingActs, SameCache DEF Serving!AdmitNumbered
<1>5. CASE AdmitAt(raw, a.bundle, arg)
  <2>1. Binds(p, raw.ids, a.bundle) /\ p \notin Live(table)
    BY <1>2, <1>5, AdmitAtBinds
  <2>2. Cache!Place(a, p)
    BY <1>2, <2>1, BindsPlaces
  <2>. QED BY <2>2, SameCache DEF Serving!AdmitNumbered
<1>6. CASE AdmitRebind(raw, a.bundle, arg)
  <2>1. /\ Binds(p, raw.ids, a.bundle) /\ p \in Live(table)
        /\ ~Strict \/ table.meta[p].bundle = a.bundle
    BY <1>2, <1>6, AdmitRebindBinds
  <2>2. /\ victim \in DOMAIN table.byKey /\ table.byKey[victim] = p
        /\ victim.bundle = table.meta[p].bundle /\ Cache!Displace(a, victim)
    BY <1>2, <2>1, BindsDisplaces
  <2>3. a \notin DOMAIN table.byKey
    BY <1>2, <2>1 DEF Binds
  <2>. HIDE DEF victim
  <2>. QED BY <2>1, <2>2, <2>3, SameCache DEF Serving!AdmitNumbered, Serving!Table!Held
<1>7. CASE AdmitRejected(raw, a.bundle, arg)
  <2>1. /\ a \notin DOMAIN table.byKey /\ p \in Live(table)
        /\ Strict /\ table.meta[p].bundle # a.bundle
        /\ table' = table /\ reply' = [op |-> "admit", outcome |-> "CrossRegimeError"]
    BY <1>2, <1>7 DEF AdmitRejected, AdmitsNew, ForeignBlock, Raised
  <2>2. /\ victim \in DOMAIN table.byKey /\ table.byKey[victim] = p
        /\ victim.bundle = table.meta[p].bundle
    <3>1. AddressesAgree(table)
      BY DEF Consistent
    <3>2. /\ victim \in DOMAIN table.byKey /\ table.byKey[victim] = p
          /\ victim = BlockKey(table.meta[p].run, table.meta[p].bundle)
      BY <2>1, <3>1 DEF AddressesAgree
    <3>. QED BY <3>2 DEF BlockKey
  <2>3. Cache!Refuse("admit", "CrossRegimeError")
    BY <2>1 DEF Cache!Refuse
  <2>. HIDE DEF victim
  <2>. QED BY <2>1, <2>2, <2>3, SameCache DEF Serving!AdmitNumbered, Serving!Table!Held
<1>. QED BY <1>2, <1>3, <1>4, <1>5, <1>6, <1>7
        DEF Admit, AdmitRefused, AdmitFree, AdmitEvicting

\* What the table's caller keeps in order for its calls to be those of
\* PagedServing: its arguments are addresses, and it admits without a number
\* only what the table does not hold, since no call comes between a miss and the
\* admission of what missed.
OpenRequests ==
  [open : {TRUE}, bundle : Bundles, runs : Seq(Runs), pages : Seq(Physicals),
   missed : BOOLEAN]

CallerOK ==
  /\ prepared \in PartialFunctions(Physicals, Keys)
  /\ request.open => request \in OpenRequests
  /\ request.open /\ request.missed =>
       /\ missing = << >> /\ Len(request.pages) < Len(request.runs)
       /\ Serving!Wanted \notin DOMAIN table.byKey

SystemInv == Consistent(table, {}) /\ CallerOK

LEMMA PreparedAreAddresses ==
  ASSUME CallerOK
  PROVE  \A p \in DOMAIN prepared : p \in Physicals /\ prepared[p] \in Keys
BY DEF CallerOK, PartialFunctions

LEMMA WantedIsAddress ==
  ASSUME CallerOK, Serving!Looking
  PROVE  Serving!Wanted \in Keys /\ request \in OpenRequests
<1>1. request \in OpenRequests /\ Len(request.pages) < Len(request.runs)
  BY DEF CallerOK, Serving!Looking
<1>2. /\ request.runs \in Seq(Runs) /\ request.bundle \in Bundles
      /\ Len(request.pages) \in Nat /\ Len(request.runs) \in Nat
  <2>1. /\ request.runs \in Seq(Runs) /\ request.bundle \in Bundles
        /\ request.pages \in Seq(Physicals)
    BY <1>1 DEF OpenRequests
  <2>. QED BY <2>1, LenProperties
<1>3. request.runs[Len(request.pages) + 1] \in Runs
  BY <1>1, <1>2, ElementOfSeq
<1>. QED BY <1>1, <1>2, <1>3 DEF Serving!Wanted, Keys

\* The caller's steps are steps of the table or leave it alone.
LEMMA SystemStepIsTableStep ==
  ASSUME CallerOK, [SystemNext]_<<vars, callerVars>>
  PROVE  [Next]_vars
<1>1. ASSUME NEW p \in DOMAIN prepared, AdmitPrepared(p) PROVE Next
  BY <1>1, PreparedAreAddresses, CallsAreSteps DEF AdmitPrepared
<1>2. CASE LookUpNext
  BY <1>2, WantedIsAddress, CallsAreSteps DEF LookUpNext
<1>3. CASE AdmitNext
  BY <1>3, WantedIsAddress, CallsAreSteps DEF AdmitNext
<1>4. CASE OutsideTable \/ UNCHANGED <<vars, callerVars>>
  BY <1>4 DEF OutsideTable
<1>. QED BY <1>1, <1>2, <1>3, <1>4 DEF SystemNext

LEMMA CallerStarts == SystemInit => SystemInv
<1>. SUFFICES ASSUME SystemInit PROVE SystemInv
  OBVIOUS
<1>1. Consistent(table, {})
  BY EmptyTableConsistent DEF SystemInit, Init
<1>2. prepared = [p \in {} |-> 0] /\ ~request.open
  BY DEF SystemInit, Serving!Init, Serving!NoPages, Serving!NoRequest
<1>3. prepared \in [{} -> Keys] /\ {} \in SUBSET Physicals
  BY <1>2
<1>. QED BY <1>1, <1>2, <1>3 DEF SystemInv, CallerOK, PartialFunctions

\* The caller's notes stay in order, step by step.
LEMMA AdmitPreparedKeeps ==
  ASSUME CallerOK, NEW p \in DOMAIN prepared, AdmitPrepared(p)
  PROVE  CallerOK'
<1>1. /\ ~request.open /\ request' = request
      /\ prepared' = [q \in DOMAIN prepared \ {p} |-> prepared[q]]
  BY DEF AdmitPrepared, Serving!Idle, Serving!NoLongerPrepared
<1>2. DOMAIN prepared \subseteq Physicals /\ \A q \in DOMAIN prepared : prepared[q] \in Keys
  BY PreparedAreAddresses
<1>3. prepared' \in [DOMAIN prepared \ {p} -> Keys] /\ DOMAIN prepared \ {p} \in SUBSET Physicals
  BY <1>1, <1>2
<1>. QED BY <1>1, <1>3 DEF CallerOK, PartialFunctions

LEMMA LookUpKeeps ==
  ASSUME SystemInv, LookUpNext
  PROVE  CallerOK'
<1>1. /\ Serving!Looking /\ ~request.missed /\ LookUp(Serving!Wanted)
      /\ IF reply'.physical = -1 THEN Serving!NoteMiss ELSE Serving!NotePage
  BY DEF LookUpNext
<1>2. Serving!Wanted \in Keys /\ request \in OpenRequests
  BY <1>1, WantedIsAddress DEF SystemInv
<1>3. request.open /\ missing = << >> /\ Len(request.pages) < Len(request.runs)
  BY <1>1 DEF Serving!Looking, Serving!Nothing
<1>4. /\ table' = table
      /\ \/ reply'.physical \in Physicals
         \/ reply'.physical = -1 /\ Serving!Wanted \notin DOMAIN table.byKey
  BY <1>1, <1>2, LookUpServes
     DEF SystemInv, Serving!Table!MissCrossRegime, Serving!Table!MissCold, Serving!Table!Held
<1>5. prepared' = prepared /\ missing' = missing
  BY <1>1 DEF Serving!NoteMiss, Serving!NotePage
<1>6. CASE reply'.physical = -1
  <2>1. request' = [request EXCEPT !.missed = TRUE]
    BY <1>1, <1>6 DEF Serving!NoteMiss
  <2>2. /\ request' \in OpenRequests /\ request'.pages = request.pages
        /\ request'.runs = request.runs /\ request'.bundle = request.bundle
    BY <1>2, <2>1 DEF OpenRequests
  <2>3. Serving!Wanted' = Serving!Wanted
    BY <2>2 DEF Serving!Wanted
  <2>4. -1 \notin Physicals
    BY DEF Physicals
  <2>. QED BY <1>3, <1>4, <1>5, <1>6, <2>2, <2>3, <2>4 DEF SystemInv, CallerOK
<1>7. CASE reply'.physical # -1
  <2>1. request' = [request EXCEPT !.pages = Append(@, reply'.physical)]
    BY <1>1, <1>7 DEF Serving!NotePage
  <2>2. request' \in OpenRequests /\ request'.missed = request.missed
    <3>1. Append(request.pages, reply'.physical) \in Seq(Physicals)
      BY <1>2, <1>4, <1>7, AppendProperties DEF OpenRequests
    <3>. QED BY <1>2, <2>1, <3>1 DEF OpenRequests
  <2>. QED BY <1>1, <1>5, <2>2 DEF SystemInv, CallerOK
<1>. QED BY <1>6, <1>7

LEMMA AdmitKeeps ==
  ASSUME SystemInv, AdmitNext
  PROVE  CallerOK' /\ Serving!AdmitMissed
<1>1. /\ Serving!Looking /\ request.missed /\ AdmitAnywhere(Serving!Wanted)
      /\ Serving!NotePageToFill
  BY DEF AdmitNext
<1>2. Serving!Wanted \in Keys /\ request \in OpenRequests
  BY <1>1, WantedIsAddress DEF SystemInv
<1>3. Serving!Wanted \notin DOMAIN table.byKey
  BY <1>1 DEF SystemInv, CallerOK, Serving!Looking
<1>4. Serving!AdmitAutomatically(Serving!Wanted) /\ reply'.physical \in Physicals
  BY <1>1, <1>2, <1>3, AdmitAnywhereServes DEF SystemInv
<1>5. /\ prepared' = prepared
      /\ request' = [request EXCEPT !.pages = Append(@, reply'.physical), !.missed = FALSE]
  BY <1>1 DEF Serving!NotePageToFill
<1>6. request' \in OpenRequests /\ ~request'.missed
  <2>1. Append(request.pages, reply'.physical) \in Seq(Physicals)
    BY <1>2, <1>4, AppendProperties DEF OpenRequests
  <2>. QED BY <1>2, <1>5, <2>1 DEF OpenRequests
<1>7. CallerOK'
  BY <1>5, <1>6 DEF SystemInv, CallerOK
<1>8. Serving!AdmitMissed
  BY <1>1, <1>4 DEF Serving!AdmitMissed
<1>. QED BY <1>7, <1>8

LEMMA OutsideKeeps ==
  ASSUME SystemInv, OutsideTable
  PROVE  CallerOK'
<1>1. table' = table /\ CallerOK
  BY DEF OutsideTable, vars, SystemInv
<1>2. ASSUME NEW p \in Physicals, NEW a \in Keys, Serving!Prepare(p, a)
      PROVE  CallerOK'
  <2>1. /\ ~request.open /\ request' = request
        /\ prepared' = [q \in DOMAIN prepared \cup {p} |-> IF q = p THEN a ELSE prepared[q]]
    BY <1>2 DEF Serving!Prepare, Serving!Idle
  <2>2. DOMAIN prepared \subseteq Physicals /\ \A q \in DOMAIN prepared : prepared[q] \in Keys
    BY <1>1, PreparedAreAddresses
  <2>3. prepared' \in [DOMAIN prepared \cup {p} -> Keys]
        /\ DOMAIN prepared \cup {p} \in SUBSET Physicals
    BY <2>1, <2>2
  <2>. QED BY <2>1, <2>3 DEF CallerOK, PartialFunctions
<1>3. ASSUME NEW bundle \in Bundles, NEW runs \in SeqOf(Runs, MaxRequest), Serving!Ask(bundle, runs)
      PROVE  CallerOK'
  <2>1. /\ prepared' = prepared
        /\ request' = [open |-> TRUE, bundle |-> bundle, runs |-> runs,
                       pages |-> << >>, missed |-> FALSE]
    BY <1>3 DEF Serving!Ask
  <2>2. runs \in Seq(Runs)
    <3>1. PICK n \in 0 .. MaxRequest : runs \in [1 .. n -> Runs]
      BY DEF SeqOf
    <3>. QED BY <3>1, TableServingAssumption, SeqDef
  <2>3. request' \in OpenRequests /\ ~request'.missed
    BY <2>1, <2>2 DEF OpenRequests
  <2>. QED BY <1>1, <2>1, <2>3 DEF CallerOK
<1>4. CASE Serving!Fill
  <2>1. request' = request /\ prepared' = prepared /\ missing # << >>
    BY <1>4 DEF Serving!Fill, Serving!Nothing
  <2>2. request.open => ~request.missed
    BY <1>1, <2>1 DEF CallerOK
  <2>. QED BY <1>1, <2>1, <2>2 DEF CallerOK
<1>5. CASE Serving!GiveUp \/ Serving!FillFails \/ Serving!Attend
  <2>1. prepared' = prepared /\ ~request'.open
    BY <1>5 DEF Serving!GiveUp, Serving!FillFails, Serving!Attend, Serving!NoRequest
  <2>. QED BY <1>1, <2>1 DEF CallerOK
<1>. QED BY <1>2, <1>3, <1>4, <1>5 DEF OutsideTable

LEMMA SystemStep ==
  ASSUME SystemInv, [SystemNext]_<<vars, callerVars>>
  PROVE  SystemInv'
<1>1. Consistent(table, {})'
  BY SystemStepIsTableStep, ConsistentStep DEF SystemInv
<1>2. ASSUME NEW p \in DOMAIN prepared, AdmitPrepared(p) PROVE CallerOK'
  BY <1>2, AdmitPreparedKeeps DEF SystemInv
<1>3. CASE UNCHANGED <<vars, callerVars>>
  <2>1. /\ table' = table /\ prepared' = prepared /\ request' = request
        /\ missing' = missing
    BY <1>3 DEF vars, callerVars
  <2>. QED BY <2>1 DEF SystemInv, CallerOK, Serving!Wanted
<1>4. LookUpNext \/ AdmitNext \/ OutsideTable => CallerOK'
  BY LookUpKeeps, AdmitKeeps, OutsideKeeps
<1>5. CallerOK'
  BY <1>2, <1>3, <1>4 DEF SystemNext, SystemInv
<1>. QED BY <1>1, <1>5 DEF SystemInv

\* Each step of the caller over the table is one of the caller over the cache.
LEMMA SystemImplements ==
  ASSUME SystemInv, [SystemNext]_<<vars, callerVars>>
  PROVE  [Serving!Next]_(Serving!vars)
<1>1. ASSUME NEW p \in DOMAIN prepared, AdmitPrepared(p) PROVE Serving!Next
  <2>1. p \in Physicals /\ prepared[p] \in Keys
    BY PreparedAreAddresses DEF SystemInv
  <2>2. Serving!AdmitNumbered(prepared[p], p)
    BY <1>1, <2>1, AdmitNumberedServes DEF SystemInv, AdmitPrepared
  <2>3. Serving!AdmitPrepared(p)
    BY <1>1, <2>2 DEF AdmitPrepared, Serving!AdmitPrepared
  <2>. QED BY <2>1, <2>3, SameCache DEF Serving!Next
<1>2. CASE LookUpNext
  <2>1. /\ Serving!Looking /\ ~request.missed /\ LookUp(Serving!Wanted)
        /\ IF reply'.physical = -1 THEN Serving!NoteMiss ELSE Serving!NotePage
    BY <1>2 DEF LookUpNext
  <2>2. Serving!Wanted \in Keys
    BY <2>1, WantedIsAddress DEF SystemInv
  <2>3. \/ Serving!Table!Hit(Serving!Wanted) /\ reply'.physical \in Physicals
        \/ /\ \/ Serving!Table!MissCrossRegime(Serving!Wanted)
              \/ Serving!Table!MissCold(Serving!Wanted)
           /\ reply'.physical = -1
    BY <2>1, <2>2, LookUpServes DEF SystemInv
  <2>4. -1 \notin Physicals
    BY DEF Physicals
  <2>5. Serving!LookupHits \/ Serving!LookupMisses
    BY <2>1, <2>3, <2>4 DEF Serving!LookupHits, Serving!LookupMisses
  <2>. QED BY <2>5 DEF Serving!Next
<1>3. CASE AdmitNext
  BY <1>3, AdmitKeeps DEF Serving!Next
<1>4. CASE OutsideTable
  <2>1. \/ \E p \in Serving!Pages, a \in Serving!Addresses : Serving!Prepare(p, a)
        \/ \E bundle \in Bundles, runs \in Serving!SeqOf(Runs, MaxRequest) :
             Serving!Ask(bundle, runs)
        \/ Serving!GiveUp \/ Serving!Fill \/ Serving!FillFails \/ Serving!Attend
    BY <1>4, SameCache DEF OutsideTable, SeqOf, Serving!SeqOf
  <2>. QED BY <2>1 DEF Serving!Next
<1>5. CASE UNCHANGED <<vars, callerVars>>
  BY <1>5 DEF vars, callerVars, Serving!vars, Serving!tableVars, Serving!cacheVars,
              Serving!callerVars
<1>. QED BY <1>1, <1>2, <1>3, <1>4, <1>5 DEF SystemNext

\* The table stays consistent behind its caller, and the caller's notes agree
\* with it.
THEOREM CallerKeepsStep == SystemSpec => []SystemInv
<1>1. SystemInit => SystemInv
  BY CallerStarts
<1>2. SystemInv /\ [SystemNext]_<<vars, callerVars>> => SystemInv'
  BY SystemStep
<1>. QED BY <1>1, <1>2, PTL DEF SystemSpec

\* Behind this caller the table behaves as it does under any calls, so every
\* theorem of Spec holds of the composition too.
THEOREM SystemRunsTheTable == SystemSpec => Spec
<1>1. SystemInit => Init
  BY DEF SystemInit
<1>2. SystemInv /\ [SystemNext]_<<vars, callerVars>> => [Next]_vars
  BY SystemStepIsTableStep DEF SystemInv
<1>. QED BY <1>1, <1>2, CallerKeepsStep, PTL DEF SystemSpec, Spec

\* With the table's lists, counters and receipts hidden, the caller over the
\* program's own table and paged cache does what PagedServing says.
THEOREM TableServesRequests == SystemSpec => ImplementsPagedServing
<1>1. SystemInit => Serving!Init
  BY DEF SystemInit
<1>2. SystemInv /\ [SystemNext]_<<vars, callerVars>> => [Serving!Next]_(Serving!vars)
  BY SystemImplements
<1>3. SystemSpec => Serving!Spec
  BY <1>1, <1>2, CallerKeepsStep, PTL DEF SystemSpec, Serving!Spec
<1>. QED BY <1>3 DEF ImplementsPagedServing

-----------------------------------------------------------------------------
(* What is proved of PagedServing holds of the composition.                *)

\* PagedServing with its theorems, over the same variables.
Proved == INSTANCE PagedServingProofs WITH
  held <- table.byKey, answer <- reply,
  k <- keyCache, v <- valueCache, reply <- gathered, evicted <- displaced

\* It is the module that Serving instantiates: definition by definition, down to
\* the parts it consists of, the two say the same.
LEMMA SameServing ==
  /\ Proved!Init <=> Serving!Init
  /\ Proved!Next <=> Serving!Next
  /\ UNCHANGED (Proved!vars) <=> UNCHANGED (Serving!vars)
  /\ Proved!Rows = Serving!Rows
  /\ Proved!BoundPagesHoldTheirRows <=> Serving!BoundPagesHoldTheirRows
<1>. USE DEF
  Proved!Addresses, Serving!Addresses, Proved!Pages, Serving!Pages, Proved!Rows,
  Serving!Rows, Proved!tableVars, Serving!tableVars, Proved!cacheVars,
  Serving!cacheVars, Proved!callerVars, Serving!callerVars, Proved!vars,
  Serving!vars, Proved!RowsOf, Serving!RowsOf, Proved!SlotsOf, Serving!SlotsOf,
  Proved!PageWrite, Serving!PageWrite, Proved!PageRead, Serving!PageRead,
  Proved!NoRequest, Serving!NoRequest, Proved!NoPages, Serving!NoPages,
  Proved!Nothing, Serving!Nothing, Proved!Init, Serving!Init, Proved!Idle,
  Serving!Idle, Proved!Prepare, Serving!Prepare, Proved!AdmitNumbered,
  Serving!AdmitNumbered, Proved!TornBy, Serving!TornBy, Proved!NoLongerPrepared,
  Serving!NoLongerPrepared, Proved!AdmitPrepared, Serving!AdmitPrepared, Proved!Ask,
  Serving!Ask, Proved!Wanted, Serving!Wanted, Proved!Looking, Serving!Looking,
  Proved!NotePage, Serving!NotePage, Proved!NoteMiss, Serving!NoteMiss,
  Proved!LookupHits, Serving!LookupHits, Proved!LookupMisses, Serving!LookupMisses,
  Proved!NotePageToFill, Serving!NotePageToFill, Proved!AdmitAutomatically,
  Serving!AdmitAutomatically, Proved!AdmitMissed, Serving!AdmitMissed, Proved!GiveUp,
  Serving!GiveUp, Proved!Fill,
  Serving!Fill, Proved!FillFails, Serving!FillFails, Proved!Attend, Serving!Attend,
  Proved!Next, Serving!Next, Proved!Spec, Serving!Spec, Proved!Table!Init,
  Serving!Table!Init, Proved!Table!Held, Serving!Table!Held, Proved!Table!Used,
  Serving!Table!Used, Proved!Table!Blocks, Serving!Table!Blocks, Proved!Table!Reply,
  Serving!Table!Reply, Proved!Table!Hit, Serving!Table!Hit,
  Proved!Table!HeldElsewhere, Serving!Table!HeldElsewhere,
  Proved!Table!MissCrossRegime, Serving!Table!MissCrossRegime,
  Proved!Table!MissCold, Serving!Table!MissCold, Proved!Table!AlreadyHeld,
  Serving!Table!AlreadyHeld, Proved!Table!Place, Serving!Table!Place,
  Proved!Table!Displace, Serving!Table!Displace, Proved!Table!Refuse,
  Serving!Table!Refuse, Proved!Cache!Pages, Serving!Cache!Pages,
  Proved!Cache!Offsets, Serving!Cache!Offsets, Proved!Cache!Slots,
  Serving!Cache!Slots, Proved!Cache!Init, Serving!Cache!Init,
  Proved!Cache!Admissible, Serving!Cache!Admissible, Proved!Cache!GoesTo,
  Serving!Cache!GoesTo, Proved!Cache!Kept, Serving!Cache!Kept,
  Proved!Cache!IndexPut, Serving!Cache!IndexPut, Proved!Cache!SentTo,
  Serving!Cache!SentTo, Proved!Cache!ReshapeAndCache, Serving!Cache!ReshapeAndCache,
  Proved!Cache!ActivePages, Serving!Cache!ActivePages, Proved!Cache!Readable,
  Serving!Cache!Readable, Proved!Cache!Start, Serving!Cache!Start, Proved!Cache!End,
  Serving!Cache!End, Proved!Cache!Contributes, Serving!Cache!Contributes,
  Proved!Cache!GatheredRow, Serving!Cache!GatheredRow, Proved!Cache!Visible,
  Serving!Cache!Visible, Proved!Cache!Seen, Serving!Cache!Seen,
  Proved!Cache!PagedAttn, Serving!Cache!PagedAttn, Proved!SeqOf, Serving!SeqOf,
  Proved!ToSet, Serving!ToSet, Proved!Cache!ToSet, Serving!Cache!ToSet
<1>1. Proved!Init <=> Serving!Init
  OBVIOUS
<1>2. Proved!Next <=> Serving!Next
  OBVIOUS
<1>3. /\ UNCHANGED (Proved!vars) <=> UNCHANGED (Serving!vars)
      /\ Proved!Rows = Serving!Rows
  OBVIOUS
<1>4. Proved!BoundPagesHoldTheirRows <=> Serving!BoundPagesHoldTheirRows
  BY DEF Proved!BoundPagesHoldTheirRows, Serving!BoundPagesHoldTheirRows,
         Proved!Holds, Serving!Holds
<1>. HIDE DEF
  Proved!Addresses, Serving!Addresses, Proved!Pages, Serving!Pages, Proved!Rows,
  Serving!Rows, Proved!tableVars, Serving!tableVars, Proved!cacheVars,
  Serving!cacheVars, Proved!callerVars, Serving!callerVars, Proved!vars,
  Serving!vars, Proved!RowsOf, Serving!RowsOf, Proved!SlotsOf, Serving!SlotsOf,
  Proved!PageWrite, Serving!PageWrite, Proved!PageRead, Serving!PageRead,
  Proved!NoRequest, Serving!NoRequest, Proved!NoPages, Serving!NoPages,
  Proved!Nothing, Serving!Nothing, Proved!Init, Serving!Init, Proved!Idle,
  Serving!Idle, Proved!Prepare, Serving!Prepare, Proved!AdmitNumbered,
  Serving!AdmitNumbered, Proved!TornBy, Serving!TornBy, Proved!NoLongerPrepared,
  Serving!NoLongerPrepared, Proved!AdmitPrepared, Serving!AdmitPrepared, Proved!Ask,
  Serving!Ask, Proved!Wanted, Serving!Wanted, Proved!Looking, Serving!Looking,
  Proved!NotePage, Serving!NotePage, Proved!NoteMiss, Serving!NoteMiss,
  Proved!LookupHits, Serving!LookupHits, Proved!LookupMisses, Serving!LookupMisses,
  Proved!NotePageToFill, Serving!NotePageToFill, Proved!AdmitAutomatically,
  Serving!AdmitAutomatically, Proved!AdmitMissed, Serving!AdmitMissed, Proved!GiveUp,
  Serving!GiveUp, Proved!Fill,
  Serving!Fill, Proved!FillFails, Serving!FillFails, Proved!Attend, Serving!Attend,
  Proved!Next, Serving!Next, Proved!Spec, Serving!Spec, Proved!Table!Init,
  Serving!Table!Init, Proved!Table!Held, Serving!Table!Held, Proved!Table!Used,
  Serving!Table!Used, Proved!Table!Blocks, Serving!Table!Blocks, Proved!Table!Reply,
  Serving!Table!Reply, Proved!Table!Hit, Serving!Table!Hit,
  Proved!Table!HeldElsewhere, Serving!Table!HeldElsewhere,
  Proved!Table!MissCrossRegime, Serving!Table!MissCrossRegime,
  Proved!Table!MissCold, Serving!Table!MissCold, Proved!Table!AlreadyHeld,
  Serving!Table!AlreadyHeld, Proved!Table!Place, Serving!Table!Place,
  Proved!Table!Displace, Serving!Table!Displace, Proved!Table!Refuse,
  Serving!Table!Refuse, Proved!Cache!Pages, Serving!Cache!Pages,
  Proved!Cache!Offsets, Serving!Cache!Offsets, Proved!Cache!Slots,
  Serving!Cache!Slots, Proved!Cache!Init, Serving!Cache!Init,
  Proved!Cache!Admissible, Serving!Cache!Admissible, Proved!Cache!GoesTo,
  Serving!Cache!GoesTo, Proved!Cache!Kept, Serving!Cache!Kept,
  Proved!Cache!IndexPut, Serving!Cache!IndexPut, Proved!Cache!SentTo,
  Serving!Cache!SentTo, Proved!Cache!ReshapeAndCache, Serving!Cache!ReshapeAndCache,
  Proved!Cache!ActivePages, Serving!Cache!ActivePages, Proved!Cache!Readable,
  Serving!Cache!Readable, Proved!Cache!Start, Serving!Cache!Start, Proved!Cache!End,
  Serving!Cache!End, Proved!Cache!Contributes, Serving!Cache!Contributes,
  Proved!Cache!GatheredRow, Serving!Cache!GatheredRow, Proved!Cache!Visible,
  Serving!Cache!Visible, Proved!Cache!Seen, Serving!Cache!Seen,
  Proved!Cache!PagedAttn, Serving!Cache!PagedAttn, Proved!SeqOf, Serving!SeqOf,
  Proved!ToSet, Serving!ToSet, Proved!Cache!ToSet, Serving!Cache!ToSet
<1>. QED BY <1>1, <1>2, <1>3, <1>4

\* What PagedServing assumes of its constants, the composition assumes.
LEMMA ServingAssumption ==
  /\ NumBlocks \in Nat \ {0} /\ BlockSize \in Nat \ {0}
  /\ Strict \in BOOLEAN /\ MaxWrites \in Nat /\ MaxRequest \in Nat
  /\ Zero \notin Proved!Rows
BY SameServing, BlockTableAssumption, TableServingAssumption

LEMMA SystemServes == SystemSpec => Proved!Spec
<1>1. Serving!Init => Proved!Init
  BY SameServing
<1>2. [Serving!Next]_(Serving!vars) => [Proved!Next]_(Proved!vars)
  BY SameServing
<1>3. Serving!Spec => Proved!Spec
  BY <1>1, <1>2, PTL DEF Serving!Spec, Proved!Spec
<1>. QED BY <1>3, TableServesRequests, PTL DEF ImplementsPagedServing

\* End to end: behind the table that exists, a bound page holds the rows of the
\* run and the regime it is bound to, unless it is torn.
THEOREM PagesOfTheTableAreTheirs == SystemSpec => []Serving!BoundPagesHoldTheirRows
<1>1. Proved!Spec => []Proved!BoundPagesHoldTheirRows
  BY ServingAssumption, Proved!BoundPagesAreTheirs, PTL
<1>2. Proved!BoundPagesHoldTheirRows => Serving!BoundPagesHoldTheirRows
  BY SameServing
<1>. QED BY <1>1, <1>2, SystemServes, PTL

\* End to end: what attention reads for a request that was answered by the table,
\* through its evictions and rebindings, was computed under the bundle that was
\* asked under and for tokens that were asked for: each page for its own run,
\* unless the request itself had the table give that page to another of its runs.
THEOREM TableAttendsUnderOwnRegime == SystemSpec => Serving!AttendsUnderOwnRegime
<1>. DEFINE right(row) ==
       LET n == (row.at \div BlockSize) + 1
           Own(m) == [of |-> [tokens |-> request.runs[m], bundle |-> request.bundle],
                      at |-> row.at % BlockSize]
       IN request.pages[n] \notin torn =>
            \E m \in 1 .. Len(request.runs) :
              /\ row.key = Own(m) /\ row.val = Own(m)
              /\ request.pages[n] \notin displaced => m = n
     act(nothing) ==
       /\ request.open /\ ~request'.open /\ missing = nothing
       /\ Len(request.pages) = Len(request.runs)
       => \A row \in gathered'.seen[1] : right(row)
<1>1. Proved!Spec => Proved!AttendsUnderOwnRegime
  BY ServingAssumption, Proved!AttentionIsUnderOwnRegime, PTL
<1>2. [act(Proved!Nothing)]_(Proved!vars) => [act(Serving!Nothing)]_(Serving!vars)
  <2>1. Proved!Nothing = Serving!Nothing
    BY DEF Proved!Nothing, Serving!Nothing
  <2>. HIDE DEF act
  <2>. QED BY <2>1, SameServing
<1>3. Proved!AttendsUnderOwnRegime => Serving!AttendsUnderOwnRegime
  BY <1>2, PTL DEF Proved!AttendsUnderOwnRegime, Serving!AttendsUnderOwnRegime
<1>. QED BY <1>1, <1>3, SystemServes, PTL
=============================================================================
