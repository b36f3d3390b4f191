-------------------------- MODULE ReceiptChainProofs --------------------------
(***************************************************************************)
(* What verify of the receipt chain finds, for any payloads, any number of *)
(* rows and any alterations and losses.  Links and seals are local; that   *)
(* no row can come to follow one it was not sealed after needs that the    *)
(* digests of rows that once stood in the list together differ, which is   *)
(* because no row's digest is among those an earlier one stands on.        *)
(***************************************************************************)
EXTENDS ReceiptChain, SequenceTheorems, TLAPS

\* A row or what is sealed in it.
Entry(value, digest, seq, prev) ==
  [value |-> value, digest |-> digest, seq |-> seq, prev |-> prev]

\* Row r has the digest of what was sealed in the row of record h, and only its
\* value may have changed since.
KeepsSeal(r, h) ==
  \E x, y \in Values, own \in {None} \cup Values, s \in 0 .. (MaxRows - 1) : \E p :
    /\ h.row = Entry(x, Digest(Entry(x, own, s, p)), s, p)
    /\ r = Entry(y, Digest(Entry(x, own, s, p)), s, p)

\* It stands on no digest, or on that of its predecessor and what that one
\* stands on; not on its own.
StandsOnPast(r, h) ==
  /\ r.prev = GENESIS \/ r.prev \in h.past
  /\ \A d \in h.past : \E b : d = Digest(b) /\ (b.prev = GENESIS \/ b.prev \in h.past)
  /\ r.digest \notin h.past

RowOK(r, h, count) ==
  /\ KeepsSeal(r, h)
  /\ StandsOnPast(r, h)
  /\ h.number \in 1 .. count /\ h.after \in Nat
  /\ h.after = 0 <=> r.prev = GENESIS

\* Row r with record h stands somewhere after row q with record g.
PairOK(q, g, r, h) ==
  /\ g.number < h.number /\ g.number <= h.after
  /\ h.after = g.number <=> r.prev = q.digest
  /\ r.digest \notin g.past
  /\ r.digest # q.digest

Parallel ==
  /\ \E S : rows \in Seq(S)
  /\ \E S : history \in Seq(S)
  /\ Len(rows) = Len(history)
  /\ emitted \in 0 .. MaxRows /\ damaged \in 0 .. MaxDamage
  /\ Len(rows) <= emitted

RowsOK == \A i \in 1 .. Len(rows) : RowOK(rows[i], history[i], emitted)
PairsOK ==
  \A i, j \in 1 .. Len(rows) :
    j < i => PairOK(rows[j], history[j], rows[i], history[i])

\* Up to the first broken link the rows are numbered.
LinkedRowsAreNumbered ==
  \A i \in 1 .. Len(rows) :
    (\A j \in 1 .. i : ~LinkBroken(j)) => rows[i].seq = i - 1

ChainInv == Parallel /\ RowsOK /\ PairsOK /\ LinkedRowsAreNumbered

-----------------------------------------------------------------------------
(* Digests and lists.                                                      *)

LEMMA DigestsDiffer ==
  ASSUME NEW b, NEW c
  PROVE  /\ Digest(b) = Digest(c) => b = c
         /\ Digest(b) # GENESIS
<1>1. Digest(b)[2] = b /\ Digest(c)[2] = c
  BY DEF Digest
<1>2. Len(Digest(b)) = 2 /\ Len(GENESIS) = 1
  BY DEF Digest, GENESIS
<1>. QED BY <1>1, <1>2

LEMMA EntryFields ==
  ASSUME NEW x, NEW d, NEW s, NEW p, NEW y, NEW e, NEW t, NEW q
  PROVE  /\ Entry(x, d, s, p).value = x /\ Entry(x, d, s, p).digest = d
         /\ Entry(x, d, s, p).seq = s /\ Entry(x, d, s, p).prev = p
         /\ DOMAIN Entry(x, d, s, p) = {"value", "digest", "seq", "prev"}
         /\ [Entry(x, d, s, p) EXCEPT !.digest = e] = Entry(x, e, s, p)
         /\ [Entry(x, d, s, p) EXCEPT !.value = y] = Entry(y, d, s, p)
         /\ Entry(x, d, s, p) = Entry(y, e, t, q) <=> x = y /\ d = e /\ s = t /\ p = q
BY DEF Entry

\* Dropping entry n moves the later ones up by one.
LEMMA RemoveAtEntries ==
  ASSUME NEW S, NEW s \in Seq(S), NEW n \in 1 .. Len(s)
  PROVE  /\ RemoveAt(s, n) \in Seq(S)
         /\ Len(RemoveAt(s, n)) = Len(s) - 1
         /\ \A i \in 1 .. (Len(s) - 1) :
              RemoveAt(s, n)[i] = IF i < n THEN s[i] ELSE s[i + 1]
<1>1. Len(s) \in Nat /\ n \in Int /\ 1 <= n /\ n <= Len(s)
      /\ \A i \in 1 .. Len(s) : s[i] \in S
  BY LenProperties, ElementOfSeq
<1>. DEFINE t == SubSeq(s, 1, n - 1)
            u == SubSeq(s, n + 1, Len(s))
            r == t \o u
<1>2. t \in Seq(S) /\ Len(t) = n - 1 /\ \A i \in 1 .. (n - 1) : t[i] = s[i]
  <2>1. \A i \in 1 .. (n - 1) : s[i] \in S
    BY <1>1
  <2>. QED BY <2>1, <1>1, SubSeqProperties
<1>3. u \in Seq(S) /\ Len(u) = Len(s) - n /\ \A i \in 1 .. (Len(s) - n) : u[i] = s[n + i]
  <2>1. \A i \in (n + 1) .. Len(s) : s[i] \in S
    BY <1>1
  <2>2. /\ u \in Seq(S)
        /\ Len(u) = IF n + 1 <= Len(s) THEN Len(s) - (n + 1) + 1 ELSE 0
        /\ \A i \in 1 .. (Len(s) - (n + 1) + 1) : u[i] = s[(n + 1) + i - 1]
    BY <2>1, <1>1, SubSeqProperties
  <2>. HIDE DEF u
  <2>3. Len(u) = Len(s) - n
    BY <1>1, <2>2
  <2>4. ASSUME NEW i \in 1 .. (Len(s) - n)
        PROVE  u[i] = s[n + i]
    <3>1. i \in 1 .. (Len(s) - (n + 1) + 1) /\ (n + 1) + i - 1 = n + i
      BY <1>1
    <3>. QED BY <3>1, <2>2
  <2>. QED BY <2>2, <2>3, <2>4
<1>. HIDE DEF t, u
<1>4. /\ r \in Seq(S)
      /\ Len(r) = Len(t) + Len(u)
      /\ \A i \in 1 .. (Len(t) + Len(u)) : r[i] = IF i <= Len(t) THEN t[i] ELSE u[i - Len(t)]
  BY <1>2, <1>3, ConcatProperties
<1>. HIDE DEF r
<1>5. ASSUME NEW i \in 1 .. (Len(s) - 1)
      PROVE  r[i] = IF i < n THEN s[i] ELSE s[i + 1]
  <2>1. CASE i < n
    <3>1. i \in 1 .. (n - 1) /\ i \in 1 .. (Len(t) + Len(u)) /\ i <= Len(t)
      BY <2>1, <1>1, <1>2, <1>3
    <3>. QED BY <3>1, <2>1, <1>2, <1>4
  <2>2. CASE ~(i < n)
    <3>1. /\ i - (n - 1) \in 1 .. (Len(s) - n) /\ n + (i - (n - 1)) = i + 1
          /\ i \in 1 .. (Len(t) + Len(u)) /\ ~(i <= Len(t)) /\ Len(t) = n - 1
      BY <2>2, <1>1, <1>2, <1>3
    <3>. QED BY <3>1, <2>2, <1>3, <1>4
  <2>. QED BY <2>1, <2>2
<1>6. RemoveAt(s, n) = r
  BY DEF RemoveAt, r, t, u
<1>7. Len(r) = Len(s) - 1
  BY <1>1, <1>2, <1>3, <1>4
<1>. QED BY <1>4, <1>5, <1>6, <1>7

-----------------------------------------------------------------------------
(* What the verdict is, in a state of the invariant.                       *)

LEMMA Numbers ==
  ASSUME Parallel
  PROVE  /\ Len(rows) \in Nat /\ Len(history) = Len(rows)
         /\ DOMAIN rows = 1 .. Len(rows) /\ DOMAIN history = 1 .. Len(rows)
         /\ emitted \in Nat /\ emitted <= MaxRows /\ Len(rows) <= emitted
<1>1. PICK S : rows \in Seq(S)
  BY DEF Parallel
<1>2. PICK T : history \in Seq(T)
  BY DEF Parallel
<1>3. /\ Len(rows) \in Nat /\ DOMAIN rows = 1 .. Len(rows)
      /\ DOMAIN history = 1 .. Len(history)
  BY <1>1, <1>2, LenProperties
<1>. QED BY <1>3, ReceiptChainAssumption DEF Parallel

\* A seal is intact exactly if the row is as it was sealed and its payload had
\* no digest entry of its own.
LEMMA SealTellsChange ==
  ASSUME NEW i \in DOMAIN rows, KeepsSeal(rows[i], history[i])
  PROVE  SealBroken(i) <=>
           \/ rows[i] # history[i].row
           \/ \E w \in Values : rows[i].digest = Digest([history[i].row EXCEPT !.digest = w])
<1>1. PICK x \in Values, y \in Values, own \in {None} \cup Values,
           s \in 0 .. (MaxRows - 1) : \E p :
        /\ history[i].row = Entry(x, Digest(Entry(x, own, s, p)), s, p)
        /\ rows[i] = Entry(y, Digest(Entry(x, own, s, p)), s, p)
  BY DEF KeepsSeal
<1>2. PICK p : /\ history[i].row = Entry(x, Digest(Entry(x, own, s, p)), s, p)
               /\ rows[i] = Entry(y, Digest(Entry(x, own, s, p)), s, p)
  BY <1>1
<1>3. Body(rows[i]) = Entry(y, None, s, p) /\ rows[i].digest = Digest(Entry(x, own, s, p))
  BY <1>2, EntryFields DEF Body
<1>4. SealBroken(i) <=> y # x \/ own # None
  BY <1>3, EntryFields, DigestsDiffer DEF SealBroken
<1>5. rows[i] # history[i].row <=> y # x
  BY <1>2, EntryFields
<1>6. ASSUME NEW w \in Values
      PROVE  rows[i].digest = Digest([history[i].row EXCEPT !.digest = w]) <=> own = w
  <2>1. [history[i].row EXCEPT !.digest = w] = Entry(x, w, s, p)
    BY <1>2, EntryFields
  <2>. QED BY <1>3, <2>1, EntryFields, DigestsDiffer
<1>7. own # None <=> \E w \in Values : own = w
  BY ReceiptChainAssumption
<1>. QED BY <1>4, <1>5, <1>6, <1>7

\* A link is intact exactly if the row before is the one it was sealed after.
LEMMA LinkTellsGap ==
  ASSUME Parallel, RowsOK, PairsOK, NEW i \in DOMAIN rows
  PROVE  LinkBroken(i) <=> history[i].after # (IF i = 1 THEN 0 ELSE history[i - 1].number)
<1>1. i \in 1 .. Len(rows) /\ Len(rows) \in Nat
  BY Numbers
<1>2. CASE i = 1
  BY <1>1, <1>2 DEF RowsOK, RowOK, LinkBroken, DigestBefore
<1>3. CASE i # 1
  <2>1. i - 1 \in 1 .. Len(rows) /\ i - 1 < i
    BY <1>1, <1>3
  <2>2. PairOK(rows[i - 1], history[i - 1], rows[i], history[i])
    BY <1>1, <2>1 DEF PairsOK
  <2>. QED BY <1>3, <2>2 DEF PairOK, LinkBroken, DigestBefore
<1>. QED BY <1>2, <1>3

LEMMA BadIsUntrue ==
  ASSUME ChainInv, NEW i \in DOMAIN rows
  PROVE  BadRow(i) <=> Untrue(i)
<1>1. Parallel /\ RowsOK /\ PairsOK /\ i \in 1 .. Len(rows)
  BY Numbers DEF ChainInv
<1>2. KeepsSeal(rows[i], history[i])
  BY <1>1 DEF RowsOK, RowOK
<1>. QED BY <1>1, <1>2, SealTellsChange, LinkTellsGap DEF BadRow, Untrue, SealBroken, LinkBroken

LEMMA VerdictIsRight == ChainInv => VerifyFindsFirstUntrueRow
<1>. SUFFICES ASSUME ChainInv PROVE VerifyFindsFirstUntrueRow
  OBVIOUS
<1>1. {i \in DOMAIN rows : BadRow(i)} = {i \in DOMAIN rows : Untrue(i)}
  BY BadIsUntrue
<1>. QED BY <1>1 DEF Verify, VerifyFindsFirstUntrueRow

LEMMA AcceptedHasNoBadRow ==
  ASSUME Verify[1], NEW i \in DOMAIN rows
  PROVE  ~BadRow(i)
<1>. DEFINE bad == {j \in DOMAIN rows : BadRow(j)}
<1>1. Verify = IF bad = {} THEN <<TRUE, Len(rows), -1>>
               ELSE <<FALSE, First(bad) - 1, First(bad) - 1>>
  BY DEF Verify
<1>. HIDE DEF bad
<1>2. bad = {}
  BY <1>1
<1>. QED BY <1>2 DEF bad

LEMMA AcceptedRowsAreNumbered == ChainInv => AcceptedIsNumbered
<1>. SUFFICES ASSUME ChainInv, Verify[1], NEW i \in DOMAIN rows
              PROVE  rows[i].seq = i - 1
  BY DEF AcceptedIsNumbered
<1>1. i \in 1 .. Len(rows) /\ Len(rows) \in Nat /\ DOMAIN rows = 1 .. Len(rows)
  BY Numbers DEF ChainInv
<1>2. ASSUME NEW j \in 1 .. i PROVE ~LinkBroken(j)
  <2>1. j \in DOMAIN rows
    BY <1>1
  <2>. QED BY <2>1, AcceptedHasNoBadRow DEF BadRow, LinkBroken
<1>. QED BY <1>1, <1>2 DEF ChainInv, LinkedRowsAreNumbered

LEMMA DigestsName == ChainInv => DigestNamesOneRow
<1>. SUFFICES ASSUME ChainInv, NEW i \in DOMAIN rows, NEW j \in DOMAIN rows,
                     rows[i].digest = rows[j].digest
              PROVE  i = j
  BY DEF DigestNamesOneRow
<1>1. i \in 1 .. Len(rows) /\ j \in 1 .. Len(rows) /\ Len(rows) \in Nat
  BY Numbers DEF ChainInv
<1>2. ~(i < j) /\ ~(j < i)
  BY <1>1 DEF ChainInv, PairsOK, PairOK
<1>. QED BY <1>1, <1>2

LEMMA TypesFollow == ChainInv => TypeOK
<1>. SUFFICES ASSUME ChainInv PROVE TypeOK
  OBVIOUS
<1>1. Parallel /\ DOMAIN rows = 1 .. Len(rows)
  BY Numbers DEF ChainInv
<1>2. ASSUME NEW i \in DOMAIN rows
      PROVE  /\ DOMAIN rows[i] = {"value", "digest", "seq", "prev"}
             /\ rows[i].value \in Values /\ rows[i].seq \in 0 .. (MaxRows - 1)
             /\ history[i].number \in 1 .. emitted
  <2>1. RowOK(rows[i], history[i], emitted)
    BY <1>1 DEF ChainInv, RowsOK
  <2>2. PICK x \in Values, y \in Values, own \in {None} \cup Values,
             s \in 0 .. (MaxRows - 1) : \E p :
          rows[i] = Entry(y, Digest(Entry(x, own, s, p)), s, p)
    BY <2>1 DEF RowOK, KeepsSeal
  <2>. QED BY <2>1, <2>2, EntryFields DEF RowOK
<1>. QED BY <1>1, <1>2 DEF TypeOK, Parallel

-----------------------------------------------------------------------------
(* The steps.                                                              *)

LEMMA ChainInit == Init => ChainInv
<1>. SUFFICES ASSUME Init PROVE ChainInv
  OBVIOUS
<1>1. rows = << >> /\ history = << >> /\ Len(rows) = 0 /\ emitted = 0 /\ damaged = 0
  BY DEF Init
<1>2. rows \in Seq({}) /\ history \in Seq({})
  BY <1>1, EmptySeq
<1>3. Parallel
  BY <1>1, <1>2, ReceiptChainAssumption DEF Parallel
<1>. QED BY <1>1, <1>3 DEF ChainInv, RowsOK, PairsOK, LinkedRowsAreNumbered

\* What the new row stands on, in the three cases it can be sealed in.
LEMMA NewRowIsSealed ==
  ASSUME Parallel, NEW payload \in Payloads, emitted < MaxRows
  PROVE  /\ NewRow(payload).prev = DigestBefore(Len(rows) + 1)
         /\ NewRow(payload).seq = Len(rows)
         /\ \A h : h.row = NewRow(payload) => KeepsSeal(NewRow(payload), h)
         /\ \E b : NewRow(payload).digest = Digest(b) /\ b.prev = NewRow(payload).prev
<1>. DEFINE s == Len(rows)
            p == DigestBefore(Len(rows) + 1)
            x == payload.value
            own == payload.digest
            body == Entry(x, own, s, p)
<1>1. x \in Values /\ own \in {None} \cup Values /\ s \in 0 .. (MaxRows - 1)
  <2>1. Len(rows) \in Nat /\ emitted \in Nat /\ MaxRows \in Nat /\ Len(rows) <= emitted
    BY Numbers, ReceiptChainAssumption
  <2>. QED BY <2>1 DEF Payloads
<1>2. Sealed(payload, s, p) = body
  BY DEF Sealed, Entry
<1>. HIDE DEF s, p, x, own
<1>3. NewRow(payload) = Entry(x, Digest(body), s, p)
  BY <1>2, EntryFields DEF NewRow, s, p
<1>4. body.prev = p
  BY EntryFields
<1>. HIDE DEF body
<1>5. NewRow(payload).prev = p /\ NewRow(payload).seq = s /\ NewRow(payload).digest = Digest(body)
  BY <1>3, EntryFields
<1>6. ASSUME NEW h, h.row = NewRow(payload) PROVE KeepsSeal(NewRow(payload), h)
  BY <1>1, <1>3, <1>6 DEF KeepsSeal, body
<1>. QED BY <1>4, <1>5, <1>6 DEF s, p

\* The new row stands on the last one: its digest differs from every digest in
\* the list and from all those that rows of the list stand on.
LEMMA NewDigestIsNew ==
  ASSUME ChainInv, NEW z, z.prev = DigestBefore(Len(rows) + 1),
         NEW b, z.digest = Digest(b), b.prev = z.prev,
         NEW j \in 1 .. Len(rows)
  PROVE  z.digest \notin history[j].past /\ z.digest # rows[j].digest
<1>1. Len(rows) \in Nat /\ Len(rows) \in 1 .. Len(rows)
  BY Numbers DEF ChainInv
<1>. DEFINE last == rows[Len(rows)]
<1>2. z.prev = last.digest
  BY <1>1 DEF DigestBefore
<1>3. RowOK(rows[j], history[j], emitted) /\ RowOK(last, history[Len(rows)], emitted)
  BY <1>1 DEF ChainInv, RowsOK
<1>4. last.digest \notin history[j].past
  <2>1. CASE j = Len(rows)
    BY <1>3, <2>1 DEF RowOK, StandsOnPast
  <2>2. CASE j # Len(rows)
    <3>1. j < Len(rows)
      BY <1>1, <2>2
    <3>. QED BY <1>1, <3>1 DEF ChainInv, PairsOK, PairOK
  <2>. QED BY <2>1, <2>2
<1>5. last.digest # GENESIS
  BY <1>3, EntryFields, DigestsDiffer DEF RowOK, KeepsSeal
<1>6. ASSUME z.digest \in history[j].past PROVE FALSE
  <2>1. PICK c : z.digest = Digest(c) /\ (c.prev = GENESIS \/ c.prev \in history[j].past)
    BY <1>3, <1>6 DEF RowOK, StandsOnPast
  <2>2. c = b
    BY <2>1, DigestsDiffer
  <2>. QED BY <1>2, <1>4, <1>5, <2>1, <2>2
<1>7. ASSUME z.digest = rows[j].digest PROVE FALSE
  <2>1. \E c : rows[j].digest = Digest(c) /\ c.prev = rows[j].prev
    BY <1>3, EntryFields DEF RowOK, KeepsSeal
  <2>2. PICK c : rows[j].digest = Digest(c) /\ c.prev = rows[j].prev
    BY <2>1
  <2>3. c = b
    BY <1>7, <2>2, DigestsDiffer
  <2>. QED BY <1>2, <1>3, <1>4, <1>5, <2>2, <2>3 DEF RowOK, StandsOnPast
<1>. QED BY <1>6, <1>7

LEMMA EmitStep ==
  ASSUME ChainInv, NEW payload \in Payloads, Emit(payload)
  PROVE  ChainInv'
<1>. DEFINE n == Len(rows)
            z == NewRow(payload)
            after == IF history = << >> THEN 0 ELSE Last(history).number
            past == IF history = << >> THEN {}
                    ELSE Last(history).past \cup {Last(history).row.digest}
            g == [row |-> z, number |-> emitted + 1, after |-> after, past |-> past]
<1>1. /\ Parallel /\ n \in Nat /\ Len(history) = n
      /\ emitted \in Nat /\ emitted < MaxRows /\ n <= emitted
  BY Numbers DEF ChainInv, Emit
<1>2. PICK S : rows \in Seq(S)
  BY <1>1 DEF Parallel
<1>3. PICK T : history \in Seq(T)
  BY <1>1 DEF Parallel
<1>4. rows' = Append(rows, z) /\ history' = Append(history, g)
      /\ emitted' = emitted + 1 /\ damaged' = damaged
  BY DEF Emit
<1>. HIDE DEF z
<1>5. /\ rows' \in Seq(S \cup {z}) /\ Len(rows') = n + 1
      /\ \A i \in 1 .. n : rows'[i] = rows[i]
      /\ rows'[n + 1] = z
  <2>1. rows \in Seq(S \cup {z})
    BY <1>2, SeqMonotonic
  <2>. QED BY <1>4, <2>1, AppendProperties
<1>6. (history = << >>) <=> n = 0
  BY <1>1, <1>3, EmptySeq
<1>7. n # 0 => /\ after = history[n].number
               /\ past = history[n].past \cup {history[n].row.digest}
  BY <1>1, <1>6 DEF Last
<1>8. n = 0 => after = 0 /\ past = {}
  BY <1>6
<1>9. g.row = z /\ g.number = emitted + 1 /\ g.after = after /\ g.past = past
  OBVIOUS
<1>. HIDE DEF after, past, g
<1>10. /\ history' \in Seq(T \cup {g}) /\ Len(history') = n + 1
       /\ \A i \in 1 .. n : history'[i] = history[i]
       /\ history'[n + 1] = g
  <2>1. history \in Seq(T \cup {g})
    BY <1>3, SeqMonotonic
  <2>. QED BY <1>1, <1>4, <2>1, AppendProperties
<1>11. /\ z.prev = DigestBefore(n + 1) /\ z.seq = n /\ KeepsSeal(z, g)
       /\ \E b : z.digest = Digest(b) /\ b.prev = z.prev
  BY <1>1, <1>9, NewRowIsSealed DEF z
<1>12. \A j \in 1 .. n : z.digest \notin history[j].past /\ z.digest # rows[j].digest
  BY <1>11, NewDigestIsNew
<1>13. \A j \in 1 .. n : RowOK(rows[j], history[j], emitted)
  BY DEF ChainInv, RowsOK
<1>14. ASSUME n # 0
       PROVE  /\ z.prev = rows[n].digest /\ history[n].row.digest = rows[n].digest
              /\ z.prev # GENESIS /\ after = history[n].number /\ n \in 1 .. n
  <2>1. n \in 1 .. n /\ n + 1 # 1 /\ (n + 1) - 1 = n
    BY <1>1, <1>14
  <2>2. RowOK(rows[n], history[n], emitted)
    BY <1>13, <2>1
  <2>3. z.prev = rows[n].digest
    BY <1>11, <2>1 DEF DigestBefore
  <2>4. history[n].row.digest = rows[n].digest /\ rows[n].digest # GENESIS
    BY <2>2, EntryFields, DigestsDiffer DEF RowOK, KeepsSeal
  <2>. QED BY <1>7, <1>14, <2>1, <2>3, <2>4
<1>15. n = 0 => z.prev = GENESIS
  BY <1>11 DEF DigestBefore
<1>16. StandsOnPast(z, g)
  <2>1. CASE n = 0
    BY <1>8, <1>9, <1>15, <2>1 DEF StandsOnPast
  <2>2. CASE n # 0
    <3>1. RowOK(rows[n], history[n], emitted) /\ past = history[n].past \cup {rows[n].digest}
      BY <1>7, <1>13, <1>14, <2>2
    <3>2. z.prev \in past
      BY <1>14, <2>2, <3>1
    <3>3. \E c : rows[n].digest = Digest(c) /\ (c.prev = GENESIS \/ c.prev \in history[n].past)
      <4>1. \E c : rows[n].digest = Digest(c) /\ c.prev = rows[n].prev
        BY <3>1, EntryFields DEF RowOK, KeepsSeal
      <4>2. rows[n].prev = GENESIS \/ rows[n].prev \in history[n].past
        BY <3>1 DEF RowOK, StandsOnPast
      <4>. QED BY <4>1, <4>2
    <3>4. ASSUME NEW d \in past
          PROVE  \E c : d = Digest(c) /\ (c.prev = GENESIS \/ c.prev \in past)
      <4>1. \E c : d = Digest(c) /\ (c.prev = GENESIS \/ c.prev \in history[n].past)
        BY <3>1, <3>3, <3>4 DEF RowOK, StandsOnPast
      <4>. QED BY <3>1, <4>1
    <3>5. z.digest \notin past
      BY <1>12, <1>14, <2>2, <3>1
    <3>. QED BY <1>9, <3>2, <3>4, <3>5 DEF StandsOnPast
  <2>. QED BY <2>1, <2>2
<1>17. after \in Nat /\ (after = 0 <=> z.prev = GENESIS)
  <2>1. CASE n = 0
    BY <1>8, <1>15, <2>1
  <2>2. CASE n # 0
    <3>1. history[n].number \in 1 .. emitted
      BY <1>13, <1>14, <2>2 DEF RowOK
    <3>. QED BY <1>1, <1>14, <2>2, <3>1
  <2>. QED BY <2>1, <2>2
<1>18. RowOK(z, g, emitted + 1)
  <2>1. g.number \in 1 .. (emitted + 1)
    BY <1>1, <1>9
  <2>2. KeepsSeal(z, g) /\ StandsOnPast(z, g)
    BY <1>11, <1>16
  <2>. QED BY <1>9, <1>17, <2>1, <2>2 DEF RowOK
<1>19. Parallel'
  <2>1. emitted' \in 0 .. MaxRows /\ Len(rows') <= emitted'
    BY <1>1, <1>4, <1>5, ReceiptChainAssumption
  <2>2. damaged' \in 0 .. MaxDamage
    BY <1>1, <1>4 DEF Parallel
  <2>. QED BY <1>5, <1>10, <2>1, <2>2 DEF Parallel
<1>20. ASSUME NEW i \in 1 .. n
       PROVE  RowOK(rows[i], history[i], emitted + 1)
  <2>1. RowOK(rows[i], history[i], emitted)
    BY <1>13
  <2>2. 1 .. emitted \subseteq 1 .. (emitted + 1)
    BY <1>1
  <2>. QED BY <2>1, <2>2 DEF RowOK
<1>21. RowsOK'
  <2>1. ASSUME NEW i \in 1 .. (n + 1)
        PROVE  RowOK(rows'[i], history'[i], emitted + 1)
    <3>1. i \in 1 .. n \/ i = n + 1
      BY <1>1
    <3>. QED BY <1>5, <1>10, <1>18, <1>20, <3>1
  <2>. QED BY <1>4, <1>5, <2>1 DEF RowsOK
<1>22. ASSUME NEW j \in 1 .. n
       PROVE  PairOK(rows[j], history[j], z, g)
  <2>1. n # 0 /\ n \in 1 .. n
    BY <1>1
  <2>2. /\ RowOK(rows[j], history[j], emitted) /\ RowOK(rows[n], history[n], emitted)
        /\ history[j].number \in 1 .. emitted /\ history[n].number \in 1 .. emitted
    BY <1>13, <2>1 DEF RowOK
  <2>3. z.prev = rows[n].digest /\ after = history[n].number
    BY <1>14, <2>1
  <2>4. j # n => /\ history[j].number < history[n].number
                 /\ rows[n].digest # rows[j].digest
    <3>1. j # n => j < n
      BY <1>1
    <3>. QED BY <2>1, <3>1 DEF ChainInv, PairsOK, PairOK
  <2>5. history[j].number < emitted + 1 /\ history[j].number <= after
    BY <1>1, <2>2, <2>3, <2>4
  <2>6. after = history[j].number <=> z.prev = rows[j].digest
    BY <2>2, <2>3, <2>4
  <2>. QED BY <1>9, <1>12, <2>5, <2>6 DEF PairOK
<1>23. PairsOK'
  <2>1. ASSUME NEW i \in 1 .. (n + 1), NEW j \in 1 .. (n + 1), j < i
        PROVE  PairOK(rows'[j], history'[j], rows'[i], history'[i])
    <3>1. j \in 1 .. n /\ (i \in 1 .. n \/ i = n + 1)
      BY <1>1, <2>1
    <3>2. CASE i \in 1 .. n
      <4>1. PairOK(rows[j], history[j], rows[i], history[i])
        BY <2>1, <3>1, <3>2 DEF ChainInv, PairsOK
      <4>. QED BY <1>5, <1>10, <3>1, <3>2, <4>1
    <3>3. CASE i = n + 1
      BY <1>5, <1>10, <1>22, <3>1, <3>3
    <3>. QED BY <3>1, <3>2, <3>3
  <2>. QED BY <1>5, <2>1 DEF PairsOK
<1>24. ASSUME NEW i \in 1 .. n PROVE LinkBroken(i)' <=> LinkBroken(i)
  <2>1. i = 1 \/ i - 1 \in 1 .. n
    BY <1>1
  <2>. QED BY <1>5, <2>1 DEF LinkBroken, DigestBefore
<1>25. LinkedRowsAreNumbered'
  <2>1. ASSUME NEW i \in 1 .. (n + 1), \A j \in 1 .. i : ~LinkBroken(j)'
        PROVE  rows'[i].seq = i - 1
    <3>1. CASE i \in 1 .. n
      <4>1. \A j \in 1 .. i : j \in 1 .. n
        BY <1>1, <3>1
      <4>2. rows[i].seq = i - 1
        BY <1>24, <2>1, <3>1, <4>1 DEF ChainInv, LinkedRowsAreNumbered
      <4>. QED BY <1>5, <3>1, <4>2
    <3>2. CASE i = n + 1
      BY <1>1, <1>5, <1>11, <3>2
    <3>. QED BY <1>1, <3>1, <3>2
  <2>. QED BY <1>5, <2>1 DEF LinkedRowsAreNumbered
<1>. QED BY <1>19, <1>21, <1>23, <1>25 DEF ChainInv

\* A shared value changes under a row: its seal and its links are as before.
LEMMA AliasStep ==
  ASSUME ChainInv, NEW a \in DOMAIN rows, NEW value \in Values, Alias(a, value)
  PROVE  ChainInv'
<1>. DEFINE n == Len(rows)
<1>1. Parallel /\ n \in Nat /\ a \in 1 .. n /\ DOMAIN rows = 1 .. n
  BY Numbers DEF ChainInv
<1>2. PICK S : rows \in Seq(S)
  BY <1>1 DEF Parallel
<1>3. /\ rows' = [rows EXCEPT ![a].value = value]
      /\ damaged < MaxDamage /\ damaged' = damaged + 1
      /\ history' = history /\ emitted' = emitted
  BY DEF Alias
<1>. DEFINE r == [rows[a] EXCEPT !.value = value]
<1>4. PICK x \in Values, y \in Values, own \in {None} \cup Values,
           s \in 0 .. (MaxRows - 1) : \E p :
        /\ history[a].row = Entry(x, Digest(Entry(x, own, s, p)), s, p)
        /\ rows[a] = Entry(y, Digest(Entry(x, own, s, p)), s, p)
  BY <1>1 DEF ChainInv, RowsOK, RowOK, KeepsSeal
<1>5. PICK p : /\ history[a].row = Entry(x, Digest(Entry(x, own, s, p)), s, p)
               /\ rows[a] = Entry(y, Digest(Entry(x, own, s, p)), s, p)
  BY <1>4
<1>6. r = Entry(value, Digest(Entry(x, own, s, p)), s, p)
  BY <1>5, EntryFields
<1>7. r.digest = rows[a].digest /\ r.prev = rows[a].prev /\ r.seq = rows[a].seq
      /\ KeepsSeal(r, history[a])
  <2>1. KeepsSeal(r, history[a])
    BY <1>5, <1>6 DEF KeepsSeal
  <2>. QED BY <1>5, <1>6, <2>1, EntryFields
<1>8. rows' = [rows EXCEPT ![a] = r]
  BY <1>3
<1>. HIDE DEF r
<1>9. rows' \in Seq(S \cup {r}) /\ Len(rows') = n
      /\ \A i \in 1 .. n : rows'[i] = IF i = a THEN r ELSE rows[i]
  <2>1. rows \in Seq(S \cup {r})
    BY <1>2, SeqMonotonic
  <2>. QED BY <1>1, <1>8, <2>1, ExceptSeq
<1>10. \A i \in 1 .. n : /\ rows'[i].digest = rows[i].digest
                         /\ rows'[i].prev = rows[i].prev /\ rows'[i].seq = rows[i].seq
  BY <1>7, <1>9
<1>11. Parallel'
  <2>1. damaged' \in 0 .. MaxDamage
    BY <1>1, <1>3, ReceiptChainAssumption DEF Parallel
  <2>. QED BY <1>1, <1>3, <1>9, <2>1 DEF Parallel
<1>12. RowsOK'
  <2>1. ASSUME NEW i \in 1 .. n PROVE RowOK(rows'[i], history[i], emitted)
    <3>1. RowOK(rows[i], history[i], emitted)
      BY DEF ChainInv, RowsOK
    <3>2. KeepsSeal(rows'[i], history[i])
      BY <1>7, <1>9, <3>1 DEF RowOK
    <3>. QED BY <1>10, <3>1, <3>2 DEF RowOK, StandsOnPast
  <2>. QED BY <1>3, <1>9, <2>1 DEF RowsOK
<1>13. PairsOK'
  BY <1>3, <1>9, <1>10 DEF ChainInv, PairsOK, PairOK
<1>14. LinkedRowsAreNumbered'
  <2>1. ASSUME NEW j \in 1 .. n PROVE LinkBroken(j)' <=> LinkBroken(j)
    <3>1. j = 1 \/ j - 1 \in 1 .. n
      BY <1>1
    <3>. QED BY <1>10, <3>1 DEF LinkBroken, DigestBefore
  <2>2. ASSUME NEW i \in 1 .. n, \A j \in 1 .. i : ~LinkBroken(j)'
        PROVE  rows'[i].seq = i - 1
    <3>1. \A j \in 1 .. i : j \in 1 .. n
      BY <1>1
    <3>. QED BY <1>10, <2>1, <2>2, <3>1 DEF ChainInv, LinkedRowsAreNumbered
  <2>. QED BY <1>9, <2>2 DEF LinkedRowsAreNumbered
<1>. QED BY <1>11, <1>12, <1>13, <1>14 DEF ChainInv

\* A row is lost: the one that comes up behind it was not sealed after the one
\* it now follows, and its link gives that away for good.
LEMMA LoseStep ==
  ASSUME ChainInv, NEW a \in DOMAIN rows, Lose(a)
  PROVE  ChainInv'
<1>. DEFINE n == Len(rows)
            old(i) == IF i < a THEN i ELSE i + 1
<1>1. /\ Parallel /\ n \in Nat /\ a \in 1 .. n /\ Len(history) = n
      /\ emitted \in Nat /\ n <= emitted
  BY Numbers DEF ChainInv
<1>2. PICK S : rows \in Seq(S)
  BY <1>1 DEF Parallel
<1>3. PICK T : history \in Seq(T)
  BY <1>1 DEF Parallel
<1>4. /\ rows' = RemoveAt(rows, a) /\ history' = RemoveAt(history, a)
      /\ damaged < MaxDamage /\ damaged' = damaged + 1 /\ emitted' = emitted
  BY DEF Lose
<1>5. /\ rows' \in Seq(S) /\ Len(rows') = n - 1
      /\ \A i \in 1 .. (n - 1) : rows'[i] = rows[old(i)]
  <2>1. \A i \in 1 .. (n - 1) : rows'[i] = IF i < a THEN rows[i] ELSE rows[i + 1]
    BY <1>1, <1>2, <1>4, RemoveAtEntries
  <2>. QED BY <1>1, <1>2, <1>4, <2>1, RemoveAtEntries
<1>6. /\ history' \in Seq(T) /\ Len(history') = n - 1
      /\ \A i \in 1 .. (n - 1) : history'[i] = history[old(i)]
  <2>1. \A i \in 1 .. (n - 1) : history'[i] = IF i < a THEN history[i] ELSE history[i + 1]
    BY <1>1, <1>3, <1>4, RemoveAtEntries
  <2>. QED BY <1>1, <1>3, <1>4, <2>1, RemoveAtEntries
<1>7. \A i \in 1 .. (n - 1) : old(i) \in 1 .. n
  BY <1>1
<1>8. \A i, j \in 1 .. (n - 1) : j < i => old(j) < old(i)
  BY <1>1
<1>9. Parallel'
  <2>1. damaged' \in 0 .. MaxDamage
    BY <1>1, <1>4, ReceiptChainAssumption DEF Parallel
  <2>2. emitted' \in 0 .. MaxRows /\ Len(rows') <= emitted'
    BY <1>1, <1>4, <1>5 DEF Parallel
  <2>. QED BY <1>5, <1>6, <2>1, <2>2 DEF Parallel
<1>10. RowsOK'
  BY <1>4, <1>5, <1>6, <1>7 DEF ChainInv, RowsOK
<1>11. PairsOK'
  BY <1>5, <1>6, <1>7, <1>8 DEF ChainInv, PairsOK
<1>12. ASSUME a <= n - 1
       PROVE  LinkBroken(a)'
  <2>1. a + 1 \in 1 .. n /\ a < a + 1 /\ a \in 1 .. (n - 1) /\ old(a) = a + 1
    BY <1>1, <1>12
  <2>2. rows'[a] = rows[a + 1]
    BY <1>5, <2>1
  <2>3. PairOK(rows[a], history[a], rows[a + 1], history[a + 1])
    BY <1>1, <2>1 DEF ChainInv, PairsOK
  <2>4. RowOK(rows[a], history[a], emitted) /\ RowOK(rows[a + 1], history[a + 1], emitted)
    BY <1>1, <2>1 DEF ChainInv, RowsOK
  <2>5. history[a].number \in Nat /\ history[a].number >= 1 /\ history[a + 1].after \in Nat
        /\ history[a].number <= history[a + 1].after
    BY <1>1, <2>3, <2>4 DEF RowOK, PairOK
  <2>6. CASE a = 1
    <3>1. rows[a + 1].prev # GENESIS
      BY <2>4, <2>5 DEF RowOK
    <3>. QED BY <2>2, <2>6, <3>1 DEF LinkBroken, DigestBefore
  <2>7. CASE a # 1
    <3>1. a - 1 \in 1 .. n /\ a - 1 < a /\ a - 1 < a + 1 /\ a - 1 \in 1 .. (n - 1) /\ old(a - 1) = a - 1
      BY <1>1, <1>12, <2>7
    <3>2. /\ PairOK(rows[a - 1], history[a - 1], rows[a], history[a])
          /\ PairOK(rows[a - 1], history[a - 1], rows[a + 1], history[a + 1])
      BY <1>1, <2>1, <3>1 DEF ChainInv, PairsOK
    <3>3. history[a - 1].number \in Nat
      BY <1>1, <3>1 DEF ChainInv, RowsOK, RowOK
    <3>4. history[a + 1].after # history[a - 1].number
      BY <2>5, <3>2, <3>3 DEF PairOK
    <3>5. rows[a + 1].prev # rows[a - 1].digest
      BY <3>2, <3>4 DEF PairOK
    <3>6. rows'[a - 1] = rows[a - 1]
      BY <1>5, <3>1
    <3>. QED BY <2>2, <2>7, <3>5, <3>6 DEF LinkBroken, DigestBefore
  <2>. QED BY <2>6, <2>7
<1>13. LinkedRowsAreNumbered'
  <2>1. ASSUME NEW i \in 1 .. (n - 1), \A j \in 1 .. i : ~LinkBroken(j)'
        PROVE  rows'[i].seq = i - 1
    <3>1. i < a
      <4>1. ASSUME a <= i PROVE FALSE
        <5>1. a \in 1 .. i /\ a <= n - 1
          BY <1>1, <4>1
        <5>. QED BY <1>12, <2>1, <5>1
      <4>. QED BY <1>1, <4>1
    <3>2. \A j \in 1 .. i : j \in 1 .. (n - 1) /\ old(j) = j /\ (j = 1 \/ (j - 1 \in 1 .. (n - 1) /\ old(j - 1) = j - 1))
      BY <1>1, <3>1
    <3>3. ASSUME NEW j \in 1 .. i PROVE ~LinkBroken(j)
      <4>1. rows'[j] = rows[j] /\ (j = 1 \/ rows'[j - 1] = rows[j - 1])
        BY <1>5, <3>2
      <4>2. ~LinkBroken(j)'
        BY <2>1
      <4>. QED BY <4>1, <4>2 DEF LinkBroken, DigestBefore
    <3>4. i \in 1 .. n /\ rows'[i] = rows[i]
      BY <1>1, <1>5, <3>1
    <3>. QED BY <3>3, <3>4 DEF ChainInv, LinkedRowsAreNumbered
  <2>. QED BY <1>5, <2>1 DEF LinkedRowsAreNumbered
<1>. QED BY <1>9, <1>10, <1>11, <1>13 DEF ChainInv

LEMMA ChainNext == ChainInv /\ [Next]_vars => ChainInv'
<1>. SUFFICES ASSUME ChainInv, [Next]_vars PROVE ChainInv'
  OBVIOUS
<1>1. ASSUME NEW payload \in Payloads, Emit(payload) PROVE ChainInv'
  BY <1>1, EmitStep
<1>2. ASSUME NEW i \in DOMAIN rows, NEW value \in Values, Alias(i, value) PROVE ChainInv'
  BY <1>2, AliasStep
<1>3. ASSUME NEW i \in DOMAIN rows, Lose(i) PROVE ChainInv'
  BY <1>3, LoseStep
<1>4. CASE UNCHANGED vars
  BY <1>4 DEF vars, ChainInv, Parallel, RowsOK, PairsOK, LinkedRowsAreNumbered,
              LinkBroken, DigestBefore
<1>. QED BY <1>1, <1>2, <1>3, <1>4 DEF Next

-----------------------------------------------------------------------------
\* Rows keep what they were sealed with and what they stand on, whatever is
\* altered or lost.
THEOREM SealsAndLinksHold == Spec => []ChainInv
<1>. QED BY ChainInit, ChainNext, PTL DEF Spec

\* Counters and lists stay parallel, and rows keep their four entries.
THEOREM ChainTypes == Spec => []TypeOK
<1>. QED BY SealsAndLinksHold, TypesFollow, PTL

\* verify accepts exactly the chains whose rows are as and where they were
\* emitted, and otherwise points at the first that is not.
THEOREM VerifyIsRight == Spec => []VerifyFindsFirstUntrueRow
<1>. QED BY SealsAndLinksHold, VerdictIsRight, PTL

\* The rows of an accepted chain are numbered without a gap, although verify
\* does not look at the numbers.
THEOREM AcceptedChainsAreNumbered == Spec => []AcceptedIsNumbered
<1>. QED BY SealsAndLinksHold, AcceptedRowsAreNumbered, PTL

\* A receipt digest names one position of the chain.
THEOREM DigestsNamePositions == Spec => []DigestNamesOneRow
<1>. QED BY SealsAndLinksHold, DigestsName, PTL
=============================================================================
