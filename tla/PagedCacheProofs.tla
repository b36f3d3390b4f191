--------------------------- MODULE PagedCacheProofs ---------------------------
(***************************************************************************)
(* That attention sees the whole context with what was last sent to its    *)
(* slots, for any number and size of pages and any calls.  The arithmetic  *)
(* is that of floor and remainder: scattering finds the one cell of a      *)
(* slot, and gathering the one page that contributes a position.           *)
(***************************************************************************)
EXTENDS PagedCache, SequenceTheorems, TLAPS

\* Each cell holds a token of the last write to its slot.
CellsHoldLastWrites ==
  \A p \in Pages, o \in Offsets :
    k[p][o] \in stored[p * BlockSize + o] /\ v[p][o] \in stored[p * BlockSize + o]

PagedInv == TypeOK /\ CellsHoldLastWrites /\ AttendsToLastWrites

-----------------------------------------------------------------------------
(* Floor and remainder.                                                    *)

LEMMA DivMod ==
  ASSUME NEW n \in Int, NEW d \in Nat \ {0}
  PROVE  /\ n \div d \in Int /\ (n % d) \in 0 .. (d - 1)
         /\ n = d * (n \div d) + (n % d)
OBVIOUS

LEMMA TimesIsMonotone ==
  ASSUME NEW d \in Nat, NEW a \in Int, NEW b \in Int, a <= b
  PROVE  d * a <= d * b /\ d * a \in Int /\ d * b \in Int
<1>1. d * (b - a) >= 0
  OBVIOUS
<1>2. d * (b - a) = d * b - d * a
  OBVIOUS
<1>. QED BY <1>1, <1>2

LEMMA NextMultiple ==
  ASSUME NEW d \in Nat, NEW a \in Int
  PROVE  d * (a + 1) = d * a + d /\ d * a = a * d /\ d * a \in Int
OBVIOUS

\* A number lies in one interval of length d only.
LEMMA OneInterval ==
  ASSUME NEW d \in Nat \ {0}, NEW n \in Int, NEW a \in Int, NEW b \in Int,
         d * a <= n, n < d * a + d, d * b <= n, n < d * b + d
  PROVE  a = b
<1>1. ASSUME a + 1 <= b PROVE FALSE
  <2>1. d * (a + 1) <= d * b /\ d * (a + 1) = d * a + d
    BY <1>1, TimesIsMonotone, NextMultiple
  <2>. QED BY <2>1, NextMultiple
<1>2. ASSUME b + 1 <= a PROVE FALSE
  <2>1. d * (b + 1) <= d * a /\ d * (b + 1) = d * b + d
    BY <1>2, TimesIsMonotone, NextMultiple
  <2>. QED BY <2>1, NextMultiple
<1>. QED BY <1>1, <1>2

\* A number with its page and offset.
LEMMA OneCell ==
  ASSUME NEW d \in Nat \ {0}, NEW p \in Int, NEW o \in 0 .. (d - 1), NEW s \in Int
  PROVE  (s \div d = p /\ s % d = o) <=> s = p * d + o
<1>1. /\ s \div d \in Int /\ (s % d) \in 0 .. (d - 1)
      /\ s = d * (s \div d) + (s % d) /\ d * (s \div d) \in Int
  BY DivMod, NextMultiple
<1>2. d * p = p * d /\ d * p \in Int
  BY NextMultiple
<1>3. ASSUME s \div d = p, s % d = o PROVE s = p * d + o
  BY <1>1, <1>2, <1>3
<1>4. ASSUME s = p * d + o PROVE s \div d = p /\ s % d = o
  <2>1. /\ d * p <= s /\ s < d * p + d
        /\ d * (s \div d) <= s /\ s < d * (s \div d) + d
    BY <1>1, <1>2, <1>4
  <2>2. s \div d = p
    BY <1>1, <2>1, OneInterval
  <2>. QED BY <1>1, <1>2, <1>4, <2>2
<1>. QED BY <1>3, <1>4

-----------------------------------------------------------------------------
(* Scattering.                                                             *)

\* The slot of a cell, and no other, goes to that cell.
LEMMA SlotOfCell ==
  ASSUME NEW p \in Pages, NEW o \in Offsets
  PROVE  /\ p * BlockSize + o \in Slots
         /\ \A s \in Int :
              (s \div BlockSize = p /\ s % BlockSize = o) <=> s = p * BlockSize + o
<1>1. /\ BlockSize \in Nat \ {0} /\ NumPages \in Nat /\ p \in Int /\ o \in Int
      /\ 0 <= p /\ p + 1 <= NumPages /\ 0 <= o /\ o < BlockSize
  BY PagedCacheAssumption DEF Pages, Offsets
<1>2. BlockSize * (p + 1) = BlockSize * p + BlockSize /\ BlockSize * p = p * BlockSize
      /\ BlockSize * p \in Int
  BY <1>1, NextMultiple
<1>3. BlockSize * (p + 1) <= BlockSize * NumPages /\ BlockSize * 0 <= BlockSize * p
      /\ BlockSize * NumPages \in Int
  BY <1>1, TimesIsMonotone
<1>4. BlockSize * NumPages = NumPages * BlockSize /\ BlockSize * 0 = 0
  BY <1>1
<1>5. p * BlockSize + o \in Slots
  BY <1>1, <1>2, <1>3, <1>4 DEF Slots
<1>6. o \in 0 .. (BlockSize - 1)
  BY DEF Offsets
<1>. QED BY <1>1, <1>5, <1>6, OneCell

\* What an admissible call puts into a cell is a token it sends to its slot,
\* or what the cell held, if it sends none.
LEMMA IndexPutSends ==
  ASSUME NEW call \in Writes, Admissible(call), NEW W \in Kept(call),
         NEW cells \in Cells, NEW p \in Pages, NEW o \in Offsets
  PROVE  LET s == p * BlockSize + o
             got == IndexPut(cells, call, W)[p][o]
         IN IF s \in ToSet(call.slots) THEN got \in SentTo(call, s) /\ got \in Tokens
                                       ELSE got = cells[p][o]
<1>. DEFINE s == p * BlockSize + o
            got == IndexPut(cells, call, W)[p][o]
            G(i) == GoesTo(call, i, p, o)
<1>1. /\ call.tokens \in Seq(Tokens) /\ call.slots \in Seq(Int)
      /\ DOMAIN call.tokens = DOMAIN call.slots
      /\ \A i \in DOMAIN call.slots : call.slots[i] \in Slots
  <2>1. call.tokens \in Seq(Tokens) /\ call.slots \in Seq(Int)
    BY PagedCacheAssumption
  <2>. QED BY <2>1, LenProperties DEF Admissible
<1>2. \A i \in DOMAIN call.slots : G(i) <=> call.slots[i] = s
  BY <1>1, SlotOfCell DEF GoesTo, Slots
<1>3. /\ W \subseteq DOMAIN call.slots
      /\ \A i \in DOMAIN call.slots : \E j \in W : call.slots[j] = call.slots[i]
  BY DEF Kept
<1>4. got = IF \E i \in W : G(i) THEN call.tokens[CHOOSE i \in W : G(i)] ELSE cells[p][o]
  BY DEF IndexPut
<1>5. CASE s \in ToSet(call.slots)
  <2>1. PICK i \in DOMAIN call.slots : call.slots[i] = s
    BY <1>5 DEF ToSet
  <2>2. \E j \in W : G(j)
    BY <1>2, <1>3, <2>1
  <2>3. PICK j \in W : G(j) /\ got = call.tokens[j]
    BY <1>4, <2>2
  <2>4. j \in DOMAIN call.slots /\ call.slots[j] = s
    BY <1>2, <1>3, <2>3
  <2>5. call.tokens[j] \in Tokens
    BY <1>1, <2>4, ElementOfSeq, LenProperties
  <2>. QED BY <1>5, <2>3, <2>4, <2>5 DEF SentTo
<1>6. CASE s \notin ToSet(call.slots)
  <2>1. ~\E i \in W : G(i)
    BY <1>2, <1>3, <1>6 DEF ToSet
  <2>. QED BY <1>4, <1>6, <2>1
<1>. QED BY <1>5, <1>6

LEMMA IndexPutCells ==
  ASSUME NEW call \in Writes, Admissible(call), NEW W \in Kept(call), NEW cells \in Cells
  PROVE  IndexPut(cells, call, W) \in Cells
<1>1. ASSUME NEW p \in Pages, NEW o \in Offsets
      PROVE  IndexPut(cells, call, W)[p][o] \in Tokens \cup {Zero}
  <2>1. cells[p][o] \in Tokens \cup {Zero}
    BY DEF Cells
  <2>. QED BY <2>1, IndexPutSends
<1>2. /\ IndexPut(cells, call, W) = [p \in Pages |-> IndexPut(cells, call, W)[p]]
      /\ \A p \in Pages : IndexPut(cells, call, W)[p]
                            = [o \in Offsets |-> IndexPut(cells, call, W)[p][o]]
  BY DEF IndexPut
<1>. QED BY <1>1, <1>2 DEF Cells

-----------------------------------------------------------------------------
(* Gathering.                                                              *)

\* A position of the context lies in one active page, and at its remainder.
LEMMA PageOfPosition ==
  ASSUME NEW context \in Nat, NEW pages \in Nat, context <= pages * BlockSize,
         NEW i \in 0 .. (context - 1)
  PROVE  LET q == i \div BlockSize
         IN /\ q \in 0 .. (ActivePages(context) - 1)
            /\ ActivePages(context) \in 0 .. pages
            /\ i - Start(q) = i % BlockSize /\ i % BlockSize \in Offsets
            /\ \A j \in 0 .. (ActivePages(context) - 1) :
                 Contributes(j, context, i) <=> j = q
<1>. DEFINE B == BlockSize
            q == i \div B
            A == ActivePages(context)
            s == i % B
            r == (context + B - 1) % B
<1>0. B \in Nat \ {0} /\ i \in Int /\ 0 <= i /\ i < context
  BY PagedCacheAssumption
<1>1. q \in Int /\ s \in 0 .. (B - 1) /\ i = B * q + s /\ B * q \in Int
  BY <1>0, DivMod, NextMultiple
<1>2. A \in Int /\ r \in 0 .. (B - 1) /\ context + B - 1 = B * A + r /\ B * A \in Int
  <2>1. context + B - 1 \in Int
    BY <1>0
  <2>. QED BY <1>0, <2>1, DivMod, NextMultiple DEF ActivePages
<1>. HIDE DEF q, A, s, r
<1>3. q >= 0
  <2>1. ASSUME q <= -1 PROVE FALSE
    <3>1. B * q <= B * (-1)
      BY <1>0, <1>1, <2>1, TimesIsMonotone
    <3>2. B * (-1) = -B
      BY <1>0
    <3>. QED BY <1>0, <1>1, <3>1, <3>2
  <2>. QED BY <1>1, <2>1
<1>4. q <= A - 1
  <2>1. ASSUME A <= q PROVE FALSE
    <3>1. B * A <= B * q
      BY <1>0, <1>1, <1>2, <2>1, TimesIsMonotone
    <3>. QED BY <1>0, <1>1, <1>2, <3>1
  <2>. QED BY <1>1, <1>2, <2>1
<1>5. A <= pages
  <2>1. ASSUME pages + 1 <= A PROVE FALSE
    <3>1. B * (pages + 1) <= B * A /\ B * (pages + 1) = B * pages + B
          /\ B * pages = pages * B /\ B * pages \in Int
      BY <1>0, <1>2, <2>1, TimesIsMonotone, NextMultiple
    <3>. QED BY <1>0, <1>2, <3>1
  <2>. QED BY <1>2, <2>1
<1>6. Start(q) = B * q
  BY <1>0, <1>1, NextMultiple DEF Start
<1>7. Contributes(q, context, i)
  <2>1. End(q, context) = IF B * q + B <= context THEN B * q + B ELSE context
    BY <1>6 DEF End
  <2>. QED BY <1>0, <1>1, <1>6, <2>1 DEF Contributes
<1>8. ASSUME NEW j \in 0 .. (A - 1), Contributes(j, context, i)
      PROVE  j = q
  <2>1. Start(j) = B * j /\ B * j \in Int /\ j \in Int
    BY <1>0, <1>2, NextMultiple DEF Start
  <2>2. B * j <= i /\ i < B * j + B
    <3>1. End(j, context) = IF B * j + B <= context THEN B * j + B ELSE context
      BY <2>1 DEF End
    <3>. QED BY <1>0, <1>8, <2>1, <3>1 DEF Contributes
  <2>3. B * q <= i /\ i < B * q + B
    BY <1>0, <1>1
  <2>. QED BY <1>0, <1>1, <2>1, <2>2, <2>3, OneInterval
<1>9. i - Start(q) = s /\ s \in Offsets
  BY <1>0, <1>1, <1>6 DEF Offsets
<1>10. q \in 0 .. (A - 1) /\ A \in 0 .. pages
  BY <1>1, <1>2, <1>3, <1>4, <1>5
<1>. QED BY <1>7, <1>8, <1>9, <1>10 DEF q, A, s

\* What a row gathers at a position of the context is the cell of its page at
\* its remainder.
LEMMA GatheredFrom ==
  ASSUME NEW table \in Seq(Int), NEW context \in Nat,
         context <= Len(table) * BlockSize,
         \A j \in 1 .. ActivePages(context) : table[j] \in Pages,
         NEW i \in 0 .. (context - 1), NEW cells
  PROVE  LET page == table[(i \div BlockSize) + 1]
             o == i % BlockSize
         IN page \in Pages /\ o \in Offsets
            /\ GatheredRow(cells, table, context)[i] = cells[page][o]
<1>. DEFINE q == i \div BlockSize
            A == ActivePages(context)
            C(j) == Contributes(j, context, i)
<1>1. Len(table) \in Nat
  BY LenProperties
<1>2. /\ q \in 0 .. (A - 1) /\ A \in 0 .. Len(table)
      /\ i - Start(q) = i % BlockSize /\ i % BlockSize \in Offsets
      /\ \A j \in 0 .. (A - 1) : C(j) <=> j = q
  BY <1>1, PageOfPosition
<1>3. i \in 0 .. (Len(table) * BlockSize - 1)
  <2>1. Len(table) * BlockSize \in Int
    BY <1>1, PagedCacheAssumption
  <2>. QED BY <2>1
<1>. HIDE DEF q, A, C
<1>4. (\E j \in 0 .. (A - 1) : C(j)) /\ (CHOOSE n \in 0 .. (A - 1) : C(n)) = q
  BY <1>2
<1>5. GatheredRow(cells, table, context)[i] = cells[table[q + 1]][i - Start(q)]
  BY <1>3, <1>4 DEF GatheredRow, A, C
<1>6. table[q + 1] \in Pages
  BY <1>2 DEF A
<1>. QED BY <1>2, <1>5, <1>6 DEF q

\* Attention sees the whole context with what was last sent to its slots.
LEMMA SeenIsStored ==
  ASSUME CellsHoldLastWrites, NEW call \in Reads, Readable(call.tables, call.contexts),
         NEW b \in DOMAIN call.tables
  PROVE  LET table == call.tables[b]
             seen == Seen(table, call.contexts[b])
             slot(i) == table[(i \div BlockSize) + 1] * BlockSize + (i % BlockSize)
         IN /\ {row.at : row \in seen} = 0 .. (call.contexts[b] - 1)
            /\ \A row \in seen :
                 row.key \in stored[slot(row.at)] /\ row.val \in stored[slot(row.at)]
<1>. DEFINE table == call.tables[b]
            context == call.contexts[b]
            slot(i) == table[(i \div BlockSize) + 1] * BlockSize + (i % BlockSize)
            row(i) == [at |-> i, key |-> GatheredRow(k, table, context)[i],
                       val |-> GatheredRow(v, table, context)[i]]
<1>1. table \in Seq(Int) /\ Len(table) \in Nat
  <2>1. call.tables \in Seq(Seq(Int))
    BY PagedCacheAssumption
  <2>. QED BY <2>1, ElementOfSeq, LenProperties
<1>2. /\ context \in Nat /\ context <= Len(table) * BlockSize
      /\ \A j \in 1 .. ActivePages(context) : table[j] \in Pages
  <2>1. context \in 0 .. Len(table) * BlockSize
    BY DEF Readable
  <2>2. Len(table) * BlockSize \in Int
    BY <1>1, PagedCacheAssumption
  <2>. QED BY <2>1, <2>2 DEF Readable
<1>3. Visible(table, context) = 0 .. (context - 1)
  <2>1. Len(table) * BlockSize \in Int
    BY <1>1, PagedCacheAssumption
  <2>. QED BY <2>1, <1>2 DEF Visible
<1>4. Seen(table, context) = {row(i) : i \in 0 .. (context - 1)}
  BY <1>3 DEF Seen
<1>5. ASSUME NEW i \in 0 .. (context - 1)
      PROVE  row(i).at = i /\ row(i).key \in stored[slot(i)] /\ row(i).val \in stored[slot(i)]
  <2>. DEFINE page == table[(i \div BlockSize) + 1]
              o == i % BlockSize
  <2>1. ASSUME NEW cells
        PROVE  page \in Pages /\ o \in Offsets /\ GatheredRow(cells, table, context)[i] = cells[page][o]
    <3>. HIDE DEF table, context
    <3>. QED BY <1>1, <1>2, GatheredFrom
  <2>. HIDE DEF page, o
  <2>2. k[page][o] \in stored[page * BlockSize + o] /\ v[page][o] \in stored[page * BlockSize + o]
    BY <2>1 DEF CellsHoldLastWrites
  <2>. QED BY <2>1, <2>2 DEF page, o
<1>. HIDE DEF row, slot, table, context
<1>6. {x.at : x \in Seen(table, context)} = 0 .. (context - 1)
  BY <1>4, <1>5
<1>7. \A x \in Seen(table, context) : x.key \in stored[slot(x.at)] /\ x.val \in stored[slot(x.at)]
  BY <1>4, <1>5
<1>. QED BY <1>6, <1>7 DEF slot, table, context

-----------------------------------------------------------------------------
LEMMA PagedInit == Init => PagedInv
<1>. SUFFICES ASSUME Init PROVE PagedInv
  OBVIOUS
<1>1. /\ k \in Cells /\ v \in Cells
      /\ \A p \in Pages, o \in Offsets : k[p][o] = Zero /\ v[p][o] = Zero
  BY DEF Init, Cells
<1>2. stored = [s \in Slots |-> {Zero}] /\ writes = 0 /\ reply = [outcome |-> "none"]
  BY DEF Init
<1>3. TypeOK
  BY <1>1, <1>2, PagedCacheAssumption DEF TypeOK
<1>4. CellsHoldLastWrites
  BY <1>1, <1>2, SlotOfCell DEF CellsHoldLastWrites
<1>5. AttendsToLastWrites
  BY <1>2 DEF AttendsToLastWrites
<1>. QED BY <1>3, <1>4, <1>5 DEF PagedInv

\* Whatever the two tensors keep of several tokens for one slot was sent there.
LEMMA WriteStep ==
  ASSUME PagedInv, NEW call \in Writes, ReshapeAndCache(call)
  PROVE  PagedInv'
<1>0. TypeOK /\ CellsHoldLastWrites
  BY DEF PagedInv
<1>1. Admissible(call) /\ writes < MaxWrites /\ writes' = writes + 1 /\ reply' = [outcome |-> "stored"]
  BY DEF ReshapeAndCache
<1>2. PICK W \in Kept(call) : k' = IndexPut(k, call, W)
  BY DEF ReshapeAndCache
<1>3. PICK X \in Kept(call) : v' = IndexPut(v, call, X)
  BY DEF ReshapeAndCache
<1>4. stored' = [s \in Slots |->
                   IF s \in ToSet(call.slots) THEN SentTo(call, s) ELSE stored[s]]
  BY DEF ReshapeAndCache
<1>5. k \in Cells /\ v \in Cells
  BY <1>0 DEF TypeOK
<1>6. k' \in Cells /\ v' \in Cells
  BY <1>1, <1>2, <1>3, <1>5, IndexPutCells
<1>7. stored' \in [Slots -> SUBSET (Tokens \cup {Zero})]
  <2>1. ASSUME NEW s \in Slots PROVE SentTo(call, s) \subseteq Tokens
    <3>1. call.tokens \in Seq(Tokens) /\ call.slots \in Seq(Int)
      BY PagedCacheAssumption
    <3>2. DOMAIN call.tokens = DOMAIN call.slots
      BY <1>1, <3>1, LenProperties DEF Admissible
    <3>. QED BY <3>1, <3>2, ElementOfSeq, LenProperties DEF SentTo
  <2>. QED BY <2>1, <1>0, <1>4 DEF TypeOK
<1>8. writes' \in 0 .. MaxWrites
  BY <1>0, <1>1, PagedCacheAssumption DEF TypeOK
<1>9. TypeOK'
  BY <1>1, <1>6, <1>7, <1>8 DEF TypeOK
<1>10. ASSUME NEW p \in Pages, NEW o \in Offsets
       PROVE  k'[p][o] \in stored'[p * BlockSize + o] /\ v'[p][o] \in stored'[p * BlockSize + o]
  <2>. DEFINE s == p * BlockSize + o
  <2>1. s \in Slots
    BY SlotOfCell
  <2>2. k[p][o] \in stored[s] /\ v[p][o] \in stored[s]
    BY <1>0 DEF CellsHoldLastWrites
  <2>3. IF s \in ToSet(call.slots) THEN k'[p][o] \in SentTo(call, s) ELSE k'[p][o] = k[p][o]
    BY <1>1, <1>2, <1>5, IndexPutSends
  <2>4. IF s \in ToSet(call.slots) THEN v'[p][o] \in SentTo(call, s) ELSE v'[p][o] = v[p][o]
    BY <1>1, <1>3, <1>5, IndexPutSends
  <2>. HIDE DEF s
  <2>5. k'[p][o] \in stored'[s] /\ v'[p][o] \in stored'[s]
    BY <1>4, <2>1, <2>2, <2>3, <2>4
  <2>. QED BY <2>5 DEF s
<1>11. CellsHoldLastWrites'
  BY <1>10 DEF CellsHoldLastWrites
<1>12. AttendsToLastWrites'
  BY <1>1 DEF AttendsToLastWrites
<1>. QED BY <1>9, <1>11, <1>12 DEF PagedInv

\* A call that only reads, or is refused, leaves the cells alone.
LEMMA ReadStep ==
  ASSUME PagedInv, UNCHANGED <<k, v, stored, writes>>, "outcome" \in DOMAIN reply',
         AttendsToLastWrites'
  PROVE  PagedInv'
BY DEF PagedInv, TypeOK, CellsHoldLastWrites

LEMMA AttnStep ==
  ASSUME PagedInv, NEW call \in Reads, PagedAttn(call)
  PROVE  PagedInv'
<1>1. /\ Readable(call.tables, call.contexts)
      /\ reply' = [outcome |-> "attended", call |-> call,
                   seen |-> [b \in DOMAIN call.tables |->
                               Seen(call.tables[b], call.contexts[b])]]
      /\ UNCHANGED <<k, v, stored, writes>>
  BY DEF PagedAttn
<1>2. reply'.call = call /\ "outcome" \in DOMAIN reply'
      /\ \A b \in DOMAIN call.tables : reply'.seen[b] = Seen(call.tables[b], call.contexts[b])
  BY <1>1
<1>3. CellsHoldLastWrites
  BY DEF PagedInv
<1>4. ASSUME NEW b \in DOMAIN call.tables
      PROVE  LET table == call.tables[b]
                 slot(i) == table[(i \div BlockSize) + 1] * BlockSize + (i % BlockSize)
             IN /\ {row.at : row \in reply'.seen[b]} = 0 .. (call.contexts[b] - 1)
                /\ \A row \in reply'.seen[b] :
                     row.key \in stored[slot(row.at)] /\ row.val \in stored[slot(row.at)]
  BY <1>1, <1>2, <1>3, SeenIsStored
<1>5. AttendsToLastWrites'
  <2>1. reply'.call.tables = call.tables /\ reply'.call.contexts = call.contexts
    BY <1>2
  <2>2. stored' = stored
    BY <1>1
  <2>. QED BY <1>4, <2>1, <2>2 DEF AttendsToLastWrites
<1>. QED BY <1>1, <1>2, <1>5, ReadStep

LEMMA RefusedStep ==
  ASSUME PagedInv, NEW error, error # "attended", reply' = [outcome |-> error],
         UNCHANGED <<k, v, stored, writes>>
  PROVE  PagedInv'
<1>1. reply'.outcome # "attended" /\ "outcome" \in DOMAIN reply'
  OBVIOUS
<1>2. AttendsToLastWrites'
  BY <1>1 DEF AttendsToLastWrites
<1>. QED BY <1>1, <1>2, ReadStep

LEMMA PagedNext == PagedInv /\ [Next]_vars => PagedInv'
<1>. SUFFICES ASSUME PagedInv, [Next]_vars PROVE PagedInv'
  OBVIOUS
<1>1. ASSUME NEW call \in Writes, ReshapeAndCache(call) \/ WriteRefused(call)
      PROVE  PagedInv'
  BY <1>1, WriteStep, RefusedStep DEF WriteRefused
<1>2. ASSUME NEW call \in Reads, PagedAttn(call) PROVE PagedInv'
  BY <1>2, AttnStep
<1>3. ASSUME NEW call \in Reads, NEW causal \in BOOLEAN, PagedAttnRefused(call, causal)
      PROVE  PagedInv'
  <2>1. AttnError(call, causal) # "attended"
    BY DEF AttnError
  <2>. QED BY <1>3, <2>1, RefusedStep DEF PagedAttnRefused
<1>4. CASE UNCHANGED vars
  BY <1>4 DEF vars, PagedInv, TypeOK, CellsHoldLastWrites, AttendsToLastWrites
<1>. QED BY <1>1, <1>2, <1>3, <1>4 DEF Next

\* Cells hold what was last sent to their slots.
THEOREM CellsAreLastWrites == Spec => []PagedInv
<1>. QED BY PagedInit, PagedNext, PTL DEF Spec

\* The tensors keep their shapes.
THEOREM CacheTypes == Spec => []TypeOK
<1>1. PagedInv => TypeOK
  BY DEF PagedInv
<1>. QED BY <1>1, CellsAreLastWrites, PTL

\* Scattering by floor and remainder and gathering page by page address the
\* same cells, and attention sees exactly its context.
THEOREM AttentionSeesLastWrites == Spec => []AttendsToLastWrites
<1>1. PagedInv => AttendsToLastWrites
  BY DEF PagedInv
<1>. QED BY <1>1, CellsAreLastWrites, PTL

-----------------------------------------------------------------------------
(* The layout in pages implements numbered slots.                          *)

\* The cell of a slot.
LEMMA CellOfSlot ==
  ASSUME NEW s \in Slots
  PROVE  /\ s \div BlockSize \in Pages /\ s % BlockSize \in Offsets
         /\ s = (s \div BlockSize) * BlockSize + (s % BlockSize)
<1>. DEFINE p == s \div BlockSize
            o == s % BlockSize
<1>0. BlockSize \in Nat \ {0} /\ NumPages \in Nat /\ s \in Int /\ 0 <= s
  BY PagedCacheAssumption DEF Slots
<1>1. p \in Int /\ o \in 0 .. (BlockSize - 1) /\ s = BlockSize * p + o
      /\ BlockSize * p = p * BlockSize /\ BlockSize * p \in Int
  BY <1>0, DivMod, NextMultiple
<1>. HIDE DEF p, o
<1>2. s < BlockSize * NumPages /\ BlockSize * NumPages \in Int
  <2>1. NumPages * BlockSize = BlockSize * NumPages /\ NumPages * BlockSize \in Int
    BY <1>0
  <2>. QED BY <2>1, <1>0 DEF Slots
<1>3. 0 <= p
  <2>1. ASSUME p + 1 <= 0 PROVE FALSE
    <3>1. BlockSize * (p + 1) <= BlockSize * 0 /\ BlockSize * (p + 1) = BlockSize * p + BlockSize
      BY <1>0, <1>1, <2>1, TimesIsMonotone, NextMultiple
    <3>. QED BY <3>1, <1>0, <1>1
  <2>. QED BY <2>1, <1>1
<1>4. p < NumPages
  <2>1. ASSUME NumPages <= p PROVE FALSE
    <3>1. BlockSize * NumPages <= BlockSize * p
      BY <1>0, <1>1, <2>1, TimesIsMonotone
    <3>. QED BY <3>1, <1>0, <1>1, <1>2
  <2>. QED BY <2>1, <1>0, <1>1
<1>5. p \in Pages /\ o \in Offsets /\ s = p * BlockSize + o
  BY <1>0, <1>1, <1>3, <1>4 DEF Pages, Offsets
<1>. QED BY <1>5 DEF p, o

\* A cell is found at its slot.
LEMMA FlatCell ==
  ASSUME NEW cells, NEW p \in Pages, NEW o \in Offsets
  PROVE  Flat(cells)[p * BlockSize + o] = cells[p][o]
<1>1. p * BlockSize + o \in Slots /\ p * BlockSize + o \in Int
  BY SlotOfCell DEF Slots
<1>2. (p * BlockSize + o) \div BlockSize = p /\ (p * BlockSize + o) % BlockSize = o
  BY <1>1, SlotOfCell
<1>. QED BY <1>1, <1>2 DEF Flat

\* Scattering a call into the cells writes its slots and no others.
LEMMA PutIsWritten ==
  ASSUME NEW call \in Writes, Admissible(call), NEW W \in Kept(call), NEW cells \in Cells
  PROVE  Store!Written(Flat(cells), call, Flat(IndexPut(cells, call, W)))
<1>. DEFINE new == IndexPut(cells, call, W)
<1>1. new \in Cells
  BY IndexPutCells
<1>2. ASSUME NEW s \in Slots
      PROVE  /\ Flat(new)[s] \in Tokens \cup {Zero}
             /\ IF s \in ToSet(call.slots) THEN Flat(new)[s] \in SentTo(call, s)
                                           ELSE Flat(new)[s] = Flat(cells)[s]
  <2>. DEFINE p == s \div BlockSize
              o == s % BlockSize
  <2>1. p \in Pages /\ o \in Offsets /\ s = p * BlockSize + o
    BY CellOfSlot
  <2>2. Flat(new)[s] = new[p][o] /\ Flat(cells)[s] = cells[p][o]
    BY DEF Flat
  <2>. HIDE DEF p, o, new
  <2>3. IF s \in ToSet(call.slots) THEN new[p][o] \in SentTo(call, s) ELSE new[p][o] = cells[p][o]
    BY <2>1, IndexPutSends DEF new
  <2>4. new[p][o] \in Tokens \cup {Zero}
    BY <1>1, <2>1 DEF Cells
  <2>. QED BY <2>2, <2>3, <2>4
<1>3. Flat(new) \in [Slots -> Tokens \cup {Zero}]
  BY <1>2 DEF Flat
<1>. HIDE DEF new
<1>4. Store!Range(call.slots) = ToSet(call.slots) /\ Store!Slots = Slots
  BY DEF Store!Range, ToSet, Store!Slots, Slots
<1>. QED BY <1>2, <1>3, <1>4 DEF Store!Written, SentTo, new

\* The checks of a write are that every token has a slot.
LEMMA AdmissibleIsStorable ==
  ASSUME NEW call \in Writes
  PROVE  Admissible(call) <=> Store!Storable(call)
BY DEF Admissible, Store!Storable, Store!Range, Store!Slots, Slots

\* The first position of an active page is in the context.
LEMMA FirstOfPage ==
  ASSUME NEW d \in Nat \ {0}, NEW c \in Nat, NEW j \in 1 .. ((c + d - 1) \div d)
  PROVE  d * (j - 1) \in 0 .. (c - 1) /\ (d * (j - 1)) \div d = j - 1 /\ j \in Int
<1>. DEFINE n == c + d - 1
            pages == n \div d
            r == n % d
            i == d * (j - 1)
<1>1. n \in Int
  OBVIOUS
<1>2. pages \in Int /\ r \in 0 .. (d - 1) /\ n = d * pages + r /\ d * pages \in Int
  BY <1>1, DivMod, NextMultiple
<1>3. j \in Int /\ j - 1 \in Int /\ 1 <= j /\ j <= pages
  BY <1>2
<1>. HIDE DEF pages, r
<1>4. d * 0 <= i /\ i \in Int
  BY <1>3, TimesIsMonotone DEF i
<1>5. d * j <= d * pages /\ d * j \in Int
  BY <1>2, <1>3, TimesIsMonotone
<1>6. d * ((j - 1) + 1) = i + d /\ i = (j - 1) * d
  BY <1>3, NextMultiple
<1>7. (j - 1) + 1 = j /\ d * 0 = 0
  BY <1>3
<1>8. i \div d = j - 1
  <2>1. i = (j - 1) * d + 0 /\ 0 \in 0 .. (d - 1)
    BY <1>4, <1>6
  <2>. QED BY <2>1, <1>3, <1>4, OneCell
<1>. HIDE DEF i
<1>9. i \in 0 .. (c - 1)
  BY <1>2, <1>4, <1>5, <1>6, <1>7
<1>. QED BY <1>3, <1>8, <1>9 DEF i

\* A position of one of the first pages lies before the end of them.
LEMMA WithinPages ==
  ASSUME NEW d \in Nat \ {0}, NEW i \in Int, NEW pages \in Nat, (i \div d) + 1 \in 1 .. pages
  PROVE  i < d * pages /\ d * pages = pages * d
<1>. DEFINE q == i \div d
            r == i % d
<1>1. q \in Int /\ r \in 0 .. (d - 1) /\ i = d * q + r
  BY DivMod
<1>2. q + 1 <= pages
  BY <1>1
<1>. HIDE DEF q, r
<1>3. d * (q + 1) <= d * pages /\ d * pages \in Int
  BY <1>1, <1>2, TimesIsMonotone
<1>4. d * (q + 1) = d * q + d /\ d * q \in Int
  BY <1>1, NextMultiple
<1>5. d * pages = pages * d
  BY NextMultiple
<1>. QED BY <1>1, <1>3, <1>4, <1>5

\* The checks of a gather, which count active pages, are that every position of
\* every context has a slot.
LEMMA ReadableIsLegible ==
  ASSUME NEW call \in Reads
  PROVE  Readable(call.tables, call.contexts) <=> Store!Legible(call)
<1>0. /\ call.tables \in Seq(Seq(Int)) /\ call.contexts \in Seq(Int)
      /\ BlockSize \in Nat \ {0} /\ NumPages \in Nat
  BY PagedCacheAssumption
<1>1. ASSUME NEW b \in DOMAIN call.tables, b \in DOMAIN call.contexts
      PROVE  /\ call.tables[b] \in Seq(Int) /\ Len(call.tables[b]) \in Nat
             /\ DOMAIN call.tables[b] = 1 .. Len(call.tables[b])
             /\ call.contexts[b] \in Int
             /\ Len(call.tables[b]) * BlockSize \in Int
  <2>1. call.tables[b] \in Seq(Int) /\ call.contexts[b] \in Int
    BY <1>0, <1>1, ElementOfSeq, LenProperties
  <2>2. Len(call.tables[b]) \in Nat /\ DOMAIN call.tables[b] = 1 .. Len(call.tables[b])
    BY <2>1, LenProperties
  <2>. QED BY <1>0, <2>1, <2>2
<1>2. Len(call.contexts) = Len(call.tables) => DOMAIN call.contexts = DOMAIN call.tables
  BY <1>0, LenProperties
<1>3. ASSUME NEW b \in DOMAIN call.tables, b \in DOMAIN call.contexts
      PROVE  LET table == call.tables[b]
                 context == call.contexts[b]
             IN /\ context \in 0 .. Len(table) * BlockSize
                /\ \A j \in 1 .. ActivePages(context) : table[j] \in Pages
                <=> /\ context >= 0
                    /\ \A i \in 0 .. (context - 1) : Store!HasSlot(table, i)
  <2>. DEFINE table == call.tables[b]
              context == call.contexts[b]
              A == ActivePages(context)
  <2>0. /\ table \in Seq(Int) /\ Len(table) \in Nat /\ DOMAIN table = 1 .. Len(table)
        /\ context \in Int /\ Len(table) * BlockSize \in Int
    BY <1>1, <1>3
  <2>. HIDE DEF table, context
  <2>1. ASSUME context \in 0 .. Len(table) * BlockSize,
               \A j \in 1 .. A : table[j] \in Pages,
               NEW i \in 0 .. (context - 1)
        PROVE  Store!HasSlot(table, i)
    <3>. DEFINE q == i \div BlockSize
    <3>1. q \in 0 .. (A - 1) /\ A \in 0 .. Len(table)
      BY <2>0, <2>1, PageOfPosition
    <3>2. table[q + 1] \in Pages /\ q + 1 \in DOMAIN table
      <4>. HIDE DEF A, q
      <4>1. q + 1 \in 1 .. A /\ q + 1 \in 1 .. Len(table)
        BY <3>1, <2>0
      <4>. QED BY <4>1, <2>0, <2>1
    <3>. QED BY <3>2 DEF Store!HasSlot, Pages
  <2>2. ASSUME context >= 0, \A i \in 0 .. (context - 1) : Store!HasSlot(table, i)
        PROVE  context <= Len(table) * BlockSize
    <3>1. CASE context = 0
      <4>1. Len(table) * BlockSize = BlockSize * Len(table) /\ BlockSize * 0 <= BlockSize * Len(table)
            /\ BlockSize * 0 = 0
        BY <1>0, <2>0, TimesIsMonotone
      <4>. QED BY <3>1, <4>1
    <3>2. CASE context > 0
      <4>. DEFINE i == context - 1
      <4>1. i \in 0 .. (context - 1) /\ i \in Int
        BY <3>2, <2>0
      <4>2. Store!HasSlot(table, i)
        BY <4>1, <2>2
      <4>3. (i \div BlockSize) + 1 \in 1 .. Len(table)
        BY <4>2, <2>0 DEF Store!HasSlot
      <4>. HIDE DEF i
      <4>4. i < BlockSize * Len(table) /\ BlockSize * Len(table) = Len(table) * BlockSize
        BY <4>1, <4>3, <1>0, <2>0, WithinPages
      <4>. QED BY <4>1, <4>4, <2>0 DEF i
    <3>. QED BY <3>1, <3>2, <2>0, <2>2
  <2>3. ASSUME context >= 0, \A i \in 0 .. (context - 1) : Store!HasSlot(table, i),
               NEW j \in 1 .. A
        PROVE  table[j] \in Pages
    <3>. DEFINE i == BlockSize * (j - 1)
    <3>1. j \in 1 .. ((context + BlockSize - 1) \div BlockSize) /\ context \in Nat
      BY <2>0, <2>3 DEF ActivePages
    <3>2. i \in 0 .. (context - 1) /\ i \div BlockSize = j - 1 /\ j \in Int
      BY <3>1, <1>0, FirstOfPage
    <3>3. Store!HasSlot(table, i)
      BY <3>2, <2>3
    <3>. HIDE DEF i
    <3>4. (j - 1) + 1 = j
      BY <3>2
    <3>. QED BY <3>2, <3>3, <3>4 DEF Store!HasSlot, Pages
  <2>. HIDE DEF A
  <2>. QED BY <2>0, <2>1, <2>2, <2>3 DEF table, context, A
<1>. QED BY <1>2, <1>3 DEF Readable, Store!Legible

\* Gathering page by page reads slot by slot.
LEMMA SeenIsLookedUp ==
  ASSUME NEW call \in Reads, Readable(call.tables, call.contexts), NEW b \in DOMAIN call.tables
  PROVE  Seen(call.tables[b], call.contexts[b])
           = {Store!Lookup(call.tables[b], i) : i \in 0 .. (call.contexts[b] - 1)}
<1>. DEFINE table == call.tables[b]
            context == call.contexts[b]
            row(i) == [at |-> i, key |-> GatheredRow(k, table, context)[i],
                       val |-> GatheredRow(v, table, context)[i]]
<1>1. table \in Seq(Int) /\ Len(table) \in Nat
  <2>1. call.tables \in Seq(Seq(Int))
    BY PagedCacheAssumption
  <2>. QED BY <2>1, ElementOfSeq, LenProperties
<1>2. /\ context \in Nat /\ context <= Len(table) * BlockSize
      /\ \A j \in 1 .. ActivePages(context) : table[j] \in Pages
      /\ Len(table) * BlockSize \in Int
  <2>1. context \in 0 .. Len(table) * BlockSize
    BY DEF Readable
  <2>2. Len(table) * BlockSize \in Int
    BY <1>1, PagedCacheAssumption
  <2>. QED BY <2>1, <2>2 DEF Readable
<1>3. Visible(table, context) = 0 .. (context - 1)
  BY <1>2 DEF Visible
<1>4. Seen(table, context) = {row(i) : i \in 0 .. (context - 1)}
  BY <1>3 DEF Seen
<1>5. ASSUME NEW i \in 0 .. (context - 1)
      PROVE  row(i) = Store!Lookup(table, i)
  <2>. DEFINE page == table[(i \div BlockSize) + 1]
              o == i % BlockSize
  <2>1. ASSUME NEW cells
        PROVE  page \in Pages /\ o \in Offsets /\ GatheredRow(cells, table, context)[i] = cells[page][o]
    <3>. HIDE DEF table, context
    <3>. QED BY <1>1, <1>2, GatheredFrom
  <2>. HIDE DEF page, o, table, context
  <2>2. /\ GatheredRow(k, table, context)[i] = Flat(k)[page * BlockSize + o]
        /\ GatheredRow(v, table, context)[i] = Flat(v)[page * BlockSize + o]
    BY <2>1, FlatCell
  <2>3. Store!SlotAt(table, i) = page * BlockSize + o
    BY DEF Store!SlotAt, page, o
  <2>. QED BY <2>2, <2>3 DEF Store!Lookup
<1>. HIDE DEF row, table, context
<1>6. Seen(table, context) = {Store!Lookup(table, i) : i \in 0 .. (context - 1)}
  BY <1>4, <1>5
<1>. QED BY <1>6 DEF table, context

\* Every call does to the slots what a slot store may.
LEMMA SlotStep == TypeOK /\ [Next]_vars => [Store!Next]_Store!vars
<1>. SUFFICES ASSUME TypeOK, [Next]_vars PROVE [Store!Next]_Store!vars
  OBVIOUS
<1>1. ASSUME k' = k, v' = v PROVE Flat(k)' = Flat(k) /\ Flat(v)' = Flat(v)
  BY <1>1 DEF Flat
<1>2. ASSUME NEW call \in Writes, ReshapeAndCache(call) PROVE Store!Store(call)
  <2>1. Admissible(call) /\ reply' = [outcome |-> "stored"] /\ k \in Cells /\ v \in Cells
    BY <1>2 DEF ReshapeAndCache, TypeOK
  <2>2. PICK W \in Kept(call) : k' = IndexPut(k, call, W)
    BY <1>2 DEF ReshapeAndCache
  <2>3. PICK X \in Kept(call) : v' = IndexPut(v, call, X)
    BY <1>2 DEF ReshapeAndCache
  <2>4. Flat(k)' = Flat(IndexPut(k, call, W)) /\ Flat(v)' = Flat(IndexPut(v, call, X))
    BY <2>2, <2>3 DEF Flat
  <2>5. Store!Written(Flat(k), call, Flat(k)') /\ Store!Written(Flat(v), call, Flat(v)')
    BY <2>1, <2>4, PutIsWritten
  <2>. QED BY <2>1, <2>5, AdmissibleIsStorable DEF Store!Store
<1>3. ASSUME NEW call \in Writes, WriteRefused(call)
      PROVE  ~Store!Storable(call) /\ Store!Refuse("ValueError")
  BY <1>3, <1>1, AdmissibleIsStorable DEF WriteRefused, Store!Refuse
<1>4. ASSUME NEW call \in Reads, PagedAttn(call) PROVE Store!Attend(call)
  <2>1. /\ Readable(call.tables, call.contexts) /\ k' = k /\ v' = v
        /\ reply' = [outcome |-> "attended", call |-> call,
                     seen |-> [b \in DOMAIN call.tables |->
                                 Seen(call.tables[b], call.contexts[b])]]
    BY <1>4 DEF PagedAttn
  <2>2. [b \in DOMAIN call.tables |-> Seen(call.tables[b], call.contexts[b])]
          = [b \in DOMAIN call.tables |->
               {Store!Lookup(call.tables[b], i) : i \in 0 .. (call.contexts[b] - 1)}]
    BY <2>1, SeenIsLookedUp
  <2>. QED BY <2>1, <2>2, <1>1, ReadableIsLegible DEF Store!Attend
<1>5. ASSUME NEW call \in Reads, NEW causal \in BOOLEAN, PagedAttnRefused(call, causal)
      PROVE  \/ ~Store!Legible(call) /\ Store!Refuse("ValueError")
             \/ Store!Refuse("NotImplementedError")
  <2>1. Store!Refuse(AttnError(call, causal))
    BY <1>5, <1>1 DEF PagedAttnRefused, Store!Refuse
  <2>. QED BY <2>1, <1>5, ReadableIsLegible DEF PagedAttnRefused, AttnError
<1>6. CASE UNCHANGED vars
  BY <1>6, <1>1 DEF vars, Store!vars
<1>. QED BY <1>2, <1>3, <1>4, <1>5, <1>6 DEF Next, Store!Next

LEMMA SlotInit == Init => Store!Init
<1>. SUFFICES ASSUME Init PROVE Store!Init
  OBVIOUS
<1>1. ASSUME NEW s \in Slots PROVE Flat(k)[s] = Zero /\ Flat(v)[s] = Zero
  BY CellOfSlot DEF Init, Flat
<1>2. Flat(k) = Store!Empty /\ Flat(v) = Store!Empty
  BY <1>1 DEF Flat, Store!Empty, Store!Slots, Slots
<1>. QED BY <1>2 DEF Init, Store!Init

\* The cache implements numbered slots, for any number and size of pages: what
\* a slot was given it holds, whatever else is written, refused or read.
THEOREM PagesLayOutSlots == Spec => ImplementsSlotStore
<1>. QED BY SlotInit, SlotStep, CacheTypes, PTL DEF Spec, ImplementsSlotStore, Store!Spec
=============================================================================
