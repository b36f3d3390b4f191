-------------------------- MODULE PagedServingProofs --------------------------
(***************************************************************************)
(* That a request attends to what its own regime computed, for any runs,   *)
(* bundles, number and size of pages and length of requests.  From the     *)
(* cache comes that a page that is written whole holds what was written,   *)
(* and that gathering whole pages reads their cells; from the table that   *)
(* no two addresses share a page.                                          *)
(***************************************************************************)
EXTENDS PagedServing, SequenceTheorems, TLAPS

\* What is proved of the cache, at this instance of it.
Proved == INSTANCE PagedCacheProofs WITH
  NumPages <- NumBlocks, Tokens <- Rows,
  Writes <- {PageWrite(p, a) : p \in Pages, a \in Addresses},
  Reads <- {PageRead(s) : s \in SeqOf(Pages, MaxRequest)}

Offsets == 0 .. (BlockSize - 1)

-----------------------------------------------------------------------------
(* Whole pages of the cache.                                               *)

LEMMA PageSlots ==
  ASSUME NEW p \in Pages, NEW a \in Addresses
  PROVE  /\ SlotsOf(p) \in Seq(Int) /\ RowsOf(a) \in Seq(Rows)
         /\ Len(SlotsOf(p)) = BlockSize /\ Len(RowsOf(a)) = BlockSize
         /\ DOMAIN SlotsOf(p) = 1 .. BlockSize
         /\ \A i \in 1 .. BlockSize : /\ SlotsOf(p)[i] = p * BlockSize + (i - 1)
                                      /\ RowsOf(a)[i] = [of |-> a, at |-> i - 1]
<1>1. BlockSize \in Nat /\ p \in Int /\ p * BlockSize \in Int
  BY PagedServingAssumption DEF Pages
<1>2. SlotsOf(p) \in [1 .. BlockSize -> Int] /\ RowsOf(a) \in [1 .. BlockSize -> Rows]
  BY <1>1 DEF SlotsOf, RowsOf, Rows
<1>3. SlotsOf(p) \in Seq(Int) /\ RowsOf(a) \in Seq(Rows)
  BY <1>1, <1>2, SeqDef
<1>4. \A i \in 1 .. BlockSize : /\ SlotsOf(p)[i] = p * BlockSize + (i - 1)
                                /\ RowsOf(a)[i] = [of |-> a, at |-> i - 1]
  BY <1>1 DEF SlotsOf, RowsOf
<1>. QED BY <1>1, <1>2, <1>3, <1>4, LenProperties

\* Cells of different pages or offsets have different slots.
LEMMA OneCell ==
  ASSUME NEW p \in Pages, NEW o \in Offsets
  PROVE  /\ p * BlockSize + o \in Int
         /\ \A s \in Int : (s \div BlockSize = p /\ s % BlockSize = o)
                             <=> s = p * BlockSize + o
         /\ \A q \in Pages, r \in Offsets :
              p * BlockSize + o = q * BlockSize + r <=> p = q /\ o = r
<1>1. ASSUME NEW q \in Pages, NEW r \in Offsets, NEW s \in Int
      PROVE  (s \div BlockSize = q /\ s % BlockSize = r) <=> s = q * BlockSize + r
  <2>1. BlockSize \in Nat \ {0} /\ q \in Int /\ r \in 0 .. (BlockSize - 1)
    BY PagedServingAssumption DEF Pages, Offsets
  <2>. QED BY <2>1, Proved!OneCell
<1>2. p * BlockSize + o \in Int
  BY PagedServingAssumption DEF Pages, Offsets
<1>. QED BY <1>1, <1>2

\* A page that is written whole holds the rows of its address; no other page
\* is touched.
LEMMA PageWritten ==
  ASSUME NEW p \in Pages, NEW a \in Addresses, NEW cells,
         NEW W \in Cache!Kept(PageWrite(p, a)), NEW q \in Pages, NEW o \in Offsets
  PROVE  Cache!IndexPut(cells, PageWrite(p, a), W)[q][o]
           = IF q = p THEN [of |-> a, at |-> o] ELSE cells[q][o]
<1>. DEFINE call == PageWrite(p, a)
            Goes(i) == Cache!GoesTo(call, i, q, o)
            got == Cache!IndexPut(cells, call, W)[q][o]
<1>1. call.slots = SlotsOf(p) /\ call.tokens = RowsOf(a) /\ BlockSize \in Nat
      /\ DOMAIN SlotsOf(p) = 1 .. BlockSize
  BY PagedServingAssumption, PageSlots DEF PageWrite
<1>2. p * BlockSize \in Int
  BY <1>1 DEF Pages
<1>3. ASSUME NEW i \in 1 .. BlockSize, NEW r \in Offsets, r = i - 1
      PROVE  /\ SlotsOf(p)[i] = p * BlockSize + r /\ SlotsOf(p)[i] \in Int
             /\ RowsOf(a)[i] = [of |-> a, at |-> r]
             /\ Goes(i) <=> q = p /\ o = r
  <2>1. SlotsOf(p)[i] = p * BlockSize + r /\ RowsOf(a)[i] = [of |-> a, at |-> r]
    BY <1>3, PageSlots
  <2>2. SlotsOf(p)[i] \in Int
    BY <2>1, OneCell
  <2>3. Goes(i) <=> SlotsOf(p)[i] = q * BlockSize + o
    <3>1. PICK s \in Int : s = SlotsOf(p)[i]
      BY <2>2
    <3>2. Goes(i) <=> s \div BlockSize = q /\ s % BlockSize = o
      BY <1>1, <3>1 DEF Cache!GoesTo
    <3>3. s \div BlockSize = q /\ s % BlockSize = o <=> s = q * BlockSize + o
      BY OneCell
    <3>. QED BY <3>1, <3>2, <3>3
  <2>4. p * BlockSize + r = q * BlockSize + o <=> p = q /\ r = o
    BY OneCell
  <2>. QED BY <2>1, <2>2, <2>3, <2>4
<1>off. ASSUME NEW i \in 1 .. BlockSize
        PROVE  i - 1 \in Offsets
  BY <1>1 DEF Offsets
<1>4. W \subseteq 1 .. BlockSize /\ \A i \in 1 .. BlockSize : i \in W
  <2>1. /\ W \subseteq 1 .. BlockSize
        /\ \A i \in 1 .. BlockSize : \E j \in W : SlotsOf(p)[j] = SlotsOf(p)[i]
    BY <1>1 DEF Cache!Kept
  <2>2. ASSUME NEW i \in 1 .. BlockSize, NEW j \in 1 .. BlockSize,
               SlotsOf(p)[j] = SlotsOf(p)[i]
        PROVE  i = j
    <3>1. SlotsOf(p)[i] = p * BlockSize + (i - 1) /\ SlotsOf(p)[j] = p * BlockSize + (j - 1)
      BY <1>3, <1>off
    <3>. QED BY <1>1, <1>2, <2>2, <3>1
  <2>. QED BY <2>1, <2>2
<1>5. got = IF \E i \in W : Goes(i) THEN call.tokens[CHOOSE i \in W : Goes(i)]
            ELSE cells[q][o]
  BY DEF Cache!IndexPut, Cache!Pages, Cache!Offsets, Pages, Offsets
<1>. HIDE DEF call, Goes, got
<1>6. CASE q = p
  <2>1. o + 1 \in 1 .. BlockSize /\ o = (o + 1) - 1
    BY <1>1 DEF Offsets
  <2>2. \E i \in W : Goes(i)
    BY <1>3, <1>4, <1>6, <2>1
  <2>3. PICK i \in W : Goes(i) /\ got = call.tokens[i]
    BY <1>5, <2>2
  <2>4. RowsOf(a)[i] = [of |-> a, at |-> o]
    BY <1>3, <1>4, <1>off, <2>3
  <2>5. got = [of |-> a, at |-> o]
    BY <1>1, <2>3, <2>4
  <2>. QED BY <1>6, <2>5 DEF got, call
<1>7. CASE q # p
  <2>1. ~\E i \in W : Goes(i)
    BY <1>3, <1>4, <1>off, <1>7
  <2>. QED BY <1>5, <1>7, <2>1 DEF got, call
<1>. QED BY <1>6, <1>7 DEF got, call

\* Gathering whole pages reads, at each position, its offset in its page.
LEMMA PageGathered ==
  ASSUME NEW pages \in Seq(Pages), NEW i \in 0 .. (Len(pages) * BlockSize - 1), NEW cells
  PROVE  LET n == (i \div BlockSize) + 1
             o == i % BlockSize
         IN /\ n \in 1 .. Len(pages) /\ pages[n] \in Pages /\ o \in Offsets
            /\ Cache!GatheredRow(cells, pages, Len(pages) * BlockSize)[i] = cells[pages[n]][o]
<1>. DEFINE L == Len(pages)
            B == BlockSize
            q == i \div B
            o == i % B
            C(j) == Cache!Contributes(j, L * B, i)
<1>1. L \in Nat /\ B \in Nat \ {0} /\ L * B \in Int /\ B * L = L * B
      /\ \A j \in 1 .. L : pages[j] \in Pages
  BY PagedServingAssumption, LenProperties, ElementOfSeq
<1>2. i \in Int /\ 0 <= i /\ i < L * B
  BY <1>1
<1>3. q \in Int /\ o \in 0 .. (B - 1) /\ i = B * q + o /\ B * q \in Int
  BY <1>1, <1>2, Proved!DivMod, Proved!NextMultiple
<1>4. Cache!ActivePages(L * B) = L
  <2>1. L * B + (B - 1) \in Int /\ B - 1 \in 0 .. (B - 1)
        /\ L * B + B - 1 = L * B + (B - 1)
    BY <1>1
  <2>2. (L * B + (B - 1)) \div B = L
    BY <1>1, <2>1, Proved!OneCell
  <2>. QED BY <2>1, <2>2 DEF Cache!ActivePages
<1>. HIDE DEF L, q, o
<1>5. ASSUME NEW j \in 0 .. (L - 1)
      PROVE  /\ Cache!Start(j) = B * j /\ B * j \in Int
             /\ C(j) <=> B * j <= i /\ i < B * j + B
  <2>1. j + 1 <= L /\ j \in Int
    BY <1>1
  <2>2. B * (j + 1) <= B * L /\ B * (j + 1) = B * j + B /\ B * j = j * B /\ B * j \in Int
    BY <1>1, <2>1, Proved!TimesIsMonotone, Proved!NextMultiple
  <2>3. Cache!Start(j) = B * j
    BY <2>2 DEF Cache!Start
  <2>4. Cache!End(j, L * B) = B * j + B
    BY <1>1, <2>2, <2>3 DEF Cache!End
  <2>. QED BY <2>2, <2>3, <2>4 DEF Cache!Contributes
<1>6. 0 <= q
  <2>1. ASSUME q <= -1 PROVE FALSE
    <3>1. B * q <= B * (-1) /\ B * (-1) = -B
      BY <1>1, <1>3, <2>1, Proved!TimesIsMonotone
    <3>. QED BY <1>1, <1>2, <1>3, <3>1
  <2>. QED BY <1>3, <2>1
<1>7. q <= L - 1
  <2>1. ASSUME L <= q PROVE FALSE
    <3>1. B * L <= B * q
      BY <1>1, <1>3, <2>1, Proved!TimesIsMonotone
    <3>. QED BY <1>1, <1>2, <1>3, <3>1
  <2>. QED BY <1>1, <1>3, <2>1
<1>8. q \in 0 .. (L - 1)
  BY <1>1, <1>3, <1>6, <1>7
<1>9. \A j \in 0 .. (L - 1) : C(j) <=> j = q
  <2>1. ASSUME NEW j \in 0 .. (L - 1), C(j) PROVE j = q
    <3>1. B * j <= i /\ i < B * j + B /\ B * q <= i /\ i < B * q + B
      BY <1>1, <1>3, <1>5, <2>1
    <3>. QED BY <1>1, <1>2, <1>3, <3>1, Proved!OneInterval
  <2>2. C(q)
    BY <1>1, <1>3, <1>5, <1>8
  <2>. QED BY <2>1, <2>2
<1>. HIDE DEF C
<1>10. (\E j \in 0 .. (L - 1) : C(j)) /\ (CHOOSE j \in 0 .. (L - 1) : C(j)) = q
  BY <1>8, <1>9
<1>11. Cache!GatheredRow(cells, pages, L * B)[i] = cells[pages[q + 1]][i - Cache!Start(q)]
  BY <1>1, <1>2, <1>4, <1>10 DEF Cache!GatheredRow, C, L
<1>12. i - Cache!Start(q) = o /\ q + 1 \in 1 .. L /\ o \in Offsets
  BY <1>1, <1>2, <1>3, <1>5, <1>8 DEF Offsets
<1>. QED BY <1>1, <1>11, <1>12 DEF L, q, o

\* What a page will hold.
WillHold(p, a) ==
  \A o \in Offsets : k'[p][o] = [of |-> a, at |-> o] /\ v'[p][o] = [of |-> a, at |-> o]

\* A page that was written whole holds its address, the others what they held.
LEMMA WriteHolds ==
  ASSUME NEW p \in Pages, NEW a \in Addresses, Cache!ReshapeAndCache(PageWrite(p, a)),
         k \in Cache!Cells, v \in Cache!Cells
  PROVE  /\ WillHold(p, a) /\ k' \in Cache!Cells /\ v' \in Cache!Cells
         /\ \A q \in Pages, b \in Addresses : q # p /\ Holds(q, b) => WillHold(q, b)
<1>. DEFINE put(cells, q, o) == IF q = p THEN [of |-> a, at |-> o] ELSE cells[q][o]
<1>1. PICK W \in Cache!Kept(PageWrite(p, a)) : k' = Cache!IndexPut(k, PageWrite(p, a), W)
  BY DEF Cache!ReshapeAndCache
<1>2. PICK X \in Cache!Kept(PageWrite(p, a)) : v' = Cache!IndexPut(v, PageWrite(p, a), X)
  BY DEF Cache!ReshapeAndCache
<1>3. ASSUME NEW q \in Pages, NEW o \in Offsets
      PROVE  k'[q][o] = put(k, q, o) /\ v'[q][o] = put(v, q, o)
  BY <1>1, <1>2, PageWritten
<1>4. Cache!Pages = Pages /\ Cache!Offsets = Offsets
  BY DEF Cache!Pages, Pages, Cache!Offsets, Offsets
<1>5. ASSUME NEW q \in Pages, NEW o \in Offsets
      PROVE  k'[q][o] \in Rows \cup {Zero} /\ v'[q][o] \in Rows \cup {Zero}
  <2>1. [of |-> a, at |-> o] \in Rows
    BY DEF Rows, Offsets
  <2>2. k[q][o] \in Rows \cup {Zero} /\ v[q][o] \in Rows \cup {Zero}
    BY <1>4 DEF Cache!Cells
  <2>. QED BY <1>3, <2>1, <2>2
<1>6. /\ k' = [q \in Pages |-> [o \in Offsets |-> k'[q][o]]]
      /\ v' = [q \in Pages |-> [o \in Offsets |-> v'[q][o]]]
  BY <1>1, <1>2, <1>4 DEF Cache!IndexPut
<1>7. k' \in Cache!Cells /\ v' \in Cache!Cells
  BY <1>4, <1>5, <1>6 DEF Cache!Cells
<1>8. WillHold(p, a)
  BY <1>3 DEF WillHold
<1>9. ASSUME NEW q \in Pages, NEW b \in Addresses, q # p, Holds(q, b)
      PROVE  WillHold(q, b)
  BY <1>3, <1>9 DEF WillHold, Holds, Offsets
<1>. QED BY <1>7, <1>8, <1>9

-----------------------------------------------------------------------------
(* The invariant.                                                          *)

OnePageEach == \A a, b \in DOMAIN held : held[a] = held[b] => a = b

AddressOf(n) == [tokens |-> request.runs[n], bundle |-> request.bundle]

Requests == [open : {TRUE}, bundle : Bundles, runs : Seq(Runs), pages : Seq(Pages),
             missed : BOOLEAN]

\* Prepared pages hold what they were written for, unless the table gave them to
\* another address and they were filled for that one.
PreparedOK == \A p \in DOMAIN prepared \ lost : Holds(p, prepared[p])

\* The page that waits for its write is bound to the address it waits for.
MissingOK ==
  missing # Nothing =>
    request.open /\ missing[2] \in DOMAIN held /\ missing[1] = held[missing[2]]

\* The page found for one run of the request is bound to the other.
BoundToRun(n, m) ==
  AddressOf(m) \in DOMAIN held /\ held[AddressOf(m)] = request.pages[n]

\* Every page a request found is still bound to one of its own runs; to another
\* than the one it was found for only if the request displaced it itself.
StillOwn(n) ==
  \E m \in 1 .. Len(request.runs) :
    BoundToRun(n, m) /\ (request.pages[n] \notin evicted => m = n)

RequestOK ==
  /\ request = NoRequest \/ request \in Requests
  /\ request.open => \A n \in 1 .. Len(request.pages) : StillOwn(n)

ServeInv ==
  /\ TypeOK /\ OnePageEach /\ PreparedOK /\ MissingOK /\ RequestOK
  /\ BoundPagesHoldTheirRows

\* Address a is bound, if at all, where it was or to p, from which it drives
\* out whoever was there; the others stay where they were.
Rebinds(a, p) ==
  /\ held' \in UNION {[D -> Pages] : D \in SUBSET Addresses}
  /\ OnePageEach'
  /\ \A x \in DOMAIN held' : x # a => x \in DOMAIN held /\ held'[x] = held[x]
  /\ \A x \in DOMAIN held : held[x] # p => x \in DOMAIN held' /\ held'[x] = held[x]
  /\ a \in DOMAIN held' => held'[a] = p \/ (a \in DOMAIN held /\ held'[a] = held[a])

LEMMA NextHolds ==
  /\ (\A a \in DOMAIN held' : held'[a] \notin torn' => WillHold(held'[a], a))
       => BoundPagesHoldTheirRows'
  /\ (\A p \in DOMAIN prepared' \ lost' : WillHold(p, prepared'[p])) => PreparedOK'
BY DEF BoundPagesHoldTheirRows, PreparedOK, Holds, WillHold, Offsets

LEMMA StillHolds ==
  ASSUME k' = k, v' = v, NEW p, NEW a, Holds(p, a)
  PROVE  WillHold(p, a)
BY DEF Holds, WillHold, Offsets

-----------------------------------------------------------------------------
(* What the table does.                                                    *)

LEMMA HeldFacts ==
  ASSUME TypeOK
  PROVE  DOMAIN held \subseteq Addresses /\ \A x \in DOMAIN held : held[x] \in Pages
BY DEF TypeOK

LEMMA HeldStays ==
  ASSUME TypeOK, OnePageEach, held' = held, NEW a, NEW p
  PROVE  Rebinds(a, p)
BY DEF Rebinds, OnePageEach, TypeOK

LEMMA PlaceRebinds ==
  ASSUME TypeOK, OnePageEach, NEW a \in Addresses, NEW p \in Pages, Table!Place(a, p)
  PROVE  Rebinds(a, p) /\ a \in DOMAIN held' /\ held'[a] = p
<1>1. /\ a \notin DOMAIN held /\ \A x \in DOMAIN held : held[x] # p
      /\ held' = [x \in DOMAIN held \cup {a} |-> IF x = a THEN p ELSE held[x]]
  BY DEF Table!Place, Table!Held, Table!Used
<1>2. held' \in [DOMAIN held \cup {a} -> Pages] /\ DOMAIN held \cup {a} \in SUBSET Addresses
  BY <1>1, HeldFacts
<1>. QED BY <1>1, <1>2 DEF Rebinds, OnePageEach

LEMMA DisplaceRebinds ==
  ASSUME TypeOK, OnePageEach, NEW a \in Addresses, NEW victim, Table!Displace(a, victim)
  PROVE  /\ victim \in DOMAIN held /\ held[victim] \in Pages
         /\ Rebinds(a, held[victim]) /\ a \in DOMAIN held' /\ held'[a] = held[victim]
<1>1. /\ a \notin DOMAIN held /\ victim \in DOMAIN held
      /\ held' = [x \in (DOMAIN held \ {victim}) \cup {a} |->
                    IF x = a THEN held[victim] ELSE held[x]]
  BY DEF Table!Displace, Table!Held
<1>2. /\ held' \in [(DOMAIN held \ {victim}) \cup {a} -> Pages]
      /\ (DOMAIN held \ {victim}) \cup {a} \in SUBSET Addresses
  BY <1>1, HeldFacts
<1>3. DOMAIN held' = (DOMAIN held \ {victim}) \cup {a} /\ held[victim] \in Pages
  BY <1>1, HeldFacts
<1>. QED BY <1>1, <1>2, <1>3 DEF Rebinds, OnePageEach

LEMMA AdmitNumberedRebinds ==
  ASSUME TypeOK, OnePageEach, NEW a \in Addresses, NEW p \in Pages, AdmitNumbered(a, p)
  PROVE  Rebinds(a, p)
<1>1. CASE Table!AlreadyHeld(a)
  BY <1>1, HeldStays DEF Table!AlreadyHeld
<1>2. CASE Table!Place(a, p)
  BY <1>2, PlaceRebinds
<1>3. ASSUME NEW victim, held[victim] = p, Table!Displace(a, victim)
      PROVE  Rebinds(a, p)
  BY <1>3, DisplaceRebinds
<1>4. CASE Table!Refuse("admit", "CrossRegimeError")
  BY <1>4, HeldStays DEF Table!Refuse
<1>. QED BY <1>1, <1>2, <1>3, <1>4 DEF AdmitNumbered

\* An admission that mends or tears the page it takes keeps what the others
\* hold.
LEMMA BoundAfterRebinding ==
  ASSUME ServeInv, NEW a \in Addresses, NEW p \in Pages, Rebinds(a, p), k' = k, v' = v,
         torn \ {p} \subseteq torn', Holds(p, a) \/ p \in torn',
         p \in torn /\ p \notin torn' => a \in DOMAIN held' /\ held'[a] = p
  PROVE  BoundPagesHoldTheirRows'
<1>. SUFFICES ASSUME NEW x \in DOMAIN held', held'[x] \notin torn'
              PROVE  Holds(held'[x], x)
  BY StillHolds, NextHolds
<1>3. /\ OnePageEach' /\ BoundPagesHoldTheirRows
      /\ x # a => x \in DOMAIN held /\ held'[x] = held[x]
      /\ x = a => held'[x] = p \/ (x \in DOMAIN held /\ held'[x] = held[x])
  BY DEF Rebinds, ServeInv
<1>4. CASE held'[x] = p
  <2>1. CASE x = a
    BY <1>4, <2>1
  <2>2. CASE x # a
    <3>1. p \notin torn
      BY <1>3, <1>4, <2>2 DEF OnePageEach
    <3>. QED BY <1>3, <1>4, <2>2, <3>1 DEF BoundPagesHoldTheirRows
  <2>. QED BY <2>1, <2>2
<1>5. CASE held'[x] # p
  <2>1. x \in DOMAIN held /\ held'[x] = held[x] /\ held[x] \notin torn
    BY <1>3, <1>5
  <2>. QED BY <1>3, <2>1 DEF BoundPagesHoldTheirRows
<1>. QED BY <1>4, <1>5

-----------------------------------------------------------------------------
(* The steps.                                                              *)

LEMMA ServeInit == Init => ServeInv
<1>. SUFFICES ASSUME Init PROVE ServeInv
  OBVIOUS
<1>1. /\ held = [a \in {} |-> 0] /\ prepared = [p \in {} |-> 0] /\ missing = Nothing
      /\ request = NoRequest /\ torn = {} /\ lost = {} /\ evicted = {}
  BY DEF Init, Table!Init, NoPages
<1>2. DOMAIN held = {} /\ DOMAIN prepared = {} /\ ~request.open
  BY <1>1 DEF NoRequest
<1>3. k \in Cache!Cells /\ v \in Cache!Cells
  BY DEF Init, Cache!Init, Cache!Cells
<1>4. TypeOK
  <2>1. held \in [{} -> Pages] /\ prepared \in [{} -> Addresses]
    BY <1>1
  <2>. QED BY <1>1, <1>2, <1>3, <2>1 DEF TypeOK
<1>. QED BY <1>1, <1>2, <1>4 DEF ServeInv, OnePageEach, PreparedOK, MissingOK, RequestOK,
                               BoundPagesHoldTheirRows

LEMMA PrepareStep ==
  ASSUME ServeInv, NEW p \in Pages, NEW a \in Addresses, Prepare(p, a)
  PROVE  ServeInv'
<1>1. /\ ~request.open /\ missing = Nothing /\ Cache!ReshapeAndCache(PageWrite(p, a))
      /\ prepared' = [q \in DOMAIN prepared \cup {p} |-> IF q = p THEN a ELSE prepared[q]]
      /\ torn' = IF p \in Table!Used THEN torn \cup {p} ELSE torn
      /\ lost' = lost \ {p}
      /\ held' = held /\ missing' = missing /\ request' = request /\ evicted' = evicted
  BY DEF Prepare, Idle, tableVars
<1>2. TypeOK /\ OnePageEach /\ PreparedOK /\ RequestOK
      /\ BoundPagesHoldTheirRows
  BY DEF ServeInv
<1>3. /\ WillHold(p, a) /\ k' \in Cache!Cells /\ v' \in Cache!Cells
      /\ \A q \in Pages, b \in Addresses : q # p /\ Holds(q, b) => WillHold(q, b)
  BY <1>1, <1>2, WriteHolds DEF TypeOK
<1>4. DOMAIN prepared \subseteq Pages /\ \A q \in DOMAIN prepared : prepared[q] \in Addresses
  BY <1>2 DEF TypeOK
<1>5. TypeOK'
  <2>1. prepared' \in [DOMAIN prepared \cup {p} -> Addresses] /\ DOMAIN prepared \cup {p} \in SUBSET Pages
    BY <1>1, <1>4
  <2>2. torn' \subseteq Pages /\ lost' \subseteq Pages
    BY <1>1, <1>2 DEF TypeOK
  <2>. QED BY <1>1, <1>2, <1>3, <2>1, <2>2 DEF TypeOK
<1>6. PreparedOK'
  <2>1. ASSUME NEW q \in DOMAIN prepared' \ lost' PROVE WillHold(q, prepared'[q])
    <3>1. CASE q = p
      BY <1>1, <1>3, <3>1
    <3>2. CASE q # p
      <4>1. q \in DOMAIN prepared \ lost /\ prepared'[q] = prepared[q]
        BY <1>1, <3>2
      <4>. QED BY <1>2, <1>3, <1>4, <3>2, <4>1 DEF PreparedOK
    <3>. QED BY <3>1, <3>2
  <2>. QED BY <2>1, NextHolds
<1>7. BoundPagesHoldTheirRows'
  <2>1. ASSUME NEW x \in DOMAIN held, held[x] \notin torn' PROVE WillHold(held[x], x)
    <3>1. held[x] # p /\ held[x] \notin torn
      BY <1>1, <2>1 DEF Table!Used, Table!Held
    <3>. QED BY <1>2, <1>3, <3>1, HeldFacts DEF BoundPagesHoldTheirRows
  <2>. QED BY <1>1, <2>1, NextHolds
<1>8. OnePageEach' /\ MissingOK' /\ RequestOK'
  BY <1>1, <1>2 DEF OnePageEach, MissingOK, RequestOK
<1>. QED BY <1>5, <1>6, <1>7, <1>8 DEF ServeInv

LEMMA AdmitPreparedStep ==
  ASSUME ServeInv, NEW p \in Pages, AdmitPrepared(p)
  PROVE  ServeInv'
<1>. DEFINE a == prepared[p]
<1>1. /\ ~request.open /\ missing = Nothing /\ p \in DOMAIN prepared /\ AdmitNumbered(a, p)
      /\ prepared' = [q \in DOMAIN prepared \ {p} |-> prepared[q]]
      /\ torn' = TornBy(p, a) /\ lost' = lost \ {p}
      /\ k' = k /\ v' = v /\ missing' = missing /\ request' = request /\ evicted' = evicted
  BY DEF AdmitPrepared, NoLongerPrepared, Idle, cacheVars
<1>2. TypeOK /\ OnePageEach /\ PreparedOK /\ RequestOK
      /\ BoundPagesHoldTheirRows
  BY DEF ServeInv
<1>3. /\ DOMAIN prepared \subseteq Pages /\ \A q \in DOMAIN prepared : prepared[q] \in Addresses
      /\ a \in Addresses
  BY <1>1, <1>2 DEF TypeOK
<1>. HIDE DEF a
<1>4. Rebinds(a, p)
  BY <1>1, <1>2, <1>3, AdmitNumberedRebinds
<1>5. TypeOK'
  <2>1. prepared' \in [DOMAIN prepared \ {p} -> Addresses] /\ DOMAIN prepared \ {p} \in SUBSET Pages
    BY <1>1, <1>3
  <2>2. torn' \subseteq Pages /\ lost' \subseteq Pages
    BY <1>1, <1>2 DEF TypeOK, TornBy
  <2>3. held' \in UNION {[D -> Pages] : D \in SUBSET Addresses}
    BY <1>4 DEF Rebinds
  <2>. QED BY <1>1, <1>2, <2>1, <2>2, <2>3 DEF TypeOK
<1>6. PreparedOK'
  BY <1>1, <1>2 DEF PreparedOK, Holds
<1>7. BoundPagesHoldTheirRows'
  <2>1. Holds(p, a) \/ p \in lost
    BY <1>1, <1>2 DEF PreparedOK, a
  <2>2. CASE a \in DOMAIN held' /\ held'[a] = p
    <3>1. torn' = (torn \ {p}) \cup (lost \cap {p})
      BY <1>1, <2>2 DEF TornBy
    <3>. QED BY <1>1, <1>3, <1>4, <2>1, <2>2, <3>1, BoundAfterRebinding
  <2>3. CASE ~ (a \in DOMAIN held' /\ held'[a] = p)
    <3>1. torn' = torn
      BY <1>1, <2>3 DEF TornBy
    <3>2. ASSUME NEW x \in DOMAIN held', held'[x] \notin torn'
          PROVE  WillHold(held'[x], x)
      <4>1. x \in DOMAIN held /\ held'[x] = held[x]
        BY <1>4, <2>3 DEF Rebinds
      <4>. QED BY <1>1, <1>2, <3>1, <3>2, <4>1, StillHolds DEF BoundPagesHoldTheirRows
    <3>. QED BY <3>2, NextHolds
  <2>. QED BY <2>2, <2>3
<1>8. OnePageEach' /\ MissingOK' /\ RequestOK'
  BY <1>1, <1>2, <1>4 DEF Rebinds, MissingOK, RequestOK
<1>. QED BY <1>5, <1>6, <1>7, <1>8 DEF ServeInv

\* An open request knows its fields; a closed one is NoRequest.
LEMMA RequestFacts ==
  ASSUME RequestOK, request.open
  PROVE  /\ request.bundle \in Bundles /\ request.runs \in Seq(Runs)
         /\ request.pages \in Seq(Pages) /\ request.missed \in BOOLEAN
         /\ request \in Requests
<1>1. NoRequest.open = FALSE
  BY DEF NoRequest
<1>2. request \in Requests
  BY <1>1 DEF RequestOK
<1>3. request.missed \in BOOLEAN
  BY <1>2 DEF Requests
<1>. QED BY <1>2, <1>3 DEF Requests

\* What stays when only the request changes.
LEMMA RestStays ==
  ASSUME ServeInv, held' = held, k' = k, v' = v, prepared' = prepared, torn' = torn,
         lost' = lost, evicted' \subseteq Pages
  PROVE  /\ OnePageEach' /\ BoundPagesHoldTheirRows' /\ PreparedOK'
         /\ (request'.open => Len(request'.pages) <= Len(request'.runs)) => TypeOK'
<1>1. OnePageEach'
  BY DEF ServeInv, OnePageEach
<1>2. BoundPagesHoldTheirRows' /\ PreparedOK'
  BY DEF ServeInv, BoundPagesHoldTheirRows, PreparedOK, Holds
<1>3. (request'.open => Len(request'.pages) <= Len(request'.runs)) => TypeOK'
  BY DEF ServeInv, TypeOK
<1>. QED BY <1>1, <1>2, <1>3

LEMMA AskStep ==
  ASSUME ServeInv, NEW bundle \in Bundles, NEW runs \in Seq(Runs), Ask(bundle, runs)
  PROVE  ServeInv'
<1>1. /\ missing = Nothing /\ evicted' = {}
      /\ request' = [open |-> TRUE, bundle |-> bundle, runs |-> runs,
                     pages |-> << >>, missed |-> FALSE]
      /\ held' = held /\ k' = k /\ v' = v /\ prepared' = prepared /\ missing' = missing
      /\ torn' = torn /\ lost' = lost
  BY DEF Ask, Idle, tableVars, cacheVars
<1>2. request'.pages = << >> /\ request'.runs = runs
  BY <1>1
<1>3. Len(runs) \in Nat /\ << >> \in Seq(Pages) /\ Len(<< >>) = 0
  BY LenProperties, EmptySeq
<1>4. TypeOK' /\ OnePageEach' /\ BoundPagesHoldTheirRows' /\ PreparedOK'
  BY <1>1, <1>2, <1>3, RestStays
<1>5. MissingOK'
  BY <1>1 DEF MissingOK
<1>6. RequestOK'
  <2>1. request' \in Requests
    BY <1>1, <1>3 DEF Requests
  <2>2. 1 .. Len(request'.pages) = {}
    BY <1>2, <1>3
  <2>. QED BY <2>1, <2>2 DEF RequestOK
<1>. QED BY <1>4, <1>5, <1>6 DEF ServeInv

\* The next page a request finds, by lookup or by admission: it is bound to the
\* run it was wanted for, and those found before still to runs of the request.
LEMMA PageFound ==
  ASSUME RequestOK, request.open, Len(request.pages) < Len(request.runs),
         NEW p \in Pages, request'.open, request'.pages = Append(request.pages, p),
         request'.runs = request.runs, request'.bundle = request.bundle,
         Wanted \in DOMAIN held', held'[Wanted] = p,
         \A n \in 1 .. Len(request.pages) : \E m \in 1 .. Len(request.runs) :
           /\ AddressOf(m) \in DOMAIN held' /\ held'[AddressOf(m)] = request.pages[n]
           /\ request.pages[n] \notin evicted' => m = n
  PROVE  /\ Len(request'.pages) <= Len(request'.runs) /\ request'.pages \in Seq(Pages)
         /\ \A n \in 1 .. Len(request'.pages) : StillOwn(n)'
<1>1. /\ request.pages \in Seq(Pages) /\ Len(request.pages) \in Nat
      /\ Len(request.runs) \in Nat
  BY RequestFacts, LenProperties
<1>2. /\ request'.pages \in Seq(Pages) /\ Len(request'.pages) = Len(request.pages) + 1
      /\ \A n \in 1 .. Len(request.pages) : request'.pages[n] = request.pages[n]
      /\ request'.pages[Len(request.pages) + 1] = p
  BY <1>1, AppendProperties
<1>3. ASSUME NEW n \in 1 .. Len(request'.pages), NEW m \in 1 .. Len(request.runs),
             AddressOf(m) \in DOMAIN held', held'[AddressOf(m)] = request'.pages[n],
             request'.pages[n] \notin evicted' => m = n
      PROVE  StillOwn(n)'
  <2>1. AddressOf(m)' = AddressOf(m)
    BY DEF AddressOf
  <2>2. BoundToRun(n, m)'
    BY <1>3, <2>1 DEF BoundToRun
  <2>. QED BY <1>3, <2>2 DEF StillOwn
<1>4. ASSUME NEW n \in 1 .. Len(request'.pages)
      PROVE  StillOwn(n)'
  <2>1. CASE n \in 1 .. Len(request.pages)
    <3>1. request'.pages[n] = request.pages[n]
      BY <1>2, <2>1
    <3>2. PICK m \in 1 .. Len(request.runs) :
            /\ AddressOf(m) \in DOMAIN held' /\ held'[AddressOf(m)] = request.pages[n]
            /\ request.pages[n] \notin evicted' => m = n
      BY <2>1
    <3>. QED BY <1>3, <3>1, <3>2
  <2>2. CASE n = Len(request.pages) + 1
    <3>1. AddressOf(n) = Wanted /\ n \in 1 .. Len(request.runs) /\ request'.pages[n] = p
      BY <1>1, <1>2, <2>2 DEF AddressOf, Wanted
    <3>2. AddressOf(n) \in DOMAIN held' /\ held'[AddressOf(n)] = request'.pages[n]
      BY <3>1
    <3>. QED BY <1>3, <3>1, <3>2
  <2>. QED BY <1>1, <1>2, <2>1, <2>2
<1>. QED BY <1>1, <1>2, <1>4

LEMMA WantedAddress ==
  ASSUME RequestOK, request.open, Len(request.pages) < Len(request.runs)
  PROVE  Wanted \in Addresses
<1>1. /\ request.runs \in Seq(Runs) /\ request.bundle \in Bundles
      /\ Len(request.pages) \in Nat /\ Len(request.runs) \in Nat
  BY RequestFacts, LenProperties
<1>2. request.runs[Len(request.pages) + 1] \in Runs
  BY <1>1, ElementOfSeq
<1>. QED BY <1>1, <1>2 DEF Wanted, Addresses

LEMMA LookupHitsStep ==
  ASSUME ServeInv, LookupHits
  PROVE  ServeInv'
<1>1. /\ request.open /\ missing = Nothing /\ Len(request.pages) < Len(request.runs)
      /\ Wanted \in DOMAIN held
      /\ request' = [request EXCEPT !.pages = Append(@, held[Wanted])]
      /\ held' = held /\ k' = k /\ v' = v /\ prepared' = prepared /\ missing' = missing
      /\ torn' = torn /\ lost' = lost /\ evicted' = evicted
  BY DEF LookupHits, NotePage, Looking, Table!Hit, Table!Held, Table!Reply, cacheVars
<1>2. TypeOK /\ PreparedOK /\ MissingOK /\ RequestOK
  BY DEF ServeInv
<1>3. held[Wanted] \in Pages /\ request \in Requests
  BY <1>1, <1>2, HeldFacts, RequestFacts
<1>4. /\ request'.open /\ request'.pages = Append(request.pages, held[Wanted])
      /\ request'.runs = request.runs /\ request'.bundle = request.bundle
      /\ request'.missed = request.missed
  BY <1>1, <1>3 DEF Requests
<1>5. \A n \in 1 .. Len(request.pages) : \E m \in 1 .. Len(request.runs) :
        /\ AddressOf(m) \in DOMAIN held' /\ held'[AddressOf(m)] = request.pages[n]
        /\ request.pages[n] \notin evicted' => m = n
  BY <1>1, <1>2 DEF RequestOK, StillOwn, BoundToRun
<1>6. /\ Len(request'.pages) <= Len(request'.runs) /\ request'.pages \in Seq(Pages)
      /\ \A n \in 1 .. Len(request'.pages) : StillOwn(n)'
  BY <1>1, <1>2, <1>3, <1>4, <1>5, PageFound
<1>7. request' \in Requests
  BY <1>1, <1>3, <1>6 DEF Requests
<1>8. RequestOK'
  BY <1>6, <1>7 DEF RequestOK
<1>9. TypeOK' /\ OnePageEach' /\ BoundPagesHoldTheirRows' /\ PreparedOK'
  <2>1. evicted' \subseteq Pages
    BY <1>1, <1>2 DEF TypeOK
  <2>. QED BY <1>1, <1>6, <2>1, RestStays
<1>10. MissingOK'
  BY <1>1 DEF MissingOK
<1>. QED BY <1>8, <1>9, <1>10 DEF ServeInv

LEMMA LookupMissesStep ==
  ASSUME ServeInv, LookupMisses
  PROVE  ServeInv'
<1>1. /\ request.open /\ missing = Nothing /\ request' = [request EXCEPT !.missed = TRUE]
      /\ held' = held /\ k' = k /\ v' = v /\ prepared' = prepared /\ missing' = missing
      /\ torn' = torn /\ lost' = lost /\ evicted' = evicted
  BY DEF LookupMisses, NoteMiss, Looking, Table!MissCrossRegime, Table!MissCold, cacheVars
<1>2. TypeOK /\ PreparedOK /\ RequestOK /\ request \in Requests
  BY <1>1, RequestFacts DEF ServeInv
<1>3. /\ request' \in Requests /\ request'.open /\ request'.pages = request.pages
      /\ request'.runs = request.runs /\ request'.bundle = request.bundle
  BY <1>1, <1>2 DEF Requests
<1>4. RequestOK'
  <2>1. \A n : AddressOf(n)' = AddressOf(n)
    BY <1>3 DEF AddressOf
  <2>. QED BY <1>1, <1>2, <1>3, <2>1 DEF RequestOK, StillOwn, BoundToRun
<1>5. TypeOK' /\ OnePageEach' /\ BoundPagesHoldTheirRows' /\ PreparedOK'
  <2>1. Len(request'.pages) <= Len(request'.runs) /\ evicted' \subseteq Pages
    BY <1>1, <1>2, <1>3 DEF TypeOK
  <2>. QED BY <1>1, <2>1, RestStays
<1>6. MissingOK'
  BY <1>1 DEF MissingOK
<1>. QED BY <1>4, <1>5, <1>6 DEF ServeInv

\* The admission takes the page it answers with.
LEMMA AdmitMissedTakes ==
  ASSUME TypeOK, OnePageEach, Wanted \in Addresses, AdmitAutomatically(Wanted)
  PROVE  /\ answer'.physical \in Pages /\ Rebinds(Wanted, answer'.physical)
         /\ Wanted \in DOMAIN held' /\ held'[Wanted] = answer'.physical
<1>1. ASSUME NEW p \in Pages, Table!Place(Wanted, p)
      PROVE  /\ answer'.physical = p /\ Rebinds(Wanted, p)
             /\ Wanted \in DOMAIN held' /\ held'[Wanted] = p
  <2>1. answer'.physical = p
    BY <1>1 DEF Table!Place, Table!Reply
  <2>. QED BY <1>1, <2>1, PlaceRebinds
<1>2. ASSUME NEW victim, Table!Displace(Wanted, victim)
      PROVE  /\ answer'.physical = held[victim] /\ held[victim] \in Pages
             /\ Rebinds(Wanted, held[victim])
             /\ Wanted \in DOMAIN held' /\ held'[Wanted] = held[victim]
  <2>1. answer'.physical = held[victim]
    BY <1>2 DEF Table!Displace, Table!Reply
  <2>. QED BY <1>2, <2>1, DisplaceRebinds
<1>. QED BY <1>1, <1>2 DEF AdmitAutomatically

LEMMA AdmitMissedStep ==
  ASSUME ServeInv, AdmitMissed
  PROVE  ServeInv'
<1>. DEFINE p == answer'.physical
<1>1. /\ request.open /\ missing = Nothing /\ Len(request.pages) < Len(request.runs)
      /\ missing' = <<p, Wanted>> /\ torn' = torn \cup {p}
      /\ request' = [request EXCEPT !.pages = Append(@, p), !.missed = FALSE]
      /\ evicted' = evicted \cup ({p} \cap ToSet(request.pages))
      /\ k' = k /\ v' = v /\ prepared' = prepared /\ lost' = lost
  BY DEF AdmitMissed, NotePageToFill, Looking, cacheVars
<1>2. TypeOK /\ OnePageEach /\ PreparedOK /\ RequestOK
  BY DEF ServeInv
<1>3. Wanted \in Addresses /\ request \in Requests
  BY <1>1, <1>2, WantedAddress, RequestFacts
<1>4. p \in Pages /\ Rebinds(Wanted, p) /\ Wanted \in DOMAIN held' /\ held'[Wanted] = p
  BY <1>2, <1>3, AdmitMissedTakes DEF AdmitMissed
<1>. HIDE DEF p
<1>5. /\ request'.open /\ request'.pages = Append(request.pages, p)
      /\ request'.runs = request.runs /\ request'.bundle = request.bundle
      /\ request'.missed = FALSE
  BY <1>1, <1>3, <1>4 DEF Requests
<1>6. ASSUME NEW n \in 1 .. Len(request.pages)
      PROVE  \E m \in 1 .. Len(request.runs) :
               /\ AddressOf(m) \in DOMAIN held' /\ held'[AddressOf(m)] = request.pages[n]
               /\ request.pages[n] \notin evicted' => m = n
  <2>1. /\ request.pages \in Seq(Pages) /\ Len(request.pages) \in Nat
        /\ Len(request.runs) \in Nat
    BY <1>1, <1>2, RequestFacts, LenProperties
  <2>2. CASE request.pages[n] = p
    <3>1. p \in ToSet(request.pages)
      BY <2>1, <2>2, LenProperties DEF ToSet
    <3>2. AddressOf(Len(request.pages) + 1) = Wanted
      BY DEF AddressOf, Wanted
    <3>3. Len(request.pages) + 1 \in 1 .. Len(request.runs) /\ p \in evicted'
      BY <1>1, <2>1, <3>1
    <3>. QED BY <1>4, <2>2, <3>2, <3>3
  <2>3. CASE request.pages[n] # p
    <3>1. PICK m \in 1 .. Len(request.runs) :
            BoundToRun(n, m) /\ (request.pages[n] \notin evicted => m = n)
      BY <1>1, <1>2 DEF RequestOK, StillOwn
    <3>2. AddressOf(m) \in DOMAIN held' /\ held'[AddressOf(m)] = request.pages[n]
      BY <1>4, <2>3, <3>1 DEF Rebinds, BoundToRun
    <3>. QED BY <1>1, <3>1, <3>2
  <2>. QED BY <2>2, <2>3
<1>7. /\ Len(request'.pages) <= Len(request'.runs) /\ request'.pages \in Seq(Pages)
      /\ \A n \in 1 .. Len(request'.pages) : StillOwn(n)'
  BY <1>1, <1>2, <1>4, <1>5, <1>6, PageFound
<1>8. RequestOK'
  <2>1. request' \in Requests
    BY <1>1, <1>3, <1>7 DEF Requests
  <2>. QED BY <1>7, <2>1 DEF RequestOK
<1>9. TypeOK'
  <2>1. held' \in UNION {[D -> Pages] : D \in SUBSET Addresses}
    BY <1>4 DEF Rebinds
  <2>. QED BY <1>1, <1>2, <1>4, <1>7, <2>1 DEF TypeOK
<1>10. BoundPagesHoldTheirRows'
  BY <1>1, <1>3, <1>4, BoundAfterRebinding
<1>11. OnePageEach' /\ PreparedOK' /\ MissingOK'
  <2>1. PreparedOK'
    BY <1>1, <1>2 DEF PreparedOK, Holds
  <2>2. missing'[1] = held'[Wanted] /\ missing'[2] = Wanted
    BY <1>1, <1>4
  <2>3. MissingOK'
    BY <1>4, <1>5, <2>2 DEF MissingOK
  <2>. QED BY <1>4, <2>1, <2>3 DEF Rebinds
<1>. QED BY <1>8, <1>9, <1>10, <1>11 DEF ServeInv

LEMMA FillStep ==
  ASSUME ServeInv, Fill
  PROVE  ServeInv'
<1>. DEFINE p == missing[1]
            a == missing[2]
<1>1. /\ missing # Nothing /\ Cache!ReshapeAndCache(PageWrite(p, a)) /\ missing' = Nothing
      /\ torn' = torn \ {p} /\ held' = held /\ prepared' = prepared
      /\ lost' = IF p \in DOMAIN prepared /\ prepared[p] # a THEN lost \cup {p} ELSE lost \ {p}
      /\ request' = request /\ evicted' = evicted
  BY DEF Fill, tableVars
<1>2. TypeOK /\ OnePageEach /\ PreparedOK /\ MissingOK /\ RequestOK /\ BoundPagesHoldTheirRows
  BY DEF ServeInv
<1>3. request.open /\ a \in DOMAIN held /\ p = held[a]
  BY <1>1, <1>2 DEF MissingOK
<1>4. p \in Pages /\ a \in Addresses
      /\ DOMAIN prepared \subseteq Pages /\ \A q \in DOMAIN prepared : prepared[q] \in Addresses
  BY <1>2, <1>3, HeldFacts DEF TypeOK
<1>. HIDE DEF p, a
<1>5. /\ WillHold(p, a) /\ k' \in Cache!Cells /\ v' \in Cache!Cells
      /\ \A q \in Pages, b \in Addresses : q # p /\ Holds(q, b) => WillHold(q, b)
  BY <1>1, <1>2, <1>4, WriteHolds DEF TypeOK
<1>6. BoundPagesHoldTheirRows'
  <2>1. ASSUME NEW x \in DOMAIN held, held[x] \notin torn' PROVE WillHold(held[x], x)
    <3>1. CASE held[x] = p
      BY <1>2, <1>3, <1>5, <3>1 DEF OnePageEach
    <3>2. CASE held[x] # p
      BY <1>1, <1>2, <1>5, <2>1, <3>2, HeldFacts DEF BoundPagesHoldTheirRows
    <3>. QED BY <3>1, <3>2
  <2>. QED BY <1>1, <2>1, NextHolds
<1>7. PreparedOK'
  <2>1. ASSUME NEW q \in DOMAIN prepared' \ lost' PROVE WillHold(q, prepared'[q])
    <3>1. CASE q = p
      BY <1>1, <1>5, <2>1, <3>1
    <3>2. CASE q # p
      <4>1. q \in DOMAIN prepared \ lost
        BY <1>1, <2>1, <3>2
      <4>. QED BY <1>1, <1>2, <1>4, <1>5, <3>2, <4>1 DEF PreparedOK
    <3>. QED BY <3>1, <3>2
  <2>. QED BY <2>1, NextHolds
<1>8. TypeOK'
  <2>1. torn' \subseteq Pages /\ lost' \subseteq Pages
    BY <1>1, <1>2, <1>4 DEF TypeOK
  <2>. QED BY <1>1, <1>2, <1>5, <2>1 DEF TypeOK
<1>9. OnePageEach' /\ MissingOK' /\ RequestOK'
  BY <1>1, <1>2 DEF OnePageEach, MissingOK, RequestOK, StillOwn, BoundToRun, AddressOf
<1>. QED BY <1>6, <1>7, <1>8, <1>9 DEF ServeInv

\* A request that ends, by attending, by a write that fails or by leaving a run
\* that missed alone.
LEMMA RequestEnds ==
  ASSUME ServeInv, held' = held, k' = k, v' = v, prepared' = prepared, torn' = torn,
         lost' = lost, evicted' = {}, missing' = Nothing, request' = NoRequest
  PROVE  ServeInv'
<1>1. ~request'.open
  BY DEF NoRequest
<1>2. TypeOK' /\ OnePageEach' /\ BoundPagesHoldTheirRows' /\ PreparedOK'
  BY <1>1, RestStays
<1>3. MissingOK' /\ RequestOK'
  BY <1>1 DEF MissingOK, RequestOK
<1>. QED BY <1>2, <1>3 DEF ServeInv

LEMMA FillFailsStep ==
  ASSUME ServeInv, FillFails
  PROVE  ServeInv'
BY RequestEnds DEF FillFails, tableVars, cacheVars

LEMMA GiveUpStep ==
  ASSUME ServeInv, GiveUp
  PROVE  ServeInv'
BY RequestEnds DEF GiveUp, Looking, tableVars, cacheVars

LEMMA AttendStep ==
  ASSUME ServeInv, Attend
  PROVE  ServeInv'
BY RequestEnds DEF Attend, tableVars, Cache!PagedAttn

LEMMA ServeStutters ==
  ASSUME ServeInv, UNCHANGED vars
  PROVE  ServeInv'
<1>1. /\ held' = held /\ k' = k /\ v' = v /\ prepared' = prepared /\ torn' = torn
      /\ missing' = missing /\ request' = request /\ evicted' = evicted /\ lost' = lost
  BY DEF vars, tableVars, cacheVars, callerVars
<1>2. TypeOK' /\ OnePageEach' /\ BoundPagesHoldTheirRows' /\ PreparedOK'
  BY <1>1, RestStays DEF ServeInv, TypeOK
<1>3. MissingOK' /\ RequestOK'
  BY <1>1 DEF ServeInv, MissingOK, RequestOK, StillOwn, BoundToRun, AddressOf
<1>. QED BY <1>2, <1>3 DEF ServeInv

LEMMA ServeStep ==
  ASSUME ServeInv, [Next]_vars
  PROVE  ServeInv'
<1>1. ASSUME NEW p \in Pages, AdmitPrepared(p) PROVE ServeInv'
  BY <1>1, AdmitPreparedStep
<1>2. ASSUME NEW p \in Pages, NEW a \in Addresses, Prepare(p, a) PROVE ServeInv'
  BY <1>2, PrepareStep
<1>3. ASSUME NEW bundle \in Bundles, NEW runs \in SeqOf(Runs, MaxRequest), Ask(bundle, runs)
      PROVE  ServeInv'
  <2>1. runs \in Seq(Runs)
    <3>1. PICK n \in 0 .. MaxRequest : runs \in [1 .. n -> Runs]
      BY DEF SeqOf
    <3>. QED BY <3>1, PagedServingAssumption, SeqDef
  <2>. QED BY <1>3, <2>1, AskStep
<1>4. CASE LookupHits
  BY <1>4, LookupHitsStep
<1>5. CASE LookupMisses
  BY <1>5, LookupMissesStep
<1>6. CASE AdmitMissed
  BY <1>6, AdmitMissedStep
<1>7. CASE Fill
  BY <1>7, FillStep
<1>8. CASE FillFails
  BY <1>8, FillFailsStep
<1>9. CASE Attend
  BY <1>9, AttendStep
<1>10. CASE GiveUp
  BY <1>10, GiveUpStep
<1>11. CASE UNCHANGED vars
  BY <1>11, ServeStutters
<1>. QED BY <1>1, <1>2, <1>3, <1>4, <1>5, <1>6, <1>7, <1>8, <1>9, <1>10, <1>11 DEF Next

-----------------------------------------------------------------------------
(* The theorems.                                                           *)

\* Table, cache and caller stay in step: bound pages hold their rows, prepared
\* pages what they were written for, and the pages of a request are bound to runs
\* it asked for.
THEOREM ServingHolds == Spec => []ServeInv
<1>1. Init => ServeInv
  BY ServeInit
<1>2. ServeInv /\ [Next]_vars => ServeInv'
  BY ServeStep
<1>. QED BY <1>1, <1>2, PTL DEF Spec

\* Tensors, table and requests keep their shapes under any calls.
THEOREM ServingTypes == Spec => []TypeOK
<1>1. ServeInv => TypeOK
  BY DEF ServeInv
<1>. QED BY <1>1, ServingHolds, PTL

\* A bound page holds the rows of the run and regime it is bound to, unless it
\* is torn: written while bound, or bound and not written.
THEOREM BoundPagesAreTheirs == Spec => []BoundPagesHoldTheirRows
<1>1. ServeInv => BoundPagesHoldTheirRows
  BY DEF ServeInv
<1>. QED BY <1>1, ServingHolds, PTL

\* Attention under a bundle sees rows computed under that bundle for tokens the
\* request asked for, each page for the run it was found for, whatever was admitted
\* and written between the lookups and the gather; only a page that the request
\* itself displaced is read for the run it displaced it for.
THEOREM AttentionIsUnderOwnRegime == Spec => AttendsUnderOwnRegime
<1>. DEFINE Own(row, m) ==
              [of |-> [tokens |-> request.runs[m], bundle |-> request.bundle],
               at |-> row.at % BlockSize]
            Right(row) ==
              LET n == (row.at \div BlockSize) + 1
              IN request.pages[n] \notin torn =>
                   \E m \in 1 .. Len(request.runs) :
                     /\ row.key = Own(row, m) /\ row.val = Own(row, m)
                     /\ request.pages[n] \notin evicted => m = n
<1>1. ASSUME ServeInv, [Next]_vars, request.open, ~request'.open, missing = Nothing,
             Len(request.pages) = Len(request.runs)
      PROVE  \A row \in reply'.seen[1] : Right(row)
  <2>1. Attend
    <3>1. request \in Requests /\ ~ Looking
      <4>1. request.pages \in Seq(Pages) /\ Len(request.pages) \in Nat
        BY <1>1, RequestFacts, LenProperties DEF ServeInv
      <4>. QED BY <1>1, <4>1, RequestFacts DEF ServeInv, Looking
    <3>2. ~LookupHits /\ ~LookupMisses /\ ~AdmitMissed /\ ~GiveUp
      BY <3>1 DEF LookupHits, LookupMisses, AdmitMissed, GiveUp
    <3>3. /\ \A p \in Pages : ~AdmitPrepared(p) /\ \A a \in Addresses : ~Prepare(p, a)
          /\ \A bundle, runs : ~Ask(bundle, runs)
          /\ ~Fill /\ ~FillFails /\ ~UNCHANGED vars
      BY <1>1 DEF AdmitPrepared, NoLongerPrepared, Prepare, Ask, Idle, Fill, FillFails, vars, callerVars
    <3>. QED BY <1>1, <3>2, <3>3 DEF Next
  <2>2. reply'.seen = [b \in {1} |-> Cache!Seen(request.pages, Len(request.pages) * BlockSize)]
    BY <2>1 DEF Attend, Cache!PagedAttn, PageRead
  <2>3. request.pages \in Seq(Pages) /\ Len(request.pages) * BlockSize \in Int
    <3>1. request.pages \in Seq(Pages)
      BY <1>1, RequestFacts DEF ServeInv
    <3>. QED BY <3>1, LenProperties, PagedServingAssumption
  <2>4. SUFFICES ASSUME NEW i \in 0 .. (Len(request.pages) * BlockSize - 1), NEW row,
                        row = [at |-> i,
                               key |-> Cache!GatheredRow(k, request.pages, Len(request.pages) * BlockSize)[i],
                               val |-> Cache!GatheredRow(v, request.pages, Len(request.pages) * BlockSize)[i]]
                 PROVE  Right(row)
    BY <2>2 DEF Cache!Seen, Cache!Visible
  <2>. DEFINE n == (i \div BlockSize) + 1
              o == i % BlockSize
              p == request.pages[n]
  <2>5. /\ n \in 1 .. Len(request.pages) /\ p \in Pages /\ o \in Offsets
        /\ row.at = i /\ row.key = k[p][o] /\ row.val = v[p][o]
    BY <2>3, <2>4, PageGathered
  <2>6. PICK m \in 1 .. Len(request.runs) : BoundToRun(n, m) /\ (p \notin evicted => m = n)
    BY <1>1, <2>5 DEF ServeInv, RequestOK, StillOwn
  <2>7. ASSUME p \notin torn
        PROVE  row.key = [of |-> AddressOf(m), at |-> o] /\ row.val = [of |-> AddressOf(m), at |-> o]
    <3>1. Holds(p, AddressOf(m))
      BY <1>1, <2>6, <2>7 DEF ServeInv, BoundPagesHoldTheirRows, BoundToRun
    <3>. QED BY <2>5, <3>1 DEF Holds, Offsets
  <2>8. p \notin torn => row.key = Own(row, m) /\ row.val = Own(row, m)
    BY <2>5, <2>7 DEF AddressOf
  <2>. QED BY <2>5, <2>6, <2>8
<1>. QED BY <1>1, ServingHolds, PTL DEF Spec, AttendsUnderOwnRegime
=============================================================================
