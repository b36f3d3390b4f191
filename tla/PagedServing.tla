---------------------------- MODULE PagedServing ----------------------------
(***************************************************************************)
(* A caller that serves requests from the block table and the paged cache  *)
(* together, in the orders of scripts/bench_cache_contract.py: pages are   *)
(* written and then admitted by number, or a run that missed is admitted   *)
(* and its page written afterwards; the blocks of a request are looked up  *)
(* one by one and gathered at the end.  The two components know nothing of *)
(* each other: what joins them is a number that is both a physical block   *)
(* and a page.  The caller keeps no order between the two uses: it looks   *)
(* blocks up, and has the table choose blocks, while pages it has written  *)
(* still wait for their admission.                                         *)
(*                                                                         *)
(* The table is what RegimeCache says of it, which BlockTable implements;  *)
(* an address is a token run of one block with its bundle.                 *)
(***************************************************************************)
EXTENDS Integers, Sequences, SequencesExt

CONSTANTS Runs, Bundles, NumBlocks, Strict, BlockSize, Zero,
          MaxWrites,    \* bound on the writes
          MaxRequest    \* bound on the blocks of a request

Addresses == [tokens : Runs, bundle : Bundles]
Pages == 0 .. (NumBlocks - 1)

\* The key and value rows of an address, position by position; no two runs and
\* no two regimes share a row.
Rows == [of : Addresses, at : 0 .. (BlockSize - 1)]

ASSUME PagedServingAssumption ==
  /\ NumBlocks \in Nat \ {0} /\ BlockSize \in Nat \ {0}
  /\ Strict \in BOOLEAN /\ MaxWrites \in Nat /\ MaxRequest \in Nat
  /\ Zero \notin Rows

VARIABLES
  held, answer,           \* the table and its last reply
  k, v, reply, stored, writes,   \* the cache and its last reply
  prepared,     \* page -> the address it was written for and not admitted to
  missing,      \* <<page, address>> bound after a miss and not written yet
  request,      \* the request in progress
  torn,         \* bound pages that do not hold what they are bound to (history)
  lost,         \* prepared pages that were filled for another address (history)
  evicted       \* pages this request had found and displaced itself (history)

tableVars == <<held, answer>>
cacheVars == <<k, v, reply, stored, writes>>
callerVars == <<prepared, missing, request, evicted>>
vars == <<tableVars, cacheVars, callerVars, torn, lost>>

Table == INSTANCE RegimeCache WITH reply <- answer

RowsOf(a) == [i \in 1 .. BlockSize |-> [of |-> a, at |-> i - 1]]

\* Mutant: slots are counted from the page number instead of its first slot.
SlotsFromPage(p) == [i \in 1 .. BlockSize |-> p + i - 1]

\* The slots of a whole page in order.
SlotsOf(p) == [i \in 1 .. BlockSize |-> p * BlockSize + i - 1]
PageWrite(p, a) == [tokens |-> RowsOf(a), slots |-> SlotsOf(p)]

\* One request: its pages in order, all of them filled.
PageRead(pages) == [tables |-> <<pages>>, contexts |-> <<Len(pages) * BlockSize>>]

Cache == INSTANCE PagedCache WITH
  NumPages <- NumBlocks, Tokens <- Rows,
  Writes <- {PageWrite(p, a) : p \in Pages, a \in Addresses},
  Reads <- {PageRead(s) : s \in SeqOf(Pages, MaxRequest)}

NoRequest == [open |-> FALSE]
NoPages == [p \in {} |-> 0]
Nothing == << >>

Init ==
  /\ Table!Init /\ Cache!Init
  /\ prepared = NoPages /\ missing = Nothing /\ request = NoRequest
  /\ torn = {} /\ lost = {} /\ evicted = {}

Idle == ~request.open /\ missing = Nothing

(***************************************************************************)
(* Writing first, admitting by number afterwards.                          *)
(***************************************************************************)
\* Any page may be written, a bound one too: the cache does not know.
Prepare(p, a) ==
  /\ Idle
  /\ Cache!ReshapeAndCache(PageWrite(p, a))
  /\ prepared' = [q \in DOMAIN prepared \cup {p} |-> IF q = p THEN a ELSE prepared[q]]
  /\ torn' = IF p \in Table!Used THEN torn \cup {p} ELSE torn
  /\ lost' = lost \ {p}
  /\ UNCHANGED <<tableVars, missing, request, evicted>>

\* admit(run, bundle, physical=p): the address is bound already, wherever that
\* is; or p is free; or p's block gives way; or it belongs to another regime.
AdmitNumbered(a, p) ==
  \/ Table!AlreadyHeld(a)
  \/ Table!Place(a, p)
  \/ /\ a \notin Table!Held
     /\ \E victim \in Table!Held :
          /\ held[victim] = p
          /\ IF Strict /\ victim.bundle # a.bundle
             THEN Table!Refuse("admit", "CrossRegimeError")
             ELSE Table!Displace(a, victim)

\* A page holds what it is bound to once it is bound to what was written, and
\* does not if something else has been written since.
TornBy(p, a) ==
  IF a \in DOMAIN held' /\ held'[a] = p
  THEN (torn \ {p}) \cup (lost \cap {p})
  ELSE torn

\* Bound to its address or not, the page is no longer waiting.
NoLongerPrepared(p) ==
  /\ torn' = TornBy(p, prepared[p])
  /\ lost' = lost \ {p}
  /\ prepared' = [q \in DOMAIN prepared \ {p} |-> prepared[q]]
  /\ UNCHANGED <<cacheVars, missing, request, evicted>>

AdmitPrepared(p) ==
  /\ Idle /\ p \in DOMAIN prepared
  /\ AdmitNumbered(prepared[p], p)
  /\ NoLongerPrepared(p)

(***************************************************************************)
(* A request: look every block up, admit and write what missed, attend.    *)
(***************************************************************************)
Ask(bundle, runs) ==
  /\ Idle
  /\ request' = [open |-> TRUE, bundle |-> bundle, runs |-> runs,
                 pages |-> << >>, missed |-> FALSE]
  /\ evicted' = {}
  /\ UNCHANGED <<tableVars, cacheVars, prepared, missing, torn, lost>>

Wanted == [tokens |-> request.runs[Len(request.pages) + 1], bundle |-> request.bundle]
Looking == request.open /\ missing = Nothing /\ Len(request.pages) < Len(request.runs)

\* Mutant: the page of any regime's block with these tokens is taken.
TokenHits ==
  /\ Looking /\ ~request.missed
  /\ \E x \in Table!Held :
       /\ x.tokens = Wanted.tokens
       /\ request' = [request EXCEPT !.pages = Append(@, held[x])]
  /\ UNCHANGED <<tableVars, cacheVars, prepared, missing, torn, lost, evicted>>

\* The caller notes the page the table answered with, or that there is none.
NotePage ==
  /\ request' = [request EXCEPT !.pages = Append(@, answer'.physical)]
  /\ UNCHANGED <<cacheVars, prepared, missing, torn, lost, evicted>>

NoteMiss ==
  /\ request' = [request EXCEPT !.missed = TRUE]
  /\ UNCHANGED <<cacheVars, prepared, missing, torn, lost, evicted>>

LookupHits == Looking /\ ~request.missed /\ Table!Hit(Wanted) /\ NotePage

LookupMisses ==
  /\ Looking /\ ~request.missed
  /\ Table!MissCrossRegime(Wanted) \/ Table!MissCold(Wanted)
  /\ NoteMiss

\* A run that is not held is left alone; its page may be written and admitted by
\* number instead.
GiveUp ==
  /\ Looking /\ request.missed
  /\ request' = NoRequest /\ evicted' = {}
  /\ UNCHANGED <<tableVars, cacheVars, prepared, missing, torn, lost>>

\* The page still holds what was last written to it, and may be one that the
\* request had found for another of its runs.
NotePageToFill ==
  /\ missing' = <<answer'.physical, Wanted>>
  /\ torn' = torn \cup {answer'.physical}
  /\ evicted' = evicted \cup ({answer'.physical} \cap ToSet(request.pages))
  /\ request' = [request EXCEPT !.pages = Append(@, answer'.physical), !.missed = FALSE]
  /\ UNCHANGED <<cacheVars, prepared, lost>>

\* admit(run, bundle): an unused block, or one that is displaced when there is
\* none.
AdmitAutomatically(a) ==
  \/ \E p \in Pages : Table!Place(a, p)
  \/ /\ Table!Used = Table!Blocks
     /\ \E victim \in Table!Held : Table!Displace(a, victim)

AdmitMissed ==
  /\ Looking /\ request.missed
  /\ AdmitAutomatically(Wanted)
  /\ NotePageToFill

\* The page of a block that missed is written under the regime that asked; the
\* table may have given out a page that was prepared for something else.
Fill ==
  /\ missing # Nothing
  /\ Cache!ReshapeAndCache(PageWrite(missing[1], missing[2]))
  /\ missing' = Nothing
  /\ torn' = torn \ {missing[1]}
  /\ lost' = IF missing[1] \in DOMAIN prepared /\ prepared[missing[1]] # missing[2]
             THEN lost \cup {missing[1]} ELSE lost \ {missing[1]}
  /\ UNCHANGED <<tableVars, prepared, request, evicted>>

\* The write is refused, or the values were never computed: the request is
\* given up and the block stays bound, for the table has no way back.
FillFails ==
  /\ missing # Nothing
  /\ missing' = Nothing /\ request' = NoRequest /\ evicted' = {}
  /\ UNCHANGED <<tableVars, cacheVars, prepared, torn, lost>>

Attend ==
  /\ request.open /\ missing = Nothing
  /\ Len(request.pages) = Len(request.runs)
  /\ Cache!PagedAttn(PageRead(request.pages))
  /\ request' = NoRequest /\ evicted' = {}
  /\ UNCHANGED <<tableVars, prepared, missing, torn, lost>>

Next ==
  \/ \E p \in Pages : AdmitPrepared(p) \/ \E a \in Addresses : Prepare(p, a)
  \/ \E bundle \in Bundles, runs \in SeqOf(Runs, MaxRequest) : Ask(bundle, runs)
  \/ LookupHits \/ LookupMisses \/ GiveUp \/ AdmitMissed \/ Fill \/ FillFails \/ Attend

Spec == Init /\ [][Next]_vars

-----------------------------------------------------------------------------
\* Tensors and table keep their shapes; a request finds at most one page for
\* each of its runs.
TypeOK ==
  /\ held \in UNION {[D -> Pages] : D \in SUBSET Addresses}
  /\ k \in Cache!Cells /\ v \in Cache!Cells
  /\ prepared \in UNION {[D -> Addresses] : D \in SUBSET Pages}
  /\ torn \subseteq Pages /\ lost \subseteq Pages /\ evicted \subseteq Pages
  /\ request.open => Len(request.pages) <= Len(request.runs)

Holds(p, a) ==
  \A o \in 0 .. (BlockSize - 1) :
    k[p][o] = [of |-> a, at |-> o] /\ v[p][o] = [of |-> a, at |-> o]

\* "The block is recomputed under the regime that asked for it": a bound page
\* holds the rows of the run and the regime it is bound to, unless it is torn.
\* The ways to tear one are few: it was bound after a miss and its write has
\* not come or has failed; or it was written while it was bound and the
\* admission that was to follow has not come, was refused, or found its address
\* bound elsewhere; or the table gave it to another address between its write
\* and its admission.
BoundPagesHoldTheirRows ==
  \A a \in DOMAIN held : held[a] \notin torn => Holds(held[a], a)

\* What attention reads under a bundle was computed under that bundle, for runs
\* of the same request, although the pages were looked up several calls before
\* they are gathered and the table keeps none of them for the request: also a
\* page that an admission of the request has taken from it is read as its own.
\* Only such a page is read for another run than the one it was found for.
AttendsUnderOwnRegime ==
  [][ /\ request.open /\ ~request'.open /\ missing = Nothing
      /\ Len(request.pages) = Len(request.runs)
      => \A row \in reply'.seen[1] :
           LET n == (row.at \div BlockSize) + 1
               Own(m) == [of |-> [tokens |-> request.runs[m], bundle |-> request.bundle],
                          at |-> row.at % BlockSize]
           IN request.pages[n] \notin torn =>
                \E m \in 1 .. Len(request.runs) :
                  /\ row.key = Own(m) /\ row.val = Own(m)
                  /\ request.pages[n] \notin evicted => m = n ]_vars
=============================================================================
