----------------------------- MODULE BlockTable -----------------------------
(***************************************************************************)
(* The invariant-keyed block table of torch-ext/szl_block_kv/_invariant.py *)
(* : it maps (token run, governance bundle) addresses to physical KV       *)
(* blocks, evicts first-in first-out, and appends a receipt for what it    *)
(* does to a receipt chain it may share with other emitters.               *)
(*                                                                         *)
(* Digests are taken to be collision free: a block key is the pair it is   *)
(* computed from, a run digest is the run.  A token run is an element of   *)
(* Runs together with the Python type its tokens were passed in, because   *)
(* the table admits some types and refuses others.  A receipt is the       *)
(* payload handed to the chain; ReceiptChain.tla models the chain itself.  *)
(***************************************************************************)
EXTENDS Integers, SequencesExt

CONSTANTS
  Runs,               \* canonical token runs (lists of integers)
  Bundles,            \* invariant bundles, by id
  IntegralTypes,      \* types _validated_token_ids turns into an integer
  OtherTypes,         \* types it refuses: bool, float, str
  NotABundle,         \* an argument that is not an InvariantBundle
  NumBlocks,          \* num_blocks
  Strict,             \* strict
  Chained,            \* whether a chain was passed to the constructor
  MaxCalls            \* bound on the number of calls that are counted

ASSUME BlockTableAssumption ==
  /\ NumBlocks \in Nat \ {0}
  /\ MaxCalls \in Nat
  /\ Strict \in BOOLEAN
  /\ Chained \in BOOLEAN
  /\ NotABundle \notin Bundles
  /\ IntegralTypes \cap OtherTypes = {}

VARIABLES
  table,   \* _by_key, _meta with its insertion order, _runs and _free
  stats,   \* stats
  rows,    \* the payloads of the chain's rows
  reply    \* what the last call returned or raised

vars == <<table, stats, rows, reply>>

-----------------------------------------------------------------------------
(* Arguments of the calls. *)

RawRuns == [ids : Runs, type : IntegralTypes \cup OtherTypes]

\* Every token must be an Integral that is not a bool, or an integer tensor.
ValidTokens(raw) == raw.type \in IntegralTypes

NoPhysical == [given |-> FALSE]

PhysicalArgs ==
  {NoPhysical}
    \cup [given : {TRUE}, type : IntegralTypes \cup OtherTypes,
          val : -1 .. NumBlocks]

Physicals == 0 .. (NumBlocks - 1)

\* physical is None, or an integer in range.
ValidPhysical(arg) ==
  arg.given => arg.type \in IntegralTypes /\ arg.val \in Physicals

\* Mutant: the address leaves the regime out.
TokenOnlyKey(run, bundle) == [tokens |-> run, bundle |-> "any"]

\* The domain-separated digest of the canonical tokens and the bundle id.
BlockKey(run, bundle) == [tokens |-> run, bundle |-> bundle]

-----------------------------------------------------------------------------
(* The table's data.  `order' lists the live blocks oldest first, which is *)
(* the insertion order of the dict _meta; the last entry of `free' is the  *)
(* next block handed out.                                                  *)

Live(t) == DOMAIN t.meta

EmptyTable ==
  [ byKey |-> [k \in {} |-> 0],
    meta  |-> [p \in {} |-> [key |-> 0, run |-> 0, bundle |-> 0]],
    order |-> << >>,
    runs  |-> [r \in {} |-> {}],
    free  |-> [i \in 1 .. NumBlocks |-> NumBlocks - i] ]

\* Mutants: a pairing is never forgotten, or the whole run is.
RunsNeverForgotten(t, p) == t.runs
RunsForgottenWhole(t, p) ==
  [r \in DOMAIN t.runs \ {t.meta[p].run} |-> t.runs[r]]

\* The bundles remembered for a token run once block p is gone: the pairing
\* is forgotten only if no other live block holds it.
RunsWithout(t, p) ==
  LET m == t.meta[p]
      stillLive == \E q \in Live(t) \ {p} :
                      t.meta[q].run = m.run /\ t.meta[q].bundle = m.bundle
  IN  IF stillLive \/ m.run \notin DOMAIN t.runs
      THEN t.runs
      ELSE IF t.runs[m.run] \ {m.bundle} = {}
           THEN [r \in DOMAIN t.runs \ {m.run} |-> t.runs[r]]
           ELSE [t.runs EXCEPT ![m.run] = @ \ {m.bundle}]

\* Mutant: the address outlives the block.
ReleaseKeepingAddress(t, p) ==
  [ byKey |-> t.byKey,
    meta  |-> [q \in Live(t) \ {p} |-> t.meta[q]],
    order |-> RemoveFirst(t.order, p),
    runs  |-> RunsWithout(t, p),
    free  |-> t.free ]

\* _release: drop a live block's bindings.  The block is then neither live
\* nor free; the caller decides what becomes of it.
Release(t, p) ==
  [ byKey |-> [k \in DOMAIN t.byKey \ {t.meta[p].key} |-> t.byKey[k]],
    meta  |-> [q \in Live(t) \ {p} |-> t.meta[q]],
    order |-> RemoveFirst(t.order, p),
    runs  |-> RunsWithout(t, p),
    free  |-> t.free ]

\* The end of admit: enter block p under its address.
Bind(t, p, run, bundle) ==
  LET key == BlockKey(run, bundle)
  IN  [ byKey |-> [k \in DOMAIN t.byKey \cup {key} |->
                     IF k = key THEN p ELSE t.byKey[k]],
        meta  |-> [q \in Live(t) \cup {p} |->
                     IF q = p
                     THEN [key |-> key, run |-> run, bundle |-> bundle]
                     ELSE t.meta[q]],
        order |-> Append(t.order, p),
        runs  |-> [r \in DOMAIN t.runs \cup {run} |->
                     (IF r \in DOMAIN t.runs THEN t.runs[r] ELSE {})
                       \cup (IF r = run THEN {bundle} ELSE {})],
        free  |-> t.free ]

\* Mutant: the youngest block is taken for the oldest.
Youngest(t) == Last(t.order)

\* The first entry of the dict _meta.
Oldest(t) == Head(t.order)

\* _evict_one: release the oldest block and put it on the free list.
Evict(t) ==
  LET r == Release(t, Oldest(t))
  IN  [r EXCEPT !.free = Append(@, Oldest(t))]

\* Mutant: a block the caller named stays on the free list.
LeaveFree(t, p) == t

\* _free.pop() and _free.remove(physical).
PopFree(t) == [t EXCEPT !.free = Front(@)]
TakeFree(t, p) == [t EXCEPT !.free = RemoveFirst(@, p)]

-----------------------------------------------------------------------------
(* Statistics and receipts. *)

Outcomes == {"hit", "miss_cold", "miss_cross_regime"}
Counters == Outcomes \cup {"admitted", "evicted", "rejected_cross_regime"}

\* Number of calls that moved a counter.
Calls == stats["hit"] + stats["miss_cold"] + stats["miss_cross_regime"]
           + stats["admitted"] + stats["rejected_cross_regime"]

\* Bound of the model: the program has none.
CallsLeft == Calls < MaxCalls

Count(s, c) == [s EXCEPT ![c] = @ + 1]

\* _emit: a receipt is written only when the table was given a chain.
Emit(log, payload) == IF Chained THEN Append(log, payload) ELSE log

LookupReceipt(key, outcome, physical) ==
  [op |-> "block_lookup", key |-> key, outcome |-> outcome,
   physical |-> physical]
AdmitReceipt(key, p) == [op |-> "block_admit", key |-> key, physical |-> p]
RejectReceipt(key, p) ==
  [op |-> "block_admit_rejected", key |-> key, physical |-> p]
EvictReceipt(p) == [op |-> "block_evict", physical |-> p]

\* What a call returns, with the tokens and the bundle its caller passed.
Returned(op, run, bundle, outcome, physical) ==
  [op |-> op, tokens |-> run, bundle |-> bundle, outcome |-> outcome,
   physical |-> physical]
Raised(op, error) == [op |-> op, outcome |-> error]

-----------------------------------------------------------------------------
Init ==
  /\ table = EmptyTable
  /\ stats = [c \in Counters |-> 0]
  /\ rows = << >>
  /\ reply = [op |-> "init", outcome |-> "none"]

\* A lookup's answer: the bound block, or which of the two kinds of miss.
Outcome(t, run, bundle) ==
  IF BlockKey(run, bundle) \in DOMAIN t.byKey THEN "hit"
  ELSE IF run \in DOMAIN t.runs /\ bundle \notin t.runs[run]
       THEN "miss_cross_regime"
       ELSE "miss_cold"

\* lookup with acceptable arguments.
Lookup(raw, bundle) ==
  LET key == BlockKey(raw.ids, bundle)
      outcome == Outcome(table, raw.ids, bundle)
      physical == IF outcome = "hit" THEN table.byKey[key] ELSE -1
  IN  /\ CallsLeft
      /\ ValidTokens(raw)
      /\ bundle \in Bundles
      /\ stats' = Count(stats, outcome)
      /\ rows' = Emit(rows, LookupReceipt(key, outcome, physical))
      /\ reply' = Returned("lookup", raw.ids, bundle, outcome, physical)
      /\ UNCHANGED table

\* lookup refuses its tokens, or block_key its bundle.
LookupRefused(raw, bundle) ==
  /\ ~ ValidTokens(raw) \/ bundle \notin Bundles
  /\ reply' = Raised("lookup", "TypeError")
  /\ UNCHANGED <<table, stats, rows>>

\* admit checks physical's type, its range, the tokens and the bundle, in
\* that order, before it touches anything.
AdmitRefused(raw, bundle, arg) ==
  /\ ~ ValidPhysical(arg) \/ ~ ValidTokens(raw) \/ bundle \notin Bundles
  /\ reply' = Raised("admit",
                     IF ~ ValidPhysical(arg) /\ arg.type \in IntegralTypes
                     THEN "ValueError" ELSE "TypeError")
  /\ UNCHANGED <<table, stats, rows>>

AdmitAccepted(raw, bundle, arg) ==
  ValidPhysical(arg) /\ ValidTokens(raw) /\ bundle \in Bundles

\* admit of an address that is bound already returns its block and does
\* nothing else, whatever physical block the caller named.
AdmitExisting(raw, bundle, arg) ==
  LET key == BlockKey(raw.ids, bundle)
  IN  /\ AdmitAccepted(raw, bundle, arg)
      /\ key \in DOMAIN table.byKey
      /\ reply' = Returned("admit", raw.ids, bundle, "existing",
                            table.byKey[key])
      /\ UNCHANGED <<table, stats, rows>>

AdmitsNew(raw, bundle, arg) ==
  /\ CallsLeft
  /\ AdmitAccepted(raw, bundle, arg)
  /\ BlockKey(raw.ids, bundle) \notin DOMAIN table.byKey

\* The assignments every successful admission ends with.
Admitted(t, s, log, p, run, bundle) ==
  LET key == BlockKey(run, bundle)
  IN  /\ table' = Bind(t, p, run, bundle)
      /\ stats' = Count(s, "admitted")
      /\ rows' = Emit(log, AdmitReceipt(key, p))
      /\ reply' = Returned("admit", run, bundle, "admitted", p)

\* physical is None and a block is free.
AdmitFree(raw, bundle, arg) ==
  /\ AdmitsNew(raw, bundle, arg)
  /\ ~ arg.given
  /\ table.free # << >>
  /\ Admitted(PopFree(table), stats, rows, Last(table.free), raw.ids, bundle)

\* Mutant: the eviction is receipted after the admission.
AdmitEvictingReceiptedLate(raw, bundle, arg) ==
  LET evicted == Evict(table)
      p == Last(evicted.free)
      key == BlockKey(raw.ids, bundle)
  IN  /\ AdmitsNew(raw, bundle, arg)
      /\ ~ arg.given
      /\ table.free = << >>
      /\ table' = Bind(PopFree(evicted), p, raw.ids, bundle)
      /\ stats' = Count(Count(stats, "evicted"), "admitted")
      /\ rows' = Emit(Emit(rows, AdmitReceipt(key, p)), EvictReceipt(p))
      /\ reply' = Returned("admit", raw.ids, bundle, "admitted", p)

\* physical is None and the table is full: evict, then pop the freed block.
AdmitEvicting(raw, bundle, arg) ==
  LET evicted == Evict(table)
  IN  /\ AdmitsNew(raw, bundle, arg)
      /\ ~ arg.given
      /\ table.free = << >>
      /\ Admitted(PopFree(evicted), Count(stats, "evicted"),
                  Emit(rows, EvictReceipt(Oldest(table))),
                  Last(evicted.free), raw.ids, bundle)

\* The caller names a block that is not bound.
AdmitAt(raw, bundle, arg) ==
  /\ AdmitsNew(raw, bundle, arg)
  /\ arg.given
  /\ arg.val \notin Live(table)
  /\ Admitted(TakeFree(table, arg.val), stats, rows, arg.val, raw.ids, bundle)

\* Mutant: strict is not consulted.
NoForeignBlock(bundle, p) == FALSE

\* strict, and the named block belongs to another regime: CrossRegimeError.
ForeignBlock(bundle, p) == Strict /\ table.meta[p].bundle # bundle

\* The caller names a bound block it may take over: release it, rebind it.
AdmitRebind(raw, bundle, arg) ==
  /\ AdmitsNew(raw, bundle, arg)
  /\ arg.given
  /\ arg.val \in Live(table)
  /\ ~ ForeignBlock(bundle, arg.val)
  /\ Admitted(TakeFree(Release(table, arg.val), arg.val), stats, rows,
              arg.val, raw.ids, bundle)

\* Mutants: the block is released before the regime is compared, and the
\* rejection is raised without a receipt.
AdmitRejectedAfterRelease(raw, bundle, arg) ==
  /\ AdmitsNew(raw, bundle, arg)
  /\ arg.given
  /\ arg.val \in Live(table)
  /\ ForeignBlock(bundle, arg.val)
  /\ stats' = Count(stats, "rejected_cross_regime")
  /\ rows' = Emit(rows, RejectReceipt(BlockKey(raw.ids, bundle), arg.val))
  /\ reply' = Raised("admit", "CrossRegimeError")
  /\ table' = Release(table, arg.val)

AdmitRejectedUnreceipted(raw, bundle, arg) ==
  /\ AdmitsNew(raw, bundle, arg)
  /\ arg.given
  /\ arg.val \in Live(table)
  /\ ForeignBlock(bundle, arg.val)
  /\ stats' = Count(stats, "rejected_cross_regime")
  /\ reply' = Raised("admit", "CrossRegimeError")
  /\ UNCHANGED <<table, rows>>

\* The named block stays as it is; the refusal is counted and receipted.
AdmitRejected(raw, bundle, arg) ==
  /\ AdmitsNew(raw, bundle, arg)
  /\ arg.given
  /\ arg.val \in Live(table)
  /\ ForeignBlock(bundle, arg.val)
  /\ stats' = Count(stats, "rejected_cross_regime")
  /\ rows' = Emit(rows, RejectReceipt(BlockKey(raw.ids, bundle), arg.val))
  /\ reply' = Raised("admit", "CrossRegimeError")
  /\ UNCHANGED table

Admit(raw, bundle, arg) ==
  \/ AdmitRefused(raw, bundle, arg)
  \/ AdmitExisting(raw, bundle, arg)
  \/ AdmitFree(raw, bundle, arg)
  \/ AdmitEvicting(raw, bundle, arg)
  \/ AdmitAt(raw, bundle, arg)
  \/ AdmitRebind(raw, bundle, arg)
  \/ AdmitRejected(raw, bundle, arg)

Next ==
  \E raw \in RawRuns, bundle \in Bundles \cup {NotABundle} :
    \/ Lookup(raw, bundle)
    \/ LookupRefused(raw, bundle)
    \/ \E arg \in PhysicalArgs : Admit(raw, bundle, arg)

Spec == Init /\ [][Next]_vars
=============================================================================
