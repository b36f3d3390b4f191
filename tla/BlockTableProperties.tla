------------------------ MODULE BlockTableProperties ------------------------
(***************************************************************************)
(* What the block table is meant to guarantee, stated over BlockTable.     *)
(***************************************************************************)
EXTENDS BlockTable

Keys == [tokens : Runs, bundle : Bundles]
Entries == [key : Keys, run : Runs, bundle : Bundles]

PartialFunctions(S, T) == UNION {[D -> T] : D \in SUBSET S}

Tables ==
  [ byKey : PartialFunctions(Keys, Physicals),
    meta  : PartialFunctions(Physicals, Entries),
    order : Seq(Physicals),
    runs  : PartialFunctions(Runs, SUBSET Bundles),
    free  : Seq(Physicals) ]

Receipts ==
  [op : {"block_lookup"}, key : Keys, outcome : Outcomes,
   physical : Physicals \cup {-1}]
    \cup [op : {"block_admit", "block_admit_rejected"}, key : Keys,
          physical : Physicals]
    \cup [op : {"block_evict"}, physical : Physicals]

Replies ==
  [op : {"lookup", "admit"}, tokens : Runs, bundle : Bundles,
   outcome : Outcomes \cup {"existing", "admitted"},
   physical : Physicals \cup {-1}]
    \cup [op : {"init", "lookup", "admit"},
          outcome : {"none", "TypeError", "ValueError", "CrossRegimeError"}]

\* Every variable has the shape its Python counterpart has.
TypeOK ==
  /\ table \in Tables
  /\ stats \in [Counters -> Nat]
  /\ rows \in Seq(Receipts)
  /\ reply \in Replies

-----------------------------------------------------------------------------
(* Structure of a table t.  Each part is a definition of its own, so that *)
(* it can be said of the tables in the middle of an operation too.        *)

\* _by_key and _meta are each other's inverse, and what _meta records for a
\* block is what its address was computed from.
AddressesAgree(t) ==
  /\ \A p \in Live(t) :
       /\ t.meta[p].key = BlockKey(t.meta[p].run, t.meta[p].bundle)
       /\ t.meta[p].key \in DOMAIN t.byKey
       /\ t.byKey[t.meta[p].key] = p
  /\ \A k \in DOMAIN t.byKey :
       /\ t.byKey[k] \in Live(t)
       /\ t.meta[t.byKey[k]].key = k

\* The insertion order of _meta lists every live block once.
OrderListsLive(t) ==
  IsInjective(t.order) /\ ToSet(t.order) = Live(t)

\* _free lists once every block that is neither live nor in aside.
FreeListsRest(t, aside) ==
  IsInjective(t.free) /\ ToSet(t.free) = Physicals \ (Live(t) \cup aside)

\* _runs remembers for a token run exactly the bundles of its live blocks,
\* and no run without one.
RunsOfLive(t) ==
  /\ \A p \in Live(t) : /\ t.meta[p].run \in DOMAIN t.runs
                        /\ t.meta[p].bundle \in t.runs[t.meta[p].run]
  /\ \A r \in DOMAIN t.runs :
       /\ t.runs[r] # {}
       /\ \A b \in t.runs[r] :
            \E p \in Live(t) : t.meta[p].run = r /\ t.meta[p].bundle = b

\* The two maps of the table never disagree: what audit() looks for, in
\* both directions, and the recorded regime is the one in the address.
AddressBook == AddressesAgree(table)

\* Every physical block is live or on the free list, never both and never
\* twice: no block is lost by admit, _release and _evict_one, and none is
\* handed out while it is bound.
EveryBlockHasOnePlace == OrderListsLive(table) /\ FreeListsRest(table, {})

\* The memory of which regimes hold a token run, kept aside from the maps
\* it summarises, is exact whatever was evicted or rebound since.
RunsAreLive == RunsOfLive(table)

-----------------------------------------------------------------------------
(* What callers are told. *)

\* "There is no code path that returns a block keyed to another bundle": a
\* block that lookup or admit returns holds the caller's tokens under the
\* caller's bundle.
ServesOwnRegime ==
  reply.outcome \in {"hit", "existing", "admitted"} =>
    /\ reply.physical \in Live(table)
    /\ table.meta[reply.physical].run = reply.tokens
    /\ table.meta[reply.physical].bundle = reply.bundle

\* A miss is told apart truthfully: cross_regime when the exact tokens are
\* live under another bundle and not under the caller's, cold when no live
\* block holds the tokens at all.
MissesToldApart ==
  /\ reply.outcome \in {"miss_cold", "miss_cross_regime"} =>
       \A p \in Live(table) :
         table.meta[p].run = reply.tokens => table.meta[p].bundle # reply.bundle
  /\ reply.outcome = "miss_cross_regime" =>
       \E p \in Live(table) : table.meta[p].run = reply.tokens
  /\ reply.outcome = "miss_cold" =>
       \A p \in Live(table) : table.meta[p].run # reply.tokens

-----------------------------------------------------------------------------
(* The receipts. *)

\* Receipt i of a log bound block p, and no later one evicts or rebinds it.
BoundIn(log, i, p) ==
  /\ log[i].op = "block_admit"
  /\ log[i].physical = p
  /\ \A j \in (i + 1) .. Len(log) :
       log[j].op \in {"block_admit", "block_evict"} => log[j].physical # p

BoundBy(i, p) == BoundIn(rows, i, p)

\* A log tells the bindings of a table: a block is live exactly when some
\* receipt still binds it, under the address of that receipt.
Explains(log, t) ==
  \A p \in Physicals :
    /\ p \in Live(t) <=> \E i \in DOMAIN log : BoundIn(log, i, p)
    /\ \A i \in DOMAIN log :
         BoundIn(log, i, p) => log[i].key = t.meta[p].key

\* The table can be rebuilt from the receipts alone, whatever was evicted,
\* rebound or refused in between.
ReceiptsExplainTable == Chained => Explains(rows, table)

\* What a reader of a log takes to be bound after it.
Bindings(log) ==
  {[key |-> log[i].key, block |-> log[i].physical] :
     i \in {i \in DOMAIN log : BoundIn(log, i, log[i].physical)}}

\* A receipt is right about a cache that holds these bindings.
Warranted(held, r) ==
  /\ r.op = "block_lookup" =>
       IF \E b \in held : b.key = r.key
       THEN r.outcome = "hit" /\ [key |-> r.key, block |-> r.physical] \in held
       ELSE r.outcome = IF \E b \in held : b.key.tokens = r.key.tokens
                        THEN "miss_cross_regime" ELSE "miss_cold"
  /\ r.op = "block_admit" =>
       \A b \in held : /\ b.key # r.key
                       /\ Strict /\ b.block = r.physical => b.key.bundle = r.key.bundle
  /\ r.op = "block_admit_rejected" =>
       /\ Strict /\ \A b \in held : b.key # r.key
       /\ \E b \in held : b.block = r.physical /\ b.key.bundle # r.key.bundle
  /\ r.op = "block_evict" => \A p \in Physicals : \E b \in held : b.block = p

Replays(log) ==
  \A n \in DOMAIN log : Warranted(Bindings(SubSeq(log, 1, n - 1)), log[n])

\* The log can be checked by somebody who has nothing else: each receipt, at its
\* place, is what the receipts before it call for.  A hit names the block they
\* bind to its address, each kind of miss is one, a rejection is of a block they
\* bind to another regime, an eviction of a full table; in strict mode a block
\* they bind passes to an address of the same regime only.
ReceiptsReplay == Chained => Replays(rows)

ReceiptsWith(test(_)) ==
  Cardinality({i \in DOMAIN rows : test(rows[i])})

\* Every counter is the number of receipts of its kind: nothing is counted
\* without a receipt, or receipted without being counted.
CountersMatchReceipts ==
  Chained =>
    /\ \A o \in Outcomes :
         stats[o] = ReceiptsWith(LAMBDA r : /\ r.op = "block_lookup"
                                            /\ r.outcome = o)
    /\ stats["admitted"] = ReceiptsWith(LAMBDA r : r.op = "block_admit")
    /\ stats["evicted"] = ReceiptsWith(LAMBDA r : r.op = "block_evict")
    /\ stats["rejected_cross_regime"] =
         ReceiptsWith(LAMBDA r : r.op = "block_admit_rejected")

\* "Evicts the oldest admission when the table is full": an eviction happens
\* with every block bound, and the block its receipt names is the one whose
\* binding receipt is the earliest, rebinding included.
EvictsOldestAdmission ==
  [][ Chained /\ stats'["evicted"] # stats["evicted"] =>
        LET evicted == rows'[Len(rows) + 1].physical
        IN  /\ Live(table) = Physicals
            /\ \A i, j \in DOMAIN rows : \A p \in Physicals \ {evicted} :
                 BoundBy(i, evicted) /\ BoundBy(j, p) => i < j ]_vars

-----------------------------------------------------------------------------
(* The regime of a block. *)

\* In strict mode a live block changes regime only when a full table evicts
\* it: no caller gets to move one by naming it.
RegimeMovesOnlyByEviction ==
  [][ \A p \in Live(table) :
        /\ Strict
        /\ p \in DOMAIN table'.meta
        /\ table'.meta[p].bundle # table.meta[p].bundle
        => /\ stats'["evicted"] = stats["evicted"] + 1
           /\ Live(table) = Physicals
           /\ p = Oldest(table) ]_vars

-----------------------------------------------------------------------------
\* The table implements the cache RegimeCache describes: its address book is
\* what is held.
Cache == INSTANCE RegimeCache WITH held <- table.byKey

ImplementsRegimeCache == Cache!Spec
=============================================================================
