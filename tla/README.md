# Verification of szl-block-kv

TLA+ models of szl-block-kv, the TLC runs that check them on small instances,
and TLAPS proofs of the results that hold for every instance.

## 1. The system

szl-block-kv is a paged key/value cache in which a cached block is addressed by
its tokens *and* by the governance regime (the "invariant bundle") under which
it was computed, with a receipt chain that records what the cache did. Around
it the repository holds the machinery that publishes the package to a Hub.

| Component | State it keeps | Operations | Source |
|---|---|---|---|
| Receipt chain | `_rows` | `emit`, `verify`, `head` | `torch-ext/szl_block_kv/_chain.py` |
| Invariant bundle | `_fields`, `_id` | constructor, `derive`, `fields`, equality | `_invariant.py:48-96` |
| Validation and addresses | none | `_validated_token_ids`, `_validated_block_index`, `block_key` | `_invariant.py:99-145` |
| Invariant-keyed block table | `_by_key`, `_meta` (ordered), `_runs`, `_free`, `stats`, `chain` | `lookup`, `admit`, `_release`, `_evict_one`, queries, `audit` | `_invariant.py:148-359` |
| Paged cache | `k`, `v` | `reshape_and_cache`, `_gather_kv`, `paged_attn` | `_ops.py` |
| Serving composition | table + cache + chain | look up, write pages, admit, gather | `scripts/bench_cache_contract.py` |
| Kernel configuration and build | none (Git objects) | `parse_kernel`, `load_config`, `build_payload`, `content_key` | `scripts/szl_kernel_publish.py:193-480` |
| Hub publisher | Hub branches `main`, `v<major>`; the twin's `main` | `heads`, `fetch`, `candidate`, `push`, `readback` | `scripts/szl_kernel_publish.py:498-712` |
| Publish workflow | jobs of a run | resolve, build, publish, verify, twin, drift | `.github/workflows/hf-kernel-publish.yml`, `szl_kernel_publish.py:728-958` |
| Hub import | card files, `IMPORT.json` | `fetch`, `verify` | `scripts/hf_hub_import.py` |
| Self-checks, benchmark reports | none | `selfcheck`, `selfcheck_invariant` | `_ops.py`, `_invariant.py`, `scripts/` |

**How they interact.** Everything in the package is synchronous calls on one
thread: a caller looks a run up in the table, writes pages of the paged cache
at the block number the table gives it, and gathers from them. Table and
attention append to one `ReceiptChain` object handed to both. The table calls
its chain from the middle of its operations (the eviction receipt is written
before the admission's). The publisher talks to remote Git repositories that
other writers can change, in several network steps.

**What is hard.** In the package: long sequences of legal calls (evict, rebind
by number, re-admit) over four structures that must agree; a call that raises
half way; the order of receipts; a regime memory kept beside the maps; mutable
memory under a hash chain. Nothing is persisted and nothing is threaded, so
there is no crash recovery and no interleaving inside the package. In the
publisher: external writers between the steps, a two-branch push that is not
atomic, failure and re-run. Between table and cache: numbers that are kept across
calls, and pages that are bound before they are written or written before they
are bound. In the workflow: a queue that drops events, two groups of runs that do
not wait for each other, decisions of one job that later jobs rely on. In the
import: a partial fetch, and a Hub that moves between its requests.

**What makes each component correct.**

* Receipt chain: `verify` accepts exactly the chains whose rows are as and
  where they were emitted, and otherwise points at the first that is not.
* Block table: no call returns a block of another run or regime; misses are
  told apart truthfully; every block is free or bound, once; eviction is
  first-in first-out; in strict mode a block changes regime only through
  eviction; the receipts account for the table and can be checked one by one.
* Bundle: the id names the fields for the object's whole life.
* Paged cache: a gather returns what was last written to the slots of its
  pages, and padding never reaches the result.
* Serving: what is gathered under a bundle was computed under it.
* Publisher: no commit is lost, both branches end with the same managed tree,
  unmanaged files survive, re-runs converge; nothing is announced as published
  that was not served.
* Workflow: only what was reviewed and asked for is published, the twin points at
  what was verified, a green drift guard is right, no release is lost silently.
* Import: a successful `fetch` leaves files that `verify` accepts, and what
  `verify` accepts is what the Hub had.

## 2. The modules

| Module | EXTENDS / INSTANCE | Checked by | Proved in |
|---|---|---|---|
| `BlockTable`, `BlockTableProperties` | instance of `RegimeCache` as abstract specification | `MCBlockTable` | `BlockTableProofs` |
| `ReceiptChain` | | `MCReceiptChain` | `ReceiptChainProofs` |
| `BundleIdentity` | instance of `FrozenBundles` as abstract specification | `MCBundleIdentity` | `BundleIdentityProofs` |
| `PagedCache` | instance of `SlotStore` as abstract specification | `MCPagedCache` | `PagedCacheProofs` |
| `PagedServing` | instances of `RegimeCache` and `PagedCache` as its two parts | `MCPagedServing` | `PagedServingProofs` |
| `TableServing` | EXTENDS the table; instance of `PagedServing` as its caller and abstract specification | `MCTableServing` | `BlockTableProofs` |
| `HubTrees`, `Publisher`, `PublisherProperties` | instance of `HubMirror` as abstract specification | `MCPublisher` | `PublisherProofs` |
| `PublishWorkflow` | | `MCPublishWorkflow` | `PublishWorkflowProofs` |
| `HubImport` | | `MCHubImport` | `HubImportProofs` |

The `MC` modules hold the constants of the instances. The order of the table is
that of the inventory: the package first, from its parts to their composition,
then what publishes and imports it.

### `BlockTable`: the table

`table` is a record of the Python object's fields: `byKey` is `_by_key`,
`meta` with `order` is the dict `_meta` with its insertion order (`order` is
the only way the code uses that order, in `_evict_one`), `runs` is `_runs`,
`free` is the list `_free`, popped from its end. `stats` is `stats`, `rows` is
the sequence of payloads handed to the chain, `reply` is what the last call
returned or raised, with the arguments its caller passed.

A call is one step, since nothing runs concurrently with it. `_release`,
`_evict_one`, the pop and the removal from the free list and the binding at
the end of `admit` are operators on tables (`Release`, `Evict`, `PopFree`,
`TakeFree`, `Bind`), composed in the order of the code.

| Action | Path of the code |
|---|---|
| `Lookup` | `lookup` with acceptable arguments: hit, cross-regime miss or cold miss, counted and receipted |
| `LookupRefused` | `lookup`: a token or the bundle has the wrong type |
| `AdmitRefused` | `admit`: block number of the wrong type or out of range, token or bundle of the wrong type, in that order |
| `AdmitExisting` | the address is bound: its block is returned, the block number the caller named is ignored, nothing is counted or receipted |
| `AdmitFree` | no number given, a block is free |
| `AdmitEvicting` | no number given, none free: `_evict_one`, then pop |
| `AdmitAt` | number given, block not bound |
| `AdmitRebind` | number given, block bound and allowed: `_release`, then bind |
| `AdmitRejected` | number given, block bound to another regime, strict: `CrossRegimeError` |

Abstractions: digests are collision free (a block key *is* its pair, a run
digest *is* the run; receipts carry whole keys where the code truncates them to
32 hex digits). A token list is a member of `Runs` together with the Python
type of its tokens; `IntegralTypes` are those that `_validated_token_ids`
converts to the same integers, `OtherTypes` those it refuses. Constant receipt
fields (`lambda`, `policy`, `n_tokens`, `reason`) are left out.

### `RegimeCache`: what the table promises

The abstract cache knows only which addresses are held in which blocks. A hit
needs the exact address; an address enters an unused block or displaces one,
across regimes only when the cache is not strict or is full. Which block is
taken is left open. `BlockTableProperties` instantiates it with
`held <- table.byKey`; `reply` is common to both.

### `ReceiptChain`: the chain

`rows` is `_rows`. A digest is the term it digests, so two digests are equal
exactly when the digested bodies are. Actions: `Emit` is `emit`; `Alias` and
`Lose` are the environment that `verify` is there for: a nested value that
`emit`'s one-level copy left shared is changed under the row, or a row leaves
the list. `history` (never read by an action) remembers each row as it was
sealed, which one it followed and the digests it stands on (`past`, which only
the proofs need); the properties compare `verify`'s verdict with it. A payload may bring an entry called `digest` of its own: `emit`
includes it in what it digests and then overwrites it in the row, so that
`verify`, which drops the entry, refuses the row. No caller in the repository
does that; the model keeps the behaviour and `Untrue` counts such a row.

### `HubTrees` and `Publisher`: the Hub publisher

One process of `publish_kernel` or `publish_twin` and one Hub repository. A
tree is a function from the paths it has to their contents. A commit is its
history, the sequence of trees that led to it with who made each, so that
"ancestor" is "prefix" and a branch is the commit it points at. `HubTrees` says
what a payload does to a tree: managed paths are written, owned (`build/`) and
pruned paths that are not managed are deleted, the rest is kept. A tree never has
both a path and one below it, as in Git.

| Action | Step of the code |
|---|---|
| `Begin` | `publish` or `twin` from the command line, with or without `--dry-run` |
| `ReadHeads` | `HubGit.heads`; no `main` is an error |
| `Fetch` | `HubGit.fetch`, depth 1: the commits the branches point at *now*, which need not be the heads read before |
| `Plan` | `HubGit.candidate` for each branch; fails when the head it starts from was not fetched or a submodule stands at a managed path; a new version branch takes main's candidate |
| `Preflight` | the push with `--dry-run`, and the end of a dry run |
| `PushBranch`, `PushEnds` | the push, one branch after the other, each accepted or refused; an error if any was refused |
| `Readback`, `Report` | `HubGit.readback` of each branch, the receipt |
| `Crash` | any error, time-out or lost answer, before any step |
| `OthersCommit`, `OthersBranch` | somebody else commits to a branch, or makes the version branch from main |

`FastForward` is what Git accepts from a repository fetched at depth 1: an absent
branch, one that still is at the candidate's base, or one that is at the
candidate already. The two looks of `readback` at a branch (ls-remote, fetch)
must both give the candidate, so one look stands for them. Two candidates over
the same parent with the same tree are identified, although their commit
messages differ. `pushed` is a history variable that only properties read.
Assumed away: others force-push or delete branches; the repository's own
workflow never does (its `concurrency` group also keeps publishing runs apart,
so one publisher runs at a time).

The kernel repository has two branches, owns `build/` and prunes a few files;
the model twin has one branch, manages one card, owns nothing and prunes the old
build. They are two instances of the same module.

### `HubMirror`: what the publisher promises

Branches only grow: by somebody else's commit, or by the mirror of the branch's
own tip; a new branch starts from a commit that main has had, as it is or
mirrored. It says "main has had" rather than "main has" because the push is not
atomic: the version branch may be created from a candidate whose push to main
was refused.

### `BundleIdentity`: the invariant bundle

A bundle freezes an id over fields that may be mutable objects which its maker
keeps. `memory` holds such objects, a location is a field name in one deep copy;
`mine` are the locations the caller can change. `Construct` copies what it is
given (`copy.deepcopy`) and digests it, and raises without fields or on a value
that JSON does not take; `Derive` lays overrides over a shallow copy and
constructs; `Fields` hands out a deep copy that is the caller's from then on;
`Mutate` changes any object the caller holds, at any time. `Admit` remembers the
id of a block and the regime that was in force. `Canonical` is a constant
because canonical JSON does not tell all values apart (a tuple from a list, the
key `1` from `"1"`): two regimes are the same if it does not. Equality and hash
of bundles are those of the id.

### `PagedCache`: writing slots, gathering pages

`k` and `v` map page and offset to a token, which stands for its row of the
tensor. `ReshapeAndCache` scatters tokens to slots by floor and remainder. Index
assignment with a slot named twice keeps one of the tokens and does not say
which: `Kept` are the possible choices, taken separately for `k` and `v`, which
are assigned one after the other. `WriteRefused` is every check that comes before
the first assignment. `PagedAttn` gathers the pages a context reaches into and
keeps, of the attention, what its result depends on: the positions the mask lets
through with their key and value. `PagedAttnRefused` refuses the default
`causal=True` before it looks at anything else, then tables and contexts.
`stored` remembers, slot by slot, what the last write to it sent there.

### `PagedServing`: table and cache behind one caller

The package has no object that owns both; a caller joins them by using the
number that `lookup` and `admit` return as a page number. The module puts
`RegimeCache` (what the table promises, and `BlockTable` implements) and
`PagedCache` together under the orders of calls of
`scripts/bench_cache_contract.py`, writing first and looking up first. The caller
keeps no order between the two: `attention_probe` looks blocks up, too, while
pages it has written still wait for their admission (line 140).

| Action | What the caller does |
|---|---|
| `Prepare`, `AdmitPrepared` | writes a page, then admits its block by number |
| `Ask` | begins a request for some runs under one bundle |
| `LookupHits`, `LookupMisses` | looks the next run up |
| `GiveUp` | leaves a run that missed alone, as `attention_probe` does before it admits that run's page by number |
| `AdmitMissed`, `Fill`, `FillFails` | admits what missed, without a number, then writes its page, or fails to |
| `Attend` | gathers the pages of the request |

That a caller fills a page after an automatic admission is not in the
repository and is marked external. In the module the table may therefore choose a
page that was written for something else and waits for its admission, which the
drivers of the repository, whose tables have a place for every block, never let it do.
History variables: `torn` are the bound pages that do not hold what their block
is bound to, `lost` the prepared pages that have been filled for another address
since, `evicted` the pages that the request in progress had found and then
displaced itself.

### `TableServing`: the same caller over the table itself

`PagedServing` has a table in name only: `RegimeCache` takes any free block and
evicts any other. `TableServing` puts the caller in front of `BlockTable`, with
its free list, dict order, regime memory, counters and receipts, and lets it do
what a caller in Python does: pass a token list of some integral type, pass a
block number or none, and branch on the reply (`physical is None`). `LookUpNext`,
`AdmitNext` and `AdmitPrepared` are calls of the table with what the caller notes
of them; everything it does without the table (`OutsideTable`) are the actions of
`PagedServing`, which is also the specification it is shown to implement.

### `SlotStore` and `FrozenBundles`: what cache and bundle promise

`SlotStore` is one flat array of numbered slots for keys and one for values. A
write replaces the slots it names, a request reads position *i* of its context at
slot *i* of its pages laid end to end, and a request is refused exactly if one of
its positions has no slot. `PagedCache` implements it with slot *s* at page
`s \div BlockSize`, offset `s % BlockSize` (`Flat`): the number of pages that a
context reaches into, the clamping of the last one, the padding and the mask come
to just that.

`FrozenBundles` has bundles as values, with no objects that anyone could share or
change. `BundleIdentity` implements it with the contents of its objects as the
value, so that `copy.deepcopy` at both ends is what makes a Python object with
mutable parts a value.

### `PublishWorkflow`: events, runs, jobs

`runs` has the run in progress of each of the two concurrency groups (all
publishing events; the weekly drift guard), `waiting` the one event that GitHub
keeps waiting, which a later one replaces. A run is its event, mode, source,
present job and the branches the job has still to see. `Request`, `Week` are the
triggers; `Plan` is `resolve-source`; `Build`, `Push`, `Published` the build and
publish jobs, branch by branch; `Verify` the two verify jobs in their order;
`PointTwin` the last one; `JobFails` any error, lost runner or time-out;
`OthersEdit` a change to the kernel repository by hand. A branch serves a commit
or something foreign: how a push respects other people's commits is
`Publisher`'s subject. `red` says that the last scheduled run failed. `met` and
`alone` (history) remember which branches have met what a run is about since it
was planned, and whether anybody edited by hand since.

### `HubImport`: cards and their record

`Fetch`, `Info`, `TakeCard` and `Write` are the requests and writes of `fetch`,
target by target; `Fail` is a failed request or a process killed before a step or
in the middle of writing a file; `VerifyAccepts` is `verify`. A revision is a
position in the history of its repository. Meanwhile the Hub changes
(`HubCommit`, `HubAccess`) and somebody changes a card file (`EditCard`). The
bytes of a card are compared with the tree of the same revision, whose blob id
is that of the file the revision resolves to; the failure of that comparison is
one of those that `Fail` stands for.

## 3. The runs

| Run | Instance | What it shows |
|---|---|---|
| `table_receipted` | 2 runs, 2 bundles, 2 blocks, strict, chain, 5 counted calls | `TypeOK`, `ServesOwnRegime`, `MissesToldApart`, `ReceiptsExplainTable`, `ReceiptsReplay`, `CountersMatchReceipts`, `EvictsOldestAdmission`, `RegimeMovesOnlyByEviction`, `ImplementsRegimeCache` |
| `table_unreceipted` | 3 blocks, no chain, one accepted and one refused argument type, 6 counted calls | `AddressBook`, `EveryBlockHasOnePlace`, `RunsAreLive` |
| `chain_damaged` | 2 values, 5 emissions, 3 alterations or losses | `TypeOK`, `VerifyFindsFirstUntrueRow`, `AcceptedIsNumbered`, `DigestNamesOneRow` |
| `kernel_repository` | 2 branches, the second not yet there; 2 sources, 2 commits of others, 1 fault; with fairness | `TypeOK`, `ReportedWasServed`, `NoCommitLost`, `UnmanagedFilesSurvive`, `EveryPushIsNeeded`, `ImplementsHubMirror`, `RunsConverge` |
| `model_twin` | 1 branch, a card and pruned paths | `ImplementsHubMirror`, `RunsConverge` |
| `bundle_identity` | 2 field names, 4 values (two with one canonical form, one with none), 3 deep copies | `ReusedUnderSameRegime`, `ImplementsFrozenBundles` |
| `paged_writes` | 3 pages of 2 slots, 2 writes of one or two tokens to any slots from -1 to 6, every context from -1 to 5 over shuffled, repeated, padded and invalid tables | `AttendsToLastWrites`, `ImplementsSlotStore` |
| `paged_serving` | 2 pages of 2 slots, 2 runs and 2 bundles, strict, 4 writes, requests of up to 2 blocks | `BoundPagesHoldTheirRows`, `AttendsUnderOwnRegime` |
| `table_serving` | the same over the table itself, `strict=False`, 2 blocks, 7 counted calls, 3 writes, requests of up to 2 blocks | `ImplementsPagedServing` |
| `publish_workflow` | 4 commits, one not reviewed and two with one content; 2 branches; 6 kinds of request, 3 of them made; 1 edit by hand; with fairness | `OnlyReviewedIsPublished`, `TwinFollowsKernel`, `DriftGuardIsSound`, `LostReleasesAreNoticed` |
| `hub_import` | 3 targets, two of one kind; 2 cards or none; 1 change of the Hub, 1 fault, 1 local change; with fairness | `FetchedIsAccepted`, `AcceptedIsTheHubs`, `RefreshRepairs` |
| `file_in_the_way` | the kernel repository, one commit of others | `OtherPathsAreKept` is violated, see below |

**Bounds.** `MaxCalls` bounds the calls that move a counter; refused and
idempotent calls are not limited, since they leave everything but `reply` as it
is. Two runs under two bundles make four addresses, twice what two blocks hold,
so five calls reach eviction, re-admission after eviction, rebinding of the
block whose turn it was to be evicted, and rejection. With a third block the
free list holds blocks in between and eviction comes after a longer history;
the chain is left out there because the log is what multiplies states. What the
bounds leave out is covered by the theorems, which have none. The chain's five
rows allow three losses with a survivor on either side.
`Runs`, `Bundles`, field names and payload values are only compared for equality, so their
permutations are symmetries; no run with symmetry checks liveness.
On the Hub, two commits of others reach everything two branches can disagree on:
both moved in one run, one moved twice, a version branch made by hand and then
committed to, a file put in the way and taken away. One fault is a crash, a lost
answer or a refusal at any step; one switch of source is a newer release or a
repair with an older one. Runs of the same source are not limited. The paths
stand for their kinds: built and managed, built and superseded, managed at the
root, unmanaged, pruned, and a file below a managed one.

Three deep copies are a bundle, one derived from it or its fields handed out, and
one more, so that every pair of the operations that share objects occurs with
mutations anywhere between. Two writes of two tokens are enough for a slot named
twice in one call, overwritten by another, and a page half written; contexts and
slots run from one below to one above what is admissible. On two pages a request
of two blocks can evict a page it has found itself, and four writes are a page
prepared, admitted, torn and filled again, or one prepared, given to another
address, filled for that and admitted at last. Over the table itself a page takes a
lookup and an admission, and the caller begins only what the calls left let it
end (`CallsFor`); seven are a request of two runs, its repetition under another
bundle that evicts or rebinds, and one call more. Three requests are a run in progress,
one waiting, and one that takes its place. Two targets of one kind and one of
another, with a change of the Hub between any two requests and a fault at any
one, make every mixture of an old record with new cards. The theorems have none
of these bounds.

**Deadlock** is checked in every run but `chain_damaged`, whose bounds on rows
and damage stop the model, not the code: in the others some call, run, week or
refresh is always possible.

**Fairness.** None is assumed of the package: it does nothing of its own accord,
a call returns or raises in one step, and nothing must eventually happen. The
three liveness properties are about scripts that somebody or something repeats:

* `Publisher!FairSpec`: a process that runs takes its next step (it is
  sequential code with time-outs) and the run is repeated again and again when
  there is no other (strong fairness, since dry runs may come in between). This
  is the condition of the claim that is checked, "repeated runs converge"
  (`szl_kernel_publish.py:22-23`). `RunsConverge` excludes a submodule left at a
  managed path for ever, on which every run fails by design.
* `PublishWorkflow!FairSpec`: the schedule fires every week, and a scheduled run
  comes to its end, since GitHub ends a job at its time limit. Nothing is assumed
  of the runs that publish: they may hang, fail or never be asked for, and each
  step of the scheduled run may be its failure.
* `HubImport!FairSpec`: a fetch that runs goes on, and `fetch` without arguments
  is repeated (strong fairness, since fetches of given targets come in between).
  `RefreshRepairs` is conditional on a record that can be refreshed.

The Hub, the others and the faults are never fair.

**What the run `file_in_the_way` shows.** "Other Hub paths are kept unless the
repository config lists them in `prune_paths`" (`szl_kernel_publish.py:17-18`)
does not hold of an unmanaged file whose name is in the way of a managed path: a
file called `build`, or files below a directory called `LICENSE`. Git's
`update-index` replaces such a file to make room. The push takes effect, and only
then `readback` compares the unmanaged files and fails the run; the next run
starts from a head that has lost the file and reports `NO_CHANGES`. The
behaviour was reproduced with the repository's own test fixture. Everything
else about unmanaged files holds (`UnmanagedFilesSurvive`), in the same instance.

**What each property is for.**

* `ServesOwnRegime` is the module's central claim ("there is no code path that
  returns a block keyed to another bundle"), checked on the answers themselves.
* `MissesToldApart` and `RunsAreLive`: `_runs` is maintained separately from
  the maps and only consulted on a miss.
* `AddressBook` is `audit()` and its converse. `audit()` compares `_by_key`
  with `_meta` from one side only, and its second loop compares a block's
  recorded bundle with itself, so it cannot report a block that serves two
  regimes; the invariant relates the recorded bundle to the address.
* `EveryBlockHasOnePlace`: blocks move between `_meta` and `_free` in six
  places of the code.
* `EvictsOldestAdmission` measures age by the receipts, not by the dict.
* `RegimeMovesOnlyByEviction`: what `strict` guarantees over a whole history.
* `ReceiptsExplainTable`: the log alone tells what is bound where. A rebinding
  writes no eviction receipt and is not counted as evicted, so a reader has to
  take a later `block_admit` for the same block as ending the earlier one.
* `ReceiptsReplay` asks more: a reader who has nothing but the log can check every
  receipt against those before it. Each hit, kind of miss, rejection and eviction
  was what the bindings told so far called for. It fails many calls after the
  mistake: if `admit` compared regimes after `_release` (`_invariant.py:256`), the call
  that raises would drop a binding that no receipt ends, and the log would show a
  later miss or a new admission of what it has as bound.
* `CountersMatchReceipts`: the counters and the log tell the same story.
* `VerifyFindsFirstUntrueRow`: soundness and completeness of `verify`, relative
  to what was emitted. The loss of the newest rows leaves a shorter chain whose
  rows are all true, and `verify` accepts it: the chain has no outside anchor.
* `NoCommitLost`, `UnmanagedFilesSurvive`: stated of the branch at the moment of
  the push, whatever moved since the run read its head.
* `ReportedWasServed`: a receipt of a run that pushed one branch, or none, says
  something about both; it must be true of each after the push.
* `EveryPushIsNeeded`: repeating a run over a branch that serves the source
  already adds no commit, whatever was pushed, lost or edited before. With
  `ImplementsHubMirror` it is the safe half of convergence: runs stop pushing
  once the branch serves the source.
* `RunsConverge`: partial pushes, lost answers and branches that have grown apart
  are repaired by doing the same again.
* `AcceptedIsNumbered`, `DigestNamesOneRow`: follow from the links although
  `verify` reads neither `seq` nor other rows.

* `ReusedUnderSameRegime`: the id is computed once, the fields live on; one
  shared object is enough to reuse a block in another regime.
* `AttendsToLastWrites` relates two computations that share no code: slot to
  page and offset by division in the write, page list to positions by slicing in
  the gather. It also fixes what may be relied on when a slot is named twice: one
  of the tokens, but not the same one for key and value.
* `BoundPagesHoldTheirRows` relates three records that no code compares: what the
  table binds, what the cache holds, what the caller meant. It names all the ways in which a bound block can hold
  something else. The table cannot take a binding back: a block bound after a
  miss whose page is never written (`FillFails`) is served as a hit from then on.
  A page that is written before `admit(physical=)` is overwritten even if that
  admission is then refused. Between its write and its admission a page is on the
  free list, and the table may give it to another address, which fills it; the
  admission that comes then binds rows of that other address. The drivers of the
  repository run into none of these: they write free pages only and name the block
  of each. The caller of the model is more general than they are.
* `ImplementsSlotStore`: the page arithmetic of `_gather_kv` and the slot
  arithmetic of `reshape_and_cache` are written separately and must be each
  other's inverse for every context length, full last pages included, and for
  the refusals as well: not one position more is readable than has a slot, and
  not one less.
* `ImplementsFrozenBundles`: aliasing is possible at four places (the
  constructor's argument, `derive`'s base and overrides, what `fields` returns),
  and a bundle is a value only if none of them leaks.
* `ImplementsPagedServing`: `PagedServing`'s results are about a table that is
  only promised. The existing one could refuse, evict or answer differently after
  some history of its lists; the caller would then read pages that
  `PagedServing` never lets it have.
* `AttendsUnderOwnRegime`: `lookup` neither pins a block nor refreshes its age
  (`_invariant.py:327`), so with as many blocks in a request as in the table an
  admission of the request can evict a page it has found already. What it then
  gathers twice is a page of its own regime and of one of its own runs all the
  same; only such a page is read for another run than the one it was found for.
* `OnlyReviewedIsPublished`: decided in the first job of a run, relied on two
  jobs later, with a queue in between.
* `TwinFollowsKernel`: three jobs after the push, the twin is pointed at a commit
  that every branch still serves unless somebody edited by hand, because the
  runs that publish share a concurrency group.
* `DriftGuardIsSound`: the guard runs beside publications, in a group of its own.
  A green one may have seen the two branches at different moments.
* `LostReleasesAreNoticed`: a waiting publication is dropped for *any* later event
  of its group, a dry run or a prerelease included, and no job is retried. Such
  a release is not lost silently: again and again the repository has the content
  of the latest release or the last scheduled run is red.
* `FetchedIsAccepted`: `fetch` names card files by kind. Two targets of one kind
  overwrite each other's card, and `verify` then refuses what `fetch` reported as
  done; this happens in no other case.
* `AcceptedIsTheHubs`: what `verify` accepts is right in the middle of a fetch and
  after a failed one too, when new cards stand beside an old record.
* `RefreshRepairs`: such a mixture is repaired by fetching again.

Each property has a mutant, an operator written beside the definition it
replaces that makes a plausible mistake (the eviction receipted late, the regime
memory forgotten whole, a released address kept, ...), under which TLC finds the
property violated.

## 4. The proofs

`BlockTableProofs` proves, for every set of runs and bundles, every capacity,
strict or not, receipted or not, and any number of calls, the theorems listed
below. The assumptions are those of `BlockTableAssumption`: a positive
capacity, flags that are Boolean, something that is not a bundle, and types
that are either accepted or refused.

**Inductive invariant.** `AddressBook`, `EveryBlockHasOnePlace` and
`RunsAreLive` are not inductive one by one: that a released pairing of run and
bundle may be forgotten needs that addresses are unique, that the evicted block
is live needs that the order lists the live blocks, that the popped block is
not bound needs the free list. `Consistent(t, aside)` is their conjunction for a table
`t` in which the blocks of `aside` are out of circulation. Between `_release`
or a pop and the binding, exactly one block is neither live nor free, so `admit`
is proved as a composition: `ReleaseConsistent`, `PopFreeConsistent`,
`TakeFreeConsistent`, `EvictThenPop` produce `Consistent(t, {p})`, and
`BindConsistent` closes it to `Consistent(t', {})`. Every branch of `admit`
then is an instance of `Binds`: one address, not bound before, is bound to
one block, and at most that block's earlier address is gone. The later theorems
are about `Binds`, not about the branches.

| Theorem | Establishes |
|---|---|
| `TableIsConsistent` | `[]Consistent(table, {})` |
| `AddressBookHolds`, `BlocksAreAccountedFor`, `RunsAreExact` | the three invariants it consists of |
| `NoForeignBlockIsServed`, `MissesAreToldApart` | `ServesOwnRegime`, `MissesToldApart`, with `Truthful` as the strengthening: the reply is true of the table |
| `TypeCorrect` | `TypeOK` |
| `RegimesAreKept` | `RegimeMovesOnlyByEviction` |
| `TableImplementsRegimeCache` | `Spec => Cache!Spec`, step by step |
| `ReceiptsTellBindings` | `ReceiptsExplainTable`, by what one appended receipt does to the receipts that still bind |
| `ReceiptsCanBeReplayed` | `ReceiptsReplay`, from `ReceiptsExplainTable`: what a reader takes to be bound is `byKey` (`BindingsAreBlocks`), so each new receipt is warranted by the table it was made from; older ones are not touched (`OneMoreReceipt`) |
| `CountersCountReceipts` | `CountersMatchReceipts`, from `Agree`: each counter is the number of the receipts of its kind |
| `OldestIsEvicted` | `EvictsOldestAdmission`, from `ByAge`: `order` lists the blocks by the age of their binding receipts |

`CountersMatchReceipts` and `EvictsOldestAdmission` do not look at the branches of `admit` either: `StepCounts` shows
once that a call with a chain changes nothing, notes one event, admits, or evicts
and admits, and what each does to counters, receipts and order.

**From the parts to the whole.** The same module proves the composition
`TableServing`. `SystemInv` is the invariant of the table together with `CallerOK`:
what the caller has noted and is about to ask for are addresses and block numbers
of the table, and what it has been told is missing is still missing when it admits
it; so every call it makes has acceptable arguments and gets one of the outcomes
it branches on. Each step then splits in two: `SystemStepIsTableStep` says it
is a step or a stutter of the table, so that all the theorems above hold behind
this caller; `SystemImplements` says it is a step of `PagedServing`, by the action
of `RegimeCache` that the call implements. With the theorems of
`PagedServingProofs`, instantiated for the table's maps, the two properties of
`PagedServing` follow for the program's own table, and no model of a promise
stands between them and the code.

| Theorem | Establishes |
|---|---|
| `CallerKeepsStep` | `SystemSpec => []SystemInv` |
| `SystemRunsTheTable` | `SystemSpec => Spec` |
| `TableServesRequests` | `ImplementsPagedServing` |
| `PagesOfTheTableAreTheirs` | `BoundPagesHoldTheirRows` over the table |
| `TableAttendsUnderOwnRegime` | `AttendsUnderOwnRegime` over the table: end to end, attention reads what was computed under the bundle and for the runs that were asked for, on every page that is not torn |

`PublisherProofs` proves, for any branches, sources, trees, paths in each
other's way and number of steps, of others' commits and of faults, the safety of
the publisher, from `PayloadAssumption` (what is managed is not pruned,
`parse_kernel`), `PathsAssumption` and `BranchesAssumption`.

**Inductive invariant.** `Planned` relates the run's private state to the Hub:
each head it has seen is a prefix of the branch now, and from `Plan` on each
candidate is the one over its base, which is not obstructed. `HubGrows` shows
that a step extends every branch, because `FastForward` lets a push take effect
only on the candidate's base; `PushMirrorsTip` that the tree which takes effect
is the mirror of the tip it replaces, and differs from it. `MirroredServes` says
that the mirror of a tree serves the source, and that a tree which serves it is
its own mirror; it needs that trees are Git trees and that what is managed is
not pruned. `ServedSoFar` adds, for the receipts, that
each branch a run has read back has been served since the push ended.

| Theorem | Establishes |
|---|---|
| `PlanHolds`, `PublisherTypes` | `[](TypeOK /\ Planned)`, `TypeOK` |
| `FastForwardOnly` | `NoCommitLost` |
| `UnmanagedSurvive` | `UnmanagedFilesSurvive` |
| `PushesAreNeeded` | `EveryPushIsNeeded` |
| `ReceiptsAreTrue` | `ReportedWasServed` |
| `PublisherImplementsHubMirror` | `Spec => Mirror!Spec` |

The other modules are proved in the same manner, for all their constants and
without the bounds of the runs.

`ReceiptChainProofs`, for any payloads, rows, alterations and losses.
Links and seals are local, and that is enough for the verdict on one row, but not
to exclude that after losses a row comes to stand after one it was not sealed
after and still links to it. `ChainInv` therefore relates every *pair* of rows:
no row's digest is among those an earlier one stands on (`past`), so digests of
rows that stand in the list together differ, and a link fits exactly where it was
made. `LinkedRowsAreNumbered` carries the numbers along the links as a state
invariant, in place of an induction over the list.

| Theorem | Establishes |
|---|---|
| `SealsAndLinksHold`, `ChainTypes` | `[]ChainInv`, `TypeOK` |
| `VerifyIsRight` | `VerifyFindsFirstUntrueRow` |
| `AcceptedChainsAreNumbered` | `AcceptedIsNumbered` |
| `DigestsNamePositions` | `DigestNamesOneRow` |

`BundleIdentityProofs`: `BundleInv` says that no object of a bundle is among
`mine` (`Private`), that every id is the digest of what its objects hold now
(`Named`) and that admitted ids are the digests of their regimes
(`AdmittedNamed`). Theorems `BundlesAreNamed`, `BundleTypes`,
`ReuseIsOfOneRegime` (`ReusedUnderSameRegime`). `BundlesAreValues`
(`ImplementsFrozenBundles`) maps each operation to a step of `FrozenBundles` or to
a stutter: only `Construct` and `Derive` make a bundle, and `Private` is why
`Mutate` and `Fields` leave every bundle's contents alone.

`PagedCacheProofs`: `PagedInv` says that each cell holds a token of the last
write to its slot. The lemmas are the arithmetic: floor and remainder find the
one cell of a slot, and one active page contributes each position of a context.
Theorems `CellsAreLastWrites`, `CacheTypes`, `AttentionSeesLastWrites`
(`AttendsToLastWrites`). `PagesLayOutSlots` (`ImplementsSlotStore`) is the
refinement of `SlotStore`: `PutIsWritten` and `FlatCell` carry a write from cells
to slots, `AdmissibleIsStorable` and `ReadableIsLegible` show that the checks of the
code accept exactly the calls whose slots exist, and `SeenIsLookedUp` that the
gathered pages, cut by the mask, are the slots of the context in order.

`PagedServingProofs`: `ServeInv` adds to `BoundPagesHoldTheirRows` that no two
addresses share a page (`OnePageEach`), what the caller's notes say of the table,
that a prepared page that is not lost holds what it was prepared for
(`PreparedOK`), and, page by page of the request in progress, that it is bound to a
run of the request under its bundle (`BoundToRun`), and to the very run it was
found for unless the request has displaced it itself (`StillOwn`). The first half
survives an admission of the request because what takes a page's place is again
one of its runs under its bundle. A write of a whole page is a permutation of
its cells whatever choice index assignment makes, since no slot is named twice.
Theorems `ServingHolds`, `ServingTypes`, `BoundPagesAreTheirs`,
`AttentionIsUnderOwnRegime`. The composition is over `RegimeCache`;
`TableServesRequests` carries it over to the table.

`PublishWorkflowProofs`: `WorkflowInv` says of each run who asked for it and what
its jobs have established (`WellPlanned`, `HasMet`), that what waits waits in its
own group, and that a run that publishes and is not disturbed by hand is served
from its publication to its end (`IsServed`). The last one is where the
concurrency group enters: a push belongs to the run of its group, which is then
in its publish job and not verifying. Theorems `RunsAreWellPlanned`,
`WorkflowTypes`, `ReviewedAndAskedFor` (`OnlyReviewedIsPublished`), `TwinIsServed`
(`TwinFollowsKernel`), `PassingGuardIsRight` (`DriftGuardIsSound`).

`HubImportProofs`: `ImportInv` says that entries are true of the Hub (histories
only grow) and that the card file of a kind is the card of one of the entries
that have been made for it. Theorems `EntriesStayTrue`, `ImportedCardsAreTheHubs`
(`AcceptedIsTheHubs`), `FetchedCardsAreAccepted` (`FetchedIsAccepted`).

The assumptions are the named ones of each module, which TLC evaluates in every
run: positive sizes, flags that are Boolean, special values that are none of the
ordinary ones, calls that are sequences of the right things.

Only model-checked: the liveness properties `RunsConverge`,
`LostReleasesAreNoticed` and `RefreshRepairs`, which the prover cannot reach. Every
safety property and every refinement of a passing run is proved.

## 5. Plan

Done, in the order in which it was planned: `ReceiptChain`, `BlockTable` with
`RegimeCache`, `HubTrees` and `Publisher` with `HubMirror`; then `PagedCache` and
`PagedServing`, `BundleIdentity`, `PublishWorkflow`, `HubImport`; and the proofs
of all of them; then the abstract specifications `SlotStore` and `FrozenBundles`, and
`TableServing`, the caller over the table itself, with its end-to-end theorems.

What could follow:

1. `PublishWorkflow` over instances of `Publisher`, so that the steps of a push
   and other people's commits interleave with the queue. Each of
   the two runs takes over a minute alone, so the composition would have to be
   with an abstract publisher over `HubMirror`'s branches.
2. `build_payload` and `parse_kernel` as functions on small configurations.

## 6. Not modelled

* Floating-point attention, tensor layouts, data types and devices. `paged_attn`
  accepts a context of length 0, over which attention has no defined value; the
  model shows that nothing is read then, and says nothing of the number.
* JSON and SHA3 below the injective digest, and truncated digests in receipts.
* The receipt that `paged_attn` appends when it is given a chain. It reads nothing
  back, and `ReceiptChain` has emissions of any payload.
* The bytes of the published payload: cards, metadata and the binding are a
  function of the commit and the configuration, and `content_key` stands for what
  the drift guard can tell apart.
* Runs for pull requests and the `only` input of a dispatch: the former build and
  reach nothing that is modelled, the latter selects among kernels, of which the
  configuration has one.
* The file list that the import records and `verify`'s comparison of it with the
  working tree.
* A payload that is not one Git tree, with a managed path below another managed
  file. `parse_kernel` does not refuse such a configuration, and the repository
  has none; `HubTrees` assumes that payloads are trees.
* Self-checks, the smoke test and benchmark timing: fixed straight-line drivers of
  components that are modelled.
* Cards, documentation and repository-hygiene workflows.
