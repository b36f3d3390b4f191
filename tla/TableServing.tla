---------------------------- MODULE TableServing ----------------------------
(***************************************************************************)
(* The caller of PagedServing over the block table itself: its lists, its  *)
(* first-in first-out evictions, its counters and receipts.  The caller    *)
(* passes token runs of some integral type, names a block or none, and     *)
(* branches on what the call returned; the parts of its steps that do not  *)
(* call the table are those of PagedServing.                               *)
(***************************************************************************)
EXTENDS BlockTableProperties

CONSTANTS BlockSize, Zero,
          MaxWrites,    \* bound on the writes
          MaxRequest    \* bound on the blocks of a request

VARIABLES
  keyCache, valueCache,   \* the two tensors of the paged cache
  gathered,               \* the cache's last reply
  stored, writes, prepared, missing, request, torn, lost, displaced   \* as there

Serving == INSTANCE PagedServing WITH
  held <- table.byKey, answer <- reply,
  k <- keyCache, v <- valueCache, reply <- gathered, evicted <- displaced

callerVars ==
  <<keyCache, valueCache, gathered, stored, writes,
    prepared, missing, request, torn, lost, displaced>>

ASSUME TableServingAssumption ==
  /\ BlockSize \in Nat \ {0} /\ MaxWrites \in Nat /\ MaxRequest \in Nat
  /\ Zero \notin Serving!Rows

SystemInit == Init /\ Serving!Init

\* Bound of the model: what the caller begins, the calls left let it end.
CallsFor(n) == Calls + n <= MaxCalls

\* The caller's calls of the table: an address as a token list and a bundle.
LookUp(a) ==
  \E type \in IntegralTypes : Lookup([ids |-> a.tokens, type |-> type], a.bundle)

AdmitAnywhere(a) ==
  \E type \in IntegralTypes :
    Admit([ids |-> a.tokens, type |-> type], a.bundle, NoPhysical)

AdmitNumbered(a, p) ==
  \E type \in IntegralTypes :
    Admit([ids |-> a.tokens, type |-> type], a.bundle,
          [given |-> TRUE, type |-> type, val |-> p])

\* A page written ahead is admitted by its number; CrossRegimeError, if it is
\* raised, is the caller's to ignore.
AdmitPrepared(p) ==
  /\ Serving!Idle
  /\ AdmitNumbered(prepared[p], p)
  /\ Serving!NoLongerPrepared(p)

\* `physical is None' tells a miss.
LookUpNext ==
  /\ Serving!Looking /\ ~request.missed
  /\ LookUp(Serving!Wanted)
  /\ IF reply'.physical = -1 THEN Serving!NoteMiss ELSE Serving!NotePage

AdmitNext ==
  /\ Serving!Looking /\ request.missed
  /\ AdmitAnywhere(Serving!Wanted)
  /\ Serving!NotePageToFill

\* What the caller does without the table.
OutsideTable ==
  /\ UNCHANGED vars
  /\ \/ /\ CallsFor(Cardinality(DOMAIN prepared) + 1)
        /\ \E p \in Physicals, a \in Keys : Serving!Prepare(p, a)
     \/ \E bundle \in Bundles, runs \in SeqOf(Runs, MaxRequest) :
          CallsFor(Cardinality(DOMAIN prepared) + 2 * Len(runs)) /\ Serving!Ask(bundle, runs)
     \/ Serving!GiveUp \/ Serving!Fill \/ Serving!FillFails \/ Serving!Attend

SystemNext ==
  \/ \E p \in DOMAIN prepared : AdmitPrepared(p)
  \/ LookUpNext \/ AdmitNext \/ OutsideTable

SystemSpec == SystemInit /\ [][SystemNext]_<<vars, callerVars>>

-----------------------------------------------------------------------------
\* The table that exists serves as the table that is promised: whatever the
\* free list, the order of the dict and the regime memory come to, the caller
\* gets the answers and the pages that PagedServing lets it get, so what is
\* shown there of its requests holds of the program's own table.
ImplementsPagedServing == Serving!Spec
=============================================================================
