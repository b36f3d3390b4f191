----------------------------- MODULE PagedCache -----------------------------
(***************************************************************************)
(* The paged cache of torch-ext/szl_block_kv/_ops.py: token values are     *)
(* scattered to numbered slots (reshape_and_cache) and gathered back page  *)
(* by page through block tables (paged_attn).                              *)
(*                                                                         *)
(* A token stands for its row of k and for its row of v; a cell holds a    *)
(* token or the zero it was allocated with.  The arithmetic of attention   *)
(* is left out: its result is a function of the keys and values the mask   *)
(* lets through, and these are what the model keeps.                       *)
(***************************************************************************)
EXTENDS Integers, Sequences, SequencesExt

CONSTANTS
  NumPages,    \* num_blocks
  BlockSize,   \* block_size
  Tokens, Zero,
  Writes,      \* calls of reshape_and_cache: tokens, and the slot of each
  Reads,       \* calls of paged_attn: block tables, and a context for each
  MaxWrites    \* bound on the successful writes

ASSUME PagedCacheAssumption ==
  /\ NumPages \in Nat /\ BlockSize \in Nat \ {0} /\ MaxWrites \in Nat
  /\ Zero \notin Tokens
  /\ Writes \subseteq [tokens : Seq(Tokens), slots : Seq(Int)]
  /\ Reads \subseteq [tables : Seq(Seq(Int)), contexts : Seq(Int)]

VARIABLES
  k, v,     \* the two tensors: page -> offset -> what it holds
  reply,    \* what the last call returned or raised
  stored,   \* slot -> the tokens the last write to it sent there (history)
  writes

vars == <<k, v, reply, stored, writes>>

Pages == 0 .. (NumPages - 1)
Offsets == 0 .. (BlockSize - 1)
Slots == 0 .. (NumPages * BlockSize - 1)

Cells == [Pages -> [Offsets -> Tokens \cup {Zero}]]

Init ==
  /\ k = [p \in Pages |-> [o \in Offsets |-> Zero]]
  /\ v = k
  /\ reply = [outcome |-> "none"]
  /\ stored = [s \in Slots |-> {Zero}]
  /\ writes = 0

(***************************************************************************)
(* Writing.                                                                *)
(***************************************************************************)
\* Every argument is checked before a cell is touched: one slot for each
\* token, which stands for the checks of shape, and every slot in range.
Admissible(call) ==
  /\ Len(call.tokens) = Len(call.slots)
  /\ \A i \in DOMAIN call.slots : call.slots[i] \in Slots

\* Token i of the call goes to offset o of page p.
GoesTo(call, i, p, o) ==
  /\ call.slots[i] \div BlockSize = p
  /\ call.slots[i] % BlockSize = o

\* Of several tokens sent to one slot, index assignment keeps one, and does
\* not say which: the choices of one token for each slot that is named.
Kept(call) ==
  {W \in SUBSET DOMAIN call.slots :
     /\ \A i \in DOMAIN call.slots : \E j \in W : call.slots[j] = call.slots[i]
     /\ \A i, j \in W : call.slots[i] = call.slots[j] => i = j}

IndexPut(cells, call, W) ==
  [p \in Pages |-> [o \in Offsets |->
     IF \E i \in W : GoesTo(call, i, p, o)
     THEN call.tokens[CHOOSE i \in W : GoesTo(call, i, p, o)]
     ELSE cells[p][o]]]

SentTo(call, s) ==
  {call.tokens[i] : i \in {j \in DOMAIN call.slots : call.slots[j] = s}}

\* k and v are assigned one after the other, each with its own choice.
ReshapeAndCache(call) ==
  /\ writes < MaxWrites
  /\ Admissible(call)
  /\ \E W \in Kept(call) : k' = IndexPut(k, call, W)
  /\ \E W \in Kept(call) : v' = IndexPut(v, call, W)
  /\ stored' = [s \in Slots |->
                  IF s \in ToSet(call.slots) THEN SentTo(call, s) ELSE stored[s]]
  /\ writes' = writes + 1
  /\ reply' = [outcome |-> "stored"]

WriteRefused(call) ==
  /\ ~Admissible(call)
  /\ reply' = [outcome |-> "ValueError"]
  /\ UNCHANGED <<k, v, stored, writes>>

(***************************************************************************)
(* Gathering and attending.                                                *)
(***************************************************************************)
\* Mutant: the partly filled last page is forgotten.
WholePages(context) == context \div BlockSize

\* The pages a context reaches into.
ActivePages(context) == (context + BlockSize - 1) \div BlockSize

\* Entries beyond the active pages may be anything, -1 in particular.
Readable(tables, contexts) ==
  /\ Len(contexts) = Len(tables)
  /\ \A b \in DOMAIN tables :
       /\ contexts[b] \in 0 .. Len(tables[b]) * BlockSize
       /\ \A j \in 1 .. ActivePages(contexts[b]) : tables[b][j] \in Pages

\* The positions that page number j, from 0, of a row contributes.
Start(j) == j * BlockSize
End(j, context) ==
  IF Start(j) + BlockSize <= context THEN Start(j) + BlockSize ELSE context
Contributes(j, context, i) == Start(j) <= i /\ i < End(j, context)

\* One row of _gather_kv's result, padded with zeros to the whole table.
GatheredRow(cells, table, context) ==
  [i \in 0 .. (Len(table) * BlockSize - 1) |->
     IF \E j \in 0 .. (ActivePages(context) - 1) : Contributes(j, context, i)
     THEN LET j == CHOOSE n \in 0 .. (ActivePages(context) - 1) : Contributes(n, context, i)
          IN cells[table[j + 1]][i - Start(j)]
     ELSE Zero]

\* Mutant: the mask lets one position too many through.
MaskOneMore(table, context) ==
  {i \in 0 .. (Len(table) * BlockSize - 1) : i <= context}

\* key_mask.
Visible(table, context) ==
  {i \in 0 .. (Len(table) * BlockSize - 1) : i < context}

\* What one row of the result depends on: positions with their key and value.
Seen(table, context) ==
  {[at |-> i, key |-> GatheredRow(k, table, context)[i],
    val |-> GatheredRow(v, table, context)[i]] : i \in Visible(table, context)}

\* The default causal=True is refused before anything else is looked at.
AttnError(call, causal) == IF causal THEN "NotImplementedError" ELSE "ValueError"

PagedAttnRefused(call, causal) ==
  /\ causal \/ ~Readable(call.tables, call.contexts)
  /\ reply' = [outcome |-> AttnError(call, causal)]
  /\ UNCHANGED <<k, v, stored, writes>>

PagedAttn(call) ==
  /\ Readable(call.tables, call.contexts)
  /\ reply' = [outcome |-> "attended", call |-> call,
               seen |-> [b \in DOMAIN call.tables |->
                           Seen(call.tables[b], call.contexts[b])]]
  /\ UNCHANGED <<k, v, stored, writes>>

Next ==
  \/ \E call \in Writes : ReshapeAndCache(call) \/ WriteRefused(call)
  \/ \E call \in Reads :
       PagedAttn(call) \/ \E causal \in BOOLEAN : PagedAttnRefused(call, causal)

Spec == Init /\ [][Next]_vars

-----------------------------------------------------------------------------
\* Both tensors keep their shape; a slot's history names what it can hold.
TypeOK ==
  /\ k \in Cells /\ v \in Cells
  /\ stored \in [Slots -> SUBSET (Tokens \cup {Zero})]
  /\ writes \in 0 .. MaxWrites
  /\ "outcome" \in DOMAIN reply

\* Attention sees the whole context and nothing else, and at every position of
\* it what the last write to that slot of its page sent there: scattering by
\* floor and remainder and gathering page by page address the same cells, for
\* partly filled pages, empty contexts, shared and repeated pages.
AttendsToLastWrites ==
  reply.outcome = "attended" =>
    \A b \in DOMAIN reply.call.tables :
      LET table == reply.call.tables[b]
          slot(i) == table[(i \div BlockSize) + 1] * BlockSize + (i % BlockSize)
      IN /\ {row.at : row \in reply.seen[b]} = 0 .. (reply.call.contexts[b] - 1)
         /\ \A row \in reply.seen[b] :
              row.key \in stored[slot(row.at)] /\ row.val \in stored[slot(row.at)]

\* What a slot holds is what the cell of its page and offset holds.
Flat(cells) == [s \in Slots |-> cells[s \div BlockSize][s % BlockSize]]

Store == INSTANCE SlotStore WITH keys <- Flat(k), vals <- Flat(v)

\* Pages and offsets are only a way to lay out numbered slots: what a slot was
\* given it holds until it is written again, whichever pages are written and
\* read meanwhile and through whichever tables, and the only requests refused
\* are those with a position that has no slot.
ImplementsSlotStore == Store!Spec
=============================================================================
