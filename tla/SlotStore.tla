------------------------------ MODULE SlotStore ------------------------------
(***************************************************************************)
(* What the paged cache promises: one array of numbered slots for keys and *)
(* one for values.  A write replaces the slots it names and no others; a   *)
(* request reads position i of its context at slot i of its pages laid end *)
(* to end, and is refused exactly if a position has no slot.  Nothing here *)
(* is said of pages of a tensor, offsets into them, last pages that are    *)
(* partly filled, padding or masks.                                        *)
(***************************************************************************)
EXTENDS Integers, Sequences, Functions

CONSTANTS NumPages, BlockSize, Tokens, Zero, Writes, Reads

VARIABLES keys, vals,   \* slot -> what it holds
          reply         \* what the last call returned or raised

vars == <<keys, vals, reply>>

Slots == 0 .. (NumPages * BlockSize - 1)
Empty == [s \in Slots |-> Zero]

Init == keys = Empty /\ vals = Empty /\ reply = [outcome |-> "none"]

Storable(call) ==
  Len(call.slots) = Len(call.tokens) /\ Range(call.slots) \subseteq Slots

\* Every slot that is named holds one of the tokens that name it.
Written(cells, call, new) ==
  /\ new \in [Slots -> Tokens \cup {Zero}]
  /\ \A s \in Slots :
       IF s \in Range(call.slots)
       THEN \E i \in DOMAIN call.slots : call.slots[i] = s /\ new[s] = call.tokens[i]
       ELSE new[s] = cells[s]

Store(call) ==
  /\ reply' = [outcome |-> "stored"]
  /\ Storable(call)
  /\ Written(keys, call, keys') /\ Written(vals, call, vals')

\* Where position i of a context lies.
HasSlot(table, i) ==
  (i \div BlockSize) + 1 \in DOMAIN table /\ table[(i \div BlockSize) + 1] \in 0 .. (NumPages - 1)
SlotAt(table, i) == table[(i \div BlockSize) + 1] * BlockSize + (i % BlockSize)

Legible(call) ==
  /\ Len(call.contexts) = Len(call.tables)
  /\ \A b \in DOMAIN call.tables :
       /\ call.contexts[b] >= 0
       /\ \A i \in 0 .. (call.contexts[b] - 1) : HasSlot(call.tables[b], i)

Lookup(table, i) ==
  [at |-> i, key |-> keys[SlotAt(table, i)], val |-> vals[SlotAt(table, i)]]

Attend(call) ==
  /\ Legible(call)
  /\ reply' = [outcome |-> "attended", call |-> call,
               seen |-> [b \in DOMAIN call.tables |->
                  {Lookup(call.tables[b], i) : i \in 0 .. (call.contexts[b] - 1)}]]
  /\ UNCHANGED <<keys, vals>>

\* A call that raises changes nothing.
Refuse(error) ==
  reply' = [outcome |-> error] /\ UNCHANGED <<keys, vals>>

Next ==
  \/ \E call \in Writes : Store(call) \/ (Refuse("ValueError") /\ ~Storable(call))
  \/ \E call \in Reads :
       \/ Attend(call)
       \/ Refuse("ValueError") /\ ~Legible(call)
       \/ Refuse("NotImplementedError")   \* causal=True, the default

Spec == Init /\ [][Next]_vars
=============================================================================
