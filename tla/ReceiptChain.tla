---------------------------- MODULE ReceiptChain ----------------------------
(***************************************************************************)
(* The receipt chain of torch-ext/szl_block_kv/_chain.py: an append-only   *)
(* list of rows, each sealed by a digest over its payload, its position    *)
(* and the digest of the row before.                                       *)
(*                                                                         *)
(* verify() exists because the list is ordinary mutable memory: emit       *)
(* copies a payload one level deep, so a row's nested values stay shared   *)
(* with whoever emitted it, and nothing guards the list itself.  The model *)
(* therefore lets a stored value change after it was sealed (Alias) and a  *)
(* row disappear (Lose), while emission goes on.                           *)
(*                                                                         *)
(* The digest is a term over its argument, hence collision free.           *)
(***************************************************************************)
EXTENDS Integers, SequencesExt

CONSTANTS
  Values,      \* values a payload can carry
  MaxRows,     \* bound on the rows ever emitted
  MaxDamage    \* bound on alterations and losses

None == "none"

ASSUME ReceiptChainAssumption ==
  MaxRows \in Nat /\ MaxDamage \in Nat /\ None \notin Values

VARIABLES
  rows,      \* _rows
  history,   \* parallel to rows: each row as it was sealed, its number in the
             \* order of emission, the number of the row it followed, and the
             \* digests it stands on
  emitted,   \* number of rows emitted
  damaged    \* number of alterations and losses

vars == <<rows, history, emitted, damaged>>

\* No digest.
GENESIS == <<"genesis">>

\* A payload is a dict: one value, and possibly an entry of its own that is
\* called "digest".
Payloads == [value : Values, digest : {None} \cup Values]

\* Mutant: position and predecessor are left out of the digest.
PayloadDigest(body) == <<"sha3", body.value, body.digest>>

\* _sha3(_canon(body)).
Digest(body) == <<"sha3", body>>

\* What a row is sealed over: the payload with seq and prev set.
Sealed(payload, seq, prev) ==
  [value |-> payload.value, digest |-> payload.digest,
   seq |-> seq, prev |-> prev]

\* head(), or GENESIS for emit and verify where there is no row yet.
DigestBefore(i) == IF i = 1 THEN GENESIS ELSE rows[i - 1].digest

\* Mutant: rows are numbered from one.
RowNumberedFromOne(payload) ==
  LET body == Sealed(payload, Len(rows) + 1, DigestBefore(Len(rows) + 1))
  IN  [body EXCEPT !.digest = Digest(body)]

\* The row emit appends: the digest entry replaces the payload's own.
NewRow(payload) ==
  LET body == Sealed(payload, Len(rows), DigestBefore(Len(rows) + 1))
  IN  [body EXCEPT !.digest = Digest(body)]

\* The body verify digests again: the row without its digest entry.
Body(row) == [row EXCEPT !.digest = None]

\* Mutants: verify compares the link only, or the digest only.
LinkBroken(i) == rows[i].prev # DigestBefore(i)
SealBroken(i) == Digest(Body(rows[i])) # rows[i].digest

\* The test verify makes of row i.  It compares with the digest stored in
\* the row before, which is what it carries along.
BadRow(i) ==
  \/ rows[i].prev # DigestBefore(i)
  \/ Digest(Body(rows[i])) # rows[i].digest

First(S) == CHOOSE i \in S : \A j \in S : i <= j

\* verify(): (True, number of rows, -1), or (False, i, i) with the index,
\* from 0, of the first bad row.
Verify ==
  LET bad == {i \in DOMAIN rows : BadRow(i)}
  IN  IF bad = {} THEN <<TRUE, Len(rows), -1>>
      ELSE <<FALSE, First(bad) - 1, First(bad) - 1>>

-----------------------------------------------------------------------------
Init ==
  /\ rows = << >>
  /\ history = << >>
  /\ emitted = 0
  /\ damaged = 0

\* emit(payload).
Emit(payload) ==
  /\ emitted < MaxRows
  /\ rows' = Append(rows, NewRow(payload))
  /\ emitted' = emitted + 1
  /\ history' = Append(history,
                  [row |-> NewRow(payload), number |-> emitted + 1,
                   after |-> IF history = << >> THEN 0
                             ELSE Last(history).number,
                   past |-> IF history = << >> THEN {}
                            ELSE Last(history).past
                                   \cup {Last(history).row.digest}])
  /\ UNCHANGED damaged

\* A nested value shared with the emitter is changed under the row.
Alias(i, value) ==
  /\ damaged < MaxDamage
  /\ rows[i].value # value
  /\ rows' = [rows EXCEPT ![i].value = value]
  /\ damaged' = damaged + 1
  /\ UNCHANGED <<history, emitted>>

\* A row is dropped from the list.
Lose(i) ==
  /\ damaged < MaxDamage
  /\ rows' = RemoveAt(rows, i)
  /\ history' = RemoveAt(history, i)
  /\ damaged' = damaged + 1
  /\ UNCHANGED emitted

Next ==
  \/ \E payload \in Payloads : Emit(payload)
  \/ \E i \in DOMAIN rows : \E value \in Values : Alias(i, value)
  \/ \E i \in DOMAIN rows : Lose(i)

Spec == Init /\ [][Next]_vars

-----------------------------------------------------------------------------
\* Counters and lists stay parallel; every row carries its four entries.
TypeOK ==
  /\ emitted \in 0 .. MaxRows
  /\ damaged \in 0 .. MaxDamage
  /\ Len(rows) = Len(history)
  /\ \A i \in DOMAIN rows :
       /\ DOMAIN rows[i] = {"value", "digest", "seq", "prev"}
       /\ rows[i].value \in Values
       /\ rows[i].seq \in 0 .. (MaxRows - 1)
       /\ history[i].number \in 1 .. emitted

\* Row i no longer is what was sealed, or no longer follows the row it was
\* sealed after, or was emitted with a digest entry that emit overwrote.
Untrue(i) ==
  \/ rows[i] # history[i].row
  \/ history[i].after # (IF i = 1 THEN 0 ELSE history[i - 1].number)
  \/ \E v \in Values :
       rows[i].digest = Digest([history[i].row EXCEPT !.digest = v])

\* verify accepts exactly the chains in which every row is as it was emitted
\* and where it was emitted, and otherwise points at the first that is not:
\* neither a change nor a gap goes unnoticed, and no intact chain is refused.
VerifyFindsFirstUntrueRow ==
  LET untrue == {i \in DOMAIN rows : Untrue(i)}
  IN  Verify = IF untrue = {} THEN <<TRUE, Len(rows), -1>>
               ELSE <<FALSE, First(untrue) - 1, First(untrue) - 1>>

\* verify never looks at seq, yet in a chain it accepts the rows are
\* numbered 0, 1, 2, ... without a gap or a repetition.
AcceptedIsNumbered ==
  Verify[1] => \A i \in DOMAIN rows : rows[i].seq = i - 1

\* Two rows never carry the same digest, equal payloads included: a receipt
\* digest names one position.
DigestNamesOneRow ==
  Verify[1] =>
    \A i, j \in DOMAIN rows : rows[i].digest = rows[j].digest => i = j
=============================================================================
