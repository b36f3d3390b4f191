----------------------------- MODULE HubImport ------------------------------
(***************************************************************************)
(* scripts/hf_hub_import.py: the card of a public Hub repository is copied *)
(* into hf/hub-import/ and recorded, with the revision it came from, in    *)
(* IMPORT.json.  fetch asks the Hub several times for every target, writes *)
(* each card as it gets it and the record at the end; verify compares the  *)
(* record with the cards, offline.                                         *)
(*                                                                         *)
(* A revision is a number into the history of its repository.  Cards are   *)
(* values, equal exactly when their blob ids are.  The record's file list  *)
(* and its comparison with the working tree are left out.                  *)
(***************************************************************************)
EXTENDS Integers, Sequences, SequencesExt

CONSTANTS
  Repos, KindOf,   \* targets <kind>:<repo_id>, and the kind of each
  Cards, NoCard,   \* what README.md may hold, and its absence
  Arguments,       \* sequences of targets given on the command line
  MaxChanges,      \* bound on the changes to the Hub
  MaxFaults,       \* bound on the failed requests and killed processes
  MaxEdits         \* bound on the local changes to card files

ASSUME HubImportAssumption ==
  /\ DOMAIN KindOf = Repos
  /\ NoCard \notin Cards
  /\ Arguments \subseteq Seq(Repos)
  /\ MaxChanges \in Nat /\ MaxFaults \in Nat /\ MaxEdits \in Nat

VARIABLES
  open,      \* the targets that are neither private nor gated
  cards,     \* target -> README.md at each revision, the newest last
  files,     \* kind -> hf/hub-import/<kind>.README.md, or NoCard
  record,    \* IMPORT.json's entries; << >>: it is missing or not readable
  at,        \* where a fetch is, "idle" when there is none
  targets, done, pinned,   \* what it was asked for, its entries so far, and the
                           \* revision it has taken for the present target
  exit,      \* the exit code of the last fetch, -1 while it runs
  edited,    \* a card file was changed since that fetch began (history)
  changes, faults, edits

hubVars == <<open, cards>>
budgets == <<changes, faults, edits>>
vars == <<hubVars, files, record, at, targets, done, pinned, exit, edited, budgets>>

Kinds == {KindOf[r] : r \in Repos}
Target == targets[Len(done) + 1]

Init ==
  /\ open = Repos
  /\ cards \in [Repos -> {<<c>> : c \in Cards \cup {NoCard}}]
  /\ files = [kind \in Kinds |-> NoCard]
  /\ record = << >>
  /\ at = "idle" /\ targets = << >> /\ done = << >> /\ pinned = 0
  /\ exit = 0 /\ edited = FALSE
  /\ changes = 0 /\ faults = 0 /\ edits = 0

(***************************************************************************)
(* fetch.                                                                  *)
(***************************************************************************)
Exit(code) ==
  /\ at' = "idle" /\ exit' = code
  /\ targets' = << >> /\ done' = << >> /\ pinned' = 0

\* The targets of the command line, or else those of the record.
Chosen(arguments) ==
  IF arguments # << >> THEN arguments ELSE [i \in DOMAIN record |-> record[i].target]

Fetch(arguments) ==
  /\ at = "idle"
  /\ IF Chosen(arguments) = << >>
       THEN Exit(2) /\ UNCHANGED edited      \* no IMPORT.json to refresh
       ELSE /\ targets' = Chosen(arguments)
            /\ at' = "info" /\ exit' = -1 /\ edited' = FALSE
            /\ UNCHANGED <<done, pinned>>
  /\ UNCHANGED <<hubVars, files, record, budgets>>

\* The info of the repository gives the revision for the requests that follow.
Info ==
  /\ at = "info"
  /\ IF Target \in open
       THEN /\ pinned' = Len(cards[Target]) /\ at' = "card"
            /\ UNCHANGED <<targets, done, exit>>
       ELSE Exit(1)
  /\ UNCHANGED <<hubVars, files, record, edited, budgets>>

\* README.md in the tree at that revision.
InTree == cards[Target][pinned]

\* The bytes the Hub resolves at the revision; its blob id is in the tree.
Bytes == cards[Target][pinned]

\* Mutant: a file that is there already is not written again.
OnlyFirstCard(kind, bytes) ==
  IF files[kind] = NoCard THEN [files EXCEPT ![kind] = bytes] ELSE files

CardWritten(kind, bytes) == [files EXCEPT ![kind] = bytes]

Entry == [target |-> Target, revision |-> pinned, card |-> InTree]

\* Bytes that are not the tree's are an error, which writes nothing.
TakeCard ==
  /\ at = "card"
  /\ IF InTree # NoCard /\ Bytes # InTree
       THEN Exit(1) /\ UNCHANGED files
       ELSE /\ files' = IF InTree = NoCard THEN files
                        ELSE CardWritten(KindOf[Target], Bytes)
            /\ done' = Append(done, Entry)
            /\ at' = IF Len(done') = Len(targets) THEN "write" ELSE "info"
            /\ UNCHANGED <<targets, pinned, exit>>
  /\ UNCHANGED <<hubVars, record, edited, budgets>>

Write ==
  /\ at = "write"
  /\ record' = done
  /\ Exit(0)
  /\ UNCHANGED <<hubVars, files, edited, budgets>>

\* A request fails, or the process is killed: while it writes a file, that file
\* is cut short.
Fail ==
  /\ at # "idle" /\ faults < MaxFaults
  /\ faults' = faults + 1
  /\ \/ UNCHANGED <<files, record>>
     \/ /\ at = "card" /\ InTree # NoCard
        /\ files' = CardWritten(KindOf[Target], "cut short")
        /\ UNCHANGED record
     \/ /\ at = "write"
        /\ record' = << >>
        /\ UNCHANGED files
  /\ Exit(1)
  /\ UNCHANGED <<hubVars, edited, changes, edits>>

(***************************************************************************)
(* verify.  That counts, formats and the record's own blob ids agree holds *)
(* of every record that fetch writes.                                      *)
(***************************************************************************)
\* Mutant: only the presence of the card is checked.
FileMissing(entry) == entry.card # NoCard /\ files[KindOf[entry.target]] = NoCard

\* The file is missing, or its blob id is not the recorded one.
CardProblem(entry) == entry.card # NoCard /\ files[KindOf[entry.target]] # entry.card

VerifyAccepts ==
  /\ record # << >>
  /\ \A i \in DOMAIN record : ~CardProblem(record[i])

(***************************************************************************)
(* The Hub and the working tree change meanwhile.                          *)
(***************************************************************************)
HubCommit(r, card) ==
  /\ changes < MaxChanges /\ changes' = changes + 1
  /\ cards' = [cards EXCEPT ![r] = Append(@, card)]
  /\ UNCHANGED <<open, files, record, at, targets, done, pinned, exit, edited, faults, edits>>

HubAccess(r) ==
  /\ changes < MaxChanges /\ changes' = changes + 1
  /\ open' = IF r \in open THEN open \ {r} ELSE open \cup {r}
  /\ UNCHANGED <<cards, files, record, at, targets, done, pinned, exit, edited, faults, edits>>

EditCard(kind, card) ==
  /\ edits < MaxEdits /\ edits' = edits + 1
  /\ files' = [files EXCEPT ![kind] = card]
  /\ edited' = TRUE
  /\ UNCHANGED <<hubVars, record, at, targets, done, pinned, exit, changes, faults>>

Step == Info \/ TakeCard \/ Write

Next ==
  \/ \E arguments \in Arguments : Fetch(arguments)
  \/ Step
  \/ Fail
  \/ \E r \in Repos :
       HubAccess(r) \/ \E card \in Cards \cup {NoCard} : HubCommit(r, card)
  \/ \E kind \in Kinds, card \in Cards \cup {NoCard} : EditCard(kind, card)

Spec == Init /\ [][Next]_vars

\* A fetch that runs goes on, and the import is refreshed from its own record
\* again and again.
FairSpec == Spec /\ WF_vars(Step) /\ SF_vars(Fetch(<< >>))

-----------------------------------------------------------------------------
Entries == [target : Repos, revision : Nat, card : Cards \cup {NoCard}]

TypeOK ==
  /\ open \subseteq Repos
  /\ cards \in [Repos -> Seq(Cards \cup {NoCard})]
  /\ files \in [Kinds -> Cards \cup {NoCard, "cut short"}]
  /\ record \in Seq(Entries) /\ done \in Seq(Entries) /\ targets \in Seq(Repos)
  /\ at \in {"idle", "info", "card", "write"}
  /\ exit \in {-1, 0, 1, 2} /\ edited \in BOOLEAN

\* Of two entries of one kind, which have one card file, not both have a card or
\* both have the same.
KindsAgree(entries) ==
  \A i, j \in DOMAIN entries :
    KindOf[entries[i].target] = KindOf[entries[j].target] =>
      entries[i].card = NoCard \/ entries[j].card = NoCard
        \/ entries[i].card = entries[j].card

\* verify accepts what a successful fetch leaves, even if the Hub moves between
\* its requests and after partial fetches before it: unless the cards of two
\* targets of one kind have overwritten each other, and exactly then.
FetchedIsAccepted ==
  exit = 0 /\ record # << >> /\ ~edited => (VerifyAccepts <=> KindsAgree(record))

\* "Imported cards match their recorded digests": whenever verify accepts, in
\* the middle of a fetch or after a failed one too, every card file is the
\* README.md of its target at the recorded revision on the Hub.
AcceptedIsTheHubs ==
  VerifyAccepts =>
    \A i \in DOMAIN record :
      LET e == record[i]
          onHub == cards[e.target][e.revision]
      IN IF onHub = NoCard THEN e.card = NoCard ELSE files[KindOf[e.target]] = onHub

\* Repairing: a partial fetch leaves new cards beside an old record.  Refreshing
\* it until it succeeds repairs that, as long as there is a record to refresh,
\* its repositories stay public and no two cards share a file.
RefreshRepairs ==
  <>[](/\ record # << >>
       /\ \A i \in DOMAIN record : record[i].target \in open
       /\ \A i, j \in DOMAIN record :
            i # j => KindOf[record[i].target] # KindOf[record[j].target])
    => []<>VerifyAccepts
=============================================================================
