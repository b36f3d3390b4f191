--------------------------- MODULE HubImportProofs ---------------------------
(***************************************************************************)
(* That a record names what the Hub served, and that verify accepts what a *)
(* fetch leaves, for any targets, cards, histories and failures: the Hub's *)
(* histories only grow, so that an entry once true stays true, and a fetch *)
(* leaves, for each kind it has met a card of, one of those cards.         *)
(***************************************************************************)
EXTENDS HubImport, SequenceTheorems, TLAPS

\* Where a fetch is, it has something left to do, and a revision it can use.
OnItsWay ==
  /\ \A r \in Repos : Len(cards[r]) >= 1
  /\ IF at = "idle" THEN done = << >> ELSE exit = -1
  /\ at \in {"info", "card"} => Len(done) < Len(targets)
  /\ at = "card" => pinned \in 1 .. Len(cards[Target])

\* Entries name a revision of the Hub and its card.
TrueOfHub(entries) ==
  \A i \in DOMAIN entries :
    /\ entries[i].revision \in 1 .. Len(cards[entries[i].target])
    /\ entries[i].card = cards[entries[i].target][entries[i].revision]

\* The card file of a kind is the card of one of the entries of that kind.
Filed(entries) ==
  \A i \in DOMAIN entries : entries[i].card # NoCard =>
    \E j \in DOMAIN entries :
      /\ entries[j].card # NoCard
      /\ KindOf[entries[j].target] = KindOf[entries[i].target]
      /\ files[KindOf[entries[i].target]] = entries[j].card

ImportInv ==
  /\ TypeOK
  /\ OnItsWay
  /\ TrueOfHub(record) /\ TrueOfHub(done)
  /\ ~edited /\ at # "idle" => Filed(done)
  /\ ~edited /\ exit = 0 => Filed(record)

-----------------------------------------------------------------------------
LEMMA NoEntries ==
  /\ << >> \in Seq(Entries) /\ << >> \in Seq(Repos)
  /\ DOMAIN << >> = {} /\ Len(<< >>) = 0
OBVIOUS

\* The history of a repository is a sequence of cards.
LEMMA History ==
  ASSUME TypeOK, NEW r \in Repos
  PROVE  /\ cards[r] \in Seq(Cards \cup {NoCard}) /\ Len(cards[r]) \in Nat
         /\ \A n \in 1 .. Len(cards[r]) : cards[r][n] \in Cards \cup {NoCard}
<1>1. cards[r] \in Seq(Cards \cup {NoCard})
  BY DEF TypeOK
<1>. QED BY <1>1, LenProperties, ElementOfSeq

\* An entry names a repository.
LEMMA EntryTarget ==
  ASSUME NEW entries \in Seq(Entries), NEW i \in DOMAIN entries
  PROVE  entries[i].target \in Repos
<1>1. entries[i] \in Entries
  BY ElementOfSeq, LenProperties
<1>. QED BY <1>1 DEF Entries

LEMMA ImportInit == Init => ImportInv
<1>. SUFFICES ASSUME Init PROVE ImportInv
  OBVIOUS
<1>1. \A r \in Repos : cards[r] \in Seq(Cards \cup {NoCard}) /\ Len(cards[r]) = 1
  <2>1. ASSUME NEW r \in Repos
        PROVE  cards[r] \in Seq(Cards \cup {NoCard}) /\ Len(cards[r]) = 1
    <3>1. PICK c \in Cards \cup {NoCard} : cards[r] = <<c>>
      BY DEF Init
    <3>. QED BY <3>1
  <2>. QED BY <2>1
<1>2. cards \in [Repos -> Seq(Cards \cup {NoCard})]
  BY <1>1 DEF Init
<1>3. TypeOK
  <2>1. << >> \in Seq(Entries) /\ << >> \in Seq(Repos)
    BY NoEntries
  <2>2. files \in [Kinds -> Cards \cup {NoCard, "cut short"}]
    BY DEF Init
  <2>. QED BY <1>2, <2>1, <2>2 DEF Init, TypeOK
<1>4. OnItsWay
  <2>1. at = "idle" /\ done = << >>
    BY DEF Init
  <2>2. \A r \in Repos : Len(cards[r]) >= 1
    BY <1>1
  <2>. QED BY <2>1, <2>2 DEF OnItsWay
<1>5. TrueOfHub(record) /\ TrueOfHub(done) /\ Filed(record)
  BY DEF Init, TrueOfHub, Filed
<1>. QED BY <1>3, <1>4, <1>5 DEF ImportInv, Init

\* The end of a fetch, good or bad, leaves entries true and nothing on the way.
LEMMA ExitStep ==
  ASSUME ImportInv, NEW code \in {0, 1, 2}, Exit(code), UNCHANGED <<open, cards>>,
         files' \in [Kinds -> Cards \cup {NoCard, "cut short"}],
         record' \in Seq(Entries), TrueOfHub(record)',
         edited' \in BOOLEAN, code = 0 => (~edited' => Filed(record)')
  PROVE  ImportInv'
<1>1. at' = "idle" /\ exit' = code /\ targets' = << >> /\ done' = << >> /\ cards' = cards
  BY DEF Exit
<1>2. TypeOK'
  BY <1>1, NoEntries DEF ImportInv, TypeOK
<1>3. OnItsWay'
  BY <1>1 DEF ImportInv, OnItsWay
<1>4. TrueOfHub(done)'
  <2>1. DOMAIN done' = {}
    BY <1>1, NoEntries
  <2>. QED BY <2>1 DEF TrueOfHub
<1>. QED BY <1>1, <1>2, <1>3, <1>4 DEF ImportInv

LEMMA FetchStep ==
  ASSUME ImportInv, NEW arguments \in Arguments, Fetch(arguments)
  PROVE  ImportInv'
<1>0. TypeOK /\ OnItsWay /\ TrueOfHub(record) /\ TrueOfHub(done)
  BY DEF ImportInv
<1>1. at = "idle" /\ UNCHANGED <<open, cards, files, record, changes, faults, edits>>
  BY DEF Fetch, hubVars, budgets
<1>2. TrueOfHub(record)'
  BY <1>0, <1>1 DEF TrueOfHub
<1>3. CASE Chosen(arguments) = << >>
  <2>1. Exit(2) /\ edited' = edited
    BY <1>3 DEF Fetch
  <2>2. /\ files' \in [Kinds -> Cards \cup {NoCard, "cut short"}] /\ edited' \in BOOLEAN
        /\ record' \in Seq(Entries)
    BY <2>1, <1>0, <1>1 DEF TypeOK
  <2>3. 2 \in {0, 1, 2} /\ (2 = 0 => (~edited' => Filed(record)'))
    OBVIOUS
  <2>. QED BY <2>1, <2>2, <2>3, <1>1, <1>2, ExitStep
<1>4. CASE Chosen(arguments) # << >>
  <2>1. /\ targets' = Chosen(arguments) /\ at' = "info" /\ exit' = -1 /\ edited' = FALSE
        /\ done' = done /\ pinned' = pinned
    BY <1>4 DEF Fetch
  <2>2. Chosen(arguments) \in Seq(Repos)
    <3>1. CASE arguments # << >>
      BY <3>1, HubImportAssumption DEF Chosen
    <3>2. CASE arguments = << >>
      <4>1. record \in Seq(Entries) /\ DOMAIN record = 1 .. Len(record) /\ Len(record) \in Nat
        BY <1>0, LenProperties DEF TypeOK
      <4>2. \A i \in 1 .. Len(record) : record[i].target \in Repos
        BY <4>1, EntryTarget
      <4>3. Chosen(arguments) = [i \in 1 .. Len(record) |-> record[i].target]
        BY <3>2, <4>1 DEF Chosen
      <4>. QED BY <4>1, <4>2, <4>3
    <3>. QED BY <3>1, <3>2
  <2>3. done = << >> /\ DOMAIN done = {} /\ Len(done) = 0 /\ Len(targets') > 0
    BY <1>0, <1>1, <1>4, <2>1, <2>2, EmptySeq, LenProperties DEF OnItsWay
  <2>4. TypeOK'
    BY <1>0, <1>1, <2>1, <2>2 DEF TypeOK
  <2>5. OnItsWay'
    BY <1>0, <1>1, <2>1, <2>3 DEF OnItsWay
  <2>6. TrueOfHub(done)' /\ Filed(done)'
    BY <2>1, <2>3 DEF TrueOfHub, Filed
  <2>. QED BY <1>2, <2>1, <2>4, <2>5, <2>6 DEF ImportInv
<1>. QED BY <1>3, <1>4

LEMMA InfoStep ==
  ASSUME ImportInv, Info
  PROVE  ImportInv'
<1>0. TypeOK /\ OnItsWay /\ TrueOfHub(record) /\ TrueOfHub(done)
  BY DEF ImportInv
<1>1. at = "info" /\ UNCHANGED <<open, cards, files, record, edited, changes, faults, edits>>
  BY DEF Info, hubVars, budgets
<1>2. TrueOfHub(record)'
  BY <1>0, <1>1 DEF TrueOfHub
<1>3. CASE Target \in open
  <2>1. /\ pinned' = Len(cards[Target]) /\ at' = "card"
        /\ targets' = targets /\ done' = done /\ exit' = exit
    BY <1>1, <1>3 DEF Info
  <2>2. Target \in Repos /\ Target' = Target
    BY <1>0, <1>3, <2>1 DEF TypeOK, Target
  <2>3. TypeOK'
    BY <1>0, <1>1, <2>1 DEF TypeOK
  <2>4. pinned' \in 1 .. Len(cards[Target])
    BY <1>0, <2>1, <2>2, History DEF OnItsWay
  <2>5. OnItsWay'
    BY <1>0, <1>1, <2>1, <2>2, <2>4 DEF OnItsWay
  <2>6. TrueOfHub(done)' /\ (Filed(done) => Filed(done)')
    BY <1>0, <1>1, <2>1 DEF TrueOfHub, Filed
  <2>. QED BY <1>0, <1>1, <1>2, <2>1, <2>3, <2>5, <2>6 DEF ImportInv, OnItsWay
<1>4. CASE Target \notin open
  <2>1. Exit(1)
    BY <1>1, <1>4 DEF Info
  <2>2. /\ files' \in [Kinds -> Cards \cup {NoCard, "cut short"}] /\ edited' \in BOOLEAN
        /\ record' \in Seq(Entries)
    BY <2>1, <1>0, <1>1 DEF TypeOK
  <2>3. 1 \in {0, 1, 2} /\ (1 = 0 => (~edited' => Filed(record)'))
    OBVIOUS
  <2>. QED BY <2>1, <2>2, <2>3, <1>1, <1>2, ExitStep
<1>. QED BY <1>3, <1>4

\* A card that is written is its entry's, and the files of other kinds are
\* still those of the entries before it.
LEMMA TakeCardStep ==
  ASSUME ImportInv, TakeCard
  PROVE  ImportInv'
<1>0. TypeOK /\ OnItsWay /\ TrueOfHub(record) /\ TrueOfHub(done)
  BY DEF ImportInv
<1>1. /\ at = "card" /\ exit' = exit /\ done' = Append(done, Entry)
      /\ files' = IF InTree = NoCard THEN files ELSE [files EXCEPT ![KindOf[Target]] = InTree]
      /\ at' = IF Len(done') = Len(targets) THEN "write" ELSE "info"
      /\ targets' = targets /\ record' = record /\ edited' = edited
      /\ UNCHANGED <<open, cards, changes, faults, edits>>
  BY DEF TakeCard, InTree, Bytes, CardWritten, hubVars, budgets
<1>2. /\ done \in Seq(Entries) /\ Len(done) \in Nat /\ DOMAIN done = 1 .. Len(done)
      /\ targets \in Seq(Repos) /\ Len(targets) \in Nat /\ Len(done) < Len(targets)
  BY <1>0, <1>1, LenProperties DEF TypeOK, OnItsWay
<1>3. Target \in Repos
  BY <1>2, ElementOfSeq DEF Target
<1>4. KindOf[Target] \in Kinds
  BY <1>3 DEF Kinds
<1>5. pinned \in 1 .. Len(cards[Target]) /\ InTree \in Cards \cup {NoCard}
  <2>1. pinned \in 1 .. Len(cards[Target])
    BY <1>0, <1>1 DEF OnItsWay
  <2>. QED BY <2>1, <1>0, <1>3, History DEF InTree
<1>6. Entry = [target |-> Target, revision |-> pinned, card |-> InTree]
  BY DEF Entry
<1>7. Entry \in Entries
  <2>1. pinned \in Nat
    BY <1>0, <1>3, <1>5, History
  <2>. QED BY <2>1, <1>3, <1>5, <1>6 DEF Entries
<1>8. /\ done' \in Seq(Entries) /\ DOMAIN done' = 1 .. (Len(done) + 1)
      /\ Len(done') = Len(done) + 1
      /\ \A i \in DOMAIN done : done'[i] = done[i]
      /\ done'[Len(done) + 1] = Entry
  BY <1>1, <1>2, <1>7, AppendProperties, LenProperties
<1>9. TypeOK'
  BY <1>0, <1>1, <1>4, <1>5, <1>8 DEF TypeOK
<1>10. OnItsWay'
  BY <1>0, <1>1, <1>2, <1>8 DEF OnItsWay
<1>11. TrueOfHub(record)'
  BY <1>0, <1>1 DEF TrueOfHub
<1>12. TrueOfHub(done)'
  <2>1. ASSUME NEW i \in DOMAIN done'
        PROVE  /\ done'[i].revision \in 1 .. Len(cards[done'[i].target])
               /\ done'[i].card = cards[done'[i].target][done'[i].revision]
    <3>1. CASE i \in DOMAIN done
      BY <3>1, <1>0, <1>8 DEF TrueOfHub
    <3>2. CASE i = Len(done) + 1
      BY <3>2, <1>5, <1>6, <1>8 DEF InTree
    <3>. QED BY <3>1, <3>2, <1>2, <1>8
  <2>. QED BY <2>1, <1>1 DEF TrueOfHub
<1>13. ASSUME Filed(done) PROVE Filed(done)'
  <2>. DEFINE last == Len(done) + 1
              kind(i) == KindOf[done'[i].target]
  <2>0. last \in DOMAIN done' /\ DOMAIN done \subseteq DOMAIN done'
    BY <1>2, <1>8
  <2>1. /\ done'[last].card = InTree /\ done'[last].target = Target
        /\ \A i \in DOMAIN done : done'[i] = done[i]
    BY <1>6, <1>8
  <2>2. ASSUME NEW i \in DOMAIN done', done'[i].card # NoCard
        PROVE  \E j \in DOMAIN done' :
                 /\ done'[j].card # NoCard /\ kind(j) = kind(i)
                 /\ files'[kind(i)] = done'[j].card
    <3>1. CASE InTree # NoCard /\ kind(i) = KindOf[Target]
      <4>1. files'[KindOf[Target]] = InTree
        BY <3>1, <1>0, <1>1, <1>4 DEF TypeOK
      <4>. QED BY <3>1, <4>1, <2>0, <2>1
    <3>2. CASE ~(InTree # NoCard /\ kind(i) = KindOf[Target])
      <4>1. i \in DOMAIN done
        BY <3>2, <2>1, <2>2, <1>2, <1>8
      <4>2. files'[kind(i)] = files[kind(i)]
        <5>1. files \in [Kinds -> Cards \cup {NoCard, "cut short"}]
          BY <1>0 DEF TypeOK
        <5>2. done'[i].target \in Repos
          BY <1>8, EntryTarget
        <5>3. kind(i) \in Kinds
          BY <5>2 DEF Kinds
        <5>4. CASE InTree = NoCard
          BY <5>4, <1>1
        <5>5. CASE InTree # NoCard
          <6>1. files' = [files EXCEPT ![KindOf[Target]] = InTree]
            BY <5>5, <1>1
          <6>2. kind(i) # KindOf[Target]
            BY <3>2, <5>5
          <6>. HIDE DEF kind
          <6>. QED BY <5>1, <5>3, <6>1, <6>2
        <5>. QED BY <5>4, <5>5
      <4>3. PICK j \in DOMAIN done :
              /\ done[j].card # NoCard
              /\ KindOf[done[j].target] = KindOf[done[i].target]
              /\ files[KindOf[done[i].target]] = done[j].card
        BY <1>13, <2>1, <2>2, <4>1 DEF Filed
      <4>. QED BY <2>0, <2>1, <4>1, <4>2, <4>3
    <3>. QED BY <3>1, <3>2
  <2>. QED BY <2>2 DEF Filed
<1>14. exit' # 0
  BY <1>0, <1>1 DEF OnItsWay
<1>. QED BY <1>1, <1>9, <1>10, <1>11, <1>12, <1>13, <1>14 DEF ImportInv

LEMMA WriteStep ==
  ASSUME ImportInv, Write
  PROVE  ImportInv'
<1>0. TypeOK /\ OnItsWay /\ TrueOfHub(record) /\ TrueOfHub(done)
  BY DEF ImportInv
<1>1. /\ at = "write" /\ record' = done /\ Exit(0)
      /\ UNCHANGED <<open, cards, files, edited>>
  BY DEF Write, hubVars
<1>2. TrueOfHub(record)' /\ record' \in Seq(Entries)
  BY <1>0, <1>1 DEF TrueOfHub, TypeOK
<1>3. ~edited' => Filed(record)'
  BY <1>1 DEF ImportInv, Filed
<1>. QED BY <1>0, <1>1, <1>2, <1>3, ExitStep DEF TypeOK

LEMMA FailStep ==
  ASSUME ImportInv, Fail
  PROVE  ImportInv'
<1>0. TypeOK /\ OnItsWay /\ TrueOfHub(record) /\ TrueOfHub(done)
  BY DEF ImportInv
<1>1. at # "idle" /\ Exit(1) /\ UNCHANGED <<open, cards, edited>>
  BY DEF Fail, hubVars
<1>2. record' = record \/ record' = << >>
  BY DEF Fail
<1>3. files' = files \/ files' = [files EXCEPT ![KindOf[Target]] = "cut short"]
  BY DEF Fail, CardWritten
<1>4. files' \in [Kinds -> Cards \cup {NoCard, "cut short"}]
  BY <1>0, <1>3 DEF TypeOK
<1>5. TrueOfHub(record)' /\ record' \in Seq(Entries)
  <2>1. CASE record' = record
    BY <2>1, <1>0, <1>1 DEF TrueOfHub, TypeOK
  <2>2. CASE record' = << >>
    <3>1. DOMAIN record' = {}
      BY <2>2
    <3>2. record' \in Seq(Entries)
      BY <2>2
    <3>. QED BY <3>1, <3>2 DEF TrueOfHub
  <2>. QED BY <1>2, <2>1, <2>2
<1>6. edited' \in BOOLEAN
  BY <1>0, <1>1 DEF TypeOK
<1>7. 1 \in {0, 1, 2} /\ (1 = 0 => (~edited' => Filed(record)'))
  OBVIOUS
<1>. QED BY <1>1, <1>4, <1>5, <1>6, <1>7, ExitStep

\* What changes on the Hub comes after the revisions there are.
LEMMA HubStep ==
  ASSUME ImportInv, NEW r \in Repos,
         HubAccess(r) \/ \E card \in Cards \cup {NoCard} : HubCommit(r, card)
  PROVE  ImportInv'
<1>0. TypeOK /\ OnItsWay /\ TrueOfHub(record) /\ TrueOfHub(done)
  BY DEF ImportInv
<1>1. UNCHANGED <<files, record, at, targets, done, pinned, exit, edited>>
  BY DEF HubAccess, HubCommit
<1>2. /\ open' \subseteq Repos
      /\ cards' \in [Repos -> Seq(Cards \cup {NoCard})]
      /\ \A t \in Repos :
           /\ Len(cards[t]) \in Nat /\ Len(cards'[t]) >= Len(cards[t])
           /\ \A n \in 1 .. Len(cards[t]) : cards'[t][n] = cards[t][n]
  <2>1. CASE HubAccess(r)
    <3>1. cards' = cards /\ open' \subseteq Repos
      BY <2>1, <1>0 DEF HubAccess, TypeOK
    <3>2. \A t \in Repos : Len(cards[t]) \in Nat
      BY <1>0, History
    <3>3. cards \in [Repos -> Seq(Cards \cup {NoCard})]
      BY <1>0 DEF TypeOK
    <3>. QED BY <3>1, <3>2, <3>3
  <2>2. CASE \E card \in Cards \cup {NoCard} : HubCommit(r, card)
    <3>1. PICK card \in Cards \cup {NoCard} :
            cards' = [cards EXCEPT ![r] = Append(cards[r], card)] /\ open' = open
      BY <2>2 DEF HubCommit
    <3>2. /\ Append(cards[r], card) \in Seq(Cards \cup {NoCard})
          /\ Len(cards[r]) \in Nat /\ Len(Append(cards[r], card)) = Len(cards[r]) + 1
          /\ \A n \in 1 .. Len(cards[r]) : Append(cards[r], card)[n] = cards[r][n]
      <4>1. cards[r] \in Seq(Cards \cup {NoCard})
        BY <1>0, History
      <4>. QED BY <4>1, AppendProperties, LenProperties
    <3>3. \A t \in Repos : cards'[t] = IF t = r THEN Append(cards[r], card) ELSE cards[t]
      BY <1>0, <3>1 DEF TypeOK
    <3>4. \A t \in Repos : Len(cards[t]) \in Nat /\ cards[t] \in Seq(Cards \cup {NoCard})
      BY <1>0, History
    <3>5. open' \subseteq Repos /\ cards' = [t \in Repos |-> cards'[t]]
      BY <1>0, <3>1 DEF TypeOK
    <3>6. \A t \in Repos : cards'[t] \in Seq(Cards \cup {NoCard})
      BY <3>2, <3>3, <3>4
    <3>7. cards' \in [Repos -> Seq(Cards \cup {NoCard})]
      BY <3>5, <3>6
    <3>8. ASSUME NEW t \in Repos
          PROVE  /\ Len(cards[t]) \in Nat /\ Len(cards'[t]) >= Len(cards[t])
                 /\ \A n \in 1 .. Len(cards[t]) : cards'[t][n] = cards[t][n]
      <4>1. CASE t = r
        <5>1. cards'[t] = Append(cards[r], card)
          BY <4>1, <3>3
        <5>2. Len(cards[r]) + 1 >= Len(cards[r])
          BY <3>2
        <5>. QED BY <4>1, <3>2, <5>1, <5>2
      <4>2. CASE t # r
        BY <4>2, <3>3, <3>4
      <4>. QED BY <4>1, <4>2
    <3>. QED BY <3>5, <3>7, <3>8
  <2>. QED BY <2>1, <2>2
<1>3. TypeOK'
  BY <1>0, <1>1, <1>2 DEF TypeOK
<1>4. OnItsWay'
  <2>1. at = "card" => Target \in Repos
    <3>1. /\ targets \in Seq(Repos) /\ Len(targets) \in Nat
          /\ done \in Seq(Entries) /\ Len(done) \in Nat
      BY <1>0, LenProperties DEF TypeOK
    <3>. QED BY <3>1, <1>0, ElementOfSeq DEF Target, OnItsWay
  <2>2. Target' = Target
    BY <1>1 DEF Target
  <2>0. \A t \in Repos : Len(cards'[t]) \in Nat
    BY <1>2, LenProperties
  <2>3. at' = "card" => pinned' \in 1 .. Len(cards'[Target])
    BY <1>0, <1>1, <1>2, <2>0, <2>1 DEF OnItsWay
  <2>4. \A t \in Repos : Len(cards'[t]) >= 1
    BY <1>0, <1>2, <2>0 DEF OnItsWay
  <2>. QED BY <1>0, <1>1, <2>2, <2>3, <2>4 DEF OnItsWay
<1>5. ASSUME NEW entries \in Seq(Entries), TrueOfHub(entries)
      PROVE  \A i \in DOMAIN entries :
               /\ entries[i].revision \in 1 .. Len(cards'[entries[i].target])
               /\ entries[i].card = cards'[entries[i].target][entries[i].revision]
  <2>1. ASSUME NEW i \in DOMAIN entries
        PROVE  /\ entries[i].revision \in 1 .. Len(cards'[entries[i].target])
               /\ entries[i].card = cards'[entries[i].target][entries[i].revision]
    <3>1. entries[i].target \in Repos
      BY EntryTarget
    <3>2. /\ entries[i].revision \in 1 .. Len(cards[entries[i].target])
          /\ entries[i].card = cards[entries[i].target][entries[i].revision]
      BY <1>5 DEF TrueOfHub
    <3>3. Len(cards'[entries[i].target]) \in Nat
      BY <1>2, <3>1, LenProperties
    <3>. QED BY <3>1, <3>2, <3>3, <1>2
  <2>. QED BY <2>1
<1>6. TrueOfHub(record)' /\ TrueOfHub(done)'
  BY <1>0, <1>1, <1>5 DEF TrueOfHub, TypeOK
<1>7. (Filed(done) => Filed(done)') /\ (Filed(record) => Filed(record)')
  BY <1>1 DEF Filed
<1>. QED BY <1>1, <1>3, <1>4, <1>6, <1>7 DEF ImportInv

LEMMA EditStep ==
  ASSUME ImportInv, NEW kind \in Kinds, NEW card \in Cards \cup {NoCard}, EditCard(kind, card)
  PROVE  ImportInv'
<1>0. TypeOK /\ OnItsWay /\ TrueOfHub(record) /\ TrueOfHub(done)
  BY DEF ImportInv
<1>1. /\ files' = [files EXCEPT ![kind] = card] /\ edited' = TRUE
      /\ UNCHANGED <<open, cards, record, at, targets, done, pinned, exit>>
  BY DEF EditCard, hubVars
<1>2. TypeOK'
  BY <1>0, <1>1 DEF TypeOK
<1>3. OnItsWay'
  BY <1>0, <1>1 DEF OnItsWay, Target
<1>4. TrueOfHub(record)' /\ TrueOfHub(done)'
  BY <1>0, <1>1 DEF TrueOfHub
<1>. QED BY <1>1, <1>2, <1>3, <1>4 DEF ImportInv

LEMMA ImportNext == ImportInv /\ [Next]_vars => ImportInv'
<1>. SUFFICES ASSUME ImportInv, [Next]_vars PROVE ImportInv'
  OBVIOUS
<1>1. CASE \E arguments \in Arguments : Fetch(arguments)
  BY <1>1, FetchStep
<1>2. CASE Step
  BY <1>2, InfoStep, TakeCardStep, WriteStep DEF Step
<1>3. CASE Fail
  BY <1>3, FailStep
<1>4. CASE \E r \in Repos :
             HubAccess(r) \/ \E card \in Cards \cup {NoCard} : HubCommit(r, card)
  BY <1>4, HubStep
<1>5. CASE \E kind \in Kinds, card \in Cards \cup {NoCard} : EditCard(kind, card)
  BY <1>5, EditStep
<1>6. CASE UNCHANGED vars
  BY <1>6 DEF vars, hubVars, budgets, ImportInv, TypeOK, OnItsWay, TrueOfHub, Filed, Target
<1>. QED BY <1>1, <1>2, <1>3, <1>4, <1>5, <1>6 DEF Next

\* Entries are true of the Hub from the request that made them on.
THEOREM EntriesStayTrue == Spec => []ImportInv
<1>. QED BY ImportInit, ImportNext, PTL DEF Spec

\* What verify accepts is what the Hub served at the recorded revisions.
THEOREM ImportedCardsAreTheHubs == Spec => []AcceptedIsTheHubs
<1>1. ASSUME ImportInv PROVE AcceptedIsTheHubs
  <2>1. ASSUME VerifyAccepts, NEW i \in DOMAIN record
        PROVE  LET e == record[i]
                   onHub == cards[e.target][e.revision]
               IN IF onHub = NoCard THEN e.card = NoCard
                                    ELSE files[KindOf[e.target]] = onHub
    <3>1. record[i].card = cards[record[i].target][record[i].revision]
      BY <1>1 DEF ImportInv, TrueOfHub
    <3>2. record[i].card # NoCard => files[KindOf[record[i].target]] = record[i].card
      BY <2>1 DEF VerifyAccepts, CardProblem
    <3>. QED BY <3>1, <3>2
  <2>. QED BY <2>1 DEF AcceptedIsTheHubs
<1>. QED BY <1>1, EntriesStayTrue, PTL

\* verify accepts what a successful fetch has left, unless two cards share a
\* file.
THEOREM FetchedCardsAreAccepted == Spec => []FetchedIsAccepted
<1>1. ASSUME ImportInv PROVE FetchedIsAccepted
  <2>. SUFFICES ASSUME exit = 0, record # << >>, ~edited
                PROVE  VerifyAccepts <=> KindsAgree(record)
    BY DEF FetchedIsAccepted
  <2>1. VerifyAccepts => KindsAgree(record)
    BY DEF VerifyAccepts, CardProblem, KindsAgree
  <2>2. KindsAgree(record) => VerifyAccepts
    BY <1>1 DEF ImportInv, Filed, VerifyAccepts, CardProblem, KindsAgree
  <2>. QED BY <2>1, <2>2
<1>. QED BY <1>1, EntriesStayTrue, PTL
=============================================================================
