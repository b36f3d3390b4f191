-------------------------- MODULE PublisherProofs ---------------------------
(***************************************************************************)
(* Proofs about the publisher, for any branches, sources, trees and number *)
(* of steps, and whatever others commit in between.                        *)
(*                                                                         *)
(* All of them rest on Planned: the heads a run has seen lie behind the    *)
(* branches for as long as the run lives, and what it pushes is exactly    *)
(* the candidate over those heads.                                         *)
(***************************************************************************)
EXTENDS PublisherProperties, SequenceTheorems, TLAPS

-----------------------------------------------------------------------------
(* Histories. *)

\* A prefix agrees with the longer sequence wherever it is defined.
LEMMA PrefixPointwise ==
  ASSUME NEW S, NEW s \in Seq(S), NEW t \in Seq(S)
  PROVE  IsPrefix(s, t) <=> /\ Len(s) <= Len(t)
                            /\ \A i \in 1 .. Len(s) : s[i] = t[i]
<1>1. SubSeq(s, 1, Len(s)) = s
  OBVIOUS
<1>2. CASE Len(s) <= Len(t)
  <2>1. /\ SubSeq(t, 1, Len(s)) \in Seq(S)
        /\ Len(SubSeq(t, 1, Len(s))) = Len(s)
        /\ \A i \in 1 .. Len(s) : SubSeq(t, 1, Len(s))[i] = t[i]
    BY <1>2
  <2>2. s = SubSeq(t, 1, Len(s)) <=> \A i \in 1 .. Len(s) : s[i] = t[i]
    BY <2>1, SeqEqual
  <2> QED
    BY <1>1, <1>2, <2>2 DEF IsPrefix
<1>3. CASE ~(Len(s) <= Len(t))
  BY <1>3 DEF IsPrefix
<1> QED
  BY <1>2, <1>3

\* A sequence and its extension by one entry.
LEMMA PrefixOfAppend ==
  ASSUME NEW S, NEW s \in Seq(S), NEW e \in S
  PROVE  /\ IsPrefix(s, s)
         /\ IsPrefix(s, Append(s, e))
<1>1. Append(s, e) \in Seq(S)
  OBVIOUS
<1>2. IsPrefix(s, s)
  BY PrefixPointwise
<1>3. IsPrefix(s, Append(s, e))
  <2>1. Len(s) <= Len(Append(s, e)) /\ \A i \in 1 .. Len(s) : s[i] = Append(s, e)[i]
    BY AppendProperties
  <2> QED
    BY <1>1, <2>1, PrefixPointwise
<1> QED
  BY <1>2, <1>3

\* The branch that does not exist lies behind every commit.
LEMMA EmptyIsPrefix ==
  ASSUME NEW S, NEW s \in Seq(S)
  PROVE  IsPrefix(<< >>, s)
<1>1. ASSUME NEW z \in Seq(S), Len(z) = 0
      PROVE  IsPrefix(z, s)
  <2>1. Len(z) <= Len(s)
    BY <1>1, LenProperties
  <2>2. \A i \in 1 .. Len(z) : z[i] = s[i]
    BY <1>1
  <2> QED
    BY <2>1, <2>2, PrefixPointwise
<1>2. << >> \in Seq(S) /\ Len(<< >>) = 0
  OBVIOUS
<1> QED
  BY <1>1, <1>2

\* What lies behind a commit lies behind its descendants.
LEMMA PrefixTransitive ==
  ASSUME NEW S, NEW s \in Seq(S), NEW t \in Seq(S), NEW u \in Seq(S),
         IsPrefix(s, t), IsPrefix(t, u)
  PROVE  IsPrefix(s, u)
BY PrefixPointwise

\* A commit that lies behind another is found in its history.
LEMMA PrefixIsSubSeq ==
  ASSUME NEW S, NEW s \in Seq(S), NEW t \in Seq(S), IsPrefix(s, t)
  PROVE  Len(s) <= Len(t) /\ s = SubSeq(t, 1, Len(s))
<1>1. SubSeq(s, 1, Len(s)) = s
  OBVIOUS
<1> QED
  BY <1>1 DEF IsPrefix

-----------------------------------------------------------------------------
(* Trees. *)

\* A tree is a function on some of the paths, none of them in another's way.
LEMMA TreeShape ==
  ASSUME NEW t \in Trees
  PROVE  /\ DOMAIN t \subseteq Paths
         /\ t = [p \in DOMAIN t |-> t[p]]
         /\ \A p \in DOMAIN t : t[p] \in Contents
         /\ \A p, q \in DOMAIN t : <<p, q>> \notin InTheWay
<1>1. PICK D \in SUBSET Paths : t \in [D -> Contents]
  BY DEF Trees
<1>2. \A p, q \in DOMAIN t : <<p, q>> \notin InTheWay
  BY DEF Trees
<1> QED
  BY <1>1, <1>2

\* A function on some of the paths that leave each other room is a tree.
LEMMA TreeMade ==
  ASSUME NEW D \in SUBSET Paths, NEW t \in [D -> Contents],
         \A p, q \in D : <<p, q>> \notin InTheWay
  PROVE  t \in Trees
BY DEF Trees

\* The candidate's tree is a tree, and the mirror of another keeps its files
\* that are neither managed, owned, pruned nor in the way.
LEMMA MirroredTree ==
  ASSUME NEW t \in Trees, NEW s \in Sources
  PROVE  /\ Mirrored(t, s) \in Trees
         /\ \A p \in DOMAIN t \cap Unmanaged(s) :
              (\A q \in Managed(s) : <<p, q>> \notin InTheWay) =>
                 p \in DOMAIN Mirrored(t, s) /\ Mirrored(t, s)[p] = t[p]
<1>1. /\ DOMAIN t \subseteq Paths
      /\ \A p \in DOMAIN t : t[p] \in Contents
      /\ \A p, q \in DOMAIN t : <<p, q>> \notin InTheWay
  BY TreeShape
<1>2. Payload[s] \in Trees
  BY PayloadAssumption
<1>3. /\ Managed(s) \subseteq Paths
      /\ \A p \in Managed(s) : Payload[s][p] \in Contents
      /\ \A p, q \in Managed(s) : <<p, q>> \notin InTheWay
  BY <1>2, TreeShape DEF Managed
<1> DEFINE kept == DOMAIN t \ (Deleted(t, s) \cup Overridden(t, s))
<1>4. Mirrored(t, s) = [p \in kept \cup Managed(s) |->
                          IF p \in Managed(s) THEN Payload[s][p] ELSE t[p]]
  BY DEF Mirrored
<1>5. Mirrored(t, s) \in Trees
  <2>1. kept \cup Managed(s) \in SUBSET Paths
    BY <1>1, <1>3
  <2>2. Mirrored(t, s) \in [kept \cup Managed(s) -> Contents]
    BY <1>1, <1>3, <1>4
  <2>3. ASSUME NEW p \in kept, NEW q \in Managed(s)
        PROVE  <<p, q>> \notin InTheWay /\ <<q, p>> \notin InTheWay
    <3>1. <<p, q>> \notin InTheWay
      BY <2>3 DEF Overridden
    <3> QED
      BY <3>1, PathsAssumption
  <2>4. \A p, q \in kept \cup Managed(s) : <<p, q>> \notin InTheWay
    BY <1>1, <1>3, <2>3
  <2> HIDE DEF kept
  <2> QED
    BY <2>1, <2>2, <2>4, TreeMade
<1>6. ASSUME NEW p \in DOMAIN t \cap Unmanaged(s),
             \A q \in Managed(s) : <<p, q>> \notin InTheWay
      PROVE  p \in DOMAIN Mirrored(t, s) /\ Mirrored(t, s)[p] = t[p]
  <2>1. p \notin Managed(s) /\ p \notin OwnedPaths /\ p \notin PrunedPaths
    BY DEF Unmanaged
  <2>2. p \in kept
    BY <1>6, <2>1 DEF Deleted, Overridden
  <2> QED
    BY <1>4, <2>1, <2>2
<1> QED
  BY <1>5, <1>6

\* The mirror serves the source, and what serves it already is its own mirror:
\* mirroring twice is mirroring once.
LEMMA MirroredServes ==
  ASSUME NEW t \in Trees, NEW s \in Sources
  PROVE  /\ Mirrors(Mirrored(t, s), s)
         /\ Mirrors(t, s) => Mirrored(t, s) = t
<1> DEFINE kept == DOMAIN t \ (Deleted(t, s) \cup Overridden(t, s))
<1>1. /\ DOMAIN Mirrored(t, s) = kept \cup Managed(s)
      /\ \A p \in kept \cup Managed(s) :
           Mirrored(t, s)[p] = IF p \in Managed(s) THEN Payload[s][p] ELSE t[p]
      /\ Mirrored(t, s) = [p \in DOMAIN Mirrored(t, s) |-> Mirrored(t, s)[p]]
  BY DEF Mirrored
<1>2. Managed(s) \cap PrunedPaths = {}
  BY PayloadAssumption DEF Managed
<1>3. \A p \in kept \ Managed(s) : p \notin OwnedPaths /\ p \notin PrunedPaths
  BY DEF Deleted
<1>4. Mirrors(Mirrored(t, s), s)
  <2> HIDE DEF kept
  <2> QED
    BY <1>1, <1>2, <1>3 DEF Mirrors
<1>5. ASSUME Mirrors(t, s) PROVE Mirrored(t, s) = t
  <2>1. /\ Managed(s) \subseteq DOMAIN t /\ \A p \in Managed(s) : t[p] = Payload[s][p]
        /\ DOMAIN t \cap OwnedPaths \subseteq Managed(s) /\ DOMAIN t \cap PrunedPaths = {}
    BY <1>5 DEF Mirrors
  <2>2. /\ t = [p \in DOMAIN t |-> t[p]]
        /\ \A p, q \in DOMAIN t : <<p, q>> \notin InTheWay
    BY TreeShape
  <2>3. Deleted(t, s) = {}
    BY <2>1 DEF Deleted
  <2>4. Overridden(t, s) = {}
    BY <2>1, <2>2 DEF Overridden
  <2>5. kept \cup Managed(s) = DOMAIN t
    BY <2>1, <2>3, <2>4
  <2> HIDE DEF kept
  <2>6. DOMAIN Mirrored(t, s) = DOMAIN t /\ \A p \in DOMAIN t : Mirrored(t, s)[p] = t[p]
    BY <1>1, <2>1, <2>5
  <2> QED
    BY <1>1, <2>2, <2>6
<1> QED
  BY <1>4, <1>5

\* Somebody else's commit is a tree too.
LEMMA EditedTree ==
  ASSUME NEW t \in Trees, NEW e \in Edits
  PROVE  Edited(t, e) \in Trees
<1>1. /\ DOMAIN t \subseteq Paths
      /\ \A p \in DOMAIN t : t[p] \in Contents
      /\ \A p, q \in DOMAIN t : <<p, q>> \notin InTheWay
  BY TreeShape
<1>2. e.path \in Paths /\ e.content \in Contents \cup {NoFile}
  BY BranchesAssumption
<1> DEFINE rest == {p \in DOMAIN t \ {e.path} : <<p, e.path>> \notin InTheWay}
<1>3. CASE e.content = NoFile
  <2>1. Edited(t, e) = [p \in DOMAIN t \ {e.path} |-> t[p]]
    BY <1>3 DEF Edited
  <2> QED
    BY <1>1, <2>1, TreeMade
<1>4. CASE e.content # NoFile
  <2>1. Edited(t, e) = [p \in rest \cup {e.path} |->
                          IF p = e.path THEN e.content ELSE t[p]]
    BY <1>4 DEF Edited
  <2>2. rest \cup {e.path} \in SUBSET Paths
    BY <1>1, <1>2
  <2>3. Edited(t, e) \in [rest \cup {e.path} -> Contents]
    BY <1>1, <1>2, <1>4, <2>1
  <2>4. \A p \in rest : <<p, e.path>> \notin InTheWay /\ <<e.path, p>> \notin InTheWay
    BY PathsAssumption
  <2>5. <<e.path, e.path>> \notin InTheWay
    BY PathsAssumption
  <2>6. \A p, q \in rest \cup {e.path} : <<p, q>> \notin InTheWay
    BY <1>1, <2>4, <2>5
  <2> HIDE DEF rest
  <2> QED
    BY <2>2, <2>3, <2>6, TreeMade
<1> QED
  BY <1>3, <1>4

-----------------------------------------------------------------------------
(* Commits. *)

Entries == [tree : Trees, by : Makers]

\* A commit and its parent.
LEMMA CommitMade ==
  ASSUME NEW parent \in Commits, NEW t \in Trees, NEW maker \in Makers
  PROVE  /\ Commit(parent, t, maker) \in Commits
         /\ Commit(parent, t, maker) # Absent
         /\ Last(Commit(parent, t, maker)) = [tree |-> t, by |-> maker]
         /\ Tip(Commit(parent, t, maker)) = t
         /\ IsPrefix(parent, Commit(parent, t, maker))
<1> DEFINE e == [tree |-> t, by |-> maker]
<1>1. e \in Entries /\ parent \in Seq(Entries)
  BY DEF Entries, Commits
<1>2. /\ Append(parent, e) \in Seq(Entries)
      /\ Append(parent, e) # << >>
      /\ Append(parent, e)[Len(Append(parent, e))] = e
  BY <1>1, AppendProperties
<1>3. IsPrefix(parent, Append(parent, e))
  BY <1>1, PrefixOfAppend
<1> QED
  BY <1>2, <1>3 DEF Commit, Commits, Entries, Absent, Last, Tip

\* The last entry of a commit.
LEMMA TipTree ==
  ASSUME NEW c \in Commits, c # Absent
  PROVE  /\ Len(c) \in Nat \ {0}
         /\ Tip(c) \in Trees
         /\ Last(c).by \in Makers
<1>1. c \in Seq(Entries) /\ c # << >>
  BY DEF Commits, Entries, Absent
<1>2. Len(c) \in Nat /\ Len(c) # 0
  BY <1>1, EmptySeq
<1>3. c[Len(c)] \in Entries
  BY <1>1, <1>2
<1> QED
  BY <1>2, <1>3 DEF Tip, Last, Entries

\* The candidate over a commit is that commit or its child, with the mirror as
\* its tree either way.
LEMMA CandidateOver ==
  ASSUME source \in Sources, NEW parent \in Commits, parent # Absent
  PROVE  /\ Candidate(parent) \in Commits
         /\ Candidate(parent) # Absent
         /\ IsPrefix(parent, Candidate(parent))
         /\ Tip(Candidate(parent)) = Mirrored(Tip(parent), source)
         /\ \/ Candidate(parent) = parent
            \/ Candidate(parent) = Commit(parent, Mirrored(Tip(parent), source), "publisher")
<1> DEFINE t == Mirrored(Tip(parent), source)
<1>1. t \in Trees
  BY TipTree, MirroredTree
<1>2. CASE t = Tip(parent)
  <2>1. Candidate(parent) = parent
    BY <1>2 DEF Candidate
  <2>2. IsPrefix(parent, parent)
    BY DEF IsPrefix, Commits
  <2> QED
    BY <1>2, <2>1, <2>2
<1>3. CASE t # Tip(parent)
  <2>1. Candidate(parent) = Commit(parent, t, "publisher")
    BY <1>3 DEF Candidate
  <2> QED
    BY <1>1, <2>1, CommitMade DEF Makers
<1> QED
  BY <1>2, <1>3

-----------------------------------------------------------------------------
(* The inductive invariant. *)

Planning == {"fetch", "plan", "preflight", "push", "readback"}
Pushing == {"preflight", "push", "readback"}

\* The heads a run has seen lie behind the branches; the trunk was among them;
\* and the candidates are those over the bases it chose.
Planned ==
  /\ \A b \in Branches : IsPrefix(seen[b], hub[b])
  /\ pc \in Planning => seen[Trunk] # Absent
  /\ pc \in Pushing =>
       \A b \in Branches : /\ cand[b] = Candidate(Base(b))
                           /\ ~Obstructed(Tip(Base(b)), source)

\* A base is a commit that exists, and lies behind its branch or the trunk.
LEMMA BaseExists ==
  ASSUME TypeOK, Planned, pc \in Planning, NEW b \in Branches
  PROVE  Base(b) \in Commits /\ Base(b) # Absent
BY BranchesAssumption DEF TypeOK, Planned, Base, Exists

\* So the candidates are commits, over their bases.
LEMMA CandidateExists ==
  ASSUME TypeOK, Planned, pc \in Pushing, NEW b \in Branches
  PROVE  /\ cand[b] \in Commits /\ cand[b] # Absent
         /\ cand[b] = Candidate(Base(b))
         /\ IsPrefix(Base(b), cand[b])
         /\ Tip(cand[b]) = Mirrored(Tip(Base(b)), source)
<1>1. Base(b) \in Commits /\ Base(b) # Absent
  BY BaseExists DEF Planning, Pushing
<1>2. source \in Sources /\ cand[b] = Candidate(Base(b))
  BY DEF TypeOK, Planned
<1> QED
  BY <1>1, <1>2, CandidateOver

\* Nothing has been read and nothing planned.
LEMMA NothingSeen ==
  /\ NoCommits \in [Branches -> Commits]
  /\ Absent \in Commits
  /\ \A c \in Commits : IsPrefix(Absent, c) /\ IsPrefix(c, c)
<1>1. Absent \in Commits
  BY DEF Absent, Commits
<1>2. ASSUME NEW c \in Commits
      PROVE  IsPrefix(Absent, c) /\ IsPrefix(c, c)
  <2>1. c \in Seq(Entries)
    BY DEF Commits, Entries
  <2>2. IsPrefix(c, c)
    BY <2>1, PrefixPointwise
  <2>3. IsPrefix(<< >>, c)
    BY <2>1, EmptyIsPrefix
  <2> QED
    BY <2>2, <2>3 DEF Absent
<1> QED
  BY <1>1, <1>2 DEF NoCommits

\* The first states.
LEMMA InvariantInit ==
  ASSUME Init
  PROVE  TypeOK /\ Planned
<1>1. ASSUME NEW b \in Branches
      PROVE  hub[b] \in Commits
  <2>1. CASE b \in DOMAIN FirstTrees
    BY <2>1, BranchesAssumption, NothingSeen, CommitMade DEF Init, Makers
  <2>2. CASE b \notin DOMAIN FirstTrees
    BY <2>2, NothingSeen DEF Init
  <2> QED
    BY <2>1, <2>2
<1>2. hub \in [Branches -> Commits]
  BY <1>1 DEF Init
<1>3. TypeOK
  <2>1. /\ edits \in 0 .. MaxEdits /\ faults \in 0 .. MaxFaults /\ switches \in 0 .. MaxSwitches
        /\ pushed \in [Branches -> Nat]
    BY BranchesAssumption DEF Init
  <2>2. /\ seen \in [Branches -> Commits] /\ cand \in [Branches -> Commits]
        /\ have \subseteq Commits /\ todo \subseteq Branches
    BY NothingSeen DEF Init
  <2>3. dry \in BOOLEAN /\ refused \in BOOLEAN
    BY DEF Init
  <2>4. /\ pc \in {"idle", "heads", "fetch", "plan", "preflight", "push", "readback"}
        /\ source \in Sources
        /\ outcome \in {"none", "failed", "planned", "published", "unchanged"}
    BY DEF Init
  <2> QED
    BY <1>2, <2>1, <2>2, <2>3, <2>4 DEF TypeOK
<1>4. Planned
  BY <1>1, NothingSeen DEF Init, Planned, NoCommits, Planning, Pushing
<1> QED
  BY <1>3, <1>4

\* How a branch can change: a push of the candidate onto its base, somebody
\* else's commit, or a branch made by somebody else.
LEMMA HubSteps ==
  ASSUME [Next]_vars, hub' # hub
  PROVE  \/ \E b \in Branches : PushBranch(b) /\ FastForward(b)
                                /\ hub' = [hub EXCEPT ![b] = cand[b]]
         \/ \E b \in Branches : OthersBranch(b)
         \/ \E b \in Branches, e \in Edits : OthersCommit(b, e)
<1>1. Next
  BY DEF vars
<1>2. ASSUME NEW b \in Branches, PushBranch(b)
      PROVE  FastForward(b) /\ hub' = [hub EXCEPT ![b] = cand[b]]
  BY <1>2 DEF PushBranch
<1>3. CASE Others
  BY <1>3 DEF Others
<1>4. CASE Step
  <2>1. \E b \in Branches : PushBranch(b)
    BY <1>4 DEF Step, ReadHeads, Fetch, Plan, Preflight, PushEnds, Report, Readback
  <2> QED
    BY <2>1, <1>2
<1>5. CASE Crash \/ \E s \in Sources, plan \in BOOLEAN : Begin(s, plan)
  BY <1>5 DEF Crash, Begin
<1> QED
  BY <1>1, <1>3, <1>4, <1>5 DEF Next

\* Every branch stays a commit, and behind it lies what it was before.
LEMMA HubGrows ==
  ASSUME TypeOK, Planned, [Next]_vars
  PROVE  /\ hub' \in [Branches -> Commits]
         /\ \A b \in Branches : IsPrefix(hub[b], hub'[b])
<1>0. hub \in [Branches -> Commits]
  BY DEF TypeOK
<1>1. CASE hub' = hub
  BY <1>0, <1>1, NothingSeen
<1>2. ASSUME NEW b \in Branches, PushBranch(b), FastForward(b),
             hub' = [hub EXCEPT ![b] = cand[b]]
      PROVE  hub' \in [Branches -> Commits] /\ \A c \in Branches : IsPrefix(hub[c], hub'[c])
  <2>1. pc \in Pushing
    BY <1>2 DEF PushBranch, Pushing
  <2>2. cand[b] \in Commits /\ IsPrefix(Base(b), cand[b])
    BY <2>1, CandidateExists
  <2>3. IsPrefix(hub[b], cand[b])
    BY <1>2, <2>2, NothingSeen DEF FastForward
  <2>4. hub' \in [Branches -> Commits] /\ hub'[b] = cand[b]
    BY <1>0, <1>2, <2>2
  <2>5. \A c \in Branches \ {b} : hub'[c] = hub[c]
    BY <1>0, <1>2
  <2> QED
    BY <1>0, <2>3, <2>4, <2>5, NothingSeen
<1>3. ASSUME NEW b \in Branches, OthersBranch(b)
      PROVE  hub' \in [Branches -> Commits] /\ \A c \in Branches : IsPrefix(hub[c], hub'[c])
  <2>1. /\ hub' \in [Branches -> Commits] /\ hub[b] = Absent
        /\ hub'[b] \in Commits
        /\ \A c \in Branches \ {b} : hub'[c] = hub[c]
    BY <1>0, <1>3, BranchesAssumption DEF OthersBranch
  <2> QED
    BY <1>0, <2>1, NothingSeen
<1>4. ASSUME NEW b \in Branches, NEW e \in Edits, OthersCommit(b, e)
      PROVE  hub' \in [Branches -> Commits] /\ \A c \in Branches : IsPrefix(hub[c], hub'[c])
  <2> DEFINE new == Commit(hub[b], Edited(Tip(hub[b]), e), "other")
  <2>1. hub[b] \in Commits /\ hub[b] # Absent /\ hub' = [hub EXCEPT ![b] = new]
    BY <1>0, <1>4 DEF OthersCommit
  <2>2. Edited(Tip(hub[b]), e) \in Trees
    BY <2>1, TipTree, EditedTree
  <2>3. new \in Commits /\ IsPrefix(hub[b], new)
    BY <2>1, <2>2, CommitMade DEF Makers
  <2>4. /\ hub' \in [Branches -> Commits] /\ hub'[b] = new
        /\ \A c \in Branches \ {b} : hub'[c] = hub[c]
    BY <1>0, <2>1, <2>3
  <2> QED
    BY <1>0, <2>3, <2>4, NothingSeen
<1> QED
  BY <1>1, <1>2, <1>3, <1>4, HubSteps

\* The types are kept: End and the steps of a run, one by one.
LEMMA TypeStep ==
  ASSUME TypeOK, Planned, [Next]_vars
  PROVE  TypeOK'
<1> USE DEF TypeOK
<1>0. hub' \in [Branches -> Commits]
  BY HubGrows
<1>1. ASSUME NEW state \in {"failed", "planned", "published", "unchanged"}, End(state)
      PROVE  /\ pc' = "idle" /\ source' \in Sources
             /\ dry' \in BOOLEAN /\ refused' \in BOOLEAN
             /\ seen' \in [Branches -> Commits] /\ cand' \in [Branches -> Commits]
             /\ have' \subseteq Commits /\ todo' \subseteq Branches
             /\ outcome' \in {"none", "failed", "planned", "published", "unchanged"}
  BY <1>1, NothingSeen DEF End
<1>2. CASE UNCHANGED vars
  BY <1>0, <1>2 DEF vars, run, budgets
<1>3. ASSUME NEW s \in Sources, NEW plan \in BOOLEAN, Begin(s, plan)
      PROVE  TypeOK'
  BY <1>0, <1>3, BranchesAssumption DEF Begin
<1>4. CASE Crash
  BY <1>0, <1>1, <1>4, BranchesAssumption DEF Crash
<1>5. CASE ReadHeads
  BY <1>0, <1>1, <1>5 DEF ReadHeads, budgets
<1>6. CASE Fetch
  <2>1. have' \subseteq Commits
    BY <1>6 DEF Fetch
  <2> QED
    BY <1>0, <1>6, <2>1 DEF Fetch, budgets
<1>7. CASE Plan
  <2>1. CASE CannotPlan
    BY <1>0, <1>1, <1>7, <2>1 DEF Plan, budgets
  <2>2. CASE ~CannotPlan
    <3>1. ASSUME NEW b \in Branches
          PROVE  Candidate(Base(b)) \in Commits
      BY <1>7, BaseExists, CandidateOver DEF Plan, Planning
    <3>2. cand' \in [Branches -> Commits]
      BY <1>7, <2>2, <3>1 DEF Plan
    <3> QED
      BY <1>0, <1>7, <2>2, <3>2 DEF Plan, budgets
  <2> QED
    BY <2>1, <2>2
<1>8. CASE Preflight
  <2>1. CASE End("failed") \/ End("planned")
    BY <1>0, <1>1, <1>8, <2>1 DEF Preflight, budgets
  <2>2. CASE ~(End("failed") \/ End("planned"))
    BY <1>0, <1>8, <2>2 DEF Preflight, Updates, budgets
  <2> QED
    BY <2>1, <2>2
<1>9. ASSUME NEW b \in Branches, PushBranch(b)
      PROVE  TypeOK'
  <2>1. refused' \in BOOLEAN
    BY <1>9 DEF PushBranch
  <2>2. faults' \in 0 .. MaxFaults
    BY <1>9, BranchesAssumption DEF PushBranch
  <2>3. /\ todo' \subseteq Branches
        /\ UNCHANGED <<pc, source, dry, seen, have, cand, outcome, pushed, edits, switches>>
    BY <1>9 DEF PushBranch
  <2> QED
    BY <1>0, <2>1, <2>2, <2>3
<1>10. CASE PushEnds
  <2>1. pushed' \in [Branches -> Nat]
    <3>1. \A b \in Branches : Len(hub[b]) \in Nat
      BY LenProperties DEF Commits
    <3> QED
      BY <1>10, <3>1 DEF PushEnds
  <2>2. CASE refused
    BY <1>0, <1>1, <1>10, <2>1, <2>2 DEF PushEnds, budgets
  <2>3. CASE ~refused
    BY <1>0, <1>10, <2>1, <2>3 DEF PushEnds, budgets
  <2> QED
    BY <2>2, <2>3
<1>11. ASSUME NEW b \in Branches, Readback(b)
       PROVE  TypeOK'
  <2>1. CASE End("failed")
    BY <1>0, <1>1, <1>11, <2>1 DEF Readback, budgets
  <2>2. CASE ~End("failed")
    BY <1>0, <1>11, <2>2 DEF Readback, budgets
  <2> QED
    BY <2>1, <2>2
<1>12. CASE Report
  BY <1>0, <1>1, <1>12 DEF Report, budgets
<1>13. CASE Others
  <2>1. /\ UNCHANGED run /\ UNCHANGED <<faults, switches>>
        /\ edits < MaxEdits /\ edits' = edits + 1
    BY <1>13 DEF Others, OthersBranch, OthersCommit
  <2> QED
    BY <1>0, <2>1, BranchesAssumption DEF run
<1> QED
  BY <1>2, <1>3, <1>4, <1>5, <1>6, <1>7, <1>8, <1>9, <1>10, <1>11, <1>12, <1>13
  DEF Next, Step

\* The heads a run has seen stay behind the branches, and its candidates stay
\* those over them.
LEMMA PlannedStep ==
  ASSUME TypeOK, Planned, [Next]_vars
  PROVE  Planned'
<1>0. /\ hub' \in [Branches -> Commits] /\ seen \in [Branches -> Commits]
      /\ hub \in [Branches -> Commits] /\ Trunk \in Branches
      /\ \A b \in Branches : IsPrefix(hub[b], hub'[b])
  BY HubGrows, BranchesAssumption DEF TypeOK
<1>1. \A b \in Branches : IsPrefix(seen[b], hub'[b])
  <2> TAKE b \in Branches
  <2>1. seen[b] \in Seq(Entries) /\ hub[b] \in Seq(Entries) /\ hub'[b] \in Seq(Entries)
    BY <1>0 DEF Commits, Entries
  <2>2. IsPrefix(seen[b], hub[b])
    BY DEF Planned
  <2> QED
    BY <1>0, <2>1, <2>2, PrefixTransitive
<1>2. ASSUME NEW state, End(state)
      PROVE  Planned'
  <2>1. pc' = "idle" /\ seen' = NoCommits
    BY <1>2 DEF End
  <2>2. \A b \in Branches : IsPrefix(seen'[b], hub'[b])
    BY <1>0, <2>1, NothingSeen DEF NoCommits
  <2> QED
    BY <2>1, <2>2 DEF Planned, Planning, Pushing
\* A step that leaves the plan alone.
<1>3. ASSUME UNCHANGED <<source, seen, cand>>,
             pc' \in Planning => pc \in Planning,
             pc' \in Pushing => pc \in Pushing
      PROVE  Planned'
  <2>1. \A b \in Branches : Base(b)' = Base(b) /\ Candidate(Base(b))' = Candidate(Base(b))
    BY <1>3 DEF Base, Exists, Candidate
  <2> QED
    BY <1>1, <1>3, <2>1 DEF Planned
<1>4. CASE UNCHANGED vars
  BY <1>3, <1>4 DEF vars, run
<1>5. ASSUME NEW s \in Sources, NEW plan \in BOOLEAN, Begin(s, plan)
      PROVE  Planned'
  <2>1. pc' = "heads" /\ UNCHANGED seen
    BY <1>5 DEF Begin
  <2> QED
    BY <1>1, <2>1 DEF Planned, Planning, Pushing
<1>6. CASE Crash
  BY <1>2, <1>6 DEF Crash
<1>7. CASE ReadHeads
  <2>1. CASE hub[Trunk] = Absent
    BY <1>2, <1>7, <2>1 DEF ReadHeads
  <2>2. CASE hub[Trunk] # Absent
    <3>1. seen' = hub /\ hub' = hub /\ pc' = "fetch"
      BY <1>7, <2>2 DEF ReadHeads
    <3> QED
      BY <1>0, <2>2, <3>1 DEF Planned, Planning, Pushing
  <2> QED
    BY <2>1, <2>2
<1>8. CASE Fetch
  BY <1>3, <1>8 DEF Fetch, Planning, Pushing
<1>9. CASE Plan
  <2>1. CASE CannotPlan
    BY <1>2, <1>9, <2>1 DEF Plan
  <2>2. CASE ~CannotPlan
    <3>1. /\ pc = "plan" /\ pc' = "preflight" /\ UNCHANGED <<source, seen>>
          /\ cand' = [b \in Branches |-> Candidate(Base(b))]
      BY <1>9, <2>2 DEF Plan
    <3>2. seen[Trunk] # Absent
      BY <3>1 DEF Planned, Planning
    <3>3. \A b \in Branches : ~Obstructed(Tip(Base(b)), source)
      BY <1>0, <2>2, <3>2 DEF CannotPlan, Base, Exists
    <3>4. \A b \in Branches : Base(b)' = Base(b) /\ Candidate(Base(b))' = Candidate(Base(b))
      BY <3>1 DEF Base, Exists, Candidate
    <3> QED
      BY <1>1, <3>1, <3>2, <3>3, <3>4 DEF Planned
  <2> QED
    BY <2>1, <2>2
<1>10. CASE Preflight
  <2>1. CASE End("failed") \/ End("planned")
    BY <1>2, <2>1
  <2>2. CASE ~(End("failed") \/ End("planned"))
    BY <1>3, <1>10, <2>2 DEF Preflight, Planning, Pushing
  <2> QED
    BY <2>1, <2>2
<1>11. ASSUME NEW b \in Branches, PushBranch(b)
       PROVE  Planned'
  BY <1>3, <1>11 DEF PushBranch
<1>12. CASE PushEnds
  BY <1>2, <1>3, <1>12 DEF PushEnds, Planning, Pushing
<1>13. ASSUME NEW b \in Branches, Readback(b)
       PROVE  Planned'
  BY <1>2, <1>3, <1>13 DEF Readback
<1>14. CASE Report
  BY <1>2, <1>14 DEF Report
<1>15. CASE Others
  BY <1>3, <1>15 DEF Others, OthersBranch, OthersCommit, run
<1> QED
  BY <1>4, <1>5, <1>6, <1>7, <1>8, <1>9, <1>10, <1>11, <1>12, <1>13, <1>14, <1>15
  DEF Next, Step

-----------------------------------------------------------------------------
(* The theorems. *)

\* The type invariant, together with the invariant every other proof rests on:
\* what a run pushes is the candidate over heads that still lie behind the
\* branches.
THEOREM PlanHolds == Spec => [](TypeOK /\ Planned)
<1>1. Init => TypeOK /\ Planned
  BY InvariantInit
<1>2. TypeOK /\ Planned /\ [Next]_vars => (TypeOK /\ Planned)'
  BY TypeStep, PlannedStep
<1> QED
  BY <1>1, <1>2, PTL DEF Spec

\* The type invariant of the publisher.
THEOREM PublisherTypes == Spec => []TypeOK
BY PlanHolds, PTL

\* No branch ever loses a commit, whoever commits in between the steps of a run.
THEOREM FastForwardOnly == Spec => NoCommitLost
<1>1. TypeOK /\ Planned /\ [Next]_vars => [\A b \in Branches : IsPrefix(hub[b], hub'[b])]_vars
  BY HubGrows
<1> QED
  BY <1>1, PlanHolds, PTL DEF Spec, NoCommitLost

\* A push mirrors the tip it replaces: it takes effect only on the base of the
\* candidate, and leaves the unmanaged files that are in nothing's way.
LEMMA PushMirrorsTip ==
  ASSUME TypeOK, Planned, [Next]_vars, NEW b \in Branches,
         Published(b), hub[b] # Absent
  PROVE  /\ Tip(hub'[b]) = Mirrored(Tip(hub[b]), source)
         /\ Tip(hub'[b]) # Tip(hub[b])
<1>0. hub \in [Branches -> Commits]
  BY DEF TypeOK
<1>1. hub' # hub /\ hub'[b] # hub[b] /\ Last(hub'[b]).by = "publisher"
  BY DEF Published
<1>2. ASSUME NEW c \in Branches, PushBranch(c), FastForward(c),
             hub' = [hub EXCEPT ![c] = cand[c]]
      PROVE  /\ Tip(hub'[b]) = Mirrored(Tip(hub[b]), source)
             /\ Tip(hub'[b]) # Tip(hub[b])
  <2>1. c = b /\ hub'[b] = cand[b]
    BY <1>0, <1>1, <1>2
  <2>2. hub[b] = Base(b)
    BY <1>1, <1>2, <2>1 DEF FastForward
  <2>3. pc \in Pushing
    BY <1>2 DEF PushBranch, Pushing
  <2>4. cand[b] = Candidate(Base(b)) /\ Tip(cand[b]) = Mirrored(Tip(Base(b)), source)
    BY <2>3, CandidateExists
  <2>5. Mirrored(Tip(Base(b)), source) # Tip(Base(b))
    BY <1>1, <2>1, <2>2, <2>4 DEF Candidate
  <2> QED
    BY <2>1, <2>2, <2>4, <2>5
<1>3. ASSUME NEW c \in Branches, OthersBranch(c)
      PROVE  FALSE
  <2>1. hub[c] = Absent /\ hub' = [hub EXCEPT ![c] = hub[Trunk]]
    BY <1>3 DEF OthersBranch
  <2> QED
    BY <1>0, <1>1, <2>1
<1>4. ASSUME NEW c \in Branches, NEW e \in Edits, OthersCommit(c, e)
      PROVE  FALSE
  <2> DEFINE new == Commit(hub[c], Edited(Tip(hub[c]), e), "other")
  <2>1. hub[c] # Absent /\ hub' = [hub EXCEPT ![c] = new]
    BY <1>0, <1>4 DEF OthersCommit
  <2>2. Edited(Tip(hub[c]), e) \in Trees
    BY <1>0, <2>1, TipTree, EditedTree
  <2>3. Last(new) = [tree |-> Edited(Tip(hub[c]), e), by |-> "other"]
    BY <1>0, <2>2, CommitMade DEF Makers
  <2>4. Last(new).by = "other"
    BY <2>3
  <2>5. c = b /\ hub'[b] = new
    BY <1>0, <1>1, <2>1
  <2> QED
    BY <1>1, <2>4, <2>5
<1> QED
  BY <1>1, <1>2, <1>3, <1>4, HubSteps

\* Every push is needed: the branch did not serve the source, and does.
THEOREM PushesAreNeeded == Spec => EveryPushIsNeeded
<1>1. ASSUME TypeOK, Planned, [Next]_vars, NEW b \in Branches,
             Published(b), hub[b] # Absent
      PROVE  Mirrors(Tip(hub'[b]), source) /\ ~Mirrors(Tip(hub[b]), source)
  <2>1. Tip(hub'[b]) = Mirrored(Tip(hub[b]), source) /\ Tip(hub'[b]) # Tip(hub[b])
    BY <1>1, PushMirrorsTip
  <2>2. Tip(hub[b]) \in Trees /\ source \in Sources
    BY <1>1, TipTree DEF TypeOK
  <2> QED
    BY <2>1, <2>2, MirroredServes
<1>2. TypeOK /\ Planned /\ [Next]_vars =>
        [\A b \in Branches : Published(b) /\ hub[b] # Absent =>
            Mirrors(Tip(hub'[b]), source) /\ ~Mirrors(Tip(hub[b]), source)]_vars
  BY <1>1
<1> QED
  BY <1>2, PlanHolds, PTL DEF Spec, EveryPushIsNeeded

\* Every unmanaged file outside the way of the managed paths survives every
\* push, as it is at the moment of the push.
THEOREM UnmanagedSurvive == Spec => UnmanagedFilesSurvive
<1>1. ASSUME TypeOK, Planned, [Next]_vars, NEW b \in Branches
      PROVE  PushKeeps(b, Unmanaged(source) \cap OutOfTheWay)
  <2>1. SUFFICES ASSUME Published(b), hub[b] # Absent,
                        NEW p \in DOMAIN Tip(hub[b]) \cap (Unmanaged(source) \cap OutOfTheWay)
                 PROVE  p \in DOMAIN Tip(hub'[b]) /\ Tip(hub'[b])[p] = Tip(hub[b])[p]
    BY DEF PushKeeps
  <2>2. Tip(hub'[b]) = Mirrored(Tip(hub[b]), source)
    BY <1>1, <2>1, PushMirrorsTip
  <2>3. Tip(hub[b]) \in Trees /\ source \in Sources
    BY <1>1, <2>1, TipTree DEF TypeOK
  <2>4. \A q \in Managed(source) : <<p, q>> \notin InTheWay
    BY DEF OutOfTheWay
  <2> QED
    BY <2>2, <2>3, <2>4, MirroredTree
<1>2. TypeOK /\ Planned /\ [Next]_vars =>
        [\A b \in Branches : PushKeeps(b, Unmanaged(source) \cap OutOfTheWay)]_vars
  BY <1>1
<1> QED
  BY <1>2, PlanHolds, PTL DEF Spec, UnmanagedFilesSurvive

-----------------------------------------------------------------------------
(* What a receipt reports. *)

\* Since this run's push ended, the branch has carried the managed tree.
Served(b) ==
  \E n \in pushed[b] .. Len(hub[b]) : n > 0 /\ Mirrors(hub[b][n].tree, source)

\* A run that reads back has found every branch it has read to be so, and only
\* such a run reports.
ServedSoFar ==
  /\ pc = "readback" =>
       /\ \A b \in Branches : pushed[b] <= Len(hub[b])
       /\ \A b \in Branches \ todo : Served(b)
  /\ outcome \in {"published", "unchanged"} =>
       pc = "idle" /\ \A b \in Branches : Served(b)

\* A branch that was served has been, whatever is committed later.
LEMMA ServedStays ==
  ASSUME TypeOK, Planned, [Next]_vars, UNCHANGED <<pushed, source>>,
         NEW b \in Branches
  PROVE  /\ Served(b) => Served(b)'
         /\ pushed[b] <= Len(hub[b]) => (pushed[b] <= Len(hub[b]))'
<1>1. /\ hub[b] \in Seq(Entries) /\ hub'[b] \in Seq(Entries)
      /\ IsPrefix(hub[b], hub'[b]) /\ pushed[b] \in Nat
  BY HubGrows DEF TypeOK, Commits, Entries
<1>2. /\ Len(hub[b]) \in Nat /\ Len(hub'[b]) \in Nat
      /\ Len(hub[b]) <= Len(hub'[b])
      /\ \A n \in 1 .. Len(hub[b]) : hub[b][n] = hub'[b][n]
  BY <1>1, PrefixPointwise, LenProperties
<1>3. ASSUME NEW n \in pushed[b] .. Len(hub[b]), n > 0, Mirrors(hub[b][n].tree, source)
      PROVE  Served(b)'
  <2>1. n \in pushed[b] .. Len(hub'[b]) /\ n \in 1 .. Len(hub[b])
    BY <1>1, <1>2, <1>3
  <2>2. Mirrors(hub'[b][n].tree, source)
    BY <1>2, <1>3, <2>1
  <2>3. Mirrors(hub'[b][n].tree, source) <=> Mirrors(hub[b][n].tree, source)'
    BY DEF Mirrors, Managed
  <2> QED
    BY <1>3, <2>1, <2>2, <2>3 DEF Served
<1> QED
  BY <1>1, <1>2, <1>3 DEF Served

\* One step of ServedSoFar.
LEMMA ServedStep ==
  ASSUME TypeOK, Planned, ServedSoFar, [Next]_vars
  PROVE  ServedSoFar'
\* Steps that end without reporting, and steps that neither end nor read back.
<1>1. ASSUME outcome' \notin {"published", "unchanged"}, pc' # "readback"
      PROVE  ServedSoFar'
  BY <1>1 DEF ServedSoFar
<1>2. ASSUME UNCHANGED <<pc, outcome, todo, pushed, source>>
      PROVE  ServedSoFar'
  BY <1>2, ServedStays DEF ServedSoFar
<1>3. CASE UNCHANGED vars
  BY <1>2, <1>3 DEF vars, run
<1>4. ASSUME NEW s \in Sources, NEW plan \in BOOLEAN, Begin(s, plan)
      PROVE  ServedSoFar'
  BY <1>1, <1>4 DEF Begin
<1>5. ASSUME NEW state, End(state), state \notin {"published", "unchanged"}
      PROVE  ServedSoFar'
  BY <1>1, <1>5 DEF End
<1>6. CASE Crash
  BY <1>5, <1>6 DEF Crash
\* While a run is on, its receipt says nothing yet.
<1>7. ASSUME pc # "idle", UNCHANGED outcome
      PROVE  outcome' \notin {"published", "unchanged"}
  BY <1>7 DEF ServedSoFar
<1>8. CASE ReadHeads
  BY <1>1, <1>5, <1>7, <1>8 DEF ReadHeads
<1>9. CASE Fetch
  BY <1>1, <1>7, <1>9 DEF Fetch
<1>10. CASE Plan
  BY <1>1, <1>5, <1>7, <1>10 DEF Plan
<1>11. CASE Preflight
  BY <1>1, <1>5, <1>7, <1>11 DEF Preflight
<1>12. ASSUME NEW b \in Branches, PushBranch(b)
       PROVE  ServedSoFar'
  BY <1>1, <1>7, <1>12 DEF PushBranch
<1>13. CASE PushEnds
  <2>1. CASE refused
    BY <1>5, <1>13, <2>1 DEF PushEnds
  <2>2. CASE ~refused
    <3>1. /\ pc = "push" /\ pc' = "readback" /\ todo' = Branches
          /\ UNCHANGED <<hub, outcome>>
          /\ pushed' = [b \in Branches |-> Len(hub[b])]
      BY <1>13, <2>2 DEF PushEnds
    <3>2. ASSUME NEW b \in Branches
          PROVE  pushed'[b] <= Len(hub'[b])
      <4>1. Len(hub[b]) \in Nat
        BY LenProperties DEF TypeOK, Commits
      <4> QED
        BY <3>1, <4>1
    <3>3. outcome' \notin {"published", "unchanged"}
      BY <1>7, <3>1
    <3> QED
      BY <3>1, <3>2, <3>3 DEF ServedSoFar
  <2> QED
    BY <2>1, <2>2
<1>14. ASSUME NEW b \in Branches, Readback(b)
       PROVE  ServedSoFar'
  <2>1. CASE ~ReadbackPasses(b)
    BY <1>5, <1>14, <2>1 DEF Readback
  <2>2. CASE ReadbackPasses(b)
    <3>1. /\ pc = "readback" /\ todo' = todo \ {b}
          /\ UNCHANGED <<pc, source, outcome, pushed, hub>>
      BY <1>14, <2>2 DEF Readback
    <3>2. Served(b)
      <4>1. hub[b] = cand[b] /\ Mirrors(Tip(hub[b]), source)
        BY <2>2 DEF ReadbackPasses
      <4>2. Len(hub[b]) \in Nat \ {0}
        BY <3>1, <4>1, CandidateExists, TipTree DEF Pushing
      <4>3. pushed[b] <= Len(hub[b]) /\ pushed[b] \in Nat
        BY <3>1 DEF ServedSoFar, TypeOK
      <4>4. Mirrors(hub[b][Len(hub[b])].tree, source)
        BY <4>1 DEF Tip, Last
      <4>5. Len(hub[b]) \in pushed[b] .. Len(hub[b]) /\ Len(hub[b]) > 0
        BY <4>2, <4>3
      <4> QED
        BY <4>4, <4>5 DEF Served
    <3>3. \A c \in Branches \ todo' : Served(c)
      BY <3>1, <3>2 DEF ServedSoFar
    <3>4. \A c \in Branches : pushed[c] <= Len(hub[c])
      BY <3>1 DEF ServedSoFar
    <3>5. outcome' \notin {"published", "unchanged"}
      BY <1>7, <3>1
    <3>6. \A c \in Branches : Served(c)' = Served(c)
      BY <3>1 DEF Served, Mirrors, Managed
    <3> QED
      BY <3>1, <3>3, <3>4, <3>5, <3>6 DEF ServedSoFar
  <2> QED
    BY <2>1, <2>2
<1>15. CASE Report
  <2>1. /\ pc = "readback" /\ todo = {} /\ pc' = "idle"
        /\ UNCHANGED <<hub, pushed, source>>
    BY <1>15 DEF Report, End
  <2>2. \A b \in Branches : Served(b)
    BY <2>1 DEF ServedSoFar
  <2>3. \A b \in Branches : Served(b)'
    BY <2>1, <2>2 DEF Served, Mirrors, Managed
  <2> QED
    BY <2>1, <2>3 DEF ServedSoFar
<1>16. CASE Others
  BY <1>2, <1>16 DEF Others, OthersBranch, OthersCommit, run
<1> QED
  BY <1>3, <1>4, <1>6, <1>8, <1>9, <1>10, <1>11, <1>12, <1>13, <1>14, <1>15, <1>16
  DEF Next, Step

\* A receipt that reports success is true of every branch at some moment after
\* the push: no commit of others, partial push or lost answer makes it lie.
THEOREM ReceiptsAreTrue == Spec => []ReportedWasServed
<1>1. Init => ServedSoFar
  BY DEF Init, ServedSoFar
<1>2. TypeOK /\ Planned /\ ServedSoFar /\ [Next]_vars => ServedSoFar'
  BY ServedStep
<1>3. ServedSoFar => ReportedWasServed
  BY DEF ServedSoFar, Served, ReportedWasServed
<1> QED
  BY <1>1, <1>2, <1>3, PlanHolds, PTL DEF Spec

-----------------------------------------------------------------------------
(* The abstract specification. *)

\* HubMirror speaks of the same trees.
LEMMA SameTrees ==
  /\ \A t, s : Mirror!Mirrored(t, s) = Mirrored(t, s)
  /\ \A t, s : Mirror!Obstructed(t, s) <=> Obstructed(t, s)
  /\ \A c : Mirror!Tip(c) = Tip(c)
  /\ \A c, s : Mirror!Mirror(c, s) = Commit(c, Mirrored(Tip(c), s), "publisher")
<1>1. \A t, s : Mirror!Mirrored(t, s) = Mirrored(t, s)
  BY DEF Mirror!Mirrored, Mirrored, Mirror!Deleted, Deleted, Mirror!Overridden, Overridden,
         Mirror!Managed, Managed
<1>2. \A t, s : Mirror!Obstructed(t, s) <=> Obstructed(t, s)
  BY DEF Mirror!Obstructed, Obstructed, Mirror!Managed, Managed
<1>3. \A c : Mirror!Tip(c) = Tip(c)
  BY DEF Mirror!Tip, Tip, Mirror!Last, Last
<1> QED
  BY <1>1, <1>2, <1>3 DEF Mirror!Mirror, Commit

\* A push is the abstract creation or publication, or changes nothing.
LEMMA PushImplements ==
  ASSUME TypeOK, Planned, NEW b \in Branches, PushBranch(b), FastForward(b),
         hub' = [hub EXCEPT ![b] = cand[b]]
  PROVE  Mirror!Next \/ UNCHANGED hub
<1>0. /\ hub \in [Branches -> Commits] /\ source \in Sources
      /\ pc \in Pushing /\ pc \in Planning
  BY DEF TypeOK, PushBranch, Pushing, Planning
<1>1. /\ Base(b) \in Commits /\ Base(b) # Absent
      /\ cand[b] = Candidate(Base(b))
      /\ ~Obstructed(Tip(Base(b)), source)
  BY <1>0, BaseExists DEF Planned
<1> DEFINE child == Commit(Base(b), Mirrored(Tip(Base(b)), source), "publisher")
<1>2. cand[b] = Base(b) \/ cand[b] = child
  BY <1>0, <1>1, CandidateOver
<1>3. child = Mirror!Mirror(Base(b), source) /\ ~Mirror!Obstructed(Mirror!Tip(Base(b)), source)
  BY <1>1, SameTrees
<1>4. CASE hub[b] = cand[b]
  BY <1>0, <1>4
<1>5. CASE hub[b] = Base(b) /\ hub[b] # cand[b]
  <2>1. Mirror!Publish(b, source)
    BY <1>1, <1>2, <1>3, <1>5 DEF Mirror!Publish, Mirror!Moves, Absent
  <2> QED
    BY <1>0, <2>1 DEF Mirror!Next
<1>6. CASE hub[b] = Absent
  <2>1. Base(b) = seen[Trunk]
    <3>1. IsPrefix(seen[b], hub[b]) /\ seen[b] \in Seq(Entries) /\ hub[b] \in Seq(Entries)
      BY <1>0 DEF Planned, TypeOK, Commits, Entries
    <3>2. Len(seen[b]) <= Len(hub[b]) /\ Len(seen[b]) \in Nat /\ Len(hub[b]) = 0
      BY <1>6, <3>1, PrefixPointwise, LenProperties DEF Absent
    <3>3. seen[b] = Absent
      BY <3>1, <3>2, EmptySeq DEF Absent
    <3> QED
      BY <3>3 DEF Base, Exists
  <2>2. /\ Len(Base(b)) \in 1 .. Len(hub[Trunk])
        /\ Base(b) = SubSeq(hub[Trunk], 1, Len(Base(b)))
    <3>1. /\ IsPrefix(Base(b), hub[Trunk])
          /\ Base(b) \in Seq(Entries) /\ hub[Trunk] \in Seq(Entries)
      BY <1>0, <1>1, <2>1, BranchesAssumption DEF Planned, Commits, Entries
    <3>2. Len(Base(b)) \in Nat \ {0} /\ Len(hub[Trunk]) \in Nat
      BY <1>1, <3>1, TipTree, LenProperties
    <3> QED
      BY <3>1, <3>2, PrefixIsSubSeq
  <2>3. Mirror!Moves(b, cand[b])
    BY DEF Mirror!Moves
  <2>4. Mirror!Create(b)
    BY <1>0, <1>2, <1>3, <1>6, <2>2, <2>3 DEF Mirror!Create, Absent
  <2> QED
    BY <2>4 DEF Mirror!Next
<1> QED
  BY <1>4, <1>5, <1>6 DEF FastForward

\* Every step of the publisher is a step of HubMirror or leaves the Hub alone.
LEMMA StepImplements ==
  ASSUME TypeOK, Planned, [Next]_vars
  PROVE  [Mirror!Next]_hub
<1>0. hub \in [Branches -> Commits]
  BY DEF TypeOK
<1>1. ASSUME NEW b \in Branches, OthersBranch(b)
      PROVE  Mirror!Next
  <2>1. hub[b] = Absent /\ hub[Trunk] # Absent /\ hub' = [hub EXCEPT ![b] = hub[Trunk]]
    BY <1>1 DEF OthersBranch
  <2>2. Len(hub[Trunk]) \in 1 .. Len(hub[Trunk]) /\ hub[Trunk] = SubSeq(hub[Trunk], 1, Len(hub[Trunk]))
    <3>1. hub[Trunk] \in Commits /\ hub[Trunk] \in Seq(Entries)
      BY <1>0, BranchesAssumption DEF Commits, Entries
    <3>2. Len(hub[Trunk]) \in Nat \ {0}
      BY <2>1, <3>1, TipTree
    <3> QED
      BY <3>1, <3>2
  <2>3. Mirror!Moves(b, hub[Trunk])
    BY <2>1 DEF Mirror!Moves
  <2>4. Mirror!Create(b)
    BY <2>1, <2>2, <2>3 DEF Mirror!Create, Absent
  <2> QED
    BY <2>4 DEF Mirror!Next
<1>2. ASSUME NEW b \in Branches, NEW e \in Edits, OthersCommit(b, e)
      PROVE  Mirror!Next
  <2> DEFINE t == Edited(Tip(hub[b]), e)
             new == Commit(hub[b], t, "other")
  <2>1. hub[b] # Absent /\ hub' = [hub EXCEPT ![b] = new] /\ hub'[b] = new
    BY <1>0, <1>2 DEF OthersCommit
  <2>2. t \in Trees
    BY <1>0, <2>1, TipTree, EditedTree
  <2>3. new # Absent /\ Last(new) = [tree |-> t, by |-> "other"]
    BY <1>0, <2>2, CommitMade DEF Makers
  <2>4. new = Append(hub[b], Last(new)) /\ Last(new).by = "other"
    BY <2>3 DEF Commit
  <2>5. Mirror!OthersCommit(b)
    BY <2>1, <2>3, <2>4 DEF Mirror!OthersCommit, Mirror!Moves, Mirror!Last, Last, Absent
  <2> QED
    BY <2>5 DEF Mirror!Next
<1> QED
  BY <1>1, <1>2, HubSteps, PushImplements

\* The publisher implements its abstract specification.
THEOREM PublisherImplementsHubMirror == Spec => ImplementsHubMirror
<1>1. Init => Mirror!Init
  BY DEF Init, Mirror!Init, Commit, Absent
<1>2. TypeOK /\ Planned /\ [Next]_vars => [Mirror!Next]_hub
  BY StepImplements
<1> QED
  BY <1>1, <1>2, PlanHolds, PTL DEF Spec, ImplementsHubMirror, Mirror!Spec
=============================================================================
