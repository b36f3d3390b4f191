----------------------------- MODULE Publisher ------------------------------
(***************************************************************************)
(* publish_kernel and publish_twin of scripts/szl_kernel_publish.py: one   *)
(* process that mirrors a source commit onto the branches of one Hub       *)
(* repository in several network steps, while other people commit to the   *)
(* same branches.  The kernel repository has two branches, the model twin  *)
(* one; both are instances of this module.                                 *)
(*                                                                         *)
(* A Git commit is its history, the sequence of trees that led to it with  *)
(* who made each: the parent of a commit is its front, its descendants are *)
(* its extensions, and a branch is the commit it points at.                *)
(***************************************************************************)
EXTENDS HubTrees, Integers, Sequences, SequencesExt

CONSTANTS
  Branches, Trunk,   \* Trunk is "main"
  FirstTrees,        \* branch -> the tree it starts with, for those that exist
  Edits,             \* what others do to a tree: records of path and content
  NoFile,            \* the content that deletes
  MaxEdits,          \* bounds the commits and branches of others
  MaxFaults,         \* bounds crashes, lost answers and refusals of the Hub
  MaxSwitches        \* bounds how often another source is asked for

ASSUME BranchesAssumption ==
  /\ Trunk \in Branches
  /\ DOMAIN FirstTrees \subseteq Branches
  /\ \A b \in DOMAIN FirstTrees : FirstTrees[b] \in Trees
  /\ NoFile \notin Contents
  /\ Edits \subseteq [path : Paths, content : Contents \cup {NoFile}]
  /\ MaxEdits \in Nat /\ MaxFaults \in Nat /\ MaxSwitches \in Nat

VARIABLES
  hub,      \* branch -> the commit it points at
  pc,       \* where the process is
  source,   \* the source commit this process, or the last one, publishes
  dry,      \* --dry-run
  seen,     \* the heads as ls-remote gave them
  have,     \* the commits the shallow fetch brought
  cand,     \* branch -> the candidate commit
  todo,     \* branches left to push or to read back
  refused,  \* the Hub refused a branch of this push
  outcome,  \* the state in the receipt of the last process
  pushed,   \* how long each history was when the push ended (history variable)
  edits, faults, switches

run == <<pc, source, dry, seen, have, cand, todo, refused, outcome, pushed>>
budgets == <<edits, faults, switches>>
vars == <<hub, run, budgets>>

Makers == {"publisher", "other"}
Commits == Seq([tree : Trees, by : Makers])
Absent == << >>
Tip(commit) == Last(commit).tree
Commit(parent, t, maker) == Append(parent, [tree |-> t, by |-> maker])

NoCommits == [b \in Branches |-> Absent]

Init ==
  /\ hub = [b \in Branches |-> IF b \in DOMAIN FirstTrees
                               THEN Commit(Absent, FirstTrees[b], "other")
                               ELSE Absent]
  /\ pc = "idle" /\ source \in Sources /\ dry = FALSE
  /\ seen = NoCommits /\ have = {} /\ cand = NoCommits
  /\ todo = {} /\ refused = FALSE /\ outcome = "none"
  /\ pushed = [b \in Branches |-> 0]
  /\ edits = 0 /\ faults = 0 /\ switches = 0

(***************************************************************************)
(* How a process begins and ends.                                          *)
(***************************************************************************)
Begin(s, plan) ==
  /\ pc = "idle"
  /\ s = source \/ switches < MaxSwitches
  /\ switches' = IF s = source THEN switches ELSE switches + 1
  /\ pc' = "heads" /\ source' = s /\ dry' = plan /\ outcome' = "none"
  /\ pushed' = [b \in Branches |-> 0]
  /\ UNCHANGED <<hub, seen, have, cand, todo, refused, edits, faults>>

\* The scratch repository goes with the process; the receipt stays.
End(state) ==
  /\ pc' = "idle" /\ outcome' = state /\ dry' = FALSE
  /\ seen' = NoCommits /\ have' = {} /\ cand' = NoCommits
  /\ todo' = {} /\ refused' = FALSE
  /\ UNCHANGED source

\* PublishError, a time-out or the end of the runner, before any step.
Crash ==
  /\ pc # "idle" /\ faults < MaxFaults
  /\ End("failed")
  /\ faults' = faults + 1
  /\ UNCHANGED <<hub, pushed, edits, switches>>

(***************************************************************************)
(* Reading the Hub and planning.                                           *)
(***************************************************************************)
Exists(b) == seen[b] # Absent

ReadHeads ==
  /\ pc = "heads"
  /\ IF hub[Trunk] = Absent
       THEN End("failed")
       ELSE /\ seen' = hub /\ pc' = "fetch"
            /\ UNCHANGED <<source, dry, have, cand, todo, refused, outcome>>
  /\ UNCHANGED <<hub, pushed, budgets>>

\* Of each branch that was there, the commit it points at now, without history.
Fetch ==
  /\ pc = "fetch"
  /\ have' = {hub[b] : b \in {c \in Branches : Exists(c)}}
  /\ pc' = "plan"
  /\ UNCHANGED <<hub, source, dry, seen, cand, todo, refused, outcome, pushed>>
  /\ UNCHANGED budgets

\* Mutant: a commit is made even if it changes nothing.
CandidateAnyway(parent) == Commit(parent, Mirrored(Tip(parent), source), "publisher")

\* A commit that would change nothing is not made.
Candidate(parent) ==
  LET t == Mirrored(Tip(parent), source)
  IN IF t = Tip(parent) THEN parent ELSE Commit(parent, t, "publisher")

\* Mutant: every branch gets main's candidate.
MainIsBase(b) == seen[Trunk]

\* A version branch that does not exist is created from main's candidate.
Base(b) == IF Exists(b) THEN seen[b] ELSE seen[Trunk]

\* Mutant: whatever stands at a managed path is replaced.
CannotFind == \E b \in Branches : Exists(b) /\ seen[b] \notin have

CannotPlan ==
  \E b \in Branches : Exists(b) /\ \/ seen[b] \notin have
                                   \/ Obstructed(Tip(seen[b]), source)

Plan ==
  /\ pc = "plan"
  /\ IF CannotPlan
       THEN End("failed")
       ELSE /\ cand' = [b \in Branches |-> Candidate(Base(b))]
            /\ pc' = "preflight"
            /\ UNCHANGED <<source, dry, seen, have, todo, refused, outcome>>
  /\ UNCHANGED <<hub, pushed, budgets>>

Updates == {b \in Branches : cand[b] # seen[b]}

(***************************************************************************)
(* Pushing.  Git takes a branch forward only, and only from a commit that  *)
(* the shallow repository knows to lie behind the candidate.               *)
(***************************************************************************)
\* Mutant: git push --force.
Forced(b) == TRUE

FastForward(b) == hub[b] \in {Absent, Base(b), cand[b]}

\* git push --dry-run of all updates, then the end of a dry run.
Preflight ==
  /\ pc = "preflight"
  /\ \/ /\ \E b \in Updates : ~FastForward(b)
        /\ End("failed")
     \/ /\ \A b \in Updates : FastForward(b)
        /\ dry
        /\ End("planned")
     \/ /\ \A b \in Updates : FastForward(b)
        /\ ~dry
        /\ pc' = "push" /\ todo' = Updates
        /\ UNCHANGED <<source, dry, seen, have, cand, refused, outcome>>
  /\ UNCHANGED <<hub, pushed, budgets>>

\* Refspecs and readbacks are taken in the order of the branches' names.
Turn(b) == b \in todo /\ (Trunk \in todo => b = Trunk)

PushBranch(b) ==
  /\ pc = "push" /\ Turn(b)
  /\ todo' = todo \ {b}
  /\ \/ /\ FastForward(b)
        /\ hub' = [hub EXCEPT ![b] = cand[b]]
        /\ UNCHANGED <<refused, faults>>
     \/ /\ ~FastForward(b)
        /\ refused' = TRUE
        /\ UNCHANGED <<hub, faults>>
     \/ /\ faults < MaxFaults       \* refused by the Hub itself
        /\ faults' = faults + 1 /\ refused' = TRUE
        /\ UNCHANGED hub
  /\ UNCHANGED <<pc, source, dry, seen, have, cand, outcome, pushed, edits, switches>>

PushEnds ==
  /\ pc = "push" /\ todo = {}
  /\ pushed' = [b \in Branches |-> Len(hub[b])]
  /\ IF refused
       THEN End("failed")
       ELSE /\ pc' = "readback" /\ todo' = Branches
            /\ UNCHANGED <<source, dry, seen, have, cand, refused, outcome>>
  /\ UNCHANGED <<hub, budgets>>

(***************************************************************************)
(* Reading back.  ls-remote and the fetch after it must both give the      *)
(* candidate, so one look at the branch stands for the two.                *)
(***************************************************************************)
\* Mutant: what is read back is what was to be pushed.
CandidatePasses(b) == Mirrors(Tip(cand[b]), source)

ReadbackPasses(b) ==
  /\ hub[b] = cand[b]
  /\ Mirrors(Tip(hub[b]), source)
  /\ UnmanagedFiles(Tip(hub[b]), source) = UnmanagedFiles(Tip(Base(b)), source)

Readback(b) ==
  /\ pc = "readback" /\ Turn(b)
  /\ \/ /\ ReadbackPasses(b)
        /\ todo' = todo \ {b}
        /\ UNCHANGED <<pc, source, dry, seen, have, cand, refused, outcome>>
     \/ /\ ~ReadbackPasses(b)
        /\ End("failed")
  /\ UNCHANGED <<hub, pushed, budgets>>

\* Mutant: a receipt without changes keeps the state it was created with.
ReportHolding ==
  /\ pc = "readback" /\ todo = {}
  /\ End(IF Updates = {} THEN "hold" ELSE "published")
  /\ UNCHANGED <<hub, pushed, budgets>>

Report ==
  /\ pc = "readback" /\ todo = {}
  /\ End(IF Updates = {} THEN "unchanged" ELSE "published")
  /\ UNCHANGED <<hub, pushed, budgets>>

(***************************************************************************)
(* Everybody else: commits to a branch, and a version branch made by hand. *)
(***************************************************************************)
Edited(t, e) ==
  LET rest == {p \in DOMAIN t \ {e.path} : <<p, e.path>> \notin InTheWay}
  IN IF e.content = NoFile
     THEN [p \in DOMAIN t \ {e.path} |-> t[p]]
     ELSE [p \in rest \cup {e.path} |-> IF p = e.path THEN e.content ELSE t[p]]

OthersCommit(b, e) ==
  /\ hub[b] # Absent /\ edits < MaxEdits
  /\ Edited(Tip(hub[b]), e) # Tip(hub[b])
  /\ hub' = [hub EXCEPT ![b] = Commit(@, Edited(Tip(@), e), "other")]
  /\ edits' = edits + 1
  /\ UNCHANGED <<run, faults, switches>>

OthersBranch(b) ==
  /\ hub[b] = Absent /\ hub[Trunk] # Absent /\ edits < MaxEdits
  /\ hub' = [hub EXCEPT ![b] = hub[Trunk]]
  /\ edits' = edits + 1
  /\ UNCHANGED <<run, faults, switches>>

(***************************************************************************)
(* A source is asked for again and again: the same one freely.             *)
(***************************************************************************)
Step ==
  \/ ReadHeads \/ Fetch \/ Plan \/ Preflight \/ PushEnds \/ Report
  \/ \E b \in Branches : PushBranch(b) \/ Readback(b)

Others == \E b \in Branches : OthersBranch(b) \/ \E e \in Edits : OthersCommit(b, e)

Next ==
  \/ \E s \in Sources, plan \in BOOLEAN : Begin(s, plan)
  \/ Step
  \/ Crash
  \/ Others

Spec == Init /\ [][Next]_vars

\* A process that runs takes its next step, and somebody repeats the run
\* whenever there has been one: the condition under which runs "converge".
Fairness ==
  /\ WF_vars(Step)
  /\ \A s \in Sources : SF_vars(s = source /\ Begin(s, FALSE))

FairSpec == Spec /\ Fairness
=============================================================================
