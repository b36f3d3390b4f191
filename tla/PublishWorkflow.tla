-------------------------- MODULE PublishWorkflow ---------------------------
(***************************************************************************)
(* .github/workflows/hf-kernel-publish.yml with the commands it runs: how  *)
(* releases, dispatches and the weekly schedule become runs, what the jobs *)
(* of a run do, and what runs of two concurrency groups do to each other.  *)
(*                                                                         *)
(* A branch of the kernel repository serves the build of one GitHub commit *)
(* or something foreign.  How a publishing job moves a branch without      *)
(* losing what others commit is Publisher's subject; here it is a step for *)
(* each branch, between which the job may fail and others may commit.      *)
(* Pull requests only build, and reach nothing that is modelled.           *)
(***************************************************************************)
EXTENDS Integers, FiniteSets

CONSTANTS
  Commits,     \* of the GitHub repository
  Reviewed,    \* those on the default branch
  Content,     \* commit -> what content_key tells apart
  Branches,    \* of the kernel repository: main and v<major>
  Main,
  Absent, Foreign, None,
  Requests,    \* the releases and dispatches there may be
  MaxRequests, \* bound on them
  MaxEdits     \* bound on what others do to the kernel repository

\* Who asks for a run.  A dispatch without a ref is for the latest release.
Releases ==
  [kind : {"release"}, ref : Commits, prerelease : BOOLEAN, dry : {FALSE}, skipTwin : {FALSE}]
Dispatches ==
  [kind : {"dispatch"}, ref : Commits \cup {None}, prerelease : {FALSE},
   dry : BOOLEAN, skipTwin : BOOLEAN]
Schedule ==
  [kind |-> "schedule", ref |-> None, prerelease |-> FALSE, dry |-> FALSE, skipTwin |-> FALSE]

ASSUME WorkflowAssumption ==
  /\ Reviewed \subseteq Commits /\ DOMAIN Content = Commits
  /\ Main \in Branches
  /\ {Absent, Foreign, None} \cap Commits = {} /\ Absent # Foreign
  /\ Requests \subseteq Releases \cup Dispatches
  /\ MaxRequests \in Nat /\ MaxEdits \in Nat

\* Mutant: every kind of event has a group of its own.
GroupOfKind(event) == event.kind

\* The concurrency group of an event.
Group(event) == IF event.kind = "schedule" THEN "drift" ELSE "hub-write"
Groups == {Group(event) : event \in Requests \cup {Schedule}}

VARIABLES
  latest,     \* the latest release that is no prerelease, or None
  runs,       \* group -> the run in progress
  waiting,    \* group -> the event that waits for it to end, or None
  served,     \* branch -> commit, Foreign or Absent
  twin,       \* the commit whose card the model twin has, or None
  red,        \* the last scheduled run failed, which is how it raises the alarm
  requests, edits,
  met,        \* group -> branches that have served, since the run was planned,
              \* what it is about (history)
  alone       \* group -> nobody has changed them by hand since then (history)

hub == <<served, twin>>
counters == <<requests, edits>>
history == <<met, alone>>
vars == <<latest, runs, waiting, hub, red, counters, history>>

Idle == [job |-> "none"]
Run(event) == [job |-> "plan", event |-> event, mode |-> "?", source |-> None, todo |-> {}]
Running(g) == runs[g] # Idle

Init ==
  /\ latest = None
  /\ runs = [g \in Groups |-> Idle] /\ waiting = [g \in Groups |-> None]
  /\ served \in [Branches -> {Foreign, Absent}] /\ served[Main] = Foreign
  /\ twin = None /\ red = FALSE
  /\ requests = 0 /\ edits = 0
  /\ met = [g \in Groups |-> {}]
  /\ alone = [g \in Groups |-> TRUE]

(***************************************************************************)
(* Runs begin and end.  A group has one run in progress and one waiting:   *)
(* an event takes the place of the one that waits, whatever the two are.   *)
(***************************************************************************)
Trigger(event) ==
  LET g == Group(event)
  IN /\ IF Running(g)
          THEN waiting' = [waiting EXCEPT ![g] = event] /\ UNCHANGED runs
          ELSE runs' = [runs EXCEPT ![g] = Run(event)] /\ UNCHANGED waiting
     /\ UNCHANGED <<hub, red, edits, history>>

\* A release is published, or somebody dispatches the workflow.
Request(event) ==
  /\ requests < MaxRequests /\ requests' = requests + 1
  /\ latest' = IF event.kind = "release" /\ ~event.prerelease THEN event.ref ELSE latest
  /\ Trigger(event)

Week == Trigger(Schedule) /\ UNCHANGED <<latest, requests>>

\* The run is over and the one that waits begins.
End(g, ok) ==
  /\ runs' = [runs EXCEPT ![g] = IF waiting[g] = None THEN Idle ELSE Run(waiting[g])]
  /\ waiting' = [waiting EXCEPT ![g] = None]
  /\ red' = IF runs[g].event.kind = "schedule" THEN ~ok ELSE red
  /\ met' = [met EXCEPT ![g] = {}] /\ alone' = [alone EXCEPT ![g] = TRUE]

Continue(g, run) ==
  /\ runs' = [runs EXCEPT ![g] = run]
  /\ UNCHANGED <<waiting, red>>

\* What a run is about: its own source, or for the drift guard the content of
\* the release.
About(run, s) ==
  /\ run # Idle /\ run.source # None /\ s \in Reviewed
  /\ s = run.source \/ (run.mode = "drift" /\ Content[s] = Content[run.source])

MetNow(run) == {b \in Branches : About(run, served[b])}

\* What a branch serves changes.
Move(b, to) ==
  /\ served' = [served EXCEPT ![b] = to]
  /\ met' = [g \in Groups |-> IF About(runs[g], to) THEN met[g] \cup {b} ELSE met[g]]

\* The jobs after the plan are about what it has resolved.
Planned(g, run) ==
  /\ Continue(g, run)
  /\ met' = [met EXCEPT ![g] = MetNow(run)] /\ alone' = [alone EXCEPT ![g] = TRUE]

(***************************************************************************)
(* plan: resolve-source.                                                   *)
(***************************************************************************)
\* Mutant: before the first release and after it, the schedule does nothing.
ModeWithoutDrift(event) ==
  CASE event.kind = "release"  -> IF event.prerelease THEN "skip" ELSE "publish"
    [] event.kind = "dispatch" -> IF event.dry THEN "plan" ELSE "publish"
    [] event.kind = "schedule" -> "skip"

Mode(event) ==
  CASE event.kind = "release"  -> IF event.prerelease THEN "skip" ELSE "publish"
    [] event.kind = "dispatch" -> IF event.dry THEN "plan" ELSE "publish"
    [] event.kind = "schedule" -> IF latest = None THEN "skip" ELSE "drift"

Ref(event) == IF event.ref = None THEN latest ELSE event.ref

\* Mutant: any commit of the repository may be published.
Known(mode, ref) == ref # None

\* Only reviewed commits are published, even as a plan.
Resolves(mode, ref) == ref # None /\ (mode \in {"publish", "plan"} => ref \in Reviewed)

Plan(g) ==
  LET event == runs[g].event
      mode == Mode(event)
      ref == Ref(event)
      planned == [runs[g] EXCEPT !.mode = mode, !.source = ref]
  IN /\ runs[g].job = "plan"
     /\ \/ /\ mode = "skip"
           /\ End(g, TRUE)
        \/ /\ mode = "drift"
           /\ Planned(g, [planned EXCEPT !.job = "verify", !.todo = Branches])
        \/ /\ mode \in {"publish", "plan"} /\ Resolves(mode, ref)
           /\ Planned(g, [planned EXCEPT !.job = "build"])
     /\ UNCHANGED <<latest, hub, counters>>

(***************************************************************************)
(* build and publish.                                                      *)
(***************************************************************************)
Build(g) ==
  /\ runs[g].job = "build"
  /\ Continue(g, [runs[g] EXCEPT !.job = "publish", !.todo = Branches])
  /\ UNCHANGED <<latest, hub, counters, history>>

\* A branch is brought to the source.  In mode plan the push is a dry run.
Push(g, b) ==
  /\ runs[g].job = "publish" /\ runs[g].mode = "publish" /\ b \in runs[g].todo
  /\ Move(b, runs[g].source)
  /\ Continue(g, [runs[g] EXCEPT !.todo = @ \ {b}])
  /\ UNCHANGED <<latest, twin, counters, alone>>

\* The branches are read back, or the plan is reported.
Published(g) ==
  /\ runs[g].job = "publish"
  /\ \/ /\ runs[g].mode = "plan"
        /\ End(g, TRUE)
     \/ /\ runs[g].mode = "publish" /\ runs[g].todo = {}
        /\ \A b \in Branches : served[b] = runs[g].source
        /\ Continue(g, [runs[g] EXCEPT !.job = "verify", !.todo = Branches])
        /\ UNCHANGED history
  /\ UNCHANGED <<latest, hub, counters>>

(***************************************************************************)
(* verify, once for the version branch and then for main.                  *)
(***************************************************************************)
\* Mutant: the drift guard is not told of the release.
ServesItsBinding(run, b) ==
  /\ served[b] \in Reviewed
  /\ run.mode = "publish" => served[b] = run.source

\* The branch exists, its binding names a commit of the default branch, and it
\* has that commit's bytes; this is the commit that was published, or has the
\* content of the release.
VerifyPasses(run, b) ==
  /\ served[b] \in Reviewed
  /\ run.mode = "publish" => served[b] = run.source
  /\ run.mode = "drift" => Content[served[b]] = Content[run.source]

Verify(g, b) ==
  LET run == runs[g]
  IN /\ run.job = "verify" /\ b \in run.todo
     /\ b = Main => run.todo = {Main}
     /\ VerifyPasses(run, b)
     /\ \/ /\ run.todo # {b}
           /\ Continue(g, [run EXCEPT !.todo = @ \ {b}])
           /\ UNCHANGED history
        \/ /\ run.todo = {b} /\ run.mode = "publish" /\ ~run.event.skipTwin
           /\ Continue(g, [run EXCEPT !.job = "model-twin"])
           /\ UNCHANGED history
        \/ /\ run.todo = {b} /\ (run.mode = "drift" \/ run.event.skipTwin)
           /\ End(g, TRUE)
     /\ UNCHANGED <<latest, hub, counters>>

PointTwin(g) ==
  /\ runs[g].job = "model-twin"
  /\ twin' = runs[g].source
  /\ End(g, TRUE)
  /\ UNCHANGED <<latest, served, counters>>

\* A command exits with an error, a test fails, the runner is lost or a job
\* runs out of time: the jobs that need this one are skipped.
JobFails(g) ==
  /\ Running(g)
  /\ End(g, FALSE)
  /\ UNCHANGED <<latest, hub, counters>>

\* Others change a branch by hand, or make it: to something foreign, or back to
\* what it may have been.
OthersEdit(b, to) ==
  /\ edits < MaxEdits /\ edits' = edits + 1
  /\ Move(b, to)
  /\ alone' = [g \in Groups |-> FALSE]
  /\ UNCHANGED <<latest, runs, waiting, twin, red, requests>>

Step(g) ==
  \/ Plan(g) \/ Build(g) \/ Published(g) \/ PointTwin(g) \/ JobFails(g)
  \/ \E b \in Branches : Push(g, b) \/ Verify(g, b)

Next ==
  \/ Week
  \/ \E event \in Requests : Request(event)
  \/ \E g \in Groups : Step(g)
  \/ \E b \in Branches, to \in Commits \cup {Foreign} : OthersEdit(b, to)

Spec == Init /\ [][Next]_vars

\* The schedule comes every week, and a job ends, at least by its time limit.
FairSpec == Spec /\ WF_vars(Week) /\ WF_vars(Step(Group(Schedule)))

-----------------------------------------------------------------------------
RunRecords ==
  [job : {"plan", "build", "publish", "verify", "model-twin"},
   event : Requests \cup {Schedule}, mode : {"?", "plan", "publish", "drift"},
   source : Commits \cup {None}, todo : SUBSET Branches]

TypeOK ==
  /\ latest \in Commits \cup {None} /\ twin \in Commits \cup {None}
  /\ runs \in [Groups -> RunRecords \cup {Idle}]
  /\ waiting \in [Groups -> Requests \cup {Schedule, None}]
  /\ served \in [Branches -> Commits \cup {Foreign, Absent}]
  /\ red \in BOOLEAN
  /\ requests \in 0 .. MaxRequests /\ edits \in 0 .. MaxEdits
  /\ met \in [Groups -> SUBSET Branches]
  /\ alone \in [Groups -> BOOLEAN]

\* What somebody asked to have published: a release that is no prerelease, or a
\* dispatch that is no dry run, of a reviewed commit.
AskedFor(run) ==
  /\ ~run.event.dry /\ ~run.event.prerelease
  /\ run.event.kind \in {"release", "dispatch"}
  /\ run.event.ref \in {run.source, None}

\* "Only reviewed commits publish": from the event over the queue and the jobs
\* to the push, a branch is moved to no commit but a reviewed one that a release
\* or a real dispatch has asked for.
OnlyReviewedIsPublished ==
  [][ \A b \in Branches : served'[b] # served[b] /\ edits' = edits =>
        /\ served'[b] \in Reviewed
        /\ \E g \in Groups : Running(g) /\ AskedFor(runs[g]) /\ served'[b] = runs[g].source ]_vars

\* "Point the model twin at the verified kernel repo": the job comes after the
\* others of its run, and what it points at was served by every branch while the
\* run ran; it still is, if nobody changed the repository by hand: no other run
\* came in between.
TwinFollowsKernel ==
  [][ twin' # twin =>
        \E g \in Groups :
          /\ runs[g].job = "model-twin" /\ twin' = runs[g].source
          /\ met[g] = Branches
          /\ alone[g] => \A b \in Branches : served[b] = twin' ]_vars

\* A drift guard that passes is right: every branch has served, at a moment since
\* it looked for the latest release, a reviewed commit with that one's content,
\* although the runs that publish do not wait for it.
DriftGuardIsSound ==
  [][ \A g \in Groups :
        runs[g] # Idle /\ runs[g].job = "verify" /\ runs[g].mode = "drift"
          /\ runs'[g].job # "verify" /\ ~red' => met[g] = Branches ]_vars

InSync ==
  latest # None =>
    \A b \in Branches : served[b] \in Reviewed /\ Content[served[b]] = Content[latest]

\* A publication can be lost: the queue drops a waiting release, a job fails,
\* a dispatch brings back an older commit, others commit.  It is not lost
\* silently: time and again the kernel repository has the content of the latest
\* release, or the last scheduled run is red.
LostReleasesAreNoticed == []<>(InSync \/ red)
=============================================================================
