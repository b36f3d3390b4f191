------------------------ MODULE PublishWorkflowProofs ------------------------
(***************************************************************************)
(* What the publish workflow guarantees for any commits, branches and      *)
(* requests.  A run carries with it what its jobs have established: who    *)
(* asked for it, which branches have met what it is about, and, since the  *)
(* runs that publish share a group, that no other run moves a branch while *)
(* it verifies.                                                            *)
(***************************************************************************)
EXTENDS PublishWorkflow, TLAPS

Events == Requests \cup {Schedule}

\* What a run is, by its job, its mode and the event that asked for it.
WellPlanned(g, run) ==
  /\ Group(run.event) = g
  /\ run.job = "plan" => run.mode = "?"
  /\ run.job \in {"build", "publish"} => run.mode \in {"publish", "plan"}
  /\ run.job = "verify" => run.mode \in {"publish", "drift"}
  /\ run.job = "model-twin" => run.mode = "publish"
  /\ run.mode = "drift" => run.event.kind = "schedule" /\ run.source # None
  /\ run.mode = "publish" => AskedFor(run) /\ run.source \in Reviewed

\* The branches a run has seen to have met what it is about are in m.
HasMet(run, m, s) ==
  /\ \A b \in Branches : About(run, s[b]) => b \in m
  /\ run.job = "verify" => Branches \ run.todo \subseteq m
  /\ run.job = "model-twin" => m = Branches

\* Between its publication and its end a run that is left alone is served.
IsServed(run, undisturbed, s) ==
  run.job \in {"verify", "model-twin"} /\ undisturbed /\ run.mode = "publish" =>
    \A b \in Branches : s[b] = run.source

RunInv(g, run, m, undisturbed, s) ==
  /\ run # Idle => WellPlanned(g, run)
  /\ HasMet(run, m, s)
  /\ IsServed(run, undisturbed, s)

WaitsInGroup == \A g \in Groups : waiting[g] # None => Group(waiting[g]) = g

WorkflowInv ==
  /\ TypeOK
  /\ WaitsInGroup
  /\ \A g \in Groups : RunInv(g, runs[g], met[g], alone[g], served)

-----------------------------------------------------------------------------
(* Events and runs.                                                        *)

LEMMA EventFacts ==
  ASSUME NEW event \in Events
  PROVE  /\ event.kind \in {"release", "dispatch", "schedule"}
         /\ event.ref \in Commits \cup {None}
         /\ Group(event) \in Groups
<1>1. event = Schedule \/ event \in Releases \/ event \in Dispatches
  BY WorkflowAssumption DEF Events
<1>2. event.kind \in {"release", "dispatch", "schedule"} /\ event.ref \in Commits \cup {None}
  <2>1. CASE event = Schedule
    <3>1. event.kind = "schedule" /\ event.ref = None
      BY <2>1 DEF Schedule
    <3>. QED BY <3>1
  <2>2. CASE event \in Releases
    BY <2>2 DEF Releases
  <2>3. CASE event \in Dispatches
    BY <2>3 DEF Dispatches
  <2>. QED BY <1>1, <2>1, <2>2, <2>3
<1>3. Group(event) \in Groups
  BY DEF Groups, Events
<1>. QED BY <1>2, <1>3

\* Only a release that is no prerelease and a dispatch that is no dry run
\* publish.
LEMMA PublishIsAsked ==
  ASSUME NEW event \in Events, Mode(event) = "publish"
  PROVE  event.kind \in {"release", "dispatch"} /\ ~event.dry /\ ~event.prerelease
<1>1. event = Schedule \/ event \in Releases \/ event \in Dispatches
  BY WorkflowAssumption DEF Events
<1>2. CASE event = Schedule
  <2>1. event.kind = "schedule"
    BY <1>2 DEF Schedule
  <2>2. Mode(event) \in {"skip", "drift"}
    BY <2>1 DEF Mode
  <2>. QED BY <2>2
<1>3. CASE event \in Releases
  <2>1. event.kind = "release" /\ event.dry = FALSE
    BY <1>3 DEF Releases
  <2>2. Mode(event) = IF event.prerelease THEN "skip" ELSE "publish"
    BY <2>1 DEF Mode
  <2>. QED BY <2>1, <2>2
<1>4. CASE event \in Dispatches
  <2>1. event.kind = "dispatch" /\ event.prerelease = FALSE
    BY <1>4 DEF Dispatches
  <2>2. Mode(event) = IF event.dry THEN "plan" ELSE "publish"
    BY <2>1 DEF Mode
  <2>. QED BY <2>1, <2>2
<1>. QED BY <1>1, <1>2, <1>3, <1>4

\* Only the schedule guards against drift, and only once there is a release.
LEMMA DriftIsScheduled ==
  ASSUME NEW event \in Events, Mode(event) = "drift"
  PROVE  event.kind = "schedule" /\ Ref(event) = latest /\ latest # None
<1>1. event.kind \in {"release", "dispatch", "schedule"}
  BY EventFacts
<1>2. event.kind # "release" /\ event.kind # "dispatch"
  <2>1. CASE event.kind = "release"
    <3>1. Mode(event) = IF event.prerelease THEN "skip" ELSE "publish"
      BY <2>1 DEF Mode
    <3>. QED BY <3>1
  <2>2. CASE event.kind = "dispatch"
    <3>1. Mode(event) = IF event.dry THEN "plan" ELSE "publish"
      BY <2>2 DEF Mode
    <3>. QED BY <3>1
  <2>. QED BY <2>1, <2>2
<1>3. event.kind = "schedule"
  BY <1>1, <1>2
<1>4. latest # None
  <2>1. Mode(event) = IF latest = None THEN "skip" ELSE "drift"
    BY <1>3 DEF Mode
  <2>. QED BY <2>1
<1>5. event = Schedule
  BY <1>3, WorkflowAssumption DEF Events, Releases, Dispatches
<1>6. event.ref = None
  BY <1>5 DEF Schedule
<1>. QED BY <1>3, <1>4, <1>6 DEF Ref

\* A run that begins has met nothing and established nothing.
LEMMA FreshRun ==
  ASSUME NEW g \in Groups, NEW event \in Events, Group(event) = g, NEW m, NEW u, NEW s
  PROVE  Run(event) \in RunRecords /\ Run(event) # Idle /\ RunInv(g, Run(event), m, u, s)
<1>1. /\ Run(event).job = "plan" /\ Run(event).event = event /\ Run(event).mode = "?"
      /\ Run(event).source = None
  BY DEF Run
<1>2. Run(event) \in RunRecords
  BY DEF Run, RunRecords, Events
<1>3. Run(event) # Idle
  BY <1>1 DEF Idle
<1>4. WellPlanned(g, Run(event))
  BY <1>1 DEF WellPlanned
<1>5. HasMet(Run(event), m, s) /\ IsServed(Run(event), u, s)
  BY <1>1 DEF HasMet, IsServed, About
<1>. QED BY <1>2, <1>3, <1>4, <1>5 DEF RunInv

LEMMA NoRun ==
  ASSUME NEW g, NEW m, NEW u, NEW s
  PROVE  RunInv(g, Idle, m, u, s)
<1>1. Idle.job = "none"
  BY DEF Idle
<1>2. HasMet(Idle, m, s) /\ IsServed(Idle, u, s)
  BY <1>1 DEF HasMet, IsServed, About
<1>. QED BY <1>2 DEF RunInv

\* A run of a group is a record of one of its events.
LEMMA RunFacts ==
  ASSUME WorkflowInv, NEW g \in Groups, runs[g].job # "none"
  PROVE  /\ runs[g] \in RunRecords /\ runs[g] # Idle /\ runs[g].event \in Events
         /\ WellPlanned(g, runs[g])
         /\ HasMet(runs[g], met[g], served)
         /\ IsServed(runs[g], alone[g], served)
         /\ met[g] \subseteq Branches /\ alone[g] \in BOOLEAN
<1>1. runs[g] \in RunRecords \cup {Idle}
  BY DEF WorkflowInv, TypeOK
<1>2. runs[g] # Idle
  BY DEF Idle
<1>3. runs[g] \in RunRecords
  BY <1>1, <1>2
<1>4. runs[g].event \in Events
  BY <1>3 DEF RunRecords, Events
<1>5. RunInv(g, runs[g], met[g], alone[g], served)
  BY DEF WorkflowInv
<1>6. met[g] \subseteq Branches /\ alone[g] \in BOOLEAN
  BY DEF WorkflowInv, TypeOK
<1>. QED BY <1>2, <1>3, <1>4, <1>5, <1>6 DEF RunInv

-----------------------------------------------------------------------------
(* Steps of one run.                                                       *)

\* What is left of the type invariant when runs and branches are set aside.
RestTyped ==
  /\ latest \in Commits \cup {None} /\ twin \in Commits \cup {None}
  /\ red \in BOOLEAN
  /\ requests \in 0 .. MaxRequests /\ edits \in 0 .. MaxEdits

\* A step of one run that moves no branch.
LEMMA OneRun ==
  ASSUME WorkflowInv, RestTyped', served' = served,
         NEW g \in Groups, NEW run \in RunRecords \cup {Idle},
         runs' = [runs EXCEPT ![g] = run],
         met' \in [Groups -> SUBSET Branches], alone' \in [Groups -> BOOLEAN],
         \A h \in Groups \ {g} : met'[h] = met[h] /\ alone'[h] = alone[h],
         RunInv(g, run, met'[g], alone'[g], served),
         waiting' \in [Groups -> Requests \cup {Schedule, None}], WaitsInGroup'
  PROVE  WorkflowInv'
<1>1. TypeOK
  BY DEF WorkflowInv
<1>2. TypeOK'
  BY <1>1 DEF TypeOK, RestTyped
<1>3. ASSUME NEW h \in Groups
      PROVE  RunInv(h, runs'[h], met'[h], alone'[h], served)
  <2>1. CASE h = g
    BY <2>1, <1>1 DEF TypeOK
  <2>2. CASE h # g
    <3>1. runs'[h] = runs[h] /\ met'[h] = met[h] /\ alone'[h] = alone[h]
      BY <2>2, <1>1 DEF TypeOK
    <3>2. RunInv(h, runs[h], met[h], alone[h], served)
      BY DEF WorkflowInv
    <3>. QED BY <3>1, <3>2
  <2>. QED BY <2>1, <2>2
<1>. QED BY <1>2, <1>3 DEF WorkflowInv

LEMMA EndStep ==
  ASSUME WorkflowInv, NEW g \in Groups, NEW ok \in BOOLEAN, End(g, ok),
         UNCHANGED <<latest, requests, edits, served>>, twin' \in Commits \cup {None}
  PROVE  WorkflowInv'
<1>1. TypeOK /\ WaitsInGroup
  BY DEF WorkflowInv
<1>2. waiting' \in [Groups -> Requests \cup {Schedule, None}] /\ WaitsInGroup'
  <2>1. waiting' = [waiting EXCEPT ![g] = None]
    BY DEF End
  <2>. QED BY <2>1, <1>1 DEF WaitsInGroup, TypeOK
<1>3. RestTyped'
  <2>1. red' \in BOOLEAN
    <3>1. CASE runs[g].event.kind = "schedule"
      BY <3>1 DEF End
    <3>2. CASE runs[g].event.kind # "schedule"
      BY <3>2, <1>1 DEF End, TypeOK
    <3>. QED BY <3>1, <3>2
  <2>. QED BY <2>1, <1>1 DEF RestTyped, TypeOK
<1>4. /\ met' \in [Groups -> SUBSET Branches] /\ alone' \in [Groups -> BOOLEAN]
      /\ \A h \in Groups \ {g} : met'[h] = met[h] /\ alone'[h] = alone[h]
  <2>1. met' = [met EXCEPT ![g] = {}] /\ alone' = [alone EXCEPT ![g] = TRUE]
    BY DEF End
  <2>. QED BY <2>1, <1>1 DEF TypeOK
<1>5. CASE waiting[g] = None
  <2>1. runs' = [runs EXCEPT ![g] = Idle]
    BY <1>5 DEF End
  <2>. QED BY <2>1, <1>2, <1>3, <1>4, NoRun, OneRun
<1>6. CASE waiting[g] # None
  <2>1. runs' = [runs EXCEPT ![g] = Run(waiting[g])]
    BY <1>6 DEF End
  <2>2. waiting[g] \in Events /\ Group(waiting[g]) = g
    BY <1>1, <1>6 DEF TypeOK, WaitsInGroup, Events
  <2>3. Run(waiting[g]) \in RunRecords /\ RunInv(g, Run(waiting[g]), met'[g], alone'[g], served)
    BY <2>2, FreshRun
  <2>. QED BY <2>1, <2>3, <1>2, <1>3, <1>4, OneRun
<1>. QED BY <1>5, <1>6

\* The next job of a run, when the history of what it has met is kept.
LEMMA ContinueStep ==
  ASSUME WorkflowInv, NEW g \in Groups, NEW run \in RunRecords, Continue(g, run),
         RunInv(g, run, met[g], alone[g], served),
         UNCHANGED <<latest, twin, requests, edits, served, met, alone>>
  PROVE  WorkflowInv'
<1>1. TypeOK /\ WaitsInGroup
  BY DEF WorkflowInv
<1>2. RestTyped'
  BY <1>1 DEF RestTyped, TypeOK, Continue
<1>3. met' = met /\ alone' = alone
  OBVIOUS
<1>4. /\ met' \in [Groups -> SUBSET Branches] /\ alone' \in [Groups -> BOOLEAN]
      /\ \A h \in Groups \ {g} : met'[h] = met[h] /\ alone'[h] = alone[h]
      /\ RunInv(g, run, met'[g], alone'[g], served)
  BY <1>1, <1>3 DEF TypeOK
<1>5. waiting' \in [Groups -> Requests \cup {Schedule, None}] /\ WaitsInGroup'
  BY <1>1 DEF TypeOK, WaitsInGroup, Continue
<1>6. runs' = [runs EXCEPT ![g] = run]
  BY DEF Continue
<1>. QED BY <1>2, <1>4, <1>5, <1>6, OneRun

\* Planning: the run is about its source from now on.
LEMMA PlannedStep ==
  ASSUME WorkflowInv, NEW g \in Groups, NEW run \in RunRecords, Planned(g, run),
         WellPlanned(g, run), run.job = "build" \/ (run.job = "verify" /\ run.todo = Branches),
         run.mode = "publish" => run.job = "build",
         UNCHANGED <<latest, twin, requests, edits, served>>
  PROVE  WorkflowInv'
<1>1. TypeOK /\ WaitsInGroup
  BY DEF WorkflowInv
<1>2. RestTyped'
  BY <1>1 DEF RestTyped, TypeOK, Planned, Continue
<1>3. /\ met' = [met EXCEPT ![g] = MetNow(run)] /\ alone' = [alone EXCEPT ![g] = TRUE]
      /\ runs' = [runs EXCEPT ![g] = run] /\ waiting' = waiting
  BY DEF Planned, Continue
<1>4. waiting' \in [Groups -> Requests \cup {Schedule, None}] /\ WaitsInGroup'
  BY <1>1, <1>3 DEF TypeOK, WaitsInGroup
<1>5. MetNow(run) \in SUBSET Branches
  BY DEF MetNow
<1>6. HasMet(run, MetNow(run), served)
  BY DEF HasMet, MetNow
<1>7. IsServed(run, TRUE, served)
  BY DEF IsServed
<1>8. RunInv(g, run, MetNow(run), TRUE, served)
  BY <1>6, <1>7 DEF RunInv
<1>9. /\ met' \in [Groups -> SUBSET Branches] /\ alone' \in [Groups -> BOOLEAN]
      /\ \A h \in Groups \ {g} : met'[h] = met[h] /\ alone'[h] = alone[h]
      /\ met'[g] = MetNow(run) /\ alone'[g] = TRUE
  BY <1>1, <1>3, <1>5 DEF TypeOK
<1>. QED BY <1>2, <1>3, <1>4, <1>8, <1>9, OneRun

\* Branches that move are met by the runs that are about what they move to.
LEMMA MoveMeets ==
  ASSUME WorkflowInv, NEW b \in Branches, NEW to \in Commits \cup {Foreign}, Move(b, to)
  PROVE  /\ served' \in [Branches -> Commits \cup {Foreign, Absent}]
         /\ met' \in [Groups -> SUBSET Branches]
         /\ \A h \in Groups : met[h] \subseteq met'[h] /\ HasMet(runs[h], met'[h], served')
<1>1. TypeOK
  BY DEF WorkflowInv
<1>2. /\ served' = [served EXCEPT ![b] = to]
      /\ met' = [h \in Groups |-> IF About(runs[h], to) THEN met[h] \cup {b} ELSE met[h]]
  BY DEF Move
<1>3. served' \in [Branches -> Commits \cup {Foreign, Absent}] /\ met' \in [Groups -> SUBSET Branches]
  BY <1>1, <1>2 DEF TypeOK
<1>4. ASSUME NEW h \in Groups
      PROVE  met[h] \subseteq met'[h] /\ HasMet(runs[h], met'[h], served')
  <2>1. HasMet(runs[h], met[h], served)
    BY DEF WorkflowInv, RunInv
  <2>2. met[h] \subseteq met'[h] /\ met'[h] \subseteq Branches
    BY <1>2, <1>3
  <2>3. ASSUME NEW c \in Branches, About(runs[h], served'[c]) PROVE c \in met'[h]
    <3>1. CASE c = b
      <4>1. served'[c] = to
        BY <3>1, <1>1, <1>2 DEF TypeOK
      <4>. QED BY <3>1, <4>1, <2>3, <1>2
    <3>2. CASE c # b
      <4>1. served'[c] = served[c]
        BY <3>2, <1>1, <1>2 DEF TypeOK
      <4>. QED BY <4>1, <2>1, <2>2, <2>3 DEF HasMet
    <3>. QED BY <3>1, <3>2
  <2>4. runs[h].job = "verify" => Branches \ runs[h].todo \subseteq met'[h]
    BY <2>1, <2>2 DEF HasMet
  <2>5. runs[h].job = "model-twin" => met'[h] = Branches
    BY <2>1, <2>2 DEF HasMet
  <2>. QED BY <2>2, <2>3, <2>4, <2>5 DEF HasMet
<1>. QED BY <1>3, <1>4

\* Runs that publish share a group.
LEMMA PublishersShareGroup ==
  ASSUME WorkflowInv, NEW g \in Groups, NEW h \in Groups,
         runs[g].job # "none", runs[h].job # "none",
         runs[g].mode = "publish", runs[h].mode = "publish"
  PROVE  g = h
<1>1. WellPlanned(g, runs[g]) /\ WellPlanned(h, runs[h])
  BY RunFacts
<1>2. runs[g].event.kind # "schedule" /\ runs[h].event.kind # "schedule"
  BY <1>1 DEF WellPlanned, AskedFor
<1>. QED BY <1>1, <1>2 DEF WellPlanned, Group

LEMMA PushStep ==
  ASSUME WorkflowInv, NEW g \in Groups, NEW b \in Branches, Push(g, b)
  PROVE  WorkflowInv'
<1>0. TypeOK /\ WaitsInGroup
  BY DEF WorkflowInv
<1>. DEFINE run == [runs[g] EXCEPT !.todo = @ \ {b}]
<1>1. /\ runs[g].job = "publish" /\ runs[g].mode = "publish"
      /\ Move(b, runs[g].source) /\ runs' = [runs EXCEPT ![g] = run]
      /\ UNCHANGED <<latest, twin, requests, edits, waiting, red, alone>>
  BY DEF Push, Continue, counters
<1>2. /\ runs[g] \in RunRecords /\ WellPlanned(g, runs[g])
      /\ runs[g].source \in Commits /\ runs[g].job # "none"
  <2>1. runs[g] \in RunRecords /\ WellPlanned(g, runs[g])
    BY <1>1, RunFacts
  <2>2. runs[g].source \in Reviewed
    BY <1>1, <2>1 DEF WellPlanned
  <2>. QED BY <1>1, <2>1, <2>2, WorkflowAssumption
<1>3. /\ served' \in [Branches -> Commits \cup {Foreign, Absent}]
      /\ met' \in [Groups -> SUBSET Branches]
      /\ \A h \in Groups : HasMet(runs[h], met'[h], served')
  BY <1>1, <1>2, MoveMeets
<1>4. /\ run \in RunRecords /\ run.job = "publish" /\ run.event = runs[g].event
      /\ run.mode = runs[g].mode /\ run.source = runs[g].source
  BY <1>1, <1>2 DEF RunRecords
<1>. HIDE DEF run
<1>5. TypeOK'
  BY <1>0, <1>1, <1>3, <1>4 DEF TypeOK
<1>6. WaitsInGroup'
  BY <1>0, <1>1 DEF WaitsInGroup
<1>7. RunInv(g, run, met'[g], alone[g], served')
  <2>1. WellPlanned(g, run)
    BY <1>1, <1>2, <1>4 DEF WellPlanned, AskedFor
  <2>2. runs[g] # Idle /\ run # Idle
    BY <1>1, <1>4 DEF Idle
  <2>3. \A s : About(run, s) <=> About(runs[g], s)
    BY <1>4, <2>2 DEF About
  <2>4. HasMet(run, met'[g], served')
    BY <1>3, <1>4, <2>3 DEF HasMet
  <2>5. IsServed(run, alone[g], served')
    BY <1>4 DEF IsServed
  <2>. QED BY <2>1, <2>4, <2>5 DEF RunInv
<1>8. ASSUME NEW h \in Groups
      PROVE  RunInv(h, runs'[h], met'[h], alone'[h], served')
  <2>1. CASE h = g
    BY <2>1, <1>0, <1>1, <1>7 DEF TypeOK
  <2>2. CASE h # g
    <3>1. runs'[h] = runs[h] /\ alone'[h] = alone[h]
      BY <2>2, <1>0, <1>1 DEF TypeOK
    <3>2. IsServed(runs[h], alone[h], served')
      BY <2>2, <1>1, <1>2, PublishersShareGroup DEF IsServed
    <3>3. runs[h] # Idle => WellPlanned(h, runs[h])
      BY DEF WorkflowInv, RunInv
    <3>. QED BY <3>1, <3>2, <3>3, <1>3 DEF RunInv
  <2>. QED BY <2>1, <2>2
<1>. QED BY <1>5, <1>6, <1>8 DEF WorkflowInv

LEMMA OthersEditStep ==
  ASSUME WorkflowInv, NEW b \in Branches, NEW to \in Commits \cup {Foreign}, OthersEdit(b, to)
  PROVE  WorkflowInv'
<1>0. TypeOK /\ WaitsInGroup
  BY DEF WorkflowInv
<1>1. /\ edits < MaxEdits /\ edits' = edits + 1 /\ Move(b, to)
      /\ alone' = [g \in Groups |-> FALSE]
      /\ UNCHANGED <<latest, runs, waiting, twin, red, requests>>
  BY DEF OthersEdit
<1>2. /\ served' \in [Branches -> Commits \cup {Foreign, Absent}]
      /\ met' \in [Groups -> SUBSET Branches]
      /\ \A h \in Groups : HasMet(runs[h], met'[h], served')
  BY <1>1, MoveMeets
<1>3. edits' \in 0 .. MaxEdits
  BY <1>0, <1>1, WorkflowAssumption DEF TypeOK
<1>4. TypeOK'
  BY <1>0, <1>1, <1>2, <1>3 DEF TypeOK
<1>5. WaitsInGroup'
  BY <1>0, <1>1 DEF WaitsInGroup
<1>6. ASSUME NEW h \in Groups
      PROVE  RunInv(h, runs'[h], met'[h], alone'[h], served')
  <2>1. runs[h] # Idle => WellPlanned(h, runs[h])
    BY DEF WorkflowInv, RunInv
  <2>2. ~alone'[h]
    BY <1>1
  <2>3. IsServed(runs[h], alone'[h], served')
    BY <2>2 DEF IsServed
  <2>. QED BY <1>1, <1>2, <2>1, <2>3 DEF RunInv
<1>. QED BY <1>4, <1>5, <1>6 DEF WorkflowInv

-----------------------------------------------------------------------------
(* The jobs.                                                               *)

LEMMA TriggerStep ==
  ASSUME WorkflowInv, NEW event \in Events, Trigger(event),
         latest' \in Commits \cup {None}, requests' \in 0 .. MaxRequests
  PROVE  WorkflowInv'
<1>0. TypeOK /\ WaitsInGroup
  BY DEF WorkflowInv
<1>. DEFINE g == Group(event)
<1>1. /\ IF Running(g)
           THEN waiting' = [waiting EXCEPT ![g] = event] /\ runs' = runs
           ELSE runs' = [runs EXCEPT ![g] = Run(event)] /\ waiting' = waiting
      /\ UNCHANGED <<served, twin, red, edits, met, alone>>
  BY DEF Trigger, hub, history
<1>2. g \in Groups
  BY EventFacts
<1>3. RestTyped'
  BY <1>0, <1>1 DEF TypeOK, RestTyped
<1>4. met' = met /\ alone' = alone
  BY <1>1
<1>5. /\ met' \in [Groups -> SUBSET Branches] /\ alone' \in [Groups -> BOOLEAN]
      /\ \A h \in Groups \ {g} : met'[h] = met[h] /\ alone'[h] = alone[h]
  BY <1>0, <1>4 DEF TypeOK
<1>6. CASE Running(g)
  <2>1. runs' = [runs EXCEPT ![g] = runs[g]] /\ runs[g] \in RunRecords \cup {Idle}
    BY <1>0, <1>1, <1>2, <1>6 DEF TypeOK
  <2>2. waiting' \in [Groups -> Requests \cup {Schedule, None}]
    BY <1>0, <1>1, <1>2, <1>6 DEF TypeOK, Events
  <2>3. WaitsInGroup'
    BY <1>0, <1>1, <1>2, <1>6 DEF TypeOK, WaitsInGroup
  <2>4. RunInv(g, runs[g], met'[g], alone'[g], served)
    BY <1>2, <1>4 DEF WorkflowInv
  <2>. HIDE DEF g
  <2>. QED BY <2>1, <2>2, <2>3, <2>4, <1>1, <1>2, <1>3, <1>5, OneRun
<1>7. CASE ~Running(g)
  <2>1. runs' = [runs EXCEPT ![g] = Run(event)] /\ waiting' = waiting
    BY <1>1, <1>7
  <2>2. Run(event) \in RunRecords /\ RunInv(g, Run(event), met'[g], alone'[g], served)
    BY <1>2, FreshRun
  <2>3. waiting' \in [Groups -> Requests \cup {Schedule, None}] /\ WaitsInGroup'
    BY <1>0, <2>1 DEF TypeOK, WaitsInGroup
  <2>. HIDE DEF g
  <2>. QED BY <2>1, <2>2, <2>3, <1>1, <1>2, <1>3, <1>5, OneRun
<1>. QED BY <1>6, <1>7

\* What is resolved is asked for, reviewed when it may be published, and the
\* latest release when it guards against drift.
LEMMA PlanStep ==
  ASSUME WorkflowInv, NEW g \in Groups, Plan(g)
  PROVE  WorkflowInv'
<1>0. TypeOK /\ WaitsInGroup
  BY DEF WorkflowInv
<1>. DEFINE event == runs[g].event
            mode == Mode(event)
            ref == Ref(event)
            planned == [runs[g] EXCEPT !.mode = mode, !.source = ref]
            guard == [planned EXCEPT !.job = "verify", !.todo = Branches]
            build == [planned EXCEPT !.job = "build"]
<1>1. /\ runs[g].job = "plan"
      /\ UNCHANGED <<latest, served, twin, requests, edits>>
      /\ \/ mode = "skip" /\ End(g, TRUE)
         \/ mode = "drift" /\ Planned(g, guard)
         \/ mode \in {"publish", "plan"} /\ Resolves(mode, ref) /\ Planned(g, build)
  BY DEF Plan, hub, counters
<1>2. runs[g] \in RunRecords /\ event \in Events /\ Group(event) = g
  BY <1>1, RunFacts DEF WellPlanned
<1>3. ref \in Commits \cup {None}
  BY <1>0, <1>2, EventFacts DEF Ref, TypeOK
<1>4. CASE mode = "skip" /\ End(g, TRUE)
  BY <1>0, <1>1, <1>4, EndStep DEF TypeOK
<1>5. CASE mode = "drift" /\ Planned(g, guard)
  <2>1. event.kind = "schedule" /\ ref # None
    BY <1>2, <1>5, DriftIsScheduled
  <2>2. /\ guard \in RunRecords /\ guard.job = "verify" /\ guard.todo = Branches
        /\ guard.mode = "drift" /\ guard.event = event /\ guard.source = ref
    BY <1>2, <1>3, <1>5 DEF RunRecords
  <2>. HIDE DEF guard, event, ref
  <2>3. WellPlanned(g, guard)
    BY <1>2, <2>1, <2>2 DEF WellPlanned
  <2>. QED BY <1>1, <1>5, <2>2, <2>3, PlannedStep
<1>6. CASE mode \in {"publish", "plan"} /\ Resolves(mode, ref) /\ Planned(g, build)
  <2>1. ref \in Reviewed
    BY <1>6 DEF Resolves
  <2>2. /\ build \in RunRecords /\ build.job = "build"
        /\ build.mode = mode /\ build.event = event /\ build.source = ref
    BY <1>2, <1>3, <1>6 DEF RunRecords
  <2>3. ASSUME mode = "publish" PROVE AskedFor(build)
    <3>1. event.kind \in {"release", "dispatch"} /\ ~event.dry /\ ~event.prerelease
      BY <1>2, <2>3, PublishIsAsked
    <3>2. event.ref = ref \/ event.ref = None
      BY DEF Ref
    <3>. HIDE DEF build, event, ref
    <3>. QED BY <3>1, <3>2, <2>2 DEF AskedFor
  <2>4. Planned(g, build) /\ UNCHANGED <<latest, twin, requests, edits, served>>
    BY <1>1, <1>6
  <2>. HIDE DEF build, event, ref, mode
  <2>5. WellPlanned(g, build)
    BY <1>2, <1>6, <2>1, <2>2, <2>3 DEF WellPlanned
  <2>. QED BY <2>2, <2>4, <2>5, PlannedStep
<1>. QED BY <1>1, <1>4, <1>5, <1>6

LEMMA BuildStep ==
  ASSUME WorkflowInv, NEW g \in Groups, Build(g)
  PROVE  WorkflowInv'
<1>. DEFINE run == [runs[g] EXCEPT !.job = "publish", !.todo = Branches]
<1>1. /\ runs[g].job = "build" /\ Continue(g, run)
      /\ UNCHANGED <<latest, twin, requests, edits, served, met, alone>>
  BY DEF Build, hub, counters, history
<1>2. /\ runs[g] \in RunRecords /\ runs[g] # Idle
      /\ WellPlanned(g, runs[g]) /\ HasMet(runs[g], met[g], served)
  BY <1>1, RunFacts
<1>3. /\ run \in RunRecords /\ run.job = "publish" /\ run.event = runs[g].event
      /\ run.mode = runs[g].mode /\ run.source = runs[g].source
  BY <1>2 DEF RunRecords
<1>. HIDE DEF run
<1>4. WellPlanned(g, run)
  BY <1>1, <1>2, <1>3 DEF WellPlanned, AskedFor
<1>5. HasMet(run, met[g], served)
  BY <1>2, <1>3 DEF HasMet, About
<1>6. IsServed(run, alone[g], served)
  BY <1>3 DEF IsServed
<1>. QED BY <1>1, <1>3, <1>4, <1>5, <1>6, ContinueStep DEF RunInv

\* Reading the branches back establishes that they serve the source.
LEMMA PublishedStep ==
  ASSUME WorkflowInv, NEW g \in Groups, Published(g)
  PROVE  WorkflowInv'
<1>0. TypeOK
  BY DEF WorkflowInv
<1>. DEFINE run == [runs[g] EXCEPT !.job = "verify", !.todo = Branches]
<1>1. /\ runs[g].job = "publish"
      /\ UNCHANGED <<latest, served, twin, requests, edits>>
      /\ \/ End(g, TRUE)
         \/ /\ runs[g].mode = "publish" /\ \A b \in Branches : served[b] = runs[g].source
            /\ Continue(g, run) /\ UNCHANGED <<met, alone>>
  BY DEF Published, hub, counters, history
<1>2. CASE End(g, TRUE)
  BY <1>0, <1>1, <1>2, EndStep DEF TypeOK
<1>3. CASE /\ runs[g].mode = "publish" /\ \A b \in Branches : served[b] = runs[g].source
           /\ Continue(g, run) /\ UNCHANGED <<met, alone>>
  <2>1. /\ runs[g] \in RunRecords /\ runs[g] # Idle
        /\ WellPlanned(g, runs[g]) /\ HasMet(runs[g], met[g], served)
    BY <1>1, RunFacts
  <2>2. /\ run \in RunRecords /\ run.job = "verify" /\ run.todo = Branches
        /\ run.event = runs[g].event
        /\ run.mode = "publish" /\ run.source = runs[g].source
    BY <1>3, <2>1 DEF RunRecords
  <2>. HIDE DEF run
  <2>3. WellPlanned(g, run)
    BY <1>3, <2>1, <2>2 DEF WellPlanned, AskedFor
  <2>4. HasMet(run, met[g], served)
    BY <1>3, <2>1, <2>2 DEF HasMet, About
  <2>5. IsServed(run, alone[g], served)
    BY <1>3, <2>2 DEF IsServed
  <2>. QED BY <1>1, <1>3, <2>2, <2>3, <2>4, <2>5, ContinueStep DEF RunInv
<1>. QED BY <1>1, <1>2, <1>3

\* A branch that is verified is one that the run has met.
LEMMA VerifiedIsMet ==
  ASSUME WorkflowInv, NEW g \in Groups, NEW b \in Branches,
         runs[g].job = "verify", VerifyPasses(runs[g], b)
  PROVE  b \in met[g] /\ Branches \ runs[g].todo \subseteq met[g]
<1>1. /\ runs[g] # Idle /\ WellPlanned(g, runs[g]) /\ HasMet(runs[g], met[g], served)
  BY RunFacts
<1>2. runs[g].mode \in {"publish", "drift"} /\ runs[g].source # None
  <2>1. runs[g].mode \in {"publish", "drift"}
    BY <1>1 DEF WellPlanned
  <2>2. None \notin Reviewed
    BY WorkflowAssumption
  <2>. QED BY <1>1, <2>1, <2>2 DEF WellPlanned
<1>3. About(runs[g], served[b])
  BY <1>1, <1>2 DEF About, VerifyPasses
<1>. QED BY <1>1, <1>3 DEF HasMet

LEMMA VerifyStep ==
  ASSUME WorkflowInv, NEW g \in Groups, NEW b \in Branches, Verify(g, b)
  PROVE  WorkflowInv'
<1>0. TypeOK
  BY DEF WorkflowInv
<1>. DEFINE next == [runs[g] EXCEPT !.todo = @ \ {b}]
            last == [runs[g] EXCEPT !.job = "model-twin"]
<1>1. /\ runs[g].job = "verify" /\ VerifyPasses(runs[g], b)
      /\ UNCHANGED <<latest, served, twin, requests, edits>>
      /\ \/ Continue(g, next) /\ UNCHANGED <<met, alone>>
         \/ /\ runs[g].todo = {b} /\ runs[g].mode = "publish"
            /\ Continue(g, last) /\ UNCHANGED <<met, alone>>
         \/ End(g, TRUE)
  BY DEF Verify, hub, counters, history
<1>2. /\ runs[g] \in RunRecords /\ runs[g] # Idle
      /\ WellPlanned(g, runs[g]) /\ HasMet(runs[g], met[g], served)
      /\ IsServed(runs[g], alone[g], served) /\ met[g] \subseteq Branches
  BY <1>1, RunFacts
<1>3. b \in met[g] /\ Branches \ runs[g].todo \subseteq met[g]
  BY <1>1, VerifiedIsMet
<1>4. CASE Continue(g, next) /\ UNCHANGED <<met, alone>>
  <2>1. /\ next \in RunRecords /\ next.job = "verify" /\ next.todo = runs[g].todo \ {b}
        /\ next.event = runs[g].event
        /\ next.mode = runs[g].mode /\ next.source = runs[g].source
    BY <1>1, <1>2 DEF RunRecords
  <2>. HIDE DEF next
  <2>2. WellPlanned(g, next)
    BY <1>1, <1>2, <2>1 DEF WellPlanned, AskedFor
  <2>3. HasMet(next, met[g], served)
    BY <1>2, <1>3, <2>1 DEF HasMet, About
  <2>4. IsServed(next, alone[g], served)
    BY <1>1, <1>2, <2>1 DEF IsServed
  <2>. QED BY <1>1, <1>4, <2>1, <2>2, <2>3, <2>4, ContinueStep DEF RunInv
<1>5. CASE /\ runs[g].todo = {b} /\ runs[g].mode = "publish"
           /\ Continue(g, last) /\ UNCHANGED <<met, alone>>
  <2>1. /\ last \in RunRecords /\ last.job = "model-twin" /\ last.event = runs[g].event
        /\ last.mode = runs[g].mode /\ last.source = runs[g].source
    BY <1>1, <1>2 DEF RunRecords
  <2>. HIDE DEF last
  <2>2. WellPlanned(g, last)
    BY <1>1, <1>2, <1>5, <2>1 DEF WellPlanned, AskedFor
  <2>3. met[g] = Branches
    BY <1>2, <1>3, <1>5
  <2>4. HasMet(last, met[g], served)
    BY <2>1, <2>3 DEF HasMet
  <2>5. IsServed(last, alone[g], served)
    BY <1>1, <1>2, <2>1 DEF IsServed
  <2>. QED BY <1>1, <1>5, <2>1, <2>2, <2>4, <2>5, ContinueStep DEF RunInv
<1>6. CASE End(g, TRUE)
  BY <1>0, <1>1, <1>6, EndStep DEF TypeOK
<1>. QED BY <1>1, <1>4, <1>5, <1>6

LEMMA PointTwinStep ==
  ASSUME WorkflowInv, NEW g \in Groups, PointTwin(g)
  PROVE  WorkflowInv'
<1>1. /\ runs[g].job = "model-twin" /\ twin' = runs[g].source /\ End(g, TRUE)
      /\ UNCHANGED <<latest, served, requests, edits>>
  BY DEF PointTwin, counters
<1>2. twin' \in Commits \cup {None}
  <2>1. runs[g] \in RunRecords
    BY <1>1, RunFacts
  <2>. QED BY <1>1, <2>1 DEF RunRecords
<1>. QED BY <1>1, <1>2, EndStep

LEMMA JobFailsStep ==
  ASSUME WorkflowInv, NEW g \in Groups, JobFails(g)
  PROVE  WorkflowInv'
<1>1. End(g, FALSE) /\ UNCHANGED <<latest, served, twin, requests, edits>>
  BY DEF JobFails, hub, counters
<1>2. twin' \in Commits \cup {None}
  BY <1>1 DEF WorkflowInv, TypeOK
<1>. QED BY <1>1, <1>2, EndStep

-----------------------------------------------------------------------------
LEMMA WorkflowInit == Init => WorkflowInv
<1>. SUFFICES ASSUME Init PROVE WorkflowInv
  OBVIOUS
<1>1. /\ latest = None /\ twin = None /\ red = FALSE /\ requests = 0 /\ edits = 0
      /\ runs = [g \in Groups |-> Idle] /\ waiting = [g \in Groups |-> None]
      /\ met = [g \in Groups |-> {}] /\ alone = [g \in Groups |-> TRUE]
      /\ served \in [Branches -> {Foreign, Absent}]
  BY DEF Init
<1>2. TypeOK
  <2>1. runs \in [Groups -> RunRecords \cup {Idle}] /\ waiting \in [Groups -> Requests \cup {Schedule, None}]
    BY <1>1
  <2>2. met \in [Groups -> SUBSET Branches] /\ alone \in [Groups -> BOOLEAN]
    BY <1>1
  <2>3. served \in [Branches -> Commits \cup {Foreign, Absent}]
    BY <1>1
  <2>4. requests \in 0 .. MaxRequests /\ edits \in 0 .. MaxEdits
    BY <1>1, WorkflowAssumption
  <2>5. red \in BOOLEAN
    BY <1>1
  <2>. QED BY <1>1, <2>1, <2>2, <2>3, <2>4, <2>5 DEF TypeOK
<1>3. WaitsInGroup
  BY <1>1 DEF WaitsInGroup
<1>4. \A g \in Groups : RunInv(g, runs[g], met[g], alone[g], served)
  BY <1>1, NoRun
<1>. QED BY <1>2, <1>3, <1>4 DEF WorkflowInv

LEMMA WorkflowNext == WorkflowInv /\ [Next]_vars => WorkflowInv'
<1>. SUFFICES ASSUME WorkflowInv, [Next]_vars PROVE WorkflowInv'
  OBVIOUS
<1>0. TypeOK
  BY DEF WorkflowInv
<1>1. CASE Week
  <2>1. Schedule \in Events /\ Trigger(Schedule) /\ latest' = latest /\ requests' = requests
    BY <1>1 DEF Week, Events
  <2>2. latest' \in Commits \cup {None} /\ requests' \in 0 .. MaxRequests
    BY <1>0, <2>1 DEF TypeOK
  <2>. QED BY <2>1, <2>2, TriggerStep
<1>2. ASSUME NEW event \in Requests, Request(event) PROVE WorkflowInv'
  <2>1. /\ requests < MaxRequests /\ requests' = requests + 1 /\ Trigger(event)
        /\ latest' = IF event.kind = "release" /\ ~event.prerelease THEN event.ref ELSE latest
    BY <1>2 DEF Request
  <2>2. event \in Events /\ event.ref \in Commits \cup {None}
    BY EventFacts DEF Events
  <2>3. latest' \in Commits \cup {None}
    BY <1>0, <2>1, <2>2 DEF TypeOK
  <2>4. requests' \in 0 .. MaxRequests
    BY <1>0, <2>1, WorkflowAssumption DEF TypeOK
  <2>. QED BY <2>1, <2>2, <2>3, <2>4, TriggerStep
<1>3. CASE \E g \in Groups : Step(g)
  BY <1>3, PlanStep, BuildStep, PublishedStep, PointTwinStep, JobFailsStep, PushStep, VerifyStep
     DEF Step
<1>4. CASE \E b \in Branches, to \in Commits \cup {Foreign} : OthersEdit(b, to)
  BY <1>4, OthersEditStep
<1>5. CASE UNCHANGED vars
  <2>1. UNCHANGED <<latest, runs, waiting, served, twin, red, requests, edits, met, alone>>
    BY <1>5 DEF vars, hub, counters, history
  <2>2. TypeOK'
    BY <1>0, <2>1 DEF TypeOK
  <2>3. WaitsInGroup'
    BY <2>1 DEF WorkflowInv, WaitsInGroup
  <2>. QED BY <2>1, <2>2, <2>3 DEF WorkflowInv
<1>. QED BY <1>1, <1>2, <1>3, <1>4, <1>5 DEF Next

\* Runs are what their jobs have established, whatever else happens.
THEOREM RunsAreWellPlanned == Spec => []WorkflowInv
<1>. QED BY WorkflowInit, WorkflowNext, PTL DEF Spec

\* The state keeps its type; with it, that a run is about a commit or nothing.
THEOREM WorkflowTypes == Spec => []TypeOK
<1>1. WorkflowInv => TypeOK
  BY DEF WorkflowInv
<1>. QED BY <1>1, RunsAreWellPlanned, PTL

\* What a step does to the branches and to the run of a group.
LEMMA BranchesMove ==
  ASSUME WorkflowInv, [Next]_vars, served' # served
  PROVE  \/ edits' # edits
         \/ \E g \in Groups, b \in Branches : Push(g, b)
<1>1. CASE \E b \in Branches, to \in Commits \cup {Foreign} : OthersEdit(b, to)
  <2>1. edits' = edits + 1 /\ edits \in Int
    BY <1>1 DEF OthersEdit, WorkflowInv, TypeOK
  <2>. QED BY <2>1
<1>2. CASE Week \/ \E event \in Requests : Request(event)
  BY <1>2 DEF Week, Request, Trigger, hub
<1>3. CASE \E g \in Groups : Step(g)
  BY <1>3 DEF Step, Plan, Build, Published, PointTwin, JobFails, Verify, hub
<1>4. CASE UNCHANGED vars
  BY <1>4 DEF vars, hub
<1>. QED BY <1>1, <1>2, <1>3, <1>4 DEF Next

\* No branch is moved to anything but a reviewed commit somebody asked for.
THEOREM ReviewedAndAskedFor == Spec => OnlyReviewedIsPublished
<1>. DEFINE A == \A b \in Branches : served'[b] # served[b] /\ edits' = edits =>
                   /\ served'[b] \in Reviewed
                   /\ \E g \in Groups : Running(g) /\ AskedFor(runs[g]) /\ served'[b] = runs[g].source
<1>1. ASSUME WorkflowInv, [Next]_vars PROVE A
  <2>. SUFFICES ASSUME NEW b \in Branches, served'[b] # served[b], edits' = edits
                PROVE  /\ served'[b] \in Reviewed
                       /\ \E g \in Groups :
                            Running(g) /\ AskedFor(runs[g]) /\ served'[b] = runs[g].source
    OBVIOUS
  <2>1. PICK g \in Groups, c \in Branches : Push(g, c)
    <3>1. served' # served
      OBVIOUS
    <3>. QED BY <3>1, <1>1, BranchesMove
  <2>2. /\ runs[g].job = "publish" /\ runs[g].mode = "publish"
        /\ served' = [served EXCEPT ![c] = runs[g].source]
    BY <2>1 DEF Push, Move
  <2>3. b = c /\ served'[b] = runs[g].source
    BY <1>1, <2>2 DEF WorkflowInv, TypeOK
  <2>4. runs[g] # Idle /\ AskedFor(runs[g]) /\ runs[g].source \in Reviewed
    BY <1>1, <2>2, RunFacts DEF WellPlanned
  <2>. QED BY <2>3, <2>4 DEF Running
<1>2. WorkflowInv /\ [Next]_vars => [A]_vars
  BY <1>1
<1>. HIDE DEF A
<1>3. Spec => [][A]_vars
  BY <1>2, RunsAreWellPlanned, PTL DEF Spec
<1>. QED BY <1>3 DEF A, OnlyReviewedIsPublished

\* The model twin follows what the kernel repository has served.
THEOREM TwinIsServed == Spec => TwinFollowsKernel
<1>. DEFINE B(g) == /\ runs[g].job = "model-twin" /\ twin' = runs[g].source
                    /\ met[g] = Branches
                    /\ alone[g] => \A b \in Branches : served[b] = twin'
            A == twin' # twin => \E g \in Groups : B(g)
<1>1. ASSUME WorkflowInv, [Next]_vars, twin' # twin PROVE \E g \in Groups : B(g)
  <2>1. PICK g \in Groups : PointTwin(g)
    <3>1. ~Week /\ ~\E event \in Requests : Request(event)
      BY <1>1 DEF Week, Request, Trigger, hub
    <3>2. ~\E b \in Branches, to \in Commits \cup {Foreign} : OthersEdit(b, to)
      BY <1>1 DEF OthersEdit
    <3>3. ~UNCHANGED vars
      BY <1>1 DEF vars, hub
    <3>4. \A g \in Groups : Step(g) => PointTwin(g)
      BY <1>1 DEF Step, Plan, Build, Published, JobFails, Verify, Push, hub
    <3>. QED BY <1>1, <3>1, <3>2, <3>3, <3>4 DEF Next
  <2>2. runs[g].job = "model-twin" /\ twin' = runs[g].source
    BY <2>1 DEF PointTwin
  <2>3. /\ WellPlanned(g, runs[g]) /\ HasMet(runs[g], met[g], served)
        /\ IsServed(runs[g], alone[g], served)
    BY <1>1, <2>2, RunFacts
  <2>4. runs[g].mode = "publish" /\ met[g] = Branches
    BY <2>2, <2>3 DEF WellPlanned, HasMet
  <2>5. alone[g] => \A b \in Branches : served[b] = twin'
    BY <2>2, <2>3, <2>4 DEF IsServed
  <2>. QED BY <2>2, <2>4, <2>5
<1>2. WorkflowInv /\ [Next]_vars => [A]_vars
  BY <1>1
<1>. HIDE DEF A
<1>3. Spec => [][A]_vars
  BY <1>2, RunsAreWellPlanned, PTL DEF Spec
<1>. QED BY <1>3 DEF A, TwinFollowsKernel

\* A drift guard leaves its verification by passing, or it is red.
LEMMA GuardEnds ==
  ASSUME WorkflowInv, [Next]_vars, NEW g \in Groups,
         runs[g].job = "verify", runs[g].mode = "drift", runs'[g].job # "verify", ~red'
  PROVE  \E b \in Branches : runs[g].todo = {b} /\ VerifyPasses(runs[g], b)
<1>0. TypeOK
  BY DEF WorkflowInv
<1>1. runs[g].event.kind = "schedule"
  BY RunFacts DEF WellPlanned
<1>2. \A h \in Groups : h # g => ~Step(h)
  <2>1. ASSUME NEW h \in Groups, h # g, Step(h) PROVE runs'[g] = runs[g]
    <3>1. \E run : runs' = [runs EXCEPT ![h] = run]
      <4>1. ASSUME NEW ok, End(h, ok) PROVE \E run : runs' = [runs EXCEPT ![h] = run]
        BY <4>1 DEF End
      <4>2. ASSUME NEW run, Continue(h, run) \/ Planned(h, run)
            PROVE  \E next : runs' = [runs EXCEPT ![h] = next]
        BY <4>2 DEF Continue, Planned
      <4>3. (\E ok : End(h, ok)) \/ (\E run : Continue(h, run) \/ Planned(h, run))
        BY <2>1 DEF Step, Plan, Build, Push, Published, Verify, PointTwin, JobFails
      <4>. QED BY <4>1, <4>2, <4>3
    <3>. QED BY <2>1, <3>1, <1>0 DEF TypeOK
  <2>. QED BY <2>1
<1>3. ~Week /\ ~\E event \in Requests : Request(event)
  <2>1. ASSUME NEW event \in Events, Trigger(event) PROVE runs'[g] = runs[g]
    <3>1. Running(g)
      BY RunFacts DEF Running
    <3>2. Group(event) \in Groups
      BY EventFacts
    <3>3. CASE Running(Group(event))
      BY <2>1, <3>3 DEF Trigger
    <3>4. CASE ~Running(Group(event))
      <4>1. runs' = [runs EXCEPT ![Group(event)] = Run(event)] /\ Group(event) # g
        BY <2>1, <3>1, <3>4 DEF Trigger
      <4>. QED BY <4>1, <3>2, <1>0 DEF TypeOK
    <3>. QED BY <3>3, <3>4
  <2>. QED BY <2>1 DEF Week, Request, Events
<1>4. ~\E b \in Branches, to \in Commits \cup {Foreign} : OthersEdit(b, to)
  BY DEF OthersEdit
<1>5. ~UNCHANGED vars
  BY DEF vars
<1>6. Step(g)
  BY <1>2, <1>3, <1>4, <1>5 DEF Next
<1>7. ~JobFails(g)
  BY <1>1 DEF JobFails, End
<1>8. PICK b \in Branches : Verify(g, b)
  BY <1>6, <1>7 DEF Step, Plan, Build, Push, Published, PointTwin
<1>9. runs[g].todo = {b}
  <2>1. ~Continue(g, [runs[g] EXCEPT !.todo = @ \ {b}])
    <3>1. runs[g] \in RunRecords
      BY RunFacts
    <3>2. [runs[g] EXCEPT !.todo = @ \ {b}].job = "verify"
      BY <3>1 DEF RunRecords
    <3>. QED BY <3>2, <1>0 DEF Continue, TypeOK
  <2>. QED BY <2>1, <1>8 DEF Verify
<1>. QED BY <1>8, <1>9 DEF Verify

\* A drift guard that passes has seen every branch with the release's content.
THEOREM PassingGuardIsRight == Spec => DriftGuardIsSound
<1>. DEFINE A == \A g \in Groups :
                   runs[g] # Idle /\ runs[g].job = "verify" /\ runs[g].mode = "drift"
                     /\ runs'[g].job # "verify" /\ ~red' => met[g] = Branches
<1>1. ASSUME WorkflowInv, [Next]_vars PROVE A
  <2>. SUFFICES ASSUME NEW g \in Groups, runs[g].job = "verify", runs[g].mode = "drift",
                       runs'[g].job # "verify", ~red'
                PROVE  met[g] = Branches
    OBVIOUS
  <2>1. PICK b \in Branches : runs[g].todo = {b} /\ VerifyPasses(runs[g], b)
    BY <1>1, GuardEnds
  <2>2. b \in met[g] /\ Branches \ runs[g].todo \subseteq met[g]
    BY <1>1, <2>1, VerifiedIsMet
  <2>3. met[g] \subseteq Branches
    BY <1>1 DEF WorkflowInv, TypeOK
  <2>. QED BY <2>1, <2>2, <2>3
<1>2. WorkflowInv /\ [Next]_vars => [A]_vars
  BY <1>1
<1>. HIDE DEF A
<1>3. Spec => [][A]_vars
  BY <1>2, RunsAreWellPlanned, PTL DEF Spec
<1>. QED BY <1>3 DEF A, DriftGuardIsSound
=============================================================================
