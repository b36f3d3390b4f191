------------------------ MODULE PublisherProperties -------------------------
(***************************************************************************)
(* What the publisher must be right about.                                 *)
(***************************************************************************)
EXTENDS Publisher

TypeOK ==
  /\ hub \in [Branches -> Commits]
  /\ pc \in {"idle", "heads", "fetch", "plan", "preflight", "push", "readback"}
  /\ source \in Sources /\ dry \in BOOLEAN /\ refused \in BOOLEAN
  /\ seen \in [Branches -> Commits] /\ cand \in [Branches -> Commits]
  /\ have \subseteq Commits
  /\ todo \subseteq Branches
  /\ outcome \in {"none", "failed", "planned", "published", "unchanged"}
  /\ pushed \in [Branches -> Nat]
  /\ edits \in 0 .. MaxEdits /\ faults \in 0 .. MaxFaults /\ switches \in 0 .. MaxSwitches

\* "Pushes are fast-forward only": whatever others commit between the steps of
\* a run, a branch never loses a commit (szl_kernel_publish.py:21-22).
NoCommitLost == [][\A b \in Branches : IsPrefix(hub[b], hub'[b])]_vars

\* A branch that moved without anybody else committing: a push took effect.
Published(b) == hub'[b] # hub[b] /\ Last(hub'[b]).by = "publisher"

\* A push leaves these unmanaged files of the branch as they were just before
\* the push, not as they were when the run read it.
PushKeeps(b, files) ==
  Published(b) /\ hub[b] # Absent =>
    \A p \in DOMAIN Tip(hub[b]) \cap files :
      p \in DOMAIN Tip(hub'[b]) /\ Tip(hub'[b])[p] = Tip(hub[b])[p]

\* "Other Hub paths are kept unless the repository config lists them in
\* prune_paths" (szl_kernel_publish.py:17-18, 544-572).
OtherPathsAreKept == [][\A b \in Branches : PushKeeps(b, Unmanaged(source))]_vars

\* The same of the files whose names leave room for the managed paths.
OutOfTheWay == {p \in Paths : \A q \in Managed(source) : <<p, q>> \notin InTheWay}
UnmanagedFilesSurvive ==
  [][\A b \in Branches : PushKeeps(b, Unmanaged(source) \cap OutOfTheWay)]_vars

\* "A re-run recomputes from the new head": a push that takes effect brings a
\* branch that did not serve the source to serve it.  No run commits over a
\* branch that serves already, whatever it was when the run read it, and none
\* leaves a branch with a commit that serves something else.
EveryPushIsNeeded ==
  [][\A b \in Branches : Published(b) /\ hub[b] # Absent =>
        Mirrors(Tip(hub'[b]), source) /\ ~Mirrors(Tip(hub[b]), source)]_vars

\* A receipt that says PUBLISHED or NO_CHANGES is true: on every branch there
\* was a commit, after this run's push had ended, that carried the managed tree
\* and nothing stale ("nothing is reported as published" after a failure).
ReportedWasServed ==
  outcome \in {"published", "unchanged"} =>
    \A b \in Branches :
      \E n \in pushed[b] .. Len(hub[b]) : n > 0 /\ Mirrors(hub[b][n].tree, source)

\* The publisher implements the growing branches of HubMirror.
Mirror == INSTANCE HubMirror
ImplementsHubMirror == Mirror!Spec

Serves(b, s) == hub[b] # Absent /\ Mirrors(Tip(hub[b]), s)

\* "A re-run recomputes from the new head, so repeated runs converge": once
\* others rest and leave no submodule at a managed path, every branch comes to
\* serve the source that is asked for, and stays so.
RunsConverge ==
  <>[](\A b \in Branches : hub[b] # Absent => ~Obstructed(Tip(hub[b]), source))
    => <>[](\A b \in Branches : Serves(b, source))
=============================================================================
