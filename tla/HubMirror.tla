----------------------------- MODULE HubMirror ------------------------------
(***************************************************************************)
(* What the publisher promises of a Hub repository, without its steps: a   *)
(* branch only ever grows, by commits of others and by mirrors of its own  *)
(* tip; a new branch starts from a commit the trunk has had.               *)
(***************************************************************************)
EXTENDS HubTrees, Sequences, SequencesExt

CONSTANTS Branches, Trunk, FirstTrees

VARIABLE hub

Tip(commit) == Last(commit).tree
Mirror(commit, s) ==
  Append(commit, [tree |-> Mirrored(Tip(commit), s), by |-> "publisher"])

Init ==
  hub = [b \in Branches |-> IF b \in DOMAIN FirstTrees
                            THEN <<[tree |-> FirstTrees[b], by |-> "other"]>>
                            ELSE << >>]

Moves(b, commit) == hub' = [hub EXCEPT ![b] = commit]

OthersCommit(b) ==
  /\ hub[b] # << >>
  /\ hub'[b] # << >> /\ Last(hub'[b]).by = "other"
  /\ Moves(b, Append(hub[b], Last(hub'[b])))

Publish(b, s) ==
  /\ hub[b] # << >>
  /\ ~Obstructed(Tip(hub[b]), s)
  /\ Moves(b, Mirror(hub[b], s))

\* The trunk's own candidate may have been refused while this branch's was not.
Create(b) ==
  /\ hub[b] = << >>
  /\ \E n \in 1 .. Len(hub[Trunk]) :
       LET parent == SubSeq(hub[Trunk], 1, n)
       IN \/ Moves(b, parent)
          \/ \E s \in Sources : ~Obstructed(Tip(parent), s) /\ Moves(b, Mirror(parent, s))

Next ==
  \E b \in Branches : OthersCommit(b) \/ Create(b) \/ \E s \in Sources : Publish(b, s)

Spec == Init /\ [][Next]_hub
=============================================================================
