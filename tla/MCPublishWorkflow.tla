------------------------- MODULE MCPublishWorkflow --------------------------
(* A release, a later one, a commit with the first one's content, and a commit *)
(* that is not on the default branch.                                          *)
EXTENDS PublishWorkflow, TLC

MCContent == ("first" :> 1) @@ ("second" :> 2) @@ ("docs" :> 1) @@ ("fork" :> 3)

Release(c, pre) ==
  [kind |-> "release", ref |-> c, prerelease |-> pre, dry |-> FALSE, skipTwin |-> FALSE]
Dispatch(c, dry, skip) ==
  [kind |-> "dispatch", ref |-> c, prerelease |-> FALSE, dry |-> dry, skipTwin |-> skip]

MCRequests ==
  {Release("first", FALSE), Release("second", FALSE), Release("docs", TRUE),
   Dispatch("fork", FALSE, FALSE), Dispatch("first", FALSE, TRUE),
   Dispatch(None, TRUE, FALSE)}
=============================================================================
