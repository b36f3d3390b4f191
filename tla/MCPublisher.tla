---------------------------- MODULE MCPublisher -----------------------------
(***************************************************************************)
(* Instances for TLC: the kernel repository, whose version branch is yet   *)
(* to be created, and the model twin, which has one branch.                *)
(***************************************************************************)
EXTENDS PublisherProperties

MCPaths == {"module", "superseded", "binding", "notes", "legacy", "binding/notes"}
MCSources == {"r1", "r2"}
MCContents == MCSources \cup {"text", "submodule"}

\* build/ holds "module" and "superseded"; "legacy" is pruned.
MCPayload == [s \in MCSources |-> [p \in {"module", "binding"} |-> s]]
MCOwned == {"module", "superseded"}
MCPruned == {"legacy"}

\* On the twin the card alone is managed and the old build is pruned.
TwinPayload == [s \in MCSources |-> [p \in {"binding"} |-> s]]
TwinPruned == {"module", "superseded", "legacy"}
None == {}

FileInTheWay == {<<"binding/notes", "binding">>, <<"binding", "binding/notes">>}

Old == [p \in {"superseded", "notes", "legacy"} |-> "text"]
\* One branch: the twin has no other, the kernel repository none yet.
MainOnly == [b \in {"main"} |-> Old]

Edit(p, c) == [path |-> p, content |-> c]
MCEdits ==
  {Edit("notes", "r1"), Edit("module", "text"), Edit("superseded", "text"),
   Edit("binding", "submodule"), Edit("binding", "none"), Edit("binding/notes", "text")}
=============================================================================
