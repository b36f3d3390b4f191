------------------------------ MODULE HubTrees ------------------------------
(***************************************************************************)
(* The file trees of one Hub repository and what the publisher makes of    *)
(* them.  A tree maps the paths it has to their contents; two trees are    *)
(* the same Git tree when they are the same function.                      *)
(***************************************************************************)
EXTENDS FiniteSets

CONSTANTS
  Paths,        \* the paths that occur
  Contents,     \* what a path can hold
  Submodule,    \* the one content that is not a regular file
  Sources,      \* commits of the GitHub repository
  Payload,      \* source -> the tree the publisher manages
  OwnedPaths,   \* the paths under the prefixes that are owned completely
  PrunedPaths,  \* the paths the configuration prunes
  InTheWay      \* pairs of paths one of which is a directory of the other

\* No path of a Git tree is a file and a directory.
Trees ==
  {t \in UNION {[D -> Contents] : D \in SUBSET Paths} :
     \A p, q \in DOMAIN t : <<p, q>> \notin InTheWay}

\* What is managed fits into one tree, which the configuration sees to, and
\* parse_kernel refuses one that prunes what it manages.
ASSUME PayloadAssumption ==
  /\ Payload \in [Sources -> Trees]
  /\ \A s \in Sources :
       /\ DOMAIN Payload[s] \cap PrunedPaths = {}
       /\ \A p \in DOMAIN Payload[s] : Payload[s][p] # Submodule

ASSUME PathsAssumption ==
  /\ OwnedPaths \subseteq Paths
  /\ PrunedPaths \subseteq Paths
  /\ InTheWay \subseteq Paths \X Paths
  /\ \A w \in InTheWay : <<w[2], w[1]>> \in InTheWay /\ w[1] # w[2]

Managed(s) == DOMAIN Payload[s]

\* Neither written nor deleted: other people's files.
Unmanaged(s) == Paths \ (Managed(s) \cup OwnedPaths \cup PrunedPaths)

\* Mutant: prune_paths is left to the next publication.
OwnedDeleted(t, s) == (DOMAIN t \ Managed(s)) \cap OwnedPaths

\* What candidate deletes.
Deleted(t, s) == (DOMAIN t \ Managed(s)) \cap (OwnedPaths \cup PrunedPaths)

\* update-index replaces a file whose name an added path needs as a directory,
\* and every file below a name that an added path needs for itself.
Overridden(t, s) ==
  {p \in DOMAIN t : \E q \in Managed(s) : <<p, q>> \in InTheWay}

\* Mutant: the candidate is the payload and nothing else.
PayloadOnly(t, s) == Payload[s]

\* The tree of the candidate commit over a parent with tree t.
Mirrored(t, s) ==
  LET kept == DOMAIN t \ (Deleted(t, s) \cup Overridden(t, s))
  IN [p \in kept \cup Managed(s) |->
        IF p \in Managed(s) THEN Payload[s][p] ELSE t[p]]

\* candidate raises: something that is no file stands at a managed path.
Obstructed(t, s) == \E p \in Managed(s) \cap DOMAIN t : t[p] = Submodule

\* readback's checks of the owned, the pruned and the managed paths.
Mirrors(t, s) ==
  /\ DOMAIN t \cap OwnedPaths = Managed(s) \cap OwnedPaths
  /\ DOMAIN t \cap PrunedPaths = {}
  /\ Managed(s) \subseteq DOMAIN t
  /\ \A p \in Managed(s) : t[p] = Payload[s][p]

\* The files the publisher must leave as they are.
UnmanagedFiles(t, s) == [p \in DOMAIN t \cap Unmanaged(s) |-> t[p]]
=============================================================================
