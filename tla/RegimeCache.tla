---------------------------- MODULE RegimeCache ----------------------------
(***************************************************************************)
(* What the invariant-keyed block table promises, without its lists and    *)
(* digests: a bounded cache whose address is the token run together with   *)
(* the governance bundle.  Which block an admission gets and which one it  *)
(* displaces are left open ("no eviction-quality claim is made"); what may *)
(* be displaced is not.                                                    *)
(***************************************************************************)
EXTENDS Integers

CONSTANTS Runs, Bundles, NumBlocks, Strict

VARIABLES
  held,    \* address -> block, for the addresses the cache holds
  reply    \* what the last call returned or raised

Addresses == [tokens : Runs, bundle : Bundles]
Blocks == 0 .. (NumBlocks - 1)

Held == DOMAIN held
Used == {held[a] : a \in Held}

Init ==
  /\ held = [a \in {} |-> 0]
  /\ reply = [op |-> "init", outcome |-> "none"]

Reply(op, a, outcome, block) ==
  reply' = [op |-> op, tokens |-> a.tokens, bundle |-> a.bundle,
            outcome |-> outcome, physical |-> block]

\* Only the address itself is ever a hit.
Hit(a) ==
  /\ a \in Held
  /\ Reply("lookup", a, "hit", held[a])
  /\ UNCHANGED held

HeldElsewhere(a) == \E other \in Held : other.tokens = a.tokens

\* The tokens are held, but by other regimes only.
MissCrossRegime(a) ==
  /\ a \notin Held
  /\ HeldElsewhere(a)
  /\ Reply("lookup", a, "miss_cross_regime", -1)
  /\ UNCHANGED held

MissCold(a) ==
  /\ a \notin Held
  /\ ~ HeldElsewhere(a)
  /\ Reply("lookup", a, "miss_cold", -1)
  /\ UNCHANGED held

AlreadyHeld(a) ==
  /\ a \in Held
  /\ Reply("admit", a, "existing", held[a])
  /\ UNCHANGED held

\* The address enters an unused block.
Place(a, block) ==
  /\ a \notin Held
  /\ block \notin Used
  /\ held' = [x \in Held \cup {a} |-> IF x = a THEN block ELSE held[x]]
  /\ Reply("admit", a, "admitted", block)

\* The address takes over a used block.  Across regimes a strict cache does
\* so only when no block is left.
Displace(a, victim) ==
  /\ a \notin Held
  /\ victim \in Held
  /\ \/ ~ Strict
     \/ victim.bundle = a.bundle
     \/ Used = Blocks
  /\ held' = [x \in (Held \ {victim}) \cup {a} |->
                IF x = a THEN held[victim] ELSE held[x]]
  /\ Reply("admit", a, "admitted", held[victim])

\* A refused call tells the caller and does nothing else.
Refuse(op, error) ==
  /\ reply' = [op |-> op, outcome |-> error]
  /\ UNCHANGED held

Next ==
  \/ \E a \in Addresses :
       \/ Hit(a) \/ MissCrossRegime(a) \/ MissCold(a) \/ AlreadyHeld(a)
       \/ \E block \in Blocks : Place(a, block)
       \/ \E victim \in Held : Displace(a, victim)
  \/ Refuse("lookup", "TypeError")
  \/ \E error \in {"TypeError", "ValueError", "CrossRegimeError"} :
       Refuse("admit", error)

Spec == Init /\ [][Next]_<<held, reply>>
=============================================================================
