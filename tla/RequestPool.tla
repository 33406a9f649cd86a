---------------------------- MODULE RequestPool ----------------------------
(***************************************************************************)
(* What the tool-call path of jig-mcp promises to its callers, with every  *)
(* detail of the implementation left out: a request that asks for a tool   *)
(* waits for one of Slots execution slots, runs in it and is finished, or  *)
(* is turned away because no slot is free.  No request is ever finished    *)
(* twice, and never do more than Slots requests run together.              *)
(* ToolCall implements this specification.                                 *)
(***************************************************************************)
EXTENDS Integers, FiniteSets

CONSTANTS
  Requests,   \* identities of the requests
  Slots       \* number of execution slots

VARIABLES
  waiting,    \* requests waiting for a slot
  running,    \* requests that occupy a slot
  finished    \* requests that have their answer

poolVars == <<waiting, running, finished>>

PoolInit ==
  /\ waiting = {}
  /\ running = {}
  /\ finished = {}

Fresh(r) == r \notin waiting \cup running \cup finished

\* A request that needs no slot is answered at once.
Answer(r) ==
  /\ Fresh(r)
  /\ finished' = finished \cup {r}
  /\ UNCHANGED <<waiting, running>>

Join(r) ==
  /\ Fresh(r)
  /\ waiting' = waiting \cup {r}
  /\ UNCHANGED <<running, finished>>

Enter(r) ==
  /\ r \in waiting
  /\ Cardinality(running) < Slots
  /\ waiting' = waiting \ {r}
  /\ running' = running \cup {r}
  /\ UNCHANGED finished

\* Nobody is turned away while a slot is free.
TurnAway(r) ==
  /\ r \in waiting
  /\ Cardinality(running) = Slots
  /\ waiting' = waiting \ {r}
  /\ finished' = finished \cup {r}
  /\ UNCHANGED running

Leave(r) ==
  /\ r \in running
  /\ running' = running \ {r}
  /\ finished' = finished \cup {r}
  /\ UNCHANGED waiting

PoolNext ==
  \E r \in Requests :
    Answer(r) \/ Join(r) \/ Enter(r) \/ TurnAway(r) \/ Leave(r)

PoolSpec == PoolInit /\ [][PoolNext]_poolVars

=============================================================================
