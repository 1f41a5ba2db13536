---------------------------- MODULE Interlocking ----------------------------
(***************************************************************************)
(* What the traffic manager promises the robots, as in a railway           *)
(* interlocking: every robot holds a set of nodes and is at one of them;   *)
(* no node is ever held by two robots; a step concerns one robot only and  *)
(* takes nothing from another one; and a robot never gets to a node that   *)
(* it did not hold before, except where it comes onto the floor.           *)
(***************************************************************************)
CONSTANTS Robot, Node

VARIABLES
  held,   \* per robot: the nodes only this robot may be at
  at      \* per robot: the node it is at; of no meaning while it holds none

NoNodes == [r \in Robot |-> {}]

Init == held = NoNodes /\ at = [r \in Robot |-> 0]

\* Only r's nodes and its place change; it holds what was free or its own.
Hold(r) ==
  /\ held' = [held EXCEPT ![r] = held'[r]]
  /\ at' = [at EXCEPT ![r] = at'[r]]
  /\ at'[r] \in held'[r] /\ held'[r] \subseteq Node
  /\ \A q \in Robot \ {r} : held'[r] \cap held[q] = {}

\* r comes onto the floor.
Enter(r) == held[r] = {} /\ Hold(r)

\* r moves within its nodes, is given further ones or gives some back.
Change(r) == at'[r] \in held[r] /\ Hold(r)

Spec == Init /\ [][\E r \in Robot : Enter(r) \/ Change(r)]_<<held, at>>

\* As Spec, but a robot may be taken up and put down at another free node.
SpecDisplacing == Init /\ [][\E r \in Robot : Hold(r)]_<<held, at>>
=============================================================================
