------------------------------- MODULE Router -------------------------------
(***************************************************************************)
(* Router.shortest_path (router.py): Dijkstra's search with a heap of      *)
(* partial paths.  An entry is never taken out when a cheaper way to its   *)
(* node is found; it is skipped when it is popped.  The heap orders by     *)
(* cost and then by node name; here any entry of least cost may be popped. *)
(* A behaviour is one call, for a query chosen at the start.               *)
(***************************************************************************)
EXTENDS WarehouseGraph, TLC

CONSTANT Query   \* the calls: [start, goal, blocked, edges, penalized]

VARIABLES
  query,    \* the arguments of the call
  pq,       \* the heap: entries [cost, node, path]
  best,     \* [nodes reached so far -> cost of the cheapest way found]
  result    \* the path returned, <<>> for None, or Searching

routerVars == <<query, pq, best, result>>

Searching == <<0>>
NoPath == <<>>

Entry(cost, path) == [cost |-> cost, node |-> Last(path), path |-> path]

Init ==
  /\ query \in Query
  /\ pq = {Entry(0, <<query.start>>)}
  /\ best = query.start :> 0
  /\ result = IF query.start = query.goal THEN <<query.start>> ELSE Searching

\* The start and the goal are never avoided.
Avoided == query.blocked \ {query.start, query.goal}

\* Mutant: the other robots' nodes cost nothing extra.
ImprovedWithoutPenalty(e) ==
  LET cost(n) == e.cost + EdgeCost(e.node, n)
  IN  {Entry(cost(n), Append(e.path, n)) :
         n \in {m \in Neighbors(e.node) \ Avoided :
                  /\ {e.node, m} \notin query.edges
                  /\ m \in DOMAIN best => cost(m) < best[m]}}

\* What the loop over the neighbours of e's node adds: the neighbours that are
\* reached more cheaply than before.
Improved(e) ==
  LET cost(n) == e.cost + StepCost(e.node, n, query.penalized)
  IN  {Entry(cost(n), Append(e.path, n)) :
         n \in {m \in Neighbors(e.node) \ Avoided :
                  /\ {e.node, m} \notin query.edges
                  /\ m \in DOMAIN best => cost(m) < best[m]}}

IsLeast(e) == e \in pq /\ \A f \in pq : e.cost <= f.cost

Return(path) == result' = path /\ UNCHANGED <<query, best>>

PopGoal(e) == IsLeast(e) /\ e.node = query.goal /\ Return(e.path) /\ pq' = pq \ {e}

\* Mutant: a stale entry is skipped and not taken out.
SkipStale(e) == IsLeast(e) /\ e.cost > best[e.node] /\ UNCHANGED routerVars

PopStale(e) ==
  /\ IsLeast(e) /\ e.node # query.goal /\ e.cost > best[e.node]
  /\ pq' = pq \ {e}
  /\ UNCHANGED <<query, best, result>>

PopAndRelax(e) ==
  /\ IsLeast(e) /\ e.node # query.goal /\ e.cost <= best[e.node]
  /\ pq' = (pq \ {e}) \cup Improved(e)
  /\ best' = [n \in {f.node : f \in Improved(e)} |->
                (CHOOSE f \in Improved(e) : f.node = n).cost] @@ best
  /\ UNCHANGED <<query, result>>

GiveUp == pq = {} /\ Return(NoPath) /\ UNCHANGED pq

Next ==
  /\ result = Searching
  /\ \/ GiveUp
     \/ \E e \in pq : PopGoal(e) \/ PopStale(e) \/ PopAndRelax(e)

Spec == Init /\ [][Next]_routerVars /\ WF_routerVars(Next)

-----------------------------------------------------------------------------
(* Properties.                                                             *)

\* Every entry of the heap is a walk from the start, with its cost, and no
\* cheaper than the best known cost of its node.
TypeOK ==
  /\ query \in Query
  /\ \A e \in pq :
       /\ IsWalk(e.path) /\ e.path[1] = query.start /\ e.node = Last(e.path)
       /\ e.cost = WalkCost(e.path, query.penalized) /\ e.cost >= best[e.node]
  /\ DOMAIN best \subseteq Node /\ \A n \in DOMAIN best : best[n] \in Nat
  /\ result \in Seq(Node \cup {0})

Routes ==
  CheapestRoutes(query.start, query.goal, query.blocked, query.edges, query.penalized)

\* The search returns a cheapest route, and None only where no route exists:
\* skipping stale entries and never re-opening a node loses nothing, although
\* a node may be in the heap several times.
ReturnsCheapest ==
  result # Searching =>
    IF result = NoPath THEN Routes = {} ELSE result \in Routes

\* A node none of whose entries could still be expanded has been reached in the
\* cheapest way, and is never improved again: best and the heap are written
\* apart, and an entry is only as good as the comparison that pushed it.
SettledIsCheapest ==
  \A n \in DOMAIN best :
    \/ \E e \in pq : e.node = n /\ e.cost = best[n]
    \/ \A p \in CheapestRoutes(query.start, n, Avoided, query.edges, query.penalized) :
         best[n] = WalkCost(p, query.penalized)

\* The call returns: entries are not pushed again and again for the same node.
Returns == <>(result # Searching)
=============================================================================
