--------------------------- MODULE DependencySearch ---------------------------
(***************************************************************************)
(* The two graph searches of internal/agent/state.go, iteration by         *)
(* iteration, over every dependency graph the store can hold: the          *)
(* depth-first search of hasCycleLocked, which decides whether an edge may *)
(* be added, and the breadth-first search of TransitiveDependencies.       *)
(* TaskState states what they should answer (Reaches); here the loops are  *)
(* shown to terminate with that answer.                                    *)
(*                                                                         *)
(* The slice s.dependencies has some order; it decides the order in which  *)
(* the blockers of one node are visited, and every order is possible.      *)
(***************************************************************************)
EXTENDS TaskState, FiniteSets, Naturals, SequencesExt

CONSTANTS MaxResolved,  \* the most resolved edges of a graph
          MaxNamed      \* the most blockers added one after the other

VARIABLES edges, resolved,  \* s.dependencies during the call (s.mu is held)
          op,               \* "hasCycle" or "transitive"
          start,            \* blockedBy, or taskName
          target,           \* blocked (hasCycle only)
          work,             \* the stack, or the queue
          visited,          \* the visited map
          result,           \* TransitiveDependencies' result
          answer            \* "none" while running, then "true", "false", "done"

searchVars == <<edges, resolved, op, start, target, work, visited, result, answer>>

graph == edges \ resolved

SearchInit ==
  /\ edges \in SUBSET {e \in Edge : e[1] # e[2]}
  /\ resolved \in {R \in SUBSET edges : /\ Cardinality(R) <= MaxResolved
                                       /\ Acyclic(edges \ R)}
  /\ op \in {"hasCycle", "transitive"}
  /\ start \in Tasks
  /\ target \in IF op = "hasCycle" THEN Tasks ELSE {start}
  /\ work = <<start>>
  /\ visited = {}
  /\ result = <<>>
  /\ answer = "none"

\* Mutant of BlockersOf: edges are followed from blocker to blocked.
BlockedByReversed(x) == {y \in Tasks : <<y, x>> \in graph}

\* The far ends of the unresolved edges of x, both loops' inner loop.
BlockersOf(x) == {y \in Tasks : <<x, y>> \in graph}

-----------------------------------------------------------------------------
\* hasCycleLocked: a task cannot block itself.
SelfEdge ==
  /\ op = "hasCycle" /\ answer = "none" /\ target = start
  /\ answer' = "true"
  /\ UNCHANGED <<edges, resolved, op, start, target, work, visited, result>>

\* One iteration of the depth-first loop: pop; skip a visited node; return
\* when blocked is a direct blocker of it, else push its blockers.
DepthFirst ==
  /\ op = "hasCycle" /\ answer = "none" /\ target # start /\ work # <<>>
  /\ LET node == Last(work)
         rest == Front(work)
     IN \/ /\ node \in visited
           /\ work' = rest
           /\ UNCHANGED <<visited, answer>>
        \/ /\ node \notin visited
           /\ visited' = visited \cup {node}
           /\ IF target \in BlockersOf(node)
              THEN answer' = "true" /\ work' = rest
              ELSE /\ UNCHANGED answer
                   /\ \E order \in SetToSeqs(BlockersOf(node)) :
                        work' = rest \o order
  /\ UNCHANGED <<edges, resolved, op, start, target, result>>

\* The stack is empty and no path was found.
NoCycle ==
  /\ op = "hasCycle" /\ answer = "none" /\ target # start /\ work = <<>>
  /\ answer' = "false"
  /\ UNCHANGED <<edges, resolved, op, start, target, work, visited, result>>

\* Mutants of BreadthFirst: the visited map is not consulted; the head stays.
BreadthFirstRevisits ==
  /\ op = "transitive" /\ answer = "none" /\ work # <<>>
  /\ \E order \in SetToSeqs(BlockersOf(Head(work))) :
       result' = result \o order /\ work' = Tail(work) \o order
  /\ UNCHANGED <<edges, resolved, op, start, target, visited, answer>>

BreadthFirstKeepsHead ==
  /\ op = "transitive" /\ answer = "none" /\ work # <<>>
  /\ visited' = visited \cup BlockersOf(Head(work))
  /\ UNCHANGED <<edges, resolved, op, start, target, work, result, answer>>

\* One iteration of the breadth-first loop: every unvisited blocker of the
\* head of the queue is reported and queued.
BreadthFirst ==
  /\ op = "transitive" /\ answer = "none" /\ work # <<>>
  /\ \E order \in SetToSeqs(BlockersOf(Head(work)) \ visited) :
       /\ result' = result \o order
       /\ work' = Tail(work) \o order
  /\ visited' = visited \cup BlockersOf(Head(work))
  /\ UNCHANGED <<edges, resolved, op, start, target, answer>>

BreadthFirstDone ==
  /\ op = "transitive" /\ answer = "none" /\ work = <<>>
  /\ answer' = "done"
  /\ UNCHANGED <<edges, resolved, op, start, target, work, visited, result>>

SearchNext == SelfEdge \/ DepthFirst \/ NoCycle \/ BreadthFirst \/ BreadthFirstDone

\* The loops run with the lock held and nothing to wait for.
SearchSpec == SearchInit /\ [][SearchNext]_searchVars /\ WF_searchVars(SearchNext)

-----------------------------------------------------------------------------
\* addDependencyLocked for one edge, and extractDependenciesLocked's loop over
\* the blockers a message names.
AddOne(E, t, b) ==
  IF <<t, b>> \in E \/ HasCycle(E \ resolved, t, b) THEN E ELSE E \cup {<<t, b>>}

AddInOrder(t, named) == FoldLeft(LAMBDA E, b : AddOne(E, t, b), edges, named)

-----------------------------------------------------------------------------
\* hasCycleLocked answers true exactly when the new edge would close a cycle of
\* unresolved edges, whatever the shape of the graph and the order of the slice:
\* marking nodes visited when they are popped loses no path.
CycleCheckIsExact ==
  answer \in {"true", "false"} =>
    (answer = "true") = ~Acyclic(graph \cup {<<target, start>>})

\* TransitiveDependencies lists every task that is reachable over unresolved
\* edges, each once, and never the task itself.
TransitiveIsExact ==
  answer = "done" =>
    /\ ToSet(result) = {y \in Tasks \ {start} : Reaches(graph, start, y)}
    /\ Len(result) = Cardinality(ToSet(result))

\* The blockers of one message give the same edges in whatever order they are
\* named, waiting-for first or not: the ones AddDependencies computes from the
\* graph before the message.  (Asked once for each graph and task.)
NamingOrderIrrelevant ==
  (op = "transitive" /\ answer = "none" /\ visited = {}) =>
    \A n \in 1..MaxNamed : \A named \in [1..n -> Tasks] :
      AddInOrder(start, named)
        = AddDependencies(edges, resolved, start, ToSet(named))

\* Both loops end, although the stack may hold the same node several times.
SearchEnds == <>(answer # "none")
=============================================================================
