-------------------------- MODULE StateStoreProofs ---------------------------
(***************************************************************************)
(* What StateStore guarantees for any set of tasks and nicks, any mixture  *)
(* of messages and any number of blockers per message.                     *)
(***************************************************************************)
EXTENDS StateStore, TLAPS

-----------------------------------------------------------------------------
(***************************************************************************)
(* The graph.                                                              *)
(***************************************************************************)

\* Reaching t is passed backwards along an edge: what points at a task that
\* reaches t reaches t.
LEMMA ReachesBackwards ==
  ASSUME NEW G, NEW x \in Tasks, NEW y \in Tasks, NEW t \in Tasks,
         <<x, y>> \in G, Reaches(G, y, t)
  PROVE  Reaches(G, x, t)
<1> SUFFICES ASSUME NEW S \in SUBSET Tasks, x \in S, ClosedUnder(G, S)
             PROVE  t \in S
  BY DEF Reaches
<1>1. y \in S
  BY DEF ClosedUnder
<1> QED
  BY <1>1 DEF Reaches

\* Fewer edges cannot make a cycle.
LEMMA SubgraphAcyclic ==
  ASSUME NEW G, NEW H, H \subseteq G, Acyclic(G)
  PROVE  Acyclic(H)
BY DEF Acyclic

\* Adding edges that all leave t, each to a task that does not reach t, keeps
\* the graph acyclic.
LEMMA NewEdgesKeepAcyclic ==
  ASSUME NEW G, NEW t \in Tasks, NEW B \in SUBSET Tasks, Acyclic(G),
         \A b \in B : ~Reaches(G, b, t)
  PROVE  Acyclic(G \cup {<<t, b>> : b \in B})
<1> DEFINE H == G \cup {<<t, b>> : b \in B}
           R == {x \in Tasks : Reaches(G, x, t)}
<1> SUFFICES ASSUME NEW S \in SUBSET Tasks, S # {},
                    \A x \in S : \E y \in S : <<x, y>> \in H
             PROVE  FALSE
  BY DEF Acyclic
<1>1. t \in R
  BY DEF Reaches
<1>2. \A x \in S \ R : \E y \in S \ R : <<x, y>> \in G
  <2> SUFFICES ASSUME NEW x \in S, x \notin R
               PROVE  \E y \in S \ R : <<x, y>> \in G
    OBVIOUS
  <2>1. PICK y \in S : <<x, y>> \in H
    OBVIOUS
  <2>2. <<x, y>> \in G
    BY <1>1, <2>1
  <2>3. y \notin R
    BY <2>2, ReachesBackwards
  <2> QED
    BY <2>2, <2>3
<1>3. S \ R = {}
  BY <1>2, S \ R \in SUBSET Tasks DEF Acyclic
<1>4. \A x \in S : \E y \in S : <<x, y>> \in G
  <2> SUFFICES ASSUME NEW x \in S PROVE \E y \in S : <<x, y>> \in G
    OBVIOUS
  <2>1. PICK y \in S : <<x, y>> \in H
    OBVIOUS
  <2>2. y \in R
    BY <1>3
  <2>3. y \notin B
    BY <2>2
  <2> QED
    BY <2>1, <2>3
<1> QED
  BY <1>4 DEF Acyclic

\* addDependencyLocked, for the unresolved edges: the resolved ones stay out
\* because an edge that is already recorded is not added again.
LEMMA AddDependenciesAcyclic ==
  ASSUME NEW E \in SUBSET Edge, NEW Rs \in SUBSET E, NEW t \in Tasks,
         NEW B \in SUBSET Tasks, Acyclic(E \ Rs)
  PROVE  Acyclic(AddDependencies(E, Rs, t, B) \ Rs)
<1> DEFINE N == {x \in B : <<t, x>> \notin E /\ ~HasCycle(E \ Rs, t, x)}
<1>1. AddDependencies(E, Rs, t, B) \ Rs = (E \ Rs) \cup {<<t, b>> : b \in N}
  BY DEF AddDependencies
<1>2. N \in SUBSET Tasks /\ \A b \in N : ~Reaches(E \ Rs, b, t)
  BY DEF HasCycle
<1>3. Acyclic((E \ Rs) \cup {<<t, b>> : b \in N})
  <2> HIDE DEF N
  <2> QED
    BY <1>2, NewEdgesKeepAcyclic
<1> QED
  BY <1>1, <1>3

-----------------------------------------------------------------------------
(***************************************************************************)
(* Types.                                                                  *)
(***************************************************************************)

\* A message keeps the entry of its task a TaskInfo.
LEMMA TaskAfterType ==
  ASSUME NEW info \in TaskInfo, NEW m \in Message
  PROVE  TaskAfter(info, m) \in TaskInfo
<1>1. StatusAfter(info.status, m.action) \in TaskStatus
  BY DEF StatusAfter, TaskInfo, TaskStatus, Message, TaskAction
<1>2. OwnerAfter(info.owner, m) \in Nicks \cup {NoNick}
  BY DEF OwnerAfter, TaskInfo, Message, TaskAction
<1> QED
  BY <1>1, <1>2 DEF TaskAfter, TaskInfo

\* addDependencyLocked adds edges between tasks and drops none.
LEMMA AddDependenciesType ==
  ASSUME NEW E \in SUBSET Edge, NEW Rs, NEW t \in Tasks,
         NEW B \in SUBSET Tasks
  PROVE  /\ E \subseteq AddDependencies(E, Rs, t, B)
         /\ AddDependencies(E, Rs, t, B) \in SUBSET Edge
<1> DEFINE N == {x \in B : <<t, x>> \notin E /\ ~HasCycle(E \ Rs, t, x)}
<1>1. N \subseteq Tasks
  OBVIOUS
<1>2. {<<t, b>> : b \in N} \subseteq Edge
  <2> HIDE DEF N
  <2> QED
    BY <1>1 DEF Edge
<1> QED
  BY <1>2 DEF AddDependencies

\* A message adds edges between tasks and resolves recorded edges only.
LEMMA GraphAfterType ==
  ASSUME NEW E \in SUBSET Edge, NEW Rs \in SUBSET E, NEW m \in Message
  PROVE  /\ EdgesAfter(E, Rs, m) \in SUBSET Edge
         /\ ResolvedAfter(E, Rs, m) \in SUBSET EdgesAfter(E, Rs, m)
<1>1. Blockers(m) \in SUBSET Tasks /\ m.task \in Tasks
  BY DEF Blockers, Message
<1>2. AddDependencies(E, Rs, m.task, Blockers(m)) \in SUBSET Edge
  BY <1>1, AddDependenciesType
<1>3. ResolveDependencies(E, Rs, m.task) \in SUBSET E
  BY DEF ResolveDependencies
<1>4. E \subseteq EdgesAfter(E, Rs, m)
  BY <1>1, AddDependenciesType DEF EdgesAfter
<1> QED
  BY <1>2, <1>3, <1>4 DEF EdgesAfter, ResolvedAfter

\* One of the messages of Next is applied.
MessageApplied == \E m \in Message : Update(m)

\* Every step of Next applies a message or adds an edge.
LEMMA NextCases ==
  ASSUME Next
  PROVE  \/ MessageApplied
         \/ \E t, b \in Tasks : AddDependency(t, b)
<1>1. ASSUME NEW t \in Tasks, NEW n \in Nicks,
             NEW a \in TaskAction, Update(Plain(a, t, n))
      PROVE  MessageApplied
  <2>1. Plain(a, t, n) \in Message
    BY DEF Plain, Message
  <2> QED
    BY <1>1, <2>1 DEF MessageApplied
<1>2. ASSUME NEW t \in Tasks, NEW n \in Nicks,
             NEW to \in Nicks \cup {NoNick}, NEW a \in TaskAction,
             Update([Plain(a, t, n) EXCEPT !.to = to])
      PROVE  MessageApplied
  <2>1. [Plain(a, t, n) EXCEPT !.to = to] \in Message
    BY DEF Plain, Message
  <2> QED
    BY <1>2, <2>1 DEF MessageApplied
<1>3. ASSUME NEW t \in Tasks, NEW n \in Nicks, NEW wf \in Tasks \cup {NoTask},
             NEW tags \in SUBSET Tasks, Blocked(t, n, wf, tags)
      PROVE  MessageApplied
  <2> DEFINE m == [Plain("BLOCKED", t, n) EXCEPT !.waitingFor = wf,
                                                 !.blockedBy = tags]
  <2>1. m \in Message
    BY DEF Plain, Message, TaskAction
  <2> QED
    BY <1>3, <2>1 DEF Blocked, MessageApplied
<1>4. CASE \E t \in Tasks, n \in Nicks :
             \/ Started(t, n) \/ Completed(t, n) \/ Acknowledged(t, n)
             \/ Offer(t, n) \/ Claim(t, n) \/ Accept(t, n)
             \/ Decline(t, n) \/ Yield(t, n) \/ Checkpoint(t, n)
  BY <1>1, <1>4 DEF Started, Completed, Acknowledged, Offer, Claim, Accept,
     Decline, Yield, Checkpoint, TaskAction
<1>5. CASE \E t \in Tasks, n \in Nicks, to \in Nicks \cup {NoNick} :
             Assign(t, n, to) \/ Handoff(t, n, to)
  BY <1>2, <1>5 DEF Assign, Handoff, TaskAction
<1> QED
  BY <1>3, <1>4, <1>5 DEF Next

\* The store holds task entries, edges between tasks, and resolves recorded
\* edges only: UpdateTask and AddDependency keep its types.
THEOREM TypeCorrect == Spec => []TypeOK
<1>1. Init => TypeOK
  BY DEF Init, TypeOK, NewTaskInfo, TaskInfo, TaskStatus, Edge
<1>2. TypeOK /\ [Next]_vars => TypeOK'
  <2> SUFFICES ASSUME TypeOK, [Next]_vars PROVE TypeOK'
    OBVIOUS
  <2>1. ASSUME NEW m \in Message, Update(m) PROVE TypeOK'
    <3>1. m.task \in Tasks
      BY DEF Message
    <3>2. TaskAfter(tasks[m.task], m) \in TaskInfo
      BY <3>1, TaskAfterType DEF TypeOK
    <3>3. edges' \subseteq Edge /\ resolved' \subseteq edges'
      BY <2>1, GraphAfterType DEF TypeOK, Update
    <3>4. tasks' \in [Tasks -> TaskInfo]
      BY <2>1, <3>1, <3>2 DEF TypeOK, Update
    <3> QED
      BY <3>3, <3>4 DEF TypeOK
  <2>2. ASSUME NEW t \in Tasks, NEW b \in Tasks, AddDependency(t, b)
        PROVE  TypeOK'
    <3>1. edges' = AddDependencies(edges, resolved, t, {b})
      BY <2>2 DEF AddDependency
    <3>2. edges \subseteq edges' /\ edges' \subseteq Edge
      BY <3>1, AddDependenciesType DEF TypeOK
    <3> QED
      BY <2>2, <3>2 DEF TypeOK, AddDependency
  <2>3. CASE UNCHANGED vars
    BY <2>3 DEF TypeOK, vars
  <2> QED
    BY <2>1, <2>2, <2>3, NextCases DEF MessageApplied
<1> QED
  BY <1>1, <1>2, PTL DEF Spec

-----------------------------------------------------------------------------
(***************************************************************************)
(* No step closes a cycle of unresolved dependencies.                      *)
(***************************************************************************)

\* The step: COMPLETED only resolves, BLOCKED and AddDependency add edges that
\* the cycle check let through, everything else leaves the graph alone.
LEMMA StepKeepsAcyclic ==
  ASSUME TypeOK, NoOpenCycle, [Next]_vars
  PROVE  NoOpenCycle'
<1>1. ASSUME NEW m \in Message, Update(m) PROVE NoOpenCycle'
  <2>1. CASE m.action = "BLOCKED"
    <3>1. Blockers(m) \in SUBSET Tasks /\ m.task \in Tasks
      BY DEF Blockers, Message
    <3>2. /\ edges' = AddDependencies(edges, resolved, m.task, Blockers(m))
          /\ resolved' = resolved
      BY <1>1, <2>1 DEF Update, EdgesAfter, ResolvedAfter
    <3> QED
      BY <3>1, <3>2, AddDependenciesAcyclic DEF TypeOK, NoOpenCycle, open
  <2>2. CASE m.action # "BLOCKED"
    <3>1. edges' = edges /\ resolved \subseteq resolved'
      BY <1>1, <2>2 DEF Update, EdgesAfter, ResolvedAfter, ResolveDependencies
    <3> QED
      BY <3>1, SubgraphAcyclic DEF NoOpenCycle, open
  <2> QED
    BY <2>1, <2>2
<1>2. ASSUME NEW t \in Tasks, NEW b \in Tasks, AddDependency(t, b)
      PROVE  NoOpenCycle'
  BY <1>2, AddDependenciesAcyclic DEF AddDependency, TypeOK, NoOpenCycle, open
<1>3. CASE UNCHANGED vars
  BY <1>3 DEF vars, NoOpenCycle, open
<1> QED
  BY <1>1, <1>2, <1>3, NextCases DEF MessageApplied

\* Whatever messages arrive in whatever order, the unresolved dependencies
\* that addDependencyLocked lets through stay acyclic.
THEOREM OpenGraphAcyclic == Spec => []NoOpenCycle
<1>1. Init => NoOpenCycle
  BY DEF Init, NoOpenCycle, open, Acyclic
<1>2. TypeOK /\ NoOpenCycle /\ [Next]_vars => NoOpenCycle'
  BY StepKeepsAcyclic
<1> QED
  BY <1>1, <1>2, TypeCorrect, PTL DEF Spec

\* In an acyclic graph some task that is waited for waits for nobody.
LEMMA AcyclicHasFreeBlocker ==
  ASSUME TypeOK, NoOpenCycle
  PROVE  SomeBlockerCanRun
<1> DEFINE W == {e[1] : e \in open}
<1> SUFFICES ASSUME NEW d \in open,
                    \A e \in open : \E b \in Tasks : <<e[2], b>> \in open
             PROVE  FALSE
  BY DEF SomeBlockerCanRun
<1>1. open \subseteq Edge
  BY DEF open, TypeOK
<1>2. W \in SUBSET Tasks /\ W # {}
  BY <1>1 DEF Edge
<1>3. \A x \in W : \E y \in W : <<x, y>> \in open
  <2> SUFFICES ASSUME NEW e \in open
               PROVE  \E y \in W : <<e[1], y>> \in open
    OBVIOUS
  <2>1. e = <<e[1], e[2]>>
    BY <1>1 DEF Edge
  <2>2. PICK b \in Tasks : <<e[2], b>> \in open
    OBVIOUS
  <2>3. e[2] \in W
    BY <2>2
  <2> QED
    BY <2>1, <2>3
<1> QED
  BY <1>2, <1>3 DEF NoOpenCycle, Acyclic

\* Tasks never all wait for each other: while an edge is open, some open
\* blocker has no open edge of its own.
THEOREM WaitingNeverDeadlocks == Spec => []SomeBlockerCanRun
<1>1. TypeOK /\ NoOpenCycle => SomeBlockerCanRun
  BY AcyclicHasFreeBlocker
<1> QED
  BY <1>1, TypeCorrect, OpenGraphAcyclic, PTL

-----------------------------------------------------------------------------
(***************************************************************************)
(* What UnblockedTasks reports from one step to the next.                  *)
(***************************************************************************)

\* Resolved edges stay resolved, and an edge is resolved only by a COMPLETED
\* about its blocker, which resolves all the edges on that blocker.
LEMMA ResolvedGrows ==
  ASSUME [Next]_vars
  PROVE  resolved \subseteq resolved'
<1>1. ASSUME NEW m \in Message, Update(m) PROVE resolved \subseteq resolved'
  BY <1>1 DEF Update, ResolvedAfter, ResolveDependencies
<1>2. ASSUME NEW t \in Tasks, NEW b \in Tasks, AddDependency(t, b)
      PROVE  resolved \subseteq resolved'
  BY <1>2 DEF AddDependency
<1> QED
  BY <1>1, <1>2, NextCases DEF MessageApplied, vars

\* UnblockedIsStable, for any tasks and messages: what UnblockedTasks reports is
\* taken back only by a message about that task or a new edge that leaves it, so
\* the UnblockNotifier may act on the answer after s.mu is released.
THEOREM UnblockingIsStable == Spec => UnblockedIsStable
<1> DEFINE Stable ==
      \A t \in Unblocked :
        tasks'[t] = tasks[t] /\ {e \in edges' : e[1] = t} = {e \in edges : e[1] = t}
          => t \in Unblocked'
<1>1. [Next]_vars => [Stable]_vars
  <2> SUFFICES ASSUME [Next]_vars, NEW t \in Unblocked, tasks'[t] = tasks[t],
                      {e \in edges' : e[1] = t} = {e \in edges : e[1] = t}
               PROVE  t \in Unblocked'
    OBVIOUS
  <2>1. \A b \in Tasks : <<t, b>> \in edges' <=> <<t, b>> \in edges
    <3> SUFFICES ASSUME NEW b \in Tasks
                 PROVE  <<t, b>> \in edges' <=> <<t, b>> \in edges
      OBVIOUS
    <3>1. <<t, b>>[1] = t
      OBVIOUS
    <3> QED BY <3>1
  <2>2. resolved \subseteq resolved'
    BY ResolvedGrows
  <2> QED
    BY <2>1, <2>2 DEF Unblocked, UnblockedTasks
<1> QED
  BY <1>1, PTL DEF Spec, UnblockedIsStable

\* CompletionUnblocks, for any tasks and messages: the COMPLETED of the last
\* blocker puts every task that waited for it into UnblockedTasks at once
\* (updateTaskStatus and resolveDependenciesLocked are one critical section).
THEOREM CompletionsUnblock == Spec => CompletionUnblocks
<1> DEFINE Unblocks ==
      \A b \in Tasks :
        tasks[b].status # "completed" /\ tasks'[b].status = "completed"
          => \A t \in Tasks \ {b} :
               /\ tasks[t].status = "blocked"
               /\ {e \in open : e[1] = t} = {<<t, b>>}
               => t \in Unblocked'
<1>1. TypeOK /\ [Next]_vars => [Unblocks]_vars
  <2> SUFFICES ASSUME TypeOK, [Next]_vars, NEW b \in Tasks,
                      tasks[b].status # "completed", tasks'[b].status = "completed",
                      NEW t \in Tasks \ {b}, tasks[t].status = "blocked",
                      {e \in open : e[1] = t} = {<<t, b>>}
               PROVE  t \in Unblocked'
    OBVIOUS
  <2>1. PICK m \in Message : Update(m)
    BY NextCases DEF MessageApplied, AddDependency, vars
  <2>2. m.task = b /\ m.action = "COMPLETED"
    <3>1. m.task = b
      BY <2>1 DEF Update, TypeOK
    <3>2. StatusAfter(tasks[b].status, m.action) = "completed"
      BY <2>1, <3>1 DEF Update, TypeOK, TaskAfter
    <3> QED
      BY <3>1, <3>2 DEF StatusAfter, Message, TaskAction
  <2>3. /\ tasks'[t] = tasks[t] /\ edges' = edges
        /\ resolved' = resolved \cup {e \in edges : e[2] = b}
    BY <2>1, <2>2 DEF Update, TypeOK, EdgesAfter, ResolvedAfter, ResolveDependencies
  <2>4. <<t, b>> \in edges
    BY DEF open
  <2>5. ASSUME NEW c \in Tasks, <<t, c>> \in edges PROVE <<t, c>> \in resolved'
    <3>1. CASE <<t, c>> \in resolved
      BY <2>3, <3>1
    <3>2. CASE <<t, c>> \notin resolved
      <4>1. <<t, c>> \in {e \in open : e[1] = t}
        BY <2>5, <3>2 DEF open
      <4>2. c = b
        BY <4>1
      <4> QED BY <2>3, <2>4, <4>2
    <3> QED BY <3>1, <3>2
  <2> QED
    BY <2>3, <2>4, <2>5 DEF Unblocked, UnblockedTasks
<1> QED
  BY <1>1, TypeCorrect, PTL DEF Spec, CompletionUnblocks
=============================================================================
