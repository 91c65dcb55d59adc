------------------------------ MODULE TaskState ------------------------------
(***************************************************************************)
(* The data of an agent's StateStore (internal/agent/state.go) and what    *)
(* its methods compute, as operators without state, so that one store (in *)
(* StateStore) and a store per agent (in Coordination) share them.         *)
(*                                                                         *)
(* A task name is a member of Tasks, a nick a member of Nicks; NoTask and  *)
(* NoNick stand for Go's empty string.  Priority, WaitingFor, Scope,       *)
(* Progress, Summary, Tags, LastAgent and the timestamps are written and   *)
(* shown, and read by no decision, so TaskInfo leaves them out.            *)
(*                                                                         *)
(* s.dependencies is a Go slice without duplicates that is only ever       *)
(* searched for an edge; it is the set `edges' of pairs <<blocked, by>>,   *)
(* and `resolved' is the subset whose Resolved flag is set.                *)
(***************************************************************************)
CONSTANTS Tasks, Nicks, NoTask, NoNick

ASSUME EmptyNames == NoTask \notin Tasks /\ NoNick \notin Nicks

\* "absent": no entry in s.tasks; "unset": an entry whose Status is "".
TaskStatus == {"absent", "unset", "started", "completed", "blocked",
               "offered", "claimed", "assigned", "yielded"}

TaskInfo == [status : TaskStatus, owner : Nicks \cup {NoNick}]

NewTaskInfo == [status |-> "absent", owner |-> NoNick]

Edge == Tasks \X Tasks

(***************************************************************************)
(* The twelve actions that the dispatcher hands to UpdateTask, as parsed   *)
(* messages.  blockedBy holds the X of the message's #blocked-by-X tags.   *)
(***************************************************************************)
TaskAction == {"STARTED", "COMPLETED", "BLOCKED", "ACKNOWLEDGED", "OFFER",
               "CLAIM", "ASSIGN", "ACCEPT", "DECLINE", "YIELD",
               "CHECKPOINT", "HANDOFF"}

Message == [action     : TaskAction,
            task       : Tasks,
            nick       : Nicks,
            to         : Nicks \cup {NoNick},
            waitingFor : Tasks \cup {NoTask},
            blockedBy  : SUBSET Tasks]

-----------------------------------------------------------------------------
(***************************************************************************)
(* The dependency graph.                                                   *)
(***************************************************************************)
ClosedUnder(G, S) == \A x \in S, y \in Tasks : <<x, y>> \in G => y \in S

\* A path of G, possibly empty, leads from x to y: y is in every set that
\* contains x and that no edge of G leaves.
Reaches(G, x, y) ==
  \A S \in SUBSET Tasks : x \in S /\ ClosedUnder(G, S) => y \in S

\* No non-empty set of tasks in which everyone waits for a member.
Acyclic(G) ==
  \A S \in SUBSET Tasks :
    S # {} => \E x \in S : \A y \in S : <<x, y>> \notin G

\* Mutant of HasCycle: only the direct blockers of `by' are looked at.
HasCycleShallow(open, blocked, by) == blocked = by \/ <<by, blocked>> \in open

\* hasCycleLocked: would the edge blocked -> by close a cycle of unresolved
\* edges?  The search itself is modelled in DependencySearch.
HasCycle(open, blocked, by) == blocked = by \/ Reaches(open, by, blocked)

\* extractDependenciesLocked: the tasks a BLOCKED message names.
Blockers(m) == ({m.waitingFor} \cup m.blockedBy) \ {NoTask}

\* Mutant of AddDependencies: no check for a cycle.
AddUnchecked(edges, resolved, t, blockers) == edges \cup {<<t, b>> : b \in blockers}

(***************************************************************************)
(* addDependencyLocked, for every blocker the message names.  The code     *)
(* adds them one at a time; all of them leave the same task, and whether   *)
(* some blocker reaches that task does not depend on the edges that leave  *)
(* it, so the order is irrelevant and the added edges are those that are   *)
(* neither present nor closing a cycle of the graph as it was before       *)
(* (DependencySearch checks this against the one-at-a-time code).          *)
(***************************************************************************)
AddDependencies(edges, resolved, t, blockers) ==
  edges \cup {<<t, b>> : b \in {x \in blockers :
                 /\ <<t, x>> \notin edges
                 /\ ~HasCycle(edges \ resolved, t, x)}}

\* Mutant of ResolveDependencies: the loop stops at the first edge it resolves.
ResolveFirst(edges, resolved, t) ==
  LET on == {e \in edges \ resolved : e[2] = t}
  IN  resolved \cup (IF on = {} THEN {} ELSE {CHOOSE e \in on : TRUE})

\* resolveDependenciesLocked: every edge on the completed task is resolved.
ResolveDependencies(edges, resolved, t) ==
  resolved \cup {e \in edges : e[2] = t}

-----------------------------------------------------------------------------
(***************************************************************************)
(* UpdateTask: what one message makes of the entry of its task and of the  *)
(* graph.  A message about a task nobody has mentioned creates the entry.  *)
(***************************************************************************)

StatusAfter(s, a) ==
  CASE a \in {"STARTED", "ACCEPT"} -> "started"
    [] a = "COMPLETED" -> "completed"
    [] a = "BLOCKED" -> "blocked"
    [] a = "OFFER" \/ (a = "DECLINE" /\ s = "assigned") -> "offered"
    [] a = "CLAIM" -> "claimed"
    [] a = "ASSIGN" -> "assigned"
    [] a = "YIELD" -> "yielded"
    [] OTHER -> IF s = "absent" THEN "unset" ELSE s

OwnerAfter(o, m) ==
  CASE m.action \in {"CLAIM", "ACCEPT"} -> m.nick
    [] m.action \in {"ASSIGN", "HANDOFF"} -> m.to
    [] m.action \in {"DECLINE", "YIELD"} -> NoNick
    [] OTHER -> o

TaskAfter(info, m) == [status |-> StatusAfter(info.status, m.action),
                       owner  |-> OwnerAfter(info.owner, m)]

EdgesAfter(edges, resolved, m) ==
  IF m.action = "BLOCKED"
  THEN AddDependencies(edges, resolved, m.task, Blockers(m))
  ELSE edges

\* Mutant of ResolvedAfter: a task that is started again blocks again.
StartReopens(edges, resolved, m) ==
  CASE m.action = "COMPLETED" -> ResolveDependencies(edges, resolved, m.task)
    [] m.action = "STARTED"   -> {e \in resolved : e[2] # m.task}
    [] OTHER                  -> resolved

ResolvedAfter(edges, resolved, m) ==
  IF m.action = "COMPLETED"
  THEN ResolveDependencies(edges, resolved, m.task)
  ELSE resolved

\* A store as one value, and UpdateTask on it.
Store == [tasks    : [Tasks -> TaskInfo],
          edges    : SUBSET Edge,
          resolved : SUBSET Edge]

NewStore == [tasks    |-> [t \in Tasks |-> NewTaskInfo],
             edges    |-> {},
             resolved |-> {}]

UpdateTask(st, m) ==
  [tasks    |-> [st.tasks EXCEPT ![m.task] = TaskAfter(@, m)],
   edges    |-> EdgesAfter(st.edges, st.resolved, m),
   resolved |-> ResolvedAfter(st.edges, st.resolved, m)]

\* Mutant of UnblockedTasks: one resolved dependency is enough.
UnblockedByAny(tasks, edges, resolved) ==
  {t \in Tasks : tasks[t].status = "blocked" /\ \E b \in Tasks : <<t, b>> \in resolved}

\* UnblockedTasks: blocked, with at least one edge and none of them open.
UnblockedTasks(tasks, edges, resolved) ==
  {t \in Tasks : /\ tasks[t].status = "blocked"
                 /\ \E b \in Tasks : <<t, b>> \in edges
                 /\ \A b \in Tasks : <<t, b>> \in edges => <<t, b>> \in resolved}
=============================================================================
