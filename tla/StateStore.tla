----------------------------- MODULE StateStore ------------------------------
(***************************************************************************)
(* One agent's StateStore (internal/agent/state.go): the tasks, the        *)
(* dependency edges.  Every method takes s.mu, so each call is one step;   *)
(* the messages come from the dispatcher (received ones) and from          *)
(* SendProtocolMessage (the agent's own) in any order.  UpdateAgentStatus, *)
(* which touches s.agents alone, is in Dispatch.  MaxBlockers bounds the   *)
(* blockers one BLOCKED message names.                                     *)
(***************************************************************************)
EXTENDS TaskState, FiniteSets, Naturals

CONSTANTS Kinds,        \* the actions that occur in the messages
          MaxBlockers   \* the most #blocked-by tags one message carries

ASSUME StateStoreConstants == Kinds \subseteq TaskAction /\ MaxBlockers \in Nat

VARIABLES tasks,     \* s.tasks
          edges,     \* s.dependencies, as pairs <<Blocked, BlockedBy>>
          resolved   \* those of s.dependencies whose Resolved is true

vars == <<tasks, edges, resolved>>

open == edges \ resolved

Unblocked == UnblockedTasks(tasks, edges, resolved)

TypeOK ==
  /\ tasks \in [Tasks -> TaskInfo]
  /\ edges \subseteq Edge
  /\ resolved \subseteq edges

Init ==
  /\ tasks = [t \in Tasks |-> NewTaskInfo]
  /\ edges = {}
  /\ resolved = {}

-----------------------------------------------------------------------------
\* UpdateTask, as the dispatcher calls it.
Update(m) ==
  /\ m.action \in Kinds
  /\ tasks' = [tasks EXCEPT ![m.task] = TaskAfter(@, m)]
  /\ edges' = EdgesAfter(edges, resolved, m)
  /\ resolved' = ResolvedAfter(edges, resolved, m)

\* A message without waiting-for or blocked-by tags, to nobody.
Plain(a, t, n) == [action |-> a, task |-> t, nick |-> n, to |-> NoNick,
                   waitingFor |-> NoTask, blockedBy |-> {}]

Started(t, n)      == Update(Plain("STARTED", t, n))
Completed(t, n)    == Update(Plain("COMPLETED", t, n))
Acknowledged(t, n) == Update(Plain("ACKNOWLEDGED", t, n))
Offer(t, n)        == Update(Plain("OFFER", t, n))
Claim(t, n)        == Update(Plain("CLAIM", t, n))
Accept(t, n)       == Update(Plain("ACCEPT", t, n))
Decline(t, n)      == Update(Plain("DECLINE", t, n))
Yield(t, n)        == Update(Plain("YIELD", t, n))
Checkpoint(t, n)   == Update(Plain("CHECKPOINT", t, n))
Assign(t, n, to)   == Update([Plain("ASSIGN", t, n) EXCEPT !.to = to])
Handoff(t, n, to)  == Update([Plain("HANDOFF", t, n) EXCEPT !.to = to])

Blocked(t, n, wf, tags) ==
  Update([Plain("BLOCKED", t, n) EXCEPT !.waitingFor = wf, !.blockedBy = tags])

\* AddDependency: an edge added by a call rather than by a message.
AddDependency(t, b) ==
  /\ edges' = AddDependencies(edges, resolved, t, {b})
  /\ UNCHANGED <<tasks, resolved>>

\* ASSIGN and HANDOFF may say to nobody: neither the methods of Agent that send
\* them nor the parser asks for a `to'.
Next ==
  \/ \E t \in Tasks, n \in Nicks :
       \/ Started(t, n)
       \/ Completed(t, n)
       \/ Acknowledged(t, n)
       \/ Offer(t, n)
       \/ Claim(t, n)
       \/ Accept(t, n)
       \/ Decline(t, n)
       \/ Yield(t, n)
       \/ Checkpoint(t, n)
  \/ \E t \in Tasks, n \in Nicks, to \in Nicks \cup {NoNick} :
       \/ Assign(t, n, to)
       \/ Handoff(t, n, to)
  \/ \E t \in Tasks, n \in Nicks, wf \in Tasks \cup {NoTask} :
       \E tags \in SUBSET Tasks :
         /\ Cardinality(tags) <= MaxBlockers
         /\ Blocked(t, n, wf, tags)
  \/ \E t, b \in Tasks : AddDependency(t, b)

Spec == Init /\ [][Next]_vars

-----------------------------------------------------------------------------
\* Unresolved dependencies never form a cycle, whatever the order in which
\* BLOCKED, COMPLETED and AddDependency arrive: hasCycleLocked looks at the
\* unresolved edges only, and resolved edges are never reopened.
NoOpenCycle == Acyclic(open)

\* Tasks never all wait for each other: as long as a dependency is open, some
\* open blocker waits for nobody and can be completed.
SomeBlockerCanRun ==
  open # {} => \E e \in open : \A b \in Tasks : <<e[2], b>> \notin open

\* A task that UnblockedTasks reports keeps being reported until something is
\* said about that task itself: messages about other tasks, new edges between
\* them and completions never take the report back.  (The UnblockNotifier
\* uses the answer after it released the lock.)
UnblockedIsStable ==
  [][\A t \in Unblocked :
       tasks'[t] = tasks[t] /\ {e \in edges' : e[1] = t} = {e \in edges : e[1] = t}
         => t \in Unblocked']_vars

\* When a task turns completed, every blocked task that waited for it alone is
\* reported by UnblockedTasks in the same step.
CompletionUnblocks ==
  [][\A b \in Tasks :
       tasks[b].status # "completed" /\ tasks'[b].status = "completed"
         => \A t \in Tasks \ {b} :
              /\ tasks[t].status = "blocked"
              /\ {e \in open : e[1] = t} = {<<t, b>>}
              => t \in Unblocked']_vars

=============================================================================
