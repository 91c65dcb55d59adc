------------------------------ MODULE Dispatch -------------------------------
(***************************************************************************)
(* The dispatcher (internal/agent/protocol.go) and SendProtocolMessage     *)
(* (agent.go) of several agents in one channel, over the stores of         *)
(* CollabStores and the task entries of TaskState, with the access rules,  *)
(* roles and notifications of RoleEngine.                                  *)
(*                                                                         *)
(* Each agent has two threads of control: the application, and the IRC     *)
(* reader, which updates the stores and then runs the handlers, of which   *)
(* the notifier and the role engine send.  A message that an agent sends   *)
(* changes its own stores first and goes out afterwards, so between the    *)
(* two the other thread may do the same.  The stores are disjoint and have *)
(* a mutex each; the calls one message makes on them are one step here.    *)
(*                                                                         *)
(* BLOCKED, its acknowledgements and lost messages are in Coordination.    *)
(***************************************************************************)
EXTENDS CollabStores, RoleEngine, Integers

CONSTANTS Roles,     \* each agent's cfg.Roles
          Rules,     \* each agent's cfg.ACLRules
          NotifyOn,  \* the events each agent's notifier has rules for
          Says,      \* what each agent's application may send
          MaxSends   \* the most messages the applications send

\* What the methods of Agent send for an application.
Sayable ==
       [action : {"STARTED", "COMPLETED", "OFFER", "CLAIM", "ACCEPT", "DECLINE", "YIELD"},
        task : Tasks]
  \cup [action : {"ASSIGN", "HANDOFF"}, task : Tasks, to : Nicks \cup {NoNick}]
  \cup [action : {"CHECKPOINT"}, task : Tasks, progress : Int]
  \cup [action : {"REVIEW-REQUEST"}, task : Tasks, pr : STRING, reviewType : STRING]
  \cup [action : {"REVIEW-COMPLETE"}, task : Tasks, pr : STRING, verdict : STRING]
  \cup [action : {"GATE-CHECK"}, task : Tasks, gate : STRING, status : STRING]
  \cup [action : {"VOTE"}, topic : Topics, choice : STRING]
  \cup [action : {"ESCALATE"}, task : Tasks, to : Nicks \cup {NoNick}, severity : STRING]

Rule == [nicks : SUBSET Nicks, actions : SUBSET STRING, allow : BOOLEAN]

ASSUME DispatchConstants ==
  /\ MaxSends \in Nat
  /\ IsFiniteSet(Nicks)
  /\ Roles \in [Nicks -> Seq(STRING)]
  /\ Rules \in [Nicks -> Seq(Rule)]
  /\ NotifyOn \in [Nicks -> SUBSET STRING]
  /\ Says \in [Nicks -> SUBSET Sayable]

VARIABLES st,       \* each agent's stores
          out,      \* per agent and thread, the message applied and not yet sent
          replies,  \* what an agent's handlers still have to send
          inbox,    \* what the server has relayed and was not read yet
          sends

vars == <<st, out, replies, inbox, sends>>

None == [action |-> "none"]

NewAgent == [f \in DOMAIN NewStores \cup {"tasks", "agents"} |->
               CASE f = "tasks"  -> [t \in Tasks |-> NewTaskInfo]
                 [] f = "agents" -> [n \in Nicks |-> <<>>]
                 [] OTHER        -> NewStores[f]]

Init ==
  /\ st = [a \in Nicks |-> NewAgent]
  /\ out = [a \in Nicks |-> [app |-> None, reader |-> None]]
  /\ replies = [a \in Nicks |-> <<>>]
  /\ inbox = [a \in Nicks |-> <<>>]
  /\ sends = 0

-----------------------------------------------------------------------------
\* UpdateTask and UpdateAgentStatus, for the actions that change a task.
UpdateState(s, m) ==
  IF m.action \in TaskAction
  THEN [s EXCEPT !.tasks[m.task] = TaskAfter(@, m), !.agents[m.nick] = m.task]
  ELSE s

\* Mutant of UpdateLocalState: an agent waits for the echo of its message, and
\* the dispatcher skips it.
AwaitEcho(s, m) == UpdateState(s, m)

\* updateLocalState, for a message of the agent's own.
UpdateLocalState(s, m) == UpdateCoordinationStores(UpdateState(s, m), m)

\* The server relays m to everyone in the channel but its sender.
Relay(a, m) ==
  inbox' = [b \in Nicks |-> IF b = a THEN inbox[b] ELSE Append(inbox[b], m)]

\* SendProtocolMessage in thread th, up to updateLocalState.
Apply(a, th, m) ==
  /\ st' = [st EXCEPT ![a] = UpdateLocalState(@, From(a, m))]
  /\ out' = [out EXCEPT ![a][th] = From(a, m)]

\* The application calls a method of Agent; a message that the agent's own rules
\* deny is an error and changes nothing.
AppSends(a) ==
  /\ sends < MaxSends
  /\ out[a].app = None
  /\ \E m \in Says[a] : Check(Rules[a], a, m.action) /\ Apply(a, "app", m)
  /\ sends' = sends + 1
  /\ UNCHANGED <<replies, inbox>>

\* The rest of SendProtocolMessage: client.SendMessage.
Transmit(a, th) ==
  /\ out[a][th] # None
  /\ Relay(a, out[a][th])
  /\ out' = [out EXCEPT ![a][th] = None]
  /\ UNCHANGED <<st, replies, sends>>

\* handleMessage, which ignores text, the agent's own messages and what its rules
\* deny, updates the stores, and calls the handlers in the order of a Go map.
Receive(a) ==
  /\ inbox[a] # <<>>
  /\ replies[a] = <<>> /\ out[a].reader = None
  /\ LET m == Head(inbox[a])
     IN  IF m.action # "TEXT" /\ m.nick # a /\ Check(Rules[a], m.nick, m.action)
         THEN /\ st' = [st EXCEPT ![a] = UpdateCoordinationStores(UpdateState(@, m), m)]
              /\ \E order \in {<<RoleAnswers(Roles[a], m), Notifications(NotifyOn[a], m)>>,
                               <<Notifications(NotifyOn[a], m), RoleAnswers(Roles[a], m)>>} :
                   replies' = [replies EXCEPT ![a] = order[1] \o order[2]]
         ELSE UNCHANGED <<st, replies>>
  /\ inbox' = [inbox EXCEPT ![a] = Tail(@)]
  /\ UNCHANGED <<out, sends>>

\* The role engine's handler sends an answer with SendProtocolMessage, whose
\* error it ignores.
Answer(a) ==
  /\ replies[a] # <<>> /\ out[a].reader = None
  /\ LET m == Head(replies[a])
     IN  /\ m.action # "TEXT"
         /\ IF Check(Rules[a], a, m.action) THEN Apply(a, "reader", m)
            ELSE UNCHANGED <<st, out>>
  /\ replies' = [replies EXCEPT ![a] = Tail(@)]
  /\ UNCHANGED <<inbox, sends>>

\* The notifier sends its text directly, past the rules and the stores.
Notify(a) ==
  /\ replies[a] # <<>> /\ out[a].reader = None
  /\ Head(replies[a]).action = "TEXT"
  /\ Relay(a, From(a, Head(replies[a])))
  /\ replies' = [replies EXCEPT ![a] = Tail(@)]
  /\ UNCHANGED <<st, out, sends>>

\* ConsensusStore.ResolveEscalation, called by the application.
Resolve(a, t) ==
  /\ ResolveEscalation(st[a].escalations, t) # st[a].escalations
  /\ st' = [st EXCEPT ![a].escalations = ResolveEscalation(@, t)]
  /\ UNCHANGED <<out, replies, inbox, sends>>

Next ==
  \E a \in Nicks :
       \/ AppSends(a)
       \/ \E th \in {"app", "reader"} : Transmit(a, th)
       \/ Receive(a)
       \/ Answer(a)
       \/ Notify(a)
       \/ \E t \in Tasks : Resolve(a, t)

\* Readers and calls under way go on; nobody has to say anything.
Fairness ==
  \A a \in Nicks :
    /\ WF_vars(Receive(a) \/ Answer(a) \/ Notify(a) \/ Transmit(a, "reader"))
    /\ WF_vars(Transmit(a, "app"))

Spec == Init /\ [][Next]_vars /\ Fairness

-----------------------------------------------------------------------------
\* Everything said was heard and answered.
Quiet ==
  \A a \in Nicks : /\ out[a] = [app |-> None, reader |-> None]
                    /\ replies[a] = <<>> /\ inbox[a] = <<>>

\* The first of agent a's rules that names nick n and the action denies it.
Denied(a, n, action) ==
  \E i \in DOMAIN Rules[a] :
    LET r(j) == n \in Rules[a][j].nicks /\ (action \in Rules[a][j].actions \/ Rules[a][j].actions = {})
    IN  ~Rules[a][i].allow /\ r(i) /\ \A j \in 1..(i - 1) : ~r(j)

\* The actions that take a task to this status.
Reaching(status) ==
  {x \in TaskAction : \E old \in TaskStatus \ {status} : StatusAfter(old, x) = status}

\* What agent a's stores s hold was written by a message its rules do not deny: each
\* record by one of its author's, a claim and an owner by one that names them, the
\* status of a task by one that takes it there.
Authorized(a, s) ==
  LET May(n, actions) == \E x \in actions : ~Denied(a, n, x)
      SomeMay(actions) == \E n \in Nicks : May(n, actions)
  IN  /\ \A n \in Nicks :
           /\ s.agents[n] # <<>> => May(n, TaskAction)
           /\ \A p \in Topics : s.votes[p][n] # "none" => May(n, {"VOTE"})
      /\ \A e \in ToSet(s.escalations) : May(e.by, {"ESCALATE"})
      /\ \A t \in Tasks :
           /\ \A c \in ToSet(s.checkpoints[t]) : May(c.nick, {"CHECKPOINT"})
           /\ \A g \in ToSet(s.gates[t]) : May(g.checkedBy, {"GATE-CHECK"})
           /\ \A r \in ToSet(s.reviews[t]) :
                /\ May(r.by, {"REVIEW-REQUEST"})
                /\ r.reviewer # NoNick => May(r.reviewer, {"REVIEW-COMPLETE"})
           /\ LET h == s.handoffs[t]
              IN  /\ h # NoHandoff => May(h.from, {"HANDOFF"})
                  /\ h.accepted => May(h.to, {"ACCEPT"})
           /\ LET o == s.offers[t]
              IN  /\ o.offered => SomeMay({"OFFER", "ASSIGN"})
                  /\ o.claimedBy # NoNick => May(o.claimedBy, {"CLAIM"}) \/ SomeMay({"ASSIGN"})
           /\ LET i == s.tasks[t]
              IN  /\ i.status # "absent" => SomeMay(Reaching(i.status))
                  /\ i.owner # NoNick => \/ May(i.owner, {"CLAIM", "ACCEPT"})
                                         \/ SomeMay({"ASSIGN", "HANDOFF"})

\* What an agent's rules deny leaves no trace in any of its stores, whether somebody
\* else says it, the application tries to, or one of the agent's own roles answers
\* with it; and what its own rules deny it to say goes out to nobody.
DeniedLeavesNoTrace ==
  \A a \in Nicks :
    /\ Authorized(a, st[a])
    /\ \A m \in ToSet(inbox[a]) : m.action # "TEXT" => ~Denied(m.nick, m.nick, m.action)

\* Agent v answers a review of this type that n asks for: it has the role, and its
\* rules let it hear the request and send a verdict.
Reviews(v, n, reviewType) ==
  /\ v # n
  /\ \/ reviewType = "architecture" /\ "architecture-reviewer" \in ToSet(Roles[v])
     \/ reviewType = "security" /\ "security-reviewer" \in ToSet(Roles[v])
  /\ Check(Rules[v], n, "REVIEW-REQUEST") /\ Check(Rules[v], v, "REVIEW-COMPLETE")

\* Somebody whose verdicts agent a hears answers the review.  (A verdict without a
\* pull request answers any review of its task.)
HasReviewer(a, r) ==
  /\ r.pr # ""
  /\ \E v \in Nicks : /\ Reviews(v, r.by, r.reviewType)
                      /\ Check(Rules[a], v, "REVIEW-COMPLETE")

\* When the channel is quiet and each review that was asked of a task has a reviewer,
\* an agent sees none of them pending: verdicts of several reviewers cross with new
\* requests, are applied in different orders by different agents, and each goes to
\* the latest pending request whatever its type, but none is spent on a request that
\* was answered already.
ReviewsAreSettled ==
  Quiet => \A a \in Nicks, t \in Tasks :
             LET asked == ToSet(st[a].reviews[t])
             IN  (\A r \in asked : HasReviewer(a, r)) => \A r \in asked : r.verdict # ""

Unfiltered == {a \in Nicks : Rules[a] = <<>>}

\* The threads that check a gate of the task: applications, and the readers of
\* agents that do so on a review request.
Checkers(t, g) ==
  ({a \in Nicks : \E m \in Says[a] : m.action = "GATE-CHECK" /\ m.task = t /\ m.gate = g}
     \X {"app"})
  \cup ({a \in Nicks : g = "monitoring" /\ "monitoring-guardian" \in ToSet(Roles[a])}
          \X {"reader"})

Gates == {"monitoring"} \cup
         {m.gate : m \in {x \in UNION {Says[a] : a \in Nicks} : x.action = "GATE-CHECK"}}

OneChecker(t) == \A g \in Gates : \A x, y \in Checkers(t, g) : x = y

\* When the channel is quiet, the agents without rules have the same votes, counts
\* of reviews, escalated tasks and, for a task whose gates have one checker each,
\* the same gate results, although each agent applies its own messages before the
\* others do.
StoresAgree ==
  Quiet =>
    \A a, b \in Unfiltered :
      /\ st[a].votes = st[b].votes
      /\ {st[a].escalations[i].task : i \in DOMAIN st[a].escalations}
           = {st[b].escalations[i].task : i \in DOMAIN st[b].escalations}
      /\ \A t \in Tasks :
           /\ Summary(st[a], t).total = Summary(st[b], t).total
           /\ OneChecker(t) => Summary(st[a], t).allGatesPassed
                                 = Summary(st[b], t).allGatesPassed

\* Reactions die out: notifications are no messages to react to, and no cycle of
\* roles keeps the agents answering each other.
ReactionsEnd == []<>Quiet
=============================================================================
