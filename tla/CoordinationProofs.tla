------------------------- MODULE CoordinationProofs --------------------------
(***************************************************************************)
(* What Coordination guarantees for any agents, tasks, announcements and   *)
(* losses.  The safety properties use the steps of Spec alone.             *)
(***************************************************************************)
EXTENDS Coordination, DependencySearch, DataLemmas

Reader ==
  {Idle, Handling} \cup [pc : {"completed"}, by : Tasks]
         \cup [pc : {"notifying"}, by : Tasks, todo : SUBSET Tasks]

\* What a thread has applied and not sent is about a task it announces.
TypeInv ==
  /\ st \in [Nicks -> Store]
  /\ notified \in [Nicks -> SUBSET Tasks]
  /\ out \in [Senders -> Message \cup {Idle}]
  /\ reader \in [Nicks -> Reader]
  /\ inbox \in [Nicks -> Seq(Message)]
  /\ acks \in [Nicks -> [Tasks -> Nat]]
  /\ losses \in Nat
  /\ \A s \in Senders : out[s] # Idle => s \in Announcers[out[s].task]

\* The acknowledgement that agent a sends about task t.
Ack(a, t) == [action |-> "ACKNOWLEDGED", task |-> t, nick |-> a, to |-> NoNick,
              waitingFor |-> NoTask, blockedBy |-> {}]

-----------------------------------------------------------------------------
(***************************************************************************)
(* The store and the messages.                                             *)
(***************************************************************************)

LEMMA AckType ==
  ASSUME NEW a \in Nicks, NEW t \in Tasks
  PROVE  Ack(a, t) \in Message
BY DEF Ack, Message, TaskAction

\* A message keeps the entry of its task a TaskInfo, and the entry is there
\* afterwards.
LEMMA TaskAfterType ==
  ASSUME NEW info \in TaskInfo, NEW m \in Message
  PROVE  /\ TaskAfter(info, m) \in TaskInfo
         /\ TaskAfter(info, m).status # "absent"
<1>1. /\ StatusAfter(info.status, m.action) \in TaskStatus
      /\ StatusAfter(info.status, m.action) # "absent"
  BY DEF StatusAfter, TaskInfo, TaskStatus, Message, TaskAction
<1>2. OwnerAfter(info.owner, m) \in Nicks \cup {NoNick}
  BY DEF OwnerAfter, TaskInfo, Message, TaskAction
<1> QED
  BY <1>1, <1>2 DEF TaskAfter, TaskInfo

\* A message changes the entry of its own task, adds edges that leave that task
\* and takes no resolution back.
LEMMA UpdateTaskEffect ==
  ASSUME NEW s \in Store, NEW m \in Message
  PROVE  /\ UpdateTask(s, m) \in Store
         /\ UpdateTask(s, m).tasks[m.task] = TaskAfter(s.tasks[m.task], m)
         /\ \A t \in Tasks \ {m.task} : UpdateTask(s, m).tasks[t] = s.tasks[t]
         /\ \A t \in Tasks \ {m.task}, b \in Tasks :
              <<t, b>> \in UpdateTask(s, m).edges => <<t, b>> \in s.edges
         /\ s.resolved \subseteq UpdateTask(s, m).resolved
<1> DEFINE u == UpdateTask(s, m)
<1>1. m.task \in Tasks /\ Blockers(m) \in SUBSET Tasks
  BY DEF Message, Blockers
<1>2. s.tasks \in [Tasks -> TaskInfo] /\ s.edges \in SUBSET Edge /\ s.resolved \in SUBSET Edge
  BY DEF Store
<1>3. /\ u.tasks = [s.tasks EXCEPT ![m.task] = TaskAfter(@, m)]
      /\ u.edges = EdgesAfter(s.edges, s.resolved, m)
      /\ u.resolved = ResolvedAfter(s.edges, s.resolved, m)
  BY DEF UpdateTask
<1>4. /\ u.tasks \in [Tasks -> TaskInfo]
      /\ u.tasks[m.task] = TaskAfter(s.tasks[m.task], m)
      /\ \A t \in Tasks \ {m.task} : u.tasks[t] = s.tasks[t]
  <2>1. TaskAfter(s.tasks[m.task], m) \in TaskInfo
    BY <1>1, <1>2, TaskAfterType
  <2> QED BY <1>1, <1>2, <1>3, <2>1
<1>5. /\ u.edges \in SUBSET Edge
      /\ \A t \in Tasks \ {m.task}, b \in Tasks : <<t, b>> \in u.edges => <<t, b>> \in s.edges
  <2> DEFINE N == {x \in Blockers(m) : /\ <<m.task, x>> \notin s.edges
                                       /\ ~HasCycle(s.edges \ s.resolved, m.task, x)}
  <2>1. N \subseteq Tasks
    BY <1>1
  <2>2. u.edges = s.edges \/ u.edges = s.edges \cup {<<m.task, b>> : b \in N}
    BY <1>3 DEF EdgesAfter, AddDependencies
  <2> HIDE DEF N, u
  <2> QED BY <1>1, <1>2, <2>1, <2>2 DEF Edge
<1>6. u.resolved \in SUBSET Edge /\ s.resolved \subseteq u.resolved
  BY <1>2, <1>3 DEF ResolvedAfter, ResolveDependencies
<1>7. u = [tasks |-> u.tasks, edges |-> u.edges, resolved |-> u.resolved]
  BY DEF UpdateTask
<1> HIDE DEF u
<1>8. u \in Store
  BY <1>4, <1>5, <1>6, <1>7 DEF Store
<1> QED BY <1>4, <1>5, <1>6, <1>8 DEF u

\* An announcement is a message about a task that its sender announces.
LEMMA AnnouncementType ==
  ASSUME NEW a \in Nicks, NEW w \in Threads, NEW m \in Announcements(a, w)
  PROVE  m \in Message /\ m # Idle /\ <<a, w>> \in Announcers[m.task]
<1>1. m \in [action : Kinds[w], task : Tasks, nick : {a}, to : Nicks \cup {NoNick},
             waitingFor : Tasks \cup {NoTask}, blockedBy : {{}}]
  BY DEF Announcements
<1>2. m \in Message
  BY <1>1, CoordinationConstants DEF Message
<1> QED BY <1>1, <1>2 DEF Announcements, Idle, Message

-----------------------------------------------------------------------------
(***************************************************************************)
(* Types.                                                                  *)
(***************************************************************************)

\* What is relayed is appended to the inboxes of the others.
LEMMA RelayType ==
  ASSUME TypeInv, NEW a \in Nicks, NEW m \in Message, Relay(a, m)
  PROVE  inbox' \in [Nicks -> Seq(Message)]
BY DEF TypeInv, Relay

LEMMA HeadType ==
  ASSUME TypeInv, NEW a \in Nicks, inbox[a] # <<>>
  PROVE  Head(inbox[a]) \in Message /\ Tail(inbox[a]) \in Seq(Message)
BY DEF TypeInv

LEMMA ReaderTypes ==
  /\ Idle \in Reader /\ Idle.pc = "idle"
  /\ Handling \in Reader /\ Handling.pc = "handling"
  /\ \A t \in Tasks : Completing(t) \in Reader /\ Completing(t).pc = "completed"
  /\ \A t \in Tasks, S \in SUBSET Tasks : /\ Notifying(t, S) \in Reader
                                          /\ Notifying(t, S).pc = "notifying"
                                          /\ Notifying(t, S).todo = S
  /\ \A r \in Reader : r.pc = "completed" => r.by \in Tasks
  /\ \A r \in Reader : r.pc = "notifying" => r.by \in Tasks /\ r.todo \in SUBSET Tasks
BY DEF Reader, Idle, Handling, Completing, Notifying

\* One turn of the notifier's loop, for task t.
Acks(a, t) ==
  /\ reader[a].pc = "notifying" /\ t \in reader[a].todo
  /\ reader' = [reader EXCEPT ![a] = IF reader[a].todo \ {t} = {} THEN Handling
                             ELSE Notifying(reader[a].by, reader[a].todo \ {t})]
  /\ \/ t \in notified[a] /\ UNCHANGED <<notified, inbox, acks>>
     \/ /\ t \notin notified[a]
        /\ notified' = [notified EXCEPT ![a] = @ \cup {t}]
        /\ acks' = [acks EXCEPT ![a] = [acks[a] EXCEPT ![t] = acks[a][t] + 1]]
        /\ Relay(a, Ack(a, t))
  /\ UNCHANGED <<st, out, sends, losses>>

LEMMA AcknowledgeCases ==
  ASSUME TypeInv, NEW a \in Nicks, Acknowledge(a)
  PROVE  \E t \in Tasks : Acks(a, t)
<1>1. reader[a].pc = "notifying" /\ reader[a].todo \in SUBSET Tasks
  BY ReaderTypes DEF Acknowledge, TypeInv
<1>2. PICK t \in reader[a].todo :
        /\ reader' = [reader EXCEPT ![a] = IF reader[a].todo \ {t} = {} THEN Handling
                                   ELSE Notifying(reader[a].by, reader[a].todo \ {t})]
        /\ \/ t \in notified[a] /\ UNCHANGED <<notified, inbox, acks>>
           \/ /\ t \notin notified[a]
              /\ notified' = [notified EXCEPT ![a] = @ \cup {t}]
              /\ acks' = [acks EXCEPT ![a][t] = @ + 1]
              /\ Relay(a, Ack(a, t))
  BY DEF Acknowledge, Ack
<1>3. acks' = [acks EXCEPT ![a][t] = @ + 1]
        => acks' = [acks EXCEPT ![a] = [acks[a] EXCEPT ![t] = acks[a][t] + 1]]
  BY DEF TypeInv
<1> QED BY <1>1, <1>2, <1>3 DEF Acknowledge, Acks

\* A thread of an agent, as a pair.
LEMMA SenderPair ==
  ASSUME NEW a \in Nicks, NEW w \in Threads
  PROVE  <<a, w>> \in Senders /\ <<a, w>>[1] = a
BY DEF Senders

\* What SendProtocolMessage leaves alone, and when nothing is lost.
LEMMA SendersLeave ==
  ASSUME NEW a \in Nicks, NEW w \in Threads,
         ApplyOwn(a, w) \/ SendOwn(a, w) \/ LoseSend(a, w)
  PROVE  /\ reader' = reader /\ acks' = acks /\ notified' = notified
         /\ losses' = IF LoseSend(a, w) THEN losses + 1 ELSE losses
<1>1. CASE ApplyOwn(a, w) /\ ~LoseSend(a, w)
  BY <1>1 DEF ApplyOwn
<1>2. CASE SendOwn(a, w) /\ ~LoseSend(a, w)
  BY <1>2 DEF SendOwn
<1>3. CASE LoseSend(a, w)
  BY <1>3 DEF LoseSend
<1> QED BY <1>1, <1>2, <1>3

LEMMA TypeStep ==
  ASSUME TypeInv, [Next]_vars
  PROVE  TypeInv'
<1>1. ASSUME NEW a \in Nicks, NEW w \in Threads, ApplyOwn(a, w) PROVE TypeInv'
  <2>1. PICK m \in Announcements(a, w) : /\ st' = [st EXCEPT ![a] = UpdateTask(@, m)]
                                         /\ out' = [out EXCEPT ![<<a, w>>] = m]
    BY <1>1 DEF ApplyOwn
  <2>2. m \in Message /\ <<a, w>> \in Announcers[m.task]
    BY AnnouncementType
  <2>3. UpdateTask(st[a], m) \in Store
    BY <2>2, UpdateTaskEffect DEF TypeInv
  <2>4. PICK g \in Senders : g = <<a, w>>
    BY DEF Senders
  <2>5. /\ out' \in [Senders -> Message \cup {Idle}]
        /\ \A s \in Senders : out'[s] # Idle => s \in Announcers[out'[s].task]
    BY <2>1, <2>2, <2>4 DEF TypeInv
  <2> QED BY <1>1, <2>1, <2>3, <2>5 DEF ApplyOwn, TypeInv
<1>2. ASSUME NEW a \in Nicks, NEW w \in Threads, SendOwn(a, w) PROVE TypeInv'
  <2>1. PICK g \in Senders : g = <<a, w>>
    BY DEF Senders
  <2>2. out[g] \in Message
    BY <1>2, <2>1 DEF SendOwn, TypeInv
  <2>3. inbox' \in [Nicks -> Seq(Message)]
    BY <1>2, <2>1, <2>2, RelayType DEF SendOwn
  <2>4. /\ out' \in [Senders -> Message \cup {Idle}]
        /\ \A s \in Senders : out'[s] # Idle => s \in Announcers[out'[s].task]
    BY <1>2, <2>1 DEF SendOwn, TypeInv
  <2> QED BY <1>2, <2>3, <2>4 DEF SendOwn, TypeInv
<1>3. ASSUME NEW a \in Nicks, Receive(a) PROVE TypeInv'
  <2> DEFINE m == Head(inbox[a])
  <2>1. m \in Message /\ Tail(inbox[a]) \in Seq(Message)
    BY <1>3, HeadType DEF Receive
  <2>2. UpdateTask(st[a], m) \in Store
    BY <2>1, UpdateTaskEffect DEF TypeInv
  <2>3. (IF m.action = "COMPLETED" THEN Completing(m.task) ELSE Handling) \in Reader
    BY <2>1, ReaderTypes DEF Message
  <2>4. /\ st' = [st EXCEPT ![a] = UpdateTask(@, m)]
        /\ reader' = [reader EXCEPT ![a] = IF m.action = "COMPLETED" THEN Completing(m.task) ELSE Handling]
        /\ inbox' = [inbox EXCEPT ![a] = Tail(@)]
        /\ UNCHANGED <<notified, out, acks, sends, losses>>
    BY <1>3 DEF Receive
  <2> HIDE DEF m
  <2> QED BY <2>1, <2>2, <2>3, <2>4 DEF TypeInv
<1>4. ASSUME NEW a \in Nicks, CheckUnblocked(a) PROVE TypeInv'
  <2>1. reader[a].by \in Tasks
    BY <1>4, ReaderTypes DEF CheckUnblocked, TypeInv
  <2>2. Unblocked(st[a]) \in SUBSET Tasks
    BY DEF Unblocked, UnblockedTasks
  <2>3. reader'[a] \in Reader
    BY <1>4, <2>1, <2>2, ReaderTypes DEF CheckUnblocked, TypeInv
  <2> QED BY <1>4, <2>3 DEF CheckUnblocked, TypeInv
<1>5. ASSUME NEW a \in Nicks, Acknowledge(a) PROVE TypeInv'
  <2>1. PICK t \in Tasks : Acks(a, t)
    BY <1>5, AcknowledgeCases
  <2>2. reader[a].by \in Tasks /\ reader[a].todo \in SUBSET Tasks
    BY <2>1, ReaderTypes DEF Acks, TypeInv
  <2>3. reader' \in [Nicks -> Reader]
    <3>1. reader'[a] \in Reader
      BY <2>1, <2>2, ReaderTypes DEF Acks, TypeInv
    <3> QED BY <2>1, <3>1 DEF Acks, TypeInv
  <2>4. inbox' \in [Nicks -> Seq(Message)]
    BY <2>1, AckType, RelayType DEF Acks, TypeInv
  <2>5. notified' \in [Nicks -> SUBSET Tasks]
    <3>1. notified[a] \cup {t} \in SUBSET Tasks
      BY DEF TypeInv
    <3>2. notified' = notified \/ notified' = [notified EXCEPT ![a] = notified[a] \cup {t}]
      BY <2>1 DEF Acks
    <3> QED BY <3>1, <3>2 DEF TypeInv
  <2>6. acks' \in [Nicks -> [Tasks -> Nat]]
    <3>1. [acks[a] EXCEPT ![t] = acks[a][t] + 1] \in [Tasks -> Nat]
      BY DEF TypeInv
    <3> QED BY <2>1, <3>1 DEF Acks, TypeInv
  <2> QED BY <2>1, <2>3, <2>4, <2>5, <2>6 DEF Acks, TypeInv
<1>6. ASSUME NEW a \in Nicks, LoseInbox(a) PROVE TypeInv'
  BY <1>6 DEF LoseInbox, TypeInv
<1>7. ASSUME NEW a \in Nicks, NEW w \in Threads, LoseSend(a, w) PROVE TypeInv'
  <2>1. PICK g \in Senders : g = <<a, w>>
    BY DEF Senders
  <2>2. /\ out' \in [Senders -> Message \cup {Idle}]
        /\ \A s \in Senders : out'[s] # Idle => s \in Announcers[out'[s].task]
    BY <1>7, <2>1 DEF LoseSend, TypeInv
  <2> QED BY <1>7, <2>2 DEF LoseSend, TypeInv
<1>8. ASSUME NEW a \in Nicks, EndHandlers(a) PROVE TypeInv'
  BY <1>8, ReaderTypes DEF EndHandlers, TypeInv
<1>9. CASE UNCHANGED vars
  BY <1>9 DEF vars, TypeInv
<1> QED BY <1>1, <1>2, <1>3, <1>4, <1>5, <1>6, <1>7, <1>8, <1>9 DEF Next, Settled

\* The stores, queues and counters of the agents keep their types.
THEOREM CoordinationTypes == Spec => []TypeInv
<1>1. Init => TypeInv
  <2> SUFFICES ASSUME Init PROVE TypeInv
    OBVIOUS
  <2>1. NewStore \in Store
    BY DEF NewStore, Store, NewTaskInfo, TaskInfo, TaskStatus
  <2> QED BY <2>1, ReaderTypes DEF Init, TypeInv
<1> QED BY <1>1, TypeStep, PTL DEF Spec

-----------------------------------------------------------------------------
(***************************************************************************)
(* The notifier.                                                           *)
(***************************************************************************)

\* The notified set remembers exactly what was acknowledged.
AckInv ==
  \A a \in Nicks, t \in Tasks : acks[a][t] = IF t \in notified[a] THEN 1 ELSE 0

\* OneAckPerTask, for any agents, tasks and losses: OnTaskCompleted tests and
\* sets un.notified in one critical section and never clears it (coordinator.go),
\* so a task is acknowledged once however often its blockers complete.
THEOREM AcksAreUnique == Spec => []OneAckPerTask
<1>1. Init => AckInv
  BY DEF Init, AckInv
<1>2. TypeInv /\ AckInv /\ [Next]_vars => AckInv'
  <2> SUFFICES ASSUME TypeInv, AckInv, [Next]_vars PROVE AckInv'
    OBVIOUS
  <2>1. ASSUME NEW a \in Nicks, Acknowledge(a) PROVE AckInv'
    <3>1. PICK t \in Tasks : Acks(a, t)
      BY <2>1, AcknowledgeCases
    <3>2. CASE UNCHANGED <<notified, acks>>
      BY <3>2 DEF AckInv
    <3>3. CASE /\ t \notin notified[a]
               /\ notified' = [notified EXCEPT ![a] = @ \cup {t}]
               /\ acks' = [acks EXCEPT ![a] = [acks[a] EXCEPT ![t] = acks[a][t] + 1]]
      <4>1. /\ \A b \in Nicks \ {a} : notified'[b] = notified[b] /\ acks'[b] = acks[b]
            /\ notified'[a] = notified[a] \cup {t}
            /\ acks'[a] = [acks[a] EXCEPT ![t] = acks[a][t] + 1]
        BY <3>3 DEF TypeInv
      <4>2. \A u \in Tasks : acks'[a][u] = IF u = t THEN acks[a][t] + 1 ELSE acks[a][u]
        BY <4>1 DEF TypeInv
      <4> QED BY <3>3, <4>1, <4>2 DEF AckInv, TypeInv
    <3> QED BY <3>1, <3>2, <3>3 DEF Acks
  <2>2. CASE UNCHANGED <<notified, acks>>
    BY <2>2 DEF AckInv
  <2> QED BY <2>1, <2>2, SendersLeave DEF Next, vars, Receive, CheckUnblocked,
             EndHandlers, LoseInbox, Settled
<1>3. AckInv => OneAckPerTask
  BY DEF AckInv, OneAckPerTask
<1> QED BY <1>1, <1>2, <1>3, CoordinationTypes, PTL DEF Spec

\* FoundIsAcknowledged, for any agents and tasks: the loop of OnTaskCompleted ends
\* with its last task, which was notified before or is notified now, and what it
\* did before is not undone; the application cannot end it.
THEOREM FoundAreAcknowledged == Spec => FoundIsAcknowledged
<1> DEFINE Ends ==
      \A a \in Nicks :
        reader[a].pc = "notifying" /\ reader'[a].pc # "notifying"
          => reader[a].todo \subseteq notified'[a]
<1>1. TypeInv /\ [Next]_vars => [Ends]_vars
  <2> SUFFICES ASSUME TypeInv, [Next]_vars, NEW a \in Nicks,
                      reader[a].pc = "notifying", reader'[a].pc # "notifying"
               PROVE  reader[a].todo \subseteq notified'[a]
    OBVIOUS
  <2>1. reader'[a] # reader[a]
    BY ReaderTypes
  <2>2. Acknowledge(a)
    <3>1. ASSUME NEW b \in Nicks,
                 \/ Receive(b) \/ CheckUnblocked(b) \/ EndHandlers(b)
                 \/ Acknowledge(b) /\ b # a
          PROVE  FALSE
      <4>1. b # a
        BY <3>1, ReaderTypes DEF Receive, CheckUnblocked, EndHandlers
      <4>2. reader'[a] = reader[a]
        BY <3>1, <4>1 DEF Receive, CheckUnblocked, EndHandlers, Acknowledge, TypeInv
      <4> QED BY <2>1, <4>2
    <3>2. ASSUME NEW b \in Nicks, NEW w \in Threads,
                 ApplyOwn(b, w) \/ SendOwn(b, w) \/ LoseSend(b, w)
          PROVE  FALSE
      BY <2>1, <3>2, SendersLeave
    <3>3. ASSUME NEW b \in Nicks, LoseInbox(b) PROVE FALSE
      BY <2>1, <3>3 DEF LoseInbox
    <3>4. CASE UNCHANGED vars
      BY <2>1, <3>4 DEF vars
    <3>5. ASSUME NEW b \in Nicks, Acknowledge(b) PROVE Acknowledge(a)
      BY <3>1, <3>5, Zenon
    <3>6. ASSUME NEW b \in Nicks, Receive(b) \/ CheckUnblocked(b) \/ EndHandlers(b) PROVE FALSE
      BY <3>1, <3>6
    <3> QED BY <3>2, <3>3, <3>4, <3>5, <3>6, Zenon DEF Next, Settled
  <2>3. PICK t \in Tasks : Acks(a, t)
    BY <2>2, AcknowledgeCases
  <2>4. reader[a].todo = {t}
    <3>1. reader[a].todo \ {t} = {} \/ reader'[a] = Notifying(reader[a].by, reader[a].todo \ {t})
      BY <2>3 DEF Acks, TypeInv
    <3>2. reader[a].by \in Tasks /\ reader[a].todo \in SUBSET Tasks
      BY ReaderTypes DEF TypeInv
    <3> QED BY <2>3, <3>1, <3>2, ReaderTypes DEF Acks
  <2> QED BY <2>3, <2>4 DEF Acks, TypeInv
<1> QED BY <1>1, CoordinationTypes, PTL DEF Spec, FoundIsAcknowledged

\* AckIsCurrent, for any agents, tasks and losses: between reading UnblockedTasks
\* and sending, an agent's store changes only by what its own application
\* announces, which leaves the other tasks blocked and without open edges; the
\* handlers of the reader do not run in that window.
THEOREM AcksAreCurrent == Spec => []AckIsCurrent
<1>1. Init => AckIsCurrent
  BY ReaderTypes DEF Init, AckIsCurrent
<1>2. TypeInv /\ AckIsCurrent /\ [Next]_vars => AckIsCurrent'
  <2> SUFFICES ASSUME TypeInv, AckIsCurrent, [Next]_vars PROVE AckIsCurrent'
    OBVIOUS
  <2>1. ASSUME NEW a \in Nicks, NEW w \in Threads, ApplyOwn(a, w) PROVE AckIsCurrent'
    <3>1. PICK m \in Announcements(a, w) : st' = [st EXCEPT ![a] = UpdateTask(@, m)]
      BY <2>1 DEF ApplyOwn
    <3>2. m \in Message /\ <<a, w>> \in Announcers[m.task] /\ st[a] \in Store
      BY AnnouncementType DEF TypeInv
    <3>3. /\ \A t \in Tasks \ {m.task} : st'[a].tasks[t] = st[a].tasks[t]
          /\ \A t \in Tasks \ {m.task}, b \in Tasks :
               <<t, b>> \in st'[a].edges => <<t, b>> \in st[a].edges
          /\ st[a].resolved \subseteq st'[a].resolved
      BY <3>1, <3>2, UpdateTaskEffect DEF TypeInv
    <3>4. \A b \in Nicks \ {a} : st'[b] = st[b]
      BY <3>1 DEF TypeInv
    <3> SUFFICES ASSUME NEW b \in Nicks, reader'[b].pc = "notifying",
                        NEW t \in reader'[b].todo,
                        \A v \in Apps : <<b, v>> \notin Announcers[t]
                 PROVE  /\ st'[b].tasks[t].status = "blocked"
                        /\ \A c \in Tasks : <<t, c>> \notin st'[b].edges \ st'[b].resolved
      BY DEF AckIsCurrent
    <3>5. reader' = reader
      BY <2>1 DEF ApplyOwn
    <3>6. t \in Tasks
      BY <3>5, ReaderTypes DEF TypeInv
    <3>7. /\ st[b].tasks[t].status = "blocked"
          /\ \A c \in Tasks : <<t, c>> \notin st[b].edges \ st[b].resolved
      BY <3>5 DEF AckIsCurrent
    <3>8. b = a => w \in Apps
      BY <2>1, <3>5, ReaderTypes DEF ApplyOwn, MayAnnounce, Threads
    <3>9. b = a => t # m.task
      BY <3>2, <3>8
    <3> QED BY <3>2, <3>3, <3>4, <3>6, <3>7, <3>9
  <2>2. ASSUME NEW a \in Nicks, Receive(a) PROVE AckIsCurrent'
    <3>1. reader'[a].pc # "notifying"
      <4>1. Head(inbox[a]).task \in Tasks
        BY <2>2, HeadType DEF Receive, Message
      <4> QED BY <2>2, <4>1, ReaderTypes DEF Receive, TypeInv
    <3>2. \A b \in Nicks \ {a} : st'[b] = st[b] /\ reader'[b] = reader[b]
      BY <2>2 DEF Receive, TypeInv
    <3> QED BY <3>1, <3>2 DEF AckIsCurrent
  <2>3. ASSUME NEW a \in Nicks, CheckUnblocked(a) PROVE AckIsCurrent'
    <3>1. \/ reader'[a].pc # "notifying"
          \/ reader'[a].todo = Unblocked(st[a])
      <4>1. reader[a].by \in Tasks /\ Unblocked(st[a]) \in SUBSET Tasks
        BY <2>3, ReaderTypes DEF CheckUnblocked, TypeInv, Unblocked, UnblockedTasks
      <4> QED BY <2>3, <4>1, ReaderTypes DEF CheckUnblocked, TypeInv
    <3>2. st' = st /\ \A b \in Nicks \ {a} : reader'[b] = reader[b]
      BY <2>3 DEF CheckUnblocked, TypeInv
    <3>3. \A t \in Unblocked(st[a]) :
            /\ st[a].tasks[t].status = "blocked"
            /\ \A c \in Tasks : <<t, c>> \notin st[a].edges \ st[a].resolved
      BY DEF Unblocked, UnblockedTasks
    <3> QED BY <3>1, <3>2, <3>3 DEF AckIsCurrent
  <2>4. ASSUME NEW a \in Nicks, Acknowledge(a) PROVE AckIsCurrent'
    <3>1. PICK t \in Tasks : Acks(a, t)
      BY <2>4, AcknowledgeCases
    <3>2. reader'[a].pc # "notifying" \/ reader'[a].todo \subseteq reader[a].todo
      <4>1. reader[a].by \in Tasks /\ reader[a].todo \in SUBSET Tasks
        BY <3>1, ReaderTypes DEF Acks, TypeInv
      <4>2. \/ reader'[a] = Handling
            \/ reader'[a] = Notifying(reader[a].by, reader[a].todo \ {t})
        BY <3>1 DEF Acks, TypeInv
      <4>3. reader[a].todo \ {t} \in SUBSET Tasks
        BY <4>1
      <4> QED BY <4>1, <4>2, <4>3, ReaderTypes
    <3>3. st' = st /\ \A b \in Nicks \ {a} : reader'[b] = reader[b]
      BY <3>1 DEF Acks, TypeInv
    <3> QED BY <3>1, <3>2, <3>3 DEF AckIsCurrent, Acks
  <2>5. CASE UNCHANGED <<st, reader>>
    BY <2>5 DEF AckIsCurrent
  <2>6. ASSUME NEW a \in Nicks, EndHandlers(a) PROVE AckIsCurrent'
    <3>1. reader'[a].pc # "notifying"
      BY <2>6, ReaderTypes DEF EndHandlers, TypeInv
    <3>2. st' = st /\ \A b \in Nicks \ {a} : reader'[b] = reader[b]
      BY <2>6 DEF EndHandlers, TypeInv
    <3> QED BY <3>1, <3>2 DEF AckIsCurrent
  <2> QED BY <2>1, <2>2, <2>3, <2>4, <2>5, <2>6 DEF Next, vars, SendOwn, LoseInbox, LoseSend, Settled
<1> QED BY <1>1, <1>2, CoordinationTypes, PTL DEF Spec

-----------------------------------------------------------------------------
(***************************************************************************)
(* Agreement.  For a task t of which one thread w of one agent n speaks, V *)
(* is what the channel has made of t: what everybody else's entry becomes  *)
(* once the inbox is read, and n's own entry before the message w is about *)
(* to send.  An acknowledgement is the only other message about t; it      *)
(* changes an entry that is absent, and can be sent only when n's is not.  *)
(***************************************************************************)

\* What message m makes of the entry of t.
Step(info, m, t) == IF m.task = t THEN TaskAfter(info, m) ELSE info

\* Reading the queue q turns the entry `from' of t into `to': h has the entries
\* in between.
Leads(q, t, from, to) ==
  \E h \in [0..Len(q) -> TaskInfo] :
    /\ h[0] = from /\ h[Len(q)] = to
    /\ \A i \in 1..Len(q) : h[i] = Step(h[i - 1], q[i], t)

\* Thread g has applied a message about t and not yet sent it.
Ahead(g, t) == out[g] # Idle /\ out[g].task = t

\* A queue has a message about t.
About(q, t) == \E i \in DOMAIN q : q[i].task = t

\* Agent a knows of t, or is about to.
Knows(a, t) ==
  \/ st[a].tasks[t].status # "absent"
  \/ reader[a].pc = "notifying" /\ t \in reader[a].todo
  \/ About(inbox[a], t)

\* What n hears about t are acknowledgements.
OnlyAcks(q, t) == \A i \in DOMAIN q : q[i].task = t => q[i].action = "ACKNOWLEDGED"

\* Nobody knows of t before the channel does, nor before n does.
Agrees(t, n, g, V) ==
  /\ st[n].tasks[t] = IF Ahead(g, t) THEN TaskAfter(V, out[g]) ELSE V
  /\ \A a \in Nicks \ {n} : Leads(inbox[a], t, st[a].tasks[t], V)
  /\ OnlyAcks(inbox[n], t)
  /\ \A a \in Nicks \ {n} : Knows(a, t) => V.status # "absent"
  /\ Knows(n, t) => st[n].tasks[t].status # "absent"

AgreeInv ==
  losses = 0 =>
    \A t \in Tasks, n \in Nicks, w \in Threads :
      Announcers[t] = {<<n, w>>} => \E V \in TaskInfo : Agrees(t, n, <<n, w>>, V)

LEMMA StepType ==
  ASSUME NEW info \in TaskInfo, NEW m \in Message, NEW t \in Tasks
  PROVE  Step(info, m, t) \in TaskInfo
BY TaskAfterType DEF Step

LEMMA LeadsEmpty ==
  ASSUME NEW t \in Tasks, NEW V \in TaskInfo, NEW W \in TaskInfo
  PROVE  Leads(<<>>, t, V, W) <=> V = W
<1>1. ASSUME V = W PROVE Leads(<<>>, t, V, W)
  <2> DEFINE h == [i \in 0..0 |-> V]
  <2>1. h \in [0..Len(<<>>) -> TaskInfo] /\ h[0] = V /\ 1..Len(<<>>) = {}
    OBVIOUS
  <2> QED BY <1>1, <2>1 DEF Leads
<1>2. ASSUME Leads(<<>>, t, V, W) PROVE V = W
  BY <1>2 DEF Leads
<1> QED BY <1>1, <1>2

LEMMA LeadsAppend ==
  ASSUME NEW q \in Seq(Message), NEW m \in Message, NEW t \in Tasks,
         NEW V \in TaskInfo, NEW W \in TaskInfo, Leads(q, t, V, W)
  PROVE  Leads(Append(q, m), t, V, Step(W, m, t))
<1>1. PICK h \in [0..Len(q) -> TaskInfo] :
        /\ h[0] = V /\ h[Len(q)] = W
        /\ \A i \in 1..Len(q) : h[i] = Step(h[i - 1], q[i], t)
  BY DEF Leads
<1> DEFINE r == Append(q, m)
           k == [i \in 0..Len(r) |-> IF i = Len(r) THEN Step(W, m, t) ELSE h[i]]
<1>2. /\ Len(q) \in Nat /\ Len(r) = Len(q) + 1
      /\ r[Len(r)] = m /\ \A i \in 1..Len(q) : r[i] = q[i]
  OBVIOUS
<1>3. k \in [0..Len(r) -> TaskInfo]
  BY <1>2, StepType
<1>4. k[0] = V /\ k[Len(r)] = Step(W, m, t)
  BY <1>1, <1>2
<1>5. ASSUME NEW i \in 1..Len(r) PROVE k[i] = Step(k[i - 1], r[i], t)
  <2>1. CASE i = Len(r)
    BY <1>1, <1>2, <2>1
  <2>2. CASE i # Len(r)
    <3>1. i \in 1..Len(q) /\ i - 1 \in 0..Len(q) /\ i - 1 # Len(r)
      BY <1>2, <2>2
    <3>2. k[i] = h[i] /\ k[i - 1] = h[i - 1] /\ r[i] = q[i]
      BY <1>2, <2>2, <3>1
    <3> QED BY <1>1, <3>1, <3>2
  <2> QED BY <2>1, <2>2
<1> QED BY <1>3, <1>4, <1>5 DEF Leads

LEMMA LeadsTail ==
  ASSUME NEW q \in Seq(Message), q # <<>>, NEW t \in Tasks,
         NEW V \in TaskInfo, NEW W \in TaskInfo, Leads(q, t, V, W)
  PROVE  Leads(Tail(q), t, Step(V, Head(q), t), W)
<1>1. PICK h \in [0..Len(q) -> TaskInfo] :
        /\ h[0] = V /\ h[Len(q)] = W
        /\ \A i \in 1..Len(q) : h[i] = Step(h[i - 1], q[i], t)
  BY DEF Leads
<1> DEFINE r == Tail(q)
           k == [i \in 0..Len(r) |-> h[i + 1]]
<1>2. /\ Len(q) \in Nat \ {0} /\ Len(r) = Len(q) - 1
      /\ Head(q) = q[1] /\ \A i \in 1..Len(r) : r[i] = q[i + 1]
  OBVIOUS
<1>3. k \in [0..Len(r) -> TaskInfo]
  BY <1>2
<1>4. k[0] = Step(V, Head(q), t) /\ k[Len(r)] = W
  BY <1>1, <1>2
<1>5. ASSUME NEW i \in 1..Len(r) PROVE k[i] = Step(k[i - 1], r[i], t)
  <2>1. i + 1 \in 1..Len(q) /\ i - 1 \in 0..Len(r) /\ (i - 1) + 1 = i /\ (i + 1) - 1 = i
    BY <1>2
  <2>2. k[i] = h[i + 1] /\ k[i - 1] = h[i] /\ r[i] = q[i + 1]
    BY <1>2, <2>1
  <2> QED BY <1>1, <2>1, <2>2
<1> QED BY <1>3, <1>4, <1>5 DEF Leads

\* An acknowledgement changes nothing but an absent entry, and what a message
\* makes of an entry does not depend on an acknowledgement before it.
LEMMA AckIsNeutral ==
  ASSUME NEW V \in TaskInfo, NEW m \in Message, m.action = "ACKNOWLEDGED"
  PROVE  /\ V.status # "absent" => TaskAfter(V, m) = V
         /\ \A k \in Message : TaskAfter(TaskAfter(V, m), k) = TaskAfter(V, k)
<1>1. /\ TaskAfter(V, m).owner = V.owner
      /\ TaskAfter(V, m).status = IF V.status = "absent" THEN "unset" ELSE V.status
  BY DEF TaskAfter, StatusAfter, OwnerAfter
<1>2. V.status # "absent" => TaskAfter(V, m) = V
  BY <1>1 DEF TaskAfter, TaskInfo
<1>3. ASSUME NEW k \in Message PROVE TaskAfter(TaskAfter(V, m), k) = TaskAfter(V, k)
  <2>1. StatusAfter(TaskAfter(V, m).status, k.action) = StatusAfter(V.status, k.action)
    BY <1>1 DEF StatusAfter, Message, TaskAction, TaskInfo, TaskStatus
  <2>2. OwnerAfter(TaskAfter(V, m).owner, k) = OwnerAfter(V.owner, k)
    BY <1>1
  <2> QED BY <2>1, <2>2 DEF TaskAfter
<1> QED BY <1>2, <1>3

LEMMA AboutAppend ==
  ASSUME NEW q \in Seq(Message), NEW m \in Message, NEW t \in Tasks
  PROVE  /\ About(Append(q, m), t) <=> About(q, t) \/ m.task = t
         /\ OnlyAcks(Append(q, m), t) <=>
              OnlyAcks(q, t) /\ (m.task = t => m.action = "ACKNOWLEDGED")
<1> DEFINE r == Append(q, m)
<1>1. /\ Len(q) \in Nat /\ DOMAIN q = 1..Len(q) /\ DOMAIN r = 1..(Len(q) + 1)
      /\ r[Len(q) + 1] = m /\ \A i \in 1..Len(q) : r[i] = q[i]
  OBVIOUS
<1> HIDE DEF r
<1>2. About(r, t) <=> About(q, t) \/ m.task = t
  BY <1>1 DEF About
<1>3. OnlyAcks(r, t) <=> OnlyAcks(q, t) /\ (m.task = t => m.action = "ACKNOWLEDGED")
  BY <1>1 DEF OnlyAcks
<1> QED BY <1>2, <1>3 DEF r

LEMMA AboutTail ==
  ASSUME NEW q \in Seq(Message), q # <<>>, NEW t \in Tasks
  PROVE  /\ About(Tail(q), t) => About(q, t)
         /\ Head(q).task = t => About(q, t)
         /\ OnlyAcks(q, t) => OnlyAcks(Tail(q), t)
         /\ OnlyAcks(q, t) /\ Head(q).task = t => Head(q).action = "ACKNOWLEDGED"
<1> DEFINE r == Tail(q)
<1>1. /\ Len(q) \in Nat \ {0} /\ DOMAIN q = 1..Len(q) /\ DOMAIN r = 1..(Len(q) - 1)
      /\ Head(q) = q[1] /\ \A i \in 1..(Len(q) - 1) : r[i] = q[i + 1]
  OBVIOUS
<1> HIDE DEF r
<1>2. ASSUME About(r, t) PROVE About(q, t)
  <2>1. PICK i \in DOMAIN r : r[i].task = t
    BY <1>2 DEF About
  <2>2. i + 1 \in DOMAIN q /\ q[i + 1].task = t
    BY <1>1, <2>1
  <2> QED BY <2>2 DEF About
<1>3. Head(q).task = t => About(q, t)
  <2>1. 1 \in DOMAIN q
    BY <1>1
  <2> QED BY <1>1, <2>1 DEF About
<1>4. OnlyAcks(q, t) => OnlyAcks(r, t)
  BY <1>1 DEF OnlyAcks
<1>5. OnlyAcks(q, t) /\ Head(q).task = t => Head(q).action = "ACKNOWLEDGED"
  BY <1>1 DEF OnlyAcks
<1> QED BY <1>2, <1>3, <1>4, <1>5 DEF r

\* Relaying a message about another task changes nothing for t.
LEMMA RelayOther ==
  ASSUME TypeInv, NEW t \in Tasks, NEW n \in Nicks, NEW g \in Senders, NEW V \in TaskInfo,
         NEW a \in Nicks, NEW m \in Message, m.task # t, Relay(a, m),
         Agrees(t, n, g, V)
  PROVE  /\ \A b \in Nicks \ {n} : Leads(inbox'[b], t, st[b].tasks[t], V)
         /\ OnlyAcks(inbox'[n], t)
         /\ \A b \in Nicks : About(inbox'[b], t) => About(inbox[b], t)
<1>1. \A b \in Nicks : /\ inbox[b] \in Seq(Message)
                       /\ inbox'[b] = inbox[b] \/ inbox'[b] = Append(inbox[b], m)
  BY DEF Relay, TypeInv
<1>2. \A b \in Nicks : st[b].tasks[t] \in TaskInfo
  BY DEF TypeInv, Store
<1>3. Step(V, m, t) = V
  BY DEF Step
<1>4. ASSUME NEW b \in Nicks \ {n} PROVE Leads(inbox'[b], t, st[b].tasks[t], V)
  BY <1>1, <1>2, <1>3, LeadsAppend DEF Agrees
<1>5. \A b \in Nicks : /\ About(inbox'[b], t) => About(inbox[b], t)
                       /\ OnlyAcks(inbox[b], t) => OnlyAcks(inbox'[b], t)
  <2> TAKE b \in Nicks
  <2>1. /\ About(Append(inbox[b], m), t) => About(inbox[b], t)
        /\ OnlyAcks(inbox[b], t) => OnlyAcks(Append(inbox[b], m), t)
    BY <1>1, AboutAppend, Zenon
  <2> QED BY <1>1, <2>1, Zenon
<1> QED BY <1>4, <1>5 DEF Agrees

\* One step, for a task t of which the one thread g of agent n speaks.
LEMMA AgreeStep ==
  ASSUME TypeInv, TypeInv', [Next]_vars, losses' = 0, NEW t \in Tasks, NEW n \in Nicks,
         NEW g \in Senders, g[1] = n, Announcers[t] = {g}, NEW V \in TaskInfo, Agrees(t, n, g, V)
  PROVE  \E W \in TaskInfo : Agrees(t, n, g, W)'
<1>0. /\ \A b \in Nicks : st[b] \in Store /\ st[b].tasks[t] \in TaskInfo
      /\ \A f \in Senders : out[f] # Idle => out[f] \in Message
      /\ \A f \in Senders \ {g} : out[f] # Idle => out[f].task # t
      /\ \A b \in Nicks : inbox[b] \in Seq(Message)
  BY DEF TypeInv, Store
<1>1. ASSUME NEW a \in Nicks, NEW w \in Threads, ApplyOwn(a, w)
      PROVE  \E W \in TaskInfo : Agrees(t, n, g, W)'
  <2>0. PICK f \in Senders : f = <<a, w>> /\ f[1] = a
    BY SenderPair, Zenon
  <2>1. PICK m \in Announcements(a, w) : /\ st' = [st EXCEPT ![a] = UpdateTask(@, m)]
                                         /\ out' = [out EXCEPT ![f] = m]
    BY <1>1, <2>0 DEF ApplyOwn
  <2>2. m \in Message /\ m # Idle /\ f \in Announcers[m.task] /\ m.task \in Tasks
    BY <2>0, AnnouncementType DEF Message
  <2>3. /\ out[f] = Idle /\ inbox' = inbox /\ reader' = reader
        /\ out'[f] = m /\ \A e \in Senders \ {f} : out'[e] = out[e]
        /\ \A b \in Nicks \ {a} : st'[b] = st[b]
        /\ st'[a].tasks[t] = Step(st[a].tasks[t], m, t)
    <3>1. /\ out[f] = Idle /\ inbox' = inbox /\ reader' = reader
      BY <1>1, <2>0 DEF ApplyOwn, MayAnnounce
    <3>2. out'[f] = m /\ \A e \in Senders \ {f} : out'[e] = out[e]
      BY <2>1 DEF TypeInv
    <3>3. /\ \A b \in Nicks \ {a} : st'[b] = st[b]
          /\ st'[a].tasks[t] = Step(st[a].tasks[t], m, t)
      BY <1>0, <2>1, <2>2, UpdateTaskEffect DEF TypeInv, Step
    <3> QED BY <3>1, <3>2, <3>3
  <2>4. CASE m.task # t
    <3>1. \A b \in Nicks : st'[b].tasks[t] = st[b].tasks[t]
      BY <2>3, <2>4 DEF Step
    <3>2. Ahead(g, t)' = Ahead(g, t) /\ (Ahead(g, t) => out'[g] = out[g])
      BY <2>3, <2>4 DEF Ahead
    <3>3. \A b \in Nicks : Knows(b, t)' = Knows(b, t)
      BY <2>3, <3>1 DEF Knows
    <3>4. Agrees(t, n, g, V)'
      BY <2>3, <3>1, <3>2, <3>3 DEF Agrees
    <3> QED BY <3>4
  <2>5. CASE m.task = t
    <3>1. f = g /\ a = n
      BY <2>0, <2>2, <2>5
    <3>2. st'[n].tasks[t] = TaskAfter(V, m) /\ Ahead(g, t)' /\ out'[g] = m
      BY <2>2, <2>3, <2>5, <3>1 DEF Agrees, Ahead, Step
    <3>3. st'[n].tasks[t].status # "absent"
      BY <2>2, <3>2, TaskAfterType
    <3>4. \A b \in Nicks \ {n} : st'[b] = st[b] /\ Knows(b, t)' = Knows(b, t)
      BY <2>3, <3>1 DEF Knows
    <3>5. Agrees(t, n, g, V)'
      BY <2>3, <3>2, <3>3, <3>4 DEF Agrees
    <3> QED BY <3>5
  <2> QED BY <2>4, <2>5
<1>2. ASSUME NEW a \in Nicks, NEW w \in Threads, SendOwn(a, w)
      PROVE  \E W \in TaskInfo : Agrees(t, n, g, W)'
  <2>0. PICK f \in Senders : f = <<a, w>> /\ f[1] = a
    BY SenderPair, Zenon
  <2> DEFINE m == out[f]
  <2>1. /\ m \in Message /\ m # Idle /\ Relay(a, m) /\ st' = st /\ reader' = reader
        /\ out'[f] = Idle /\ \A e \in Senders \ {f} : out'[e] = out[e]
    BY <1>0, <1>2, <2>0 DEF SendOwn, TypeInv
  <2>2. CASE m.task # t
    <3>1. /\ \A b \in Nicks \ {n} : Leads(inbox'[b], t, st[b].tasks[t], V)
          /\ OnlyAcks(inbox'[n], t)
          /\ \A b \in Nicks : About(inbox'[b], t) => About(inbox[b], t)
      BY <2>1, <2>2, RelayOther
    <3>2. Ahead(g, t)' = Ahead(g, t) /\ (Ahead(g, t) => out'[g] = out[g])
      BY <2>1, <2>2 DEF Ahead
    <3>3. \A b \in Nicks : Knows(b, t)' => Knows(b, t)
      BY <2>1, <3>1 DEF Knows
    <3>4. Agrees(t, n, g, V)'
      BY <2>1, <3>1, <3>2, <3>3 DEF Agrees
    <3> QED BY <3>4
  <2>3. CASE m.task = t
    <3>1. f = g /\ a = n /\ Ahead(g, t) /\ ~Ahead(g, t)'
      BY <1>0, <2>0, <2>1, <2>3 DEF Ahead
    <3>2. PICK W \in TaskInfo : W = TaskAfter(V, m) /\ W.status # "absent"
      BY <2>1, TaskAfterType
    <3>3. st[n].tasks[t] = W /\ Step(V, m, t) = W
      BY <2>3, <3>1, <3>2 DEF Agrees, Step
    <3>4. /\ inbox'[n] = inbox[n]
          /\ \A b \in Nicks \ {n} : inbox'[b] = Append(inbox[b], m)
      BY <2>1, <3>1 DEF Relay
    <3>5. ASSUME NEW b \in Nicks \ {n} PROVE Leads(inbox'[b], t, st[b].tasks[t], W)
      <4>1. Leads(inbox[b], t, st[b].tasks[t], V)
        BY DEF Agrees
      <4>2. Leads(Append(inbox[b], m), t, st[b].tasks[t], Step(V, m, t))
        BY <1>0, <2>1, <4>1, LeadsAppend, Zenon
      <4> QED BY <3>3, <3>4, <4>2, Zenon
    <3> HIDE DEF m
    <3>6. Agrees(t, n, g, W)'
      BY <2>1, <3>1, <3>3, <3>4, <3>5, <3>2 DEF Agrees
    <3> QED BY <3>6
  <2> QED BY <2>2, <2>3
<1>3. ASSUME NEW a \in Nicks, Receive(a) PROVE \E W \in TaskInfo : Agrees(t, n, g, W)'
  <2> DEFINE m == Head(inbox[a])
  <2>1. m \in Message /\ inbox[a] # <<>>
    BY <1>3, HeadType DEF Receive
  <2>2. /\ st'[a] = UpdateTask(st[a], m) /\ inbox'[a] = Tail(inbox[a]) /\ out' = out
        /\ reader'[a] = IF m.action = "COMPLETED" THEN Completing(m.task) ELSE Handling
        /\ \A b \in Nicks \ {a} :
             st'[b] = st[b] /\ inbox'[b] = inbox[b] /\ reader'[b] = reader[b]
    BY <1>3 DEF Receive, TypeInv
  <2>3. st'[a].tasks[t] = Step(st[a].tasks[t], m, t)
    BY <1>0, <2>1, <2>2, UpdateTaskEffect DEF Step, Message
  <2>4. reader'[a].pc # "notifying"
    BY <2>1, <2>2, ReaderTypes DEF Message
  <2>5. /\ About(inbox'[a], t) => About(inbox[a], t)
        /\ m.task = t => About(inbox[a], t)
        /\ OnlyAcks(inbox[a], t) => OnlyAcks(inbox'[a], t)
        /\ OnlyAcks(inbox[a], t) /\ m.task = t => m.action = "ACKNOWLEDGED"
    BY <1>0, <2>1, <2>2, AboutTail
  <2>6. Ahead(g, t)' = Ahead(g, t) /\ \A b \in Nicks \ {a} : Knows(b, t)' = Knows(b, t)
    BY <2>2 DEF Ahead, Knows
  <2>7. Knows(a, t)' => Knows(a, t)
    BY <2>3, <2>4, <2>5 DEF Knows, Step
  <2> HIDE DEF m
  <2>8. CASE a = n
    <3>1. st'[n].tasks[t] = st[n].tasks[t]
      <4>1. CASE m.task = t
        <5>1. m.action = "ACKNOWLEDGED" /\ st[n].tasks[t].status # "absent"
          BY <2>5, <2>8, <4>1 DEF Agrees, Knows
        <5>2. TaskAfter(st[n].tasks[t], m) = st[n].tasks[t]
          BY <1>0, <2>1, <5>1, AckIsNeutral
        <5> QED BY <2>3, <2>8, <4>1, <5>2 DEF Step
      <4>2. CASE m.task # t
        BY <2>3, <2>8, <4>2 DEF Step
      <4> QED BY <4>1, <4>2
    <3>2. Agrees(t, n, g, V)'
      BY <2>2, <2>5, <2>6, <2>7, <2>8, <3>1 DEF Agrees
    <3> QED BY <3>2
  <2>9. CASE a # n
    <3>1. Leads(inbox'[a], t, st'[a].tasks[t], V)
      BY <1>0, <2>1, <2>2, <2>3, <2>9, LeadsTail DEF Agrees, m
    <3>2. Agrees(t, n, g, V)'
      BY <2>2, <2>6, <2>7, <2>9, <3>1 DEF Agrees
    <3> QED BY <3>2
  <2> QED BY <2>8, <2>9
<1>4. ASSUME NEW a \in Nicks, CheckUnblocked(a) PROVE \E W \in TaskInfo : Agrees(t, n, g, W)'
  <2>1. /\ st' = st /\ inbox' = inbox /\ out' = out
        /\ \A b \in Nicks \ {a} : reader'[b] = reader[b]
        /\ \/ reader'[a] = Handling
           \/ reader'[a] = Notifying(reader[a].by, Unblocked(st[a]))
    BY <1>4 DEF CheckUnblocked, TypeInv
  <2>2. reader'[a].pc = "notifying" /\ t \in reader'[a].todo => st[a].tasks[t].status = "blocked"
    <3>1. reader[a].by \in Tasks /\ Unblocked(st[a]) \in SUBSET Tasks
      BY <1>4, ReaderTypes DEF CheckUnblocked, TypeInv, Unblocked, UnblockedTasks
    <3>2. t \in Unblocked(st[a]) => st[a].tasks[t].status = "blocked"
      BY DEF Unblocked, UnblockedTasks
    <3> QED BY <2>1, <3>1, <3>2, ReaderTypes
  <2>3. Ahead(g, t)' = Ahead(g, t) /\ \A b \in Nicks : Knows(b, t)' => Knows(b, t)
    BY <2>1, <2>2 DEF Ahead, Knows
  <2>4. Agrees(t, n, g, V)'
    BY <2>1, <2>3 DEF Agrees
  <2> QED BY <2>4
<1>5. ASSUME NEW a \in Nicks, Acknowledge(a) PROVE \E W \in TaskInfo : Agrees(t, n, g, W)'
  <2>1. PICK u \in Tasks : Acks(a, u)
    BY <1>5, AcknowledgeCases
  <2>2. st' = st /\ out' = out /\ \A b \in Nicks \ {a} : reader'[b] = reader[b]
    BY <2>1 DEF Acks, TypeInv
  <2>3. \A b \in Nicks : reader'[b].pc = "notifying" /\ t \in reader'[b].todo
                           => reader[b].pc = "notifying" /\ t \in reader[b].todo
    <3>1. reader[a].by \in Tasks /\ reader[a].todo \in SUBSET Tasks
      BY <2>1, ReaderTypes DEF Acks, TypeInv
    <3>2. \/ reader'[a] = Handling
          \/ reader'[a] = Notifying(reader[a].by, reader[a].todo \ {u})
      BY <2>1 DEF Acks, TypeInv
    <3>3. reader[a].todo \ {u} \in SUBSET Tasks
      BY <3>1
    <3>4. reader'[a].pc = "notifying" => reader'[a].todo = reader[a].todo \ {u}
      BY <3>1, <3>2, <3>3, ReaderTypes
    <3> QED BY <2>1, <2>2, <3>4 DEF Acks
  <2>4. Ahead(g, t)' = Ahead(g, t)
    BY <2>2 DEF Ahead
  <2>5. CASE UNCHANGED inbox
    <3>1. \A b \in Nicks : Knows(b, t)' => Knows(b, t)
      BY <2>2, <2>3, <2>5 DEF Knows
    <3>2. Agrees(t, n, g, V)'
      BY <2>2, <2>4, <2>5, <3>1 DEF Agrees
    <3> QED BY <3>2
  <2>6. CASE Relay(a, Ack(a, u)) /\ u # t
    <3>1. Ack(a, u) \in Message /\ Ack(a, u).task # t
      BY <2>6, AckType DEF Ack
    <3>2. /\ \A b \in Nicks \ {n} : Leads(inbox'[b], t, st[b].tasks[t], V)
          /\ OnlyAcks(inbox'[n], t)
          /\ \A b \in Nicks : About(inbox'[b], t) => About(inbox[b], t)
      BY <2>6, <3>1, RelayOther
    <3>3. \A b \in Nicks : Knows(b, t)' => Knows(b, t)
      BY <2>2, <2>3, <3>2 DEF Knows
    <3>4. Agrees(t, n, g, V)'
      BY <2>2, <2>4, <3>2, <3>3 DEF Agrees
    <3> QED BY <3>4
  <2>7. CASE Relay(a, Ack(a, u)) /\ u = t
    <3> DEFINE m == Ack(a, t)
               W == TaskAfter(V, m)
    <3>1. m \in Message /\ m.task = t /\ m.action = "ACKNOWLEDGED"
      BY AckType DEF Ack
    <3>2. Knows(a, t)
      BY <2>1, <2>7 DEF Knows, Acks
    <3>3. /\ inbox'[a] = inbox[a]
          /\ \A b \in Nicks \ {a} : inbox'[b] = Append(inbox[b], m)
      BY <2>7 DEF Relay
    <3> HIDE DEF m
    <3>4. W \in TaskInfo /\ W.status # "absent" /\ Step(V, m, t) = W
      BY <3>1, TaskAfterType DEF Step
    <3>5. /\ V.status # "absent" => W = V
          /\ \A k \in Message : TaskAfter(W, k) = TaskAfter(V, k)
      BY <3>1, AckIsNeutral
    <3>6. OnlyAcks(inbox'[n], t)
      <4>1. OnlyAcks(inbox[n], t)
        BY DEF Agrees
      <4>2. OnlyAcks(Append(inbox[n], m), t)
        <5>1. inbox[n] \in Seq(Message)
          BY <1>0
        <5> QED BY <3>1, <4>1, <5>1, AboutAppend
      <4>3. inbox'[n] = inbox[n] \/ inbox'[n] = Append(inbox[n], m)
        BY <3>3
      <4> QED BY <4>1, <4>2, <4>3, Zenon
    <3> HIDE DEF W
    <3>7. st[n].tasks[t].status # "absent"
      <4>1. CASE a = n
        BY <3>2, <4>1 DEF Agrees
      <4>2. CASE a # n
        <5>1. V.status # "absent"
          BY <3>2, <4>2 DEF Agrees
        <5> QED BY <1>0, <5>1, TaskAfterType DEF Agrees, Ahead
      <4> QED BY <4>1, <4>2
    <3>8. st[n].tasks[t] = IF Ahead(g, t) THEN TaskAfter(W, out[g]) ELSE W
      BY <1>0, <3>5, <3>7 DEF Agrees, Ahead
    <3>9. ASSUME NEW b \in Nicks \ {n} PROVE Leads(inbox'[b], t, st[b].tasks[t], W)
      <4>1. Leads(inbox[b], t, st[b].tasks[t], V)
        BY DEF Agrees
      <4>2. CASE b = a
        <5>1. W = V
          BY <3>2, <3>5, <4>2 DEF Agrees
        <5> QED BY <3>3, <4>1, <4>2, <5>1
      <4>3. CASE b # a
        <5>1. Leads(Append(inbox[b], m), t, st[b].tasks[t], Step(V, m, t))
          BY <1>0, <3>1, <4>1, LeadsAppend, Zenon
        <5> QED BY <3>3, <3>4, <4>3, <5>1, Zenon
      <4> QED BY <4>2, <4>3
    <3>10. Agrees(t, n, g, W)'
      BY <2>2, <2>4, <3>4, <3>6, <3>7, <3>8, <3>9 DEF Agrees
    <3> QED BY <3>4, <3>10
  <2> QED BY <2>1, <2>5, <2>6, <2>7 DEF Acks
<1>6. ASSUME NEW a \in Nicks, LoseInbox(a) \/ \E w \in Threads : LoseSend(a, w)
      PROVE  FALSE
  <2>1. losses' = losses + 1
    BY <1>6 DEF LoseInbox, LoseSend
  <2> QED BY <2>1 DEF TypeInv
<1>7. CASE UNCHANGED vars
  <2>1. Agrees(t, n, g, V)'
    BY <1>7 DEF vars, Agrees, Ahead, Knows
  <2> QED BY <2>1
<1>8. ASSUME NEW a \in Nicks, EndHandlers(a) PROVE \E W \in TaskInfo : Agrees(t, n, g, W)'
  <2>1. /\ st' = st /\ inbox' = inbox /\ out' = out
        /\ \A b \in Nicks \ {a} : reader'[b] = reader[b]
        /\ reader'[a].pc # "notifying"
    BY <1>8, ReaderTypes DEF EndHandlers, TypeInv
  <2>2. Ahead(g, t)' = Ahead(g, t) /\ \A b \in Nicks : Knows(b, t)' => Knows(b, t)
    BY <2>1 DEF Ahead, Knows
  <2>3. Agrees(t, n, g, V)'
    BY <2>1, <2>2 DEF Agrees
  <2> QED BY <2>3
<1> QED BY <1>1, <1>2, <1>3, <1>4, <1>5, <1>6, <1>7, <1>8 DEF Next, Settled

\* StatusesAgree, for any agents, tasks and announcements: when nothing was lost
\* and everything is handled, everybody has the entry of the agent whose one thread
\* speaks about the task, although it applies its messages before they are sent,
\* acknowledgements of the others cross them, and one of its own may overtake one.
THEOREM AgentsAgree == Spec => []StatusesAgree
<1>1. Init => AgreeInv
  <2> SUFFICES ASSUME Init, NEW t \in Tasks, NEW n \in Nicks, NEW w \in Threads
               PROVE  \E V \in TaskInfo : Agrees(t, n, <<n, w>>, V)
    BY DEF AgreeInv
  <2>1. NewTaskInfo \in TaskInfo /\ NewTaskInfo.status = "absent"
    BY DEF NewTaskInfo, TaskInfo, TaskStatus
  <2>2. \A a \in Nicks : /\ st[a].tasks[t] = NewTaskInfo /\ inbox[a] = <<>>
                         /\ reader[a] = Idle
    BY DEF Init, NewStore
  <2>7. out[<<n, w>>] = Idle
    BY DEF Init, Senders
  <2>3. ~About(<<>>, t) /\ OnlyAcks(<<>>, t)
    BY DEF About, OnlyAcks
  <2>4. \A a \in Nicks : ~Knows(a, t)
    BY <2>1, <2>2, <2>3, ReaderTypes DEF Knows
  <2>5. Leads(<<>>, t, NewTaskInfo, NewTaskInfo)
    BY <2>1, LeadsEmpty
  <2>6. Agrees(t, n, <<n, w>>, NewTaskInfo)
    BY <2>2, <2>3, <2>4, <2>5, <2>7 DEF Agrees, Ahead
  <2> QED BY <2>1, <2>6
<1>2. TypeInv /\ AgreeInv /\ [Next]_vars => AgreeInv'
  <2> SUFFICES ASSUME TypeInv, AgreeInv, [Next]_vars, losses' = 0,
                      NEW t \in Tasks, NEW n \in Nicks, NEW w \in Threads,
                      Announcers[t] = {<<n, w>>}
               PROVE  \E V \in TaskInfo : Agrees(t, n, <<n, w>>, V)'
    BY DEF AgreeInv
  <2>1. losses = 0
    <3>1. losses' = losses \/ losses' = losses + 1
      BY SendersLeave DEF Next, vars, Receive, CheckUnblocked, Acknowledge, EndHandlers,
         LoseInbox, Settled
    <3> QED BY <3>1 DEF TypeInv
  <2>2. PICK V \in TaskInfo : Agrees(t, n, <<n, w>>, V)
    BY <2>1 DEF AgreeInv
  <2>3. <<n, w>> \in Senders /\ <<n, w>>[1] = n
    BY DEF Senders
  <2> QED BY <2>2, <2>3, TypeStep, AgreeStep
<1>3. TypeInv /\ AgreeInv => StatusesAgree
  <2> SUFFICES ASSUME TypeInv, AgreeInv, Quiet, losses = 0, NEW t \in Tasks, NEW n \in Nicks,
                      NEW w \in Threads, Announcers[t] = {<<n, w>>}, NEW a \in Nicks
               PROVE  st[a].tasks[t] = st[n].tasks[t]
    BY DEF StatusesAgree
  <2>1. PICK V \in TaskInfo : Agrees(t, n, <<n, w>>, V)
    BY DEF AgreeInv
  <2>2. st[n].tasks[t] = V /\ st[a].tasks[t] \in TaskInfo /\ inbox[a] = <<>>
    BY <2>1 DEF Agrees, Ahead, Quiet, Senders, TypeInv, Store
  <2>3. CASE a # n
    <3>1. Leads(<<>>, t, st[a].tasks[t], V)
      BY <2>1, <2>2, <2>3 DEF Agrees
    <3> QED BY <2>2, <3>1, LeadsEmpty
  <2> QED BY <2>3
<1> QED BY <1>1, <1>2, <1>3, CoordinationTypes, PTL DEF Spec

-----------------------------------------------------------------------------
(***************************************************************************)
(* The searches of the dependency graph answer exactly what TaskState says *)
(* they should, on every graph over any finite set of tasks and for every  *)
(* order in which edges are stored and blockers are named.                 *)
(***************************************************************************)

-----------------------------------------------------------------------------
(***************************************************************************)
(* Paths and cycles.                                                       *)
(***************************************************************************)
LEMMA ReachesSelf ==
  ASSUME NEW G, NEW x \in Tasks
  PROVE  Reaches(G, x, x)
BY DEF Reaches

LEMMA ReachesForward ==
  ASSUME NEW G, NEW x \in Tasks, NEW y \in Tasks, NEW z \in Tasks,
         Reaches(G, x, y), <<y, z>> \in G
  PROVE  Reaches(G, x, z)
BY DEF Reaches, ClosedUnder

\* A path to another task has a first edge.
LEMMA FirstEdge ==
  ASSUME NEW G, NEW x \in Tasks, NEW z \in Tasks, x # z, Reaches(G, x, z)
  PROVE  \E y \in Tasks : <<x, y>> \in G /\ Reaches(G, y, z)
<1> DEFINE S == {x} \cup {w \in Tasks : \E y \in Tasks : <<x, y>> \in G /\ Reaches(G, y, w)}
<1>1. ClosedUnder(G, S)
  <2> SUFFICES ASSUME NEW v \in S, NEW w \in Tasks, <<v, w>> \in G
               PROVE  \E y \in Tasks : <<x, y>> \in G /\ Reaches(G, y, w)
    BY DEF ClosedUnder
  <2>1. CASE v = x
    BY <2>1, ReachesSelf
  <2>2. CASE v # x
    <3>1. PICK y \in Tasks : <<x, y>> \in G /\ Reaches(G, y, v)
      BY <2>2
    <3>2. Reaches(G, y, w)
      BY <2>2, <3>1, ReachesForward
    <3> QED
      BY <3>1, <3>2
  <2> QED
    BY <2>1, <2>2
<1>2. S \in SUBSET Tasks /\ x \in S
  OBVIOUS
<1>3. z \in S
  BY <1>1, <1>2 DEF Reaches
<1> QED
  BY <1>3

\* An edge between tasks closes a cycle exactly if its end reaches its start.
LEMMA ClosesCycle ==
  ASSUME NEW G, Acyclic(G), NEW s \in Tasks, NEW t \in Tasks
  PROVE  Acyclic(G \cup {<<t, s>>}) <=> ~Reaches(G, s, t)
<1> DEFINE H == G \cup {<<t, s>>}
<1>1. ASSUME Reaches(G, s, t) PROVE ~Acyclic(H)
  <2> DEFINE S == {x \in Tasks : Reaches(G, s, x) /\ Reaches(G, x, t)}
  <2>1. s \in S
    BY <1>1, ReachesSelf
  <2>2. \A x \in S : \E y \in S : <<x, y>> \in H
    <3> TAKE x \in S
    <3>1. CASE x = t
      BY <2>1, <3>1
    <3>2. CASE x # t
      <4>1. PICK y \in Tasks : <<x, y>> \in G /\ Reaches(G, y, t)
        BY <3>2, FirstEdge
      <4>2. Reaches(G, s, y)
        BY <4>1, ReachesForward
      <4> QED
        BY <4>1, <4>2
    <3> QED
      BY <3>1, <3>2
  <2>3. S \in SUBSET Tasks /\ S # {}
    BY <2>1
  <2> HIDE DEF S, H
  <2> QED
    BY <2>2, <2>3 DEF Acyclic
<1>2. ASSUME ~Reaches(G, s, t) PROVE Acyclic(H)
  <2> SUFFICES ASSUME NEW S \in SUBSET Tasks, S # {},
                      \A x \in S : \E y \in S : <<x, y>> \in H
               PROVE  FALSE
    BY DEF Acyclic
  <2>1. s \in S
    <3>1. PICK x \in S : \A y \in S : <<x, y>> \notin G
      BY DEF Acyclic
    <3>2. PICK y \in S : <<x, y>> = <<t, s>>
      BY <3>1
    <3> QED
      BY <3>2
  <2> DEFINE R == {x \in S : Reaches(G, s, x)}
  <2>2. R \in SUBSET Tasks /\ R # {}
    BY <2>1, ReachesSelf
  <2>3. PICK x \in R : \A y \in R : <<x, y>> \notin G
    <3> HIDE DEF R
    <3> QED
      BY <2>2 DEF Acyclic
  <2>4. PICK y \in S : <<x, y>> \in H
    OBVIOUS
  <2>5. x # t
    BY <1>2
  <2>6. <<x, y>> \in G
    BY <2>4, <2>5
  <2>7. y \in R
    BY <2>6, ReachesForward
  <2> QED
    BY <2>3, <2>6, <2>7
<1> QED
  BY <1>1, <1>2

-----------------------------------------------------------------------------
(***************************************************************************)
(* Sequences and what is in them.                                          *)
(***************************************************************************)
LEMMA ToSetConcat ==
  ASSUME NEW S, NEW s \in Seq(S), NEW t \in Seq(S)
  PROVE  s \o t \in Seq(S) /\ ToSet(s \o t) = ToSet(s) \cup ToSet(t)
<1>1. PICK r \in Seq(S) : r = s \o t
  <2>1. s \o t \in Seq(S)
    OBVIOUS
  <2> QED
    BY <2>1
<1>2. /\ DOMAIN r = 1..(Len(s) + Len(t)) /\ DOMAIN s = 1..Len(s) /\ DOMAIN t = 1..Len(t)
      /\ Len(s) \in Nat /\ Len(t) \in Nat
      /\ \A i \in 1..(Len(s) + Len(t)) : r[i] = IF i <= Len(s) THEN s[i] ELSE t[i - Len(s)]
  BY <1>1
<1>3. ASSUME NEW x \in ToSet(r) PROVE x \in ToSet(s) \cup ToSet(t)
  <2>1. PICK i \in 1..(Len(s) + Len(t)) : x = r[i]
    BY <1>2 DEF ToSet
  <2>2. CASE i <= Len(s)
    BY <1>2, <2>1, <2>2 DEF ToSet
  <2>3. CASE ~(i <= Len(s))
    <3>1. i - Len(s) \in DOMAIN t /\ x = t[i - Len(s)]
      BY <1>2, <2>1, <2>3
    <3> QED
      BY <3>1 DEF ToSet
  <2> QED
    BY <2>2, <2>3
<1>4. ASSUME NEW x \in ToSet(s) PROVE x \in ToSet(r)
  <2>1. PICK i \in 1..Len(s) : x = s[i]
    BY <1>2 DEF ToSet
  <2>2. i \in DOMAIN r /\ r[i] = x
    BY <1>2, <2>1
  <2> QED
    BY <2>2 DEF ToSet
<1>5. ASSUME NEW x \in ToSet(t) PROVE x \in ToSet(r)
  <2>1. PICK i \in 1..Len(t) : x = t[i]
    BY <1>2 DEF ToSet
  <2>2. i + Len(s) \in DOMAIN r /\ r[i + Len(s)] = x
    BY <1>2, <2>1
  <2> QED
    BY <2>2 DEF ToSet
<1> QED
  BY <1>1, <1>3, <1>4, <1>5

LEMMA ToSetLast ==
  ASSUME NEW S, NEW s \in Seq(S), s # <<>>
  PROVE  /\ Last(s) \in S /\ Front(s) \in Seq(S)
         /\ ToSet(s) = ToSet(Front(s)) \cup {Last(s)}
<1>1. PICK n \in Nat : Len(s) = n + 1
  <2>1. Len(s) - 1 \in Nat /\ Len(s) = (Len(s) - 1) + 1
    OBVIOUS
  <2> QED
    BY <2>1
<1>2. Front(s) = [i \in 1..n |-> s[i]]
  BY <1>1 DEF Front
<1>3. PICK f : f = Front(s)
  OBVIOUS
<1>4. /\ f \in Seq(S) /\ DOMAIN f = 1..n /\ DOMAIN s = 1..(n + 1)
      /\ \A i \in 1..n : f[i] = s[i]
      /\ Last(s) = s[n + 1] /\ Last(s) \in S
  BY <1>1, <1>2, <1>3 DEF Last
<1>5. ASSUME NEW x \in ToSet(s) PROVE x \in ToSet(f) \cup {Last(s)}
  <2>1. PICK i \in 1..(n + 1) : x = s[i]
    BY <1>4 DEF ToSet
  <2>2. i \in 1..n \/ i = n + 1
    OBVIOUS
  <2> QED
    BY <1>4, <2>1, <2>2 DEF ToSet
<1>6. ASSUME NEW x \in ToSet(f) PROVE x \in ToSet(s)
  <2>1. PICK i \in 1..n : x = f[i]
    BY <1>4 DEF ToSet
  <2>2. i \in DOMAIN s /\ s[i] = x
    BY <1>4, <2>1
  <2> QED
    BY <2>2 DEF ToSet
<1>7. Last(s) \in ToSet(s)
  BY <1>4 DEF ToSet
<1> QED
  BY <1>3, <1>4, <1>5, <1>6, <1>7

LEMMA ToSetHead ==
  ASSUME NEW S, NEW s \in Seq(S), s # <<>>
  PROVE  /\ Head(s) \in S /\ Tail(s) \in Seq(S)
         /\ ToSet(s) = ToSet(Tail(s)) \cup {Head(s)}
<1>1. /\ DOMAIN Tail(s) = 1..(Len(s) - 1) /\ DOMAIN s = 1..Len(s) /\ Len(s) \in Nat \ {0}
      /\ \A i \in 1..(Len(s) - 1) : Tail(s)[i] = s[i + 1]
      /\ Head(s) = s[1] /\ Head(s) \in S /\ Tail(s) \in Seq(S)
  OBVIOUS
<1>2. ASSUME NEW x \in ToSet(s) PROVE x = Head(s) \/ x \in ToSet(Tail(s))
  <2>1. PICK i \in 1..Len(s) : x = s[i]
    BY <1>1 DEF ToSet
  <2>2. CASE i # 1
    <3>1. i - 1 \in DOMAIN Tail(s) /\ Tail(s)[i - 1] = x
      BY <1>1, <2>1, <2>2
    <3> QED
      BY <3>1 DEF ToSet
  <2> QED
    BY <1>1, <2>1, <2>2
<1>3. ASSUME NEW x \in ToSet(Tail(s)) PROVE x \in ToSet(s)
  <2>1. PICK i \in 1..(Len(s) - 1) : x = s[i + 1]
    BY <1>1 DEF ToSet
  <2> QED
    BY <1>1, <2>1 DEF ToSet
<1>4. Head(s) \in ToSet(s)
  BY <1>1 DEF ToSet
<1> QED
  BY <1>1, <1>2, <1>3, <1>4

LEMMA SeqOfMore ==
  ASSUME NEW S, NEW T, T \subseteq S, NEW s \in Seq(T)
  PROVE  s \in Seq(S)
<1>1. Len(s) \in Nat /\ s \in [1..Len(s) -> T]
  OBVIOUS
<1>2. s \in [1..Len(s) -> S]
  BY <1>1
<1> QED
  BY <1>1, <1>2

LEMMA ToSetNone == ToSet(<<>>) = {} /\ \A x : ToSet(<<x>>) = {x}
BY DEF ToSet

Distinct(s) == \A i, j \in DOMAIN s : s[i] = s[j] => i = j

\* The orders of a finite set list each of its elements once.
LEMMA Orders ==
  ASSUME NEW S, IsFiniteSet(S), NEW q \in SetToSeqs(S)
  PROVE  /\ q \in Seq(S) /\ ToSet(q) = S
         /\ Distinct(q)
<1> DEFINE n == Cardinality(S)
<1>1. n \in Nat
  BY FS_CardinalityType
<1>2. q \in [1..n -> S] /\ \A i, j \in 1..n : q[i] = q[j] => i = j
  BY DEF SetToSeqs
<1>3. q \in Injection(1..n, S)
  BY <1>2 DEF Injection, IsInjective
<1>4. Cardinality(1..n) = n
  BY <1>1, FS_Interval
<1>5. q \in Surjection(1..n, S)
  BY <1>3, <1>4, FS_Injection
<1>6. \A x \in S : \E i \in 1..n : q[i] = x
  BY <1>5 DEF Surjection
<1>7. q \in Seq(S)
  BY <1>1, <1>2
<1> QED
  BY <1>2, <1>6, <1>7 DEF ToSet, Distinct

\* A sequence that repeats nothing is as long as its set is large, and two that have
\* nothing in common repeat nothing together.
LEMMA DistinctCardinality ==
  ASSUME NEW S, NEW s \in Seq(S), Distinct(s)
  PROVE  Len(s) = Cardinality(ToSet(s))
<1>1. Len(s) \in Nat /\ DOMAIN s = 1..Len(s)
  OBVIOUS
<1>2. IsFiniteSet(1..Len(s)) /\ Cardinality(1..Len(s)) = Len(s)
  BY <1>1, FS_Interval
<1>3. s \in [1..Len(s) -> ToSet(s)]
  BY <1>1 DEF ToSet
<1>4. s \in Surjection(1..Len(s), ToSet(s))
  BY <1>1, <1>3 DEF Surjection, ToSet
<1>5. s \in Injection(1..Len(s), ToSet(s))
  BY <1>1, <1>3 DEF Injection, IsInjective, Distinct
<1> QED
  BY <1>2, <1>4, <1>5, FS_Surjection

LEMMA DistinctConcat ==
  ASSUME NEW S, NEW s \in Seq(S), NEW t \in Seq(S), NEW r, r = s \o t,
         Distinct(s),
         Distinct(t),
         ToSet(s) \cap ToSet(t) = {}
  PROVE  Distinct(r)
<1>1. /\ DOMAIN r = 1..(Len(s) + Len(t)) /\ DOMAIN s = 1..Len(s) /\ DOMAIN t = 1..Len(t)
      /\ Len(s) \in Nat /\ Len(t) \in Nat
      /\ \A i \in 1..(Len(s) + Len(t)) : r[i] = IF i <= Len(s) THEN s[i] ELSE t[i - Len(s)]
  OBVIOUS
<1>2. \A i \in DOMAIN s, j \in DOMAIN t : s[i] # t[j]
  BY DEF ToSet
<1>3. ASSUME NEW i \in DOMAIN r, NEW j \in DOMAIN r, r[i] = r[j] PROVE i = j
  <2>1. CASE i <= Len(s) /\ j <= Len(s)
    BY <1>1, <1>3, <2>1 DEF Distinct
  <2>2. CASE i > Len(s) /\ j > Len(s)
    <3>1. i - Len(s) \in DOMAIN t /\ j - Len(s) \in DOMAIN t /\ t[i - Len(s)] = t[j - Len(s)]
      BY <1>1, <1>3, <2>2
    <3>2. i - Len(s) = j - Len(s)
      BY <3>1 DEF Distinct
    <3> QED
      BY <1>1, <3>2
  <2>3. CASE i <= Len(s) /\ j > Len(s)
    <3>1. i \in DOMAIN s /\ j - Len(s) \in DOMAIN t /\ s[i] = t[j - Len(s)]
      BY <1>1, <1>3, <2>3
    <3> QED
      BY <1>2, <3>1
  <2>4. CASE i > Len(s) /\ j <= Len(s)
    <3>1. j \in DOMAIN s /\ i - Len(s) \in DOMAIN t /\ s[j] = t[i - Len(s)]
      BY <1>1, <1>3, <2>4
    <3> QED
      BY <1>2, <3>1
  <2> QED
    BY <1>1, <2>1, <2>2, <2>3, <2>4
<1> QED
  BY <1>3 DEF Distinct

-----------------------------------------------------------------------------
\* Whatever waits, or was looked at, can be reached from the start.
SearchTypes ==
  /\ op \in {"hasCycle", "transitive"} /\ answer \in {"none", "true", "false", "done"}
  /\ start \in Tasks /\ target \in Tasks /\ visited \subseteq Tasks
  /\ work \in Seq(Tasks) /\ result \in Seq(Tasks)
  /\ Acyclic(graph)

Reached == \A x \in visited \cup ToSet(work) : Reaches(graph, start, x)

\* hasCycleLocked: what leaves a visited node waits or was visited, and is not the
\* task looked for, until the answer is yes.
DepthInv ==
  op = "hasCycle" =>
    /\ answer # "done"
    /\ answer = "true" => Reaches(graph, start, target)
    /\ answer = "false" => target # start /\ work = <<>>
    /\ answer \in {"none", "false"} =>
         /\ start \in visited \cup ToSet(work)
         /\ \A x \in visited : /\ BlockersOf(x) \subseteq visited \cup ToSet(work)
                               /\ target \notin BlockersOf(x)

\* TransitiveDependencies: the visited nodes are the reported ones, and what leaves
\* them is visited or waits behind them in the queue.
BreadthInv ==
  op = "transitive" =>
    /\ answer \in {"none", "done"}
    /\ answer = "done" => work = <<>>
    /\ start \notin visited /\ ToSet(result) = visited
    /\ Distinct(result)
    /\ \A x \in visited \cup {start} : x \in ToSet(work) \/ BlockersOf(x) \subseteq visited

SearchInv == SearchTypes /\ Reached /\ DepthInv /\ BreadthInv

LEMMA SearchStart == SearchInit => SearchInv
<1> SUFFICES ASSUME SearchInit PROVE SearchInv
  OBVIOUS
<1>1. /\ op \in {"hasCycle", "transitive"} /\ answer = "none" /\ start \in Tasks
      /\ target \in Tasks /\ visited = {} /\ work = <<start>> /\ result = <<>>
      /\ Acyclic(graph)
  BY DEF SearchInit, graph
<1>2. work \in Seq(Tasks) /\ result \in Seq(Tasks)
  BY <1>1
<1>3. ToSet(work) = {start} /\ ToSet(result) = {}
  BY <1>1, ToSetNone
<1>4. DOMAIN result = {}
  BY <1>1
<1>5. SearchTypes
  BY <1>1, <1>2 DEF SearchTypes
<1>6. Reached
  BY <1>1, <1>3, ReachesSelf DEF Reached
<1>7. DepthInv /\ BreadthInv
  BY <1>1, <1>3, <1>4 DEF DepthInv, BreadthInv, Distinct
<1> QED
  BY <1>5, <1>6, <1>7 DEF SearchInv

\* The graph does not change during a search.
LEMMA GraphStays ==
  ASSUME [SearchNext]_searchVars
  PROVE  /\ UNCHANGED <<edges, resolved, op, start, target>> /\ graph' = graph
         /\ \A x : BlockersOf(x)' = BlockersOf(x)
BY DEF SearchNext, searchVars, SelfEdge, DepthFirst, NoCycle, BreadthFirst, BreadthFirstDone, graph, BlockersOf

LEMMA DepthFirstStep ==
  ASSUME IsFiniteSet(Tasks), SearchInv, DepthFirst
  PROVE  SearchInv'
<1>1. /\ UNCHANGED <<op, start, target, result>> /\ graph' = graph
      /\ \A x : BlockersOf(x)' = BlockersOf(x)
  BY GraphStays DEF SearchNext, DepthFirst
<1>2. /\ op = "hasCycle" /\ answer = "none" /\ target # start /\ work # <<>>
      /\ work \in Seq(Tasks) /\ start \in Tasks /\ target \in Tasks /\ visited \subseteq Tasks
  BY DEF DepthFirst, SearchInv, SearchTypes
<1>3. PICK node, rest : node = Last(work) /\ rest = Front(work)
  OBVIOUS
<1>4. node \in Tasks /\ rest \in Seq(Tasks) /\ ToSet(work) = ToSet(rest) \cup {node}
  BY <1>2, <1>3, ToSetLast
<1>5. Reaches(graph, start, node)
  BY <1>4 DEF SearchInv, Reached
<1>6. \A y \in BlockersOf(node) : y \in Tasks /\ Reaches(graph, start, y)
  BY <1>2, <1>4, <1>5, ReachesForward DEF BlockersOf
<1>7. CASE node \in visited /\ work' = rest /\ UNCHANGED <<visited, answer>>
  <2>1. SearchTypes'
    BY <1>1, <1>4, <1>7 DEF SearchInv, SearchTypes
  <2>2. Reached'
    BY <1>1, <1>4, <1>7 DEF SearchInv, Reached
  <2>3. DepthInv' /\ BreadthInv'
    BY <1>1, <1>2, <1>4, <1>7 DEF SearchInv, DepthInv, BreadthInv
  <2> QED
    BY <2>1, <2>2, <2>3 DEF SearchInv
<1>8. CASE /\ node \notin visited /\ visited' = visited \cup {node}
           /\ target \in BlockersOf(node) /\ answer' = "true" /\ work' = rest
  <2>1. SearchTypes'
    BY <1>1, <1>4, <1>8 DEF SearchInv, SearchTypes
  <2>2. Reached'
    BY <1>1, <1>4, <1>8 DEF SearchInv, Reached
  <2>3. DepthInv' /\ BreadthInv'
    BY <1>1, <1>2, <1>6, <1>8 DEF SearchInv, DepthInv, BreadthInv
  <2> QED
    BY <2>1, <2>2, <2>3 DEF SearchInv
<1>9. CASE /\ node \notin visited /\ visited' = visited \cup {node}
           /\ target \notin BlockersOf(node) /\ UNCHANGED answer
           /\ \E order \in SetToSeqs(BlockersOf(node)) : work' = rest \o order
  <2>1. PICK order \in SetToSeqs(BlockersOf(node)) : work' = rest \o order
    BY <1>9
  <2>2. IsFiniteSet(BlockersOf(node))
    BY FS_Subset DEF BlockersOf
  <2>3. order \in Seq(BlockersOf(node)) /\ ToSet(order) = BlockersOf(node)
    BY <2>2, Orders
  <2>4. order \in Seq(Tasks)
    <3>1. BlockersOf(node) \subseteq Tasks
      BY DEF BlockersOf
    <3> QED
      BY <2>3, <3>1, SeqOfMore
  <2>5. work' \in Seq(Tasks) /\ ToSet(work') = ToSet(rest) \cup BlockersOf(node)
    BY <1>4, <2>1, <2>3, <2>4, ToSetConcat
  <2>6. SearchTypes'
    BY <1>1, <1>4, <1>9, <2>5 DEF SearchInv, SearchTypes
  <2>7. Reached'
    BY <1>1, <1>4, <1>6, <1>9, <2>5 DEF SearchInv, Reached
  <2>8. DepthInv' /\ BreadthInv'
    BY <1>1, <1>2, <1>4, <1>9, <2>5 DEF SearchInv, DepthInv, BreadthInv
  <2> QED
    BY <2>6, <2>7, <2>8 DEF SearchInv
<1> QED
  BY <1>3, <1>7, <1>8, <1>9 DEF DepthFirst

LEMMA BreadthFirstStep ==
  ASSUME IsFiniteSet(Tasks), SearchInv, BreadthFirst
  PROVE  SearchInv'
<1>1. /\ UNCHANGED <<op, start, target, answer>> /\ graph' = graph
      /\ \A x : BlockersOf(x)' = BlockersOf(x)
  BY GraphStays DEF SearchNext, BreadthFirst
<1>2. /\ op = "transitive" /\ answer = "none" /\ work # <<>> /\ work \in Seq(Tasks)
      /\ result \in Seq(Tasks) /\ start \in Tasks /\ target \in Tasks /\ visited \subseteq Tasks
  BY DEF BreadthFirst, SearchInv, SearchTypes
<1>3. PICK node, rest : node = Head(work) /\ rest = Tail(work)
  OBVIOUS
<1>4. node \in Tasks /\ rest \in Seq(Tasks) /\ ToSet(work) = ToSet(rest) \cup {node}
  BY <1>2, <1>3, ToSetHead
<1>5. Reaches(graph, start, node)
  BY <1>4 DEF SearchInv, Reached
<1>6. \A y \in BlockersOf(node) : y \in Tasks /\ Reaches(graph, start, y)
  BY <1>2, <1>4, <1>5, ReachesForward DEF BlockersOf
<1>7. start \notin BlockersOf(node)
  <2>1. SUFFICES ASSUME <<node, start>> \in graph PROVE FALSE
    BY DEF BlockersOf
  <2>2. Acyclic(graph)
    BY DEF SearchInv, SearchTypes
  <2>3. graph \cup {<<node, start>>} = graph
    BY <2>1
  <2> QED
    BY <1>2, <1>4, <1>5, <2>2, <2>3, ClosesCycle
<1>8. PICK order \in SetToSeqs(BlockersOf(node) \ visited) :
        result' = result \o order /\ work' = rest \o order
  BY <1>3 DEF BreadthFirst
<1>9. visited' = visited \cup BlockersOf(node)
  BY <1>3 DEF BreadthFirst
<1>10. IsFiniteSet(BlockersOf(node) \ visited)
  BY FS_Subset DEF BlockersOf
<1>11. /\ order \in Seq(BlockersOf(node) \ visited) /\ ToSet(order) = BlockersOf(node) \ visited
       /\ Distinct(order)
  BY <1>10, Orders
<1>12. order \in Seq(Tasks)
  <2>1. BlockersOf(node) \ visited \subseteq Tasks
    BY DEF BlockersOf
  <2> QED
    BY <1>11, <2>1, SeqOfMore
<1>13. work' \in Seq(Tasks) /\ ToSet(work') = ToSet(rest) \cup (BlockersOf(node) \ visited)
  BY <1>4, <1>8, <1>11, <1>12, ToSetConcat
<1>14. result' \in Seq(Tasks) /\ ToSet(result') = ToSet(result) \cup (BlockersOf(node) \ visited)
  BY <1>2, <1>8, <1>11, <1>12, ToSetConcat
<1>15. ToSet(result) = visited /\ Distinct(result)
  BY <1>2 DEF SearchInv, BreadthInv
<1>16. Distinct(result')
  <2>1. ToSet(result) \cap ToSet(order) = {}
    BY <1>11, <1>15
  <2>2. PICK q \in Seq(Tasks) : q = result
    BY <1>2
  <2>3. Distinct(q)
    BY <1>15, <2>2
  <2>4. PICK r : r = result'
    OBVIOUS
  <2>5. r = q \o order /\ ToSet(q) \cap ToSet(order) = {}
    BY <1>8, <2>1, <2>2, <2>4
  <2>6. Distinct(order)
    BY <1>11
  <2>7. Distinct(r)
    BY <1>12, <2>3, <2>5, <2>6, DistinctConcat
  <2> QED
    BY <2>4, <2>7
<1>17. SearchTypes'
  BY <1>1, <1>6, <1>9, <1>13, <1>14 DEF SearchInv, SearchTypes
<1>18. Reached'
  BY <1>1, <1>4, <1>6, <1>9, <1>13 DEF SearchInv, Reached
<1>19. \A x \in visited' \cup {start} : x \in ToSet(work') \/ BlockersOf(x) \subseteq visited'
  BY <1>2, <1>4, <1>9, <1>13 DEF SearchInv, BreadthInv
<1>20. DepthInv' /\ BreadthInv'
  BY <1>1, <1>2, <1>7, <1>9, <1>14, <1>15, <1>16, <1>19 DEF SearchInv, DepthInv, BreadthInv
<1> QED
  BY <1>17, <1>18, <1>20 DEF SearchInv

LEMMA SearchStep ==
  ASSUME IsFiniteSet(Tasks), SearchInv, [SearchNext]_searchVars
  PROVE  SearchInv'
<1>1. /\ UNCHANGED <<op, start, target>> /\ graph' = graph
      /\ \A x : BlockersOf(x)' = BlockersOf(x)
  BY GraphStays
<1>2. CASE SelfEdge
  <2>1. op = "hasCycle" /\ target = start /\ answer' = "true" /\ UNCHANGED <<work, visited, result>>
    BY <1>2 DEF SelfEdge
  <2>2. Reaches(graph, start, target)
    BY <2>1, ReachesSelf DEF SearchInv, SearchTypes
  <2> QED
    BY <1>1, <2>1, <2>2 DEF SearchInv, SearchTypes, Reached, DepthInv, BreadthInv
<1>3. CASE NoCycle
  <2>1. /\ op = "hasCycle" /\ answer = "none" /\ target # start /\ work = <<>>
        /\ answer' = "false" /\ UNCHANGED <<work, visited, result>>
    BY <1>3 DEF NoCycle
  <2> QED
    BY <1>1, <2>1 DEF SearchInv, SearchTypes, Reached, DepthInv, BreadthInv
<1>4. CASE BreadthFirstDone
  <2>1. /\ op = "transitive" /\ answer = "none" /\ work = <<>>
        /\ answer' = "done" /\ UNCHANGED <<work, visited, result>>
    BY <1>4 DEF BreadthFirstDone
  <2> QED
    BY <1>1, <2>1 DEF SearchInv, SearchTypes, Reached, DepthInv, BreadthInv
<1>5. CASE UNCHANGED searchVars
  BY <1>1, <1>5 DEF searchVars, SearchInv, SearchTypes, Reached, DepthInv, BreadthInv
<1> QED
  BY <1>2, <1>3, <1>4, <1>5, DepthFirstStep, BreadthFirstStep DEF SearchNext

\* hasCycleLocked answers true exactly when the new edge would close a cycle of
\* unresolved edges, for any finite set of tasks and any order of the slice.
THEOREM CycleCheckExact ==
  ASSUME IsFiniteSet(Tasks)
  PROVE  SearchSpec => []CycleCheckIsExact
<1>1. SearchInv /\ [SearchNext]_searchVars => SearchInv'
  BY SearchStep
<1>2. SearchInv => CycleCheckIsExact
  <2> SUFFICES ASSUME SearchInv, answer \in {"true", "false"}
               PROVE  answer = "true" <=> ~Acyclic(graph \cup {<<target, start>>})
    BY DEF CycleCheckIsExact
  <2>1. op = "hasCycle" /\ start \in Tasks /\ target \in Tasks /\ Acyclic(graph)
    BY DEF SearchInv, SearchTypes, BreadthInv
  <2>2. answer = "true" => Reaches(graph, start, target)
    BY <2>1 DEF SearchInv, DepthInv
  <2>3. ASSUME answer = "false" PROVE ~Reaches(graph, start, target)
    <3>1. ToSet(work) = {} /\ target # start
      BY <2>1, <2>3, ToSetNone DEF SearchInv, DepthInv
    <3> DEFINE S == visited \ {target}
    <3>2. S \in SUBSET Tasks /\ start \in S
      BY <2>1, <2>3, <3>1 DEF SearchInv, SearchTypes, DepthInv
    <3>3. ClosedUnder(graph, S)
      BY <2>1, <2>3, <3>1 DEF SearchInv, DepthInv, ClosedUnder, BlockersOf
    <3> QED
      BY <3>2, <3>3 DEF Reaches
  <2>4. Acyclic(graph \cup {<<target, start>>}) <=> ~Reaches(graph, start, target)
    BY <2>1, ClosesCycle
  <2> QED
    BY <2>2, <2>3, <2>4
<1> QED
  BY SearchStart, <1>1, <1>2, PTL DEF SearchSpec

\* TransitiveDependencies lists every task that is reachable over unresolved edges,
\* each once, and never the task itself, for any finite set of tasks and any order
\* of the slice.
THEOREM TransitiveExact ==
  ASSUME IsFiniteSet(Tasks)
  PROVE  SearchSpec => []TransitiveIsExact
<1>1. SearchInv /\ [SearchNext]_searchVars => SearchInv'
  BY SearchStep
<1>2. SearchInv => TransitiveIsExact
  <2> SUFFICES ASSUME SearchInv, answer = "done"
               PROVE  /\ ToSet(result) = {y \in Tasks \ {start} : Reaches(graph, start, y)}
                      /\ Len(result) = Cardinality(ToSet(result))
    BY DEF TransitiveIsExact
  <2>1. /\ op = "transitive" /\ start \in Tasks /\ visited \subseteq Tasks
        /\ result \in Seq(Tasks)
    BY DEF SearchInv, SearchTypes, DepthInv
  <2>2. /\ ToSet(work) = {} /\ ToSet(result) = visited /\ start \notin visited
        /\ Distinct(result)
    BY <2>1, ToSetNone DEF SearchInv, BreadthInv
  <2>3. \A x \in visited : Reaches(graph, start, x)
    BY DEF SearchInv, Reached
  <2>4. \A x \in visited \cup {start} : BlockersOf(x) \subseteq visited
    BY <2>1, <2>2 DEF SearchInv, BreadthInv
  <2>5. ClosedUnder(graph, visited \cup {start})
    BY <2>4 DEF ClosedUnder, BlockersOf
  <2>6. \A y \in Tasks : Reaches(graph, start, y) => y \in visited \cup {start}
    BY <2>1, <2>5 DEF Reaches
  <2>7. Len(result) = Cardinality(ToSet(result))
    BY <2>1, <2>2, DistinctCardinality
  <2> QED
    BY <2>1, <2>2, <2>3, <2>6, <2>7
<1> QED
  BY SearchStart, <1>1, <1>2, PTL DEF SearchSpec

-----------------------------------------------------------------------------
\* Edges that leave t do not help to reach t.
LEMMA OwnEdgesDoNotHelp ==
  ASSUME NEW G, NEW N, NEW t \in Tasks, NEW b \in Tasks, \A e \in N : \E x : e = <<t, x>>
  PROVE  Reaches(G \cup N, b, t) <=> Reaches(G, b, t)
<1>1. ASSUME Reaches(G \cup N, b, t), NEW S \in SUBSET Tasks, b \in S, ClosedUnder(G, S)
      PROVE  t \in S
  <2> SUFFICES ASSUME t \notin S PROVE FALSE
    OBVIOUS
  <2>1. \A x \in S : \A y : <<x, y>> \notin N
    OBVIOUS
  <2>2. ClosedUnder(G \cup N, S)
    BY <1>1, <2>1 DEF ClosedUnder
  <2> QED
    BY <1>1, <2>2 DEF Reaches
<1>2. ASSUME Reaches(G, b, t), NEW S \in SUBSET Tasks, b \in S, ClosedUnder(G \cup N, S)
      PROVE  t \in S
  BY <1>2 DEF Reaches, ClosedUnder
<1> QED
  BY <1>1, <1>2 DEF Reaches

\* extractDependenciesLocked adds the blockers of a message one after the other, each
\* checked against the graph with the earlier ones added.  One more blocker gives what
\* AddDependencies computes for all of them from the graph before the message; so the
\* order in which they are named is irrelevant, for any tasks and any graph.
LEMMA BlockersOneByOne ==
  ASSUME NEW E, NEW t \in Tasks, NEW named \in SUBSET Tasks, NEW b \in Tasks
  PROVE  /\ AddDependencies(E, resolved, t, {}) = E
         /\ AddOne(AddDependencies(E, resolved, t, named), t, b)
              = AddDependencies(E, resolved, t, named \cup {b})
<1> DEFINE Fits(x) == <<t, x>> \notin E /\ ~HasCycle(E \ resolved, t, x)
           N == {<<t, x>> : x \in {y \in named : Fits(y)}}
           F == E \cup N
<1>1. F = AddDependencies(E, resolved, t, named)
  BY DEF AddDependencies
<1>2. F \ resolved = (E \ resolved) \cup (N \ resolved)
  OBVIOUS
<1>3. \A e \in N \ resolved : \E x : e = <<t, x>>
  OBVIOUS
<1>4. HasCycle(F \ resolved, t, b) <=> HasCycle(E \ resolved, t, b)
  <2> HIDE DEF N, F
  <2> QED
    BY <1>2, <1>3, OwnEdgesDoNotHelp DEF HasCycle
<1>5. AddDependencies(E, resolved, t, named \cup {b}) = F \cup (IF Fits(b) THEN {<<t, b>>} ELSE {})
  <2>1. {x \in named \cup {b} : Fits(x)} = {x \in named : Fits(x)} \cup (IF Fits(b) THEN {b} ELSE {})
    OBVIOUS
  <2>2. AddDependencies(E, resolved, t, named \cup {b})
          = E \cup {<<t, x>> : x \in {y \in named \cup {b} : Fits(y)}}
    BY DEF AddDependencies
  <2> HIDE DEF Fits
  <2> QED
    BY <2>1, <2>2
<1>6. AddOne(F, t, b) = F \cup (IF Fits(b) THEN {<<t, b>>} ELSE {})
  <2>1. CASE <<t, b>> \in F
    BY <2>1 DEF AddOne
  <2>2. CASE <<t, b>> \notin F
    <3>1. Fits(b) <=> ~HasCycle(F \ resolved, t, b)
      BY <1>4, <2>2
    <3> QED
      BY <2>2, <3>1 DEF AddOne
  <2> QED
    BY <2>1, <2>2
<1>7. AddDependencies(E, resolved, t, {}) = E
  BY DEF AddDependencies
<1> QED
  BY <1>1, <1>5, <1>6, <1>7

\* The same for the edges and the resolved ones of the store.
LEMMA OneMoreBlocker ==
  ASSUME NEW t \in Tasks, NEW A \in SUBSET Tasks, NEW b \in Tasks
  PROVE  AddOne(AddDependencies(edges, resolved, t, A), t, b)
           = AddDependencies(edges, resolved, t, A \cup {b})
BY BlockersOneByOne

\* The loop over the blockers a message names is a fold; what it has after some of
\* them is what AddDependencies computes for these.
LEMMA LoopAddsAll ==
  ASSUME NEW t \in Tasks, NEW n \in Nat, NEW named \in [1..n -> Tasks]
  PROVE  AddInOrder(t, named) = AddDependencies(edges, resolved, t, ToSet(named))
<1> DEFINE Turn(f, s) == IF s = {} THEN edges ELSE AddOne(f[s \ {Max(s)}], t, named[Max(s)])
           Solves(f) == f = [s \in SUBSET DOMAIN named |-> Turn(f, s)]
           Of(s) == {named[i] : i \in s}
           g == [s \in SUBSET DOMAIN named |-> AddDependencies(edges, resolved, t, Of(s))]
           h == CHOOSE f : Solves(f)
<1>1. AddInOrder(t, named) = h[DOMAIN named]
  BY DEF AddInOrder, FoldLeft, MapThenFoldSet
<1>2. DOMAIN named = 1..n
  OBVIOUS
<1>3. ASSUME NEW s \in SUBSET (1..n) PROVE Of(s) \in SUBSET Tasks
  OBVIOUS
<1>4. Solves(g)
  <2> SUFFICES ASSUME NEW s \in SUBSET DOMAIN named
               PROVE  AddDependencies(edges, resolved, t, Of(s)) = Turn(g, s)
    OBVIOUS
  <2>1. CASE s = {}
    BY <2>1, BlockersOneByOne
  <2>2. CASE s # {}
    <3> DEFINE m == Max(s)
    <3>1. m \in s
      BY <1>2, <2>2, MaxOfSome
    <3>2. Of(s) = Of(s \ {m}) \cup {named[m]} /\ s \ {m} \in SUBSET DOMAIN named /\ named[m] \in Tasks
      BY <3>1
    <3>3. g[s \ {m}] = AddDependencies(edges, resolved, t, Of(s \ {m}))
      BY <3>2
    <3>4. Of(s \ {m}) \in SUBSET Tasks
      BY <1>2, <3>2, <1>3
    <3> DEFINE A == Of(s \ {m})
               b == named[m]
    <3> HIDE DEF m, Of, g, A, b
    <3>5. A \in SUBSET Tasks /\ b \in Tasks
      BY <3>2, <3>4 DEF A, b
    <3>6. AddOne(AddDependencies(edges, resolved, t, A), t, b) = AddDependencies(edges, resolved, t, A \cup {b})
      BY <3>5, OneMoreBlocker, Zenon
    <3>7. AddOne(g[s \ {m}], t, named[m]) = AddDependencies(edges, resolved, t, Of(s))
      BY <3>2, <3>3, <3>6 DEF A, b
    <3> QED
      BY <2>2, <3>7 DEF m
  <2> QED
    BY <2>1, <2>2
<1>5. Solves(h)
  <2> HIDE DEF Solves, g
  <2> QED
    BY <1>4
<1>6. ASSUME NEW s \in SUBSET (1..n) PROVE h[s] = Turn(h, s)
  BY <1>2, <1>5
<1> DEFINE K == {k \in Nat : k <= n => h[1..k] = AddDependencies(edges, resolved, t, Of(1..k))}
<1> HIDE DEF h
<1>7. 0 \in K
  <2>1. 1..0 = {} /\ Of({}) = {}
    OBVIOUS
  <2>2. h[{}] = edges
    BY <1>6
  <2> QED
    BY <2>1, <2>2, BlockersOneByOne
<1>8. ASSUME NEW k \in Nat, k \in K PROVE k + 1 \in K
  <2> SUFFICES ASSUME k + 1 <= n
               PROVE  h[1..(k + 1)] = AddDependencies(edges, resolved, t, Of(1..(k + 1)))
    OBVIOUS
  <2>1. /\ 1..(k + 1) \in SUBSET (1..n) /\ 1..k \in SUBSET (1..n)
        /\ h[1..k] = AddDependencies(edges, resolved, t, Of(1..k))
        /\ named[k + 1] \in Tasks
    BY <1>8
  <2>2. h[1..(k + 1)] = AddOne(h[1..k], t, named[k + 1])
    <3> DEFINE J == 1..(k + 1)
    <3>1. Max(J) = k + 1 /\ J \ {k + 1} = 1..k /\ J # {}
      BY MaxOfSegment
    <3>2. J \in SUBSET (1..n)
      BY <2>1
    <3> HIDE DEF J
    <3>3. h[J] = Turn(h, J)
      BY <3>2, <1>6
    <3> QED
      BY <3>1, <3>3 DEF J
  <2>3. Of(1..(k + 1)) = Of(1..k) \cup {named[k + 1]} /\ Of(1..k) \in SUBSET Tasks
    <3> DEFINE J == 1..(k + 1)
               I == 1..k
    <3>1. J = I \cup {k + 1} /\ I \in SUBSET (1..n)
      BY <2>1
    <3> HIDE DEF I, J
    <3>2. Of(J) = Of(I) \cup {named[k + 1]} /\ Of(I) \in SUBSET Tasks
      BY <3>1, <1>3
    <3> QED
      BY <3>2 DEF I, J
  <2> DEFINE A == Of(1..k)
             b == named[k + 1]
  <2>4. AddOne(AddDependencies(edges, resolved, t, A), t, b) = AddDependencies(edges, resolved, t, A \cup {b})
    <3>1. A \in SUBSET Tasks /\ b \in Tasks
      BY <2>1, <2>3
    <3> HIDE DEF A, b
    <3> QED
      BY <3>1, OneMoreBlocker, Zenon
  <2>5. AddOne(h[1..k], t, b) = AddDependencies(edges, resolved, t, A \cup {b})
    BY <2>1, <2>4
  <2> HIDE DEF Of
  <2> QED
    BY <2>2, <2>3, <2>5
<1>9. n \in K
  <2> HIDE DEF K
  <2> QED
    BY <1>7, <1>8, NatSetInduction
<1>10. h[1..n] = AddDependencies(edges, resolved, t, Of(1..n))
  BY <1>9
<1>11. ToSet(named) = Of(1..n)
  BY <1>2 DEF ToSet
<1> HIDE DEF Of
<1> QED
  BY <1>1, <1>2, <1>10, <1>11

\* The order in which a message names its blockers, and naming one twice, make no
\* difference to the edges that are added: for any graph, any tasks and any number of
\* names, the loop of extractDependenciesLocked gives what AddDependencies computes.
THEOREM NamesInAnyOrder == SearchSpec => []NamingOrderIrrelevant
<1>1. SearchInit => start \in Tasks
  BY DEF SearchInit
<1>2. start \in Tasks /\ [SearchNext]_searchVars => (start \in Tasks)'
  BY GraphStays
<1>3. start \in Tasks => NamingOrderIrrelevant
  BY LoopAddsAll DEF NamingOrderIrrelevant
<1> QED
  BY <1>1, <1>2, <1>3, PTL DEF SearchSpec
=============================================================================
