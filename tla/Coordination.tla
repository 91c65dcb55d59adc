---------------------------- MODULE Coordination -----------------------------
(***************************************************************************)
(* Agents that talk about tasks over one IRC channel: each has a           *)
(* StateStore (TaskState), an UnblockNotifier (internal/agent/             *)
(* coordinator.go) and several threads of control, which interleave at     *)
(* every lock they release:                                                *)
(*   - the goroutines of the application and the reader's handlers (the    *)
(*     role engine's answers among them) in SendProtocolMessage            *)
(*     (agent.go): each applies its message to the agent's own stores      *)
(*     first and sends it afterwards, with no lock around the two;         *)
(*   - the IRC reader, in handleMessage (protocol.go): the message is      *)
(*     applied, after a COMPLETED the notifier first asks the store for    *)
(*     the unblocked tasks and then, one by one, marks them notified and   *)
(*     sends ACKNOWLEDGED, and at last the registered handlers run.        *)
(*                                                                         *)
(* The channel (external) delivers what is sent to everyone else, in one   *)
(* order for all, at any later time; a broken connection loses what was    *)
(* not yet read, and a message written to a dead connection is lost.       *)
(***************************************************************************)
EXTENDS TaskState, Naturals, Sequences

CONSTANTS Apps,        \* the goroutines of an agent's application
          Kinds,       \* the actions each thread announces
          Announcers,  \* for each task, the threads that speak about it
          MaxSends,    \* the most messages the threads announce
          MaxLosses    \* the most losses on the network

\* The threads of an agent that call SendProtocolMessage, and those of all.
Threads == Apps \cup {"reader"}
Senders == Nicks \X Threads

ASSUME CoordinationConstants ==
  /\ "reader" \notin Apps
  /\ Kinds \in [Threads -> SUBSET TaskAction]
  /\ Announcers \in [Tasks -> SUBSET Senders]
  /\ MaxSends \in Nat /\ MaxLosses \in Nat

VARIABLES st,        \* each agent's StateStore
          notified,  \* each agent's UnblockNotifier.notified
          out,       \* the message a thread has applied and not yet sent
          reader,    \* where each agent's handleMessage is
          inbox,     \* what the server has relayed to an agent and it has not read
          acks,      \* history: how often an agent acknowledged a task
          sends, losses

vars == <<st, notified, out, reader, inbox, acks, sends, losses>>

\* A thread that is not in SendProtocolMessage, a reader that waits.
Idle == [pc |-> "idle"]

\* handleMessage of a COMPLETED about task `by', once the store is updated.
Completing(by) == [pc |-> "completed", by |-> by]

\* OnTaskCompleted, in its loop over the tasks UnblockedTasks returned.
Notifying(by, todo) == [pc |-> "notifying", by |-> by, todo |-> todo]

\* handleMessage, in its loop over the registered handlers.
Handling == [pc |-> "handling"]

Unblocked(s) == UnblockedTasks(s.tasks, s.edges, s.resolved)

Init ==
  /\ st = [a \in Nicks |-> NewStore]
  /\ notified = [a \in Nicks |-> {}]
  /\ out = [s \in Senders |-> Idle]
  /\ reader = [a \in Nicks |-> Idle]
  /\ inbox = [a \in Nicks |-> <<>>]
  /\ acks = [a \in Nicks |-> [t \in Tasks |-> 0]]
  /\ sends = 0 /\ losses = 0

\* What a thread of agent a may announce: about its tasks, with at most one
\* blocker per BLOCKED, an ASSIGN or HANDOFF to somebody or to nobody.
Announcements(a, w) ==
  {m \in [action : Kinds[w], task : Tasks, nick : {a}, to : Nicks \cup {NoNick},
          waitingFor : Tasks \cup {NoTask}, blockedBy : {{}}] :
     /\ <<a, w>> \in Announcers[m.task]
     /\ m.to # NoNick => m.action \in {"ASSIGN", "HANDOFF"}
     /\ m.waitingFor # NoTask => m.action = "BLOCKED"}

\* The server relays m to everyone in the channel but its sender.
Relay(a, m) ==
  inbox' = [b \in Nicks |-> IF b = a THEN inbox[b] ELSE Append(inbox[b], m)]

-----------------------------------------------------------------------------
\* Thread w of agent a may call SendProtocolMessage: a handler only while the
\* reader is in its loop.
MayAnnounce(a, w) ==
  /\ out[<<a, w>>] = Idle
  /\ w = "reader" => reader[a] = Handling
  /\ sends < MaxSends

\* Mutant of ApplyOwn: the agent relies on an echo of its own message.
ApplyNothing(a, w) ==
  /\ MayAnnounce(a, w)
  /\ \E m \in Announcements(a, w) : out' = [out EXCEPT ![<<a, w>>] = m]
  /\ sends' = sends + 1
  /\ UNCHANGED <<st, notified, reader, inbox, acks, losses>>

\* SendProtocolMessage, up to updateLocalState.
ApplyOwn(a, w) ==
  /\ MayAnnounce(a, w)
  /\ \E m \in Announcements(a, w) :
       /\ st' = [st EXCEPT ![a] = UpdateTask(@, m)]
       /\ out' = [out EXCEPT ![<<a, w>>] = m]
  /\ sends' = sends + 1
  /\ UNCHANGED <<notified, reader, inbox, acks, losses>>

\* The rest of SendProtocolMessage: client.SendMessage.
SendOwn(a, w) ==
  /\ out[<<a, w>>] # Idle
  /\ Relay(a, out[<<a, w>>])
  /\ out' = [out EXCEPT ![<<a, w>>] = Idle]
  /\ UNCHANGED <<st, notified, reader, acks, sends, losses>>

\* handleMessage: UpdateTask; a COMPLETED goes on to the notifier, anything else
\* to the handlers.
Receive(a) ==
  /\ reader[a] = Idle
  /\ inbox[a] # <<>>
  /\ LET m == Head(inbox[a])
     IN /\ st' = [st EXCEPT ![a] = UpdateTask(@, m)]
        /\ reader' = [reader EXCEPT ![a] =
             IF m.action = "COMPLETED" THEN Completing(m.task) ELSE Handling]
  /\ inbox' = [inbox EXCEPT ![a] = Tail(@)]
  /\ UNCHANGED <<notified, out, acks, sends, losses>>

\* OnTaskCompleted: read the unblocked tasks, return if there are none.
CheckUnblocked(a) ==
  /\ reader[a].pc = "completed"
  /\ reader' = [reader EXCEPT ![a] =
       IF Unblocked(st[a]) = {} THEN Handling
       ELSE Notifying(reader[a].by, Unblocked(st[a]))]
  /\ UNCHANGED <<st, notified, out, inbox, acks, sends, losses>>

\* Mutants of Acknowledge: the notified set is not consulted; a task that was
\* notified before ends the loop.
AcknowledgeAlways(a) ==
  /\ reader[a].pc = "notifying"
  /\ \E t \in reader[a].todo :
       LET left == reader[a].todo \ {t}
       IN /\ reader' = [reader EXCEPT ![a] =
               IF left = {} THEN Handling ELSE Notifying(reader[a].by, left)]
          /\ notified' = [notified EXCEPT ![a] = @ \cup {t}]
          /\ acks' = [acks EXCEPT ![a][t] = @ + 1]
  /\ UNCHANGED <<st, out, inbox, sends, losses>>

AcknowledgeUntilNotified(a) ==
  /\ reader[a].pc = "notifying"
  /\ \E t \in reader[a].todo :
       LET left == IF t \in notified[a] THEN {} ELSE reader[a].todo \ {t}
       IN /\ reader' = [reader EXCEPT ![a] =
               IF left = {} THEN Handling ELSE Notifying(reader[a].by, left)]
          /\ notified' = [notified EXCEPT ![a] = @ \cup {t}]
          /\ acks' = [acks EXCEPT ![a][t] = IF t \in notified[a] THEN @ ELSE @ + 1]
  /\ UNCHANGED <<st, out, inbox, sends, losses>>

\* OnTaskCompleted's loop: a task already notified is skipped, another one is
\* marked and acknowledged on the channel (not in the agent's own store).
Acknowledge(a) ==
  /\ reader[a].pc = "notifying"
  /\ \E t \in reader[a].todo :
       LET left == reader[a].todo \ {t}
       IN /\ reader' = [reader EXCEPT ![a] =
               IF left = {} THEN Handling ELSE Notifying(reader[a].by, left)]
          /\ \/ /\ t \in notified[a]
                /\ UNCHANGED <<notified, inbox, acks>>
             \/ /\ t \notin notified[a]
                /\ notified' = [notified EXCEPT ![a] = @ \cup {t}]
                /\ acks' = [acks EXCEPT ![a][t] = @ + 1]
                /\ Relay(a, [action |-> "ACKNOWLEDGED", task |-> t, nick |-> a,
                             to |-> NoNick, waitingFor |-> NoTask,
                             blockedBy |-> {}])
  /\ UNCHANGED <<st, out, sends, losses>>

\* The handlers have returned: the reader goes on to the next message.
EndHandlers(a) ==
  /\ reader[a] = Handling
  /\ out[<<a, "reader">>] = Idle
  /\ reader' = [reader EXCEPT ![a] = Idle]
  /\ UNCHANGED <<st, notified, out, inbox, acks, sends, losses>>

-----------------------------------------------------------------------------
\* The agent's connection breaks: what it has not read is gone.
LoseInbox(a) ==
  /\ losses < MaxLosses
  /\ inbox[a] # <<>>
  /\ inbox' = [inbox EXCEPT ![a] = <<>>]
  /\ losses' = losses + 1
  /\ UNCHANGED <<st, notified, out, reader, acks, sends>>

\* SendMessage on a connection that is down: nobody receives it.
LoseSend(a, w) ==
  /\ losses < MaxLosses
  /\ out[<<a, w>>] # Idle
  /\ out' = [out EXCEPT ![<<a, w>>] = Idle]
  /\ losses' = losses + 1
  /\ UNCHANGED <<st, notified, reader, inbox, acks, sends>>

\* The reader's work on a message it has begun, and on the next one.
Read(a) == Receive(a) \/ CheckUnblocked(a) \/ Acknowledge(a) \/ EndHandlers(a)

Quiet ==
  /\ \A s \in Senders : out[s] = Idle
  /\ \A a \in Nicks : reader[a] = Idle /\ inbox[a] = <<>>

\* Everything announced has been handled; nothing more will be said.
Settled == Quiet /\ sends = MaxSends /\ UNCHANGED vars

Next ==
  \/ \E a \in Nicks, w \in Threads : \/ ApplyOwn(a, w)
                                     \/ SendOwn(a, w)
                                     \/ LoseSend(a, w)
  \/ \E a \in Nicks : \/ Receive(a)
                      \/ CheckUnblocked(a)
                      \/ Acknowledge(a)
                      \/ EndHandlers(a)
                      \/ LoseInbox(a)
  \/ Settled

\* The reader's goroutine and a thread inside SendProtocolMessage keep running;
\* nobody has to announce anything and nothing has to be lost.
Fairness ==
  /\ \A a \in Nicks : WF_vars(Read(a))
  /\ \A a \in Nicks, w \in Threads : WF_vars(SendOwn(a, w))

Spec == Init /\ [][Next]_vars /\ Fairness

-----------------------------------------------------------------------------
\* An agent acknowledges a task at most once, however often its blockers
\* complete and however the reader and the application interleave.
OneAckPerTask == \A a \in Nicks, t \in Tasks : acks[a][t] <= 1

\* What the notifier read from the store still holds when it sends, for the
\* tasks its application does not speak about: the lock is released in between,
\* but the reader handles nothing else meanwhile, the handlers come later and
\* nobody's completion takes an unblocking back.  (The application may re-block
\* a task in that window.)
AckIsCurrent ==
  \A a \in Nicks :
    reader[a].pc = "notifying" =>
      \A t \in reader[a].todo :
        (\A w \in Apps : <<a, w>> \notin Announcers[t]) =>
          /\ st[a].tasks[t].status = "blocked"
          /\ \A b \in Tasks : <<t, b>> \notin st[a].edges \ st[a].resolved

\* When one thread of one agent speaks about a task, nothing was lost and
\* everything is handled, all agents have the same status and owner for it,
\* although each applies its own messages early and the acknowledgements cross.
\* (Two threads of one agent may apply in one order and send in the other, as
\* two agents may: SendProtocolMessage has no lock around the two steps.)
StatusesAgree ==
  Quiet /\ losses = 0 =>
    \A t \in Tasks, n \in Nicks, w \in Threads : Announcers[t] = {<<n, w>>} =>
      \A a \in Nicks : st[a].tasks[t] = st[n].tasks[t]

\* When the notifier's loop is over, no task it found unblocked is left out: a
\* task it skips as notified does not end the loop, and no interleaving with
\* the application does.
FoundIsAcknowledged ==
  [][\A a \in Nicks :
       reader[a].pc = "notifying" /\ reader'[a].pc # "notifying"
         => reader[a].todo \subseteq notified'[a]]_vars

=============================================================================
