------------------------------ MODULE EventHub -------------------------------
(***************************************************************************)
(* How the manager's observers follow it (internal/manager/hub.go, serveWS *)
(* of server.go, handleIRCMessage and dispatchToStores of manager.go): the *)
(* goroutine of the IRC client and those of HTTP requests change the       *)
(* stores and broadcast events; every subscriber has a bounded buffer, and *)
(* an event that finds it full is dropped for that subscriber.             *)
(*                                                                         *)
(* What is in the stores is left out; a store knows which messages were    *)
(* applied to it.  The agents' stores are modelled elsewhere.              *)
(***************************************************************************)
EXTENDS Naturals, Sequences, FiniteSets, SequencesExt

CONSTANTS Actors,       \* goroutines that broadcast: "irc" and HTTP requests
          Subscribers,  \* wsConns
          BufferSize,   \* the capacity of wsConn.send
          Actions,      \* the protocol actions that are received
          MaxJobs       \* the most messages and requests

VARIABLES jobs,      \* messages and requests so far
          todo,      \* per goroutine, what the call it is in has still to do
          changed,   \* which message or request changed which store
          clients,   \* h.clients
          readers,   \* per goroutine, the clients its Broadcast has still to visit
          casting,   \* the goroutines that hold h.mu.RLock
          buffer,    \* wsConn.send
          closed,    \* the wsConns whose send is closed
          written,   \* history: what serveWS has written to a subscriber
          dropped,   \* history: what found a buffer full
          owed       \* history: what was broadcast since a subscriber registered

hubVars == <<jobs, todo, changed, clients, readers, casting, buffer, closed,
             written, dropped, owed>>

HubInit ==
  /\ jobs = 0
  /\ todo = [g \in Actors |-> <<>>]
  /\ changed = {} /\ clients = {} /\ closed = {} /\ casting = {}
  /\ readers = [g \in Actors |-> {}]
  /\ buffer = [c \in Subscribers |-> <<>>]
  /\ written = [c \in Subscribers |-> <<>>]
  /\ dropped = [c \in Subscribers |-> {}]
  /\ owed = [c \in Subscribers |-> {}]

-----------------------------------------------------------------------------
TaskActions  == {"STARTED", "COMPLETED", "BLOCKED", "ACKNOWLEDGED", "OFFER", "CLAIM",
                 "ASSIGN", "ACCEPT", "DECLINE", "YIELD", "CHECKPOINT", "HANDOFF"}
BoardActions == {"OFFER", "CLAIM", "ASSIGN", "DECLINE", "YIELD"}

\* handleCapabilities of the manager.
CapabilitiesSteps == <<"discovery", "registry", "agent_update">>

\* dispatchToStores: the stores an action changes, and the events it broadcasts.
dispatchToStores(action) ==
  (CASE action \in TaskActions     -> <<"state">>
     [] action \in {"CONTEXT", "SHARING-CONTEXT", "REQUEST-CONTEXT"} -> <<"context">>
     [] action = "CAPABILITIES"    -> CapabilitiesSteps
     [] action = "COST-REPORT"     -> <<"costs", "cost">>
     [] OTHER                      -> <<>>)
  \o (IF action \in BoardActions THEN <<"board">> ELSE <<>>)
  \o (IF action = "OFFER" THEN <<"task_update">> ELSE <<>>)

\* Mutant of handleIRCMessage: the event first.
handleIRCMessageEventFirst(action) ==
  <<"inspector", "message">> \o dispatchToStores(action)

\* handleIRCMessage.
handleIRCMessage(action) ==
  <<"inspector">> \o dispatchToStores(action) \o <<"message">>

\* The end of SpawnAgent and StopAgent: the registry, then the event.
AgentRequest == <<"registry", "agent_update">>

EventTypes == {"message", "task_update", "cost", "agent_update"}

\* The stores an event sends its subscribers to.
TellsOf(type) ==
  CASE type = "message"      -> {"inspector", "state", "context", "discovery", "registry",
                                 "costs", "board"}
    [] type = "task_update"  -> {"board"}
    [] type = "cost"         -> {"costs"}
    [] type = "agent_update" -> {"registry"}

-----------------------------------------------------------------------------
\* A goroutine begins a call.  (Steps are pairs of the call's number and a name,
\* with the stores the call changes.)
Begin(g, steps) ==
  /\ jobs < MaxJobs /\ todo[g] = <<>>
  /\ jobs' = jobs + 1
  /\ todo' = [todo EXCEPT ![g] =
       [i \in DOMAIN steps |->
          [job |-> jobs + 1, name |-> steps[i],
           stores |-> ToSet(steps) \cap TellsOf(IF steps[i] \in EventTypes
                                                THEN steps[i] ELSE "message")]]]
  /\ UNCHANGED <<changed, clients, readers, casting, buffer, closed, written, dropped, owed>>

ReceiveMessage == \E a \in Actions : Begin("irc", handleIRCMessage(a))

HandleRequest == \E g \in Actors \ {"irc"} : Begin(g, AgentRequest)

\* A call changes a store.
ChangeStore(g) ==
  /\ todo[g] # <<>> /\ Head(todo[g]).name \notin EventTypes
  /\ changed' = changed \cup {<<Head(todo[g]).job, Head(todo[g]).name>>}
  /\ todo' = [todo EXCEPT ![g] = Tail(@)]
  /\ UNCHANGED <<jobs, clients, readers, casting, buffer, closed, written, dropped, owed>>

\* Broadcast takes the read lock ...
BeginBroadcast(g) ==
  /\ todo[g] # <<>> /\ Head(todo[g]).name \in EventTypes /\ g \notin casting
  /\ casting' = casting \cup {g}
  /\ readers' = [readers EXCEPT ![g] = clients]
  /\ owed' = [c \in Subscribers |->
                IF c \in clients THEN owed[c] \cup {Head(todo[g])} ELSE owed[c]]
  /\ UNCHANGED <<jobs, todo, changed, clients, buffer, closed, written, dropped>>

\* ... offers the event to each client ...
Visit(g, c) ==
  /\ c \in readers[g]
  /\ readers' = [readers EXCEPT ![g] = @ \ {c}]
  /\ IF Len(buffer[c]) < BufferSize
     THEN buffer' = [buffer EXCEPT ![c] = Append(@, Head(todo[g]))] /\ UNCHANGED dropped
     ELSE dropped' = [dropped EXCEPT ![c] = @ \cup {Head(todo[g])}] /\ UNCHANGED buffer
  /\ UNCHANGED <<jobs, todo, changed, clients, casting, closed, written, owed>>

\* ... and releases it.
EndBroadcast(g) ==
  /\ g \in casting /\ readers[g] = {}
  /\ casting' = casting \ {g}
  /\ todo' = [todo EXCEPT ![g] = Tail(@)]
  /\ UNCHANGED <<jobs, changed, clients, readers, buffer, closed, written, dropped, owed>>

\* serveWS: Register, under the write lock.
Register(c) ==
  /\ c \notin clients \cup closed /\ casting = {}
  /\ clients' = clients \cup {c}
  /\ UNCHANGED <<jobs, todo, changed, readers, casting, buffer, closed, written, dropped, owed>>

\* serveWS writes the next event.
WriteEvent(c) ==
  /\ c \in clients /\ buffer[c] # <<>>
  /\ buffer' = [buffer EXCEPT ![c] = Tail(@)]
  /\ written' = [written EXCEPT ![c] = Append(@, Head(buffer[c]))]
  /\ UNCHANGED <<jobs, todo, changed, clients, readers, casting, closed, dropped, owed>>

\* Mutant of Unregister: under the read lock.
UnregisterShared(c) ==
  /\ c \in clients
  /\ clients' = clients \ {c} /\ closed' = closed \cup {c}
  /\ UNCHANGED <<jobs, todo, changed, readers, casting, buffer, written, dropped, owed>>

\* The request of serveWS is done: Unregister, under the write lock.
Unregister(c) ==
  /\ c \in clients /\ casting = {}
  /\ clients' = clients \ {c} /\ closed' = closed \cup {c}
  /\ UNCHANGED <<jobs, todo, changed, readers, casting, buffer, written, dropped, owed>>

HubNext ==
  \/ ReceiveMessage
  \/ HandleRequest
  \/ \E g \in Actors :
       \/ ChangeStore(g) \/ BeginBroadcast(g) \/ EndBroadcast(g)
       \/ \E c \in Subscribers : Visit(g, c)
  \/ \E c \in Subscribers : Register(c) \/ WriteEvent(c) \/ Unregister(c)

HubSpec == HubInit /\ [][HubNext]_hubVars

-----------------------------------------------------------------------------
\* Broadcast never sends on a channel that Unregister has closed, which would
\* bring the manager down: a client a broadcast has still to visit stays
\* registered, however subscribers come and go.
NoSendOnClosed == \A g \in Actors : readers[g] \cap closed = {}

\* A subscriber can follow the manager: an event reaches it only after every store
\* the event sends it to was changed, and of what was broadcast since it
\* registered it misses nothing but what found its own buffer full, whoever else
\* is slow or leaves.
EventsFollowChanges ==
  \A c \in Subscribers :
    LET received == ToSet(written[c]) \cup ToSet(buffer[c])
        pending  == {Head(todo[g]) : g \in {h \in casting : c \in readers[h]}}
    IN  /\ \A e \in received : \A s \in e.stores : <<e.job, s>> \in changed
        /\ c \in clients => owed[c] = received \cup dropped[c] \cup pending
=============================================================================
