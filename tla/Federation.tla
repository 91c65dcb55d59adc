----------------------------- MODULE Federation ------------------------------
(***************************************************************************)
(* FederationManager (internal/agent/federation.go): bridges that relay    *)
(* what is said in a channel of their own server to channels of linked     *)
(* servers and back.  A relayed message starts with "[fed:", and no bridge *)
(* relays such a message again.                                            *)
(*                                                                         *)
(* A place is a channel of a server.  Links are added and channels mapped  *)
(* before Start (agent.go startFederation), so they are constants.  The    *)
(* servers are external; they are taken to echo messages to their sender,  *)
(* which the handlers have to tell apart.  A handler sends by one mapping  *)
(* after the other, and others may act between two of its messages.        *)
(***************************************************************************)
EXTENDS Naturals, Sequences, FiniteSets

CONSTANTS Bridges,   \* the agents that run a FederationManager
          Places,
          Texts,     \* what is said; each text once
          Links,     \* fm.links: per bridge, the names of its links
          Mappings   \* fm.mappings: per bridge, a sequence of [local, link, remote]

\* "local" is the client of the bridge's own server.  A mapping joins two places;
\* one of a channel to itself, which the code does not refuse, would say everything
\* twice in it.  It may name a link that the bridge does not have.
ASSUME FederationConstants ==
  \A b \in Bridges :
    /\ "local" \notin Links[b]
    /\ \A i \in DOMAIN Mappings[b] :
         /\ Mappings[b][i].link # "local"
         /\ Mappings[b][i].local \in Places /\ Mappings[b][i].remote \in Places
         /\ Mappings[b][i].local # Mappings[b][i].remote

VARIABLES fed,     \* "configured", "started", "failed" or "shutdown", per bridge
          linked,  \* the links whose client is connected
          events,  \* per bridge and client, message events not handled yet
          relaying,  \* per bridge and client, a text and by which mappings it has
                     \* still to be relayed
          said,    \* history: who said a text, where, and the bridges started then
          copies   \* history: how often a bridge relayed a text by a mapping

fedVars == <<fed, linked, events, relaying, said, copies>>

Unsaid  == [place |-> "nowhere"]
NoRelay == [text |-> "none", via |-> {}]

FedInit ==
  /\ fed = [b \in Bridges |-> "configured"]
  /\ linked = [b \in Bridges |-> {}]
  /\ events = [b \in Bridges |-> [c \in {"local"} \cup Links[b] |-> <<>>]]
  /\ relaying = [b \in Bridges |-> [c \in {"local"} \cup Links[b] |-> NoRelay]]
  /\ said = [t \in Texts |-> Unsaid]
  /\ copies = [b \in Bridges |-> [i \in DOMAIN Mappings[b] |-> [t \in Texts |-> 0]]]

-----------------------------------------------------------------------------
\* The clients of bridge b that are in the place.
Present(b, place) ==
  LET ms == {Mappings[b][i] : i \in DOMAIN Mappings[b]}
  IN  {c \in {"local"} \cup linked[b] :
         \E m \in ms : \/ c = "local" /\ m.local = place
                       \/ c = m.link /\ m.remote = place}

\* A server delivers a message to every client in its place.
Delivered(m) ==
  [b \in Bridges |-> [c \in DOMAIN events[b] |->
     IF c \in Present(b, m.place) THEN Append(events[b][c], m) ELSE events[b][c]]]

\* Mutant of IsFederatedMessage: nothing is recognised as relayed.
IsFederatedNever(e) == FALSE

\* IsFederatedMessage: the "[fed:" prefix.
IsFederatedMessage(e) == e.prefixed

\* Mutant of Routes: the loop ends at the first mapping by a link that is not there.
RoutesUntilUnknown(b, client, e) ==
  {i \in DOMAIN Mappings[b] :
     LET m == Mappings[b][i]
     IN  /\ \A j \in 1..i : Mappings[b][j].link \in Links[b]
         /\ \/ client = "local" /\ m.local = e.place
            \/ client = m.link /\ m.remote = e.place}

\* The mappings by which an event is relayed: of the event's link and channel; one
\* by a link that the bridge does not have is skipped.
Routes(b, client, e) ==
  {i \in DOMAIN Mappings[b] :
     LET m == Mappings[b][i]
     IN  /\ m.link \in Links[b]
         /\ \/ client = "local" /\ m.local = e.place
            \/ client = m.link /\ m.remote = e.place}

\* The handlers Start registers: not what is relayed already, not what the bridge
\* itself says on its own server, and the rest by every mapping that fits
\* (relayLocalToRemote, relayRemoteToLocal).
Relays(b, client, e) ==
  IF IsFederatedMessage(e) \/ (client = "local" /\ e.nick = b)
  THEN {} ELSE Routes(b, client, e)

\* What is sent by a mapping.
Relayed(b, client, i, t) ==
  [place |-> IF client = "local" THEN Mappings[b][i].remote ELSE Mappings[b][i].local,
   nick |-> b, text |-> t, prefixed |-> TRUE]

-----------------------------------------------------------------------------
\* Start, the loop over the links: Connect succeeds, or Start returns its error
\* and leaves the links that are connected already.
ConnectLink(b, l) ==
  /\ fed[b] = "configured" /\ l \in Links[b] \ linked[b]
  /\ \/ linked' = [linked EXCEPT ![b] = @ \cup {l}] /\ UNCHANGED fed
     \/ fed' = [fed EXCEPT ![b] = "failed"] /\ UNCHANGED linked
  /\ UNCHANGED <<events, relaying, said, copies>>

\* Start, the rest: the handlers are registered.
RegisterRelays(b) ==
  /\ fed[b] = "configured" /\ linked[b] = Links[b]
  /\ fed' = [fed EXCEPT ![b] = "started"]
  /\ UNCHANGED <<linked, events, relaying, said, copies>>

\* Shutdown disconnects the links; the handlers stay registered.
ShutdownLinks(b) ==
  /\ fed[b] \in {"started", "failed"}
  /\ fed' = [fed EXCEPT ![b] = "shutdown"]
  /\ linked' = [linked EXCEPT ![b] = {}]
  /\ events' = [events EXCEPT ![b] = [c \in DOMAIN @ |-> IF c = "local" THEN @[c] ELSE <<>>]]
  /\ UNCHANGED <<relaying, said, copies>>

\* Somebody says a text: a user, or the application of a bridge's own agent.  A
\* text may look as if it were relayed.
Say(t, place, nick, prefixed) ==
  /\ said[t] = Unsaid
  /\ nick \in Bridges => "local" \in Present(nick, place)
  /\ said' = [said EXCEPT ![t] =
       [place |-> place, nick |-> nick, prefixed |-> prefixed,
        bridges |-> {b \in Bridges : fed[b] = "started"}]]
  /\ events' = Delivered([place |-> place, nick |-> nick, text |-> t,
                          prefixed |-> prefixed])
  /\ UNCHANGED <<fed, linked, relaying, copies>>

\* A client of bridge b hands its next event to the handlers, if there are any.
HandleEvent(b, client) ==
  /\ events[b][client] # <<>> /\ relaying[b][client].via = {}
  /\ LET e == Head(events[b][client])
     IN  relaying' = [relaying EXCEPT ![b][client] =
           [text |-> e.text,
            via  |-> IF fed[b] \in {"started", "shutdown"} THEN Relays(b, client, e) ELSE {}]]
  /\ events' = [events EXCEPT ![b][client] = Tail(@)]
  /\ UNCHANGED <<fed, linked, said, copies>>

\* One turn of the loop over the mappings: by a link the message is only sent while
\* its client is connected.
RelayMessage(b, client, i) ==
  LET t == relaying[b][client].text
  IN  /\ i \in relaying[b][client].via /\ \A j \in relaying[b][client].via : i <= j
      /\ relaying' = [relaying EXCEPT ![b][client].via = @ \ {i}]
      /\ IF client # "local" \/ Mappings[b][i].link \in linked[b]
         THEN /\ events' = Delivered(Relayed(b, client, i, t))
              /\ copies' = [copies EXCEPT ![b][i][t] = @ + 1]
         ELSE UNCHANGED <<events, copies>>
      /\ UNCHANGED <<fed, linked, said>>

\* The goroutine of a client.
ClientRuns(b, client) ==
  \/ HandleEvent(b, client)
  \/ \E i \in DOMAIN Mappings[b] : RelayMessage(b, client, i)

FedNext ==
  \/ \E t \in Texts, p \in Places, n \in Bridges \cup {"user"}, x \in BOOLEAN : Say(t, p, n, x)
  \/ \E b \in Bridges :
       \/ \E l \in Links[b] : ConnectLink(b, l)
       \/ RegisterRelays(b)
       \/ ShutdownLinks(b)
       \/ \E c \in DOMAIN events[b] : ClientRuns(b, c)

\* Clients hand on their events, and handlers return.
FedFairness ==
  \A b \in Bridges : \A c \in {"local"} \cup Links[b] : WF_fedVars(ClientRuns(b, c))

FedSpec == FedInit /\ [][FedNext]_fedVars /\ FedFairness

-----------------------------------------------------------------------------
\* A bridge relays a text at most once by a mapping: although bridges on both
\* ends relay each other's channels, and hear their own messages, no message goes
\* round.
RelayedOnce ==
  \A b \in Bridges : \A i \in DOMAIN Mappings[b], t \in Texts : copies[b][i][t] <= 1

\* What a user says in a mapped channel of either side, when the bridge is
\* started, is relayed by each mapping of that channel to a link that the bridge
\* has, unless the bridge shuts down before.  (What the bridge's own agent says on
\* its server is not relayed.)
UsersAreHeard ==
  \A b \in Bridges : \A i \in DOMAIN Mappings[b], t \in Texts :
    (/\ said[t] # Unsaid
     /\ said[t].nick = "user" /\ ~said[t].prefixed /\ b \in said[t].bridges
     /\ Mappings[b][i].link \in Links[b]
     /\ said[t].place \in {Mappings[b][i].local, Mappings[b][i].remote})
      ~> (copies[b][i][t] = 1 \/ fed[b] = "shutdown")
=============================================================================
