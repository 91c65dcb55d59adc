--------------------------- MODULE TransportProofs ---------------------------
(***************************************************************************)
(* The way of a message: what the IRC client, its rate limiter, the        *)
(* bridges between servers, String and Parse guarantee for any number of   *)
(* channels, calls, goroutines, bridges and texts, and values of any       *)
(* length.                                                                 *)
(***************************************************************************)
EXTENDS IrcClient, RateLimiter, Federation, Wire, DataLemmas, FiniteSetTheorems, TLAPS

-----------------------------------------------------------------------------
(***************************************************************************)
(* The IRC client.  While the connection is down nothing is under way, so  *)
(* no 001 resets the backoff while the loop sleeps.                        *)
(***************************************************************************)
Somewhere == Channels \cup {CHOOSE c \in Channels : TRUE}
Command   == [verb : {"JOIN", "PART", "QUIT"}, channel : Somewhere]
Event     == [verb : {"001", "JOIN", "PART", "KICK"}, channel : Somewhere]

ClientTypes ==
  /\ toServer \in Seq(Command) /\ fromServer \in Seq(Event)
  /\ channels \subseteq Somewhere /\ parting \subseteq Channels
  /\ attempt \in Nat /\ tries \in Nat /\ drops \in Nat
  /\ link = "down" => members = {} /\ toServer = <<>> /\ fromServer = <<>>
  /\ loop = "sleeping" => link = "down"

\* Every call of Reconnect was counted by the backoff before.
Counted ==
  /\ tries <= attempt
  /\ loop = "sleeping" => tries < attempt
  /\ MaxReconnectAttempts > 0 => attempt <= MaxReconnectAttempts

\* In a queue of events: one about the channel, none, and the last one is one of
\* the verbs.
Tells(e, c)        == e.channel = c /\ e.verb # "001"
Silent(q, c)       == \A i \in DOMAIN q : ~Tells(q[i], c)
EndsIn(q, c, vs) ==
  \E i \in DOMAIN q : /\ Tells(q[i], c) /\ q[i].verb \in vs
                      /\ \A j \in DOMAIN q : j > i => ~Tells(q[j], c)

\* The entries that no delete of Part awaits, and the channels that a JOIN told the
\* client of while one did.
Kept == (channels \ parting) \cup crossed

\* What the client will know, once the events under way are handled.
WillBeIn(c)  == EndsIn(fromServer, c, {"JOIN"}) \/ (Silent(fromServer, c) /\ c \in Kept)
WillBeOut(c) == EndsIn(fromServer, c, {"PART", "KICK"})
                \/ (Silent(fromServer, c) /\ c \notin channels)

\* In a queue of commands: a PART of the channel.
Parts(q, c) == \E i \in DOMAIN q : q[i].verb = "PART" /\ q[i].channel = c

\* A channel that the client is in: it is known or will be, or is about to be left.
InIsKnown == \A c \in members : WillBeIn(c) \/ Parts(toServer, c)

\* A channel that the client is not in.
OutIsKnown ==
  /\ \A i \in DOMAIN toServer : toServer[i].verb = "QUIT" => quit
  /\ drops = 0 /\ ~quit => \A c \in Somewhere \ members : WillBeOut(c)

ClientInv == ClientTypes /\ Counted /\ InIsKnown /\ OutIsKnown

-----------------------------------------------------------------------------
\* An event at the end of the queue, and one taken from its head.
LEMMA AppendedEvent ==
  ASSUME NEW q \in Seq(Event), NEW e \in Event, NEW c, NEW vs
  PROVE  /\ Silent(Append(q, e), c) <=> Silent(q, c) /\ ~Tells(e, c)
         /\ EndsIn(Append(q, e), c, vs) <=> IF Tells(e, c) THEN e.verb \in vs ELSE EndsIn(q, c, vs)
<1> DEFINE r == Append(q, e)
<1>1. /\ DOMAIN r = 1..(Len(q) + 1) /\ DOMAIN q = 1..Len(q) /\ Len(q) \in Nat
      /\ \A i \in 1..Len(q) : r[i] = q[i]
      /\ r[Len(q) + 1] = e
  OBVIOUS
<1> HIDE DEF r
<1>2. Silent(r, c) <=> Silent(q, c) /\ ~Tells(e, c)
  BY <1>1 DEF Silent
<1>3. CASE Tells(e, c)
  <2>1. ASSUME e.verb \in vs PROVE EndsIn(r, c, vs)
    BY <1>1, <1>3, <2>1 DEF EndsIn
  <2>2. ASSUME EndsIn(r, c, vs) PROVE e.verb \in vs
    <3>1. PICK i \in DOMAIN r : /\ Tells(r[i], c) /\ r[i].verb \in vs
                                /\ \A j \in DOMAIN r : j > i => ~Tells(r[j], c)
      BY <2>2 DEF EndsIn
    <3>2. i = Len(q) + 1
      BY <1>1, <1>3, <3>1
    <3> QED BY <1>1, <3>1, <3>2
  <2> QED BY <1>2, <1>3, <2>1, <2>2 DEF r
<1>4. CASE ~Tells(e, c)
  <2>1. ASSUME EndsIn(q, c, vs) PROVE EndsIn(r, c, vs)
    <3>1. PICK i \in DOMAIN q : /\ Tells(q[i], c) /\ q[i].verb \in vs
                                /\ \A j \in DOMAIN q : j > i => ~Tells(q[j], c)
      BY <2>1 DEF EndsIn
    <3>2. \A j \in DOMAIN r : j > i => ~Tells(r[j], c)
      BY <1>1, <1>4, <3>1
    <3>3. i \in DOMAIN r /\ r[i] = q[i]
      BY <1>1
    <3> QED BY <3>1, <3>2, <3>3 DEF EndsIn
  <2>2. ASSUME EndsIn(r, c, vs) PROVE EndsIn(q, c, vs)
    <3>1. PICK i \in DOMAIN r : /\ Tells(r[i], c) /\ r[i].verb \in vs
                                /\ \A j \in DOMAIN r : j > i => ~Tells(r[j], c)
      BY <2>2 DEF EndsIn
    <3>2. i \in 1..Len(q)
      BY <1>1, <1>4, <3>1
    <3>3. \A j \in DOMAIN q : j > i => ~Tells(q[j], c)
      BY <1>1, <3>1
    <3> QED BY <1>1, <3>1, <3>2, <3>3 DEF EndsIn
  <2> QED BY <1>2, <1>4, <2>1, <2>2 DEF r
<1> QED BY <1>3, <1>4

LEMMA HandledEvent ==
  ASSUME NEW q \in Seq(Event), q # <<>>, NEW c
  PROVE  /\ Head(q) \in Event /\ Tail(q) \in Seq(Event)
         /\ Silent(q, c) <=> Silent(Tail(q), c) /\ ~Tells(Head(q), c)
         /\ \A vs : EndsIn(q, c, vs) =>
                      \/ EndsIn(Tail(q), c, vs)
                      \/ Silent(Tail(q), c) /\ Tells(Head(q), c) /\ Head(q).verb \in vs
<1> DEFINE r == Tail(q)
<1>1. /\ DOMAIN r = 1..(Len(q) - 1) /\ DOMAIN q = 1..Len(q) /\ Len(q) \in Nat \ {0}
      /\ \A i \in 1..(Len(q) - 1) : r[i] = q[i + 1]
      /\ Head(q) = q[1] /\ Head(q) \in Event /\ r \in Seq(Event)
  OBVIOUS
<1> HIDE DEF r
<1>2. \A i \in DOMAIN q : i = 1 \/ (i - 1 \in DOMAIN r /\ r[i - 1] = q[i])
  <2> SUFFICES ASSUME NEW i \in DOMAIN q, i # 1 PROVE i - 1 \in DOMAIN r /\ r[i - 1] = q[i]
    OBVIOUS
  <2>1. i - 1 \in 1..(Len(q) - 1) /\ (i - 1) + 1 = i
    BY <1>1
  <2> QED BY <1>1, <2>1
<1>3. Silent(q, c) <=> Silent(r, c) /\ ~Tells(Head(q), c)
  <2>1. ASSUME Silent(q, c) PROVE Silent(r, c) /\ ~Tells(Head(q), c)
    BY <1>1, <2>1 DEF Silent
  <2>2. ASSUME Silent(r, c) /\ ~Tells(Head(q), c) PROVE Silent(q, c)
    BY <1>1, <1>2, <2>2 DEF Silent
  <2> QED BY <2>1, <2>2
<1>4. ASSUME NEW vs, EndsIn(q, c, vs)
      PROVE  \/ EndsIn(r, c, vs)
             \/ Silent(r, c) /\ Tells(Head(q), c) /\ Head(q).verb \in vs
  <2>1. PICK i \in DOMAIN q : /\ Tells(q[i], c) /\ q[i].verb \in vs
                              /\ \A j \in DOMAIN q : j > i => ~Tells(q[j], c)
    BY <1>4 DEF EndsIn
  <2>2. \A j \in DOMAIN r : j + 1 \in DOMAIN q /\ q[j + 1] = r[j]
    BY <1>1
  <2>3. CASE i = 1
    <3>1. \A j \in DOMAIN r : j + 1 > 1
      BY <1>1
    <3>2. Silent(r, c)
      BY <2>1, <2>2, <2>3, <3>1 DEF Silent
    <3> QED BY <1>1, <2>1, <2>3, <3>2
  <2>4. CASE i # 1
    <3>1. i - 1 \in DOMAIN r /\ r[i - 1] = q[i]
      BY <1>2, <2>4
    <3>2. \A j \in DOMAIN r : j > i - 1 => j + 1 > i
      BY <1>1
    <3>3. \A j \in DOMAIN r : j > i - 1 => ~Tells(r[j], c)
      BY <2>1, <2>2, <3>2
    <3> QED BY <2>1, <3>1, <3>3 DEF EndsIn
  <2> QED BY <2>3, <2>4
<1> QED BY <1>1, <1>3, <1>4 DEF r

\* Commands behind others, and one taken from the head.
LEMMA SentCommands ==
  ASSUME NEW q \in Seq(Command), NEW cs \in Seq(Command), NEW c
  PROVE  /\ q \o cs \in Seq(Command)
         /\ Parts(q, c) => Parts(q \o cs, c)
         /\ Parts(cs, c) => Parts(q \o cs, c)
         /\ \A i \in DOMAIN (q \o cs) : \/ i \in DOMAIN q /\ (q \o cs)[i] = q[i]
                                        \/ \E k \in DOMAIN cs : (q \o cs)[i] = cs[k]
<1> DEFINE r == q \o cs
<1>1. /\ r \in Seq(Command) /\ DOMAIN r = 1..(Len(q) + Len(cs))
      /\ DOMAIN q = 1..Len(q) /\ DOMAIN cs = 1..Len(cs) /\ Len(q) \in Nat /\ Len(cs) \in Nat
      /\ \A i \in 1..(Len(q) + Len(cs)) : r[i] = IF i <= Len(q) THEN q[i] ELSE cs[i - Len(q)]
  OBVIOUS
<1> HIDE DEF r
<1>2. \A i \in DOMAIN q : i \in DOMAIN r /\ r[i] = q[i]
  BY <1>1
<1>3. \A k \in DOMAIN cs : Len(q) + k \in DOMAIN r /\ r[Len(q) + k] = cs[k]
  <2> SUFFICES ASSUME NEW k \in DOMAIN cs PROVE Len(q) + k \in DOMAIN r /\ r[Len(q) + k] = cs[k]
    OBVIOUS
  <2>1. Len(q) + k \in 1..(Len(q) + Len(cs)) /\ ~(Len(q) + k <= Len(q)) /\ (Len(q) + k) - Len(q) = k
    BY <1>1
  <2> QED BY <1>1, <2>1
<1>4. \A i \in DOMAIN r : \/ i \in DOMAIN q /\ r[i] = q[i]
                          \/ \E k \in DOMAIN cs : i = Len(q) + k /\ r[i] = cs[k]
  <2> SUFFICES ASSUME NEW i \in DOMAIN r, i \notin DOMAIN q
               PROVE  \E k \in DOMAIN cs : i = Len(q) + k /\ r[i] = cs[k]
    BY <1>2
  <2>1. i - Len(q) \in DOMAIN cs /\ i = Len(q) + (i - Len(q)) /\ r[i] = cs[i - Len(q)]
    BY <1>1
  <2> QED BY <2>1
<1>5. Parts(q, c) => Parts(r, c)
  BY <1>2 DEF Parts
<1>6. Parts(cs, c) => Parts(r, c)
  BY <1>3 DEF Parts
<1> QED BY <1>1, <1>4, <1>5, <1>6 DEF r

LEMMA ObeyedCommand ==
  ASSUME NEW q \in Seq(Command), q # <<>>, NEW c
  PROVE  /\ Head(q) \in Command /\ Tail(q) \in Seq(Command)
         /\ Parts(q, c) => \/ Parts(Tail(q), c)
                           \/ Head(q).verb = "PART" /\ Head(q).channel = c
         /\ \A i \in DOMAIN Tail(q) : \E j \in DOMAIN q : Tail(q)[i] = q[j]
<1> DEFINE r == Tail(q)
<1>1. /\ DOMAIN r = 1..(Len(q) - 1) /\ DOMAIN q = 1..Len(q) /\ Len(q) \in Nat \ {0}
      /\ \A i \in 1..(Len(q) - 1) : r[i] = q[i + 1]
      /\ Head(q) = q[1] /\ Head(q) \in Command /\ r \in Seq(Command)
  OBVIOUS
<1> HIDE DEF r
<1>2. \A i \in DOMAIN q : i = 1 \/ (i - 1 \in DOMAIN r /\ r[i - 1] = q[i])
  <2> SUFFICES ASSUME NEW i \in DOMAIN q, i # 1 PROVE i - 1 \in DOMAIN r /\ r[i - 1] = q[i]
    OBVIOUS
  <2>1. i - 1 \in 1..(Len(q) - 1) /\ (i - 1) + 1 = i
    BY <1>1
  <2> QED BY <1>1, <2>1
<1>3. \A i \in DOMAIN r : i + 1 \in DOMAIN q /\ r[i] = q[i + 1]
  BY <1>1
<1>4. Parts(q, c) => Parts(r, c) \/ (Head(q).verb = "PART" /\ Head(q).channel = c)
  BY <1>1, <1>2 DEF Parts
<1> QED BY <1>1, <1>3, <1>4 DEF r

-----------------------------------------------------------------------------
\* A set of channels as commands.
LEMMA CommandsOf ==
  ASSUME NEW verb \in {"JOIN", "PART", "QUIT"}, NEW S \in SUBSET Somewhere, IsFiniteSet(S)
  PROVE  /\ Commands(verb, S) \in Seq(Command)
         /\ \A i \in DOMAIN Commands(verb, S) : /\ Commands(verb, S)[i].verb = verb
                                                /\ Commands(verb, S)[i].channel \in S
<1>1. Cardinality(S) \in Nat /\ ExistsBijection(1..Cardinality(S), S)
  BY FS_CardinalityType
<1>2. PICK n \in Nat : n = Cardinality(S)
  BY <1>1
<1>3. \E f \in [1..n -> S] : IsInjective(f)
  BY <1>1, <1>2 DEF ExistsBijection, Bijection, Injection
<1>4. SetToSeq(S) \in [1..n -> S]
  BY <1>2, <1>3 DEF SetToSeq
<1>5. PICK f \in [1..n -> S] : f = SetToSeq(S)
  BY <1>4
<1>6. PICK cs \in Seq(Command) : cs = [i \in 1..n |-> [verb |-> verb, channel |-> f[i]]]
  <2>1. \A i \in 1..n : [verb |-> verb, channel |-> f[i]] \in Command
    BY DEF Command
  <2>2. [i \in 1..n |-> [verb |-> verb, channel |-> f[i]]] \in [1..n -> Command]
    BY <2>1
  <2>3. \A F \in [1..n -> Command] : F \in Seq(Command)
    OBVIOUS
  <2> QED BY <2>2, <2>3, Zenon
<1>7. Commands(verb, S) = cs
  BY <1>2, <1>5, <1>6 DEF Commands
<1>8. \A i \in DOMAIN cs : cs[i].verb = verb /\ cs[i].channel \in S
  BY <1>6
<1> QED BY <1>7, <1>8

LEMMA CommandOf ==
  ASSUME NEW verb \in {"JOIN", "PART"}, NEW c \in Somewhere
  PROVE  /\ Commands(verb, {c}) \in Seq(Command) /\ DOMAIN Commands(verb, {c}) = {1}
         /\ Commands(verb, {c})[1].verb = verb /\ Commands(verb, {c})[1].channel = c
<1>1. IsFiniteSet({c}) /\ Cardinality({c}) = 1
  BY FS_Singleton
<1>2. DOMAIN Commands(verb, {c}) = {1}
  BY <1>1 DEF Commands
<1> QED BY <1>1, <1>2, CommandsOf

\* What is sent on a connection that is down is lost, the rest is behind what was
\* sent before.
LEMMA Sending ==
  ASSUME ClientInv, NEW cs \in Seq(Command), Send(cs), quit => quit',
         \A i \in DOMAIN cs : cs[i].verb = "QUIT" => quit'
  PROVE  /\ toServer' \in Seq(Command)
         /\ link = "down" => toServer' = <<>>
         /\ \A c : Parts(toServer, c) => Parts(toServer', c)
         /\ \A i \in DOMAIN toServer' : toServer'[i].verb = "QUIT" => quit'
<1>1. toServer \in Seq(Command) /\ \A i \in DOMAIN toServer : toServer[i].verb = "QUIT" => quit
  BY DEF ClientInv, ClientTypes, OutIsKnown
<1>2. CASE link = "down"
  BY <1>1, <1>2 DEF Send, ClientInv, ClientTypes
<1>3. CASE link # "down"
  <2>1. PICK q \in Seq(Command) : q = toServer \o cs
    BY <1>1, SentCommands, Zenon
  <2>2. toServer' = q
    BY <1>3, <2>1 DEF Send
  <2>3. /\ \A c : Parts(toServer, c) => Parts(q, c)
        /\ \A i \in DOMAIN q : \/ i \in DOMAIN toServer /\ q[i] = toServer[i]
                               \/ \E k \in DOMAIN cs : q[i] = cs[k]
    BY <1>1, <2>1, SentCommands
  <2>4. \A i \in DOMAIN q : q[i].verb = "QUIT" => quit'
    BY <1>1, <2>3
  <2> QED BY <1>3, <2>2, <2>3, <2>4
<1> QED BY <1>2, <1>3

\* An event is handled: an entry is made by a JOIN and deleted by PART and KICK.
LEMMA Handling ==
  ASSUME ClientInv, NEW verb, Reads(verb), NEW c,
         c \in channels' <=> \/ verb = "JOIN" /\ Tells(Head(fromServer), c)
                             \/ c \in channels /\ ~(verb \in {"PART", "KICK"}
                                                    /\ Tells(Head(fromServer), c)),
         IF verb = "JOIN" /\ Tells(Head(fromServer), c)
         THEN c \in Kept' ELSE Tells(Head(fromServer), c) \/ (c \in Kept => c \in Kept')
  PROVE  /\ WillBeIn(c) => WillBeIn(c)'
         /\ WillBeOut(c) => WillBeOut(c)'
<1>1. fromServer \in Seq(Event) /\ fromServer # <<>> /\ Head(fromServer).verb = verb
      /\ fromServer' = Tail(fromServer)
  BY DEF ClientInv, ClientTypes, Reads
<1>2. /\ Silent(fromServer, c) <=> Silent(fromServer', c) /\ ~Tells(Head(fromServer), c)
      /\ \A vs : EndsIn(fromServer, c, vs) =>
                   \/ EndsIn(fromServer', c, vs)
                   \/ Silent(fromServer', c) /\ Tells(Head(fromServer), c) /\ verb \in vs
  BY <1>1, HandledEvent
<1>3. ASSUME WillBeIn(c) PROVE WillBeIn(c)'
  BY <1>2, <1>3 DEF WillBeIn
<1>4. ASSUME WillBeOut(c) PROVE WillBeOut(c)'
  BY <1>2, <1>4 DEF WillBeOut
<1> QED BY <1>3, <1>4

-----------------------------------------------------------------------------
\* Steps that leave the channels, the queues and the connection's past alone.
LEMMA ChannelsGoOn ==
  ASSUME ClientInv, UNCHANGED <<members, toServer, fromServer, channels, parting, crossed,
                                quit, drops>>
  PROVE  InIsKnown' /\ OutIsKnown'
BY DEF ClientInv, InIsKnown, OutIsKnown, WillBeIn, WillBeOut, Kept

\* Steps that send, and leave the rest alone.
LEMMA SendGoesOn ==
  ASSUME ClientInv, NEW cs \in Seq(Command), Send(cs), quit => quit',
         \A i \in DOMAIN cs : cs[i].verb = "QUIT" => quit',
         UNCHANGED <<members, drops>>,
         \A c : (WillBeIn(c) => WillBeIn(c)') /\ (WillBeOut(c) => WillBeOut(c)')
  PROVE  InIsKnown' /\ OutIsKnown'
<1>1. /\ \A c : Parts(toServer, c) => Parts(toServer', c)
      /\ \A i \in DOMAIN toServer' : toServer'[i].verb = "QUIT" => quit'
  BY Sending
<1>2. InIsKnown'
  BY <1>1 DEF ClientInv, InIsKnown
<1>3. OutIsKnown'
  BY <1>1 DEF ClientInv, OutIsKnown
<1> QED BY <1>2, <1>3

\* The server puts an event e behind the others.
LEMMA Telling ==
  ASSUME ClientInv, NEW e \in Event, fromServer' = Append(fromServer, e), UNCHANGED <<channels, parting, crossed>>, NEW c
  PROVE  /\ Tells(e, c) /\ e.verb = "JOIN" => WillBeIn(c)'
         /\ Tells(e, c) /\ e.verb \in {"PART", "KICK"} => WillBeOut(c)'
         /\ ~Tells(e, c) => (WillBeIn(c)' <=> WillBeIn(c)) /\ (WillBeOut(c)' <=> WillBeOut(c))
<1>1. fromServer \in Seq(Event)
  BY DEF ClientInv, ClientTypes
<1>2. /\ Silent(fromServer', c) <=> Silent(fromServer, c) /\ ~Tells(e, c)
      /\ \A vs : EndsIn(fromServer', c, vs) <=>
                   IF Tells(e, c) THEN e.verb \in vs ELSE EndsIn(fromServer, c, vs)
  BY <1>1, AppendedEvent
<1> QED BY <1>2 DEF WillBeIn, WillBeOut, Kept

\* JOIN and PART.
LEMMA ObeysKeeps ==
  ASSUME ClientInv, Obeys
  PROVE  InIsKnown' /\ OutIsKnown'
<1>1. /\ toServer \in Seq(Command) /\ toServer # <<>> /\ toServer' = Tail(toServer)
      /\ UNCHANGED <<channels, parting, crossed, quit, drops>>
  BY DEF Obeys, client, counters, ClientInv, ClientTypes
<1>2. PICK m \in Command : m = Head(toServer)
  BY <1>1, ObeyedCommand
<1>3. /\ m.verb # "QUIT" /\ m.verb \in {"JOIN", "PART"} /\ m.channel \in Somewhere
  BY <1>2 DEF Obeys, Command
<1>4. \A c : /\ Parts(toServer, c) => Parts(toServer', c) \/ (m.verb = "PART" /\ m.channel = c)
  BY <1>1, <1>2, ObeyedCommand
<1>5. \A i \in DOMAIN toServer' : toServer'[i].verb = "QUIT" => quit'
  <2>1. \A i \in DOMAIN toServer' : \E j \in DOMAIN toServer : toServer'[i] = toServer[j]
    BY <1>1, ObeyedCommand
  <2> QED BY <1>1, <2>1 DEF ClientInv, OutIsKnown
<1>6. CASE (m.channel \in members) = (m.verb = "JOIN")
  <2>1. UNCHANGED <<members, fromServer>>
    BY <1>2, <1>6 DEF Obeys
  <2>2. \A c : (WillBeIn(c)' <=> WillBeIn(c)) /\ (WillBeOut(c)' <=> WillBeOut(c))
    BY <1>1, <2>1 DEF WillBeIn, WillBeOut, Kept
  <2>3. InIsKnown'
    BY <1>1, <1>3, <1>4, <1>6, <2>1, <2>2 DEF ClientInv, InIsKnown
  <2>4. OutIsKnown'
    BY <1>1, <1>5, <2>1, <2>2 DEF ClientInv, OutIsKnown
  <2> QED BY <2>3, <2>4
<1>7. CASE (m.channel \in members) # (m.verb = "JOIN")
  <2>1. /\ members' = IF m.verb = "JOIN" THEN members \cup {m.channel} ELSE members \ {m.channel}
        /\ fromServer' = Append(fromServer, m)
    BY <1>2, <1>7 DEF Obeys
  <2>2. m \in Event /\ \A c : Tells(m, c) <=> m.channel = c
    BY <1>3 DEF Command, Event, Tells
  <2>3. \A c : /\ m.channel = c /\ m.verb = "JOIN" => WillBeIn(c)'
               /\ m.channel = c /\ m.verb = "PART" => WillBeOut(c)'
               /\ m.channel # c => (WillBeIn(c)' <=> WillBeIn(c)) /\ (WillBeOut(c)' <=> WillBeOut(c))
    BY <1>1, <2>1, <2>2, Telling
  <2>4. InIsKnown'
    BY <1>1, <1>3, <1>4, <2>1, <2>3 DEF ClientInv, InIsKnown
  <2>5. OutIsKnown'
    BY <1>1, <1>3, <1>5, <2>1, <2>3 DEF ClientInv, OutIsKnown
  <2> QED BY <2>4, <2>5
<1> QED BY <1>6, <1>7

LEMMA RefusesKeeps ==
  ASSUME ClientInv, Refuses
  PROVE  InIsKnown' /\ OutIsKnown'
<1>1. /\ toServer \in Seq(Command) /\ toServer # <<>> /\ toServer' = Tail(toServer)
      /\ Head(toServer).verb = "JOIN"
      /\ UNCHANGED <<members, fromServer, channels, parting, crossed, quit, drops>>
  BY DEF Refuses, client, counters, ClientInv, ClientTypes
<1>2. \A c : Parts(toServer, c) => Parts(toServer', c)
  BY <1>1, ObeyedCommand
<1>3. \A i \in DOMAIN toServer' : \E j \in DOMAIN toServer : toServer'[i] = toServer[j]
  BY <1>1, ObeyedCommand
<1>4. \A c : (WillBeIn(c)' <=> WillBeIn(c)) /\ (WillBeOut(c)' <=> WillBeOut(c))
  BY <1>1 DEF WillBeIn, WillBeOut, Kept
<1>5. InIsKnown'
  BY <1>1, <1>2, <1>4 DEF ClientInv, InIsKnown
<1>6. OutIsKnown'
  BY <1>1, <1>3, <1>4 DEF ClientInv, OutIsKnown
<1> QED BY <1>5, <1>6

LEMMA KicksKeeps ==
  ASSUME ClientInv, NEW c \in Channels, Kicks(c)
  PROVE  InIsKnown' /\ OutIsKnown'
<1>1. PICK e \in Event : e = [verb |-> "KICK", channel |-> c]
  BY DEF Event, Somewhere
<1>2. /\ members' = members \ {c} /\ fromServer' = Append(fromServer, e)
      /\ UNCHANGED <<toServer, channels, parting, crossed, quit, drops>>
  BY <1>1 DEF Kicks, client
<1>3. \A d : Tells(e, d) <=> d = c
  BY <1>1 DEF Tells
<1>4. /\ WillBeOut(c)'
      /\ \A d : d # c => (WillBeIn(d)' <=> WillBeIn(d)) /\ (WillBeOut(d)' <=> WillBeOut(d))
  <2>1. e.verb = "KICK"
    BY <1>1
  <2> QED BY <1>2, <1>3, <2>1, Telling
<1>5. InIsKnown'
  BY <1>2, <1>4 DEF ClientInv, InIsKnown
<1>6. OutIsKnown'
  BY <1>2, <1>4 DEF ClientInv, OutIsKnown
<1> QED BY <1>5, <1>6

\* 001, the other events, and what is sent for them.
LEMMA WelcomesKeeps ==
  ASSUME ClientInv, Welcomes
  PROVE  InIsKnown' /\ OutIsKnown'
<1>1. PICK e \in Event : e = About("001")
  BY DEF Event, Somewhere, About
<1>2. /\ fromServer' = Append(fromServer, e)
      /\ UNCHANGED <<members, toServer, channels, parting, crossed, quit, drops>>
  BY <1>1 DEF Welcomes, client, counters
<1>3. \A d : ~Tells(e, d)
  BY <1>1 DEF Tells, About
<1>4. \A d : (WillBeIn(d)' <=> WillBeIn(d)) /\ (WillBeOut(d)' <=> WillBeOut(d))
  BY <1>2, <1>3, Telling
<1> QED BY <1>2, <1>4 DEF ClientInv, InIsKnown, OutIsKnown

LEMMA OnWelcomeKeeps ==
  ASSUME ClientInv, OnWelcome
  PROVE  InIsKnown' /\ OutIsKnown' /\ toServer' \in Seq(Command)
<1>1. /\ Reads("001") /\ Send(Commands("JOIN", Configured))
      /\ UNCHANGED <<members, channels, parting, crossed, quit, drops>>
  BY DEF OnWelcome, counters
<1>2. Configured \in SUBSET Somewhere /\ IsFiniteSet(Configured)
  BY IrcClientConstants DEF Somewhere
<1>3. PICK cs \in Seq(Command) : /\ cs = Commands("JOIN", Configured)
                                 /\ \A i \in DOMAIN cs : /\ cs[i].verb = "JOIN"
                                                         /\ cs[i].channel \in Configured
  BY <1>2, CommandsOf
<1>4. \A c : (WillBeIn(c) => WillBeIn(c)') /\ (WillBeOut(c) => WillBeOut(c)')
  <2>1. Kept' = Kept
    BY <1>1 DEF Kept
  <2>2. Head(fromServer).verb = "001"
    BY <1>1 DEF Reads
  <2> QED BY <1>1, <2>1, <2>2, Handling DEF Tells
<1>5. Send(cs) /\ (quit => quit') /\ \A i \in DOMAIN cs : cs[i].verb = "QUIT" => quit'
  BY <1>1, <1>3
<1>6. InIsKnown' /\ OutIsKnown'
  BY <1>1, <1>3, <1>4, <1>5, SendGoesOn
<1>7. toServer' \in Seq(Command)
  BY <1>5, Sending
<1> QED BY <1>6, <1>7

LEMMA OnJoinKeeps ==
  ASSUME ClientInv, OnJoin \/ OnPart
  PROVE  InIsKnown' /\ OutIsKnown'
<1>1. /\ UNCHANGED <<members, toServer, parting, quit, drops>>
      /\ \/ /\ Reads("JOIN") /\ channels' = channels \cup {Head(fromServer).channel}
            /\ crossed' = IF Head(fromServer).channel \in parting
                          THEN crossed \cup {Head(fromServer).channel}
                          ELSE crossed \ {Head(fromServer).channel}
         \/ /\ Reads("PART") /\ channels' = channels \ {Head(fromServer).channel}
            /\ UNCHANGED crossed
  BY DEF OnJoin, OnPart, counters
<1>2. Head(fromServer).verb # "001"
  BY <1>1 DEF Reads
<1>3. \A c : Tells(Head(fromServer), c) <=> Head(fromServer).channel = c
  BY <1>2 DEF Tells
<1>4. \A c : (WillBeIn(c) => WillBeIn(c)') /\ (WillBeOut(c) => WillBeOut(c)')
  <2> SUFFICES ASSUME NEW c
               PROVE  (WillBeIn(c) => WillBeIn(c)') /\ (WillBeOut(c) => WillBeOut(c)')
    OBVIOUS
  <2>1. CASE Reads("JOIN")
    <3>1. Head(fromServer).channel = c => c \in Kept'
      BY <1>1, <1>2, <2>1 DEF Kept, Reads
    <3>2. Head(fromServer).channel # c => (c \in Kept => c \in Kept')
      BY <1>1, <2>1 DEF Kept, Reads
    <3> QED BY <1>1, <1>3, <2>1, <3>1, <3>2, Handling DEF Reads
  <2>2. CASE Reads("PART")
    <3>1. Head(fromServer).channel # c => (c \in Kept => c \in Kept')
      BY <1>1, <2>2 DEF Kept, Reads
    <3> QED BY <1>1, <1>3, <2>2, <3>1, Handling DEF Reads
  <2> QED BY <1>1, <2>1, <2>2
<1> QED BY <1>1, <1>4 DEF ClientInv, InIsKnown, OutIsKnown

LEMMA OnKickKeeps ==
  ASSUME ClientInv, OnKick
  PROVE  InIsKnown' /\ OutIsKnown' /\ toServer' \in Seq(Command)
<1>1. /\ UNCHANGED <<members, parting, crossed, quit, drops>>
      /\ Reads("KICK") /\ channels' = channels \ {Head(fromServer).channel}
  BY DEF OnKick, counters
<1>2. \A c : Tells(Head(fromServer), c) <=> Head(fromServer).channel = c
  BY <1>1 DEF Tells, Reads
<1>3. \A c : (WillBeIn(c) => WillBeIn(c)') /\ (WillBeOut(c) => WillBeOut(c)')
  <2>1. \A c : Head(fromServer).channel # c => (c \in Kept => c \in Kept')
    BY <1>1 DEF Kept
  <2> QED BY <1>1, <1>2, <2>1, Handling
<1>4. CASE autoRejoin
  <2>1. fromServer \in Seq(Event) /\ fromServer # <<>>
    BY <1>1 DEF Reads, ClientInv, ClientTypes
  <2>2. Head(fromServer) \in Event
    BY <2>1, HandledEvent
  <2>3. Head(fromServer).channel \in Somewhere
    BY <2>2 DEF Event
  <2>4. PICK cs \in Seq(Command) : /\ cs = Commands("JOIN", {Head(fromServer).channel})
                                   /\ DOMAIN cs = {1} /\ cs[1].verb = "JOIN"
    BY <2>3, CommandOf
  <2>5. Send(cs) /\ (quit => quit') /\ \A i \in DOMAIN cs : cs[i].verb = "QUIT" => quit'
    <3>1. Send(Commands("JOIN", {Head(fromServer).channel}))
      BY <1>4 DEF OnKick
    <3>2. Send(cs)
      BY <2>4, <3>1, Zenon
    <3> QED BY <1>1, <2>4, <3>2
  <2>6. InIsKnown' /\ OutIsKnown'
    BY <1>1, <1>3, <1>4, <2>5, SendGoesOn
  <2>7. toServer' \in Seq(Command)
    BY <2>5, Sending
  <2> QED BY <2>6, <2>7
<1>5. CASE ~autoRejoin
  <2>1. UNCHANGED toServer
    BY <1>5 DEF OnKick
  <2> QED BY <1>1, <1>3, <2>1 DEF ClientInv, ClientTypes, InIsKnown, OutIsKnown
<1> QED BY <1>4, <1>5

\* The application's calls.
LEMMA JoinKeeps ==
  ASSUME ClientInv, NEW c \in Channels, Join(c)
  PROVE  InIsKnown' /\ OutIsKnown' /\ toServer' \in Seq(Command)
<1>1. /\ UNCHANGED <<members, fromServer, channels, parting, crossed, quit, drops>>
      /\ parting = {} /\ Send(Commands("JOIN", {c}))
  BY DEF Join, client
<1>2. \A d : (WillBeIn(d) => WillBeIn(d)') /\ (WillBeOut(d) => WillBeOut(d)')
  BY <1>1 DEF WillBeIn, WillBeOut, Kept
<1>3. PICK cs \in Seq(Command) : /\ cs = Commands("JOIN", {c})
                                 /\ DOMAIN cs = {1} /\ cs[1].verb = "JOIN"
  <2>1. c \in Somewhere
    BY DEF Somewhere
  <2> QED BY <2>1, CommandOf
<1>4. Send(cs) /\ (quit => quit') /\ \A i \in DOMAIN cs : cs[i].verb = "QUIT" => quit'
  BY <1>1, <1>3
<1>5. InIsKnown' /\ OutIsKnown'
  BY <1>1, <1>2, <1>4, SendGoesOn
<1>6. toServer' \in Seq(Command)
  BY <1>4, Sending
<1> QED BY <1>5, <1>6

LEMMA PartKeeps ==
  ASSUME ClientInv, NEW c \in Channels, Part(c)
  PROVE  InIsKnown' /\ OutIsKnown' /\ toServer' \in Seq(Command)
<1>1. /\ UNCHANGED <<members, fromServer, channels, crossed, quit, drops>>
      /\ parting = {} /\ parting' = {c} /\ Send(Commands("PART", {c}))
  BY DEF Part
<1>2. \A d : (d # c /\ WillBeIn(d) => WillBeIn(d)') /\ (WillBeOut(d) => WillBeOut(d)')
  BY <1>1 DEF WillBeIn, WillBeOut, Kept
<1>3. PICK cs \in Seq(Command) : /\ cs = Commands("PART", {c}) /\ DOMAIN cs = {1}
                                 /\ cs[1].verb = "PART" /\ cs[1].channel = c
  <2>1. c \in Somewhere
    BY DEF Somewhere
  <2> QED BY <2>1, CommandOf
<1>4. Send(cs) /\ (quit => quit') /\ \A i \in DOMAIN cs : cs[i].verb = "QUIT" => quit'
  BY <1>1, <1>3
<1>5. /\ toServer' \in Seq(Command)
      /\ \A d : Parts(toServer, d) => Parts(toServer', d)
      /\ \A i \in DOMAIN toServer' : toServer'[i].verb = "QUIT" => quit'
  BY <1>4, Sending
<1>6. OutIsKnown'
  BY <1>1, <1>2, <1>5 DEF ClientInv, OutIsKnown
<1>7. c \in members' => Parts(toServer', c)
  <2>1. CASE link = "down"
    BY <1>1, <2>1 DEF ClientInv, ClientTypes
  <2>2. CASE link # "down"
    <3>1. toServer' = toServer \o cs /\ toServer \in Seq(Command)
      BY <1>4, <2>2 DEF Send, ClientInv, ClientTypes
    <3>2. Parts(cs, c)
      BY <1>3 DEF Parts
    <3> QED BY <3>1, <3>2, SentCommands
  <2> QED BY <2>1, <2>2
<1>8. InIsKnown'
  BY <1>1, <1>2, <1>5, <1>7 DEF ClientInv, InIsKnown
<1> QED BY <1>5, <1>6, <1>8

LEMMA PartDeletesKeeps ==
  ASSUME ClientInv, PartDeletes
  PROVE  InIsKnown' /\ OutIsKnown'
<1>1. /\ UNCHANGED <<members, toServer, fromServer, crossed, quit, drops>>
      /\ channels' = channels \ parting /\ parting' = {}
  BY DEF PartDeletes, server, counters
<1>2. Kept' = Kept
  BY <1>1 DEF Kept
<1>3. \A c : (WillBeOut(c) => WillBeOut(c)') /\ (WillBeIn(c) => WillBeIn(c)')
  BY <1>1, <1>2 DEF WillBeIn, WillBeOut
<1> QED BY <1>1, <1>3 DEF ClientInv, InIsKnown, OutIsKnown

LEMMA QuitKeeps ==
  ASSUME ClientInv, ConnectCancelled \/ Disconnect
  PROVE  InIsKnown' /\ OutIsKnown' /\ toServer' \in Seq(Command)
<1>1. /\ UNCHANGED <<members, fromServer, channels, parting, crossed, drops>>
      /\ quit' = TRUE /\ Send(<<About("QUIT")>>)
  BY DEF ConnectCancelled, Disconnect, counters
<1>2. \A d : (WillBeIn(d) => WillBeIn(d)') /\ (WillBeOut(d) => WillBeOut(d)')
  BY <1>1 DEF WillBeIn, WillBeOut, Kept
<1>3. PICK e \in Command : e = About("QUIT")
  BY DEF Command, Somewhere, About
<1>4. PICK cs \in Seq(Command) : cs = <<e>>
  <2>1. <<e>> \in Seq(Command)
    OBVIOUS
  <2> QED BY <2>1
<1>5. Send(cs) /\ quit'
  BY <1>1, <1>3, <1>4
<1>6. InIsKnown' /\ OutIsKnown'
  BY <1>1, <1>2, <1>5, SendGoesOn
<1>7. toServer' \in Seq(Command)
  BY <1>5, Sending
<1> QED BY <1>6, <1>7

\* A connection that is closed leaves the client in no channel; one that the network
\* broke, or an end that was asked for, excuses what the client still believes.
LEMMA ClosesKeeps ==
  ASSUME ClientInv, ServerCloses \/ Breaks
  PROVE  InIsKnown' /\ OutIsKnown'
<1>1. /\ members' = {} /\ toServer' = <<>>
      /\ UNCHANGED <<channels, parting, crossed, quit>>
  BY DEF ServerCloses, Breaks, Closes, client
<1>2. quit' \/ drops' # 0
  <2>1. CASE ServerCloses
    <3>1. toServer # <<>> /\ toServer \in Seq(Command) /\ Head(toServer).verb = "QUIT"
      BY <2>1 DEF ServerCloses, ClientInv, ClientTypes
    <3>2. 1 \in DOMAIN toServer /\ toServer[1] = Head(toServer)
      BY <3>1
    <3> QED BY <1>1, <3>1, <3>2 DEF ClientInv, OutIsKnown
  <2>2. CASE Breaks
    BY <2>2 DEF Breaks, ClientInv, ClientTypes
  <2> QED BY <2>1, <2>2
<1>3. DOMAIN toServer' = {}
  BY <1>1
<1> QED BY <1>1, <1>2, <1>3 DEF InIsKnown, OutIsKnown

-----------------------------------------------------------------------------
LEMMA ClientStart == Init => ClientInv
<1> SUFFICES ASSUME Init PROVE ClientInv
  OBVIOUS
<1>1. ClientTypes /\ Counted
  BY IrcClientConstants DEF Init, ClientTypes, Counted
<1>2. InIsKnown
  BY DEF Init, InIsKnown
<1>3. OutIsKnown
  BY DEF Init, OutIsKnown, WillBeOut, Silent
<1> QED BY <1>1, <1>2, <1>3 DEF ClientInv

LEMMA ClientStep == ClientInv /\ [Next]_vars => ClientInv'
<1> SUFFICES ASSUME ClientInv, [Next]_vars PROVE ClientInv'
  OBVIOUS
<1> USE DEF ClientTypes, Counted
<1>1. ClientTypes /\ Counted /\ MaxReconnectAttempts \in Nat
  BY IrcClientConstants DEF ClientInv
<1>2. CASE Welcomes
  <2>1. About("001") \in Event
    BY DEF About, Event, Somewhere
  <2>2. ClientTypes' /\ Counted'
    BY <1>1, <1>2, <2>1 DEF Welcomes, client, counters
  <2> QED BY <1>2, <2>2, WelcomesKeeps DEF ClientInv
<1>3. CASE Obeys
  <2>1. Head(toServer) \in Command /\ Tail(toServer) \in Seq(Command)
    BY <1>1, <1>3, ObeyedCommand DEF Obeys
  <2>2. Head(toServer) \in Event
    BY <1>3, <2>1 DEF Obeys, Command, Event
  <2>3. ClientTypes' /\ Counted'
    BY <1>1, <1>3, <2>1, <2>2 DEF Obeys, client, counters
  <2> QED BY <1>3, <2>3, ObeysKeeps DEF ClientInv
<1>4. CASE Refuses
  <2>1. ClientTypes' /\ Counted'
    BY <1>1, <1>4 DEF Refuses, client
  <2> QED BY <1>4, <2>1, RefusesKeeps DEF ClientInv
<1>5. CASE ServerCloses \/ Breaks
  <2>1. /\ link' = "down" /\ members' = {} /\ toServer' = <<>> /\ fromServer' = <<>>
        /\ UNCHANGED <<channels, parting, attempt, tries, loop>>
        /\ drops' = drops \/ drops' = drops + 1
    BY <1>5 DEF ServerCloses, Breaks, Closes, client
  <2>2. ClientTypes' /\ Counted'
    BY <1>1, <2>1
  <2> QED BY <1>5, <2>2, ClosesKeeps DEF ClientInv
<1>6. ASSUME NEW c \in Channels, Kicks(c) PROVE ClientInv'
  <2>1. [verb |-> "KICK", channel |-> c] \in Event
    BY DEF Event, Somewhere
  <2>2. ClientTypes' /\ Counted'
    BY <1>1, <1>6, <2>1 DEF Kicks, client
  <2> QED BY <1>6, <2>2, KicksKeeps DEF ClientInv
<1>7. CASE Connect \/ ConnectFails \/ ConnectReturns \/ Shutdown
  <2>1. ClientTypes' /\ Counted'
    BY <1>1, <1>7 DEF Connect, ConnectFails, ConnectReturns, Shutdown, server, counters
  <2>2. UNCHANGED <<members, toServer, fromServer, channels, parting, crossed, quit, drops>>
    BY <1>7 DEF Connect, ConnectFails, ConnectReturns, Shutdown, server, counters
  <2> QED BY <2>1, <2>2, ChannelsGoOn DEF ClientInv
<1>8. CASE LoopReturns \/ Reconnect \/ ReconnectFails
  <2>1. ClientTypes' /\ Counted'
    BY <1>1, <1>8 DEF LoopReturns, GivesUp, Reconnect, ReconnectFails, server, counters
  <2>2. UNCHANGED <<members, toServer, fromServer, channels, parting, crossed, quit, drops>>
    BY <1>8 DEF LoopReturns, Reconnect, ReconnectFails, server, counters
  <2> QED BY <2>1, <2>2, ChannelsGoOn DEF ClientInv
<1>9. CASE ConnectCancelled \/ Disconnect
  <2>1. link = "down" => toServer' = toServer
    BY <1>9 DEF ConnectCancelled, Disconnect, Send
  <2>2. ClientTypes' /\ Counted'
    BY <1>1, <1>9, <2>1, QuitKeeps DEF ConnectCancelled, Disconnect, counters
  <2> QED BY <1>9, <2>2, QuitKeeps DEF ClientInv
<1>10. CASE OnWelcome
  <2>1. fromServer # <<>> /\ fromServer' = Tail(fromServer) /\ fromServer' \in Seq(Event)
    BY <1>1, <1>10 DEF OnWelcome, Reads
  <2>2. ClientTypes' /\ Counted'
    BY <1>1, <1>10, <2>1, OnWelcomeKeeps DEF OnWelcome, counters
  <2> QED BY <1>10, <2>2, OnWelcomeKeeps DEF ClientInv
<1>11. CASE OnJoin \/ OnPart
  <2>1. fromServer # <<>> /\ fromServer' = Tail(fromServer) /\ fromServer' \in Seq(Event)
        /\ Head(fromServer) \in Event
    <3>1. Reads("JOIN") \/ Reads("PART")
      BY <1>11 DEF OnJoin, OnPart
    <3>2. fromServer \in Seq(Event) /\ fromServer # <<>> /\ fromServer' = Tail(fromServer)
      BY <1>1, <3>1 DEF Reads
    <3> QED BY <3>2
  <2>2. Head(fromServer).channel \in Somewhere
    BY <2>1 DEF Event
  <2>3. ClientTypes' /\ Counted'
    BY <1>1, <1>11, <2>1, <2>2 DEF OnJoin, OnPart, counters
  <2> QED BY <1>11, <2>3, OnJoinKeeps DEF ClientInv
<1>12. CASE OnKick
  <2>1. fromServer # <<>> /\ fromServer' = Tail(fromServer) /\ fromServer' \in Seq(Event)
    BY <1>1, <1>12 DEF OnKick, Reads
  <2>2. ClientTypes' /\ Counted'
    BY <1>1, <1>12, <2>1, OnKickKeeps DEF OnKick, counters
  <2> QED BY <1>12, <2>2, OnKickKeeps DEF ClientInv
<1>13. ASSUME NEW c \in Channels, Join(c) PROVE ClientInv'
  <2>1. link = "down" => toServer' = toServer
    BY <1>13 DEF Join, Send
  <2>2. ClientTypes' /\ Counted'
    BY <1>1, <1>13, <2>1, JoinKeeps DEF Join, client
  <2> QED BY <1>13, <2>2, JoinKeeps DEF ClientInv
<1>14. ASSUME NEW c \in Channels, AppParts(c) \/ ShutdownParts(c) PROVE ClientInv'
  <2>1. Part(c)
    BY <1>14 DEF AppParts, ShutdownParts
  <2>2. link = "down" => toServer' = toServer
    BY <2>1 DEF Part, Send
  <2>3. ClientTypes' /\ Counted'
    BY <1>1, <2>1, <2>2, PartKeeps DEF Part
  <2> QED BY <2>1, <2>3, PartKeeps DEF ClientInv
<1>15. CASE PartDeletes
  <2>1. ClientTypes' /\ Counted'
    BY <1>1, <1>15 DEF PartDeletes, server, counters
  <2> QED BY <1>15, <2>1, PartDeletesKeeps DEF ClientInv
<1>16. CASE UNCHANGED vars
  <2>1. ClientTypes' /\ Counted'
    BY <1>1, <1>16 DEF vars, server, client, counters
  <2>2. UNCHANGED <<members, toServer, fromServer, channels, parting, crossed, quit, drops>>
    BY <1>16 DEF vars, server, client, counters
  <2> QED BY <2>1, <2>2, ChannelsGoOn DEF ClientInv
<1> QED BY <1>2, <1>3, <1>4, <1>5, <1>6, <1>7, <1>8, <1>9, <1>10, <1>11, <1>12, <1>13, <1>14,
           <1>15, <1>16 DEF Next

\* AttemptsAreLimited, for any limit: Reconnect is never called more often than
\* MaxReconnectAttempts between two registrations (connection.go Connect, the
\* backoff and its reset in the 001 callback).
THEOREM AttemptsStayLimited == Spec => []AttemptsAreLimited
<1>1. ClientInv => AttemptsAreLimited
  BY IrcClientConstants DEF ClientInv, ClientTypes, Counted, AttemptsAreLimited
<1> QED BY <1>1, ClientStart, ClientStep, PTL DEF Spec

\* ChannelsKnown, for any channels and any number of calls, kicks, refusals and
\* broken connections, and for Shutdown: once everything is handled, JoinedChannels
\* names every channel the client is in whose JOIN did not cross a Part, and until
\* the first reconnect no other (connection.go, the callbacks of JOIN, PART and
\* KICK, Join and Part; agent.go Shutdown).
THEOREM ChannelsAreKnown == Spec => []ChannelsKnown
<1>1. ClientInv => ChannelsKnown
  <2> SUFFICES ASSUME ClientInv, Settled PROVE ChannelsKnown
    BY DEF ChannelsKnown
  <2>1. DOMAIN toServer = {} /\ DOMAIN fromServer = {}
    BY DEF Settled
  <2>2. \A c : ~Parts(toServer, c) /\ (WillBeIn(c) => c \in channels \cup crossed)
               /\ (WillBeOut(c) => c \notin channels)
    BY <2>1 DEF Parts, WillBeIn, WillBeOut, Kept, EndsIn
  <2>3. members \subseteq channels \cup crossed
    BY <2>2 DEF ClientInv, InIsKnown
  <2>4. drops = 0 /\ ~quit => channels \subseteq members
    BY <2>2 DEF ClientInv, ClientTypes, OutIsKnown
  <2> QED BY <2>3, <2>4 DEF ChannelsKnown
<1> QED BY <1>1, ClientStart, ClientStep, PTL DEF Spec

-----------------------------------------------------------------------------
(***************************************************************************)
(* The bridges.  What is relayed carries the prefix, so a text is without  *)
(* it in the events of what was said, once per client.  A mapping has one  *)
(* of its clients in the place where it was said, so only that client's    *)
(* event is relayed by it; and it is taken from the queue for it.          *)
(***************************************************************************)
Note == [place : Places, nick : Bridges \cup {"user"}, text : Texts, prefixed : BOOLEAN]

ClientsOf(b) == {"local"} \cup Links[b]

FedTypes ==
  /\ DOMAIN events = Bridges /\ DOMAIN relaying = Bridges /\ DOMAIN copies = Bridges
  /\ DOMAIN said = Texts
  /\ \A b \in Bridges :
       /\ DOMAIN events[b] = ClientsOf(b) /\ DOMAIN relaying[b] = ClientsOf(b)
       /\ \A c \in ClientsOf(b) :
            /\ events[b][c] \in Seq(Note)
            /\ relaying[b][c] \in [text : Texts \cup {"none"}, via : SUBSET DOMAIN Mappings[b]]
            /\ relaying[b][c].via # {} => relaying[b][c].text \in Texts
       /\ DOMAIN copies[b] = DOMAIN Mappings[b]
       /\ \A i \in DOMAIN Mappings[b] : DOMAIN copies[b][i] = Texts

\* In a queue: an event of the text without the prefix, and never two of one text.
Plain(q, t) == \E k \in DOMAIN q : ~q[k].prefixed /\ q[k].text = t
PlainOnce(q) ==
  \A k, l \in DOMAIN q :
    ~q[k].prefixed /\ ~q[l].prefixed /\ q[k].text = q[l].text => k = l

\* The client of a mapping that is in the place.
Side(b, c, i, place) ==
  \/ c = "local" /\ Mappings[b][i].local = place
  \/ c = Mappings[b][i].link /\ Mappings[b][i].remote = place

\* An event without the prefix is of what was said, where it was said.
Original(e) == ~e.prefixed => said[e.text] # Unsaid /\ said[e.text].place = e.place

Originals ==
  \A b \in Bridges : \A c \in ClientsOf(b) :
    /\ \A k \in DOMAIN events[b][c] : Original(events[b][c][k])
    /\ PlainOnce(events[b][c])

\* While such an event waits, or is being relayed by the mapping, it was not yet.
NotYet ==
  \A b \in Bridges : \A c \in ClientsOf(b) : \A i \in DOMAIN Mappings[b], t \in Texts :
    Plain(events[b][c], t) /\ Side(b, c, i, said[t].place) =>
      /\ copies[b][i][t] = 0
      /\ ~(i \in relaying[b][c].via /\ relaying[b][c].text = t)

UnderWay ==
  \A b \in Bridges : \A c \in ClientsOf(b) : \A i \in relaying[b][c].via :
    LET t == relaying[b][c].text
    IN  said[t] # Unsaid /\ Side(b, c, i, said[t].place) /\ copies[b][i][t] = 0

CopiesBound ==
  \A b \in Bridges : \A i \in DOMAIN Mappings[b], t \in Texts :
    copies[b][i][t] \in {0, 1} /\ (said[t] = Unsaid => copies[b][i][t] = 0)

FedInv == FedTypes /\ Originals /\ NotYet /\ UnderWay /\ CopiesBound

-----------------------------------------------------------------------------
\* A note at the end of a queue, and one taken from its head.
LEMMA AppendedNote ==
  ASSUME NEW q \in Seq(Note), NEW m \in Note
  PROVE  /\ Append(q, m) \in Seq(Note)
         /\ \A t : Plain(Append(q, m), t) <=> Plain(q, t) \/ (~m.prefixed /\ m.text = t)
         /\ PlainOnce(q) /\ (m.prefixed \/ ~Plain(q, m.text)) => PlainOnce(Append(q, m))
         /\ \A k \in DOMAIN Append(q, m) : \/ Append(q, m)[k] = m
                                           \/ k \in DOMAIN q /\ Append(q, m)[k] = q[k]
<1> DEFINE r == Append(q, m)
<1>1. /\ r \in Seq(Note) /\ DOMAIN r = 1..(Len(q) + 1) /\ DOMAIN q = 1..Len(q) /\ Len(q) \in Nat
      /\ \A i \in 1..Len(q) : r[i] = q[i]
      /\ r[Len(q) + 1] = m
  OBVIOUS
<1> HIDE DEF r
<1>2. \A k \in DOMAIN r : \/ k = Len(q) + 1 /\ r[k] = m
                          \/ k \in DOMAIN q /\ r[k] = q[k]
  BY <1>1
<1>3. \A t : Plain(r, t) <=> Plain(q, t) \/ (~m.prefixed /\ m.text = t)
  BY <1>1, <1>2 DEF Plain
<1>4. ASSUME PlainOnce(q), m.prefixed \/ ~Plain(q, m.text) PROVE PlainOnce(r)
  BY <1>1, <1>2, <1>4 DEF PlainOnce, Plain
<1> QED BY <1>1, <1>2, <1>3, <1>4 DEF r

LEMMA HandledNote ==
  ASSUME NEW q \in Seq(Note), q # <<>>
  PROVE  /\ Head(q) \in Note /\ Tail(q) \in Seq(Note)
         /\ 1 \in DOMAIN q /\ Head(q) = q[1]
         /\ \A k \in DOMAIN Tail(q) : k + 1 \in DOMAIN q /\ Tail(q)[k] = q[k + 1]
         /\ \A t : Plain(Tail(q), t) => Plain(q, t)
         /\ PlainOnce(q) => /\ PlainOnce(Tail(q))
                            /\ Head(q).prefixed \/ ~Plain(Tail(q), Head(q).text)
<1> DEFINE r == Tail(q)
<1>1. /\ DOMAIN r = 1..(Len(q) - 1) /\ DOMAIN q = 1..Len(q) /\ Len(q) \in Nat \ {0}
      /\ \A i \in 1..(Len(q) - 1) : r[i] = q[i + 1]
      /\ Head(q) = q[1] /\ Head(q) \in Note /\ r \in Seq(Note)
  OBVIOUS
<1> HIDE DEF r
<1>2. \A k \in DOMAIN r : k + 1 \in DOMAIN q /\ r[k] = q[k + 1] /\ k \in Nat /\ k + 1 # 1
  BY <1>1
<1>3. 1 \in DOMAIN q
  BY <1>1
<1>4. \A t : Plain(r, t) => Plain(q, t)
  BY <1>2 DEF Plain
<1>5. ASSUME PlainOnce(q) PROVE PlainOnce(r)
  <2> SUFFICES ASSUME NEW k \in DOMAIN r, NEW l \in DOMAIN r, ~r[k].prefixed, ~r[l].prefixed,
                      r[k].text = r[l].text
               PROVE  k = l
    BY DEF PlainOnce
  <2>1. k + 1 = l + 1
    BY <1>2, <1>5 DEF PlainOnce
  <2> QED BY <1>2, <2>1
<1>6. ASSUME PlainOnce(q), ~Head(q).prefixed, Plain(r, Head(q).text) PROVE FALSE
  <2>1. PICK k \in DOMAIN r : ~r[k].prefixed /\ r[k].text = Head(q).text
    BY <1>6 DEF Plain
  <2>2. k + 1 = 1
    BY <1>1, <1>2, <1>3, <1>6, <2>1 DEF PlainOnce
  <2> QED BY <1>2, <2>2
<1> QED BY <1>1, <1>2, <1>3, <1>4, <1>5, <1>6 DEF r

\* A mapping's clients are not both in one place.
LEMMA OneSide ==
  ASSUME NEW b \in Bridges, NEW i \in DOMAIN Mappings[b], NEW c, NEW d, NEW place,
         Side(b, c, i, place), Side(b, d, i, place)
  PROVE  c = d
BY FederationConstants DEF Side

\* What Delivered does to every queue.
LEMMA Delivery ==
  ASSUME FedInv, NEW m \in Note, events' = Delivered(m)
  PROVE  /\ DOMAIN events' = Bridges
         /\ \A b \in Bridges :
              /\ DOMAIN events'[b] = ClientsOf(b)
              /\ \A c \in ClientsOf(b) : \/ events'[b][c] = Append(events[b][c], m)
                                         \/ events'[b][c] = events[b][c]
BY DEF FedInv, FedTypes, Delivered

\* A message with the prefix is delivered.
LEMMA RelayedDelivery ==
  ASSUME FedInv, NEW m \in Note, m.prefixed, events' = Delivered(m)
  PROVE  \A b \in Bridges : \A c \in ClientsOf(b) :
           /\ events'[b][c] \in Seq(Note)
           /\ \A t : Plain(events'[b][c], t) <=> Plain(events[b][c], t)
           /\ PlainOnce(events'[b][c])
           /\ \A k \in DOMAIN events'[b][c] :
                \/ events'[b][c][k].prefixed
                \/ k \in DOMAIN events[b][c] /\ events'[b][c][k] = events[b][c][k]
<1> SUFFICES ASSUME NEW b \in Bridges, NEW c \in ClientsOf(b)
             PROVE  /\ events'[b][c] \in Seq(Note)
                    /\ \A t : Plain(events'[b][c], t) <=> Plain(events[b][c], t)
                    /\ PlainOnce(events'[b][c])
                    /\ \A k \in DOMAIN events'[b][c] :
                         \/ events'[b][c][k].prefixed
                         \/ k \in DOMAIN events[b][c] /\ events'[b][c][k] = events[b][c][k]
  OBVIOUS
<1>1. PICK q \in Seq(Note) : q = events[b][c] /\ PlainOnce(q)
  BY DEF FedInv, FedTypes, Originals
<1>2. CASE events'[b][c] = Append(q, m)
  <2>1. PICK r \in Seq(Note) : r = Append(q, m)
    BY AppendedNote
  <2>2. /\ \A t : Plain(r, t) <=> Plain(q, t)
        /\ PlainOnce(r)
        /\ \A k \in DOMAIN r : r[k] = m \/ (k \in DOMAIN q /\ r[k] = q[k])
    BY <1>1, <2>1, AppendedNote
  <2> QED BY <1>1, <1>2, <2>1, <2>2
<1>3. CASE events'[b][c] = q
  BY <1>1, <1>3
<1> QED BY <1>1, <1>2, <1>3, Delivery

-----------------------------------------------------------------------------
\* Somebody says a text: it was not said before, so there is nothing of it yet.
LEMMA SayKeeps ==
  ASSUME FedInv, NEW t \in Texts, NEW place \in Places, NEW nick \in Bridges \cup {"user"},
         NEW prefixed \in BOOLEAN, Say(t, place, nick, prefixed)
  PROVE  FedInv'
<1>1. PICK m \in Note : m = [place |-> place, nick |-> nick, text |-> t, prefixed |-> prefixed]
  BY DEF Note
<1>2. /\ said[t] = Unsaid /\ events' = Delivered(m) /\ UNCHANGED <<relaying, copies>>
  BY <1>1 DEF Say
<1>3. /\ DOMAIN said' = Texts /\ said'[t] # Unsaid /\ said'[t].place = place
      /\ \A u \in Texts \ {t} : said'[u] = said[u]
  <2>1. PICK v : /\ said' = [said EXCEPT ![t] = v] /\ v.place = place
                 /\ v = [place |-> place, nick |-> nick, prefixed |-> prefixed,
                         bridges |-> {b \in Bridges : fed[b] = "started"}]
    BY DEF Say
  <2>2. v # Unsaid
    BY <2>1 DEF Unsaid
  <2> QED BY <2>1, <2>2 DEF FedInv, FedTypes
<1>4. \A b \in Bridges : \A c \in ClientsOf(b) :
        /\ events[b][c] \in Seq(Note) /\ ~Plain(events[b][c], t)
        /\ \A k \in DOMAIN events[b][c] : events[b][c][k] \in Note /\ Original(events[b][c][k])
        /\ \A i \in relaying[b][c].via : relaying[b][c].text # t
  BY <1>2 DEF FedInv, FedTypes, Originals, Original, Plain, UnderWay
<1>5. \A b \in Bridges : \A c \in ClientsOf(b) :
        /\ events'[b][c] \in Seq(Note)
        /\ \A u : u # t => (Plain(events'[b][c], u) <=> Plain(events[b][c], u))
        /\ PlainOnce(events'[b][c])
        /\ \A k \in DOMAIN events'[b][c] :
             \/ events'[b][c][k] = m
             \/ k \in DOMAIN events[b][c] /\ events'[b][c][k] = events[b][c][k]
  <2> SUFFICES ASSUME NEW b \in Bridges, NEW c \in ClientsOf(b)
               PROVE  /\ events'[b][c] \in Seq(Note)
                      /\ \A u : u # t => (Plain(events'[b][c], u) <=> Plain(events[b][c], u))
                      /\ PlainOnce(events'[b][c])
                      /\ \A k \in DOMAIN events'[b][c] :
                           \/ events'[b][c][k] = m
                           \/ k \in DOMAIN events[b][c] /\ events'[b][c][k] = events[b][c][k]
    OBVIOUS
  <2>1. PICK q \in Seq(Note) : q = events[b][c] /\ PlainOnce(q) /\ ~Plain(q, t)
    BY <1>4 DEF FedInv, Originals
  <2>2. m.text = t
    BY <1>1
  <2>3. CASE events'[b][c] = Append(q, m)
    <3>1. PICK r \in Seq(Note) : r = Append(q, m)
      BY AppendedNote
    <3>2. /\ \A u : u # t => (Plain(r, u) <=> Plain(q, u))
          /\ PlainOnce(r)
          /\ \A k \in DOMAIN r : r[k] = m \/ (k \in DOMAIN q /\ r[k] = q[k])
      BY <2>1, <2>2, <3>1, AppendedNote
    <3> QED BY <2>1, <2>3, <3>1, <3>2
  <2>4. CASE events'[b][c] = q
    BY <2>1, <2>4
  <2> QED BY <1>2, <2>1, <2>3, <2>4, Delivery
<1>6. FedTypes'
  BY <1>2, <1>3, <1>5, Delivery DEF FedInv, FedTypes
<1>7. Originals'
  <2> SUFFICES ASSUME NEW b \in Bridges, NEW c \in ClientsOf(b), NEW k \in DOMAIN events'[b][c],
                      ~events'[b][c][k].prefixed
               PROVE  /\ said'[events'[b][c][k].text] # Unsaid
                      /\ said'[events'[b][c][k].text].place = events'[b][c][k].place
    BY <1>5 DEF Originals, Original
  <2>1. CASE events'[b][c][k] = m
    BY <1>1, <1>3, <2>1
  <2>2. CASE k \in DOMAIN events[b][c] /\ events'[b][c][k] = events[b][c][k]
    <3>1. PICK e \in Note : e = events[b][c][k] /\ Original(e)
      BY <1>4, <2>2
    <3>2. said[e.text] # Unsaid /\ said[e.text].place = e.place /\ e.text \in Texts
      BY <2>2, <3>1 DEF Original, Note
    <3>3. e.text # t
      BY <1>2, <3>2
    <3> QED BY <1>3, <2>2, <3>1, <3>2, <3>3
  <2> QED BY <1>5, <2>1, <2>2
<1>8. NotYet'
  <2> SUFFICES ASSUME NEW b \in Bridges, NEW c \in ClientsOf(b), NEW i \in DOMAIN Mappings[b],
                      NEW u \in Texts, Plain(events'[b][c], u), Side(b, c, i, said'[u].place)
               PROVE  /\ copies[b][i][u] = 0
                      /\ ~(i \in relaying[b][c].via /\ relaying[b][c].text = u)
    BY <1>2 DEF NotYet, Side
  <2>1. CASE u = t
    BY <1>2, <1>4, <2>1 DEF FedInv, CopiesBound
  <2>2. CASE u # t
    BY <1>3, <1>5, <2>2 DEF FedInv, NotYet
  <2> QED BY <2>1, <2>2
<1>9. UnderWay'
  <2> SUFFICES ASSUME NEW b \in Bridges, NEW c \in ClientsOf(b), NEW i \in relaying[b][c].via,
                      NEW u \in Texts, u = relaying[b][c].text
               PROVE  said'[u] # Unsaid /\ Side(b, c, i, said'[u].place) /\ copies[b][i][u] = 0
    <3>1. \A b \in Bridges : \A c \in ClientsOf(b) : \A i \in relaying[b][c].via :
            relaying[b][c].text \in Texts
      BY DEF FedInv, FedTypes
    <3> QED BY <1>2, <3>1 DEF UnderWay, Side
  <2>1. u # t
    BY <1>4
  <2> QED BY <1>3, <2>1 DEF FedInv, UnderWay
<1>10. CopiesBound'
  BY <1>2, <1>3 DEF FedInv, CopiesBound
<1> QED BY <1>6, <1>7, <1>8, <1>9, <1>10 DEF FedInv

\* A client takes an event: its text is not in the queue without prefix again.
LEMMA HandleKeeps ==
  ASSUME FedInv, NEW b \in Bridges, NEW c \in ClientsOf(b), HandleEvent(b, c)
  PROVE  FedInv'
<1>1. PICK q \in Seq(Note) : q = events[b][c] /\ q # <<>> /\ PlainOnce(q)
  BY DEF HandleEvent, FedInv, FedTypes, Originals
<1>2. PICK e \in Note : e = Head(q)
  BY <1>1, HandledNote
<1>3. PICK r \in Seq(Note) : r = Tail(q)
  BY <1>1, HandledNote
<1>4. /\ e = q[1] /\ 1 \in DOMAIN q
      /\ \A k \in DOMAIN r : k + 1 \in DOMAIN q /\ r[k] = q[k + 1]
      /\ \A t : Plain(r, t) => Plain(q, t)
      /\ PlainOnce(r) /\ (e.prefixed \/ ~Plain(r, e.text))
  BY <1>1, <1>2, <1>3, HandledNote
<1>5. PICK v : v = IF fed[b] \in {"started", "shutdown"} THEN Relays(b, c, e) ELSE {}
  OBVIOUS
<1>6. /\ v \subseteq DOMAIN Mappings[b]
      /\ \A i \in v : ~e.prefixed /\ Side(b, c, i, e.place)
  BY <1>5 DEF Relays, Routes, IsFederatedMessage, Side
<1>7. e.text \in Texts /\ Original(e)
  BY <1>1, <1>4 DEF Note, FedInv, Originals
<1>8. PICK w \in [text : Texts \cup {"none"}, via : SUBSET DOMAIN Mappings[b]] :
        w = [text |-> e.text, via |-> v]
  BY <1>6, <1>7
<1>9. /\ relaying' = [relaying EXCEPT ![b] = [relaying[b] EXCEPT ![c] = w]]
      /\ events' = [events EXCEPT ![b] = [events[b] EXCEPT ![c] = r]]
      /\ UNCHANGED <<said, copies>>
  BY <1>1, <1>2, <1>3, <1>5, <1>8 DEF HandleEvent
<1>10. /\ DOMAIN events' = Bridges /\ DOMAIN relaying' = Bridges
       /\ \A a \in Bridges :
            /\ DOMAIN events'[a] = ClientsOf(a) /\ DOMAIN relaying'[a] = ClientsOf(a)
            /\ \A d \in ClientsOf(a) :
                 /\ events'[a][d] = IF a = b /\ d = c THEN r ELSE events[a][d]
                 /\ relaying'[a][d] = IF a = b /\ d = c THEN w ELSE relaying[a][d]
  BY <1>9 DEF FedInv, FedTypes
<1>11. w.text = e.text /\ w.via = v
  BY <1>8
<1>12. FedTypes'
  BY <1>7, <1>9, <1>10, <1>11 DEF FedInv, FedTypes
<1>13. Originals'
  <2>1. ASSUME NEW a \in Bridges, NEW d \in ClientsOf(a)
        PROVE  /\ PlainOnce(events'[a][d])
               /\ \A k \in DOMAIN events'[a][d] : Original(events'[a][d][k])
    <3>1. CASE a = b /\ d = c
      <4>1. events'[a][d] = r
        BY <1>10, <3>1
      <4>2. \A k \in DOMAIN q : Original(q[k])
        BY <1>1 DEF FedInv, Originals
      <4>3. \A k \in DOMAIN r : Original(r[k])
        BY <1>4, <4>2
      <4> QED BY <1>4, <4>1, <4>3
    <3>2. CASE ~(a = b /\ d = c)
      <4>1. events'[a][d] = events[a][d]
        BY <1>10, <3>2
      <4> QED BY <4>1 DEF FedInv, Originals
    <3> QED BY <3>1, <3>2
  <2> QED BY <1>9, <2>1 DEF Originals, Original
<1>14. NotYet'
  <2> SUFFICES ASSUME NEW a \in Bridges, NEW d \in ClientsOf(a), NEW i \in DOMAIN Mappings[a],
                      NEW t \in Texts, Plain(events'[a][d], t), Side(a, d, i, said[t].place)
               PROVE  /\ copies[a][i][t] = 0
                      /\ ~(i \in relaying'[a][d].via /\ relaying'[a][d].text = t)
    BY <1>9 DEF NotYet, Side
  <2>1. CASE a = b /\ d = c
    <3>1. Plain(events[b][c], t) /\ Plain(r, t)
      BY <1>1, <1>4, <1>10, <2>1
    <3>2. copies[b][i][t] = 0
      BY <2>1, <3>1 DEF FedInv, NotYet
    <3>3. i \in v => e.text # t
      BY <1>4, <1>6, <3>1
    <3> QED BY <1>10, <1>11, <2>1, <3>2, <3>3
  <2>2. CASE ~(a = b /\ d = c)
    BY <1>10, <2>2 DEF FedInv, NotYet
  <2> QED BY <2>1, <2>2
<1>15. UnderWay'
  <2> SUFFICES ASSUME NEW a \in Bridges, NEW d \in ClientsOf(a), NEW i \in relaying'[a][d].via
               PROVE  /\ said[relaying'[a][d].text] # Unsaid
                      /\ Side(a, d, i, said[relaying'[a][d].text].place)
                      /\ copies[a][i][relaying'[a][d].text] = 0
    BY <1>9 DEF UnderWay, Side
  <2>1. CASE a = b /\ d = c
    <3>1. i \in v /\ ~e.prefixed /\ Side(b, c, i, e.place) /\ i \in DOMAIN Mappings[b]
      BY <1>6, <1>10, <1>11, <2>1
    <3>2. said[e.text] # Unsaid /\ said[e.text].place = e.place
      BY <1>7, <3>1 DEF Original
    <3>3. Plain(events[b][c], e.text)
      BY <1>1, <1>4, <3>1 DEF Plain
    <3>4. copies[b][i][e.text] = 0
      BY <1>7, <3>1, <3>2, <3>3 DEF FedInv, NotYet
    <3> QED BY <1>10, <1>11, <2>1, <3>1, <3>2, <3>4
  <2>2. CASE ~(a = b /\ d = c)
    BY <1>10, <2>2 DEF FedInv, UnderWay
  <2> QED BY <2>1, <2>2
<1>16. CopiesBound'
  BY <1>9 DEF FedInv, CopiesBound
<1> QED BY <1>12, <1>13, <1>14, <1>15, <1>16 DEF FedInv

\* A copy is sent: nobody else has the text to relay by this mapping.
LEMMA RelayKeeps ==
  ASSUME FedInv, NEW b \in Bridges, NEW c \in ClientsOf(b), NEW i \in DOMAIN Mappings[b],
         RelayMessage(b, c, i)
  PROVE  FedInv'
<1>1. PICK w \in [text : Texts \cup {"none"}, via : SUBSET DOMAIN Mappings[b]] :
        w = relaying[b][c] /\ i \in w.via
  BY DEF RelayMessage, FedInv, FedTypes
<1>2. PICK t \in Texts : t = w.text
  BY <1>1 DEF FedInv, FedTypes
<1>3. said[t] # Unsaid /\ Side(b, c, i, said[t].place) /\ copies[b][i][t] = 0
  BY <1>1, <1>2 DEF FedInv, UnderWay
<1>4. PICK v \in [text : Texts \cup {"none"}, via : SUBSET DOMAIN Mappings[b]] :
        /\ v = [w EXCEPT !.via = w.via \ {i}] /\ v.text = t /\ v.via = w.via \ {i}
  <2>1. PICK s : s = w.via \ {i}
    OBVIOUS
  <2>2. s \in SUBSET DOMAIN Mappings[b]
    BY <2>1
  <2>3. [text |-> t, via |-> s] \in [text : Texts \cup {"none"}, via : SUBSET DOMAIN Mappings[b]]
    BY <2>2
  <2>4. [w EXCEPT !.via = s] = [text |-> t, via |-> s]
    BY <1>2
  <2> QED BY <2>1, <2>3, <2>4
<1>5. relaying' = [relaying EXCEPT ![b] = [relaying[b] EXCEPT ![c] = v]] /\ UNCHANGED said
  BY <1>1, <1>4 DEF RelayMessage
<1>6. /\ DOMAIN relaying' = Bridges
      /\ \A a \in Bridges :
           /\ DOMAIN relaying'[a] = ClientsOf(a)
           /\ \A d \in ClientsOf(a) :
                /\ relaying'[a][d] = IF a = b /\ d = c THEN v ELSE relaying[a][d]
                /\ relaying'[a][d].text = relaying[a][d].text
                /\ relaying'[a][d].via \subseteq relaying[a][d].via
  BY <1>1, <1>2, <1>4, <1>5 DEF FedInv, FedTypes
<1>7. \A a \in Bridges : \A d \in ClientsOf(a) :
        /\ relaying'[a][d] \in [text : Texts \cup {"none"}, via : SUBSET DOMAIN Mappings[a]]
        /\ relaying'[a][d].via # {} => relaying'[a][d].text \in Texts
  BY <1>4, <1>6 DEF FedInv, FedTypes
<1>8. CASE UNCHANGED <<events, copies>>
  <2>1. FedTypes'
    BY <1>5, <1>6, <1>7, <1>8 DEF FedInv, FedTypes
  <2>2. Originals' /\ CopiesBound'
    BY <1>5, <1>8 DEF FedInv, Originals, Original, CopiesBound
  <2>3. NotYet'
    BY <1>5, <1>6, <1>8 DEF FedInv, NotYet
  <2>4. UnderWay'
    BY <1>5, <1>6, <1>8 DEF FedInv, UnderWay
  <2> QED BY <2>1, <2>2, <2>3, <2>4 DEF FedInv
<1>9. CASE /\ events' = Delivered(Relayed(b, c, i, t))
           /\ copies' = [copies EXCEPT ![b][i][t] = @ + 1]
  <2>1. PICK m \in Note : m = Relayed(b, c, i, t) /\ m.prefixed
    <3>1. PICK p \in Places : Relayed(b, c, i, t)
                              = [place |-> p, nick |-> b, text |-> t, prefixed |-> TRUE]
      BY FederationConstants DEF Relayed
    <3>2. [place |-> p, nick |-> b, text |-> t, prefixed |-> TRUE] \in Note
      BY DEF Note
    <3>3. Relayed(b, c, i, t).prefixed
      BY DEF Relayed
    <3> QED BY <3>1, <3>2, <3>3
  <2>2. events' = Delivered(m)
    BY <1>9, <2>1
  <2>3. \A a \in Bridges : \A d \in ClientsOf(a) :
          /\ events'[a][d] \in Seq(Note)
          /\ \A u : Plain(events'[a][d], u) <=> Plain(events[a][d], u)
          /\ PlainOnce(events'[a][d])
          /\ \A k \in DOMAIN events'[a][d] :
               \/ events'[a][d][k].prefixed
               \/ k \in DOMAIN events[a][d] /\ events'[a][d][k] = events[a][d][k]
    BY <2>1, <2>2, RelayedDelivery
  <2>4. copies' = [copies EXCEPT ![b] = [copies[b] EXCEPT ![i] = [copies[b][i] EXCEPT ![t] = 1]]]
    BY <1>3, <1>9
  <2>5. /\ DOMAIN copies' = Bridges
        /\ \A a \in Bridges :
             /\ DOMAIN copies'[a] = DOMAIN Mappings[a]
             /\ \A j \in DOMAIN Mappings[a] :
                  /\ DOMAIN copies'[a][j] = Texts
                  /\ \A u \in Texts : copies'[a][j][u] =
                       IF a = b /\ j = i /\ u = t THEN 1 ELSE copies[a][j][u]
    BY <2>4 DEF FedInv, FedTypes
  <2>6. FedTypes'
    BY <1>5, <1>6, <1>7, <2>1, <2>2, <2>3, <2>5, Delivery DEF FedInv, FedTypes
  <2>7. Originals'
    <3>1. \A a \in Bridges : \A d \in ClientsOf(a) : \A k \in DOMAIN events'[a][d] :
            Original(events'[a][d][k])
      BY <2>3 DEF FedInv, Originals, Original
    <3> QED BY <1>5, <2>3, <3>1 DEF Originals, Original
  <2>8. NotYet'
    <3> SUFFICES ASSUME NEW a \in Bridges, NEW d \in ClientsOf(a), NEW j \in DOMAIN Mappings[a],
                        NEW u \in Texts, Plain(events'[a][d], u), Side(a, d, j, said[u].place)
                 PROVE  /\ copies'[a][j][u] = 0
                        /\ ~(j \in relaying'[a][d].via /\ relaying'[a][d].text = u)
      BY <1>5 DEF NotYet, Side
    <3>1. /\ copies[a][j][u] = 0
          /\ ~(j \in relaying[a][d].via /\ relaying[a][d].text = u)
      BY <2>3 DEF FedInv, NotYet
    <3>2. ~(a = b /\ j = i /\ u = t)
      <4> SUFFICES ASSUME a = b, j = i, u = t PROVE FALSE
        OBVIOUS
      <4>1. d = c
        BY <1>3, OneSide
      <4> QED BY <1>1, <1>2, <3>1, <4>1
    <3> QED BY <1>6, <2>5, <3>1, <3>2
  <2>9. UnderWay'
    <3> SUFFICES ASSUME NEW a \in Bridges, NEW d \in ClientsOf(a), NEW j \in relaying'[a][d].via,
                        NEW u \in Texts, u = relaying[a][d].text
                 PROVE  /\ said[u] # Unsaid /\ Side(a, d, j, said[u].place)
                        /\ copies'[a][j][u] = 0
      <4>1. \A a \in Bridges : \A d \in ClientsOf(a) : \A j \in relaying'[a][d].via :
              relaying[a][d].text \in Texts /\ relaying'[a][d].text = relaying[a][d].text
        BY <1>6, <1>7
      <4> QED BY <1>5, <4>1 DEF UnderWay, Side
    <3>1. j \in relaying[a][d].via /\ j \in DOMAIN Mappings[a]
      BY <1>6, <1>7
    <3>2. said[u] # Unsaid /\ Side(a, d, j, said[u].place) /\ copies[a][j][u] = 0
      BY <3>1 DEF FedInv, UnderWay
    <3>3. ~(a = b /\ j = i /\ u = t)
      <4> SUFFICES ASSUME a = b, j = i, u = t PROVE FALSE
        OBVIOUS
      <4>1. d = c
        BY <1>3, <3>2, OneSide
      <4>2. j \in v.via
        BY <1>6, <4>1
      <4> QED BY <1>4, <4>2
    <3> QED BY <2>5, <3>1, <3>2, <3>3
  <2>10. CopiesBound'
    BY <1>3, <1>5, <2>5 DEF FedInv, CopiesBound
  <2> QED BY <2>6, <2>7, <2>8, <2>9, <2>10 DEF FedInv
<1> QED BY <1>1, <1>2, <1>8, <1>9 DEF RelayMessage

\* Shutdown: what the links' clients had not handled is gone.
LEMMA ShutdownKeeps ==
  ASSUME FedInv, NEW b \in Bridges, ShutdownLinks(b)
  PROVE  FedInv'
<1>1. /\ events' = [events EXCEPT ![b] =
                      [c \in DOMAIN events[b] |-> IF c = "local" THEN events[b][c] ELSE <<>>]]
      /\ UNCHANGED <<relaying, said, copies>>
  BY DEF ShutdownLinks
<1>2. /\ DOMAIN events' = Bridges
      /\ \A a \in Bridges :
           /\ DOMAIN events'[a] = ClientsOf(a)
           /\ \A c \in ClientsOf(a) : events'[a][c] = events[a][c] \/ events'[a][c] = <<>>
  BY <1>1 DEF FedInv, FedTypes
<1>3. <<>> \in Seq(Note) /\ DOMAIN <<>> = {}
  OBVIOUS
<1>4. PlainOnce(<<>>) /\ \A t : ~Plain(<<>>, t)
  BY <1>3 DEF PlainOnce, Plain
<1>5. FedTypes'
  <2>1. \A a \in Bridges : \A c \in ClientsOf(a) : events'[a][c] \in Seq(Note)
    BY <1>2, <1>3 DEF FedInv, FedTypes
  <2> QED BY <1>1, <1>2, <2>1 DEF FedInv, FedTypes
<1>6. Originals'
  <2>1. \A a \in Bridges : \A c \in ClientsOf(a) :
          /\ \A k \in DOMAIN events'[a][c] : Original(events'[a][c][k])
          /\ PlainOnce(events'[a][c])
    <3> SUFFICES ASSUME NEW a \in Bridges, NEW c \in ClientsOf(a)
                 PROVE  /\ \A k \in DOMAIN events'[a][c] : Original(events'[a][c][k])
                        /\ PlainOnce(events'[a][c])
      OBVIOUS
    <3>1. CASE events'[a][c] = events[a][c]
      BY <3>1 DEF FedInv, Originals
    <3>2. CASE events'[a][c] = <<>>
      BY <1>3, <1>4, <3>2
    <3> QED BY <1>2, <3>1, <3>2
  <2> QED BY <1>1, <2>1 DEF Originals, Original
<1>7. NotYet'
  BY <1>1, <1>2, <1>4 DEF FedInv, NotYet
<1>8. UnderWay' /\ CopiesBound'
  BY <1>1 DEF FedInv, UnderWay, CopiesBound
<1> QED BY <1>5, <1>6, <1>7, <1>8 DEF FedInv

LEMMA FedStart == FedInit => FedInv
<1> SUFFICES ASSUME FedInit PROVE FedInv
  OBVIOUS
<1>1. \A b \in Bridges : \A c \in ClientsOf(b) : events[b][c] = <<>> /\ relaying[b][c] = NoRelay
  BY DEF FedInit, ClientsOf
<1>2. NoRelay.via = {} /\ \A S : NoRelay \in [text : Texts \cup {"none"}, via : SUBSET S]
  BY DEF NoRelay
<1>3. <<>> \in Seq(Note) /\ DOMAIN <<>> = {}
  OBVIOUS
<1>4. FedTypes
  <2>1. /\ DOMAIN events = Bridges /\ DOMAIN relaying = Bridges /\ DOMAIN copies = Bridges
        /\ DOMAIN said = Texts
        /\ \A b \in Bridges :
             /\ DOMAIN events[b] = ClientsOf(b) /\ DOMAIN relaying[b] = ClientsOf(b)
             /\ DOMAIN copies[b] = DOMAIN Mappings[b]
             /\ \A i \in DOMAIN Mappings[b] : DOMAIN copies[b][i] = Texts
    BY DEF FedInit, ClientsOf
  <2>2. \A b \in Bridges : \A c \in ClientsOf(b) :
          /\ events[b][c] \in Seq(Note)
          /\ relaying[b][c] \in [text : Texts \cup {"none"}, via : SUBSET DOMAIN Mappings[b]]
          /\ relaying[b][c].via # {} => relaying[b][c].text \in Texts
    BY <1>1, <1>2, <1>3, Zenon
  <2> QED BY <2>1, <2>2 DEF FedTypes
<1>5. Originals /\ NotYet
  BY <1>1, <1>3 DEF Originals, NotYet, PlainOnce, Plain
<1>6. UnderWay
  BY <1>1, <1>2 DEF UnderWay
<1>7. CopiesBound
  BY DEF FedInit, CopiesBound
<1> QED BY <1>4, <1>5, <1>6, <1>7 DEF FedInv

\* RelayedOnce, for any bridges, links, mappings and texts: although bridges relay
\* each other's channels and hear their own messages, no bridge relays a text by a
\* mapping twice (federation.go Start, relayLocalToRemote, relayRemoteToLocal,
\* IsFederatedMessage).
THEOREM TextsAreRelayedOnce == FedSpec => []RelayedOnce
<1>1. FedInv /\ [FedNext]_fedVars => FedInv'
  <2> SUFFICES ASSUME FedInv, [FedNext]_fedVars PROVE FedInv'
    OBVIOUS
  <2>1. ASSUME NEW b \in Bridges, NEW c \in DOMAIN events[b], ClientRuns(b, c) PROVE FedInv'
    <3>1. c \in ClientsOf(b)
      BY DEF FedInv, FedTypes
    <3> QED BY <2>1, <3>1, HandleKeeps, RelayKeeps DEF ClientRuns
  <2>2. ASSUME UNCHANGED <<events, relaying, said, copies>> PROVE FedInv'
    BY <2>2 DEF FedInv, FedTypes, Originals, Original, NotYet, UnderWay, CopiesBound
  <2>3. ASSUME NEW b \in Bridges, NEW l \in Links[b], ConnectLink(b, l) PROVE FedInv'
    BY <2>2, <2>3 DEF ConnectLink
  <2>4. ASSUME NEW b \in Bridges, RegisterRelays(b) PROVE FedInv'
    BY <2>2, <2>4 DEF RegisterRelays
  <2>5. CASE UNCHANGED fedVars
    BY <2>2, <2>5 DEF fedVars
  <2> QED BY <2>1, <2>3, <2>4, <2>5, SayKeeps, ShutdownKeeps DEF FedNext
<1>2. FedInv => RelayedOnce
  BY DEF FedInv, CopiesBound, RelayedOnce
<1> QED BY <1>1, <1>2, FedStart, PTL DEF FedSpec

-----------------------------------------------------------------------------
(***************************************************************************)
(* The limiter takes only steps of the token bucket, for any burst, rate   *)
(* and goroutines: the safety part of ImplementsTokenBucket.  (That        *)
(* messages go on while somebody waits is liveness, and stays with TLC.)   *)
(*                                                                         *)
(* The bucket's credit is what refill would give now.  Looking and finding *)
(* nothing leaves it as it is, and time adds a unit until it is full.      *)
(***************************************************************************)
RateTypes ==
  /\ tokens \in Nat
  /\ tokens <= Burst * Cost
  /\ elapsed \in Nat
  /\ sleep = [u \in DOMAIN sleep |-> sleep[u]]

\* Steps of the bucket, whose credit is refill.
OnlyBucketSteps ==
  Bucket!BucketInit /\ [][Bucket!BucketNext]_<<refill, DOMAIN sleep>>

-----------------------------------------------------------------------------
\* A full bucket and the cost of a message are numbers.
LEMMA FullIsNat == Burst * Cost \in Nat /\ Cost \in Nat
BY RateLimiterConstants

\* Min of two numbers.
LEMMA MinOfTwo ==
  ASSUME NEW x \in Nat, NEW y \in Nat
  PROVE  Min({x, y}) = IF x <= y THEN x ELSE y
<1> DEFINE P(z) == z \in {x, y} /\ \A w \in {x, y} : z <= w
<1>1. P(IF x <= y THEN x ELSE y)
  OBVIOUS
<1>2. \A z \in {x, y} : P(z) => z = IF x <= y THEN x ELSE y
  OBVIOUS
<1>3. Min({x, y}) \in {x, y} /\ \A w \in {x, y} : Min({x, y}) <= w
  BY <1>1 DEF Min
<1> QED BY <1>2, <1>3

\* refill caps what time has added.
LEMMA RefillValue ==
  ASSUME RateTypes
  PROVE  refill = IF tokens + elapsed <= Burst * Cost THEN tokens + elapsed ELSE Burst * Cost
BY FullIsNat, MinOfTwo DEF refill, RateTypes

\* The same after a step.
LEMMA RefillNext ==
  ASSUME RateTypes'
  PROVE  refill' = IF tokens' + elapsed' <= Burst * Cost
                   THEN tokens' + elapsed' ELSE Burst * Cost
<1>1. tokens' + elapsed' \in Nat
  BY DEF RateTypes
<1>2. refill' = Min({tokens' + elapsed', Burst * Cost})
  BY DEF refill
<1> QED BY <1>1, <1>2, FullIsNat, MinOfTwo

\* Neither a look nor time takes tokens below zero or above a full bucket.
LEMMA TypesKept == RateTypes /\ [RateNext]_rateVars => RateTypes'
<1> SUFFICES ASSUME RateTypes, [RateNext]_rateVars PROVE RateTypes'
  OBVIOUS
<1> USE FullIsNat, RefillValue DEF RateTypes
<1>1. ASSUME NEW u \in Users, CallWait(u) PROVE RateTypes'
  BY <1>1 DEF CallWait
<1>2. ASSUME NEW u \in Users, Look(u) PROVE RateTypes'
  BY <1>2 DEF Look, Without
<1>3. ASSUME NEW u \in Users, Allow(u) PROVE RateTypes'
  BY <1>3 DEF Allow
<1>4. CASE Pass
  BY <1>4 DEF Pass
<1>5. CASE UNCHANGED rateVars
  BY <1>5 DEF rateVars
<1> QED BY <1>1, <1>2, <1>3, <1>4, <1>5 DEF RateNext

-----------------------------------------------------------------------------
\* Every step of the limiter (ratelimiter.go refill, Allow, Wait) is a step of the
\* token bucket or none, for any burst and rate: no message is let through that
\* the bucket would not let through, however goroutines race between looking,
\* sleeping and looking again.
THEOREM LimiterIsABucket == RateSpec => OnlyBucketSteps
<1>1. RateInit => RateTypes
  BY FullIsNat DEF RateInit, RateTypes
<1>2. RateInit => Bucket!BucketInit
  <2> SUFFICES ASSUME RateInit PROVE Bucket!BucketInit
    OBVIOUS
  <2>1. refill = Burst * Cost
    BY <1>1, FullIsNat, RefillValue DEF RateInit
  <2>2. DOMAIN sleep = {}
    BY DEF RateInit
  <2> QED BY <2>1, <2>2 DEF Bucket!BucketInit
<1>3. RateTypes /\ [RateNext]_rateVars => [Bucket!BucketNext]_<<refill, DOMAIN sleep>>
  <2> SUFFICES ASSUME RateTypes, [RateNext]_rateVars
               PROVE  Bucket!BucketNext \/ (refill' = refill /\ DOMAIN sleep' = DOMAIN sleep)
    BY DEF refill
  <2>0. RateTypes'
    BY TypesKept
  <2>1. ASSUME NEW u \in Users, CallWait(u) PROVE Bucket!Ask(u)
    <3>1. refill' = refill
      BY <2>1 DEF CallWait, refill
    <3>2. DOMAIN sleep' = DOMAIN sleep \cup {u}
      BY <2>1 DEF CallWait
    <3> QED BY <2>1, <3>1, <3>2 DEF CallWait, Bucket!Ask
  <2>2. ASSUME NEW u \in Users, Look(u)
        PROVE  Bucket!Take(u) \/ (refill' = refill /\ DOMAIN sleep' = DOMAIN sleep)
    <3>1. CASE refill >= Cost
      <4>1. refill' = refill - Cost
        BY <2>0, <2>2, <3>1, FullIsNat, RefillValue, RefillNext DEF Look, RateTypes
      <4>2. DOMAIN sleep' = DOMAIN sleep \ {u}
        BY <2>2, <3>1 DEF Look, Without
      <4> QED BY <3>1, <4>1, <4>2 DEF Bucket!Take
    <3>2. CASE ~(refill >= Cost)
      <4>1. refill' = refill
        BY <2>0, <2>2, <3>2, FullIsNat, RefillValue, RefillNext DEF Look, RateTypes
      <4>2. DOMAIN sleep' = DOMAIN sleep
        BY <2>2, <3>2 DEF Look
      <4> QED BY <4>1, <4>2
    <3> QED BY <3>1, <3>2
  <2>3. ASSUME NEW u \in Users, Allow(u)
        PROVE  Bucket!Take(u) \/ (refill' = refill /\ DOMAIN sleep' = DOMAIN sleep)
    <3>1. DOMAIN sleep' = DOMAIN sleep /\ u \notin DOMAIN sleep
      BY <2>3 DEF Allow
    <3>2. CASE refill >= Cost
      <4>1. refill' = refill - Cost
        BY <2>0, <2>3, <3>2, FullIsNat, RefillValue, RefillNext DEF Allow, RateTypes
      <4> QED BY <3>1, <3>2, <4>1 DEF Bucket!Take
    <3>3. CASE ~(refill >= Cost)
      <4>1. refill' = refill
        BY <2>0, <2>3, <3>3, FullIsNat, RefillValue, RefillNext DEF Allow, RateTypes
      <4> QED BY <3>1, <4>1
    <3> QED BY <3>2, <3>3
  <2>4. ASSUME Pass
        PROVE  Bucket!Gain \/ (refill' = refill /\ DOMAIN sleep' = DOMAIN sleep)
    <3>1. DOMAIN sleep' = DOMAIN sleep
      BY <2>4 DEF Pass
    <3>2. refill' = refill \/ (refill < Burst * Cost /\ refill' = refill + 1)
      BY <2>0, <2>4, FullIsNat, RefillValue, RefillNext DEF Pass, RateTypes
    <3> QED BY <3>1, <3>2 DEF Bucket!Gain
  <2>5. CASE UNCHANGED rateVars
    BY <2>5 DEF rateVars, refill
  <2> QED BY <2>1, <2>2, <2>3, <2>4, <2>5 DEF RateNext, Bucket!BucketNext
<1> QED BY <1>1, <1>2, <1>3, TypesKept, PTL DEF RateSpec, OnlyBucketSteps

-----------------------------------------------------------------------------
(***************************************************************************)
(* Messages on the wire.  String writes four parts, each empty or a blank  *)
(* with a key and its value or with a tag behind it; the body has them at  *)
(* places that depend on the message only, and tokenize reads them one by  *)
(* one.  Whatever it reads is a value that survives, so that one that does *)
(* not is never given back, also where a value looks like a key.           *)
(***************************************************************************)
\* The symbols differ.
LEMMA SymbolsDiffer ==
  /\ Blank # Quote /\ Blank # "=" /\ Blank # "#" /\ Blank # "a" /\ Blank # "b" /\ Blank # "end"
  /\ Quote # "=" /\ Quote # "#" /\ Quote # "a" /\ Quote # "b" /\ Quote # "end"
  /\ Blank \in Symbols /\ Quote \in Symbols /\ "=" \in Symbols /\ "#" \in Symbols
  /\ "a" \in Symbols /\ "b" \in Symbols /\ "end" \notin Symbols
  /\ Blank \in White /\ Quote \notin White /\ "=" \notin White /\ "#" \notin White
  /\ "a" \notin White /\ "b" \notin White
  /\ NoBreak \in Symbols /\ NoBreak \in White /\ NoBreak # "end" /\ NoBreak # "#" /\ NoBreak # Blank
BY DEF Blank, NoBreak, Quote, White, Symbols

\* The smallest of some numbers.
LEMMA MinOfSome ==
  ASSUME NEW T \in SUBSET Nat, T # {}
  PROVE  Min(T) \in T /\ \A y \in T : Min(T) <= y
<1> DEFINE S == {k \in Nat : \A y \in T : y >= k}
<1>1. 0 \in S
  OBVIOUS
<1>2. PICK t \in T : TRUE
  OBVIOUS
<1>3. t + 1 \notin S
  OBVIOUS
<1>4. \E k \in S : k + 1 \notin S
  <2> SUFFICES ASSUME \A k \in S : k + 1 \in S PROVE FALSE
    OBVIOUS
  <2>1. \A n \in Nat : n \in S => n + 1 \in S
    OBVIOUS
  <2> HIDE DEF S
  <2>2. Nat \subseteq S
    BY <1>1, <2>1, NatSetInduction
  <2> QED
    BY <1>2, <1>3, <2>2
<1>5. PICK k \in S : k + 1 \notin S
  BY <1>4
<1>6. k \in T /\ \A y \in T : k <= y
  BY <1>5
<1> QED
  BY <1>6 DEF Min

\* A smallest number is the smallest.
LEMMA MinIs ==
  ASSUME NEW T \in SUBSET Nat, NEW x \in T, \A y \in T : x <= y
  PROVE  Min(T) = x
<1>1. Min(T) \in T /\ \A y \in T : Min(T) <= y
  BY MinOfSome
<1>2. Min(T) \in Nat /\ x \in Nat /\ Min(T) <= x /\ x <= Min(T)
  BY <1>1
<1> QED
  BY <1>2

\* Two sequences in a row.
LEMMA CatIs ==
  ASSUME NEW S, NEW s \in Seq(S), NEW t \in Seq(S)
  PROVE  /\ s \o t \in Seq(S) /\ Len(s \o t) = Len(s) + Len(t) /\ Len(s) \in Nat /\ Len(t) \in Nat
         /\ \A i \in 1..Len(s) : (s \o t)[i] = s[i]
         /\ \A i \in 1..Len(t) : (s \o t)[Len(s) + i] = t[i]
OBVIOUS

\* What String puts before a value, and the value.
LEMMA CatFour ==
  ASSUME NEW S, NEW x \in S, NEW y \in S, NEW z \in S, NEW V \in Seq(S)
  PROVE  LET P == <<x>> \o <<y>> \o <<z>> \o V
         IN  /\ P \in Seq(S) /\ Len(P) = Len(V) + 3
             /\ P[1] = x /\ P[2] = y /\ P[3] = z
             /\ \A j \in 1..Len(V) : P[j + 3] = V[j]
<1>1. <<x>> \o <<y>> \o <<z>> \o V \in Seq(S) /\ Len(<<x>> \o <<y>> \o <<z>> \o V) = Len(V) + 3
  OBVIOUS
<1>2. (<<x>> \o <<y>> \o <<z>> \o V)[1] = x
  OBVIOUS
<1>3. (<<x>> \o <<y>> \o <<z>> \o V)[2] = y
  OBVIOUS
<1>4. (<<x>> \o <<y>> \o <<z>> \o V)[3] = z
  OBVIOUS
<1>5. ASSUME NEW j \in 1..Len(V) PROVE (<<x>> \o <<y>> \o <<z>> \o V)[j + 3] = V[j]
  OBVIOUS
<1> QED
  BY ONLY <1>1, <1>2, <1>3, <1>4, <1>5

\* What String puts before a tag, and the tag.
LEMMA CatThree ==
  ASSUME NEW S, NEW x \in S, NEW y \in S, NEW V \in Seq(S)
  PROVE  LET P == <<x, y>> \o V
         IN  /\ P \in Seq(S) /\ Len(P) = Len(V) + 2
             /\ P[1] = x /\ P[2] = y
             /\ \A j \in 1..Len(V) : P[j + 2] = V[j]
OBVIOUS

\* What a message is made of that is not a SHARING-CONTEXT.
Written(m) ==
  /\ DOMAIN m.fields \subseteq {KeyA, KeyB}
  /\ m.fields = [k \in DOMAIN m.fields |-> m.fields[k]]
  /\ \A k \in DOMAIN m.fields : m.fields[k] \in Seq(Symbols)
  /\ m.tags \in Seq(Seq(Symbols)) /\ Len(m.tags) <= 2
  /\ \A n \in DOMAIN m.tags :
       /\ m.tags[n] \in Seq(Symbols) /\ m.tags[n] # <<>>
       /\ \A i \in 1..Len(m.tags[n]) : m.tags[n][i] \notin White

LEMMA MessagesAre ==
  ASSUME NEW m \in Messages
  PROVE  /\ m.sharing \in BOOLEAN
         /\ m.sharing => m.payload \in Seq(Symbols)
         /\ ~m.sharing => Written(m)
<1>1. BoundedSeq(Symbols, MaxFirst) \subseteq Seq(Symbols)
  BY DEF BoundedSeq, SeqOf
<1>2. ASSUME NEW f \in Fields
      PROVE  /\ DOMAIN f \subseteq {KeyA, KeyB}
             /\ f = [k \in DOMAIN f |-> f[k]]
             /\ \A k \in DOMAIN f : f[k] \in Seq(Symbols)
  <2>1. PICK K \in SUBSET {KeyA, KeyB} : f \in [K -> BoundedSeq(Symbols, MaxFirst)]
    BY DEF Fields
  <2> QED
    BY <1>1, <2>1
<1>3. CASE m.sharing
  BY <1>1, <1>3 DEF Messages
<1>4. CASE ~m.sharing
  <2>1. /\ m.sharing = FALSE /\ m.fields \in Fields
        /\ m.tags \in {<<>>, << <<"a">> >>, << <<"#", "a">>, <<"=">> >>}
    BY <1>4 DEF Messages
  <2>2. /\ m.tags \in Seq(Seq(Symbols)) /\ Len(m.tags) <= 2
        /\ \A n \in DOMAIN m.tags :
             /\ m.tags[n] \in Seq(Symbols) /\ m.tags[n] # <<>>
             /\ \A i \in 1..Len(m.tags[n]) : m.tags[n][i] \notin White
    <3>1. CASE m.tags = <<>>
      BY <3>1
    <3>0. ASSUME NEW s, s \in {<<"a">>, <<"#", "a">>, <<"=">>}
          PROVE  s \in Seq(Symbols) /\ s # <<>> /\ \A i \in 1..Len(s) : s[i] \notin White
      <4>1. CASE s = <<"a">>
        <5>1. "a" \in Symbols /\ "a" \notin White
          BY SymbolsDiffer
        <5> QED
          BY <4>1, <5>1
      <4>2. CASE s = <<"#", "a">>
        <5>1. "a" \in Symbols /\ "a" \notin White /\ "#" \in Symbols /\ "#" \notin White
          BY SymbolsDiffer
        <5> QED
          BY <4>2, <5>1
      <4>3. CASE s = <<"=">>
        <5>1. "=" \in Symbols /\ "=" \notin White
          BY SymbolsDiffer
        <5> QED
          BY <4>3, <5>1
      <4> QED
        BY <3>0, <4>1, <4>2, <4>3
    <3>2. CASE m.tags = << <<"a">> >>
      <4>1. <<"a">> \in Seq(Symbols)
        BY <3>0
      <4> DEFINE s == <<"a">>
      <4> HIDE DEF s
      <4>2. m.tags = <<s>> /\ s \in Seq(Symbols)
        BY <3>2, <4>1 DEF s
      <4>3. /\ m.tags \in Seq(Seq(Symbols)) /\ Len(m.tags) = 1
            /\ \A n \in DOMAIN m.tags : m.tags[n] = s
        BY <4>2
      <4> QED
        BY <3>0, <4>3 DEF s
    <3>3. CASE m.tags = << <<"#", "a">>, <<"=">> >>
      <4>1. <<"#", "a">> \in Seq(Symbols) /\ <<"=">> \in Seq(Symbols)
        BY <3>0
      <4> DEFINE s == <<"#", "a">>
                 r == <<"=">>
      <4> HIDE DEF s, r
      <4>2. m.tags = <<s, r>> /\ s \in Seq(Symbols) /\ r \in Seq(Symbols)
        BY <3>3, <4>1 DEF s, r
      <4>3. /\ m.tags \in Seq(Seq(Symbols)) /\ Len(m.tags) = 2
            /\ \A n \in DOMAIN m.tags : m.tags[n] \in {s, r}
        BY <4>2
      <4> QED
        BY <3>0, <4>3 DEF s, r
    <3> QED
      BY <2>1, <3>1, <3>2, <3>3
  <2> QED
    BY <1>2, <2>1, <2>2 DEF Written
<1> QED
  BY <1>3, <1>4 DEF Messages

\* What a value is on the wire.
LEMMA ValueIs ==
  ASSUME NEW v \in Seq(Symbols)
  PROVE  /\ Value(v) \in Seq(Symbols) /\ Len(Value(v)) \in Nat
         /\ Blank \in ToSet(v) =>
              /\ Len(Value(v)) = Len(v) + 2 /\ Value(v)[1] = Quote /\ Value(v)[Len(v) + 2] = Quote
              /\ \A j \in 1..Len(v) : Value(v)[j + 1] = v[j]
         /\ Blank \notin ToSet(v) => Value(v) = v /\ \A j \in 1..Len(v) : v[j] # Blank
<1>1. Quote \in Symbols /\ Blank # Quote
  BY SymbolsDiffer
<1>2. CASE Blank \in ToSet(v)
  <2>1. Value(v) = <<Quote>> \o v \o <<Quote>>
    BY <1>2 DEF Value
  <2>2. /\ Value(v) \in Seq(Symbols) /\ Len(Value(v)) = Len(v) + 2
        /\ Value(v)[1] = Quote /\ Value(v)[Len(v) + 2] = Quote
        /\ \A j \in 1..Len(v) : Value(v)[j + 1] = v[j]
    BY <1>1, <2>1
  <2> QED
    BY <1>1, <1>2, <2>2
<1>3. CASE Blank \notin ToSet(v)
  <2>1. Value(v) = v
    BY <1>3 DEF Value
  <2>2. \A j \in 1..Len(v) : v[j] # Blank
    BY <1>3 DEF ToSet
  <2> QED
    BY <1>3, <2>1, <2>2
<1> QED
  BY <1>2, <1>3

\* A key with its value.
LEMMA PairIs ==
  ASSUME NEW m, Written(m), NEW c \in {"a", "b"}, NEW k, k = <<c>>
  PROVE  /\ k \notin DOMAIN m.fields => Pair(m, k) = <<>>
         /\ k \in DOMAIN m.fields =>
              LET V == Value(m.fields[k])
              IN  /\ Pair(m, k) \in Seq(Symbols) /\ Len(Pair(m, k)) = Len(V) + 3
                  /\ Pair(m, k)[1] = Blank /\ Pair(m, k)[2] = c /\ Pair(m, k)[3] = "="
                  /\ \A j \in 1..Len(V) : Pair(m, k)[j + 3] = V[j]
<1>1. CASE k \notin DOMAIN m.fields
  BY <1>1 DEF Pair
<1>2. CASE k \in DOMAIN m.fields
  <2> DEFINE V == Value(m.fields[k])
  <2>1. V \in Seq(Symbols) /\ Len(V) \in Nat
    BY <1>2, ValueIs DEF Written
  <2>2. Pair(m, k) = <<Blank>> \o k \o <<"=">> \o V
    BY <1>2 DEF Pair
  <2> HIDE DEF V
  <2>3. Blank \in Symbols /\ "=" \in Symbols /\ c \in Symbols /\ "=" # Blank /\ V \in Seq(Symbols)
    BY <2>1, SymbolsDiffer
  <2>4. /\ Pair(m, k) \in Seq(Symbols) /\ Len(Pair(m, k)) = Len(V) + 3
        /\ Pair(m, k)[1] = Blank /\ Pair(m, k)[2] = c /\ Pair(m, k)[3] = "="
        /\ \A j \in 1..Len(V) : Pair(m, k)[j + 3] = V[j]
    BY ONLY <2>2, <2>3, CatFour, k = <<c>>
  <2> QED
    BY <1>2, <2>4 DEF V
<1> QED
  BY <1>1, <1>2

\* A tag.
LEMMA HashedIs ==
  ASSUME NEW m, Written(m), NEW n \in {1, 2}
  PROVE  /\ n \notin DOMAIN m.tags => Hashed(m, n) = <<>>
         /\ n \in DOMAIN m.tags =>
              /\ Hashed(m, n) \in Seq(Symbols) /\ Len(Hashed(m, n)) = Len(m.tags[n]) + 2
              /\ Len(m.tags[n]) \in Nat \ {0}
              /\ Hashed(m, n)[1] = Blank /\ Hashed(m, n)[2] = "#"
              /\ \A j \in 1..Len(m.tags[n]) : Hashed(m, n)[j + 2] = m.tags[n][j]
              /\ Hashed(m, n)[Len(m.tags[n]) + 2] \notin White
<1>1. CASE n \notin DOMAIN m.tags
  BY <1>1 DEF Hashed
<1>2. CASE n \in DOMAIN m.tags
  <2> DEFINE g == m.tags[n]
  <2>1. /\ g \in Seq(Symbols) /\ g # <<>> /\ \A i \in 1..Len(g) : g[i] \notin White
    BY <1>2 DEF Written
  <2>2. Hashed(m, n) = <<Blank, "#">> \o g
    BY <1>2 DEF Hashed
  <2>3. Blank \in Symbols /\ "#" \in Symbols
    BY SymbolsDiffer
  <2> HIDE DEF g
  <2>4. Len(g) \in Nat \ {0}
    BY <2>1
  <2>5. /\ Hashed(m, n) \in Seq(Symbols) /\ Len(Hashed(m, n)) = Len(g) + 2
        /\ Hashed(m, n)[1] = Blank /\ Hashed(m, n)[2] = "#"
        /\ \A j \in 1..Len(g) : Hashed(m, n)[j + 2] = g[j]
    BY ONLY <2>1, <2>2, <2>3, CatThree
  <2>6. Hashed(m, n)[Len(g) + 2] \notin White
    BY ONLY <2>1, <2>4, <2>5
  <2> QED
    BY <1>2, <2>4, <2>5, <2>6 DEF g
<1> QED
  BY <1>1, <1>2

\* Sequences that agree everywhere are equal.
LEMMA SameSeq ==
  ASSUME NEW S, NEW s \in Seq(S), NEW t \in Seq(S), Len(s) = Len(t),
         \A i \in 1..Len(s) : s[i] = t[i]
  PROVE  s = t
OBVIOUS

\* TrimSpace of a text that begins with a blank and a solid symbol, and whose last
\* solid symbol is the n-th.
LEMMA TrimOuter ==
  ASSUME NEW S, NEW T \in Seq(S), NEW n \in Nat, 2 <= n, n <= Len(T),
         T[1] = Blank, T[2] \notin White, T[n] \notin White,
         \A i \in (n + 1)..Len(T) : T[i] \in White
  PROVE  /\ TrimSpace(T) \in Seq(S) /\ Len(TrimSpace(T)) = n - 1
         /\ \A i \in 1..(n - 1) : TrimSpace(T)[i] = T[i + 1]
<1> DEFINE solid == {i \in DOMAIN T : T[i] \notin White}
<1>0. Blank \in White
  BY SymbolsDiffer
<1>1. Len(T) \in Nat /\ DOMAIN T = 1..Len(T)
  OBVIOUS
<1>2. \A y \in solid : y \in 1..Len(T) /\ y # 1 /\ y \notin (n + 1)..Len(T)
  BY <1>0, <1>1
<1>3. \A y \in solid : y \in 1..n /\ 2 <= y /\ y <= n
  BY <1>1, <1>2
<1>4. 2 \in solid /\ n \in solid
  BY <1>1
<1>5. TrimSpace(T) = SubSeq(T, Min(solid), Max(solid))
  BY <1>4 DEF TrimSpace
<1> HIDE DEF solid
<1>6. solid \in SUBSET Nat /\ solid \in SUBSET (1..n) /\ solid # {}
  BY <1>3, <1>4
<1>7. Min(solid) = 2
  BY <1>3, <1>4, <1>6, MinIs
<1>8. Max(solid) = n
  <2>1. Max(solid) \in solid /\ \A y \in solid : y <= Max(solid)
    BY <1>6, MaxOfSome
  <2>2. Max(solid) \in Nat /\ Max(solid) <= n /\ n <= Max(solid)
    BY <1>3, <1>4, <1>6, <2>1
  <2> QED
    BY <2>2
<1>9. TrimSpace(T) = SubSeq(T, 2, n)
  BY <1>5, <1>7, <1>8
<1>10. /\ SubSeq(T, 2, n) \in Seq(S) /\ Len(SubSeq(T, 2, n)) = n - 1
       /\ \A i \in 1..(n - 1) : SubSeq(T, 2, n)[i] = T[i + 1]
  BY <1>1
<1> QED
  BY <1>9, <1>10

\* A text that is empty, or begins with a blank and a solid symbol, and one that does
\* not end with white space.
Word(P)  == P = <<>> \/ (Len(P) >= 2 /\ P[1] = Blank /\ P[2] \notin White)
Solid(P) == Len(P) > 0 => P[Len(P)] \notin White

\* Words in a row make a word.
LEMMA WordsMakeWord ==
  ASSUME NEW S, NEW P \in Seq(S), NEW Q \in Seq(S), Word(P), Word(Q)
  PROVE  Word(P \o Q)
<1>1. CASE P = <<>>
  <2>1. P \o Q = Q
    BY <1>1
  <2> QED
    BY <2>1
<1>2. CASE P # <<>>
  <2>1. Len(P) >= 2 /\ P[1] = Blank /\ P[2] \notin White /\ Len(P) \in Nat /\ Len(Q) \in Nat
    BY <1>2 DEF Word
  <2>2. 1 \in 1..Len(P) /\ 2 \in 1..Len(P)
    BY <2>1
  <2>3. Len(P \o Q) = Len(P) + Len(Q)
    OBVIOUS
  <2>4. (P \o Q)[1] = P[1] /\ (P \o Q)[2] = P[2]
    BY <2>2, CatIs
  <2> QED
    BY ONLY <2>1, <2>3, <2>4 DEF Word
<1> QED
  BY <1>1, <1>2

\* The second of two texts in a row ends them.
LEMMA SolidRow ==
  ASSUME NEW S, NEW P \in Seq(S), NEW Q \in Seq(S), Solid(Q), Q = <<>> => Solid(P)
  PROVE  Solid(P \o Q)
<1>1. CASE Q = <<>>
  <2>1. P \o Q = P
    BY <1>1
  <2> QED
    BY <1>1, <2>1
<1>2. CASE Q # <<>>
  <2>1. Len(Q) \in Nat /\ Len(Q) > 0 /\ Q[Len(Q)] \notin White /\ Len(P) \in Nat
    BY <1>2 DEF Solid
  <2>2. Len(Q) \in 1..Len(Q)
    BY <2>1
  <2>3. Len(P \o Q) = Len(P) + Len(Q)
    OBVIOUS
  <2>4. (P \o Q)[Len(P) + Len(Q)] = Q[Len(Q)]
    BY <2>2, CatIs
  <2> QED
    BY ONLY <2>1, <2>3, <2>4 DEF Solid
<1> QED
  BY <1>1, <1>2

\* Three texts in a row.
LEMMA RowsInRow ==
  ASSUME NEW S, NEW P \in Seq(S), NEW Q \in Seq(S), NEW R \in Seq(S)
  PROVE  P \o (Q \o R) = (P \o Q) \o R
OBVIOUS

\* In a text of four parts, the first
LEMMA FirstPart ==
  ASSUME NEW S, NEW P \in Seq(S), NEW Q \in Seq(S), NEW R \in Seq(S), NEW U \in Seq(S),
         NEW j \in 1..Len(P)
  PROVE  (P \o Q \o R \o U)[j] = P[j]
<1> DEFINE F == P \o Q
           G == F \o R
<1>1. F \in Seq(S) /\ Len(F) = Len(P) + Len(Q) /\ Len(P) \in Nat /\ Len(Q) \in Nat
  OBVIOUS
<1>2. F[j] = P[j]
  BY CatIs
<1> HIDE DEF F
<1>3. G \in Seq(S) /\ Len(G) = Len(F) + Len(R) /\ Len(R) \in Nat
  BY <1>1, CatIs
<1>4. j \in 1..Len(F) /\ j \in 1..Len(G)
  BY <1>1, <1>3
<1>5. G[j] = F[j]
  BY <1>1, <1>4, CatIs
<1> HIDE DEF G
<1>6. (G \o U)[j] = G[j]
  BY <1>3, <1>4, CatIs
<1> QED
  BY <1>2, <1>5, <1>6 DEF F, G

\* and the second.
LEMMA SecondPart ==
  ASSUME NEW S, NEW P \in Seq(S), NEW Q \in Seq(S), NEW R \in Seq(S), NEW U \in Seq(S),
         NEW j \in 1..Len(Q)
  PROVE  (P \o Q \o R \o U)[Len(P) + j] = Q[j]
<1> DEFINE F == P \o Q
           G == F \o R
<1>1. F \in Seq(S) /\ Len(F) = Len(P) + Len(Q) /\ Len(P) \in Nat /\ Len(Q) \in Nat
  OBVIOUS
<1>2. F[Len(P) + j] = Q[j]
  BY CatIs
<1> HIDE DEF F
<1>3. G \in Seq(S) /\ Len(G) = Len(F) + Len(R) /\ Len(R) \in Nat
  BY <1>1, CatIs
<1>4. Len(P) + j \in 1..Len(F) /\ Len(P) + j \in 1..Len(G)
  BY <1>1, <1>3
<1>5. G[Len(P) + j] = F[Len(P) + j]
  BY <1>1, <1>4, CatIs
<1> HIDE DEF G
<1>6. (G \o U)[Len(P) + j] = G[Len(P) + j]
  BY <1>3, <1>4, CatIs
<1> QED
  BY <1>2, <1>5, <1>6 DEF F, G

\* Where the parts of a text of four parts are.
LEMMA FourParts ==
  ASSUME NEW S, NEW P \in Seq(S), NEW Q \in Seq(S), NEW R \in Seq(S), NEW U \in Seq(S)
  PROVE  LET T == P \o Q \o R \o U
         IN  /\ T \in Seq(S) /\ Len(T) = Len(P) + Len(Q) + Len(R) + Len(U)
             /\ \A j \in 1..Len(P) : T[j] = P[j]
             /\ \A j \in 1..Len(Q) : T[Len(P) + j] = Q[j]
             /\ \A j \in 1..Len(R) : T[Len(P) + Len(Q) + j] = R[j]
             /\ \A j \in 1..Len(U) : T[Len(P) + Len(Q) + Len(R) + j] = U[j]
<1> DEFINE F == P \o Q
           G == F \o R
           T == G \o U
<1>1. F \in Seq(S) /\ Len(F) = Len(P) + Len(Q) /\ Len(P) \in Nat /\ Len(Q) \in Nat
  OBVIOUS
<1>2. G \in Seq(S) /\ Len(G) = Len(F) + Len(R) /\ Len(R) \in Nat
  BY <1>1
<1>3. T \in Seq(S) /\ Len(T) = Len(G) + Len(U) /\ Len(U) \in Nat
  BY <1>2
<1>4. ASSUME NEW j \in 1..Len(P) PROVE T[j] = P[j]
  BY FirstPart
<1>5. ASSUME NEW j \in 1..Len(Q) PROVE T[Len(P) + j] = Q[j]
  BY SecondPart
<1>6. ASSUME NEW j \in 1..Len(R) PROVE T[Len(P) + Len(Q) + j] = R[j]
  <2> HIDE DEF F
  <2>1. G[Len(F) + j] = R[j]
    BY <1>1, CatIs
  <2> HIDE DEF G
  <2>2. Len(F) + j \in 1..Len(G) /\ Len(F) + j = Len(P) + Len(Q) + j
    BY <1>1, <1>2
  <2>3. T[Len(F) + j] = G[Len(F) + j]
    BY <1>2, <2>2, CatIs
  <2> QED
    BY <2>1, <2>2, <2>3
<1>7. ASSUME NEW j \in 1..Len(U) PROVE T[Len(P) + Len(Q) + Len(R) + j] = U[j]
  <2> HIDE DEF F, G
  <2>1. T[Len(G) + j] = U[j]
    BY <1>2, CatIs
  <2>2. Len(G) + j = Len(P) + Len(Q) + Len(R) + j
    BY <1>1, <1>2
  <2> QED
    BY <2>1, <2>2
<1>8. Len(T) = Len(P) + Len(Q) + Len(R) + Len(U)
  BY ONLY <1>1, <1>2, <1>3
<1> QED
  BY <1>3, <1>4, <1>5, <1>6, <1>7, <1>8

(***************************************************************************)
(* What arrives of a message: a value that ends the text and is not quoted *)
(* loses the white space at its end.                                       *)
(***************************************************************************)
Shorn(v) ==
  LET solid == {i \in DOMAIN v : v[i] # NoBreak}
  IN  IF solid = {} THEN <<>> ELSE SubSeq(v, 1, Max(solid))

LastKey == IF KeyB \in DOMAIN sent.fields THEN KeyB ELSE KeyA

Cropped ==
  /\ sent.tags = <<>> /\ LastKey \in DOMAIN sent.fields
  /\ Blank \notin ToSet(sent.fields[LastKey])

arrived ==
  [fields |-> IF Cropped THEN [k \in DOMAIN sent.fields |->
                                IF k = LastKey THEN Shorn(sent.fields[k]) ELSE sent.fields[k]]
                         ELSE sent.fields,
   tags   |-> sent.tags]

\* A value is what is left of it, with white space behind it.
LEMMA ShornIs ==
  ASSUME NEW v \in Seq(Symbols)
  PROVE  /\ Shorn(v) \in Seq(Symbols) /\ Len(Shorn(v)) <= Len(v)
         /\ Len(Shorn(v)) > 0 => Shorn(v)[Len(Shorn(v))] # NoBreak
         /\ \A i \in 1..Len(Shorn(v)) : Shorn(v)[i] = v[i]
         /\ \A i \in (Len(Shorn(v)) + 1)..Len(v) : v[i] = NoBreak
<1> DEFINE solid == {i \in DOMAIN v : v[i] # NoBreak}
<1>1. PICK n \in Nat : n = Len(v) /\ DOMAIN v = 1..n
  OBVIOUS
<1>2. PICK m \in Nat : /\ m <= n /\ Shorn(v) \in Seq(Symbols) /\ Len(Shorn(v)) = m
                       /\ \A i \in 1..m : Shorn(v)[i] = v[i]
                       /\ m > 0 => v[m] # NoBreak
                       /\ \A i \in (m + 1)..n : v[i] = NoBreak
  <2>1. CASE solid = {}
    <3>1. Shorn(v) = <<>>
      BY <2>1 DEF Shorn
    <3>2. \A i \in 1..n : v[i] = NoBreak
      BY <1>1, <2>1
    <3>3. \A i \in (0 + 1)..n : v[i] = NoBreak
      BY <3>2
    <3> QED
      BY <1>1, <3>1, <3>3
  <2>2. CASE solid # {}
    <3>0. solid \in SUBSET (1..n)
      BY <1>1
    <3>1. PICK m \in solid : m = Max(solid) /\ \A y \in solid : y <= m
      BY <2>2, <3>0, MaxOfSome
    <3>2. Shorn(v) = SubSeq(v, 1, m)
      BY <2>2, <3>1 DEF Shorn
    <3>3. m \in 1..n /\ v[m] # NoBreak
      BY <1>1, <3>0
    <3>4. ASSUME NEW i \in (m + 1)..n PROVE v[i] = NoBreak
      <4>1. i \in 1..n /\ ~(i <= m)
        BY <3>3
      <4>2. i \notin solid
        BY <3>1, <4>1
      <4> QED
        BY <1>1, <4>1, <4>2
    <3>5. /\ SubSeq(v, 1, m) \in Seq(Symbols) /\ Len(SubSeq(v, 1, m)) = m
          /\ \A i \in 1..m : SubSeq(v, 1, m)[i] = v[i]
      BY <1>1, <3>3
    <3> HIDE DEF solid
    <3> QED
      BY <3>2, <3>3, <3>4, <3>5
  <2> QED
    BY <2>1, <2>2
<1> QED
  BY <1>1, <1>2

\* What arrives is written as a message is.
LEMMA ArrivedWritten ==
  ASSUME Written(sent)
  PROVE  /\ Written(arrived) /\ arrived.tags = sent.tags
         /\ DOMAIN arrived.fields = DOMAIN sent.fields
         /\ ~Cropped => arrived.fields = sent.fields
         /\ Cropped => \A k \in DOMAIN sent.fields :
              arrived.fields[k] = IF k = LastKey THEN Shorn(sent.fields[k]) ELSE sent.fields[k]
<1>1. arrived.tags = sent.tags
  BY DEF arrived
<1>2. CASE ~Cropped
  <2>1. arrived.fields = sent.fields
    BY <1>2 DEF arrived
  <2> QED
    BY <1>1, <1>2, <2>1 DEF Written
<1>3. CASE Cropped
  <2>1. arrived.fields = [k \in DOMAIN sent.fields |->
                           IF k = LastKey THEN Shorn(sent.fields[k]) ELSE sent.fields[k]]
    BY <1>3 DEF arrived
  <2>2. ASSUME NEW k \in DOMAIN sent.fields PROVE arrived.fields[k] \in Seq(Symbols)
    <3>1. sent.fields[k] \in Seq(Symbols)
      BY DEF Written
    <3>2. Shorn(sent.fields[k]) \in Seq(Symbols)
      BY <3>1, ShornIs
    <3> QED
      BY <2>1, <3>1, <3>2
  <2>3. DOMAIN arrived.fields = DOMAIN sent.fields
    BY <2>1
  <2>4. arrived.fields = [k \in DOMAIN arrived.fields |-> arrived.fields[k]]
    BY <2>1
  <2>5. Written(arrived)
    BY <1>1, <2>2, <2>3, <2>4 DEF Written
  <2> QED
    BY <1>1, <1>3, <2>1, <2>3, <2>5
<1> QED
  BY <1>2, <1>3

\* The parts of the text that a message is written as, and where they end.
Piece(n) ==
  IF n = 1 THEN Pair(arrived, KeyA) ELSE IF n = 2 THEN Pair(arrived, KeyB) ELSE Hashed(arrived, n - 2)

Cut(n) ==
  IF n = 0 THEN 0
  ELSE IF n = 1 THEN Len(Piece(1))
  ELSE IF n = 2 THEN Len(Piece(1)) + Len(Piece(2))
  ELSE IF n = 3 THEN Len(Piece(1)) + Len(Piece(2)) + Len(Piece(3))
  ELSE Len(Piece(1)) + Len(Piece(2)) + Len(Piece(3)) + Len(Piece(4))

Letter(n) == IF n = 1 THEN "a" ELSE "b"
Key(n) == <<Letter(n)>>

\* What a part looks like.
LEMMA PartIs ==
  ASSUME Written(arrived), NEW n \in 1..4
  PROVE  Piece(n) \in Seq(Symbols) /\ Len(Piece(n)) \in Nat /\ Word(Piece(n))
<1>2. <<>> \in Seq(Symbols) /\ Len(<<>>) = 0 /\ Word(<<>>)
  BY DEF Word
<1>3. CASE n \in 1..2
  <2> DEFINE k == Key(n)
             c == Letter(n)
             P == Piece(n)
             V == Value(arrived.fields[k])
  <2>1. c \in {"a", "b"} /\ k = <<c>> /\ Piece(n) = Pair(arrived, k) /\ c \notin White
    <3>1. n = 1 \/ n = 2
      BY <1>3
    <3> QED
      BY <3>1, SymbolsDiffer DEF Piece, Key, Letter, KeyA, KeyB
  <2>3. CASE k \notin DOMAIN arrived.fields
    <3>1. Piece(n) = <<>>
      BY <2>1, <2>3, PairIs
    <3> QED
      BY <1>2, <3>1
  <2>4. CASE k \in DOMAIN arrived.fields
    <3>1. V \in Seq(Symbols) /\ Len(V) \in Nat
      BY <2>4, ValueIs DEF Written
    <3>2. /\ P \in Seq(Symbols) /\ Len(P) = Len(V) + 3
          /\ P[1] = Blank /\ P[2] = c /\ P[3] = "="
          /\ \A j \in 1..Len(V) : P[j + 3] = V[j]
      BY <2>1, <2>4, PairIs
    <3> HIDE DEF k, c, P, V
    <3>3. Word(P)
      BY ONLY <2>1, <3>1, <3>2 DEF Word
    <3>5. Len(P) \in Nat
      BY <3>2
    <3>7. P = Piece(n)
      BY DEF P
    <3> QED
      BY <3>2, <3>3, <3>5, <3>7
  <2> QED
    BY <2>3, <2>4
<1>4. CASE n \in 3..4
  <2> DEFINE i == n - 2
             P == Piece(n)
             g == arrived.tags[i]
  <2>1. i \in {1, 2} /\ P = Hashed(arrived, i)
    BY <1>4 DEF Piece
  <2>2. CASE i \notin DOMAIN arrived.tags
    <3>1. Piece(n) = <<>>
      BY <2>1, <2>2, HashedIs
    <3> QED
      BY <1>2, <3>1
  <2>3. CASE i \in DOMAIN arrived.tags
    <3>1. /\ P \in Seq(Symbols) /\ Len(P) = Len(g) + 2 /\ Len(g) \in Nat \ {0}
          /\ P[1] = Blank /\ P[2] = "#"
      BY <2>1, <2>3, HashedIs
    <3>4. "#" \notin White
      BY SymbolsDiffer
    <3>5. P = Piece(n)
      OBVIOUS
    <3> HIDE DEF P, g
    <3>6. Word(P) /\ Len(P) \in Nat
      BY ONLY <3>1, <3>4 DEF Word
    <3> QED
      BY <3>1, <3>5, <3>6
  <2> QED
    BY <2>2, <2>3
<1> QED
  BY <1>3, <1>4

(***************************************************************************)
(* The body is the text without its first blank.                           *)
(***************************************************************************)
Layout ==
  /\ body \in Seq(Symbols)
  /\ Len(body) = IF Cut(4) = 0 THEN 0 ELSE Cut(4) - 1
  /\ \A n \in 1..4 : \A j \in 1..Len(Piece(n)) :
       Cut(n - 1) + j > 1 => body[Cut(n - 1) + j - 1] = Piece(n)[j]

\* Each part ends where its length says.
LEMMA CutIs ==
  ASSUME Written(arrived)
  PROVE  /\ \A n \in 0..4 : Cut(n) \in Nat
         /\ \A n \in 1..4 : Cut(n) = Cut(n - 1) + Len(Piece(n))
         /\ Cut(0) = 0
<1>1. /\ Len(Piece(1)) \in Nat /\ Len(Piece(2)) \in Nat
      /\ Len(Piece(3)) \in Nat /\ Len(Piece(4)) \in Nat
  BY PartIs
<1> QED
  BY <1>1 DEF Cut

\* What String writes of a key: what arrives of it, and white space behind it if the
\* value is cropped.
LEMMA PairCropped ==
  ASSUME NEW c \in {"a", "b"}, NEW k, k = <<c>>, k \in DOMAIN sent.fields,
         Written(sent), Cropped, k = LastKey
  PROVE  \E W \in Seq({NoBreak}) : Pair(sent, k) = Pair(arrived, k) \o W
<1> DEFINE v == sent.fields[k]
           s == Shorn(v)
           X == Pair(sent, k)
           P == Pair(arrived, k)
<1>1. v \in Seq(Symbols) /\ Blank \notin ToSet(v)
  BY DEF Written, Cropped
<1>2. /\ s \in Seq(Symbols) /\ Len(s) <= Len(v)
      /\ \A i \in 1..Len(s) : s[i] = v[i]
      /\ \A i \in (Len(s) + 1)..Len(v) : v[i] = NoBreak
  BY <1>1, ShornIs
<1>3. Written(arrived) /\ k \in DOMAIN arrived.fields /\ arrived.fields[k] = s
  BY ArrivedWritten
<1> HIDE DEF s
<1>4. Blank \notin ToSet(s)
  <2>1. \A i \in 1..Len(s) : s[i] \in ToSet(v)
    BY <1>1, <1>2 DEF ToSet
  <2> QED
    BY <1>1, <1>2, <2>1 DEF ToSet
<1>5. Value(v) = v /\ Value(s) = s
  BY <1>1, <1>2, <1>4, ValueIs
<1>6. /\ X \in Seq(Symbols) /\ Len(X) = Len(v) + 3
      /\ X[1] = Blank /\ X[2] = c /\ X[3] = "=" /\ \A j \in 1..Len(v) : X[j + 3] = v[j]
  BY <1>5, PairIs
<1>7. /\ P \in Seq(Symbols) /\ Len(P) = Len(s) + 3
      /\ P[1] = Blank /\ P[2] = c /\ P[3] = "=" /\ \A j \in 1..Len(s) : P[j + 3] = s[j]
  <2>1. PICK V : V = Value(arrived.fields[k])
    OBVIOUS
  <2>2. V = s
    BY <1>3, <1>5, <2>1
  <2>3. /\ P \in Seq(Symbols) /\ Len(P) = Len(V) + 3
        /\ P[1] = Blank /\ P[2] = c /\ P[3] = "=" /\ \A j \in 1..Len(V) : P[j + 3] = V[j]
    BY ONLY <1>3, <2>1, c \in {"a", "b"}, k = <<c>>, PairIs
  <2> HIDE DEF P
  <2> QED
    BY ONLY <2>2, <2>3
<1> HIDE DEF v, X, P
<1>8. PICK m \in Nat, n \in Nat : m = Len(s) /\ n = Len(v) /\ m <= n
  BY <1>1, <1>2
<1> DEFINE W == [i \in 1..(n - m) |-> NoBreak]
<1>9. W \in Seq({NoBreak}) /\ W \in Seq(Symbols) /\ Len(W) = n - m
      /\ \A i \in 1..(n - m) : W[i] = NoBreak
  BY <1>8, SymbolsDiffer
<1> HIDE DEF W
<1>10. /\ P \o W \in Seq(Symbols) /\ Len(P \o W) = n + 3
       /\ \A i \in 1..Len(P) : (P \o W)[i] = P[i]
       /\ \A i \in 1..Len(W) : (P \o W)[Len(P) + i] = W[i]
  <2>1. /\ P \o W \in Seq(Symbols) /\ Len(P \o W) = Len(P) + Len(W)
        /\ \A i \in 1..Len(P) : (P \o W)[i] = P[i]
        /\ \A i \in 1..Len(W) : (P \o W)[Len(P) + i] = W[i]
    <3>1. P \in Seq(Symbols) /\ W \in Seq(Symbols)
      BY <1>7, <1>9
    <3> QED
      BY ONLY <3>1, CatIs
  <2> QED
    BY <1>7, <1>8, <1>9, <2>1
<1>11. ASSUME NEW i \in 1..(n + 3) PROVE X[i] = (P \o W)[i]
  <2>1. CASE i <= 3
    <3>1. i \in 1..Len(P)
      BY <1>7, <1>8, <2>1
    <3>2. i = 1 \/ i = 2 \/ i = 3
      BY <2>1
    <3> QED
      BY <1>6, <1>7, <1>10, <3>1, <3>2
  <2>2. CASE 3 < i /\ i <= m + 3
    <3>1. i \in 1..Len(P) /\ i - 3 \in 1..m /\ i - 3 \in 1..n /\ (i - 3) + 3 = i
      BY <1>7, <1>8, <2>2
    <3>2. X[i] = v[i - 3] /\ P[i] = s[i - 3] /\ s[i - 3] = v[i - 3]
      BY <1>2, <1>6, <1>7, <1>8, <3>1
    <3> QED
      BY <1>10, <3>1, <3>2
  <2>3. CASE m + 3 < i
    <3>1. /\ i - (m + 3) \in 1..(n - m) /\ (m + 3) + (i - (m + 3)) = i
          /\ i - 3 \in (m + 1)..n /\ i - 3 \in 1..n /\ (i - 3) + 3 = i
      BY <1>8, <2>3
    <3>2. Len(P) = m + 3 /\ Len(W) = n - m
      BY <1>7, <1>8, <1>9
    <3>3. (P \o W)[i] = W[i - (m + 3)]
      BY <1>10, <3>1, <3>2
    <3>4. X[i] = v[i - 3] /\ v[i - 3] = NoBreak
      BY <1>2, <1>6, <1>8, <3>1
    <3> QED
      BY <1>9, <3>1, <3>3, <3>4
  <2>4. i <= 3 \/ (3 < i /\ i <= m + 3) \/ m + 3 < i
    BY <1>8
  <2> QED
    BY <2>1, <2>2, <2>3, <2>4
<1>12. X = P \o W
  <2>1. Len(X) = Len(P \o W) /\ Len(X) = n + 3
    BY <1>6, <1>8, <1>10
  <2> QED
    BY <1>6, <1>10, <1>11, <2>1, SameSeq
<1> QED
  BY <1>9, <1>12 DEF X, P

\* A key that is not cropped is written as it arrives.
LEMMA PairWhole ==
  ASSUME Written(sent), NEW k, Cropped => k # LastKey
  PROVE  Pair(arrived, k) = Pair(sent, k)
<1>1. DOMAIN arrived.fields = DOMAIN sent.fields
  BY ArrivedWritten
<1>2. k \in DOMAIN sent.fields => arrived.fields[k] = sent.fields[k]
  BY ArrivedWritten
<1> QED
  BY <1>1, <1>2 DEF Pair

\* So String writes what arrives, and white space.
LEMMA StringCropped ==
  ASSUME Written(sent), ~sent.sharing
  PROVE  \E W \in Seq({NoBreak}) :
           String(sent) = (Piece(1) \o Piece(2) \o Piece(3) \o Piece(4)) \o W
<1> DEFINE P == Piece(1)
           Q == Piece(2)
           R == Piece(3)
           U == Piece(4)
           A == Pair(sent, KeyA)
           B == Pair(sent, KeyB)
<1>1. /\ P \in Seq(Symbols) /\ Q \in Seq(Symbols) /\ R \in Seq(Symbols) /\ U \in Seq(Symbols)
      /\ Written(arrived)
  BY ArrivedWritten, PartIs
<1>2. String(sent) = A \o B \o R \o U
  <2>1. arrived.tags = sent.tags
    BY ArrivedWritten
  <2>2. R = Hashed(sent, 1) /\ U = Hashed(sent, 2)
    BY <2>1 DEF Piece, Hashed
  <2> HIDE DEF R, U
  <2> QED
    BY <2>2 DEF String
<1>3. P = Pair(arrived, KeyA) /\ Q = Pair(arrived, KeyB)
  BY DEF Piece
<1>4. KeyA # KeyB
  BY DEF KeyA, KeyB
<1>5. <<>> \in Seq({NoBreak}) /\ NoBreak \in Symbols
  BY SymbolsDiffer
<1>6. ASSUME NEW T \in Seq(Symbols) PROVE T \o <<>> = T
  OBVIOUS
<1>7. CASE ~Cropped
  <2>1. A = P /\ B = Q
    BY <1>3, <1>7, PairWhole, ArrivedWritten
  <2>2. P \o Q \o R \o U \in Seq(Symbols)
    BY <1>1, FourParts
  <2>3. PICK T \in Seq(Symbols) : T = P \o Q \o R \o U
    BY <2>2
  <2>4. String(sent) = T \o <<>>
    BY <1>2, <1>6, <2>1, <2>3
  <2> QED
    BY <1>5, <2>3, <2>4
<1>8. CASE Cropped
  <2>1. R = <<>> /\ U = <<>>
    <3>1. arrived.tags = <<>>
      BY <1>8, ArrivedWritten DEF Cropped
    <3> QED
      BY <3>1 DEF Piece, Hashed
  <2>2. LastKey \in DOMAIN sent.fields
    BY <1>8 DEF Cropped
  <2> HIDE DEF P, Q, R, U
  <2>3. P \o Q \in Seq(Symbols) /\ P \o Q \o R \o U = P \o Q
    <3>1. P \o Q \in Seq(Symbols)
      BY <1>1
    <3> QED
      BY <1>6, <2>1, <3>1
  <2>4. CASE KeyB \in DOMAIN sent.fields
    <3>1. LastKey = KeyB
      BY <2>4 DEF LastKey
    <3>2. PICK W \in Seq({NoBreak}) : B = Q \o W
      BY <1>1, <1>3, <1>8, <2>4, <3>1, PairCropped DEF KeyB
    <3>3. A = P
      BY <1>3, <1>4, <3>1, PairWhole
    <3>4. W \in Seq(Symbols)
      BY <1>5
    <3>5. P \o (Q \o W) = (P \o Q) \o W
      BY <1>1, <3>4, RowsInRow
    <3>6. Q \o W \in Seq(Symbols) /\ P \o (Q \o W) \in Seq(Symbols)
      BY <1>1, <3>4
    <3>7. String(sent) = P \o (Q \o W)
      BY <1>2, <1>6, <2>1, <3>2, <3>3, <3>6
    <3> QED
      BY <2>3, <3>5, <3>7 DEF P, Q, R, U
  <2>5. CASE KeyB \notin DOMAIN sent.fields
    <3>1. LastKey = KeyA /\ KeyA \in DOMAIN sent.fields
      BY <2>2, <2>5 DEF LastKey
    <3>2. PICK W \in Seq({NoBreak}) : A = P \o W
      BY <1>1, <1>3, <1>8, <3>1, PairCropped DEF KeyA
    <3>3. B = Q /\ B = <<>>
      BY <1>3, <1>4, <2>5, <3>1, PairWhole DEF Pair
    <3>4. W \in Seq(Symbols) /\ P \o W \in Seq(Symbols)
      BY <1>1, <1>5
    <3>5. String(sent) = P \o W /\ P \o Q = P
      BY <1>1, <1>2, <1>6, <2>1, <3>2, <3>3, <3>4
    <3> QED
      BY <2>3, <3>5 DEF P, Q, R, U
  <2> QED
    BY <2>4, <2>5
<1> QED
  BY <1>7, <1>8

\* The text that arrives does not end with white space.
LEMMA ArrivedSolid ==
  ASSUME Written(sent)
  PROVE  Solid(Piece(1) \o Piece(2) \o Piece(3) \o Piece(4))
<1> DEFINE P == Piece(1)
           Q == Piece(2)
           R == Piece(3)
           U == Piece(4)
<1>1. /\ P \in Seq(Symbols) /\ Q \in Seq(Symbols) /\ R \in Seq(Symbols) /\ U \in Seq(Symbols)
      /\ Written(arrived) /\ Word(P) /\ Word(Q)
  BY ArrivedWritten, PartIs
<1>2. R = Hashed(arrived, 1) /\ U = Hashed(arrived, 2)
  BY DEF Piece
<1>3. P = Pair(arrived, KeyA) /\ Q = Pair(arrived, KeyB)
  BY DEF Piece
<1>4. Solid(<<>>)
  BY DEF Solid
<1>5. ASSUME NEW n \in {1, 2} PROVE Solid(Hashed(arrived, n))
  <2>1. CASE n \notin DOMAIN arrived.tags
    BY <1>1, <1>4, <2>1, HashedIs
  <2>2. CASE n \in DOMAIN arrived.tags
    <3>1. /\ Len(Hashed(arrived, n)) = Len(arrived.tags[n]) + 2
          /\ Hashed(arrived, n)[Len(arrived.tags[n]) + 2] \notin White
      BY <1>1, <2>2, HashedIs
    <3> QED
      BY ONLY <3>1 DEF Solid
  <2> QED
    BY <2>1, <2>2
<1>6. ASSUME NEW c \in {"a", "b"}, NEW k, k = <<c>>, k \in DOMAIN arrived.fields,
             arrived.tags = <<>>, k = LastKey
      PROVE  Solid(Pair(arrived, k))
  <2> DEFINE X == Pair(arrived, k)
             v == arrived.fields[k]
             V == Value(v)
  <2>1. v \in Seq(Symbols)
    BY <1>1, <1>6 DEF Written
  <2>2. /\ V \in Seq(Symbols) /\ Len(V) \in Nat
        /\ Len(X) = Len(V) + 3 /\ X[3] = "=" /\ \A j \in 1..Len(V) : X[j + 3] = V[j]
    <3>1. V \in Seq(Symbols) /\ Len(V) \in Nat
      BY <2>1, ValueIs
    <3>2. PICK Y : Y = V
      OBVIOUS
    <3>4. Written(arrived) /\ k \in DOMAIN arrived.fields /\ k = <<c>>
      BY <1>1, <1>6
    <3>3. Len(X) = Len(Y) + 3 /\ X[3] = "=" /\ \A j \in 1..Len(Y) : X[j + 3] = Y[j]
      BY ONLY <3>2, <3>4, c \in {"a", "b"}, PairIs
    <3> HIDE DEF X, V
    <3> QED
      BY <3>1, <3>2, <3>3
  <2>3. Solid(V)
    <3>1. CASE Blank \in ToSet(v)
      <4>1. Len(V) = Len(v) + 2 /\ V[Len(v) + 2] = Quote /\ Quote \notin White
        BY <2>1, <3>1, ValueIs, SymbolsDiffer
      <4> HIDE DEF V
      <4> QED
        BY <4>1 DEF Solid
    <3>2. CASE Blank \notin ToSet(v)
      <4>1. V = v /\ \A j \in 1..Len(v) : v[j] # Blank
        BY <2>1, <3>2, ValueIs
      <4>2. Len(v) > 0 => v[Len(v)] # NoBreak
        <5>1. k \in DOMAIN sent.fields /\ sent.fields[k] \in Seq(Symbols)
          BY <1>6, ArrivedWritten DEF Written
        <5>2. CASE Cropped
          <6>1. v = Shorn(sent.fields[k])
            BY <1>6, <5>1, <5>2, ArrivedWritten
          <6> QED
            BY <5>1, <6>1, ShornIs
        <5>3. CASE ~Cropped
          <6>1. v = sent.fields[k] /\ sent.tags = <<>>
            BY <1>6, <5>3, ArrivedWritten
          <6>2. Cropped
            BY <1>6, <3>2, <5>1, <6>1 DEF Cropped
          <6> QED
            BY <5>3, <6>2
        <5> QED
          BY <5>2, <5>3
      <4>3. Len(v) > 0 => v[Len(v)] \notin White
        <5>1. Len(v) > 0 => Len(v) \in 1..Len(v)
          BY <2>1
        <5> QED
          BY <4>1, <4>2, <5>1 DEF White
      <4> QED
        BY <4>1, <4>3 DEF Solid
    <3> QED
      BY <3>1, <3>2
  <2> HIDE DEF V, X
  <2>4. PICK l \in Nat : l = Len(V) /\ Len(X) = l + 3
    BY <2>2
  <2>5. X[l + 3] \notin White
    <3>1. CASE l = 0
      BY <2>2, <3>1, SymbolsDiffer
    <3>2. CASE l > 0
      <4>1. l \in 1..Len(V)
        BY <2>4, <3>2
      <4> QED
        BY <2>2, <2>3, <2>4, <3>2, <4>1 DEF Solid
    <3> QED
      BY <3>1, <3>2
  <2> QED
    BY <2>4, <2>5 DEF Solid, X
<1>7. arrived.tags \in Seq(Seq(Symbols))
  BY <1>1 DEF Written
<1>8. CASE arrived.tags # <<>>
  <2>1. 1 \in DOMAIN arrived.tags
    BY <1>7, <1>8
  <2>2. R # <<>>
    <3>1. Len(R) = Len(arrived.tags[1]) + 2 /\ Len(arrived.tags[1]) \in Nat \ {0}
      BY <1>1, <1>2, <2>1, HashedIs
    <3> HIDE DEF R
    <3> QED
      BY <3>1
  <2>3. Solid(R) /\ Solid(U)
    BY <1>2, <1>5
  <2> HIDE DEF P, Q, R, U
  <2>4. P \o Q \in Seq(Symbols)
    BY <1>1
  <2> DEFINE F == P \o Q
  <2> HIDE DEF F
  <2>5. F \o R \in Seq(Symbols) /\ Solid(F \o R)
    <3>1. F \in Seq(Symbols) /\ R \in Seq(Symbols) /\ (R = <<>> => Solid(F))
      BY <1>1, <2>2, <2>4 DEF F
    <3> QED
      BY <2>3, <3>1, SolidRow
  <2> DEFINE G == F \o R
  <2> HIDE DEF G
  <2>6. Solid(G \o U)
    BY <1>1, <2>3, <2>5, SolidRow DEF G
  <2> QED
    BY <2>6 DEF F, G, P, Q, R, U
<1>9. CASE arrived.tags = <<>>
  <2>1. R = <<>> /\ U = <<>>
    BY <1>9 DEF Piece, Hashed
  <2>0. DOMAIN arrived.fields = DOMAIN sent.fields
    BY ArrivedWritten
  <2>2. Solid(Q) /\ (Q = <<>> => Solid(P))
    <3>1. CASE KeyB \in DOMAIN arrived.fields
      <4>1. LastKey = KeyB
        BY <2>0, <3>1 DEF LastKey
      <4>2. Solid(Q)
        BY <1>3, <1>6, <1>9, <3>1, <4>1 DEF KeyB
      <4>3. Q # <<>>
        <5>1. PICK V : V = Value(arrived.fields[KeyB])
          OBVIOUS
        <5>3. arrived.fields[KeyB] \in Seq(Symbols)
          BY <1>1, <3>1 DEF Written
        <5>4. Len(V) \in Nat
          BY <5>1, <5>3, ValueIs
        <5>5. Len(Pair(arrived, KeyB)) = Len(V) + 3
          <6>1. "b" \in {"a", "b"} /\ KeyB = <<"b">>
            BY DEF KeyB
          <6> QED
            BY ONLY <1>1, <3>1, <5>1, <6>1, PairIs
        <5>2. Len(V) \in Nat /\ Len(Q) = Len(V) + 3
          BY <1>3, <5>4, <5>5
        <5> HIDE DEF Q
        <5> QED
          BY <5>2
      <4> QED
        BY <4>2, <4>3
    <3>2. CASE KeyB \notin DOMAIN arrived.fields
      <4>1. LastKey = KeyA /\ Q = <<>>
        BY <1>3, <2>0, <3>2 DEF LastKey, Pair
      <4>2. CASE KeyA \in DOMAIN arrived.fields
        BY <1>3, <1>4, <1>6, <1>9, <4>1, <4>2 DEF KeyA
      <4>3. CASE KeyA \notin DOMAIN arrived.fields
        <5>1. P = <<>>
          BY <1>3, <4>3 DEF Pair
        <5> QED
          BY <1>4, <4>1, <5>1
      <4> QED
        BY <4>2, <4>3
    <3> QED
      BY <3>1, <3>2
  <2> HIDE DEF P, Q, R, U
  <2>3. P \o Q \in Seq(Symbols) /\ Solid(P \o Q)
    BY <1>1, <2>2, SolidRow
  <2>4. P \o Q \o R \o U = P \o Q
    BY <2>1, <2>3
  <2> QED
    BY <2>3, <2>4 DEF P, Q, R, U
<1> QED
  BY <1>8, <1>9

\* So it is when Parse has trimmed what String wrote.
LEMMA LayoutInit ==
  ASSUME WireInit, ~sent.sharing
  PROVE  Layout
<1> DEFINE P == Piece(1)
           Q == Piece(2)
           R == Piece(3)
           U == Piece(4)
           T == P \o Q \o R \o U
<1>0. Written(sent) /\ Written(arrived)
  BY MessagesAre, ArrivedWritten DEF WireInit
<1>1. \A n \in 1..4 : Piece(n) \in Seq(Symbols) /\ Len(Piece(n)) \in Nat /\ Word(Piece(n))
  BY <1>0, PartIs
<1>2. PICK W \in Seq({NoBreak}) : body = TrimSpace(T \o W)
  BY <1>0, StringCropped DEF WireInit
<1>12. Solid(T)
  BY <1>0, ArrivedSolid
<1>3. /\ P \in Seq(Symbols) /\ Word(P) /\ Q \in Seq(Symbols) /\ Word(Q)
      /\ R \in Seq(Symbols) /\ Word(R) /\ U \in Seq(Symbols) /\ Word(U)
  BY <1>1
<1>4. PICK a \in Nat, b \in Nat, c \in Nat, d \in Nat :
        a = Len(P) /\ b = Len(Q) /\ c = Len(R) /\ d = Len(U)
  BY <1>1
<1>5. Cut(0) = 0 /\ Cut(1) = a /\ Cut(2) = a + b /\ Cut(3) = a + b + c /\ Cut(4) = a + b + c + d
  BY <1>4 DEF Cut
<1> HIDE DEF P, Q, R, U
<1>6. T \in Seq(Symbols) /\ Len(T) = a + b + c + d
  <2>1. T \in Seq(Symbols) /\ Len(T) = Len(P) + Len(Q) + Len(R) + Len(U)
    BY <1>3, FourParts
  <2> QED
    BY <1>4, <2>1
<1>7. \A n \in 1..4 : \A j \in 1..Len(Piece(n)) : T[Cut(n - 1) + j] = Piece(n)[j]
  <2>1. ASSUME NEW j \in 1..Len(P) PROVE T[Cut(0) + j] = P[j]
    <3>1. T[j] = P[j]
      BY <1>3, FirstPart
    <3>2. Cut(0) + j = j
      BY <1>4, <1>5
    <3> QED
      BY <3>1, <3>2
  <2>2. ASSUME NEW j \in 1..Len(Q) PROVE T[Cut(1) + j] = Q[j]
    <3>1. T[Len(P) + j] = Q[j]
      BY <1>3, SecondPart
    <3> QED
      BY <1>4, <1>5, <3>1
  <2>3. ASSUME NEW j \in 1..Len(R) PROVE T[Cut(2) + j] = R[j]
    <3>1. T[Len(P) + Len(Q) + j] = R[j]
      BY <1>3, FourParts
    <3>2. Len(P) + Len(Q) + j = Cut(2) + j
      BY <1>4, <1>5
    <3> QED
      BY <3>1, <3>2
  <2>4. ASSUME NEW j \in 1..Len(U) PROVE T[Cut(3) + j] = U[j]
    <3>1. T[Len(P) + Len(Q) + Len(R) + j] = U[j]
      BY <1>3, FourParts
    <3>2. Len(P) + Len(Q) + Len(R) + j = Cut(3) + j
      BY <1>4, <1>5
    <3> QED
      BY <3>1, <3>2
  <2> HIDE DEF T
  <2> QED
    BY <2>1, <2>2, <2>3, <2>4 DEF P, Q, R, U
<1>8. Word(T)
  <2> DEFINE F == P \o Q
             G == F \o R
  <2>1. F \in Seq(Symbols) /\ Word(F)
    BY <1>3, WordsMakeWord
  <2> HIDE DEF F
  <2>2. G \in Seq(Symbols) /\ Word(G)
    BY <1>3, <2>1, WordsMakeWord
  <2> HIDE DEF G
  <2>3. Word(G \o U)
    BY <1>3, <2>2, WordsMakeWord
  <2> QED
    BY <2>3 DEF F, G
<1> HIDE DEF T
<1>13. /\ W \in Seq(Symbols) /\ T \o W \in Seq(Symbols) /\ Len(T \o W) = Len(T) + Len(W)
       /\ Len(T) \in Nat /\ Len(W) \in Nat
       /\ \A i \in 1..Len(T) : (T \o W)[i] = T[i]
       /\ \A i \in 1..Len(W) : (T \o W)[Len(T) + i] \in White
  <2>1. W \in Seq(Symbols) /\ NoBreak \in White /\ \A i \in 1..Len(W) : W[i] = NoBreak
    BY SymbolsDiffer
  <2>2. /\ T \o W \in Seq(Symbols) /\ Len(T \o W) = Len(T) + Len(W)
        /\ Len(T) \in Nat /\ Len(W) \in Nat
        /\ \A i \in 1..Len(T) : (T \o W)[i] = T[i]
        /\ \A i \in 1..Len(W) : (T \o W)[Len(T) + i] = W[i]
    <3>1. T \in Seq(Symbols) /\ W \in Seq(Symbols)
      BY <1>6, <2>1
    <3> QED
      BY ONLY <3>1, CatIs
  <2> QED
    BY <2>1, <2>2
<1> DEFINE X == T \o W
<1> HIDE DEF X
<1>9. /\ body \in Seq(Symbols) /\ Len(body) = IF Cut(4) = 0 THEN 0 ELSE Cut(4) - 1
      /\ \A i \in 1..Len(body) : body[i] = T[i + 1]
  <2>1. CASE T = <<>>
    <3>1. Len(T) = 0
      BY <2>1
    <3>2. body = <<>>
      <4>1. \A i \in DOMAIN X : X[i] \in White
        <5> SUFFICES ASSUME NEW i \in DOMAIN X PROVE X[i] \in White
          OBVIOUS
        <5>1. i \in 1..Len(W) /\ Len(T) + i = i
          BY <1>13, <3>1 DEF X
        <5> QED
          BY <1>13, <5>1 DEF X
      <4>2. {i \in DOMAIN X : X[i] \notin White} = {}
        BY <4>1
      <4> QED
        BY <1>2, <4>2 DEF TrimSpace, X
    <3> QED
      BY <1>5, <1>6, <3>1, <3>2
  <2>2. CASE T # <<>>
    <3>1. PICK n \in Nat : n = Len(T) /\ 2 <= n /\ T[1] = Blank /\ T[2] \notin White /\ T[n] \notin White
      BY <1>8, <1>12, <1>13, <2>2 DEF Word, Solid
    <3>2. 1 \in 1..Len(T) /\ 2 \in 1..Len(T) /\ n \in 1..Len(T)
      BY <3>1
    <3>3. X \in Seq(Symbols) /\ n <= Len(X) /\ X[1] = Blank /\ X[2] \notin White /\ X[n] \notin White
      BY <1>13, <3>1, <3>2 DEF X
    <3>4. ASSUME NEW i \in (n + 1)..Len(X) PROVE X[i] \in White
      <4>1. i - n \in 1..Len(W) /\ Len(T) + (i - n) = i
        BY <1>13, <3>1 DEF X
      <4> QED
        BY <1>13, <4>1 DEF X
    <3>5. /\ TrimSpace(X) \in Seq(Symbols) /\ Len(TrimSpace(X)) = n - 1
          /\ \A i \in 1..(n - 1) : TrimSpace(X)[i] = X[i + 1]
      BY <3>1, <3>3, <3>4, TrimOuter
    <3>6. ASSUME NEW i \in 1..(n - 1) PROVE X[i + 1] = T[i + 1]
      <4>1. i + 1 \in 1..Len(T)
        BY <3>1
      <4> QED
        BY <1>13, <4>1 DEF X
    <3>7. body = TrimSpace(X)
      BY <1>2 DEF X
    <3>8. n = Cut(4) /\ n # 0
      BY <1>5, <1>6, <3>1
    <3> QED
      BY <3>5, <3>6, <3>7, <3>8
  <2> QED
    BY <2>1, <2>2
<1>10. PICK e \in Nat : e = Len(body) /\ e = IF a + b + c + d = 0 THEN 0 ELSE a + b + c + d - 1
  BY <1>5, <1>9
<1>11. ASSUME NEW n \in 1..4, NEW j \in 1..Len(Piece(n)), Cut(n - 1) + j > 1
       PROVE  body[Cut(n - 1) + j - 1] = Piece(n)[j]
  <2>1. PICK z \in Nat : z = Cut(n - 1) /\ z + j <= a + b + c + d
    <3>1. CASE n = 1
      BY <1>4, <1>5, <3>1 DEF P
    <3>2. CASE n = 2
      BY <1>4, <1>5, <3>2 DEF Q
    <3>3. CASE n = 3
      BY <1>4, <1>5, <3>3 DEF R
    <3>4. CASE n = 4
      BY <1>4, <1>5, <3>4 DEF U
    <3> QED
      BY <3>1, <3>2, <3>3, <3>4
  <2>2. z + j - 1 \in 1..e /\ z + j - 1 + 1 = z + j
    BY <1>10, <1>11, <2>1
  <2>3. body[z + j - 1] = T[z + j]
    BY <1>9, <1>10, <2>2
  <2> QED
    BY <1>7, <2>1, <2>3
<1> QED
  BY <1>9, <1>11 DEF Layout

(***************************************************************************)
(* A SHARING-CONTEXT: TrimSpace takes off the blank that String writes.    *)
(***************************************************************************)
\* A sequence behind one symbol.
LEMMA CatTwo ==
  ASSUME NEW S, NEW x \in S, NEW p \in Seq(S)
  PROVE  /\ <<x>> \o p \in Seq(S) /\ Len(<<x>> \o p) = Len(p) + 1
         /\ (<<x>> \o p)[1] = x
         /\ \A i \in 1..Len(p) : (<<x>> \o p)[i + 1] = p[i]
OBVIOUS

\* A piece of a sequence.
LEMMA SubIs ==
  ASSUME NEW S, NEW s \in Seq(S), NEW a \in Nat \ {0}, NEW b \in Nat, a <= b + 1, b <= Len(s)
  PROVE  /\ SubSeq(s, a, b) \in Seq(S) /\ Len(SubSeq(s, a, b)) = b - a + 1
         /\ \A i \in 1..(b - a + 1) : SubSeq(s, a, b)[i] = s[a + i - 1]
OBVIOUS

\* A leading blank is trimmed and changes nothing else.
LEMMA TrimAfterBlank ==
  ASSUME NEW S, NEW p \in Seq(S), NEW T \in Seq(S), Len(T) = Len(p) + 1, T[1] = Blank,
         \A i \in 1..Len(p) : T[i + 1] = p[i]
  PROVE  TrimSpace(T) = TrimSpace(p)
<1> DEFINE A == {i \in DOMAIN p : p[i] \notin White}
           B == {i \in DOMAIN T : T[i] \notin White}
<1>0. Len(p) \in Nat /\ DOMAIN p = 1..Len(p) /\ DOMAIN T = 1..Len(T)
  OBVIOUS
<1>1. PICK n \in Nat : n = Len(p) /\ DOMAIN p = 1..n /\ DOMAIN T = 1..(n + 1)
  BY <1>0
<1>2. A \in SUBSET (1..n) /\ B \in SUBSET (1..(n + 1)) /\ A \in SUBSET Nat /\ B \in SUBSET Nat
  BY <1>1
<1>3. ASSUME NEW i \in A PROVE i + 1 \in B
  BY <1>1
<1>4. ASSUME NEW i \in B PROVE i - 1 \in A /\ i - 1 + 1 = i
  <2>1. i \in 1..(n + 1) /\ T[i] \notin White /\ i # 1
    BY <1>1, SymbolsDiffer
  <2>2. i - 1 \in 1..n /\ (i - 1) + 1 = i
    BY <2>1
  <2> QED
    BY <1>1, <2>1, <2>2
<1>5. TrimSpace(p) = IF A = {} THEN <<>> ELSE SubSeq(p, Min(A), Max(A))
  BY DEF TrimSpace
<1>6. TrimSpace(T) = IF B = {} THEN <<>> ELSE SubSeq(T, Min(B), Max(B))
  BY DEF TrimSpace
<1> HIDE DEF A, B
<1>7. CASE A = {}
  <2>1. B = {}
    BY <1>4, <1>7
  <2> QED
    BY <1>5, <1>6, <1>7, <2>1
<1>8. CASE A # {}
  <2>1. PICK a \in A : a = Min(A) /\ \A y \in A : a <= y
    BY <1>2, <1>8, MinOfSome
  <2>2. PICK b \in A : b = Max(A) /\ \A y \in A : y <= b
    BY <1>2, <1>8, MaxOfSome
  <2>3. a \in 1..n /\ b \in 1..n /\ a <= b
    BY <1>2, <2>1, <2>2
  <2>4. B # {} /\ a + 1 \in B /\ b + 1 \in B
    BY <1>3, <2>1, <2>2
  <2>5. Min(B) = a + 1
    <3>1. ASSUME NEW y \in B PROVE a + 1 <= y
      <4>1. y - 1 \in A /\ y \in Nat
        BY <1>2, <1>4
      <4>2. a <= y - 1
        BY <2>1, <4>1
      <4> QED
        BY <2>3, <4>1, <4>2
    <3> QED
      BY <1>2, <2>4, <3>1, MinIs
  <2>6. Max(B) = b + 1
    <3>1. ASSUME NEW y \in B PROVE y <= b + 1
      <4>1. y - 1 \in A /\ y \in Nat
        BY <1>2, <1>4
      <4>2. y - 1 <= b
        BY <2>2, <4>1
      <4> QED
        BY <2>3, <4>1, <4>2
    <3>2. Max(B) \in B /\ \A y \in B : y <= Max(B)
      <4>1. PICK k \in Nat : k = n + 1
        BY <1>1
      <4>2. B \in SUBSET (1..k) /\ B # {}
        BY <1>2, <2>4, <4>1
      <4> QED
        BY ONLY <4>2, k \in Nat, MaxOfSome
    <3>3. Max(B) \in Nat /\ Max(B) <= b + 1 /\ b + 1 <= Max(B)
      BY <1>2, <2>4, <3>1, <3>2
    <3> QED
      BY <2>3, <3>3
  <2>7. SubSeq(T, a + 1, b + 1) = SubSeq(p, a, b)
    <3> DEFINE s == SubSeq(T, a + 1, b + 1)
               t == SubSeq(p, a, b)
    <3>1. /\ s \in Seq(S) /\ Len(s) = b - a + 1
          /\ \A i \in 1..(b - a + 1) : s[i] = T[a + 1 + i - 1]
      <4>1. /\ a + 1 \in Nat \ {0} /\ b + 1 \in Nat /\ a + 1 <= b + 1 + 1 /\ b + 1 <= Len(T)
            /\ (b + 1) - (a + 1) + 1 = b - a + 1
        BY <1>1, <2>3
      <4>2. /\ s \in Seq(S) /\ Len(s) = (b + 1) - (a + 1) + 1
            /\ \A i \in 1..((b + 1) - (a + 1) + 1) : s[i] = T[a + 1 + i - 1]
        BY <4>1, SubIs
      <4> HIDE DEF s
      <4> QED
        BY <4>1, <4>2
    <3>2. /\ t \in Seq(S) /\ Len(t) = b - a + 1
          /\ \A i \in 1..(b - a + 1) : t[i] = p[a + i - 1]
      <4>1. a \in Nat \ {0} /\ b \in Nat /\ a <= b + 1 /\ b <= Len(p)
        BY <1>1, <2>3
      <4> QED
        BY <4>1, SubIs
    <3> HIDE DEF s, t
    <3>3. ASSUME NEW i \in 1..(b - a + 1) PROVE s[i] = t[i]
      <4>1. a + i - 1 \in 1..n /\ (a + i - 1) + 1 = a + 1 + i - 1
        BY <2>3
      <4>2. T[a + i - 1 + 1] = p[a + i - 1]
        BY <1>1, <4>1
      <4> QED
        BY <3>1, <3>2, <4>1, <4>2
    <3>4. s = t
      BY <3>1, <3>2, <3>3, SameSeq
    <3> QED
      BY <3>4 DEF s, t
  <2> QED
    BY <1>5, <1>6, <1>8, <2>1, <2>2, <2>4, <2>5, <2>6, <2>7
<1> QED
  BY <1>7, <1>8

\* The body of a SHARING-CONTEXT is its trimmed payload.
LEMMA SharedBody ==
  ASSUME WireInit, sent.sharing
  PROVE  body = TrimSpace(sent.payload)
<1>1. sent \in Messages /\ sent.payload \in Seq(Symbols)
  BY MessagesAre DEF WireInit
<1>2. body = TrimSpace(IF sent.payload = <<>> THEN <<>> ELSE <<Blank>> \o sent.payload)
  BY DEF WireInit, String
<1>3. CASE sent.payload = <<>>
  BY <1>2, <1>3
<1>4. CASE sent.payload # <<>>
  <2> DEFINE p == sent.payload
             T == <<Blank>> \o p
  <2>1. Blank \in Symbols /\ p \in Seq(Symbols)
    BY <1>1, SymbolsDiffer
  <2>2. body = TrimSpace(T)
    BY <1>2, <1>4
  <2> HIDE DEF p
  <2>3. /\ T \in Seq(Symbols) /\ Len(T) = Len(p) + 1 /\ T[1] = Blank
        /\ \A i \in 1..Len(p) : T[i + 1] = p[i]
    BY <2>1, CatTwo
  <2> HIDE DEF T
  <2>4. TrimSpace(T) = TrimSpace(p)
    BY <2>1, <2>3, TrimAfterBlank
  <2> QED
    BY <2>2, <2>4 DEF p
<1> QED
  BY <1>3, <1>4

(***************************************************************************)
(* One turn of tokenize's loop.                                            *)
(***************************************************************************)

\* Where a scan stops.
LEMMA ScanIs ==
  ASSUME body \in Seq(Symbols), NEW i \in Nat \ {0}, i <= Len(body) + 1, NEW stops
  PROVE  /\ Scan(i, stops) \in Nat /\ i <= Scan(i, stops) /\ Scan(i, stops) <= Len(body) + 1
         /\ Scan(i, stops) <= Len(body) => body[Scan(i, stops)] \in stops
         /\ \A j \in Nat : i <= j /\ j < Scan(i, stops) => body[j] \notin stops
<1> DEFINE D == {j \in i..Len(body) : body[j] \in stops} \cup {Len(body) + 1}
<1>1. PICK n \in Nat : n = Len(body)
  OBVIOUS
<1>2. D \in SUBSET Nat /\ D # {}
  BY <1>1
<1>3. Scan(i, stops) = Min(D)
  BY DEF Scan
<1>4. \A y : y \in D <=> y = n + 1 \/ (y \in i..n /\ body[y] \in stops)
  BY <1>1
<1> HIDE DEF D
<1>5. PICK s \in D : s = Min(D) /\ \A y \in D : s <= y
  BY <1>2, MinOfSome
<1>6. s \in Nat /\ i <= s /\ s <= n + 1
  BY <1>1, <1>2, <1>4, <1>5
<1>7. s <= n => body[s] \in stops
  BY <1>4, <1>5, <1>6
<1>8. ASSUME NEW j \in Nat, i <= j, j < s PROVE body[j] \notin stops
  <2>1. j \notin D /\ j \in i..n
    BY <1>2, <1>5, <1>6, <1>8
  <2> QED
    BY <1>4, <2>1
<1> QED
  BY <1>1, <1>3, <1>5, <1>6, <1>7, <1>8

\* A scan stops at a stop with none before it.
LEMMA ScanStops ==
  ASSUME body \in Seq(Symbols), NEW i \in Nat \ {0}, NEW e \in Nat, i <= e, e <= Len(body) + 1,
         NEW stops,
         \A j \in Nat : i <= j /\ j < e => body[j] \notin stops,
         e = Len(body) + 1 \/ body[e] \in stops
  PROVE  Scan(i, stops) = e
<1>1. PICK n \in Nat : n = Len(body)
  OBVIOUS
<1>2. i <= n + 1
  BY <1>1
<1>3. PICK s \in Nat : /\ s = Scan(i, stops) /\ i <= s /\ s <= n + 1
                       /\ s <= n => body[s] \in stops
                       /\ \A j \in Nat : i <= j /\ j < s => body[j] \notin stops
  BY <1>1, <1>2, ScanIs
<1>4. ~(s < e)
  BY <1>1, <1>3
<1>5. ~(e < s)
  BY <1>1, <1>3
<1> QED
  BY <1>3, <1>4, <1>5

\* A value that survives has no quote, or no blank and no quote at its beginning,
LEMMA WhatSurvives ==
  ASSUME NEW v \in Seq(Symbols), Survives(v)
  PROVE  /\ Blank \in ToSet(v) => \A j \in 1..Len(v) : v[j] # Quote
         /\ Blank \notin ToSet(v) /\ Len(v) > 0 => v[1] # Quote
<1>1. CASE Blank \in ToSet(v)
  <2>1. Quote \notin ToSet(v)
    BY <1>1 DEF Survives
  <2> QED
    BY <1>1, <2>1 DEF ToSet
<1>2. CASE Blank \notin ToSet(v)
  <2>1. v = <<>> \/ Head(v) # Quote
    BY <1>2 DEF Survives
  <2>2. Len(v) > 0 => v # <<>> /\ Head(v) = v[1]
    OBVIOUS
  <2> QED
    BY <1>2, <2>1, <2>2
<1> QED
  BY <1>1, <1>2

\* and a value without quotes survives.
LEMMA SurvivesUnquoted ==
  ASSUME NEW v \in Seq(Symbols), \A j \in 1..Len(v) : v[j] # Quote
  PROVE  Survives(v)
<1>1. Quote \notin ToSet(v)
  BY DEF ToSet
<1>2. v = <<>> \/ Head(v) # Quote
  <2>1. v # <<>> => Head(v) = v[1] /\ 1 \in 1..Len(v)
    OBVIOUS
  <2> QED
    BY <2>1
<1> QED
  BY <1>1, <1>2 DEF Survives

\* So does one without blanks that does not begin with a quote.
LEMMA SurvivesUnblanked ==
  ASSUME NEW v \in Seq(Symbols), \A j \in 1..Len(v) : v[j] # Blank, Len(v) > 0 => v[1] # Quote
  PROVE  Survives(v)
<1>1. Blank \notin ToSet(v)
  BY DEF ToSet
<1>2. v = <<>> \/ Head(v) # Quote
  <2>1. v # <<>> => Head(v) = v[1] /\ Len(v) > 0
    OBVIOUS
  <2> QED
    BY <2>1
<1> QED
  BY <1>1, <1>2 DEF Survives

\* A piece of the body.
LEMMA SubEq ==
  ASSUME body \in Seq(Symbols), NEW v \in Seq(Symbols), NEW a \in Nat \ {0}, NEW b \in Nat,
         b + 1 = a + Len(v), b <= Len(body), \A i \in 1..Len(v) : body[a + i - 1] = v[i]
  PROVE  SubSeq(body, a, b) = v
<1>1. PICK n \in Nat : n = Len(v)
  OBVIOUS
<1>2. a <= b + 1 /\ b - a + 1 = n
  BY <1>1
<1> DEFINE s == SubSeq(body, a, b)
<1>3. /\ s \in Seq(Symbols) /\ Len(s) = b - a + 1
      /\ \A i \in 1..(b - a + 1) : s[i] = body[a + i - 1]
  BY <1>2, SubIs
<1> HIDE DEF s
<1>4. Len(s) = Len(v) /\ \A i \in 1..Len(s) : s[i] = v[i]
  BY <1>1, <1>2, <1>3
<1>5. s = v
  BY <1>3, <1>4, SameSeq
<1> QED
  BY <1>5 DEF s

\* The value v of the key with the letter c is written at p, up to e.
PairAt(p, c, v, e) ==
  /\ p \in Nat \ {0} /\ e \in Nat /\ e = p + 2 + Len(Value(v)) /\ e <= Len(body) + 1
  /\ body[p] = c /\ body[p + 1] = "="
  /\ \A j \in 1..Len(Value(v)) : body[p + 1 + j] = Value(v)[j]
  /\ e = Len(body) + 1 \/ body[e] = Blank

\* tokenize takes it for a key and a value.
LEMMA PairTaken ==
  ASSUME body \in Seq(Symbols), NEW c \in {"a", "b"}, NEW v \in Seq(Symbols), NEW p, NEW e,
         PairAt(p, c, v, e), pos = p, outcome = "running", ~sent.sharing, WireNext
  PROVE  /\ UNCHANGED <<sent, body, tags>>
         /\ IF At(p + 2) = Quote
            THEN LET close == Scan(p + 3, {Quote})
                 IN  IF close > Len(body)
                     THEN outcome' = "unclosed quote" /\ UNCHANGED <<pos, fields>>
                     ELSE /\ fields' = Set(<<c>>, SubSeq(body, p + 3, close - 1))
                          /\ pos' = close + 1
                          /\ UNCHANGED outcome
            ELSE LET end == Scan(p + 2, {Blank})
                 IN  /\ fields' = Set(<<c>>, SubSeq(body, p + 2, end - 1))
                     /\ pos' = end
                     /\ UNCHANGED outcome
<1>1. PICK n \in Nat : n = Len(body)
  OBVIOUS
<1>2. /\ p \in Nat \ {0} /\ p + 1 \in Nat /\ p + 1 <= n /\ p <= n
      /\ body[p] = c /\ body[p + 1] = "="
  <2>1. Len(Value(v)) \in Nat
    BY ValueIs
  <2> QED
    BY <1>1, <2>1 DEF PairAt
<1>3. c # Blank /\ c # "#" /\ c # "=" /\ Blank # "="
  BY SymbolsDiffer
<1>4. Scan(p, {"=", Blank}) = p + 1
  <2>1. \A j \in Nat : p <= j /\ j < p + 1 => body[j] \notin {"=", Blank}
    <3> SUFFICES ASSUME NEW j \in Nat, p <= j, j < p + 1 PROVE body[j] \notin {"=", Blank}
      OBVIOUS
    <3>1. j = p
      BY <1>2
    <3> QED
      BY <1>2, <1>3, <3>1
  <2>2. body[p + 1] \in {"=", Blank}
    BY <1>2
  <2> QED
    BY <1>1, <1>2, <2>1, <2>2, ScanStops
<1>5. At(p) = c /\ At(p + 1) = "="
  BY <1>1, <1>2 DEF At
<1>6. SubSeq(body, p, p) = <<c>>
  <2>1. <<c>> \in Seq(Symbols) /\ Len(<<c>>) = 1 /\ <<c>>[1] = c
    <3>1. c \in Symbols
      BY SymbolsDiffer
    <3> QED
      BY <3>1
  <2> DEFINE w == <<c>>
  <2> HIDE DEF w
  <2>2. w \in Seq(Symbols) /\ Len(w) = 1 /\ w[1] = c
    BY <2>1 DEF w
  <2>3. \A i \in 1..Len(w) : body[p + i - 1] = w[i]
    <3> SUFFICES ASSUME NEW i \in 1..Len(w) PROVE body[p + i - 1] = w[i]
      OBVIOUS
    <3>1. i = 1 /\ p + i - 1 = p
      BY <1>2, <2>2
    <3> QED
      BY <1>2, <2>2, <3>1
  <2>4. p + 1 = p + Len(w) /\ p <= Len(body)
    BY <1>1, <1>2, <2>2
  <2>5. SubSeq(body, p, p) = w
    BY <1>2, <2>2, <2>3, <2>4, SubEq
  <2> QED
    BY <2>5 DEF w
<1>7. ~RawPayload /\ ~SkipBlank /\ ~Tag /\ ~BareWord /\ ~EndOfBody
  <2>1. ~RawPayload
    BY DEF RawPayload
  <2>2. ~SkipBlank
    BY <1>3, <1>5 DEF SkipBlank, Tokenizing
  <2>3. ~Tag
    BY <1>3, <1>5 DEF Tag, Tokenizing
  <2>4. ~BareWord
    BY <1>4, <1>5 DEF BareWord
  <2>5. ~EndOfBody
    BY <1>1, <1>2 DEF EndOfBody
  <2> QED
    BY <2>1, <2>2, <2>3, <2>4, <2>5
<1>8. KeyValue
  BY <1>7 DEF WireNext
<1> DEFINE Turn(x, y, k) ==
             IF At(x) = Quote
             THEN LET close == Scan(y, {Quote})
                  IN  IF close > Len(body)
                      THEN outcome' = "unclosed quote" /\ UNCHANGED <<pos, fields>>
                      ELSE /\ fields' = Set(k, SubSeq(body, y, close - 1))
                           /\ pos' = close + 1
                           /\ UNCHANGED outcome
             ELSE LET end == Scan(x, {Blank})
                  IN  /\ fields' = Set(k, SubSeq(body, x, end - 1))
                      /\ pos' = end
                      /\ UNCHANGED outcome
           E == Scan(p, {"=", Blank})
<1>9. Turn(E + 1, E + 2, SubSeq(body, p, E - 1))
  BY <1>8 DEF KeyValue
<1>10. UNCHANGED <<sent, body, tags>>
  BY <1>8 DEF KeyValue, Tokenizing
<1>11. Turn(p + 2, p + 3, <<c>>)
  <2>1. PICK x, y, z : x = E + 1 /\ y = E + 2 /\ z = E - 1
    OBVIOUS
  <2>2. x = p + 2 /\ y = p + 3 /\ z = p
    BY ONLY <1>2, <1>4, <2>1
  <2>3. PICK k : k = SubSeq(body, p, z)
    OBVIOUS
  <2>4. Turn(x, y, k)
    BY ONLY <1>9, <2>1, <2>3, Zenon
  <2>5. k = <<c>>
    BY ONLY <1>6, <2>2, <2>3, Zenon
  <2> QED
    BY ONLY <2>2, <2>4, <2>5, Zenon
<1> QED
  BY <1>10, <1>11

\* A value that survives is read as it was written, and the scan stops behind it.
LEMMA PairKept ==
  ASSUME body \in Seq(Symbols), NEW c \in {"a", "b"}, NEW v \in Seq(Symbols), NEW p, NEW e,
         PairAt(p, c, v, e), pos = p, outcome = "running", ~sent.sharing, WireNext, Survives(v)
  PROVE  UNCHANGED <<sent, body, tags, outcome>> /\ fields' = Set(<<c>>, v) /\ pos' = e
<1>1. PICK n \in Nat : n = Len(body)
  OBVIOUS
<1>2. PICK l \in Nat : l = Len(Value(v))
  BY ValueIs
<1>3. PICK m \in Nat : m = Len(v)
  OBVIOUS
<1>4. /\ p \in Nat \ {0} /\ e \in Nat /\ e = p + 2 + l /\ e <= n + 1
      /\ e = n + 1 \/ body[e] = Blank
  BY <1>1, <1>2 DEF PairAt
<1>5. ASSUME NEW j \in 1..l PROVE body[p + 1 + j] = Value(v)[j]
  BY <1>2 DEF PairAt
<1>7. Blank # Quote /\ "end" # Quote
  BY SymbolsDiffer
<1>8. CASE Blank \in ToSet(v)
  <2>1. l = m + 2 /\ Value(v)[1] = Quote /\ Value(v)[m + 2] = Quote
    BY <1>2, <1>3, <1>8, ValueIs
  <2>2. At(p + 2) = Quote
    <3>1. p + 2 <= n /\ p + 1 + 1 = p + 2 /\ 1 \in 1..l
      BY <1>4, <2>1
    <3>2. body[p + 2] = Quote
      BY <1>5, <2>1, <3>1
    <3> QED
      BY <1>1, <3>1, <3>2 DEF At
  <2>3. ASSUME NEW j \in 1..m PROVE body[p + 2 + j] = v[j] /\ v[j] # Quote
    <3>1. j + 1 \in 1..l /\ p + 1 + (j + 1) = p + 2 + j
      BY <1>4, <2>1
    <3>2. body[p + 2 + j] = Value(v)[j + 1]
      BY <1>5, <3>1
    <3>3. Value(v)[j + 1] = v[j] /\ v[j] # Quote
      BY <1>3, <1>8, ValueIs, WhatSurvives
    <3> QED
      BY <3>2, <3>3
  <2>4. PICK a \in Nat \ {0}, b \in Nat :
          a = p + 3 /\ b = p + m + 3 /\ b <= n /\ e = b + 1 /\ b - 1 \in Nat
    BY <1>4, <2>1
  <2>5. body[b] = Quote
    <3>1. m + 2 \in 1..l /\ p + 1 + (m + 2) = b
      BY <1>4, <2>1, <2>4
    <3> QED
      BY <1>5, <2>1, <3>1
  <2>6. Scan(a, {Quote}) = b
    <3>1. ASSUME NEW j \in Nat, a <= j, j < b PROVE body[j] \notin {Quote}
      <4>1. j - (p + 2) \in 1..m /\ p + 2 + (j - (p + 2)) = j
        BY <1>4, <2>4, <3>1
      <4> QED
        BY <2>3, <4>1
    <3>2. a <= b /\ b <= Len(body) + 1
      BY <1>1, <1>4, <2>4
    <3> QED
      BY <2>5, <3>1, <3>2, ScanStops
  <2>7. SubSeq(body, a, b - 1) = v
    <3>1. b - 1 + 1 = a + Len(v) /\ b - 1 <= Len(body)
      BY <1>1, <1>3, <1>4, <2>4
    <3>2. ASSUME NEW i \in 1..Len(v) PROVE body[a + i - 1] = v[i]
      <4>1. a + i - 1 = p + 2 + i /\ i \in 1..m
        BY <1>3, <1>4, <2>4
      <4> QED
        BY <2>3, <4>1
    <3> QED
      BY <2>4, <3>1, <3>2, SubEq
  <2>8. ~(Scan(a, {Quote}) > Len(body))
    BY <1>1, <2>4, <2>6
  <2>9. /\ UNCHANGED <<sent, body, tags>> /\ UNCHANGED outcome
        /\ fields' = Set(<<c>>, SubSeq(body, a, b - 1)) /\ pos' = b + 1
    BY <2>2, <2>4, <2>6, <2>8, PairTaken
  <2> QED
    BY <2>4, <2>7, <2>9
<1>9. CASE Blank \notin ToSet(v)
  <2>1. Value(v) = v /\ l = m
    BY <1>2, <1>3, <1>9, ValueIs
  <2>2. ASSUME NEW j \in 1..m PROVE body[p + 1 + j] = v[j] /\ v[j] # Blank
    BY <1>3, <1>5, <1>9, <2>1, ValueIs
  <2>3. PICK a \in Nat \ {0} : a = p + 2 /\ e = a + m /\ e - 1 \in Nat
    BY <1>4, <2>1
  <2>4. At(a) # Quote
    <3>1. CASE m = 0
      <4>1. a = e
        BY <2>3, <3>1
      <4> QED
        BY <1>1, <1>4, <1>7, <4>1 DEF At
    <3>2. CASE m # 0
      <4>1. 1 \in 1..m /\ p + 1 + 1 = a /\ a <= n
        BY <1>4, <2>3, <3>2
      <4>2. body[a] = v[1] /\ v[1] # Quote
        BY <1>3, <1>9, <2>2, <4>1, WhatSurvives
      <4> QED
        BY <1>1, <4>1, <4>2 DEF At
    <3> QED
      BY <3>1, <3>2
  <2>5. Scan(a, {Blank}) = e
    <3>1. ASSUME NEW j \in Nat, a <= j, j < e PROVE body[j] \notin {Blank}
      <4>1. j - (p + 1) \in 1..m /\ p + 1 + (j - (p + 1)) = j
        BY <1>4, <2>3, <3>1
      <4> QED
        BY <2>2, <4>1
    <3>2. a <= e /\ e <= Len(body) + 1 /\ (e = Len(body) + 1 \/ body[e] \in {Blank})
      BY <1>1, <1>4, <2>3
    <3> QED
      BY <1>4, <3>1, <3>2, ScanStops
  <2>6. SubSeq(body, a, e - 1) = v
    <3>1. e - 1 + 1 = a + Len(v) /\ e - 1 <= Len(body)
      BY <1>1, <1>3, <1>4, <2>3
    <3>2. ASSUME NEW i \in 1..Len(v) PROVE body[a + i - 1] = v[i]
      <4>1. a + i - 1 = p + 1 + i /\ i \in 1..m
        BY <1>3, <1>4, <2>3
      <4> QED
        BY <2>2, <4>1
    <3> QED
      BY <2>3, <3>1, <3>2, SubEq
  <2>7. /\ UNCHANGED <<sent, body, tags>> /\ UNCHANGED outcome
        /\ fields' = Set(<<c>>, SubSeq(body, a, e - 1)) /\ pos' = e
    BY <2>3, <2>4, <2>5, PairTaken
  <2> QED
    BY <2>6, <2>7
<1> QED
  BY <1>8, <1>9

\* The tag g is written at p, up to e.
TagAt(p, g, e) ==
  /\ g \in Seq(Symbols) /\ Len(g) > 0 /\ \A i \in 1..Len(g) : g[i] # Blank
  /\ p \in Nat \ {0} /\ e \in Nat /\ e = p + 1 + Len(g) /\ e <= Len(body) + 1
  /\ body[p] = "#" /\ \A i \in 1..Len(g) : body[p + i] = g[i]
  /\ e = Len(body) + 1 \/ body[e] = Blank

\* It is read as it was written.
LEMMA TagRead ==
  ASSUME body \in Seq(Symbols), NEW g, NEW p, NEW e, TagAt(p, g, e),
         pos = p, outcome = "running", ~sent.sharing, WireNext
  PROVE  UNCHANGED <<sent, body, fields, outcome>> /\ tags' = Append(tags, g) /\ pos' = e
<1>0. /\ g \in Seq(Symbols) /\ Len(g) > 0 /\ p \in Nat \ {0} /\ e \in Nat
      /\ e = p + 1 + Len(g) /\ e <= Len(body) + 1 /\ body[p] = "#"
      /\ e = Len(body) + 1 \/ body[e] = Blank
  BY DEF TagAt
<1>12. ASSUME NEW i \in 1..Len(g) PROVE body[p + i] = g[i] /\ g[i] # Blank
  BY DEF TagAt
<1>1. PICK n \in Nat : n = Len(body)
  OBVIOUS
<1>2. PICK m \in Nat : m = Len(g) /\ m > 0
  BY <1>0
<1>3. p <= n /\ e = p + 1 + m /\ e - 1 \in Nat /\ p + 1 \in Nat \ {0}
  BY <1>0, <1>1, <1>2
<1>4. At(p) = "#" /\ "#" # Blank
  BY <1>0, <1>1, <1>3, SymbolsDiffer DEF At
<1>5. Tag
  <2>1. ~RawPayload
    BY DEF RawPayload
  <2>2. ~SkipBlank
    BY <1>4 DEF SkipBlank, Tokenizing
  <2>3. ~BareWord
    BY <1>4, SymbolsDiffer DEF BareWord, Tokenizing
  <2>4. ~KeyValue
    BY <1>4, SymbolsDiffer DEF KeyValue, Tokenizing
  <2>5. ~EndOfBody
    BY <1>0, <1>1, <1>3 DEF EndOfBody
  <2> QED
    BY <2>1, <2>2, <2>3, <2>4, <2>5 DEF WireNext
<1>6. Scan(p + 1, {Blank}) = e
  <2>1. ASSUME NEW j \in Nat, p + 1 <= j, j < e PROVE body[j] \notin {Blank}
    <3>1. j - p \in 1..m /\ p + (j - p) = j
      BY <1>0, <1>3, <2>1
    <3> QED
      BY <1>12, <1>2, <3>1
  <2>2. p + 1 <= e
    BY <1>0, <1>3
  <2> QED
    BY <1>0, <1>3, <2>1, <2>2, ScanStops
<1>7. SubSeq(body, p + 1, e - 1) = g
  <2>2. e - 1 + 1 = (p + 1) + Len(g) /\ e - 1 <= Len(body)
    BY <1>0, <1>1, <1>2, <1>3
  <2>3. ASSUME NEW i \in 1..Len(g) PROVE body[(p + 1) + i - 1] = g[i]
    <3>1. (p + 1) + i - 1 = p + i
      BY <1>0, <1>2
    <3> QED
      BY <1>12, <3>1
  <2> QED
    BY <1>0, <1>3, <2>2, <2>3, SubEq
<1>8. e > p + 1
  BY <1>0, <1>2, <1>3
<1>9. UNCHANGED <<sent, body, fields, outcome>>
  BY <1>5 DEF Tag, Tokenizing
<1>10. /\ tags' = IF Scan(p + 1, {Blank}) > p + 1
                  THEN Append(tags, SubSeq(body, p + 1, Scan(p + 1, {Blank}) - 1)) ELSE tags
       /\ pos' = Scan(p + 1, {Blank})
  BY <1>5 DEF Tag
<1>11. tags' = Append(tags, SubSeq(body, p + 1, e - 1)) /\ pos' = e
  BY ONLY <1>6, <1>8, <1>10
<1> QED
  BY <1>7, <1>9, <1>11

\* A blank is skipped.
LEMMA SkipRead ==
  ASSUME body \in Seq(Symbols), pos \in 1..Len(body), body[pos] = Blank,
         outcome = "running", ~sent.sharing, WireNext
  PROVE  UNCHANGED <<sent, body, fields, tags, outcome>> /\ pos' = pos + 1
<1>1. At(pos) = Blank
  BY DEF At
<1>2. SkipBlank
  <2>1. ~RawPayload
    BY DEF RawPayload
  <2>2. ~Tag
    BY <1>1, SymbolsDiffer DEF Tag, Tokenizing
  <2>3. ~BareWord
    BY <1>1, SymbolsDiffer DEF BareWord, Tokenizing
  <2>4. ~KeyValue
    BY <1>1, SymbolsDiffer DEF KeyValue, Tokenizing
  <2>5. ~EndOfBody
    BY DEF EndOfBody
  <2> QED
    BY <2>1, <2>2, <2>3, <2>4, <2>5 DEF WireNext
<1> QED
  BY <1>2 DEF SkipBlank, Tokenizing

\* Behind the body the loop ends.
LEMMA EndRead ==
  ASSUME body \in Seq(Symbols), pos \in Nat, pos > Len(body), outcome = "running",
         ~sent.sharing, WireNext
  PROVE  UNCHANGED <<sent, body, pos, fields, tags>> /\ outcome' = "parsed"
<1>1. At(pos) = "end"
  BY DEF At
<1>2. EndOfBody
  <2>1. ~RawPayload
    BY DEF RawPayload
  <2>2. ~Tag
    BY <1>1, SymbolsDiffer DEF Tag, Tokenizing
  <2>3. ~BareWord
    BY <1>1, SymbolsDiffer DEF BareWord, Tokenizing
  <2>4. ~KeyValue
    BY <1>1, SymbolsDiffer DEF KeyValue, Tokenizing
  <2>5. ~SkipBlank
    BY <1>1, SymbolsDiffer DEF SkipBlank, Tokenizing
  <2> QED
    BY <2>1, <2>2, <2>3, <2>4, <2>5 DEF WireNext
<1> QED
  BY <1>2 DEF EndOfBody

\* What a scan skipped.
LEMMA Skipped ==
  ASSUME body \in Seq(Symbols), NEW a \in Nat \ {0}, NEW z \in Nat, a <= z, z <= Len(body) + 1, NEW x,
         \A j \in Nat : a <= j /\ j < z => body[j] \notin {x}
  PROVE  /\ SubSeq(body, a, z - 1) \in Seq(Symbols)
         /\ \A i \in 1..Len(SubSeq(body, a, z - 1)) : SubSeq(body, a, z - 1)[i] # x
         /\ Len(SubSeq(body, a, z - 1)) > 0 => a <= Len(body) /\ SubSeq(body, a, z - 1)[1] = body[a]
<1> DEFINE u == SubSeq(body, a, z - 1)
<1>1. PICK n \in Nat : n = Len(body)
  OBVIOUS
<1>2. z - 1 \in Nat /\ a <= z - 1 + 1 /\ z - 1 <= Len(body)
  BY <1>1
<1>3. /\ u \in Seq(Symbols) /\ Len(u) = z - 1 - a + 1
      /\ \A i \in 1..(z - 1 - a + 1) : u[i] = body[a + i - 1]
  BY <1>2, SubIs
<1> HIDE DEF u
<1>4. PICK m \in Nat : m = Len(u) /\ m = z - a
  BY <1>3
<1>5. ASSUME NEW i \in 1..m PROVE u[i] = body[a + i - 1]
  <2>1. i \in 1..(z - 1 - a + 1)
    BY <1>4
  <2> QED
    BY <1>3, <2>1
<1>6. ASSUME NEW i \in 1..Len(u) PROVE u[i] # x
  <2>1. i \in 1..m /\ a + i - 1 \in Nat /\ a <= a + i - 1 /\ a + i - 1 < z
    BY <1>4
  <2> QED
    BY <1>5, <2>1
<1>7. ASSUME Len(u) > 0 PROVE a <= Len(body) /\ u[1] = body[a]
  <2>1. 1 \in 1..m /\ a + 1 - 1 = a /\ a <= n
    BY <1>1, <1>4, <1>7
  <2>2. u[1] = body[a + 1 - 1]
    BY <1>5, <2>1
  <2> QED
    BY <1>1, <2>1, <2>2
<1>8. u \in Seq(Symbols) /\ (\A i \in 1..Len(u) : u[i] # x) /\ (Len(u) > 0 => a <= Len(body) /\ u[1] = body[a])
  BY <1>3, <1>6, <1>7
<1> QED
  BY <1>8 DEF u

\* Every turn goes forward and, whatever it reads, reads a value that survives.
LEMMA AnyTurn ==
  ASSUME body \in Seq(Symbols), pos \in 1..(Len(body) + 1), ~sent.sharing, WireNext,
         \A k \in DOMAIN fields : Survives(fields[k])
  PROVE  /\ UNCHANGED <<sent, body>> /\ outcome = "running"
         /\ pos' \in Nat /\ pos <= pos' /\ pos' <= Len(body) + 1
         /\ \A k \in DOMAIN fields' : Survives(fields'[k])
<1>1. PICK n \in Nat : n = Len(body)
  OBVIOUS
<1>2. PICK p \in Nat \ {0} : p = pos /\ p <= n + 1
  BY <1>1
<1>3. CASE RawPayload
  BY <1>3 DEF RawPayload
<1>4. CASE SkipBlank
  <2>1. p <= n
    BY <1>1, <1>2, <1>4, SymbolsDiffer DEF SkipBlank, Tokenizing, At
  <2> QED
    BY <1>1, <1>2, <1>4, <2>1 DEF SkipBlank, Tokenizing
<1>5. CASE Tag
  <2>1. p <= n
    BY <1>1, <1>2, <1>5, SymbolsDiffer DEF Tag, Tokenizing, At
  <2>2. p + 1 \in Nat \ {0} /\ p + 1 <= Len(body) + 1
    BY <1>1, <1>2, <2>1
  <2>3. PICK e \in Nat : e = Scan(p + 1, {Blank}) /\ p + 1 <= e /\ e <= n + 1
    BY <1>1, <2>2, ScanIs
  <2>4. pos' = e /\ UNCHANGED <<sent, body, fields>> /\ outcome = "running"
    BY <1>2, <1>5, <2>3 DEF Tag, Tokenizing
  <2> QED
    BY <1>1, <1>2, <2>3, <2>4
<1>6. CASE BareWord
  <2>1. PICK e \in Nat : e = Scan(p, {"=", Blank}) /\ p <= e /\ e <= n + 1
    BY <1>1, <1>2, ScanIs
  <2>2. pos' = e /\ UNCHANGED <<sent, body, fields>> /\ outcome = "running"
    BY <1>2, <1>6, <2>1 DEF BareWord, Tokenizing
  <2> QED
    BY <1>1, <1>2, <2>1, <2>2
<1>7. CASE KeyValue
  <2>1. PICK q \in Nat : q = Scan(p, {"=", Blank}) /\ p <= q /\ q <= n + 1
    BY <1>1, <1>2, ScanIs
  <2>2. PICK k : k = SubSeq(body, p, q - 1)
    OBVIOUS
  <2>3. UNCHANGED <<sent, body>> /\ outcome = "running"
    BY <1>7 DEF KeyValue, Tokenizing
  <2>4. /\ At(q) = "="
        /\ IF At(q + 1) = Quote
           THEN IF Scan(q + 2, {Quote}) > Len(body)
                THEN UNCHANGED <<pos, fields>>
                ELSE /\ fields' = Set(k, SubSeq(body, q + 2, Scan(q + 2, {Quote}) - 1))
                     /\ pos' = Scan(q + 2, {Quote}) + 1
           ELSE /\ fields' = Set(k, SubSeq(body, q + 1, Scan(q + 1, {Blank}) - 1))
                /\ pos' = Scan(q + 1, {Blank})
    BY <1>2, <1>7, <2>1, <2>2 DEF KeyValue
  <2>5. q <= n
    BY <1>1, <2>1, <2>4, SymbolsDiffer DEF At
  <2>6. /\ pos' \in Nat /\ p <= pos' /\ pos' <= n + 1
        /\ fields' = fields \/ \E u : fields' = Set(k, u) /\ Survives(u)
    <3>1. CASE At(q + 1) = Quote
      <4>1. q + 1 <= n
        BY <1>1, <2>1, <3>1, SymbolsDiffer DEF At
      <4>2. q + 2 \in Nat \ {0} /\ q + 2 <= Len(body) + 1
        BY <1>1, <2>1, <4>1
      <4>3. PICK z \in Nat : /\ z = Scan(q + 2, {Quote}) /\ q + 2 <= z /\ z <= n + 1
                             /\ \A j \in Nat : q + 2 <= j /\ j < z => body[j] \notin {Quote}
        BY <1>1, <4>2, ScanIs
      <4>4. CASE z > n
        <5>1. pos' = pos /\ fields' = fields
          BY <1>1, <2>4, <3>1, <4>3, <4>4
        <5> QED
          BY <1>2, <5>1
      <4>5. CASE z <= n
        <5>1. ~(Scan(q + 2, {Quote}) > Len(body))
          BY <1>1, <4>3, <4>5
        <5>2. pos' = z + 1 /\ fields' = Set(k, SubSeq(body, q + 2, z - 1))
          BY <2>4, <3>1, <4>3, <5>1
        <5>3. Survives(SubSeq(body, q + 2, z - 1))
          <6> DEFINE u == SubSeq(body, q + 2, z - 1)
          <6>1. u \in Seq(Symbols) /\ \A i \in 1..Len(u) : u[i] # Quote
            <7>1. PICK a \in Nat \ {0} : a = q + 2
              BY <4>2
            <7>2. a <= z /\ z <= Len(body) + 1 /\ \A j \in Nat : a <= j /\ j < z => body[j] \notin {Quote}
              BY <1>1, <4>3, <7>1
            <7>3. /\ SubSeq(body, a, z - 1) \in Seq(Symbols)
                  /\ \A i \in 1..Len(SubSeq(body, a, z - 1)) : SubSeq(body, a, z - 1)[i] # Quote
              BY ONLY body \in Seq(Symbols), z \in Nat, a \in Nat \ {0}, <7>2, Skipped
            <7> QED
              BY <7>1, <7>3
          <6> HIDE DEF u
          <6>2. Survives(u)
            BY <6>1, SurvivesUnquoted
          <6> QED
            BY <6>2 DEF u
        <5>4. z + 1 \in Nat /\ p <= z + 1 /\ z + 1 <= n + 1
          BY <2>1, <4>3, <4>5
        <5> QED
          BY <5>2, <5>3, <5>4
      <4>6. z > n \/ z <= n
        BY <4>3
      <4> QED
        BY <4>4, <4>5, <4>6
    <3>2. CASE At(q + 1) # Quote
      <4>1. q + 1 \in Nat \ {0} /\ q + 1 <= Len(body) + 1
        BY <1>1, <2>1, <2>5
      <4>2. PICK z \in Nat : /\ z = Scan(q + 1, {Blank}) /\ q + 1 <= z /\ z <= n + 1
                             /\ \A j \in Nat : q + 1 <= j /\ j < z => body[j] \notin {Blank}
        BY <1>1, <4>1, ScanIs
      <4>3. pos' = z /\ fields' = Set(k, SubSeq(body, q + 1, z - 1))
        BY <2>4, <3>2, <4>2
      <4>4. Survives(SubSeq(body, q + 1, z - 1))
        <5> DEFINE u == SubSeq(body, q + 1, z - 1)
        <5>1. /\ u \in Seq(Symbols) /\ \A i \in 1..Len(u) : u[i] # Blank
              /\ Len(u) > 0 => q + 1 <= Len(body) /\ u[1] = body[q + 1]
          <6>1. PICK a \in Nat \ {0} : a = q + 1
            BY <4>1
          <6>2. a <= z /\ z <= Len(body) + 1 /\ \A j \in Nat : a <= j /\ j < z => body[j] \notin {Blank}
            BY <1>1, <4>2, <6>1
          <6>3. /\ SubSeq(body, a, z - 1) \in Seq(Symbols)
                /\ \A i \in 1..Len(SubSeq(body, a, z - 1)) : SubSeq(body, a, z - 1)[i] # Blank
                /\ Len(SubSeq(body, a, z - 1)) > 0 => a <= Len(body) /\ SubSeq(body, a, z - 1)[1] = body[a]
            BY ONLY body \in Seq(Symbols), z \in Nat, a \in Nat \ {0}, <6>2, Skipped
          <6> QED
            BY <6>1, <6>3
        <5> HIDE DEF u
        <5>2. Len(u) > 0 => u[1] # Quote
          BY <3>2, <5>1 DEF At
        <5>3. Survives(u)
          BY <5>1, <5>2, SurvivesUnblanked
        <5> QED
          BY <5>3 DEF u
      <4>5. p <= z
        BY <2>1, <4>2
      <4> QED
        BY <4>2, <4>3, <4>4, <4>5
    <3> QED
      BY <3>1, <3>2
  <2>7. ASSUME NEW j \in DOMAIN fields' PROVE Survives(fields'[j])
    <3>1. CASE fields' = fields
      BY <2>7, <3>1
    <3>2. ASSUME NEW u, fields' = Set(k, u), Survives(u) PROVE Survives(fields'[j])
      <4>1. j \in DOMAIN fields \cup {k} /\ fields'[j] = IF j = k THEN u ELSE fields[j]
        BY <2>7, <3>2 DEF Set
      <4> QED
        BY <3>2, <4>1
    <3> QED
      BY <2>6, <3>1, <3>2
  <2> QED
    BY <1>1, <1>2, <2>3, <2>6, <2>7
<1>8. CASE EndOfBody
  BY <1>1, <1>2, <1>8 DEF EndOfBody
<1> QED
  BY <1>3, <1>4, <1>5, <1>6, <1>7, <1>8 DEF WireNext

\* The parts depend on the message only.
LEMMA PartsStay ==
  ASSUME sent' = sent, NEW n
  PROVE  arrived' = arrived /\ Piece(n)' = Piece(n) /\ Cut(n)' = Cut(n)
<1>1. arrived' = arrived
  BY DEF arrived, Cropped, LastKey, Shorn
<1> QED
  BY <1>1 DEF Cut, Piece, Pair, Hashed, Value

\* Behind a part the body ends or has a blank.
LEMMA BorderStep ==
  ASSUME Written(arrived), Layout, NEW t \in 1..3, Cut(t) >= 1,
         Cut(t + 1) <= Len(body) + 1, Cut(t + 1) = Len(body) + 1 \/ body[Cut(t + 1)] = Blank
  PROVE  Cut(t) <= Len(body) + 1 /\ (Cut(t) = Len(body) + 1 \/ body[Cut(t)] = Blank)
<1>1. PICK n \in Nat : n = Len(body)
  BY DEF Layout
<1>2. PICK x \in Nat, l \in Nat : x = Cut(t) /\ l = Len(Piece(t + 1)) /\ Cut(t + 1) = x + l
  <2>1. t \in 0..4 /\ t + 1 \in 1..4 /\ (t + 1) - 1 = t
    OBVIOUS
  <2>2. Cut(t) \in Nat /\ Cut(t + 1) = Cut(t) + Len(Piece(t + 1)) /\ Len(Piece(t + 1)) \in Nat
    BY <2>1, CutIs, PartIs
  <2> QED
    BY <2>2
<1>3. CASE l = 0
  BY <1>1, <1>2, <1>3
<1>4. CASE l # 0
  <2>1. t + 1 \in 1..4 /\ (t + 1) - 1 = t /\ 1 \in 1..Len(Piece(t + 1)) /\ x + 1 > 1 /\ x + 1 - 1 = x
    BY <1>2, <1>4
  <2>2. body[x + 1 - 1] = Piece(t + 1)[1]
    BY <1>2, <2>1 DEF Layout
  <2>3. Piece(t + 1)[1] = Blank
    <3>1. Word(Piece(t + 1))
      BY <2>1, PartIs
    <3>2. Piece(t + 1) # <<>>
      BY <1>2, <1>4
    <3> QED
      BY ONLY <3>1, <3>2, Zenon DEF Word
  <2> QED
    BY <1>1, <1>2, <2>1, <2>2, <2>3
<1> QED
  BY <1>3, <1>4

\* So it is behind every part that ends somewhere.
LEMMA Border ==
  ASSUME Written(arrived), Layout, NEW t \in 1..4, Cut(t) >= 1
  PROVE  Cut(t) <= Len(body) + 1 /\ (Cut(t) = Len(body) + 1 \/ body[Cut(t)] = Blank)
<1> DEFINE B(u) == Cut(u) >= 1 => /\ Cut(u) <= Len(body) + 1
                                  /\ Cut(u) = Len(body) + 1 \/ body[Cut(u)] = Blank
<1>1. B(4)
  <2>1. Cut(4) \in Nat
    BY CutIs, 4 \in 0..4
  <2>2. Len(body) = IF Cut(4) = 0 THEN 0 ELSE Cut(4) - 1
    BY DEF Layout
  <2>3. Cut(4) >= 1 => Cut(4) = Len(body) + 1
    BY ONLY <2>1, <2>2
  <2>4. Len(body) + 1 <= Len(body) + 1
    BY ONLY <2>1, <2>2
  <2> QED
    BY ONLY <2>3, <2>4
<1>2. /\ Cut(1) \in Nat /\ Cut(2) \in Nat /\ Cut(3) \in Nat /\ Cut(4) \in Nat
      /\ Cut(1) <= Cut(2) /\ Cut(2) <= Cut(3) /\ Cut(3) <= Cut(4)
  <2>1. \A n \in 1..4 : Cut(n) \in Nat /\ Cut(n - 1) \in Nat /\ Cut(n - 1) <= Cut(n)
    <3> SUFFICES ASSUME NEW n \in 1..4
                 PROVE  Cut(n) \in Nat /\ Cut(n - 1) \in Nat /\ Cut(n - 1) <= Cut(n)
      OBVIOUS
    <3>1. n \in 0..4 /\ n - 1 \in 0..4
      OBVIOUS
    <3>2. /\ Cut(n) \in Nat /\ Cut(n - 1) \in Nat
          /\ Cut(n) = Cut(n - 1) + Len(Piece(n)) /\ Len(Piece(n)) \in Nat
      BY <3>1, CutIs, PartIs
    <3> QED
      BY <3>2
  <2> QED
    BY <2>1, 1 \in 1..4, 2 \in 1..4, 3 \in 1..4, 4 \in 1..4, 2 - 1 = 1, 3 - 1 = 2, 4 - 1 = 3
<1>3. B(3)
  <2>1. Cut(3) >= 1 => Cut(4) >= 1
    BY <1>2
  <2> QED
    BY <1>1, <2>1, BorderStep, 3 \in 1..3, 3 + 1 = 4
<1>4. B(2)
  <2>1. Cut(2) >= 1 => Cut(3) >= 1
    BY <1>2
  <2> QED
    BY <1>3, <2>1, BorderStep, 2 \in 1..3, 2 + 1 = 3
<1>5. B(1)
  <2>1. Cut(1) >= 1 => Cut(2) >= 1
    BY <1>2
  <2> QED
    BY <1>4, <2>1, BorderStep, 1 \in 1..3, 1 + 1 = 2
<1>6. t = 1 \/ t = 2 \/ t = 3 \/ t = 4
  OBVIOUS
<1> QED
  BY <1>1, <1>3, <1>4, <1>5, <1>6

\* Where a key of the message is written.
LEMMA PairPlaced ==
  ASSUME Written(arrived), Layout, NEW n \in 1..2, Piece(n) # <<>>
  PROVE  /\ Key(n) \in DOMAIN arrived.fields /\ arrived.fields[Key(n)] \in Seq(Symbols)
         /\ Letter(n) \in {"a", "b"}
         /\ PairAt(Cut(n - 1) + 1, Letter(n), arrived.fields[Key(n)], Cut(n))
<1>1. /\ Letter(n) \in {"a", "b"} /\ Key(n) = <<Letter(n)>> /\ Piece(n) = Pair(arrived, Key(n))
  <2>1. n = 1 \/ n = 2
    OBVIOUS
  <2> QED
    BY <2>1 DEF Piece, Key, Letter, KeyA, KeyB
<1>2. Key(n) \in DOMAIN arrived.fields
  BY <1>1, PairIs
<1>3. arrived.fields[Key(n)] \in Seq(Symbols)
  BY <1>2 DEF Written
<1> DEFINE P == Piece(n)
           V == Value(arrived.fields[Key(n)])
<1>4. V \in Seq(Symbols) /\ Len(V) \in Nat
  BY <1>3, ValueIs
<1>5. /\ Len(P) = Len(V) + 3 /\ P[2] = Letter(n) /\ P[3] = "="
      /\ \A j \in 1..Len(V) : P[j + 3] = V[j]
  BY <1>1, <1>2, PairIs
<1>6. n - 1 \in 0..4 /\ n \in 1..4
  OBVIOUS
<1>7. PICK x \in Nat : x = Cut(n - 1) /\ Cut(n) = x + Len(P)
  BY <1>6, CutIs
<1>8. ASSUME NEW j \in 1..Len(P), x + j > 1 PROVE body[x + j - 1] = P[j]
  BY <1>6, <1>7, <1>8 DEF Layout
<1> HIDE DEF P, V
<1>9. PICK l \in Nat : l = Len(V) /\ Len(P) = l + 3 /\ Cut(n) = x + l + 3
  BY <1>4, <1>5, <1>7
<1>10. body[x + 1] = Letter(n) /\ body[x + 2] = "="
  <2>1. 2 \in 1..Len(P) /\ x + 2 > 1 /\ x + 2 - 1 = x + 1
    BY <1>9
  <2>2. 3 \in 1..Len(P) /\ x + 3 > 1 /\ x + 3 - 1 = x + 2
    BY <1>9
  <2>3. body[x + 2 - 1] = P[2]
    BY <1>8, <2>1
  <2>4. body[x + 3 - 1] = P[3]
    BY <1>8, <2>2
  <2> QED
    BY <1>5, <2>1, <2>2, <2>3, <2>4
<1>11. ASSUME NEW j \in 1..l PROVE body[x + 2 + j] = V[j]
  <2>1. j + 3 \in 1..Len(P) /\ x + (j + 3) > 1 /\ x + (j + 3) - 1 = x + 2 + j
    BY <1>9
  <2>2. body[x + (j + 3) - 1] = P[j + 3]
    BY <1>8, <2>1
  <2> QED
    BY <1>5, <1>9, <2>1, <2>2
<1>12. Cut(n) <= Len(body) + 1 /\ (Cut(n) = Len(body) + 1 \/ body[Cut(n)] = Blank)
  BY <1>6, <1>9, Border
<1>13. PICK p \in Nat \ {0} : p = x + 1 /\ p + 1 = x + 2
  OBVIOUS
<1>14. Cut(n) \in Nat /\ Cut(n) = p + 2 + Len(V)
  BY <1>9, <1>13
<1>15. ASSUME NEW j \in 1..Len(V) PROVE body[p + 1 + j] = V[j]
  BY <1>9, <1>11, <1>13
<1>16. body[p] = Letter(n) /\ body[p + 1] = "="
  BY <1>10, <1>13
<1>17. PairAt(p, Letter(n), arrived.fields[Key(n)], Cut(n))
  BY <1>12, <1>14, <1>15, <1>16 DEF PairAt, V
<1> QED
  BY <1>1, <1>2, <1>3, <1>7, <1>13, <1>17

\* Where a tag of the message is written.
LEMMA TagPlaced ==
  ASSUME Written(arrived), Layout, NEW n \in 3..4, Piece(n) # <<>>
  PROVE  n - 2 \in DOMAIN arrived.tags /\ TagAt(Cut(n - 1) + 1, arrived.tags[n - 2], Cut(n))
<1>0. PICK g : g = arrived.tags[n - 2]
  OBVIOUS
<1>1. Piece(n) = Hashed(arrived, n - 2) /\ n - 2 \in {1, 2} /\ n \in 1..4 /\ n - 1 \in 0..4
  BY DEF Piece
<1>2. n - 2 \in DOMAIN arrived.tags
  BY <1>1, HashedIs
<1>3. g \in Seq(Symbols) /\ \A i \in 1..Len(g) : g[i] # Blank
  BY <1>0, <1>2, SymbolsDiffer DEF Written, White
<1> DEFINE P == Piece(n)
<1>4. /\ Len(P) = Len(g) + 2 /\ Len(g) \in Nat \ {0} /\ P[2] = "#"
      /\ \A j \in 1..Len(g) : P[j + 2] = g[j]
  BY <1>0, <1>1, <1>2, HashedIs
<1>5. PICK x \in Nat : x = Cut(n - 1) /\ Cut(n) = x + Len(P)
  BY <1>1, CutIs
<1>6. ASSUME NEW j \in 1..Len(P), x + j > 1 PROVE body[x + j - 1] = P[j]
  BY <1>1, <1>5, <1>6 DEF Layout
<1> HIDE DEF P
<1>7. PICK l \in Nat : l = Len(g) /\ l > 0 /\ Len(P) = l + 2 /\ Cut(n) = x + l + 2
  <2>1. PICK l \in Nat : l = Len(g) /\ l > 0
    BY ONLY <1>4
  <2>2. Len(P) = l + 2
    BY ONLY <1>4, <2>1, Zenon
  <2>3. PICK z \in Nat : z = Len(P)
    BY ONLY <2>2, l \in Nat
  <2>4. Cut(n) = x + z /\ z = l + 2
    BY ONLY <1>5, <2>2, <2>3, Zenon
  <2>5. Cut(n) = x + l + 2
    BY ONLY <2>4, l \in Nat, x \in Nat
  <2> QED
    BY ONLY <2>1, <2>2, <2>5, l \in Nat, Zenon
<1>8. PICK p \in Nat \ {0} : p = x + 1
  OBVIOUS
<1>9. body[p] = "#"
  <2>1. 2 \in 1..Len(P) /\ x + 2 > 1 /\ x + 2 - 1 = p
    BY <1>7, <1>8
  <2>2. body[x + 2 - 1] = P[2]
    BY <1>6, <2>1
  <2> QED
    BY <1>4, <2>1, <2>2
<1>10. ASSUME NEW i \in 1..Len(g) PROVE body[p + i] = g[i]
  <2>1. i + 2 \in 1..Len(P) /\ x + (i + 2) > 1 /\ x + (i + 2) - 1 = p + i
    BY <1>7, <1>8
  <2>2. body[x + (i + 2) - 1] = P[i + 2]
    BY <1>6, <2>1
  <2> QED
    BY <1>4, <2>1, <2>2
<1>11. Cut(n) \in Nat /\ Cut(n) = p + 1 + Len(g) /\ Cut(n) >= 1 /\ Len(g) > 0
  BY <1>7, <1>8
<1>12. Cut(n) <= Len(body) + 1 /\ (Cut(n) = Len(body) + 1 \/ body[Cut(n)] = Blank)
  BY <1>1, <1>11, Border
<1>13. TagAt(p, g, Cut(n))
  BY <1>3, <1>8, <1>9, <1>10, <1>11, <1>12 DEF TagAt
<1> QED
  BY <1>0, <1>2, <1>5, <1>8, <1>13

(***************************************************************************)
(* The invariant: whatever is read survives, so that no value that does    *)
(* not is read; and when all values survive, the parts read so far were    *)
(* read as they were written.                                              *)
(***************************************************************************)
\* The fields of the first s parts are known.
Known(s) ==
  /\ DOMAIN fields \subseteq {KeyA, KeyB}
  /\ fields = [k \in DOMAIN fields |-> fields[k]]
  /\ \A i \in 1..2 : Key(i) \in DOMAIN fields <=> i <= s /\ Key(i) \in DOMAIN arrived.fields
  /\ \A k \in DOMAIN fields : fields[k] = arrived.fields[k]

\* The tags among the first s parts.
Told(s) ==
  IF s <= 2 \/ arrived.tags = <<>> THEN <<>> ELSE IF s = 3 THEN <<arrived.tags[1]>> ELSE arrived.tags

\* tokenize stands behind the first s parts, or behind the blank that follows.
Stands(s) ==
  \/ pos = Cut(s) /\ pos >= 1
  \/ pos = Cut(s) + 1 /\ (Cut(s) = 0 \/ (s < 4 /\ Piece(s + 1) # <<>>))

ReadSoFar(s) ==
  /\ Known(s)
  /\ tags = Told(s)
  /\ Stands(s)
  /\ outcome = "running" \/ (outcome = "parsed" /\ s = 4)

\* The next part, if there is one, is written.
NextIs(s) == s = 4 \/ Piece(s + 1) # <<>>

AllSurvive == \A k \in DOMAIN arrived.fields : Survives(arrived.fields[k])

Tokenized ==
  /\ Layout
  /\ pos \in 1..(Len(body) + 1)
  /\ \A k \in DOMAIN fields : Survives(fields[k])
  /\ AllSurvive => \E s \in 0..4 : ReadSoFar(s)

WireInv ==
  /\ sent \in Messages
  /\ IF sent.sharing THEN body = TrimSpace(sent.payload) ELSE Tokenized

\* A part that is not written changes nothing.
LEMMA EmptyPart ==
  ASSUME Written(arrived), NEW s \in 0..3, ReadSoFar(s), Piece(s + 1) = <<>>
  PROVE  ReadSoFar(s + 1)
<1>1. Cut(s) \in Nat /\ Cut(s + 1) = Cut(s) + 0 /\ Cut(s + 1) = Cut(s)
  <2>1. s \in 0..4 /\ s + 1 \in 1..4 /\ (s + 1) - 1 = s
    OBVIOUS
  <2>2. Len(Piece(s + 1)) = 0
    OBVIOUS
  <2>3. Cut(s) \in Nat /\ Cut(s + 1) = Cut(s) + Len(Piece(s + 1))
    BY <2>1, CutIs
  <2> QED
    BY <2>2, <2>3
<1>2. Stands(s + 1)
  BY <1>1 DEF ReadSoFar, Stands
<1>3. Known(s + 1)
  <2>1. ASSUME NEW i \in 1..2
        PROVE  (i <= s /\ Key(i) \in DOMAIN arrived.fields)
                 <=> (i <= s + 1 /\ Key(i) \in DOMAIN arrived.fields)
    <3>1. CASE i = s + 1
      <4>1. Letter(i) \in {"a", "b"} /\ Key(i) = <<Letter(i)>> /\ Piece(i) = Pair(arrived, Key(i))
        <5>1. i = 1 \/ i = 2
          OBVIOUS
        <5> QED
          BY <5>1 DEF Piece, Key, Letter, KeyA, KeyB
      <4>2. Pair(arrived, Key(i)) = <<>>
        BY <3>1, <4>1
      <4>3. Key(i) \notin DOMAIN arrived.fields
        <5>1. Len(Pair(arrived, Key(i))) = 0
          BY <4>2
        <5>2. SUFFICES ASSUME Key(i) \in DOMAIN arrived.fields PROVE FALSE
          OBVIOUS
        <5>3. Len(Value(arrived.fields[Key(i)])) \in Nat
          BY <5>2, ValueIs DEF Written
        <5>4. Len(Pair(arrived, Key(i))) = Len(Value(arrived.fields[Key(i)])) + 3
          BY <4>1, <5>2, PairIs
        <5>5. PICK l \in Nat : l = Len(Value(arrived.fields[Key(i)]))
          BY ONLY <5>3
        <5>6. l + 3 = 0
          BY ONLY <5>1, <5>4, <5>5, Zenon
        <5> QED
          BY ONLY <5>6, l \in Nat
      <4> QED
        BY <4>3
    <3>2. CASE i # s + 1
      BY <3>2
    <3> QED
      BY <3>1, <3>2
  <2> QED
    BY <2>1 DEF ReadSoFar, Known
<1>4. Told(s + 1) = Told(s)
  <2>1. arrived.tags \in Seq(Seq(Symbols)) /\ Len(arrived.tags) <= 2
    BY DEF Written
  <2>2. CASE s <= 1
    BY <2>2 DEF Told
  <2>3. CASE s \in {2, 3}
    <3>1. Piece(s + 1) = Hashed(arrived, s - 1) /\ s - 1 \in {1, 2}
      <4>1. s + 1 # 1 /\ s + 1 # 2 /\ s + 1 - 2 = s - 1 /\ s - 1 \in {1, 2}
        BY <2>3
      <4> QED
        BY <4>1 DEF Piece
    <3>2. s - 1 \notin DOMAIN arrived.tags
      <4>1. SUFFICES ASSUME s - 1 \in DOMAIN arrived.tags PROVE FALSE
        OBVIOUS
      <4>2. Len(Hashed(arrived, s - 1)) = Len(arrived.tags[s - 1]) + 2 /\ Len(arrived.tags[s - 1]) \in Nat
        BY <3>1, <4>1, HashedIs
      <4>3. Len(Hashed(arrived, s - 1)) = 0
        BY <3>1
      <4> QED
        BY <4>2, <4>3
    <3>3. CASE s = 2
      <4>1. arrived.tags = <<>>
        BY <2>1, <3>2, <3>3
      <4> QED
        BY <4>1 DEF Told
    <3>4. CASE s = 3
      <4>1. Len(arrived.tags) <= 1
        BY <2>1, <3>2, <3>4
      <4>2. arrived.tags = <<>> \/ arrived.tags = <<arrived.tags[1]>>
        BY <2>1, <4>1
      <4> QED
        BY <3>4, <4>2 DEF Told
    <3> QED
      BY <2>3, <3>3, <3>4
  <2> QED
    BY <2>2, <2>3
<1>5. tags = Told(s) /\ outcome = "running"
  BY DEF ReadSoFar
<1> QED
  BY <1>2, <1>3, <1>4, <1>5 DEF ReadSoFar

\* Of the parts read so far, count the ones that are not written too.
LEMMA Settle ==
  ASSUME Written(arrived), NEW s \in 0..4, ReadSoFar(s)
  PROVE  \E t \in 0..4 : ReadSoFar(t) /\ NextIs(t)
<1>1. ASSUME ReadSoFar(4) PROVE \E t \in 0..4 : ReadSoFar(t) /\ NextIs(t)
  BY <1>1 DEF NextIs
<1>2. ASSUME ReadSoFar(3) PROVE \E t \in 0..4 : ReadSoFar(t) /\ NextIs(t)
  <2>1. CASE Piece(3 + 1) = <<>>
    BY <1>1, <1>2, <2>1, EmptyPart, 3 \in 0..3, 3 + 1 = 4
  <2>2. CASE Piece(3 + 1) # <<>>
    BY <1>2, <2>2, 3 \in 0..4 DEF NextIs
  <2> QED
    BY <2>1, <2>2
<1>3. ASSUME ReadSoFar(2) PROVE \E t \in 0..4 : ReadSoFar(t) /\ NextIs(t)
  <2>1. CASE Piece(2 + 1) = <<>>
    BY <1>2, <1>3, <2>1, EmptyPart, 2 \in 0..3, 2 + 1 = 3
  <2>2. CASE Piece(2 + 1) # <<>>
    BY <1>3, <2>2, 2 \in 0..4 DEF NextIs
  <2> QED
    BY <2>1, <2>2
<1>4. ASSUME ReadSoFar(1) PROVE \E t \in 0..4 : ReadSoFar(t) /\ NextIs(t)
  <2>1. CASE Piece(1 + 1) = <<>>
    BY <1>3, <1>4, <2>1, EmptyPart, 1 \in 0..3, 1 + 1 = 2
  <2>2. CASE Piece(1 + 1) # <<>>
    BY <1>4, <2>2, 1 \in 0..4 DEF NextIs
  <2> QED
    BY <2>1, <2>2
<1>5. ASSUME ReadSoFar(0) PROVE \E t \in 0..4 : ReadSoFar(t) /\ NextIs(t)
  <2>1. CASE Piece(0 + 1) = <<>>
    BY <1>4, <1>5, <2>1, EmptyPart, 0 \in 0..3, 0 + 1 = 1
  <2>2. CASE Piece(0 + 1) # <<>>
    BY <1>5, <2>2, 0 \in 0..4 DEF NextIs
  <2> QED
    BY <2>1, <2>2
<1>6. s = 0 \/ s = 1 \/ s = 2 \/ s = 3 \/ s = 4
  OBVIOUS
<1> QED
  BY <1>1, <1>2, <1>3, <1>4, <1>5, <1>6

\* No turn moves the parts.
LEMMA LayoutStays ==
  ASSUME UNCHANGED <<sent, body>>, Layout
  PROVE  Layout'
<1>1. ASSUME NEW n PROVE Piece(n)' = Piece(n) /\ Cut(n)' = Cut(n)
  BY PartsStay
<1> QED
  BY <1>1 DEF Layout

\* A turn at the end of a part, at a key or at a tag.
LEMMA ReadStep ==
  ASSUME Written(arrived), ~sent.sharing, Tokenized, NEW s \in 0..4, ReadSoFar(s), NextIs(s), WireNext,
         AllSurvive
  PROVE  \E t \in 0..4 : ReadSoFar(t)'
<1>0. /\ Layout /\ body \in Seq(Symbols) /\ pos \in 1..(Len(body) + 1) /\ pos \in Nat
      /\ \A k \in DOMAIN fields : Survives(fields[k])
  BY DEF Tokenized, Layout
<1>1. UNCHANGED <<sent, body>> /\ outcome = "running"
  BY <1>0, AnyTurn
<1>2. ASSUME NEW n PROVE arrived' = arrived /\ Piece(n)' = Piece(n) /\ Cut(n)' = Cut(n)
  BY <1>1, PartsStay
<1>3. Known(s) /\ tags = Told(s) /\ Stands(s)
  BY DEF ReadSoFar
<1>4. Told(s)' = Told(s) /\ Told(s + 1)' = Told(s + 1)
  BY <1>2 DEF Told
<1>5. PICK n \in Nat : n = Len(body)
  BY <1>0
<1>6. PICK x \in Nat : x = Cut(s)
  BY CutIs
<1>7. CASE s = 4
  <2>1. n = IF x = 0 THEN 0 ELSE x - 1
    BY <1>0, <1>5, <1>6, <1>7 DEF Layout
  <2>2. (pos = x /\ pos >= 1) \/ (pos = x + 1 /\ x = 0)
    BY <1>3, <1>6, <1>7 DEF Stands
  <2>3. pos > n
    BY <1>0, <2>1, <2>2
  <2>4. UNCHANGED <<sent, body, pos, fields, tags>> /\ outcome' = "parsed"
    BY <1>0, <1>1, <1>5, <2>3, EndRead
  <2>5. Known(s)'
    BY <1>2, <1>3, <2>4 DEF Known
  <2>6. Stands(s)'
    BY <1>2, <1>3, <2>4 DEF Stands
  <2>7. ReadSoFar(s)'
    BY <1>3, <1>4, <1>7, <2>4, <2>5, <2>6 DEF ReadSoFar
  <2> QED
    BY <2>7
<1>8. CASE s # 4
  <2>1. s \in 0..3 /\ s + 1 \in 1..4 /\ (s + 1) - 1 = s /\ Piece(s + 1) # <<>> /\ s < 4
    BY <1>8 DEF NextIs
  <2>2. PICK l \in Nat : l = Len(Piece(s + 1)) /\ l >= 2 /\ Piece(s + 1)[1] = Blank
    BY <2>1, PartIs DEF Word
  <2>3. Cut(s + 1) = x + l
    BY <1>6, <2>1, <2>2, CutIs
  <2>4. x + l <= n + 1
    <3>1. Cut(s + 1) >= 1
      BY <2>2, <2>3
    <3> QED
      BY <1>0, <1>5, <2>1, <2>3, <3>1, Border
  <2>5. CASE pos = x /\ pos >= 1
    <3>1. pos \in 1..Len(body) /\ x + 1 - 1 = x /\ x + 1 > 1 /\ 1 \in 1..Len(Piece(s + 1))
      BY <1>0, <1>5, <2>2, <2>4, <2>5
    <3>2. body[x + 1 - 1] = Piece(s + 1)[1]
      BY <1>0, <1>6, <2>1, <3>1 DEF Layout
    <3>3. body[pos] = Blank
      BY <2>2, <2>5, <3>1, <3>2
    <3>4. UNCHANGED <<sent, body, fields, tags, outcome>> /\ pos' = pos + 1
      BY <1>0, <1>1, <3>1, <3>3, SkipRead
    <3>5. Known(s)'
      BY <1>2, <1>3, <3>4 DEF Known
    <3>6. Stands(s)'
      BY <1>2, <1>6, <2>1, <2>5, <3>4 DEF Stands
    <3>7. ReadSoFar(s)'
      BY <1>1, <1>3, <1>4, <3>4, <3>5, <3>6 DEF ReadSoFar
    <3> QED
      BY <3>7
  <2>6. CASE pos = x + 1 /\ s \in {0, 1}
    <3> DEFINE k == Key(s + 1)
               c == Letter(s + 1)
               v == arrived.fields[k]
    <3>1. s + 1 \in 1..2
      BY <2>6
    <3>2. /\ k \in DOMAIN arrived.fields /\ v \in Seq(Symbols) /\ c \in {"a", "b"}
          /\ PairAt(pos, c, v, Cut(s + 1)) /\ k = <<c>>
      BY <1>0, <1>6, <2>1, <2>6, <3>1, PairPlaced DEF Key
    <3>3. Survives(v)
      BY <3>2 DEF AllSurvive
    <3>4. UNCHANGED <<sent, body, tags, outcome>> /\ fields' = Set(<<c>>, v) /\ pos' = Cut(s + 1)
      BY <1>0, <1>1, <3>2, <3>3, PairKept
    <3>5. fields' = Set(k, v)
      BY <3>2, <3>4
    <3>6. Known(s + 1)'
      <4>1. DOMAIN fields' = DOMAIN fields \cup {k} /\ fields' = [j \in DOMAIN fields' |-> fields'[j]]
        BY <3>5 DEF Set
      <4>2. k \in {KeyA, KeyB} /\ Key(1) = KeyA /\ Key(2) = KeyB /\ KeyA # KeyB
        BY <3>1 DEF Key, Letter, KeyA, KeyB
      <4>3. ASSUME NEW j \in DOMAIN fields' PROVE fields'[j] = arrived.fields[j]
        BY <1>3, <3>3, <3>5, <4>1 DEF Known, Set
      <4>4. ASSUME NEW i \in 1..2
            PROVE  Key(i) \in DOMAIN fields' <=> i <= s + 1 /\ Key(i) \in DOMAIN arrived.fields
        <5>1. CASE i = s + 1
          BY <3>2, <4>1, <5>1
        <5>2. CASE i # s + 1
          <6>1. Key(i) # k
            <7>1. (i = 1 /\ s + 1 = 2) \/ (i = 2 /\ s + 1 = 1)
              BY <3>1, <5>2
            <7> QED
              BY <4>2, <7>1
          <6>2. i <= s <=> i <= s + 1
            BY <5>2
          <6> QED
            BY <1>3, <4>1, <6>1, <6>2 DEF Known
        <5> QED
          BY <5>1, <5>2
      <4>5. DOMAIN fields' \subseteq {KeyA, KeyB}
        BY <1>3, <4>1, <4>2 DEF Known
      <4> HIDE DEF k, v
      <4> QED
        BY <1>2, <3>4, <4>1, <4>3, <4>4, <4>5 DEF Known
    <3>7. Stands(s + 1)'
      <4>1. Cut(s + 1) >= 1
        BY <2>2, <2>3
      <4> QED
        BY <1>2, <3>4, <4>1 DEF Stands
    <3>8. tags' = Told(s + 1)'
      BY <1>3, <1>4, <2>6, <3>4 DEF Told
    <3>9. ReadSoFar(s + 1)'
      BY <1>1, <3>4, <3>6, <3>7, <3>8 DEF ReadSoFar
    <3>10. s + 1 \in 0..4
      BY <2>1
    <3> QED
      BY <3>9, <3>10
  <2>7. CASE pos = x + 1 /\ s \in {2, 3}
    <3>1. s + 1 \in 3..4 /\ s + 1 - 2 = s - 1
      BY <2>7
    <3>2. PICK g : g = arrived.tags[s - 1]
      OBVIOUS
    <3>3. s - 1 \in DOMAIN arrived.tags /\ TagAt(pos, g, Cut(s + 1))
      <4>1. s + 1 - 2 = s - 1 /\ s + 1 - 1 = s
        OBVIOUS
      <4>2. /\ s + 1 - 2 \in DOMAIN arrived.tags
            /\ TagAt(Cut(s + 1 - 1) + 1, arrived.tags[s + 1 - 2], Cut(s + 1))
        BY <1>0, <2>1, <3>1, TagPlaced
      <4> QED
        BY <1>6, <2>7, <3>2, <4>1, <4>2
    <3>5. UNCHANGED <<sent, body, fields, outcome>> /\ tags' = Append(tags, g) /\ pos' = Cut(s + 1)
      BY <1>0, <1>1, <3>3, TagRead
    <3>6. Append(tags, g) = Told(s + 1)
      <4>1. arrived.tags \in Seq(Seq(Symbols)) /\ Len(arrived.tags) <= 2
        BY DEF Written
      <4>2. arrived.tags # <<>>
        BY <3>3, <4>1
      <4>3. CASE s = 2
        <5>1. Told(s) = <<>> /\ Told(s + 1) = <<arrived.tags[1]>> /\ g = arrived.tags[1]
          BY <3>2, <4>2, <4>3 DEF Told
        <5> QED
          BY <1>3, <5>1
      <4>4. CASE s = 3
        <5>1. /\ Told(s) = <<arrived.tags[1]>> /\ Told(s + 1) = arrived.tags
              /\ g = arrived.tags[2] /\ 2 \in DOMAIN arrived.tags
          BY <3>2, <3>3, <4>2, <4>4 DEF Told
        <5>2. Len(arrived.tags) = 2
          <6>1. PICK z \in Nat : z = Len(arrived.tags) /\ DOMAIN arrived.tags = 1..z /\ z <= 2
            BY ONLY <4>1
          <6>3. 2 \in 1..z /\ z <= 2
            BY ONLY <5>1, <6>1, Zenon
          <6>2. z = 2
            BY ONLY <6>3, z \in Nat
          <6> QED
            BY <6>1, <6>2
        <5>3. Append(<<arrived.tags[1]>>, arrived.tags[2]) = arrived.tags
          BY <4>1, <5>2
        <5> QED
          BY <1>3, <5>1, <5>3
      <4> QED
        BY <2>7, <4>3, <4>4
    <3>7. Known(s + 1)'
      <4>1. ASSUME NEW i \in 1..2 PROVE i <= s <=> i <= s + 1
        BY <2>7
      <4> QED
        BY <1>2, <1>3, <3>5, <4>1 DEF Known
    <3>8. Stands(s + 1)'
      <4>1. Cut(s + 1) >= 1
        BY <2>2, <2>3
      <4> QED
        BY <1>2, <3>5, <4>1 DEF Stands
    <3>9. ReadSoFar(s + 1)'
      BY <1>1, <1>4, <3>5, <3>6, <3>7, <3>8 DEF ReadSoFar
    <3>10. s + 1 \in 0..4
      BY <2>1
    <3> QED
      BY <3>9, <3>10
  <2>8. (pos = x /\ pos >= 1) \/ pos = x + 1
    BY <1>3, <1>6 DEF Stands
  <2>9. s \in {0, 1} \/ s \in {2, 3}
    BY <2>1
  <2> QED
    BY <2>5, <2>6, <2>7, <2>8, <2>9
<1> QED
  BY <1>7, <1>8

\* The invariant holds when tokenize starts,
LEMMA WireStarts ==
  ASSUME WireInit
  PROVE  WireInv
<1>1. sent \in Messages
  BY DEF WireInit
<1>2. CASE sent.sharing
  BY <1>1, <1>2, SharedBody DEF WireInv
<1>3. CASE ~sent.sharing
  <2>1. Layout
    BY <1>3, LayoutInit
  <2>2. pos = 1 /\ fields = <<>> /\ tags = <<>> /\ outcome = "running"
    BY DEF WireInit
  <2>3. Len(body) \in Nat
    BY <2>1 DEF Layout
  <2>4. Cut(0) = 0
    BY DEF Cut
  <2>5. Known(0)
    <3>1. DOMAIN fields = {} /\ fields = [k \in DOMAIN fields |-> fields[k]]
      BY <2>2
    <3> QED
      BY <3>1 DEF Known
  <2>6. Told(0) = <<>>
    BY DEF Told
  <2>7. ReadSoFar(0)
    BY <2>2, <2>4, <2>5, <2>6 DEF ReadSoFar, Stands
  <2>8. \A k \in DOMAIN fields : Survives(fields[k])
    BY <2>2
  <2> QED
    BY <1>1, <1>3, <2>1, <2>2, <2>3, <2>7, <2>8 DEF WireInv, Tokenized
<1> QED
  BY <1>2, <1>3

\* every turn keeps it,
LEMMA WireStep ==
  ASSUME WireInv, [WireNext]_wireVars
  PROVE  WireInv'
<1>1. CASE UNCHANGED wireVars
  <2>1. UNCHANGED <<sent, body, pos, fields, tags, outcome>>
    BY <1>1 DEF wireVars
  <2>2. CASE sent.sharing
    BY <2>1, <2>2 DEF WireInv
  <2>3. CASE ~sent.sharing
    <3>1. ASSUME NEW n PROVE arrived' = arrived /\ Piece(n)' = Piece(n) /\ Cut(n)' = Cut(n)
      BY <2>1, PartsStay
    <3>2. Layout' /\ pos' \in 1..(Len(body') + 1)
      BY <2>1, <2>3, LayoutStays DEF WireInv, Tokenized
    <3>3. AllSurvive' <=> AllSurvive
      BY <3>1 DEF AllSurvive
    <3>4. ASSUME NEW s \in 0..4, ReadSoFar(s) PROVE ReadSoFar(s)'
      BY <2>1, <3>1, <3>4 DEF ReadSoFar, Known, Told, Stands
    <3> QED
      BY <2>1, <2>3, <3>2, <3>3, <3>4 DEF WireInv, Tokenized
  <2> QED
    BY <2>2, <2>3
<1>2. CASE WireNext /\ sent.sharing
  <2>1. UNCHANGED <<sent, body>>
    BY <1>2 DEF WireNext, RawPayload, SkipBlank, Tag, BareWord, KeyValue, EndOfBody, Tokenizing
  <2> QED
    BY <1>2, <2>1 DEF WireInv
<1>3. CASE WireNext /\ ~sent.sharing
  <2>1. /\ Tokenized /\ body \in Seq(Symbols) /\ pos \in 1..(Len(body) + 1)
        /\ \A k \in DOMAIN fields : Survives(fields[k])
    BY <1>3 DEF WireInv, Tokenized, Layout
  <2>0. sent \in Messages /\ Written(arrived)
    BY <1>3, MessagesAre, ArrivedWritten DEF WireInv
  <2>2. /\ UNCHANGED <<sent, body>> /\ pos' \in Nat /\ pos <= pos' /\ pos' <= Len(body) + 1
        /\ \A k \in DOMAIN fields' : Survives(fields'[k])
    BY <1>3, <2>1, AnyTurn
  <2>3. Layout' /\ pos' \in 1..(Len(body') + 1)
    <3>1. Layout'
      BY <2>1, <2>2, LayoutStays DEF Tokenized
    <3>2. pos' >= 1 /\ Len(body') = Len(body)
      BY <2>1, <2>2
    <3> QED
      BY <2>1, <2>2, <3>1, <3>2
  <2>4. AllSurvive' <=> AllSurvive
    BY <2>2, PartsStay DEF AllSurvive
  <2>5. ASSUME AllSurvive PROVE \E t \in 0..4 : ReadSoFar(t)'
    <3>1. PICK s \in 0..4 : ReadSoFar(s)
      BY <2>1, <2>5 DEF Tokenized
    <3>2. PICK t \in 0..4 : ReadSoFar(t) /\ NextIs(t)
      BY <2>0, <3>1, Settle
    <3> QED
      BY <1>3, <2>0, <2>1, <2>5, <3>2, ReadStep
  <2> QED
    BY <1>3, <2>0, <2>2, <2>3, <2>4, <2>5 DEF WireInv, Tokenized
<1> QED
  BY <1>1, <1>2, <1>3

\* A value that survives does so without the white space at its end.
LEMMA ShornSurvives ==
  ASSUME NEW v \in Seq(Symbols), Blank \notin ToSet(v), Survives(v)
  PROVE  Survives(Shorn(v))
<1> DEFINE s == Shorn(v)
<1>1. /\ s \in Seq(Symbols) /\ Len(s) <= Len(v) /\ \A i \in 1..Len(s) : s[i] = v[i]
  BY ShornIs
<1> HIDE DEF s
<1>2. Len(v) > 0 => v[1] # Quote
  BY WhatSurvives
<1>3. \A j \in 1..Len(v) : v[j] # Blank
  BY ValueIs
<1>4. \A j \in 1..Len(s) : j \in 1..Len(v) /\ s[j] # Blank
  BY <1>1, <1>3
<1>5. Len(s) > 0 => s[1] # Quote
  BY <1>1, <1>2
<1>6. Survives(s)
  BY <1>1, <1>4, <1>5, SurvivesUnblanked
<1> QED
  BY <1>6 DEF s

\* What arrives is the message, or the message ends with white space that is trimmed.
LEMMA ArrivedWhole ==
  ASSUME Written(sent)
  PROVE  /\ ~EndsBare(sent) => arrived.fields = sent.fields
         /\ EndsBare(sent) => /\ arrived.fields # sent.fields
                              /\ (\A k \in DOMAIN sent.fields : Survives(sent.fields[k])) => AllSurvive
<1> DEFINE k == LastKey
           v == sent.fields[k]
<1>1. /\ DOMAIN sent.fields \subseteq {KeyA, KeyB}
      /\ \A j \in DOMAIN sent.fields : sent.fields[j] \in Seq(Symbols)
      /\ sent.fields = [j \in DOMAIN sent.fields |-> sent.fields[j]]
  BY DEF Written
<1>2. k \in DOMAIN sent.fields <=> DOMAIN sent.fields # {}
  BY <1>1 DEF LastKey
<1>3. EndsBare(sent) <=> Cropped /\ v # <<>> /\ Last(v) = NoBreak
  BY <1>2 DEF EndsBare, Cropped, LastKey
<1>4. CASE ~Cropped
  BY <1>3, <1>4, ArrivedWritten
<1>5. CASE Cropped
  <2>1. k \in DOMAIN sent.fields /\ v \in Seq(Symbols) /\ Blank \notin ToSet(v)
    BY <1>1, <1>5 DEF Cropped
  <2> DEFINE s == Shorn(v)
  <2>2. /\ s \in Seq(Symbols) /\ Len(s) <= Len(v)
        /\ Len(s) > 0 => s[Len(s)] # NoBreak
        /\ \A i \in 1..Len(s) : s[i] = v[i]
        /\ \A i \in (Len(s) + 1)..Len(v) : v[i] = NoBreak
    BY <2>1, ShornIs
  <2>3. /\ DOMAIN arrived.fields = DOMAIN sent.fields
        /\ arrived.fields = [j \in DOMAIN arrived.fields |-> arrived.fields[j]]
        /\ \A j \in DOMAIN sent.fields : arrived.fields[j] = IF j = k THEN s ELSE sent.fields[j]
    BY <1>5, ArrivedWritten DEF Written
  <2> HIDE DEF k, v, s
  <2>4. v # <<>> => Last(v) = v[Len(v)]
    BY DEF Last
  <2>5. ASSUME EndsBare(sent) PROVE arrived.fields # sent.fields
    <3>1. Len(v) \in Nat /\ Len(v) > 0 /\ v[Len(v)] = NoBreak
      BY <1>3, <2>1, <2>4, <2>5
    <3>2. s # v
      BY <2>2, <3>1
    <3> QED
      BY <2>1, <2>3, <3>2 DEF v
  <2>6. ASSUME ~EndsBare(sent) PROVE arrived.fields = sent.fields
    <3>1. v = <<>> \/ v[Len(v)] # NoBreak
      BY <1>3, <1>5, <2>4, <2>6
    <3>2. Len(s) = Len(v)
      <4>1. PICK n \in Nat, m \in Nat : n = Len(v) /\ m = Len(s) /\ m <= n
        BY <2>1, <2>2
      <4>2. CASE m < n
        <5>1. n \in (m + 1)..n /\ n > 0
          BY <4>2
        <5>2. v[n] = NoBreak /\ v # <<>>
          BY <2>1, <2>2, <4>1, <5>1
        <5> QED
          BY <3>1, <4>1, <5>2
      <4> QED
        BY <4>1, <4>2
    <3>3. s = v
      BY <2>1, <2>2, <3>2, SameSeq
    <3>4. \A j \in DOMAIN sent.fields : arrived.fields[j] = sent.fields[j]
      BY <2>3, <3>3 DEF v
    <3> QED
      BY <1>1, <2>3, <3>4
  <2>7. ASSUME \A j \in DOMAIN sent.fields : Survives(sent.fields[j])
        PROVE  AllSurvive
    <3>1. Survives(v)
      BY <2>1, <2>7 DEF v
    <3>2. Survives(s)
      BY <2>1, <3>1, ShornSurvives DEF s
    <3>3. ASSUME NEW j \in DOMAIN arrived.fields PROVE Survives(arrived.fields[j])
      BY <2>3, <2>7, <3>2
    <3> QED
      BY <3>3 DEF AllSurvive
  <2> QED
    BY <2>5, <2>6, <2>7
<1> QED
  BY <1>4, <1>5

\* and it says what comes of a round trip.
LEMMA WireEnds ==
  ASSUME WireInv
  PROVE  RoundTripIsExact
<1>1. SUFFICES ASSUME outcome # "running"
               PROVE  IF sent.sharing
                      THEN (body = sent.payload) <=> (sent.payload = TrimSpace(sent.payload))
                      ELSE (outcome = "parsed" /\ fields = sent.fields /\ tags = sent.tags)
                             <=> (\A k \in DOMAIN sent.fields : Survives(sent.fields[k]))
                                   /\ ~EndsBare(sent)
  BY DEF RoundTripIsExact
<1>2. CASE sent.sharing
  BY <1>2 DEF WireInv
<1>3. CASE ~sent.sharing
  <2>0. Written(sent) /\ Written(arrived) /\ arrived.tags = sent.tags /\ Tokenized
    BY <1>3, MessagesAre, ArrivedWritten DEF WireInv
  <2>1. ASSUME ~AllSurvive PROVE fields # arrived.fields
    BY <2>0, <2>1 DEF Tokenized, AllSurvive
  <2>2. ASSUME NEW s \in 0..4, ReadSoFar(s)
        PROVE  outcome = "parsed" /\ fields = arrived.fields /\ tags = arrived.tags
    <3>1. outcome = "parsed" /\ s = 4 /\ Known(4) /\ tags = Told(4)
      BY <1>1, <2>2 DEF ReadSoFar
    <3>2. tags = arrived.tags
      BY <3>1 DEF Told
    <3>3. /\ DOMAIN arrived.fields \subseteq {KeyA, KeyB}
          /\ arrived.fields = [k \in DOMAIN arrived.fields |-> arrived.fields[k]]
      BY <2>0 DEF Written
    <3>4. Key(1) = KeyA /\ Key(2) = KeyB
      BY DEF Key, Letter, KeyA, KeyB
    <3>5. /\ KeyA \in DOMAIN fields <=> KeyA \in DOMAIN arrived.fields
          /\ KeyB \in DOMAIN fields <=> KeyB \in DOMAIN arrived.fields
      BY <3>1, <3>4, 1 \in 1..2, 2 \in 1..2 DEF Known
    <3>6. DOMAIN fields \subseteq {KeyA, KeyB} /\ fields = [k \in DOMAIN fields |-> fields[k]]
      BY <3>1 DEF Known
    <3>7. DOMAIN fields = DOMAIN arrived.fields
      BY <3>3, <3>5, <3>6
    <3>8. ASSUME NEW k \in DOMAIN fields PROVE fields[k] = arrived.fields[k]
      BY <3>1 DEF Known
    <3>9. fields = arrived.fields
      BY <3>3, <3>6, <3>7, <3>8
    <3> QED
      BY <3>1, <3>2, <3>9
  <2>3. CASE ~EndsBare(sent)
    <3>1. arrived.fields = sent.fields
      BY <2>0, <2>3, ArrivedWhole
    <3>2. AllSurvive <=> \A k \in DOMAIN sent.fields : Survives(sent.fields[k])
      BY <3>1 DEF AllSurvive
    <3>3. ASSUME AllSurvive
          PROVE  outcome = "parsed" /\ fields = sent.fields /\ tags = sent.tags
      <4>1. PICK s \in 0..4 : ReadSoFar(s)
        BY <2>0, <3>3 DEF Tokenized
      <4> QED
        BY <2>0, <2>2, <3>1, <4>1
    <3>4. ASSUME ~AllSurvive PROVE fields # sent.fields
      BY <2>1, <3>1, <3>4
    <3> QED
      BY <1>3, <2>3, <3>2, <3>3, <3>4, Zenon
  <2>4. CASE EndsBare(sent)
    <3>1. SUFFICES ASSUME fields = sent.fields PROVE FALSE
      BY <1>3, <2>4
    <3>2. \A k \in DOMAIN sent.fields : Survives(sent.fields[k])
      BY <2>0, <3>1 DEF Tokenized
    <3>3. AllSurvive
      BY <2>0, <2>4, <3>2, ArrivedWhole
    <3>4. fields = arrived.fields
      BY <2>0, <2>2, <3>3 DEF Tokenized
    <3> QED
      BY <2>0, <2>4, <3>1, <3>4, ArrivedWhole
  <2> QED
    BY <2>3, <2>4
<1> QED
  BY <1>2, <1>3

\* Parse gives back what String wrote exactly when every value survives and the text
\* does not end with a value that is not quoted and has white space at its end, and a
\* payload when it neither begins nor ends with white space (protocol.String, Parse
\* and tokenize), whatever the length of the values.
THEOREM RoundTripsAreExact == WireSpec => []RoundTripIsExact
<1>1. WireInit => WireInv
  BY WireStarts
<1>2. WireInv /\ [WireNext]_wireVars => WireInv'
  BY WireStep
<1>3. WireInv => RoundTripIsExact
  BY WireEnds
<1> QED
  BY <1>1, <1>2, <1>3, PTL DEF WireSpec
=============================================================================
