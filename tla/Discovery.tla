------------------------------ MODULE Discovery ------------------------------
(***************************************************************************)
(* Capability discovery (internal/agent/discovery.go, the heartbeat of     *)
(* agent.go, handleCapabilities and handleDiscover of protocol.go): every  *)
(* agent announces its expertise when it starts, at every tick of a timer, *)
(* and when a DISCOVER names it; the others keep an announcement for ttl.  *)
(*                                                                         *)
(* Times are remaining times, so that every behaviour of any length is     *)
(* covered: Tick lets one unit pass.  The code gives no real-time          *)
(* guarantee; the model assumes that a message arrives within Delay and    *)
(* that a goroutine whose timer fired runs before the next unit.           *)
(***************************************************************************)
EXTENDS Integers, FiniteSets, Functions

CONSTANTS Peers,      \* the agents
          Tags,       \* expertise tags
          Expertise,  \* a.capabilities, per agent
          Ttl,        \* cfg.DiscoveryTTL
          Second,     \* the shortest interval
          Delay       \* the longest a message is under way

ASSUME DiscoveryConstants ==
  /\ Ttl \in Nat \ {0} /\ Second \in Nat \ {0} /\ Delay \in Nat
  /\ Expertise \in [Peers -> SUBSET Tags]

VARIABLES phase,   \* "off", "up", "member" (for the server), "joined", "stopping"
          first,   \* the agents whose heartbeat has not made its first announcement
          beating, \* the agents whose heartbeat goroutine runs
          timer,   \* time to the next tick of the heartbeat's ticker
          known,   \* ds.agents: per agent known, the time until ExpiresAt
          wire,    \* messages under way
          inPhase  \* history: how long the agent has been joined, or off

discVars == <<phase, first, beating, timer, known, wire, inPhase>>

DiscInit ==
  /\ phase = [a \in Peers |-> "off"]
  /\ first = {} /\ beating = {} /\ wire = {}
  /\ timer = [a \in Peers |-> 0]
  /\ known = [a \in Peers |-> <<>>]
  /\ inPhase = [a \in Peers |-> 0]

-----------------------------------------------------------------------------
\* Mutant of Interval: an announcement only when the last one expires.
IntervalTtl == Ttl

\* The heartbeat's period.
Interval == IF Ttl \div 2 < Second THEN Second ELSE Ttl \div 2

\* Where inPhase stops counting.
LongEnough == [joined |-> Interval + Delay + 1, off |-> Ttl + Delay + Interval + 1]

\* Mutant of Unexpired: an entry counts for as long as it is kept.
UnexpiredAll(k) == k

\* What Get, ListActive and FindByExpertise see: now is not After(ExpiresAt).
Unexpired(k) == Restrict(k, {b \in DOMAIN k : k[b] >= 0})

ListActive(a) == DOMAIN Unexpired(known[a])

FindByExpertise(a, tag) == {b \in ListActive(a) : tag \in Expertise[b]}

\* Prune removes what has expired.
Prune(k) == Restrict(k, {b \in DOMAIN k : k[b] >= 0})

\* The server relays a message to the members it has now.
Sends(a, kind, tags) ==
  {[from |-> a, to |-> b, kind |-> kind, expertise |-> tags, age |-> 0] :
     b \in {c \in Peers \ {a} : phase[c] \in {"member", "joined", "stopping"}}}

\* announceCapabilities: only to JoinedChannels, and only with capabilities.
announceCapabilities(a) ==
  IF phase[a] \in {"joined", "stopping"} /\ Expertise[a] # {}
  THEN Sends(a, "CAPABILITIES", Expertise[a]) ELSE {}

-----------------------------------------------------------------------------
\* Start: Connect, then startDiscoveryHeartbeat if there are capabilities.
Start(a) ==
  /\ phase[a] = "off"
  /\ phase' = [phase EXCEPT ![a] = "up"]
  /\ known' = [known EXCEPT ![a] = <<>>]
  /\ IF Expertise[a] # {}
     THEN /\ first' = first \cup {a} /\ beating' = beating \cup {a}
          /\ timer' = [timer EXCEPT ![a] = Interval]
     ELSE UNCHANGED <<first, beating, timer>>
  /\ inPhase' = [inPhase EXCEPT ![a] = 0]
  /\ UNCHANGED wire

\* The server handles the JOIN; the client hears of it later.
JoinChannel(a) ==
  /\ phase[a] = "up"
  /\ phase' = [phase EXCEPT ![a] = "member"]
  /\ UNCHANGED <<first, beating, timer, known, wire, inPhase>>

JoinEcho(a) ==
  /\ phase[a] = "member"
  /\ phase' = [phase EXCEPT ![a] = "joined"]
  /\ inPhase' = [inPhase EXCEPT ![a] = 0]
  /\ UNCHANGED <<first, beating, timer, known, wire>>

\* The first announcement of the heartbeat, which may find no joined channel.
FirstAnnouncement(a) ==
  /\ a \in first
  /\ wire' = wire \cup announceCapabilities(a)
  /\ first' = first \ {a}
  /\ UNCHANGED <<phase, beating, timer, known, inPhase>>

\* The ticker fired.  When discoverStop is closed as well, select may still take
\* this case.
Heartbeat(a) ==
  /\ a \in beating \ first /\ timer[a] = 0
  /\ wire' = wire \cup announceCapabilities(a)
  /\ known' = [known EXCEPT ![a] = Prune(@)]
  /\ timer' = [timer EXCEPT ![a] = Interval]
  /\ UNCHANGED <<phase, first, beating, inPhase>>

\* Bound: an application sends when none of its agent's messages is under way.
Quiet(a) == \A m \in wire : m.from # a

\* Discover of the application.
Discover(a, tag) ==
  /\ phase[a] = "joined" /\ Quiet(a)
  /\ wire' = wire \cup Sends(a, "DISCOVER", {tag})
  /\ UNCHANGED <<phase, first, beating, timer, known, inPhase>>

\* AnnounceCapabilities of the application.
AnnounceCapabilities(a) ==
  /\ phase[a] = "joined" /\ Quiet(a)
  /\ wire' = wire \cup announceCapabilities(a)
  /\ UNCHANGED <<phase, first, beating, timer, known, inPhase>>

\* DiscoveryStore.Update: the entry is replaced, and lives for ttl from now on.
Update(k, b) == [c \in DOMAIN k \cup {b} |-> IF c = b THEN Ttl ELSE k[c]]

handleCapabilities(m) ==
  /\ m.kind = "CAPABILITIES"
  /\ known' = [known EXCEPT ![m.to] = Update(@, m.from)]
  /\ wire' = wire \ {m}

\* handleDiscover: an agent with the expertise answers.
handleDiscover(m) ==
  /\ m.kind = "DISCOVER"
  /\ wire' = (wire \ {m}) \cup
               (IF m.expertise \subseteq Expertise[m.to]
                THEN Sends(m.to, "CAPABILITIES", Expertise[m.to]) ELSE {})
  /\ UNCHANGED known

Hears(m) ==
  /\ handleCapabilities(m) \/ handleDiscover(m)
  /\ UNCHANGED <<phase, first, beating, timer, inPhase>>

\* Shutdown closes discoverStop, and later parts and disconnects.
Shutdown(a) ==
  /\ phase[a] = "joined"
  /\ phase' = [phase EXCEPT ![a] = "stopping"]
  /\ inPhase' = [inPhase EXCEPT ![a] = 0]
  /\ UNCHANGED <<first, beating, timer, known, wire>>

HeartbeatStops(a) ==
  /\ phase[a] = "stopping" /\ a \in beating \ first
  /\ beating' = beating \ {a}
  /\ UNCHANGED <<phase, first, timer, known, wire, inPhase>>

\* The process ends, after Shutdown or in a crash; the server says QUIT, which
\* the discovery store does not use.
Leave(a) ==
  /\ phase[a] # "off"
  /\ phase' = [phase EXCEPT ![a] = "off"]
  /\ first' = first \ {a} /\ beating' = beating \ {a}
  /\ timer' = [timer EXCEPT ![a] = 0]
  /\ known' = [known EXCEPT ![a] = <<>>]
  /\ wire' = {m \in wire : m.to # a}
  /\ inPhase' = [inPhase EXCEPT ![a] = 0]

\* One unit of time passes; an entry that has expired stays expired.
Tick ==
  /\ \A m \in wire : m.age < Delay
  /\ first = {} /\ \A a \in beating : timer[a] > 0
  /\ timer' = [a \in Peers |-> IF a \in beating THEN timer[a] - 1 ELSE timer[a]]
  /\ known' = [a \in Peers |->
                 [b \in DOMAIN known[a] |-> IF known[a][b] < 0 THEN -1 ELSE known[a][b] - 1]]
  /\ wire' = {[m EXCEPT !.age = @ + 1] : m \in wire}
  /\ inPhase' = [a \in Peers |->
                   IF phase[a] \in DOMAIN LongEnough /\ inPhase[a] < LongEnough[phase[a]]
                   THEN inPhase[a] + 1 ELSE inPhase[a]]
  /\ UNCHANGED <<phase, first, beating>>

DiscNext ==
  \/ \E a \in Peers :
       \/ Start(a) \/ JoinChannel(a) \/ JoinEcho(a)
       \/ FirstAnnouncement(a) \/ Heartbeat(a) \/ AnnounceCapabilities(a)
       \/ Shutdown(a) \/ HeartbeatStops(a) \/ Leave(a)
       \/ \E tag \in Tags : Discover(a, tag)
  \/ \E m \in wire : Hears(m)
  \/ Tick

DiscSpec == DiscInit /\ [][DiscNext]_discVars

-----------------------------------------------------------------------------
\* Two agents that have both been joined for an interval and a delay find each
\* other by their expertise, and go on doing so: the first announcement may be
\* lost, but the next ones come before the entry expires.  (It needs Interval +
\* Delay <= Ttl, which a ttl of less than two seconds does not give.)
JoinedAreFound ==
  \A a, b \in Peers : \A tag \in Expertise[b] :
    a # b /\ (\A c \in {a, b} : phase[c] = "joined" /\ inPhase[c] > Interval + Delay)
      => b \in FindByExpertise(a, tag)

\* An agent that is gone is no longer listed once its last message's ttl is over,
\* and no longer kept an interval later by an agent whose heartbeat runs, whatever
\* it sent last and whichever announcements crossed its end.
GoneAreForgotten ==
  \A a, b \in Peers :
    phase[a] = "joined" /\ phase[b] = "off" =>
      /\ inPhase[b] > Ttl + Delay => b \notin ListActive(a)
      /\ inPhase[b] > Ttl + Delay + Interval /\ a \in beating => b \notin DOMAIN known[a]
=============================================================================
