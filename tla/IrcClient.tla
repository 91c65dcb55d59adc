------------------------------ MODULE IrcClient -------------------------------
(***************************************************************************)
(* ircClient (pkg/ircclient/connection.go): the callbacks that go-ircevo   *)
(* runs for what the server says, the reconnect loop of Connect in its own *)
(* goroutine, and the methods the application calls meanwhile.  Two queues *)
(* carry commands to the server and its answers back; both are lost when   *)
(* the connection drops.                                                   *)
(*                                                                         *)
(* The server and the library (external): JOIN and PART are answered in    *)
(* order, a member may be kicked, 001 is sent once per connection, Loop    *)
(* returns when the connection is down.                                    *)
(***************************************************************************)
EXTENDS Naturals, Sequences, SequencesExt, FiniteSets

CONSTANTS Channels,     \* channel names
          Configured,   \* cfg.Channels, joined after every 001
          Reconnects,   \* cfg.Reconnect, with a backoff
          MaxReconnectAttempts,  \* as configured; 0 for no limit
          MaxCalls,     \* the most calls of Join and Part before Shutdown
          MaxKicks,     \* the most kicks
          MaxRefusals,  \* the most JOINs the server refuses
          MaxDrops,     \* the most connections the network breaks
          MaxFailures   \* the most failed calls of Reconnect

ASSUME IrcClientConstants ==
  /\ Configured \subseteq Channels /\ IsFiniteSet(Configured)
  /\ Reconnects \in BOOLEAN
  /\ MaxReconnectAttempts \in Nat /\ MaxCalls \in Nat /\ MaxKicks \in Nat
  /\ MaxRefusals \in Nat /\ MaxDrops \in Nat /\ MaxFailures \in Nat

VARIABLES autoRejoin,  \* cfg.AutoRejoinOnKick
          link,      \* "down", "up" (not registered yet) or "registered"
          members,   \* the channels the server has this client in
          toServer, fromServer,  \* commands and events under way
          channels,  \* c.channels
          parting,   \* the channel of a call of Part that has sent PART, if any
          loop,      \* the goroutine of Connect
          attempt,   \* backoff.attempt
          connect,   \* the call of Connect
          shutting, leaving,  \* Agent.Shutdown was called; what it has yet to part
          quit,      \* Disconnect was called, or Connect was cancelled
          tries,     \* history: calls of Reconnect since the last 001
          left,      \* history: the channels Part was called for
          crossed,   \* history: their last JOIN was handled while Part was under way
          calls, kicks, refusals, drops, failures

server == <<link, members, toServer, fromServer>>
caller == <<shutting, leaving, left>>
client == <<autoRejoin, channels, parting, loop, attempt, connect, quit, tries,
            crossed, caller>>
counters == <<calls, kicks, refusals, drops, failures>>

vars == <<server, client, counters>>

\* A message about no channel in particular.
About(verb) == [verb |-> verb, channel |-> CHOOSE c \in Channels : TRUE]

Init ==
  /\ autoRejoin \in BOOLEAN
  /\ link = "down" /\ members = {} /\ toServer = <<>> /\ fromServer = <<>>
  /\ channels = {} /\ parting = {}
  /\ loop = "none" /\ connect = "idle" /\ quit = FALSE
  /\ attempt = 0 /\ tries = 0
  /\ shutting = FALSE /\ leaving = {} /\ left = {} /\ crossed = {}
  /\ calls = 0 /\ kicks = 0 /\ refusals = 0 /\ drops = 0 /\ failures = 0

\* conn.SendRaw and friends: on a connection that is down nothing is sent.
Send(commands) ==
  toServer' = IF link = "down" THEN toServer ELSE toServer \o commands

Commands(verb, set) == [i \in 1..Cardinality(set) |->
                          [verb |-> verb, channel |-> SetToSeq(set)[i]]]

-----------------------------------------------------------------------------
(***************************************************************************)
(* The server and the network.                                             *)
(***************************************************************************)
Welcomes ==
  /\ link = "up"
  /\ link' = "registered"
  /\ fromServer' = Append(fromServer, About("001"))
  /\ UNCHANGED <<members, toServer, client, counters>>

\* JOIN and PART change the membership and are echoed, unless they change nothing.
Obeys ==
  /\ toServer # <<>> /\ Head(toServer).verb # "QUIT"
  /\ LET c == Head(toServer).channel
         in == Head(toServer).verb = "JOIN"
     IN  IF (c \in members) = in
         THEN UNCHANGED <<members, fromServer>>
         ELSE /\ members' = IF in THEN members \cup {c} ELSE members \ {c}
              /\ fromServer' = Append(fromServer, Head(toServer))
  /\ toServer' = Tail(toServer)
  /\ UNCHANGED <<link, client, counters>>

\* A JOIN is refused (a ban, a key): there is no JOIN event.
Refuses ==
  /\ toServer # <<>> /\ Head(toServer).verb = "JOIN" /\ refusals < MaxRefusals
  /\ Head(toServer).channel \notin members
  /\ toServer' = Tail(toServer)
  /\ refusals' = refusals + 1
  /\ UNCHANGED <<link, members, fromServer, client, calls, kicks, drops, failures>>

Kicks(c) ==
  /\ c \in members /\ kicks < MaxKicks
  /\ members' = members \ {c}
  /\ fromServer' = Append(fromServer, [verb |-> "KICK", channel |-> c])
  /\ kicks' = kicks + 1
  /\ UNCHANGED <<link, toServer, client, calls, refusals, drops, failures>>

\* The connection is closed: what was under way is lost.
Closes ==
  /\ link' = "down" /\ members' = {} /\ toServer' = <<>> /\ fromServer' = <<>>
  /\ UNCHANGED <<client, calls, kicks, refusals, failures>>

ServerCloses ==
  toServer # <<>> /\ Head(toServer).verb = "QUIT" /\ Closes /\ UNCHANGED drops

Breaks == link # "down" /\ drops < MaxDrops /\ drops' = drops + 1 /\ Closes

-----------------------------------------------------------------------------
(***************************************************************************)
(* Connect.                                                                *)
(***************************************************************************)

\* conn.Connect succeeds, and the goroutine with the loop is started ...
Connect ==
  /\ connect = "idle"
  /\ connect' = "waiting" /\ link' = "up" /\ loop' = "looping"
  /\ UNCHANGED <<members, toServer, fromServer, autoRejoin, channels, parting,
                 attempt, quit, tries, crossed, caller, counters>>

\* ... or it fails.
ConnectFails ==
  /\ connect = "idle"
  /\ connect' = "failed"
  /\ UNCHANGED <<server, autoRejoin, channels, parting, loop, attempt, quit, tries,
                 crossed, caller, counters>>

ConnectReturns ==
  /\ connect = "ready"
  /\ connect' = "returned"
  /\ UNCHANGED <<server, autoRejoin, channels, parting, loop, attempt, quit, tries,
                 crossed, caller, counters>>

\* The context is cancelled: conn.Quit, and the error is returned.
ConnectCancelled ==
  /\ connect \in {"waiting", "ready"}
  /\ connect' = "failed"
  /\ quit' = TRUE
  /\ Send(<<About("QUIT")>>)
  /\ UNCHANGED <<link, members, fromServer, autoRejoin, channels, parting, loop,
                 attempt, tries, crossed, caller, counters>>

\* Mutant of GivesUp: one attempt too many.
GivesUpLate ==
  ~Reconnects \/ (MaxReconnectAttempts > 0 /\ attempt > MaxReconnectAttempts)

\* The loop ends instead of reconnecting.
GivesUp ==
  ~Reconnects \/ (MaxReconnectAttempts > 0 /\ attempt >= MaxReconnectAttempts)

\* conn.Loop has returned: the disconnect handlers run, then the loop ends or
\* takes the next delay from the backoff and sleeps.
LoopReturns ==
  /\ loop = "looping" /\ link = "down"
  /\ \/ /\ GivesUp
        /\ loop' = "stopped"
        /\ UNCHANGED attempt
     \/ /\ ~GivesUp
        /\ loop' = "sleeping"
        /\ attempt' = attempt + 1
  /\ UNCHANGED <<server, autoRejoin, channels, parting, connect, quit, tries,
                 crossed, caller, counters>>

\* The delay is over: conn.Reconnect succeeds, or fails and the loop goes on.
Reconnect ==
  /\ loop = "sleeping"
  /\ loop' = "looping" /\ link' = "up"
  /\ tries' = tries + 1
  /\ UNCHANGED <<members, toServer, fromServer, autoRejoin, channels, parting,
                 attempt, connect, quit, crossed, caller, counters>>

ReconnectFails ==
  /\ loop = "sleeping" /\ failures < MaxFailures
  /\ loop' = "looping"
  /\ tries' = tries + 1 /\ failures' = failures + 1
  /\ UNCHANGED <<server, autoRejoin, channels, parting, attempt, connect, quit,
                 crossed, caller, calls, kicks, refusals, drops>>

-----------------------------------------------------------------------------
(***************************************************************************)
(* The callbacks, in the order of the server's events.                     *)
(***************************************************************************)
Reads(verb) ==
  /\ fromServer # <<>> /\ Head(fromServer).verb = verb
  /\ fromServer' = Tail(fromServer)

\* Mutant of OnWelcome: the channels are joined the first time only.
OnFirstWelcome ==
  /\ Reads("001")
  /\ attempt' = 0 /\ tries' = 0
  /\ IF connect = "waiting" THEN Send(Commands("JOIN", Configured))
                            ELSE UNCHANGED toServer
  /\ connect' = IF connect = "waiting" THEN "ready" ELSE connect
  /\ UNCHANGED <<link, members, autoRejoin, channels, parting, loop, quit, crossed,
                 caller, counters>>

\* 001: the backoff starts again, the configured channels are joined, and Connect
\* is told when it is still waiting.
OnWelcome ==
  /\ Reads("001")
  /\ attempt' = 0 /\ tries' = 0
  /\ Send(Commands("JOIN", Configured))
  /\ connect' = IF connect = "waiting" THEN "ready" ELSE connect
  /\ UNCHANGED <<link, members, autoRejoin, channels, parting, loop, quit, crossed,
                 caller, counters>>

OnJoin ==
  /\ Reads("JOIN")
  /\ channels' = channels \cup {Head(fromServer).channel}
  /\ crossed' = IF Head(fromServer).channel \in parting
                THEN crossed \cup {Head(fromServer).channel}
                ELSE crossed \ {Head(fromServer).channel}
  /\ UNCHANGED <<link, members, toServer, autoRejoin, parting, loop, attempt, connect,
                 quit, tries, caller, counters>>

OnPart ==
  /\ Reads("PART")
  /\ channels' = channels \ {Head(fromServer).channel}
  /\ UNCHANGED <<link, members, toServer, autoRejoin, parting, loop, attempt, connect,
                 quit, tries, crossed, caller, counters>>

\* Mutant of OnKick: a channel that is not joined again keeps its entry.
OnKickForgets ==
  /\ Reads("KICK")
  /\ IF autoRejoin THEN Send(Commands("JOIN", {Head(fromServer).channel}))
                   ELSE UNCHANGED toServer
  /\ UNCHANGED <<link, members, client, counters>>

OnKick ==
  /\ Reads("KICK")
  /\ channels' = channels \ {Head(fromServer).channel}
  /\ IF autoRejoin THEN Send(Commands("JOIN", {Head(fromServer).channel}))
                   ELSE UNCHANGED toServer
  /\ UNCHANGED <<link, members, autoRejoin, parting, loop, attempt, connect, quit,
                 tries, crossed, caller, counters>>

-----------------------------------------------------------------------------
(***************************************************************************)
(* The application, once Connect has returned: Join and Part, and          *)
(* Agent.Shutdown, which parts what JoinedChannels names and disconnects.  *)
(***************************************************************************)
Join(c) ==
  /\ connect = "returned" /\ parting = {} /\ ~shutting /\ calls < MaxCalls
  /\ Send(Commands("JOIN", {c}))
  /\ calls' = calls + 1
  /\ UNCHANGED <<link, members, fromServer, client, kicks, refusals, drops, failures>>

\* Part sends PART, and deletes the entry under a lock it takes afterwards.
Part(c) ==
  /\ connect = "returned" /\ parting = {}
  /\ Send(Commands("PART", {c}))
  /\ parting' = {c} /\ left' = left \cup {c}
  /\ UNCHANGED <<link, members, fromServer, autoRejoin, channels, loop, attempt,
                 connect, quit, tries, crossed, shutting, kicks, refusals, drops,
                 failures>>

AppParts(c) ==
  /\ ~shutting /\ calls < MaxCalls
  /\ Part(c)
  /\ calls' = calls + 1
  /\ UNCHANGED leaving

PartDeletes ==
  /\ parting # {}
  /\ channels' = channels \ parting
  /\ parting' = {}
  /\ UNCHANGED <<server, autoRejoin, loop, attempt, connect, quit, tries, crossed,
                 caller, counters>>

Shutdown ==
  /\ connect = "returned" /\ parting = {} /\ ~shutting
  /\ shutting' = TRUE /\ leaving' = channels
  /\ UNCHANGED <<server, autoRejoin, channels, parting, loop, attempt, connect, quit,
                 tries, left, crossed, counters>>

ShutdownParts(c) ==
  /\ c \in leaving
  /\ Part(c)
  /\ leaving' = leaving \ {c}
  /\ UNCHANGED calls

Disconnect ==
  /\ shutting /\ leaving = {} /\ parting = {} /\ ~quit
  /\ quit' = TRUE
  /\ Send(<<About("QUIT")>>)
  /\ UNCHANGED <<link, members, fromServer, autoRejoin, channels, parting, loop,
                 attempt, connect, tries, crossed, caller, counters>>

Callback == OnWelcome \/ OnJoin \/ OnPart \/ OnKick

Next ==
  \/ Welcomes \/ Obeys \/ Refuses \/ ServerCloses \/ Breaks
  \/ \E c \in Channels : Kicks(c)
  \/ Connect \/ ConnectFails \/ ConnectReturns \/ ConnectCancelled
  \/ LoopReturns \/ Reconnect \/ ReconnectFails
  \/ OnWelcome \/ OnJoin \/ OnPart \/ OnKick
  \/ \E c \in Channels : Join(c) \/ AppParts(c) \/ ShutdownParts(c)
  \/ PartDeletes
  \/ Shutdown \/ Disconnect

\* The server answers, the goroutines of the library and of Connect run, and a
\* call of Part ends.
Fairness ==
  /\ WF_vars(Welcomes) /\ WF_vars(Obeys \/ Refuses \/ ServerCloses)
  /\ WF_vars(Callback) /\ WF_vars(LoopReturns)
  /\ WF_vars(Reconnect \/ ReconnectFails)
  /\ WF_vars(PartDeletes)

Spec == Init /\ [][Next]_vars /\ Fairness

-----------------------------------------------------------------------------
\* Registered, and everything said is handled.
Settled ==
  link = "registered" /\ toServer = <<>> /\ fromServer = <<>> /\ parting = {}

\* What JoinedChannels answers, once everything is handled, however Join, Part,
\* kicks, rejoins and broken connections cross.  A channel the client is in is
\* overlooked only when its last JOIN was handled between the PART that Part
\* sends and the entry it deletes; and only a connection that broke leaves an
\* entry for a channel it is not in.
ChannelsKnown ==
  Settled =>
    /\ members \subseteq channels \cup crossed
    /\ drops = 0 /\ ~quit => channels \subseteq members

\* client.go: "JoinedChannels returns the list of channels currently joined."
JoinedIsCurrent == Settled => channels = members

\* The loop never calls Reconnect more often than MaxReconnectAttempts without
\* having been registered in between, however connections and attempts fail.
AttemptsAreLimited ==
  MaxReconnectAttempts > 0 => tries <= MaxReconnectAttempts

\* An agent that is not shut down comes back to its configured channels, but those
\* it has parted, after every broken connection and failed attempt, and after
\* every kick if it rejoins, unless the server refuses it or the loop has given up.
ComesBack ==
  <>[](\/ connect \in {"idle", "failed"} \/ quit \/ loop = "stopped"
       \/ refusals > 0 \/ (kicks > 0 /\ ~autoRejoin)
       \/ Configured \ left \subseteq members \cap channels)

=============================================================================
