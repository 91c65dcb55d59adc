------------------------------- MODULE Manager --------------------------------
(***************************************************************************)
(* The manager's registry of agents (internal/manager/registry.go) and     *)
(* what writes it concurrently: HTTP handlers that spawn and stop agents   *)
(* (manager.go, server.go) through the local, ssh and docker spawners      *)
(* (internal/spawner), CAPABILITIES messages from the channel, and health  *)
(* polls.  Every method of the registry takes its lock, so each is a step; *)
(* a handler is a sequence of them with processes and commands in between. *)
(*                                                                         *)
(* A process is named after the request that started it.  Agents are given *)
(* a dashboard, and at most one poll per nick is under way.  Fields that   *)
(* are only displayed (capabilities, metrics, cost, times) are left out.   *)
(***************************************************************************)
EXTENDS Naturals

CONSTANTS Nicks,      \* the agents' nicks
          Requests,   \* the calls of the spawn and the stop handler
          Spawners,   \* m.spawners: some of "local", "ssh" and "docker"
          NoRequest,  \* no instance: the agent was not spawned here
          MaxFaults   \* the most commands that fail and clients that go away

ASSUME ManagerConstants ==
  /\ Spawners \subseteq {"local", "ssh", "docker"}
  /\ NoRequest \notin Requests
  /\ MaxFaults \in Nat

VARIABLES agents,     \* r.agents
          call,       \* the handlers
          proc,       \* the processes and containers that were started
          cancelled,  \* the requests whose context is done
          spoken,     \* nicks with a CAPABILITIES message under way
          poll,       \* pollSingleAgent, per nick
          faults      \* commands that failed and clients that went away

vars == <<agents, call, proc, cancelled, spoken, poll, faults>>

Status == {"absent", "starting", "running", "online", "stopping", "stopped"}

\* AgentRecord; "absent" when there is none.
AgentRecord == [status : Status, inst : Requests \cup {NoRequest}]
NoRecord == [status |-> "absent", inst |-> NoRequest]

\* A handler: where it is, whether it stops or with what it spawns, and the nick;
\* the instance StopAgent found; whether the spawned instance has a PID.
Call == [at : {"idle", "spawned", "found", "marked", "signalled", "killed", "done",
               "failed"},
         does : Spawners \cup {"stop"}, nick : Nicks,
         inst : Requests \cup {NoRequest}, pid : BOOLEAN]

Init ==
  /\ agents = [n \in Nicks |-> NoRecord]
  /\ call \in [Requests -> {c \in Call : c.at = "idle" /\ c.inst = NoRequest
                                          /\ c.pid}]
  /\ proc = [r \in Requests |-> "none"]
  /\ cancelled = {} /\ spoken = {} /\ faults = 0
  /\ poll = [n \in Nicks |-> "idle"]

Alive(r) == proc[r] \in {"running", "terminating"}

\* The running agents that speak as n.
AgentsOf(n) == {r \in Requests : call[r].nick = n /\ Alive(r)}

\* The spawner of the instance that a stop has found.
By(r) == call[call[r].inst].does

\* That instance's PID is known, to the ssh spawner.
HasPID(r) == call[call[r].inst].pid

\* The handler goes on, or it ends, and with it the context of its request.
Goes(r, at) == call' = [call EXCEPT ![r].at = at] /\ UNCHANGED cancelled
Ends(r, at) == call' = [call EXCEPT ![r].at = at] /\ cancelled' = cancelled \cup {r}

-----------------------------------------------------------------------------
(***************************************************************************)
(* The registry.                                                           *)
(***************************************************************************)

\* Mutant of Register: a record that discovery has created is kept.
RegisterNew(n, record) ==
  agents' = IF agents[n].status = "absent" THEN [agents EXCEPT ![n] = record]
                                           ELSE agents

Register(n, record) == agents' = [agents EXCEPT ![n] = record]

UpdateStatus(n, status) ==
  agents' = IF agents[n].status = "absent" THEN agents
                                           ELSE [agents EXCEPT ![n].status = status]

UpdateFromDiscovery(n) ==
  agents' = [agents EXCEPT ![n].status = IF @ = "stopping" THEN @ ELSE "online"]

\* UpdateHealth, when the agent is healthy.
UpdateHealth(n) == UpdateStatus(n, "online")

-----------------------------------------------------------------------------
(***************************************************************************)
(* POST /api/agents/spawn: SpawnAgent with the context of the request.     *)
(***************************************************************************)

\* docker run --name needs a name that no container has, running or exited.
NameTaken(n) ==
  \E q \in Requests : /\ call[q].nick = n /\ call[q].does = "docker"
                      /\ proc[q] \notin {"none", "removed"}

Spawn(r) ==
  /\ call[r].at = "idle" /\ call[r].does # "stop"
  /\ call[r].does = "docker" => ~NameTaken(call[r].nick)
  /\ proc' = [proc EXCEPT ![r] = "running"]
  /\ Goes(r, "spawned")
  /\ UNCHANGED <<agents, spoken, poll, faults>>

\* The ssh spawner cannot read the PID, because ssh has printed something else.
SpawnUnread(r) ==
  /\ call[r].at = "idle" /\ call[r].does = "ssh" /\ faults < MaxFaults
  /\ proc' = [proc EXCEPT ![r] = "running"]
  /\ call' = [call EXCEPT ![r].at = "spawned", ![r].pid = FALSE]
  /\ faults' = faults + 1
  /\ UNCHANGED <<agents, cancelled, spoken, poll>>

\* ssh or docker fails, or is killed, after it has started the agent: an error is
\* returned and no instance is kept.  A container may exist without running.
SpawnLost(r) ==
  /\ call[r].at = "idle" /\ call[r].does \in {"ssh", "docker"} /\ faults < MaxFaults
  /\ call[r].does = "docker" => ~NameTaken(call[r].nick)
  /\ \/ proc' = [proc EXCEPT ![r] = "running"]
     \/ call[r].does = "docker" /\ proc' = [proc EXCEPT ![r] = "exited"]
  /\ Ends(r, "failed")
  /\ faults' = faults + 1
  /\ UNCHANGED <<agents, spoken, poll>>

\* PreSpawn or Spawn returns an error.
SpawnFails(r) ==
  /\ call[r].at = "idle" /\ call[r].does # "stop"
  /\ Ends(r, "failed")
  /\ UNCHANGED <<agents, proc, spoken, poll, faults>>

\* What PostSpawn may leave as the status of the instance: the local spawner polls
\* the new dashboard and gives up when the request is cancelled meanwhile.
PostSpawn(r) == IF call[r].does = "local" /\ r \in cancelled
                THEN {"starting", "running"} ELSE {"running"}

Registers(r) ==
  /\ call[r].at = "spawned"
  /\ \E status \in PostSpawn(r) :
       Register(call[r].nick, [status |-> status, inst |-> r])
  /\ Ends(r, "done")
  /\ UNCHANGED <<proc, spoken, poll, faults>>

-----------------------------------------------------------------------------
(***************************************************************************)
(* POST /api/agents/{nick}/stop: StopAgent.                                *)
(***************************************************************************)

\* registry.Get: a copy, from which the instance is used until the end.
StopFinds(r) ==
  /\ call[r].at = "idle" /\ call[r].does = "stop"
  /\ agents[call[r].nick].inst # NoRequest
  /\ call' = [call EXCEPT ![r].at = "found", ![r].inst = agents[call[r].nick].inst]
  /\ UNCHANGED <<agents, proc, cancelled, spoken, poll, faults>>

StopFindsNone(r) ==
  /\ call[r].at = "idle" /\ call[r].does = "stop"
  /\ agents[call[r].nick].inst = NoRequest
  /\ Ends(r, "failed")
  /\ UNCHANGED <<agents, proc, spoken, poll, faults>>

MarksStopping(r) ==
  /\ call[r].at = "found"
  /\ UpdateStatus(call[r].nick, "stopping")
  /\ Goes(r, "marked")
  /\ UNCHANGED <<proc, spoken, poll, faults>>

\* An external command works unless its context is done, or it fails.
Works(r) == r \notin cancelled /\ UNCHANGED faults
Breaks(r) == \/ r \in cancelled /\ UNCHANGED faults
             \/ faults < MaxFaults /\ faults' = faults + 1

\* PreStop: SIGTERM from the local spawner, and from the ssh spawner if it knows
\* the PID; nothing from the docker spawner.
Terminated(inst) ==
  [proc EXCEPT ![inst] = IF @ = "running" THEN "terminating" ELSE @]

PreStopLocally(r) ==
  /\ call[r].at = "marked" /\ By(r) = "local"
  /\ proc' = Terminated(call[r].inst)
  /\ Goes(r, "signalled")
  /\ UNCHANGED <<agents, spoken, poll, faults>>

PreStopRemotely(r) ==
  /\ call[r].at = "marked" /\ By(r) = "ssh"
  /\ \/ HasPID(r) /\ Works(r) /\ proc' = Terminated(call[r].inst)
     \/ HasPID(r) /\ Breaks(r) /\ UNCHANGED proc
     \/ ~HasPID(r) /\ UNCHANGED <<proc, faults>>
  /\ Goes(r, "signalled")
  /\ UNCHANGED <<agents, spoken, poll>>

PreStopContainer(r) ==
  /\ call[r].at = "marked" /\ By(r) = "docker"
  /\ Goes(r, "signalled")
  /\ UNCHANGED <<agents, proc, spoken, poll, faults>>

\* Stop of the local spawner: it waits for the process to exit ...
StopWaited(r) ==
  /\ call[r].at = "signalled" /\ By(r) = "local"
  /\ ~Alive(call[r].inst)
  /\ Goes(r, "killed")
  /\ UNCHANGED <<agents, proc, spoken, poll, faults>>

\* ... until the request is cancelled, and the record is left "stopping" ...
StopCancelled(r) ==
  /\ call[r].at = "signalled" /\ By(r) = "local" /\ r \in cancelled
  /\ Ends(r, "failed")
  /\ UNCHANGED <<agents, proc, spoken, poll, faults>>

\* Mutant of StopKills: after the deadline the process is taken for dead.
StopAssumes(r) ==
  /\ call[r].at = "signalled" /\ By(r) = "local"
  /\ Goes(r, "killed")
  /\ UNCHANGED <<agents, proc, spoken, poll, faults>>

\* ... or the deadline has passed: SIGKILL.
StopKills(r) ==
  /\ call[r].at = "signalled" /\ By(r) = "local"
  /\ proc' = [proc EXCEPT ![call[r].inst] = "exited"]
  /\ Goes(r, "killed")
  /\ UNCHANGED <<agents, spoken, poll, faults>>

\* Mutant of StopRemotely: it tries until the command works.
StopRetries(r) ==
  /\ call[r].at = "signalled" /\ By(r) = "ssh"
  /\ HasPID(r) /\ Works(r) /\ proc' = [proc EXCEPT ![call[r].inst] = "exited"]
  /\ Goes(r, "killed")
  /\ UNCHANGED <<agents, spoken, poll>>

\* Stop of the ssh spawner: kill -KILL if kill -0 finds the process.  The errors
\* of both commands are ignored, and without a PID there is nothing to do.
StopRemotely(r) ==
  /\ call[r].at = "signalled" /\ By(r) = "ssh"
  /\ \/ HasPID(r) /\ Works(r) /\ proc' = [proc EXCEPT ![call[r].inst] = "exited"]
     \/ HasPID(r) /\ Breaks(r) /\ UNCHANGED proc
     \/ ~HasPID(r) /\ UNCHANGED <<proc, faults>>
  /\ Goes(r, "killed")
  /\ UNCHANGED <<agents, spoken, poll>>

\* Stop of the docker spawner: docker stop, then docker rm, errors ignored.  A
\* container that runs cannot be removed.
StopContainer(r) ==
  LET inst == call[r].inst
  IN
  /\ call[r].at = "signalled" /\ By(r) = "docker"
  /\ \/ Works(r) /\ proc' = [proc EXCEPT ![inst] = "removed"]
     \/ Breaks(r) /\ UNCHANGED proc
     \/ Breaks(r) /\ proc[inst] # "removed" /\ proc' = [proc EXCEPT ![inst] = "exited"]
     \/ Breaks(r) /\ proc[inst] = "exited" /\ proc' = [proc EXCEPT ![inst] = "removed"]
  /\ Goes(r, "killed")
  /\ UNCHANGED <<agents, spoken, poll>>

\* PostStop does nothing.
MarksStopped(r) ==
  /\ call[r].at = "killed"
  /\ UpdateStatus(call[r].nick, "stopped")
  /\ Ends(r, "done")
  /\ UNCHANGED <<proc, spoken, poll, faults>>

-----------------------------------------------------------------------------
(***************************************************************************)
(* The channel and the polls.                                              *)
(***************************************************************************)

\* An agent sends CAPABILITIES: one that was spawned here, or another one.
Speaks(n) ==
  /\ n \notin spoken
  /\ AgentsOf(n) # {} \/ \A r \in Requests : call[r].nick # n \/ proc[r] = "none"
  /\ spoken' = spoken \cup {n}
  /\ UNCHANGED <<agents, call, proc, cancelled, poll, faults>>

HandleCapabilities(n) ==
  /\ n \in spoken
  /\ spoken' = spoken \ {n}
  /\ UpdateFromDiscovery(n)
  /\ UNCHANGED <<call, proc, cancelled, poll, faults>>

\* The poll loop lists the records and starts a goroutine for each that has a
\* dashboard, which are the spawned ones.
PollSingleAgent(n) ==
  /\ poll[n] = "idle" /\ agents[n].inst # NoRequest
  /\ poll' = [poll EXCEPT ![n] = "asked"]
  /\ UNCHANGED <<agents, call, proc, cancelled, spoken, faults>>

\* The dashboard says that the agent is healthy ...
Answers(n) ==
  /\ poll[n] = "asked" /\ AgentsOf(n) # {}
  /\ poll' = [poll EXCEPT ![n] = "healthy"]
  /\ UNCHANGED <<agents, call, proc, cancelled, spoken, faults>>

\* ... or that it is not, which is only displayed, or the request fails.
PollFails(n) ==
  /\ poll[n] = "asked"
  /\ poll' = [poll EXCEPT ![n] = "idle"]
  /\ UNCHANGED <<agents, call, proc, cancelled, spoken, faults>>

PollDone(n) ==
  /\ poll[n] = "healthy"
  /\ UpdateHealth(n)
  /\ poll' = [poll EXCEPT ![n] = "idle"]
  /\ UNCHANGED <<call, proc, cancelled, spoken, faults>>

-----------------------------------------------------------------------------
(***************************************************************************)
(* Clients, processes, and exec.CommandContext, which kills a process that *)
(* was started with a context once that is done.                           *)
(***************************************************************************)
ClientLeaves(r) ==
  /\ call[r].at \notin {"idle", "done", "failed"} /\ r \notin cancelled
  /\ faults < MaxFaults /\ faults' = faults + 1
  /\ cancelled' = cancelled \cup {r}
  /\ UNCHANGED <<agents, call, proc, spoken, poll>>

Exits(r) ==
  /\ Alive(r)
  /\ proc' = [proc EXCEPT ![r] = "exited"]
  /\ UNCHANGED <<agents, call, cancelled, spoken, poll, faults>>

ContextKills(r) ==
  /\ r \in cancelled /\ call[r].does = "local"
  /\ Exits(r)

Stops(r) ==
  \/ StopFinds(r) \/ StopFindsNone(r) \/ MarksStopping(r)
  \/ PreStopLocally(r) \/ PreStopRemotely(r) \/ PreStopContainer(r)
  \/ StopWaited(r) \/ StopCancelled(r) \/ StopKills(r)
  \/ StopRemotely(r) \/ StopContainer(r) \/ MarksStopped(r)

Next ==
  \/ \E r \in Requests :
       \/ Spawn(r) \/ SpawnUnread(r) \/ SpawnLost(r) \/ SpawnFails(r) \/ Registers(r)
       \/ StopFinds(r) \/ StopFindsNone(r) \/ MarksStopping(r)
       \/ PreStopLocally(r) \/ PreStopRemotely(r) \/ PreStopContainer(r)
       \/ StopWaited(r) \/ StopCancelled(r) \/ StopKills(r)
       \/ StopRemotely(r) \/ StopContainer(r) \/ MarksStopped(r)
       \/ ClientLeaves(r) \/ Exits(r) \/ ContextKills(r)
  \/ \E n \in Nicks :
       \/ Speaks(n) \/ HandleCapabilities(n)
       \/ PollSingleAgent(n) \/ Answers(n) \/ PollFails(n) \/ PollDone(n)

\* The stop runs ssh or docker, which has no deadline of its own: nothing but the
\* end of the request's context makes sure that it returns.
MayHang(r) ==
  /\ r \notin cancelled
  /\ \/ call[r].at \in {"marked", "signalled"} /\ By(r) = "ssh" /\ HasPID(r)
     \/ call[r].at = "signalled" /\ By(r) = "docker"

\* A handler that was entered goes on, except while a command hangs; a killed
\* process ends.
Fairness ==
  /\ \A r \in Requests :
       /\ WF_vars(Registers(r))
       /\ WF_vars(call[r].at # "idle" /\ ~MayHang(r) /\ Stops(r))
       /\ WF_vars(ContextKills(r))

Spec == Init /\ [][Next]_vars /\ Fairness

-----------------------------------------------------------------------------
SpawnsOf(n) == {r \in Requests : call[r].nick = n /\ proc[r] # "none"}

\* "stopped" is true: when no command failed, no client left and the nick was
\* spawned once, a record that says stopped has no process that runs, whichever
\* spawner, and however polls, CAPABILITIES and a second stop came in between.
StoppedIsDead ==
  \A n \in Nicks :
    /\ agents[n].status = "stopped" /\ faults = 0
    /\ \A q, r \in SpawnsOf(n) : q = r
    => ~Alive(agents[n].inst)

\* An agent that SpawnAgent has reported can be stopped: as long as it runs its
\* record names it, unless the same nick was spawned again, however the agent's
\* own CAPABILITIES and polls race with the registration.
SpawnedIsStoppable ==
  \A r \in Requests :
    call[r].at = "done" /\ Alive(r)
      => \E q \in SpawnsOf(call[r].nick) : agents[call[r].nick].inst = q

\* Every stop of a local agent that has begun ends, whatever the process does; and
\* every stop of any agent ends once its client has left, although the command
\* fails or the PID is not known.  (ssh and docker commands have no deadline: a
\* stop whose client stays may wait for one forever.)
StopsEnd ==
  \A r \in Requests :
    call[r].at \in {"found", "marked", "signalled"} /\ (By(r) = "local" \/ r \in cancelled)
      ~> call[r].at \in {"done", "failed"}

=============================================================================
