---------------------------- MODULE ManagerProofs -----------------------------
(***************************************************************************)
(* What the manager's registry guarantees for any nicks, requests and      *)
(* spawners.                                                               *)
(***************************************************************************)
EXTENDS Manager, TLAPS

ProcState == {"none", "running", "terminating", "exited", "removed"}

Types ==
  /\ agents \in [Nicks -> AgentRecord]
  /\ call \in [Requests -> Call]
  /\ proc \in [Requests -> ProcState]
  /\ cancelled \subseteq Requests
  /\ faults \in Nat

\* Where a handler is.
Place == {"idle", "spawned", "found", "marked", "signalled", "killed", "done", "failed"}

\* Where StopAgent is between Get and its last update.
Stopping == {"found", "marked", "signalled", "killed"}

\* A process belongs to a request that spawns; what is registered, or found by a
\* stop, was spawned under that nick; a record keeps an instance once it has one.
SpawnInv ==
  /\ \A r \in Requests :
       /\ proc[r] # "none" => call[r].does # "stop" /\ call[r].at \in {"spawned", "done", "failed"}
       /\ call[r].at = "spawned" => call[r].does # "stop" /\ proc[r] # "none"
       /\ call[r].at = "done" /\ call[r].does # "stop" => agents[call[r].nick].inst # NoRequest
       /\ call[r].at \in Stopping => /\ call[r].does = "stop"
                                     /\ call[r].inst \in SpawnsOf(call[r].nick)
                                     /\ agents[call[r].nick].inst # NoRequest
  /\ \A n \in Nicks :
       /\ agents[n].inst # NoRequest => agents[n].inst \in SpawnsOf(n)
       /\ agents[n].status = "stopped" => agents[n].inst # NoRequest

\* While nothing has failed and nobody has left: requests are cancelled when they
\* are over, PIDs are known, and a stop that has killed its process has done so.
DeadInv ==
  faults = 0 =>
    /\ \A r \in Requests :
         /\ r \in cancelled => call[r].at \in {"done", "failed"}
         /\ call[r].pid
         /\ call[r].at = "killed" => ~Alive(call[r].inst)
    /\ \A n \in Nicks :
         agents[n].status = "stopped" => \E q \in SpawnsOf(n) : ~Alive(q)

IInv == Types /\ SpawnInv /\ DeadInv

-----------------------------------------------------------------------------
\* The handler of request r goes from one place to another.
LEMMA CallMoves ==
  ASSUME Types, NEW r \in Requests, NEW at \in Place,
         call' = [call EXCEPT ![r].at = at]
  PROVE  /\ call' \in [Requests -> Call]
         /\ \A q \in Requests : /\ call'[q].nick = call[q].nick
                                /\ call'[q].does = call[q].does
                                /\ call'[q].inst = call[q].inst
                                /\ call'[q].pid = call[q].pid
                                /\ call'[q].at = IF q = r THEN at ELSE call[q].at
<1>1. call[r] \in Call /\ [call[r] EXCEPT !.at = at] \in Call
  BY DEF Types, Call, Place
<1>2. call' = [call EXCEPT ![r] = [call[r] EXCEPT !.at = at]]
  BY DEF Types
<1>3. /\ call' \in [Requests -> Call]
      /\ call'[r] = [call[r] EXCEPT !.at = at]
      /\ \A q \in Requests \ {r} : call'[q] = call[q]
  BY <1>1, <1>2 DEF Types
<1> QED BY <1>1, <1>3 DEF Call

\* A record changes in the status only, or gets an instance and a status.
LEMMA RecordChanges ==
  ASSUME Types, NEW n \in Nicks, NEW status \in Status,
         agents' = [agents EXCEPT ![n].status = status]
  PROVE  /\ agents' \in [Nicks -> AgentRecord]
         /\ \A k \in Nicks : /\ agents'[k].inst = agents[k].inst
                             /\ agents'[k].status = IF k = n THEN status ELSE agents[k].status
<1>1. agents[n] \in AgentRecord /\ [agents[n] EXCEPT !.status = status] \in AgentRecord
  BY DEF Types, AgentRecord
<1>2. agents' = [agents EXCEPT ![n] = [agents[n] EXCEPT !.status = status]]
  BY DEF Types
<1> QED BY <1>1, <1>2 DEF Types, AgentRecord

\* UpdateStatus changes the status of a record that is there.
LEMMA StatusChanges ==
  ASSUME Types, NEW n \in Nicks, NEW status \in Status, UpdateStatus(n, status)
  PROVE  /\ agents' \in [Nicks -> AgentRecord]
         /\ \A k \in Nicks : /\ agents'[k].inst = agents[k].inst
                             /\ \/ agents'[k].status = agents[k].status
                                \/ k = n /\ agents'[k].status = status
<1>1. CASE agents[n].status = "absent"
  BY <1>1 DEF Types, UpdateStatus
<1>2. CASE agents[n].status # "absent"
  <2>1. agents' = [agents EXCEPT ![n].status = status]
    BY <1>2 DEF UpdateStatus
  <2>2. /\ agents' \in [Nicks -> AgentRecord]
        /\ \A k \in Nicks : /\ agents'[k].inst = agents[k].inst
                            /\ agents'[k].status = IF k = n THEN status ELSE agents[k].status
    BY <2>1, RecordChanges, Zenon
  <2> QED BY <2>2
<1> QED BY <1>1, <1>2

-----------------------------------------------------------------------------
(***************************************************************************)
(* Steps that spawn nothing and register nothing.                          *)
(***************************************************************************)

\* Handlers go on as a stop does, or give up at once; they are cancelled when they
\* end or when a client leaves.
CallsGoOn ==
  /\ call' \in [Requests -> Call]
  /\ \A q \in Requests :
       /\ call'[q].nick = call[q].nick /\ call'[q].does = call[q].does
       /\ call'[q].inst = call[q].inst /\ call'[q].pid = call[q].pid
       /\ \/ call'[q].at = call[q].at
          \/ call[q].at \in Stopping /\ call'[q].at \in Stopping \cup {"done", "failed"}
          \/ call[q].at = "idle" /\ call'[q].at = "failed"
       /\ call'[q].at = "killed" =>
            \/ call[q].at = "killed"
            \/ faults' # 0
            \/ proc'[call[q].inst] \notin {"running", "terminating"}
       /\ q \in cancelled' =>
            q \in cancelled \/ call'[q].at \in {"done", "failed"} \/ faults' # 0
  /\ cancelled' \subseteq Requests
  /\ faults' \in Nat /\ (faults' = 0 => faults = 0)

\* No process begins, and none comes back.
ProcsGoOn ==
  /\ proc' \in [Requests -> ProcState]
  /\ \A q \in Requests :
       /\ proc'[q] = "none" <=> proc[q] = "none"
       /\ proc'[q] \in {"running", "terminating"} => proc[q] \in {"running", "terminating"}

\* Records keep their instance; one becomes stopped only from a stop that has
\* killed.
RecordsGoOn ==
  /\ agents' \in [Nicks -> AgentRecord]
  /\ \A n \in Nicks :
       /\ agents'[n].inst = agents[n].inst
       /\ \/ agents'[n].status = "stopped" => agents[n].status = "stopped"
          \/ \E q \in Requests : call[q].at = "killed" /\ call[q].nick = n

LEMMA GoesOn ==
  ASSUME IInv, CallsGoOn, ProcsGoOn, RecordsGoOn
  PROVE  IInv'
<1>1. Types'
  BY DEF IInv, Types, CallsGoOn, ProcsGoOn, RecordsGoOn
<1>2. \A n \in Nicks : SpawnsOf(n)' = SpawnsOf(n)
  BY DEF SpawnsOf, CallsGoOn, ProcsGoOn
<1>3. SpawnInv'
  <2>1. ASSUME NEW q \in Requests
        PROVE /\ proc'[q] # "none" => call'[q].does # "stop" /\ call'[q].at \in {"spawned", "done", "failed"}
              /\ call'[q].at = "spawned" => call'[q].does # "stop" /\ proc'[q] # "none"
              /\ call'[q].at = "done" /\ call'[q].does # "stop" => agents'[call'[q].nick].inst # NoRequest
              /\ call'[q].at \in Stopping => /\ call'[q].does = "stop"
                                            /\ call'[q].inst \in SpawnsOf(call[q].nick)
                                            /\ agents'[call'[q].nick].inst # NoRequest
    BY DEF IInv, Types, SpawnInv, CallsGoOn, ProcsGoOn, RecordsGoOn, Stopping, Call
  <2>2. ASSUME NEW n \in Nicks
        PROVE /\ agents'[n].inst # NoRequest => agents'[n].inst \in SpawnsOf(n)
              /\ agents'[n].status = "stopped" => agents'[n].inst # NoRequest
    BY DEF IInv, SpawnInv, RecordsGoOn, Stopping
  <2>3. \A q \in Requests : call'[q].nick = call[q].nick /\ call[q].nick \in Nicks
    BY DEF CallsGoOn, IInv, Types, Call
  <2> QED BY <1>2, <2>1, <2>2, <2>3 DEF SpawnInv
<1>4. DeadInv'
  <2> SUFFICES ASSUME faults' = 0
      PROVE /\ \A q \in Requests :
                 /\ q \in cancelled' => call'[q].at \in {"done", "failed"}
                 /\ call'[q].pid
                 /\ call'[q].at = "killed" => ~Alive(call[q].inst)'
            /\ \A n \in Nicks :
                 agents'[n].status = "stopped" => \E q \in SpawnsOf(n) : ~Alive(q)'
    BY <1>2 DEF DeadInv, CallsGoOn, Alive
  <2>1. faults = 0
    BY DEF CallsGoOn
  <2>2. ASSUME NEW q \in Requests
        PROVE /\ q \in cancelled' => call'[q].at \in {"done", "failed"}
              /\ call'[q].pid
    BY <2>1 DEF CallsGoOn, IInv, DeadInv, Stopping
  <2>3. ASSUME NEW q \in Requests, call'[q].at = "killed"
        PROVE ~Alive(call[q].inst)'
    <3>1. CASE call[q].at = "killed"
      <4>1. call[q].inst \in Requests /\ ~Alive(call[q].inst)
        BY <2>1, <3>1 DEF IInv, SpawnInv, DeadInv, Stopping, SpawnsOf
      <4> QED BY <4>1 DEF CallsGoOn, ProcsGoOn, Alive
    <3>2. CASE call[q].at # "killed"
      <4>1. proc'[call[q].inst] \notin {"running", "terminating"} /\ call'[q].inst = call[q].inst
        BY <2>3, <3>2 DEF CallsGoOn
      <4> QED BY <4>1 DEF Alive
    <3> QED BY <3>1, <3>2
  <2>4. ASSUME NEW n \in Nicks, agents'[n].status = "stopped"
        PROVE \E q \in SpawnsOf(n) : ~Alive(q)'
    <3>1. \E q \in SpawnsOf(n) : ~Alive(q)
      <4>1. CASE agents[n].status = "stopped"
        BY <2>1, <4>1 DEF IInv, DeadInv
      <4>2. CASE \E q \in Requests : call[q].at = "killed" /\ call[q].nick = n
        BY <2>1, <4>2 DEF IInv, DeadInv, SpawnInv, Stopping
      <4> QED BY <2>4, <4>1, <4>2 DEF RecordsGoOn
    <3> QED BY <3>1 DEF SpawnsOf, Alive, ProcsGoOn
  <2> QED BY <2>2, <2>3, <2>4
<1> QED BY <1>1, <1>3, <1>4 DEF IInv

-----------------------------------------------------------------------------
\* The steps of StopAgent.
LEMMA StopKeeps ==
  ASSUME IInv, NEW r \in Requests, Stops(r), ~StopFinds(r)
  PROVE  IInv'
<1>1. ASSUME NEW at \in Place, call' = [call EXCEPT ![r].at = at]
      PROVE  /\ call' \in [Requests -> Call]
             /\ \A q \in Requests : /\ call'[q].nick = call[q].nick
                                    /\ call'[q].does = call[q].does
                                    /\ call'[q].inst = call[q].inst
                                    /\ call'[q].pid = call[q].pid
                                    /\ call'[q].at = IF q = r THEN at ELSE call[q].at
  BY <1>1, CallMoves, Zenon DEF IInv
<1>2. ASSUME NEW inst \in Requests, proc[inst] # "none", NEW state \in ProcState,
             state # "none",
             state \in {"running", "terminating"} => proc[inst] \in {"running", "terminating"},
             proc' = [proc EXCEPT ![inst] = state]
      PROVE  ProcsGoOn /\ proc'[inst] = state
  BY <1>2 DEF ProcsGoOn, IInv, Types
<1>3. call[r].at \in Stopping => call[r].inst \in Requests /\ proc[call[r].inst] # "none"
  BY DEF IInv, SpawnInv, SpawnsOf
<1>4. UNCHANGED proc => ProcsGoOn
  BY DEF ProcsGoOn, IInv, Types
<1>5. UNCHANGED agents => RecordsGoOn
  BY DEF RecordsGoOn, IInv, Types
<1>6. CASE MarksStopping(r)
  <2>1. call' = [call EXCEPT ![r].at = "marked"] /\ call[r].at = "found"
    BY <1>6 DEF MarksStopping, Goes
  <2>2. CallsGoOn
    BY <1>1, <1>6, <2>1 DEF CallsGoOn, MarksStopping, Goes, Stopping, Place, IInv, Types
  <2>3. RecordsGoOn
    BY <1>6, <2>1, StatusChanges DEF MarksStopping, RecordsGoOn, IInv, Types, Call, Status
  <2> QED BY <1>4, <2>2, <2>3, <1>6, GoesOn DEF MarksStopping
<1>7. CASE PreStopLocally(r)
  <2>1. call' = [call EXCEPT ![r].at = "signalled"] /\ call[r].at = "marked"
    BY <1>7 DEF PreStopLocally, Goes
  <2>2. CallsGoOn
    BY <1>1, <1>7, <2>1 DEF CallsGoOn, PreStopLocally, Goes, Stopping, Place, IInv, Types
  <2>3. ProcsGoOn
    BY <1>3, <1>7 DEF PreStopLocally, Terminated, ProcsGoOn, ProcState, IInv, Types, Stopping
  <2> QED BY <1>5, <2>2, <2>3, <1>7, GoesOn DEF PreStopLocally
<1>8. CASE PreStopRemotely(r)
  <2>1. call' = [call EXCEPT ![r].at = "signalled"] /\ call[r].at = "marked"
    BY <1>8 DEF PreStopRemotely, Goes
  <2>2. faults' \in Nat /\ (faults' = 0 => faults = 0)
    BY <1>8 DEF PreStopRemotely, Works, Breaks, IInv, Types
  <2>3. CallsGoOn
    BY <1>1, <1>8, <2>1, <2>2 DEF CallsGoOn, PreStopRemotely, Goes, Stopping, Place, IInv, Types
  <2>4. UNCHANGED proc \/ proc' = Terminated(call[r].inst)
    BY <1>8 DEF PreStopRemotely
  <2>5. ProcsGoOn
    BY <1>3, <1>4, <2>1, <2>4 DEF Terminated, ProcsGoOn, ProcState, IInv, Types, Stopping
  <2> QED BY <1>5, <2>3, <2>5, <1>8, GoesOn DEF PreStopRemotely
<1>9. CASE PreStopContainer(r)
  <2>1. call' = [call EXCEPT ![r].at = "signalled"] /\ call[r].at = "marked"
    BY <1>9 DEF PreStopContainer, Goes
  <2>2. CallsGoOn
    BY <1>1, <1>9, <2>1 DEF CallsGoOn, PreStopContainer, Goes, Stopping, Place, IInv, Types
  <2> QED BY <1>4, <1>5, <2>2, <1>9, GoesOn DEF PreStopContainer
<1>10. CASE StopWaited(r)
  <2>1. call' = [call EXCEPT ![r].at = "killed"] /\ call[r].at = "signalled"
    BY <1>10 DEF StopWaited, Goes
  <2>2. proc'[call[r].inst] \notin {"running", "terminating"}
    BY <1>10 DEF StopWaited, Alive
  <2>3. CallsGoOn
    BY <1>1, <1>10, <2>1, <2>2 DEF CallsGoOn, StopWaited, Goes, Stopping, Place, IInv, Types
  <2> QED BY <1>4, <1>5, <2>3, <1>10, GoesOn DEF StopWaited
<1>11. CASE StopCancelled(r)
  <2>1. call' = [call EXCEPT ![r].at = "failed"] /\ call[r].at = "signalled"
    BY <1>11 DEF StopCancelled, Ends
  <2>2. CallsGoOn
    BY <1>1, <1>11, <2>1 DEF CallsGoOn, StopCancelled, Ends, Stopping, Place, IInv, Types
  <2> QED BY <1>4, <1>5, <2>2, <1>11, GoesOn DEF StopCancelled
<1>12. CASE StopKills(r)
  <2>1. call' = [call EXCEPT ![r].at = "killed"] /\ call[r].at = "signalled"
    BY <1>12 DEF StopKills, Goes
  <2>2. ProcsGoOn /\ proc'[call[r].inst] = "exited"
    BY <1>2, <1>3, <1>12, <2>1 DEF StopKills, ProcState, Stopping
  <2>3. CallsGoOn
    BY <1>1, <1>12, <2>1, <2>2 DEF CallsGoOn, StopKills, Goes, Stopping, Place, IInv, Types
  <2> QED BY <1>5, <2>2, <2>3, <1>12, GoesOn DEF StopKills
<1>13. CASE StopRemotely(r)
  <2>1. call' = [call EXCEPT ![r].at = "killed"] /\ call[r].at = "signalled"
    BY <1>13 DEF StopRemotely, Goes
  <2>2. faults' \in Nat /\ (faults' = 0 => faults = 0)
    BY <1>13 DEF StopRemotely, Works, Breaks, IInv, Types
  <2>3. faults' = 0 => r \notin cancelled /\ call[call[r].inst].pid
    BY <2>1, <2>2 DEF IInv, DeadInv, SpawnInv, SpawnsOf, Stopping
  <2>4. UNCHANGED proc \/ \E state \in {"exited", "removed"} : proc' = [proc EXCEPT ![call[r].inst] = state]
    BY <1>13 DEF StopRemotely
  <2>5. ProcsGoOn
    BY <1>2, <1>3, <1>4, <2>1, <2>4 DEF ProcState, Stopping
  <2>6. faults' = 0 => proc'[call[r].inst] \in {"exited", "removed"}
    BY <1>3, <1>13, <2>1, <2>2, <2>3 DEF StopRemotely, Works, Breaks, HasPID, Stopping, IInv, Types
  <2>7. CallsGoOn
    BY <1>1, <1>13, <2>1, <2>2, <2>6 DEF CallsGoOn, StopRemotely, Goes, Stopping, Place, IInv, Types
  <2> QED BY <1>5, <2>5, <2>7, <1>13, GoesOn DEF StopRemotely
<1>14. CASE StopContainer(r)
  <2>1. call' = [call EXCEPT ![r].at = "killed"] /\ call[r].at = "signalled"
    BY <1>14 DEF StopContainer, Goes
  <2>2. faults' \in Nat /\ (faults' = 0 => faults = 0)
    BY <1>14 DEF StopContainer, Works, Breaks, IInv, Types
  <2>3. faults' = 0 => r \notin cancelled
    BY <2>1, <2>2 DEF IInv, DeadInv, SpawnInv, SpawnsOf, Stopping
  <2>4. UNCHANGED proc \/ \E state \in {"exited", "removed"} : proc' = [proc EXCEPT ![call[r].inst] = state]
    BY <1>14 DEF StopContainer
  <2>5. ProcsGoOn
    BY <1>2, <1>3, <1>4, <2>1, <2>4 DEF ProcState, Stopping
  <2>6. faults' = 0 => proc'[call[r].inst] \in {"exited", "removed"}
    BY <1>3, <1>14, <2>1, <2>2, <2>3 DEF StopContainer, Works, Breaks, HasPID, Stopping, IInv, Types
  <2>7. CallsGoOn
    BY <1>1, <1>14, <2>1, <2>2, <2>6 DEF CallsGoOn, StopContainer, Goes, Stopping, Place, IInv, Types
  <2> QED BY <1>5, <2>5, <2>7, <1>14, GoesOn DEF StopContainer
<1>15. CASE MarksStopped(r)
  <2>1. call' = [call EXCEPT ![r].at = "done"] /\ call[r].at = "killed"
    BY <1>15 DEF MarksStopped, Ends
  <2>2. CallsGoOn
    BY <1>1, <1>15, <2>1 DEF CallsGoOn, MarksStopped, Ends, Stopping, Place, IInv, Types
  <2>3. RecordsGoOn
    BY <1>15, <2>1, StatusChanges DEF MarksStopped, RecordsGoOn, IInv, Types, Call, Status
  <2> QED BY <1>4, <2>2, <2>3, <1>15, GoesOn DEF MarksStopped
<1>16. CASE StopFindsNone(r)
  <2>1. call' = [call EXCEPT ![r].at = "failed"] /\ call[r].at = "idle"
    BY <1>16 DEF StopFindsNone, Ends
  <2>2. CallsGoOn
    BY <1>1, <1>16, <2>1 DEF CallsGoOn, StopFindsNone, Ends, Stopping, Place, IInv, Types
  <2> QED BY <1>4, <1>5, <2>2, <1>16, GoesOn DEF StopFindsNone
<1> QED BY <1>6, <1>7, <1>8, <1>9, <1>10, <1>11, <1>12, <1>13, <1>14, <1>15, <1>16 DEF Stops

-----------------------------------------------------------------------------
\* A spawner has started, or lost, the process of request r, whose handler goes to
\* at.
LEMMA SpawnKeeps ==
  ASSUME IInv, NEW r \in Requests, NEW at \in {"spawned", "failed"}, NEW pid \in BOOLEAN,
         NEW state \in {"running", "exited"},
         call[r].at = "idle", call[r].does # "stop",
         call' = [call EXCEPT ![r] = [call[r] EXCEPT !.at = at, !.pid = pid]],
         proc' = [proc EXCEPT ![r] = state],
         \/ faults' = faults /\ pid = call[r].pid
         \/ faults' = faults + 1,
         \/ cancelled' = cancelled
         \/ at = "failed" /\ cancelled' = cancelled \cup {r},
         UNCHANGED agents
  PROVE  IInv'
<1>1. /\ call' \in [Requests -> Call]
      /\ \A q \in Requests : /\ call'[q].nick = call[q].nick
                             /\ call'[q].does = call[q].does
                             /\ call'[q].inst = call[q].inst
                             /\ call'[q].pid = IF q = r THEN pid ELSE call[q].pid
                             /\ call'[q].at = IF q = r THEN at ELSE call[q].at
  <2>1. call[r] \in Call /\ [call[r] EXCEPT !.at = at, !.pid = pid] \in Call
    BY DEF IInv, Types, Call
  <2> QED BY <2>1 DEF IInv, Types, Call
<1>2. /\ proc[r] = "none"
      /\ \A q \in Requests : proc'[q] = IF q = r THEN state ELSE proc[q]
      /\ proc' \in [Requests -> ProcState]
  BY DEF IInv, Types, SpawnInv, ProcState
<1>3. Types'
  BY <1>1, <1>2 DEF IInv, Types
<1>4. \A n \in Nicks : SpawnsOf(n) \subseteq SpawnsOf(n)'
  BY <1>1, <1>2 DEF SpawnsOf
<1>5. \A n \in Nicks : r \notin SpawnsOf(n)
  BY <1>2 DEF SpawnsOf
<1>6. SpawnInv'
  BY <1>1, <1>2, <1>4 DEF IInv, Types, SpawnInv, Stopping, Call
<1>7. DeadInv'
  <2> SUFFICES ASSUME faults' = 0
      PROVE /\ \A q \in Requests :
                 /\ q \in cancelled' => call'[q].at \in {"done", "failed"}
                 /\ call'[q].pid
                 /\ call'[q].at = "killed" => ~Alive(call[q].inst)'
            /\ \A n \in Nicks :
                 agents'[n].status = "stopped" => \E q \in SpawnsOf(n)' : ~Alive(q)'
    BY DEF DeadInv
  <2>1. faults = 0 /\ pid = call[r].pid
    BY DEF IInv, Types
  <2>2. ASSUME NEW q \in Requests
        PROVE /\ q \in cancelled' => call'[q].at \in {"done", "failed"}
              /\ call'[q].pid
    BY <1>1, <2>1 DEF IInv, DeadInv
  <2>3. ASSUME NEW q \in Requests, call'[q].at = "killed"
        PROVE ~Alive(call[q].inst)'
    <3>1. call[q].at = "killed" /\ call'[q].inst = call[q].inst
      BY <1>1, <2>3
    <3>2. call[q].inst \in Requests /\ proc[call[q].inst] # "none" /\ ~Alive(call[q].inst)
      BY <2>1, <3>1 DEF IInv, SpawnInv, DeadInv, Stopping, SpawnsOf
    <3> QED BY <1>2, <3>1, <3>2 DEF Alive
  <2>4. ASSUME NEW n \in Nicks, agents'[n].status = "stopped"
        PROVE \E q \in SpawnsOf(n)' : ~Alive(q)'
    <3>1. PICK q \in SpawnsOf(n) : ~Alive(q)
      BY <2>1, <2>4 DEF IInv, DeadInv
    <3>2. q \in Requests /\ q # r
      BY <1>5 DEF SpawnsOf
    <3> QED BY <1>2, <1>4, <3>1, <3>2 DEF Alive
  <2> QED BY <2>2, <2>3, <2>4
<1> QED BY <1>3, <1>6, <1>7 DEF IInv

\* SpawnAgent registers the instance: the record names it and is not stopped.
LEMMA RegistersKeeps ==
  ASSUME IInv, NEW r \in Requests, Registers(r)
  PROVE  IInv'
<1>1. PICK status \in {"starting", "running"} :
        agents' = [agents EXCEPT ![call[r].nick] = [status |-> status, inst |-> r]]
  BY DEF Registers, Register, PostSpawn
<1>2. call[r].at = "spawned" /\ call' = [call EXCEPT ![r].at = "done"]
      /\ cancelled' = cancelled \cup {r} /\ UNCHANGED <<proc, faults>>
  BY DEF Registers, Ends
<1>3. /\ call' \in [Requests -> Call]
      /\ \A q \in Requests : /\ call'[q].nick = call[q].nick
                             /\ call'[q].does = call[q].does
                             /\ call'[q].inst = call[q].inst
                             /\ call'[q].pid = call[q].pid
                             /\ call'[q].at = IF q = r THEN "done" ELSE call[q].at
  <2>1. "done" \in Place
    BY DEF Place
  <2> QED BY <1>2, <2>1, CallMoves, Zenon DEF IInv
<1>4. /\ call[r].nick \in Nicks /\ call[r].does # "stop" /\ r \in SpawnsOf(call[r].nick)
      /\ r # NoRequest
  BY <1>2, ManagerConstants DEF IInv, Types, Call, SpawnInv, SpawnsOf
<1>5. /\ agents' \in [Nicks -> AgentRecord]
      /\ \A n \in Nicks : /\ n = call[r].nick => agents'[n].inst = r /\ agents'[n].status = status
                          /\ n # call[r].nick => agents'[n] = agents[n]
  <2>1. [status |-> status, inst |-> r] \in AgentRecord
    BY DEF AgentRecord, Status
  <2> QED BY <1>1, <1>4, <2>1 DEF IInv, Types
<1>6. Types'
  BY <1>2, <1>3, <1>5 DEF IInv, Types
<1>7. \A n \in Nicks : SpawnsOf(n)' = SpawnsOf(n)
  BY <1>2, <1>3 DEF SpawnsOf
<1>8. SpawnInv'
  BY <1>2, <1>3, <1>4, <1>5, <1>7 DEF IInv, Types, SpawnInv, Stopping, Call
<1>9. DeadInv'
  <2>1. \A q \in Requests : Alive(q)' = Alive(q)
    BY <1>2 DEF Alive
  <2>2. \A q \in Requests : call[q].at = "killed" => call[q].inst \in Requests
    BY DEF IInv, SpawnInv, Stopping, SpawnsOf
  <2>3. \A q \in Requests : Alive(call[q].inst)' = Alive(call[q].inst)
    BY <1>2, <1>3 DEF Alive
  <2>4. \A n \in Nicks : agents'[n].status = "stopped" => agents[n].status = "stopped"
    BY <1>1, <1>5
  <2> QED BY <1>2, <1>3, <1>7, <2>1, <2>3, <2>4 DEF IInv, DeadInv, SpawnsOf
<1> QED BY <1>6, <1>8, <1>9 DEF IInv

\* StopAgent takes the instance out of the record.
LEMMA StopFindsKeeps ==
  ASSUME IInv, NEW r \in Requests, StopFinds(r)
  PROVE  IInv'
<1> DEFINE inst == agents[call[r].nick].inst
<1>1. /\ call[r].at = "idle" /\ call[r].does = "stop" /\ inst # NoRequest
      /\ call' = [call EXCEPT ![r].at = "found", ![r].inst = inst]
      /\ UNCHANGED <<agents, proc, cancelled, faults>>
  BY DEF StopFinds
<1>2. call[r].nick \in Nicks /\ inst \in SpawnsOf(call[r].nick) /\ inst \in Requests
  <2>1. call[r].nick \in Nicks
    BY DEF IInv, Types, Call
  <2> QED BY <1>1, <2>1 DEF IInv, SpawnInv, SpawnsOf
<1>3. /\ call' \in [Requests -> Call]
      /\ \A q \in Requests : /\ call'[q].nick = call[q].nick
                             /\ call'[q].does = call[q].does
                             /\ call'[q].inst = IF q = r THEN inst ELSE call[q].inst
                             /\ call'[q].pid = call[q].pid
                             /\ call'[q].at = IF q = r THEN "found" ELSE call[q].at
  <2> HIDE DEF inst
  <2>1. call[r] \in Call /\ [call[r] EXCEPT !.at = "found", !.inst = inst] \in Call
    BY <1>2 DEF IInv, Types, Call
  <2>2. call' = [call EXCEPT ![r] = [call[r] EXCEPT !.at = "found", !.inst = inst]]
    BY <1>1 DEF IInv, Types
  <2> QED BY <2>1, <2>2 DEF IInv, Types, Call
<1>4. Types'
  BY <1>1, <1>3 DEF IInv, Types
<1>5. \A n \in Nicks : SpawnsOf(n)' = SpawnsOf(n)
  BY <1>1, <1>3 DEF SpawnsOf
<1>6. SpawnInv'
  <2>1. \A n \in Nicks :
          /\ agents'[n].inst # NoRequest => agents'[n].inst \in SpawnsOf(n)'
          /\ agents'[n].status = "stopped" => agents'[n].inst # NoRequest
    BY <1>1, <1>5 DEF IInv, SpawnInv
  <2>2. \A q \in Requests : call[q].nick \in Nicks
    BY DEF IInv, Types, Call
  <2>3. ASSUME NEW q \in Requests
        PROVE  /\ proc'[q] # "none" => call'[q].does # "stop" /\ call'[q].at \in {"spawned", "done", "failed"}
               /\ call'[q].at = "spawned" => call'[q].does # "stop" /\ proc'[q] # "none"
               /\ call'[q].at = "done" /\ call'[q].does # "stop" => agents'[call'[q].nick].inst # NoRequest
               /\ call'[q].at \in Stopping => /\ call'[q].does = "stop"
                                              /\ call'[q].inst \in SpawnsOf(call[q].nick)'
                                              /\ agents'[call'[q].nick].inst # NoRequest
    <3>1. SpawnsOf(call[q].nick)' = SpawnsOf(call[q].nick)
      BY <1>1, <1>3, <2>2 DEF SpawnsOf
    <3>2. CASE q = r
      BY <1>1, <1>2, <1>3, <3>1, <3>2 DEF IInv, SpawnInv
    <3>3. CASE q # r
      BY <1>1, <1>3, <3>1, <3>3 DEF IInv, SpawnInv
    <3> QED BY <3>2, <3>3
  <2> QED BY <2>1, <2>3 DEF SpawnInv
<1>7. DeadInv'
  <2>1. \A q \in Requests : Alive(q)' = Alive(q)
    BY <1>1 DEF Alive
  <2>2. \A q \in Requests : q # r => Alive(call[q].inst)' = Alive(call[q].inst)
    BY <1>1, <1>3 DEF Alive
  <2> QED BY <1>1, <1>3, <1>5, <2>1, <2>2 DEF IInv, DeadInv, SpawnsOf
<1> QED BY <1>4, <1>6, <1>7 DEF IInv

-----------------------------------------------------------------------------
LEMMA InitIInv == Init => IInv
<1> SUFFICES ASSUME Init PROVE IInv
  OBVIOUS
<1>1. /\ call \in [Requests -> Call]
      /\ \A r \in Requests : call[r].at = "idle" /\ call[r].pid
  BY DEF Init
<1>2. NoRecord \in AgentRecord /\ NoRecord.inst = NoRequest /\ NoRecord.status = "absent"
  BY DEF NoRecord, AgentRecord, Status
<1>3. /\ \A n \in Nicks : agents[n].inst = NoRequest /\ agents[n].status = "absent"
      /\ agents \in [Nicks -> AgentRecord]
  BY <1>2 DEF Init
<1>4. Types
  BY <1>1, <1>3 DEF Init, Types, ProcState
<1>5. SpawnInv
  BY <1>1, <1>3 DEF Init, SpawnInv, Stopping
<1>6. DeadInv
  BY <1>1, <1>3 DEF Init, DeadInv
<1> QED BY <1>4, <1>5, <1>6 DEF IInv

LEMMA StepIInv == IInv /\ [Next]_vars => IInv'
<1> SUFFICES ASSUME IInv, [Next]_vars PROVE IInv'
  OBVIOUS
<1>1. UNCHANGED <<call, cancelled, faults>> => CallsGoOn
  BY DEF CallsGoOn, IInv, Types
<1>2. UNCHANGED proc => ProcsGoOn
  BY DEF ProcsGoOn, IInv, Types
<1>3. UNCHANGED agents => RecordsGoOn
  BY DEF RecordsGoOn, IInv, Types
<1>4. ASSUME NEW r \in Requests
      PROVE  /\ call[r] \in Call
             /\ \A at \in Place : /\ [call EXCEPT ![r].at = at]
                                       = [call EXCEPT ![r] = [call[r] EXCEPT !.at = at]]
                                  /\ [call[r] EXCEPT !.at = at]
                                       = [call[r] EXCEPT !.at = at, !.pid = call[r].pid]
  BY DEF IInv, Types, Call
<1>5. ASSUME NEW r \in Requests, Spawn(r) PROVE IInv'
  <2>1. call' = [call EXCEPT ![r] = [call[r] EXCEPT !.at = "spawned", !.pid = call[r].pid]]
    BY <1>4, <1>5 DEF Spawn, Goes, Place
  <2>2. call[r].pid \in BOOLEAN
    BY <1>4 DEF Call
  <2>3. proc' = [proc EXCEPT ![r] = "running"] /\ call[r].at = "idle" /\ call[r].does # "stop"
        /\ UNCHANGED <<agents, cancelled, faults>>
    BY <1>5 DEF Spawn, Goes
  <2> QED BY <2>1, <2>2, <2>3, SpawnKeeps
<1>6. ASSUME NEW r \in Requests, SpawnUnread(r) PROVE IInv'
  <2>1. call' = [call EXCEPT ![r] = [call[r] EXCEPT !.at = "spawned", !.pid = FALSE]]
    BY <1>6 DEF SpawnUnread, IInv, Types
  <2>2. proc' = [proc EXCEPT ![r] = "running"] /\ call[r].at = "idle" /\ call[r].does # "stop"
        /\ UNCHANGED <<agents, cancelled>> /\ faults' = faults + 1
    BY <1>6 DEF SpawnUnread
  <2> QED BY <2>1, <2>2, SpawnKeeps
<1>7. ASSUME NEW r \in Requests, SpawnLost(r) PROVE IInv'
  <2>1. call' = [call EXCEPT ![r] = [call[r] EXCEPT !.at = "failed", !.pid = call[r].pid]]
    BY <1>4, <1>7 DEF SpawnLost, Ends, Place
  <2>2. call[r].pid \in BOOLEAN
    BY <1>4 DEF Call
  <2>3. /\ call[r].at = "idle" /\ call[r].does # "stop"
        /\ cancelled' = cancelled \cup {r} /\ faults' = faults + 1 /\ UNCHANGED agents
    BY <1>7 DEF SpawnLost, Ends
  <2>4. PICK state \in {"running", "exited"} : proc' = [proc EXCEPT ![r] = state]
    BY <1>7 DEF SpawnLost
  <2> QED BY <2>1, <2>2, <2>3, <2>4, SpawnKeeps
<1>8. ASSUME NEW r \in Requests, SpawnFails(r) PROVE IInv'
  <2>1. call' = [call EXCEPT ![r].at = "failed"]
    BY <1>8 DEF SpawnFails, Ends
  <2>2. /\ call' \in [Requests -> Call]
        /\ \A q \in Requests : /\ call'[q].nick = call[q].nick
                               /\ call'[q].does = call[q].does
                               /\ call'[q].inst = call[q].inst
                               /\ call'[q].pid = call[q].pid
                               /\ call'[q].at = IF q = r THEN "failed" ELSE call[q].at
    <3>1. "failed" \in Place
      BY DEF Place
    <3> QED BY <2>1, <3>1, CallMoves, Zenon DEF IInv
  <2>3. CallsGoOn
    BY <1>8, <2>2 DEF SpawnFails, Ends, CallsGoOn, IInv, Types
  <2> QED BY <1>2, <1>3, <1>8, <2>3, GoesOn DEF SpawnFails
<1>9. ASSUME NEW r \in Requests, ClientLeaves(r) PROVE IInv'
  <2>1. CallsGoOn
    BY <1>9 DEF ClientLeaves, CallsGoOn, IInv, Types
  <2> QED BY <1>2, <1>3, <1>9, <2>1, GoesOn DEF ClientLeaves
<1>10. ASSUME NEW r \in Requests, Exits(r) PROVE IInv'
  <2>1. ProcsGoOn
    BY <1>10 DEF Exits, Alive, ProcsGoOn, ProcState, IInv, Types
  <2> QED BY <1>1, <1>3, <1>10, <2>1, GoesOn DEF Exits
<1>11. ASSUME NEW n \in Nicks, HandleCapabilities(n) PROVE IInv'
  <2>1. PICK status \in {"stopping", "online"} : agents' = [agents EXCEPT ![n].status = status]
    BY <1>11 DEF HandleCapabilities, UpdateFromDiscovery
  <2>2. /\ agents' \in [Nicks -> AgentRecord]
        /\ \A k \in Nicks : /\ agents'[k].inst = agents[k].inst
                            /\ agents'[k].status = IF k = n THEN status ELSE agents[k].status
    <3>1. status \in Status
      BY DEF Status
    <3> QED BY <2>1, <3>1, RecordChanges, Zenon DEF IInv
  <2>3. RecordsGoOn
    BY <2>2 DEF RecordsGoOn
  <2> QED BY <1>1, <1>2, <1>11, <2>3, GoesOn DEF HandleCapabilities
<1>12. ASSUME NEW n \in Nicks, PollDone(n) PROVE IInv'
  <2>1. RecordsGoOn
    BY <1>12, StatusChanges DEF PollDone, UpdateHealth, RecordsGoOn, IInv, Types, Status
  <2> QED BY <1>1, <1>2, <1>12, <2>1, GoesOn DEF PollDone
<1>13. ASSUME NEW n \in Nicks,
              Speaks(n) \/ PollSingleAgent(n) \/ Answers(n) \/ PollFails(n)
       PROVE  IInv'
  BY <1>1, <1>2, <1>3, <1>13, GoesOn DEF Speaks, PollSingleAgent, Answers, PollFails
<1>14. CASE UNCHANGED vars
  BY <1>1, <1>2, <1>3, <1>14, GoesOn DEF vars
<1>15. ASSUME NEW r \in Requests, Stops(r) PROVE IInv'
  BY <1>15, StopKeeps, StopFindsKeeps
<1> QED
  BY <1>5, <1>6, <1>7, <1>8, <1>9, <1>10, <1>11, <1>12, <1>13, <1>14, <1>15, RegistersKeeps
     DEF Next, Stops, ContextKills

LEMMA Invariance == Spec => []IInv
BY InitIInv, StepIInv, PTL DEF Spec

\* StoppedIsDead, for any nicks, requests and spawners and any number of polls and
\* stops: while nothing fails, a nick that was spawned once and whose record says
\* stopped has no process that runs (manager.go StopAgent, registry.go, and Stop of
\* the local, ssh and docker spawners).
THEOREM StoppedAgentsAreDead == Spec => []StoppedIsDead
<1>1. IInv => StoppedIsDead
  <2> SUFFICES ASSUME IInv, NEW n \in Nicks, agents[n].status = "stopped", faults = 0,
                      \A q, r \in SpawnsOf(n) : q = r
               PROVE  ~Alive(agents[n].inst)
    BY DEF StoppedIsDead
  <2>1. agents[n].inst \in SpawnsOf(n)
    BY DEF IInv, SpawnInv
  <2>2. PICK q \in SpawnsOf(n) : ~Alive(q)
    BY DEF IInv, DeadInv
  <2> QED BY <2>1, <2>2
<1> QED BY <1>1, Invariance, PTL

\* SpawnedIsStoppable, for any nicks, requests and spawners, however many commands
\* fail: as long as an agent that SpawnAgent has reported runs, its record names an
\* instance that was spawned under its nick (manager.go SpawnAgent, registry.go
\* Register, UpdateFromDiscovery, UpdateHealth).
THEOREM SpawnedAgentsAreStoppable == Spec => []SpawnedIsStoppable
<1>1. IInv => SpawnedIsStoppable
  <2> SUFFICES ASSUME IInv, NEW r \in Requests, call[r].at = "done", Alive(r)
               PROVE  \E q \in SpawnsOf(call[r].nick) : agents[call[r].nick].inst = q
    BY DEF SpawnedIsStoppable
  <2>1. call[r].does # "stop" /\ call[r].nick \in Nicks
    BY DEF IInv, Types, SpawnInv, Alive, Call
  <2> QED BY <2>1 DEF IInv, SpawnInv
<1> QED BY <1>1, Invariance, PTL
=============================================================================
