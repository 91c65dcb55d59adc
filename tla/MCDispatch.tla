----------------------------- MODULE MCDispatch ------------------------------
(***************************************************************************)
(* What agents say to each other in a channel, and what bridges carry from *)
(* one channel to another.  The two share no state, so a behaviour         *)
(* exercises one of them.                                                  *)
(*                                                                         *)
(* Three agents: one that asks for reviews, two that share the reviewer    *)
(* roles, one of which listens to little the other says, hears no ASSIGN,  *)
(* HANDOFF or YIELD of anyone, and must neither vote nor send checkpoints, *)
(* although its application and its release-coordinator role try to.       *)
(*                                                                         *)
(* Two bridges on both ends of one channel, and a third server behind the  *)
(* first; one mapping names a link that is not there.                      *)
(***************************************************************************)
EXTENDS Dispatch, Federation

CONSTANTS a1, a2, a3

X == <<"x">>
Names == {X} \cup {Append(X, s) : s \in {"merge", "release", "cleanup", "incident"}}

MCRoles == a1 :> <<>>
        @@ a2 :> <<"architecture-reviewer", "monitoring-guardian", "incident-responder",
                   "release-coordinator">>
        @@ a3 :> <<"architecture-reviewer", "security-reviewer", "merge-coordinator",
                   "release-coordinator", "cleanup-agent">>

MCRules == a1 :> <<>>
        @@ a2 :> <<[nicks |-> {a1, a2, a3}, actions |-> {"ASSIGN", "HANDOFF", "YIELD"},
                    allow |-> FALSE],
                   [nicks |-> {a2}, actions |-> {"CHECKPOINT", "VOTE"}, allow |-> FALSE],
                   [nicks |-> {a1, a2}, actions |-> {}, allow |-> TRUE],
                   [nicks |-> {a3}, actions |-> {"STARTED", "REVIEW-COMPLETE"}, allow |-> TRUE],
                   [nicks |-> {a2, a3}, actions |-> {}, allow |-> FALSE]>>
        @@ a3 :> <<>>

MCNotifyOn == a1 :> {"YIELD", "COMPLETED"} @@ a2 :> {} @@ a3 :> {"YIELD", "gate-passed"}

MCSays == a1 :> {RequestReview(X, "p", "architecture"), RequestReview(X, "p", "security"),
                 RequestReview(X, "p", "monitoring"), Vote("v", "yes"),
                 Escalate(X, a3, "high"), Handoff(X, a2), Checkpoint(X, 50), YieldTask(X),
                 AnnounceCompleted(Append(X, "merge"))}
       @@ a2 :> {AcceptTask(X), Vote("v", "no"), YieldTask(X)}
       @@ a3 :> {AnnounceCompleted(Append(X, "release")), Vote("v", "yes"), Vote("v", "no"),
                 GateCheck(X, "tests", "failed"), GateCheck(X, "tests", "passed"),
                 ClaimTask(Append(X, "cleanup")), AssignTask(X, a1), DeclineTask(X)}

MCLinks == [bridge1 |-> {"east", "west"}, bridge2 |-> {"back"}]

MCMappings ==
  [bridge1 |-> <<[local |-> "home", link |-> "north", remote |-> "there"],
                 [local |-> "home", link |-> "east", remote |-> "there"],
                 [local |-> "home", link |-> "west", remote |-> "far"]>>,
   bridge2 |-> <<[local |-> "there", link |-> "back", remote |-> "home"]>>]

VARIABLE component

channelVars == <<component, vars, fedVars>>

ChannelsInit ==
  /\ component \in {"dispatch", "federation"}
  /\ Init
  /\ FedInit

ChannelsNext ==
  \/ component = "dispatch" /\ Next /\ UNCHANGED <<component, fedVars>>
  \/ component = "federation" /\ FedNext /\ UNCHANGED <<component, vars>>

ChannelsSpec == ChannelsInit /\ [][ChannelsNext]_channelVars /\ Fairness /\ FedFairness
=============================================================================
