---------------------------- MODULE AgentMessages ----------------------------
(***************************************************************************)
(* The messages that the methods of Agent (internal/agent/agent.go) send,  *)
(* as values without a sender.  Fields that no receiver decides on         *)
(* (priority, scope, summary, reason, details, context-id) are left out.   *)
(*                                                                         *)
(* A task is a sequence: <<t>> is a task of the applications, and the      *)
(* string "t-merge" that role.go puts together is <<t, "merge">>.          *)
(***************************************************************************)
EXTENDS Sequences

AnnounceStarted(t)        == [action |-> "STARTED", task |-> t]
AnnounceCompleted(t)      == [action |-> "COMPLETED", task |-> t]
OfferTask(t)              == [action |-> "OFFER", task |-> t]
ClaimTask(t)              == [action |-> "CLAIM", task |-> t]
AssignTask(t, to)         == [action |-> "ASSIGN", task |-> t, to |-> to]
AcceptTask(t)             == [action |-> "ACCEPT", task |-> t]
DeclineTask(t)            == [action |-> "DECLINE", task |-> t]
YieldTask(t)              == [action |-> "YIELD", task |-> t]
Checkpoint(t, progress)   == [action |-> "CHECKPOINT", task |-> t, progress |-> progress]
Handoff(t, to)            == [action |-> "HANDOFF", task |-> t, to |-> to]
RequestReview(t, pr, rt)  == [action |-> "REVIEW-REQUEST", task |-> t, pr |-> pr,
                              reviewType |-> rt]
CompleteReview(t, pr, v)  == [action |-> "REVIEW-COMPLETE", task |-> t, pr |-> pr,
                              verdict |-> v]
GateCheck(t, gate, s)     == [action |-> "GATE-CHECK", task |-> t, gate |-> gate,
                              status |-> s]
Vote(topic, choice)       == [action |-> "VOTE", topic |-> topic, choice |-> choice]
Escalate(t, to, severity) == [action |-> "ESCALATE", task |-> t, to |-> to,
                              severity |-> severity]

\* What stands in a channel and is not a protocol message.
Text(event) == [action |-> "TEXT", event |-> event]

\* A message with its sender, as the dispatcher enriches it.
From(n, m) == [f \in DOMAIN m \cup {"nick"} |-> IF f = "nick" THEN n ELSE m[f]]
=============================================================================
