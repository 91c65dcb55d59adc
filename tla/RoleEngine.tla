------------------------------ MODULE RoleEngine -----------------------------
(***************************************************************************)
(* What an agent decides about a message from its configuration alone: the *)
(* rules of ACLEngine (internal/agent/acl.go), the built-in behaviours of  *)
(* RoleEngine (role.go) and the rules of Notifier (notifier.go).           *)
(***************************************************************************)
EXTENDS AgentMessages, FiniteSets, SequencesExt

\* Mutant of Check: a rule without actions matches no message.
CheckListed(rules, n, a) ==
  LET hits == {i \in DOMAIN rules : n \in rules[i].nicks /\ a \in rules[i].actions}
  IN  hits # {} => rules[Min(hits)].allow

\* ACLEngine.Check: the first rule that matches decides, a rule without actions
\* matches all of them, and what no rule matches is allowed.  Channel and nick
\* patterns are given by what they match.
Check(rules, n, a) ==
  LET hits == {i \in DOMAIN rules : /\ n \in rules[i].nicks
                                    /\ rules[i].actions = {} \/ a \in rules[i].actions}
  IN  hits # {} => rules[Min(hits)].allow

HasSuffix(t, s) == Len(t) > 1 /\ Last(t) = s

\* BuiltinBehavior: what the handler of a role answers to a message.
Answers(role, m) ==
  CASE role = "architecture-reviewer" /\ m.action = "REVIEW-REQUEST"
         /\ m.reviewType = "architecture" -> <<CompleteReview(m.task, m.pr, "approved")>>
    [] role = "security-reviewer" /\ m.action = "REVIEW-REQUEST"
         /\ m.reviewType = "security" -> <<CompleteReview(m.task, m.pr, "approved")>>
    [] role = "monitoring-guardian" /\ m.action = "REVIEW-REQUEST"
         /\ m.reviewType = "monitoring" -> <<GateCheck(m.task, "monitoring", "passed")>>
    [] role = "merge-coordinator" /\ m.action = "REVIEW-COMPLETE"
         /\ m.verdict = "approved" -> <<AnnounceStarted(Append(m.task, "merge"))>>
    [] role = "release-coordinator" /\ m.action = "COMPLETED"
         /\ HasSuffix(m.task, "merge") ->
         <<Checkpoint(Append(Front(m.task), "release"), 0)>>
    [] role = "cleanup-agent" /\ m.action = "COMPLETED"
         /\ HasSuffix(m.task, "release") -> <<OfferTask(Append(Front(m.task), "cleanup"))>>
    [] role = "incident-responder" /\ m.action = "ESCALATE"
         /\ m.severity \in {"high", "critical"} ->
         <<AnnounceStarted(Append(m.task, "incident"))>>
    [] OTHER -> <<>>

\* RoleEngine.HandleMessage: the answers of all roles, in their order.
RoleAnswers(roles, m) == FlattenSeq([i \in DOMAIN roles |-> Answers(roles[i], m)])

\* actionToEvent and the two checks of Notifier.HandleMessage; ACCEPT, DECLINE
\* and the rest have no event.
Event(m) ==
  CASE m.action = "GATE-CHECK" ->
         IF m.status = "failed" THEN "gate-failed" ELSE "gate-passed"
    [] m.action \in {"ACCEPT", "DECLINE"} -> "none"
    [] OTHER -> m.action

\* Mutant of Formatter: a notification that begins with the bare action reads as
\* a protocol message.
FormatBare(event, m) == m

\* DefaultNotificationFormatter: the text begins with a bracket, so that it is
\* no protocol message to anyone.
Formatter(event, m) == Text(event)

\* Notifier.HandleMessage with a rule for each of the events.
Notifications(events, m) ==
  IF Event(m) # "none" /\ Event(m) \in events
  THEN <<Formatter(Event(m), m)>> ELSE <<>>
=============================================================================
