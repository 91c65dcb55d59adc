---------------------------- MODULE CollabStores -----------------------------
(***************************************************************************)
(* The stores behind updateCoordinationStores (internal/agent/protocol.go) *)
(* as operators on their contents: the board's offers under instant        *)
(* arbitration (TaskBoard has the deferred one), HandoffStore, ReviewStore *)
(* and ConsensusStore.  Each method takes its store's mutex once.          *)
(* Timestamps, details, summaries and channels are left out, and so is     *)
(* ReviewStore.iterations[t], which is always the number of t's reviews.   *)
(***************************************************************************)
EXTENDS TaskState, Naturals, Sequences, FiniteSets, FiniteSetsExt

CONSTANT Topics  \* what is voted on

NoOffer   == [claimedBy |-> NoNick, offered |-> FALSE]
NoHandoff == [from |-> NoNick, to |-> NoNick, progress |-> 0, accepted |-> FALSE]

NewStores ==
  [offers      |-> [t \in Tasks |-> NoOffer],
   checkpoints |-> [t \in Tasks |-> <<>>],
   handoffs    |-> [t \in Tasks |-> NoHandoff],
   reviews     |-> [t \in Tasks |-> <<>>],
   gates       |-> [t \in Tasks |-> <<>>],
   votes       |-> [p \in Topics |-> [n \in Nicks |-> "none"]],
   escalations |-> <<>>]

-----------------------------------------------------------------------------
(***************************************************************************)
(* taskboard.go, with claimJitter = 0.                                     *)
(***************************************************************************)
RecordOffer(offers, m) ==
  [offers EXCEPT ![m.task] = [claimedBy |-> NoNick, offered |-> TRUE]]

\* RecordClaim, RecordDecline and RecordYield: only a known offer changes.
SetClaimedBy(offers, t, n) ==
  IF offers[t].offered THEN [offers EXCEPT ![t].claimedBy = n] ELSE offers

RecordAssign(offers, m) ==
  [offers EXCEPT ![m.task] = [claimedBy |-> m.to, offered |-> TRUE]]

(***************************************************************************)
(* handoff.go.                                                             *)
(***************************************************************************)
RecordCheckpoint(cps, m) ==
  [cps EXCEPT ![m.task] = Append(@, [nick |-> m.nick, progress |-> m.progress])]

RecordHandoff(handoffs, cps, m) ==
  LET own == cps[m.task]
  IN  [handoffs EXCEPT ![m.task] =
         [from |-> m.nick, to |-> m.to, accepted |-> FALSE,
          progress |-> IF own = <<>> THEN 0 ELSE own[Len(own)].progress]]

AcceptHandoff(handoffs, m) ==
  IF handoffs[m.task].to = m.nick
  THEN [handoffs EXCEPT ![m.task].accepted = TRUE]
  ELSE handoffs

(***************************************************************************)
(* review.go.  A pending record has the verdict "".                        *)
(***************************************************************************)
RecordRequest(reviews, m) ==
  [reviews EXCEPT ![m.task] =
     Append(@, [pr |-> m.pr, reviewType |-> m.reviewType, by |-> m.nick,
                reviewer |-> NoNick, verdict |-> ""])]

\* Mutant of RecordComplete: the most recent record, pending or not.
CompleteLatest(reviews, m) ==
  LET rs == reviews[m.task]
      on == {i \in DOMAIN rs : m.pr = "" \/ rs[i].pr = m.pr}
  IN  IF on = {} THEN reviews
      ELSE [reviews EXCEPT ![m.task][Max(on)].reviewer = m.nick,
                           ![m.task][Max(on)].verdict = m.verdict]

\* The most recent pending review of the task and pull request is answered.
RecordComplete(reviews, m) ==
  LET rs   == reviews[m.task]
      open == {i \in DOMAIN rs : rs[i].verdict = "" /\ (m.pr = "" \/ rs[i].pr = m.pr)}
  IN  IF open = {} THEN reviews
      ELSE [reviews EXCEPT ![m.task][Max(open)].reviewer = m.nick,
                           ![m.task][Max(open)].verdict = m.verdict]

RecordGate(gates, m) ==
  [gates EXCEPT ![m.task] =
     Append(@, [gate |-> m.gate, status |-> m.status, checkedBy |-> m.nick])]

\* allGatesPassedLocked: the latest status of every gate is what counts.
AllGatesPassed(gs) ==
  /\ gs # <<>>
  /\ \A i \in DOMAIN gs :
       (\A j \in DOMAIN gs : j > i => gs[j].gate # gs[i].gate) => gs[i].status = "passed"

\* Summary.
Summary(st, t) ==
  [total          |-> Len(st.reviews[t]),
   pending        |-> Cardinality({i \in DOMAIN st.reviews[t] : st.reviews[t][i].verdict = ""}),
   approved       |-> Cardinality({i \in DOMAIN st.reviews[t] :
                                     st.reviews[t][i].verdict = "approved"}),
   allGatesPassed |-> AllGatesPassed(st.gates[t])]

(***************************************************************************)
(* consensus.go.                                                           *)
(***************************************************************************)
RecordVote(votes, m) == [votes EXCEPT ![m.topic][m.nick] = m.choice]

\* TopicSummaryFor: how many voted for a choice.
TopicSummary(votes, p) ==
  [c \in {votes[p][n] : n \in Nicks} \ {"none"} |->
     Cardinality({n \in Nicks : votes[p][n] = c})]

RecordEscalation(escalations, m) ==
  Append(escalations, [task |-> m.task, to |-> m.to, severity |-> m.severity,
                       by |-> m.nick, resolved |-> FALSE])

\* The most recent unresolved escalation of the task.
ResolveEscalation(escalations, t) ==
  LET open == {i \in DOMAIN escalations :
                 escalations[i].task = t /\ ~escalations[i].resolved}
  IN  IF open = {} THEN escalations
      ELSE [escalations EXCEPT ![Max(open)].resolved = TRUE]

-----------------------------------------------------------------------------
\* updateCoordinationStores.
UpdateCoordinationStores(st, m) ==
  CASE m.action = "OFFER"  -> [st EXCEPT !.offers = RecordOffer(@, m)]
    [] m.action = "CLAIM"  -> [st EXCEPT !.offers = SetClaimedBy(@, m.task, m.nick)]
    [] m.action = "ASSIGN" -> [st EXCEPT !.offers = RecordAssign(@, m)]
    [] m.action \in {"DECLINE", "YIELD"} ->
         [st EXCEPT !.offers = SetClaimedBy(@, m.task, NoNick)]
    [] m.action = "CHECKPOINT" -> [st EXCEPT !.checkpoints = RecordCheckpoint(@, m)]
    [] m.action = "HANDOFF" ->
         [st EXCEPT !.handoffs = RecordHandoff(@, st.checkpoints, m)]
    [] m.action = "ACCEPT"  -> [st EXCEPT !.handoffs = AcceptHandoff(@, m)]
    [] m.action = "REVIEW-REQUEST"  -> [st EXCEPT !.reviews = RecordRequest(@, m)]
    [] m.action = "REVIEW-COMPLETE" -> [st EXCEPT !.reviews = RecordComplete(@, m)]
    [] m.action = "GATE-CHECK"      -> [st EXCEPT !.gates = RecordGate(@, m)]
    [] m.action = "VOTE"     -> [st EXCEPT !.votes = RecordVote(@, m)]
    [] m.action = "ESCALATE" -> [st EXCEPT !.escalations = RecordEscalation(@, m)]
    [] OTHER -> st
=============================================================================
