---------------------------- MODULE DispatchProofs ---------------------------
(***************************************************************************)
(* Theorems about Dispatch, for any number of agents, tasks and messages,  *)
(* and any roles and rules.                                                *)
(***************************************************************************)
EXTENDS Dispatch, DataLemmas

-----------------------------------------------------------------------------
(***************************************************************************)
(* The messages there are.                                                 *)
(***************************************************************************)

\* Strings; the ones that the code itself writes are named, because the provers do not
\* know that a literal is a string.
Word == STRING \cup {"", "none", "approved", "monitoring", "passed",
                    "merge", "release", "cleanup", "incident"}

\* The names of tasks, with those that roles put together.
Names == Tasks \cup {Append(t, s) : t \in Tasks, s \in Word}
               \cup {Append(Front(t), s) : t \in Tasks, s \in Word}

\* What the roles of agent a answer.
Answerable(a) ==
       [action : {"REVIEW-COMPLETE"}, task : Tasks, pr : Word, verdict : {"approved"}]
  \cup (IF "monitoring-guardian" \in ToSet(Roles[a])
        THEN [action : {"GATE-CHECK"}, task : Tasks, gate : {"monitoring"},
              status : {"passed"}]
        ELSE {})
  \cup [action : {"STARTED", "OFFER"}, task : Names]
  \cup [action : {"CHECKPOINT"}, task : Names, progress : Int]

Notice == [action : {"TEXT"}, event : STRING]

\* With their sender: what an application, a role and a notifier say.
BySay(a)    == {From(a, m) : m \in Says[a]}
ByRole(a)   == {From(a, m) : m \in Answerable(a)}
ByNotice(a) == {From(a, m) : m \in Notice}

Signed == UNION {BySay(n) \cup ByRole(n) \cup ByNotice(n) : n \in Nicks}

\* What the properties depend on: the fields of five kinds of messages.
Fields(m) ==
  /\ m.action = "VOTE" => m.topic \in Topics /\ m.choice \in Word
  /\ m.action = "COMPLETED" => m.task \in Tasks
  /\ m.action = "ESCALATE" =>
       m.task \in Tasks /\ m.to \in Nicks \cup {NoNick} /\ m.severity \in Word
  /\ m.action = "REVIEW-REQUEST" =>
       m.task \in Tasks /\ m.pr \in Word /\ m.reviewType \in Word
  /\ m.action = "REVIEW-COMPLETE" =>
       m.task \in Tasks /\ m.pr \in Word /\ m.verdict \in Word
  /\ m.action = "GATE-CHECK" =>
       m.task \in Tasks /\ m.gate \in Word /\ m.status \in Word

\* An unsigned message: its fields stay what they are when it is signed.
Sound(m) ==
  /\ "action" \in DOMAIN m /\ "nick" \notin DOMAIN m
  /\ m.action = "VOTE" => {"topic", "choice"} \subseteq DOMAIN m
  /\ m.action = "COMPLETED" => "task" \in DOMAIN m
  /\ m.action = "ESCALATE" => {"task", "to", "severity"} \subseteq DOMAIN m
  /\ m.action = "REVIEW-REQUEST" => {"task", "pr", "reviewType"} \subseteq DOMAIN m
  /\ m.action = "REVIEW-COMPLETE" => {"task", "pr", "verdict"} \subseteq DOMAIN m
  /\ m.action = "GATE-CHECK" => {"task", "gate", "status"} \subseteq DOMAIN m
  /\ Fields(m)

LEMMA SayableSound ==
  ASSUME NEW m \in Sayable
  PROVE  Sound(m) /\ m.action \notin {"TEXT", "none"}
<1>1. CASE m \in [action : {"STARTED", "COMPLETED", "OFFER", "CLAIM", "ACCEPT", "DECLINE", "YIELD"},
                  task : Tasks]
  <2>1. /\ DOMAIN m = {"action", "task"}
        /\ m.action \in {"STARTED", "COMPLETED", "OFFER", "CLAIM", "ACCEPT", "DECLINE", "YIELD"}
        /\ m.task \in Tasks
    BY <1>1
  <2> QED
    BY <2>1 DEF Sound, Fields, Word
<1>2. CASE m \in [action : {"ASSIGN", "HANDOFF"}, task : Tasks, to : Nicks \cup {NoNick}]
  <2>1. DOMAIN m = {"action", "task", "to"} /\ m.action \in {"ASSIGN", "HANDOFF"}
    BY <1>2
  <2> QED
    BY <2>1 DEF Sound, Fields, Word
<1>3. CASE m \in [action : {"CHECKPOINT"}, task : Tasks, progress : Int]
  <2>1. DOMAIN m = {"action", "task", "progress"} /\ m.action = "CHECKPOINT"
    BY <1>3
  <2> QED
    BY <2>1 DEF Sound, Fields, Word
<1>4. CASE m \in [action : {"REVIEW-REQUEST"}, task : Tasks, pr : STRING, reviewType : STRING]
  <2>1. /\ DOMAIN m = {"action", "task", "pr", "reviewType"} /\ m.action = "REVIEW-REQUEST"
        /\ m.task \in Tasks /\ m.pr \in STRING /\ m.reviewType \in STRING
    BY <1>4
  <2> QED
    BY <2>1 DEF Sound, Fields, Word
<1>5. CASE m \in [action : {"REVIEW-COMPLETE"}, task : Tasks, pr : STRING, verdict : STRING]
  <2>1. /\ DOMAIN m = {"action", "task", "pr", "verdict"} /\ m.action = "REVIEW-COMPLETE"
        /\ m.task \in Tasks /\ m.pr \in STRING /\ m.verdict \in STRING
    BY <1>5
  <2> QED
    BY <2>1 DEF Sound, Fields, Word
<1>6. CASE m \in [action : {"GATE-CHECK"}, task : Tasks, gate : STRING, status : STRING]
  <2>1. /\ DOMAIN m = {"action", "task", "gate", "status"} /\ m.action = "GATE-CHECK"
        /\ m.task \in Tasks /\ m.gate \in STRING /\ m.status \in STRING
    BY <1>6
  <2> QED
    BY <2>1 DEF Sound, Fields, Word
<1>7. CASE m \in [action : {"VOTE"}, topic : Topics, choice : STRING]
  <2>1. /\ DOMAIN m = {"action", "topic", "choice"} /\ m.action = "VOTE"
        /\ m.topic \in Topics /\ m.choice \in STRING
    BY <1>7
  <2> QED
    BY <2>1 DEF Sound, Fields, Word
<1>8. CASE m \in [action : {"ESCALATE"}, task : Tasks, to : Nicks \cup {NoNick}, severity : STRING]
  <2>1. /\ DOMAIN m = {"action", "task", "to", "severity"} /\ m.action = "ESCALATE"
        /\ m.task \in Tasks /\ m.to \in Nicks \cup {NoNick} /\ m.severity \in STRING
    BY <1>8
  <2> QED
    BY <2>1 DEF Sound, Fields, Word
<1> QED
  BY <1>1, <1>2, <1>3, <1>4, <1>5, <1>6, <1>7, <1>8 DEF Sayable

LEMMA AnswerableSound ==
  ASSUME NEW a \in Nicks, NEW m \in Answerable(a)
  PROVE  /\ Sound(m)
         /\ m.action \in {"REVIEW-COMPLETE", "GATE-CHECK", "STARTED", "OFFER", "CHECKPOINT"}
         /\ m.action = "REVIEW-COMPLETE" => m.verdict = "approved"
         /\ m.action = "GATE-CHECK" =>
              m.gate = "monitoring" /\ "monitoring-guardian" \in ToSet(Roles[a])
<1>1. CASE m \in [action : {"REVIEW-COMPLETE"}, task : Tasks, pr : Word, verdict : {"approved"}]
  <2>1. /\ DOMAIN m = {"action", "task", "pr", "verdict"} /\ m.action = "REVIEW-COMPLETE"
        /\ m.task \in Tasks /\ m.pr \in Word /\ m.verdict = "approved"
    BY <1>1
  <2> QED
    BY <2>1 DEF Sound, Fields, Word
<1>2. CASE /\ m \in [action : {"GATE-CHECK"}, task : Tasks, gate : {"monitoring"}, status : {"passed"}]
           /\ "monitoring-guardian" \in ToSet(Roles[a])
  <2>1. /\ DOMAIN m = {"action", "task", "gate", "status"} /\ m.action = "GATE-CHECK"
        /\ m.task \in Tasks /\ m.gate = "monitoring" /\ m.status = "passed"
        /\ "monitoring-guardian" \in ToSet(Roles[a])
    BY <1>2
  <2> QED
    BY <2>1 DEF Sound, Fields, Word
<1>3. CASE m \in [action : {"STARTED", "OFFER"}, task : Names]
  <2>1. DOMAIN m = {"action", "task"} /\ m.action \in {"STARTED", "OFFER"}
    BY <1>3
  <2> QED
    BY <2>1 DEF Sound, Fields, Word
<1>4. CASE m \in [action : {"CHECKPOINT"}, task : Names, progress : Int]
  <2>1. DOMAIN m = {"action", "task", "progress"} /\ m.action = "CHECKPOINT"
    BY <1>4
  <2> QED
    BY <2>1 DEF Sound, Fields, Word
<1> QED
  BY <1>1, <1>2, <1>3, <1>4 DEF Answerable

LEMMA NoticeSound ==
  ASSUME NEW m \in Notice
  PROVE  Sound(m) /\ m.action = "TEXT"
BY DEF Notice, Sound, Fields

\* Signing a message keeps its fields.
LEMMA SignedFields ==
  ASSUME NEW n, NEW m, Sound(m)
  PROVE  /\ From(n, m).nick = n /\ From(n, m).action = m.action
         /\ Fields(From(n, m))
         /\ \A f \in DOMAIN m : From(n, m)[f] = m[f]
<1>1. /\ "nick" \in DOMAIN m \cup {"nick"}
      /\ \A f \in DOMAIN m : f # "nick"
  BY DEF Sound
<1>2. From(n, m).nick = n /\ \A f \in DOMAIN m : From(n, m)[f] = m[f]
  BY <1>1 DEF From
<1>3. From(n, m).action = m.action
  BY <1>2 DEF Sound
<1> DEFINE x == From(n, m)
<1> HIDE DEF x
<1>4. /\ m.action = "VOTE" => x.topic = m.topic /\ x.choice = m.choice
      /\ m.action = "COMPLETED" => x.task = m.task
      /\ m.action = "ESCALATE" => x.task = m.task /\ x.to = m.to /\ x.severity = m.severity
  BY <1>2 DEF Sound, x
<1>5. /\ m.action = "REVIEW-REQUEST" => x.task = m.task /\ x.pr = m.pr /\ x.reviewType = m.reviewType
      /\ m.action = "REVIEW-COMPLETE" => x.task = m.task /\ x.pr = m.pr /\ x.verdict = m.verdict
      /\ m.action = "GATE-CHECK" => x.task = m.task /\ x.gate = m.gate /\ x.status = m.status
  BY <1>2 DEF Sound, x
<1>6. Fields(m) /\ x.action = m.action
  BY <1>3 DEF Sound, x
<1>7. Fields(x)
  BY <1>4, <1>5, <1>6 DEF Fields
<1> QED
  BY <1>2, <1>3, <1>7 DEF x

\* The rules: what the code reads of them.
LEMMA ConstantTypes ==
  ASSUME NEW a \in Nicks
  PROVE  /\ Roles[a] \in Seq(STRING) /\ Rules[a] \in Seq(Rule)
         /\ NotifyOn[a] \in SUBSET STRING /\ Says[a] \in SUBSET Sayable
BY DispatchConstants

LEMMA SignedMessage ==
  ASSUME NEW x \in Signed
  PROVE  x.nick \in Nicks /\ Fields(x)
<1>1. PICK n \in Nicks : x \in BySay(n) \cup ByRole(n) \cup ByNotice(n)
  BY DEF Signed
<1>2. \E m : Sound(m) /\ x = From(n, m)
  <2>1. CASE x \in BySay(n)
    BY <2>1, ConstantTypes, SayableSound DEF BySay
  <2>2. CASE x \in ByRole(n)
    BY <2>2, AnswerableSound DEF ByRole
  <2>3. CASE x \in ByNotice(n)
    BY <2>3, NoticeSound DEF ByNotice
  <2> QED
    BY <1>1, <2>1, <2>2, <2>3
<1> QED
  BY <1>2, SignedFields

LEMMA BySayMessage ==
  ASSUME NEW a \in Nicks, NEW x \in BySay(a)
  PROVE  x \in Signed /\ x.nick = a /\ x.action \notin {"TEXT", "none"}
<1>1. PICK m \in Says[a] : x = From(a, m)
  BY DEF BySay
<1>2. Sound(m) /\ m.action \notin {"TEXT", "none"}
  BY <1>1, ConstantTypes, SayableSound
<1> QED
  BY <1>1, <1>2, SignedFields DEF Signed

LEMMA ByRoleMessage ==
  ASSUME NEW a \in Nicks, NEW x \in ByRole(a)
  PROVE  /\ x \in Signed /\ x.nick = a
         /\ x.action \in {"REVIEW-COMPLETE", "GATE-CHECK", "STARTED", "OFFER", "CHECKPOINT"}
<1>1. PICK m \in Answerable(a) : x = From(a, m)
  BY DEF ByRole
<1>2. /\ Sound(m)
      /\ m.action \in {"REVIEW-COMPLETE", "GATE-CHECK", "STARTED", "OFFER", "CHECKPOINT"}
  BY <1>1, AnswerableSound
<1> QED
  BY <1>1, <1>2, SignedFields DEF Signed

LEMMA ByNoticeMessage ==
  ASSUME NEW a \in Nicks, NEW x \in ByNotice(a)
  PROVE  x \in Signed /\ x.nick = a /\ x.action = "TEXT"
<1>1. PICK m \in Notice : x = From(a, m)
  BY DEF ByNotice
<1> QED
  BY <1>1, NoticeSound, SignedFields DEF Signed

\* What one role answers, and all roles of an agent.
LEMMA AnswersAre ==
  ASSUME NEW a \in Nicks, NEW role \in ToSet(Roles[a]), NEW m, Fields(m)
  PROVE  Answers(role, m) \in Seq(Answerable(a))
<1>1. \/ Answers(role, m) = <<>>
      \/ /\ m.action = "REVIEW-REQUEST"
         /\ Answers(role, m) = <<CompleteReview(m.task, m.pr, "approved")>>
      \/ /\ m.action = "REVIEW-REQUEST" /\ role = "monitoring-guardian"
         /\ Answers(role, m) = <<GateCheck(m.task, "monitoring", "passed")>>
      \/ /\ m.action = "REVIEW-COMPLETE"
         /\ Answers(role, m) = <<AnnounceStarted(Append(m.task, "merge"))>>
      \/ /\ m.action = "COMPLETED"
         /\ Answers(role, m) = <<Checkpoint(Append(Front(m.task), "release"), 0)>>
      \/ /\ m.action = "COMPLETED"
         /\ Answers(role, m) = <<OfferTask(Append(Front(m.task), "cleanup"))>>
      \/ /\ m.action = "ESCALATE"
         /\ Answers(role, m) = <<AnnounceStarted(Append(m.task, "incident"))>>
  BY DEF Answers
<1>2. ASSUME NEW t \in Tasks, NEW w \in Word
      PROVE  Append(t, w) \in Names /\ Append(Front(t), w) \in Names
  BY DEF Names
<1>3. \A y \in Answerable(a) : <<y>> \in Seq(Answerable(a))
  OBVIOUS
<1>4. <<>> \in Seq(Answerable(a))
  OBVIOUS
<1>5. ASSUME m.action = "REVIEW-REQUEST"
      PROVE  CompleteReview(m.task, m.pr, "approved") \in Answerable(a)
  BY <1>5 DEF Fields, Answerable, CompleteReview
<1>6. ASSUME m.action = "REVIEW-REQUEST", role = "monitoring-guardian"
      PROVE  GateCheck(m.task, "monitoring", "passed") \in Answerable(a)
  BY <1>6 DEF Fields, Answerable, GateCheck
<1>7. ASSUME NEW t \in Names
      PROVE  /\ AnnounceStarted(t) \in Answerable(a) /\ OfferTask(t) \in Answerable(a)
             /\ Checkpoint(t, 0) \in Answerable(a)
  BY DEF Answerable, AnnounceStarted, OfferTask, Checkpoint
<1>8. /\ m.action \in {"REVIEW-COMPLETE", "COMPLETED", "ESCALATE"} => m.task \in Tasks
      /\ "merge" \in Word /\ "release" \in Word /\ "cleanup" \in Word /\ "incident" \in Word
  BY DEF Fields, Word
<1>9. m.action \in {"REVIEW-COMPLETE", "COMPLETED", "ESCALATE"} =>
        /\ Append(m.task, "merge") \in Names /\ Append(m.task, "incident") \in Names
        /\ Append(Front(m.task), "release") \in Names /\ Append(Front(m.task), "cleanup") \in Names
  BY <1>2, <1>8
<1> QED
  BY <1>1, <1>3, <1>4, <1>5, <1>6, <1>7, <1>9

LEMMA RoleAnswersAre ==
  ASSUME NEW a \in Nicks, NEW m, Fields(m)
  PROVE  /\ RoleAnswers(Roles[a], m) \in Seq(Answerable(a))
         /\ \A role \in ToSet(Roles[a]) : \A y \in ToSet(Answers(role, m)) :
              y \in ToSet(RoleAnswers(Roles[a], m))
<1> DEFINE n == Len(Roles[a])
           seqs == [i \in DOMAIN Roles[a] |-> Answers(Roles[a][i], m)]
<1>1. n \in Nat /\ DOMAIN Roles[a] = 1..n
  BY ConstantTypes
<1>2. \A i \in 1..n : Roles[a][i] \in ToSet(Roles[a])
  BY <1>1 DEF ToSet
<1>3. seqs \in [1..n -> Seq(Answerable(a))]
  BY <1>1, <1>2, AnswersAre
<1>4. /\ FlattenSeq(seqs) \in Seq(Answerable(a))
      /\ \A i \in 1..n : \A y \in ToSet(seqs[i]) : y \in ToSet(FlattenSeq(seqs))
  <2> HIDE DEF seqs, n
  <2> QED
    BY <1>1, <1>3, FlattenParts
<1>5. \A role \in ToSet(Roles[a]) : \E i \in 1..n : Roles[a][i] = role
  BY <1>1 DEF ToSet
<1>6. \A i \in 1..n : seqs[i] = Answers(Roles[a][i], m)
  BY <1>1
<1>7. RoleAnswers(Roles[a], m) = FlattenSeq(seqs)
  BY DEF RoleAnswers
<1> HIDE DEF seqs, n
<1> QED
  BY <1>4, <1>5, <1>6, <1>7

\* The notifier's texts.
LEMMA NotificationsAre ==
  ASSUME NEW a \in Nicks, NEW m
  PROVE  Notifications(NotifyOn[a], m) \in Seq(Notice)
<1>1. NotifyOn[a] \in SUBSET STRING
  BY ConstantTypes
<1>2. \A e \in STRING : Text(e) \in Notice
  BY DEF Text, Notice
<1>3. \A e \in NotifyOn[a] : <<Text(e)>> \in Seq(Notice)
  <2>1. \A y \in Notice : <<y>> \in Seq(Notice)
    OBVIOUS
  <2> QED
    BY <1>1, <1>2, <2>1
<1>4. <<>> \in Seq(Notice)
  OBVIOUS
<1>5. \/ Notifications(NotifyOn[a], m) = <<>>
      \/ Event(m) \in NotifyOn[a] /\ Notifications(NotifyOn[a], m) = <<Text(Event(m))>>
  BY DEF Notifications, Formatter
<1> QED
  BY <1>3, <1>4, <1>5

-----------------------------------------------------------------------------
(***************************************************************************)
(* The stores of an agent, and what a message does to them.                *)
(***************************************************************************)
Review == [pr : Word, reviewType : Word, by : Nicks,
           reviewer : Nicks \cup {NoNick}, verdict : Word]
Gate   == [gate : Word, status : Word, checkedBy : Nicks]
Escal  == [task : Tasks, to : Nicks \cup {NoNick}, severity : Word, by : Nicks,
           resolved : BOOLEAN]

\* The parts of the stores that the properties are about.
StoresOK(s) ==
  /\ {"votes", "reviews", "gates", "escalations"} \subseteq DOMAIN s
  /\ s.votes \in [Topics -> [Nicks -> Word]]
  /\ s.reviews \in [Tasks -> Seq(Review)]
  /\ s.gates \in [Tasks -> Seq(Gate)]
  /\ s.escalations \in Seq(Escal)

\* updateLocalState, and what handleMessage does with a message it lets pass.
Updated(s, m) == UpdateCoordinationStores(UpdateState(s, m), m)

LEMMA UpdateStateKeeps ==
  ASSUME NEW s, NEW m, {"votes", "reviews", "gates", "escalations"} \subseteq DOMAIN s
  PROVE  /\ DOMAIN UpdateState(s, m) = DOMAIN s
         /\ UpdateState(s, m).votes = s.votes /\ UpdateState(s, m).reviews = s.reviews
         /\ UpdateState(s, m).gates = s.gates
         /\ UpdateState(s, m).escalations = s.escalations
<1>1. /\ "votes" \in DOMAIN s /\ "reviews" \in DOMAIN s /\ "gates" \in DOMAIN s
      /\ "escalations" \in DOMAIN s
  OBVIOUS
<1> QED
  BY <1>1 DEF UpdateState

LEMMA CoordinationParts ==
  ASSUME NEW s, NEW m, {"votes", "reviews", "gates", "escalations"} \subseteq DOMAIN s
  PROVE  LET u == UpdateCoordinationStores(s, m)
         IN  /\ DOMAIN u = DOMAIN s
             /\ u.votes = IF m.action = "VOTE" THEN RecordVote(s.votes, m) ELSE s.votes
             /\ u.reviews = CASE m.action = "REVIEW-REQUEST" -> RecordRequest(s.reviews, m)
                              [] m.action = "REVIEW-COMPLETE" -> RecordComplete(s.reviews, m)
                              [] OTHER -> s.reviews
             /\ u.gates = IF m.action = "GATE-CHECK" THEN RecordGate(s.gates, m) ELSE s.gates
             /\ u.escalations = IF m.action = "ESCALATE" THEN RecordEscalation(s.escalations, m)
                                ELSE s.escalations
<1>1. /\ "votes" \in DOMAIN s /\ "reviews" \in DOMAIN s /\ "gates" \in DOMAIN s
      /\ "escalations" \in DOMAIN s
  OBVIOUS
<1> QED
  BY <1>1 DEF UpdateCoordinationStores

\* The effect of a message on each of the parts.
LEMMA UpdateParts ==
  ASSUME NEW s, NEW m, StoresOK(s)
  PROVE  LET u == Updated(s, m)
         IN  /\ DOMAIN u = DOMAIN s
             /\ u.votes = IF m.action = "VOTE" THEN RecordVote(s.votes, m) ELSE s.votes
             /\ u.reviews = CASE m.action = "REVIEW-REQUEST" -> RecordRequest(s.reviews, m)
                              [] m.action = "REVIEW-COMPLETE" -> RecordComplete(s.reviews, m)
                              [] OTHER -> s.reviews
             /\ u.gates = IF m.action = "GATE-CHECK" THEN RecordGate(s.gates, m) ELSE s.gates
             /\ u.escalations = IF m.action = "ESCALATE" THEN RecordEscalation(s.escalations, m)
                                ELSE s.escalations
<1>1. {"votes", "reviews", "gates", "escalations"} \subseteq DOMAIN s
  BY DEF StoresOK
<1> DEFINE x == UpdateState(s, m)
<1>2. /\ DOMAIN x = DOMAIN s /\ x.votes = s.votes /\ x.reviews = s.reviews
      /\ x.gates = s.gates /\ x.escalations = s.escalations
  BY <1>1, UpdateStateKeeps
<1> HIDE DEF x
<1>3. {"votes", "reviews", "gates", "escalations"} \subseteq DOMAIN x
  BY <1>1, <1>2
<1>4. Updated(s, m) = UpdateCoordinationStores(x, m)
  BY DEF Updated, x
<1> QED
  BY <1>2, <1>3, <1>4, CoordinationParts

\* The latest pending review of the pull request, if any, gets the verdict.
PendingOn(rs, pr) == {i \in DOMAIN rs : rs[i].verdict = "" /\ (pr = "" \/ rs[i].pr = pr)}

Settled(r, m) == [r EXCEPT !.reviewer = m.nick, !.verdict = m.verdict]

\* The reviews rs of a task become new when m completes one of them, if one is pending.
CompletesTo(rs, new, m) ==
  \/ PendingOn(rs, m.pr) = {} /\ new = rs
  \/ \E k \in PendingOn(rs, m.pr) :
       /\ k \in 1..Len(rs) /\ Len(new) = Len(rs)
       /\ \A i \in 1..Len(rs) : new[i] = IF i = k THEN Settled(rs[k], m) ELSE rs[i]

LEMMA CompleteEffect ==
  ASSUME NEW reviews \in [Tasks -> Seq(Review)], NEW m, m.task \in Tasks, m.nick \in Nicks,
         m.verdict \in Word
  PROVE  /\ RecordComplete(reviews, m) \in [Tasks -> Seq(Review)]
         /\ \A t \in Tasks \ {m.task} : RecordComplete(reviews, m)[t] = reviews[t]
         /\ CompletesTo(reviews[m.task], RecordComplete(reviews, m)[m.task], m)
<1> DEFINE rs   == reviews[m.task]
           open == PendingOn(rs, m.pr)
           k    == Max(open)
           rec  == Settled(rs[k], m)
           new  == RecordComplete(reviews, m)
<1>1. rs \in Seq(Review) /\ Len(rs) \in Nat /\ DOMAIN rs = 1..Len(rs)
  OBVIOUS
<1>2. CASE open = {}
  <2>1. new = reviews
    BY <1>2 DEF RecordComplete, PendingOn
  <2> QED
    BY <1>2, <2>1 DEF CompletesTo
<1>3. CASE open # {}
  <2>1. open \in SUBSET (1..Len(rs))
    BY <1>1 DEF PendingOn
  <2>2. k \in open
    <3> HIDE DEF open, rs
    <3> QED
      BY <1>1, <1>3, <2>1, MaxOfSome
  <2>3. new = [reviews EXCEPT ![m.task][k].reviewer = m.nick, ![m.task][k].verdict = m.verdict]
    BY <1>3 DEF RecordComplete, PendingOn
  <2> HIDE DEF k, open
  <2>4. k \in 1..Len(rs) /\ rs[k] \in Review
    BY <1>1, <2>1, <2>2
  <2>5. rec \in Review
    BY <2>4 DEF Review, Settled
  <2>6. /\ new[m.task] = [rs EXCEPT ![k] = rec]
        /\ \A t \in Tasks \ {m.task} : new[t] = reviews[t]
        /\ DOMAIN new = Tasks
    <3> DEFINE half == [rs EXCEPT ![k].reviewer = m.nick]
    <3>1. new[m.task] = [half EXCEPT ![k].verdict = m.verdict]
      BY <2>3
    <3>2. half = [rs EXCEPT ![k] = [rs[k] EXCEPT !.reviewer = m.nick]]
      OBVIOUS
    <3>3. half[k] = [rs[k] EXCEPT !.reviewer = m.nick] /\ DOMAIN half = DOMAIN rs
      BY <1>1, <2>4
    <3>4. [half[k] EXCEPT !.verdict = m.verdict] = rec
      BY <3>3 DEF Settled
    <3>5. [half EXCEPT ![k].verdict = m.verdict] = [rs EXCEPT ![k] = rec]
      <4>1. [half EXCEPT ![k].verdict = m.verdict] = [half EXCEPT ![k] = rec]
        BY <3>4
      <4> HIDE DEF rec
      <4>2. [half EXCEPT ![k] = rec] = [rs EXCEPT ![k] = rec]
        BY <3>2
      <4> QED
        BY <4>1, <4>2
    <3>6. (\A t \in Tasks \ {m.task} : new[t] = reviews[t]) /\ DOMAIN new = Tasks
      BY <2>3
    <3> QED
      BY <3>1, <3>5, <3>6
  <2>7. new = [t \in Tasks |-> new[t]]
    BY <2>3
  <2> HIDE DEF new, rec
  <2>8. /\ new[m.task] \in Seq(Review) /\ Len(new[m.task]) = Len(rs)
        /\ \A i \in 1..Len(rs) : new[m.task][i] = IF i = k THEN rec ELSE rs[i]
    BY <1>1, <2>4, <2>5, <2>6
  <2>9. new \in [Tasks -> Seq(Review)]
    BY <2>6, <2>7, <2>8
  <2>10. \A t \in Tasks \ {m.task} : new[t] = reviews[t]
    BY <2>6
  <2>11. CompletesTo(rs, new[m.task], m)
    <3> HIDE DEF rs
    <3>1. k \in PendingOn(rs, m.pr)
      BY <2>2 DEF open
    <3> QED
      BY <2>4, <2>8, <3>1 DEF CompletesTo, rec
  <2> QED
    BY <2>9, <2>10, <2>11 DEF new
<1> QED
  BY <1>2, <1>3

LEMMA RequestEffect ==
  ASSUME NEW reviews \in [Tasks -> Seq(Review)], NEW m, m.action = "REVIEW-REQUEST",
         Fields(m), m.nick \in Nicks
  PROVE  LET r == [pr |-> m.pr, reviewType |-> m.reviewType, by |-> m.nick,
                   reviewer |-> NoNick, verdict |-> ""]
         IN  /\ r \in Review /\ m.task \in Tasks
             /\ RecordRequest(reviews, m) \in [Tasks -> Seq(Review)]
             /\ RecordRequest(reviews, m)[m.task] = Append(reviews[m.task], r)
             /\ \A t \in Tasks \ {m.task} : RecordRequest(reviews, m)[t] = reviews[t]
<1> DEFINE r == [pr |-> m.pr, reviewType |-> m.reviewType, by |-> m.nick,
                 reviewer |-> NoNick, verdict |-> ""]
<1>1. m.task \in Tasks /\ m.pr \in Word /\ m.reviewType \in Word /\ "" \in Word
  BY DEF Fields, Word
<1>2. r \in Review
  BY <1>1 DEF Review
<1>3. RecordRequest(reviews, m) = [reviews EXCEPT ![m.task] = Append(@, r)]
  BY DEF RecordRequest
<1> HIDE DEF r
<1>4. Append(reviews[m.task], r) \in Seq(Review)
  <2>1. reviews[m.task] \in Seq(Review)
    BY <1>1
  <2> QED
    BY <1>2, <2>1
<1> QED
  BY <1>1, <1>2, <1>3, <1>4 DEF r

LEMMA GateEffect ==
  ASSUME NEW gates \in [Tasks -> Seq(Gate)], NEW m, m.action = "GATE-CHECK",
         Fields(m), m.nick \in Nicks
  PROVE  LET g == [gate |-> m.gate, status |-> m.status, checkedBy |-> m.nick]
         IN  /\ g \in Gate /\ m.task \in Tasks
             /\ RecordGate(gates, m) \in [Tasks -> Seq(Gate)]
             /\ RecordGate(gates, m)[m.task] = Append(gates[m.task], g)
             /\ \A t \in Tasks \ {m.task} : RecordGate(gates, m)[t] = gates[t]
<1> DEFINE g == [gate |-> m.gate, status |-> m.status, checkedBy |-> m.nick]
<1>1. m.task \in Tasks /\ m.gate \in Word /\ m.status \in Word
  BY DEF Fields
<1>2. g \in Gate
  BY <1>1 DEF Gate
<1>3. RecordGate(gates, m) = [gates EXCEPT ![m.task] = Append(@, g)]
  BY DEF RecordGate
<1> HIDE DEF g
<1>4. Append(gates[m.task], g) \in Seq(Gate)
  <2>1. gates[m.task] \in Seq(Gate)
    BY <1>1
  <2> QED
    BY <1>2, <2>1
<1> QED
  BY <1>1, <1>2, <1>3, <1>4 DEF g

LEMMA VoteEffect ==
  ASSUME NEW votes \in [Topics -> [Nicks -> Word]], NEW m, m.action = "VOTE",
         Fields(m), m.nick \in Nicks
  PROVE  /\ m.topic \in Topics
         /\ RecordVote(votes, m) \in [Topics -> [Nicks -> Word]]
         /\ \A p \in Topics, n \in Nicks :
              RecordVote(votes, m)[p][n] = IF p = m.topic /\ n = m.nick THEN m.choice
                                                                        ELSE votes[p][n]
<1>1. m.topic \in Topics /\ m.choice \in Word
  BY DEF Fields
<1> QED
  BY <1>1 DEF RecordVote

LEMMA EscalateEffect ==
  ASSUME NEW es \in Seq(Escal), NEW m, m.action = "ESCALATE", Fields(m), m.nick \in Nicks
  PROVE  LET e == [task |-> m.task, to |-> m.to, severity |-> m.severity, by |-> m.nick,
                   resolved |-> FALSE]
         IN  /\ e \in Escal
             /\ RecordEscalation(es, m) = Append(es, e)
             /\ RecordEscalation(es, m) \in Seq(Escal)
<1> DEFINE e == [task |-> m.task, to |-> m.to, severity |-> m.severity, by |-> m.nick,
                 resolved |-> FALSE]
<1>1. e \in Escal
  BY DEF Fields, Escal
<1>2. RecordEscalation(es, m) = Append(es, e)
  BY DEF RecordEscalation
<1> HIDE DEF e
<1>3. Append(es, e) \in Seq(Escal)
  BY <1>1
<1> QED
  BY <1>1, <1>2, <1>3 DEF e

\* ResolveEscalation changes one flag at most.
LEMMA ResolveEffect ==
  ASSUME NEW es \in Seq(Escal), NEW t
  PROVE  /\ ResolveEscalation(es, t) \in Seq(Escal)
         /\ Len(ResolveEscalation(es, t)) = Len(es)
         /\ \A i \in 1..Len(es) : /\ ResolveEscalation(es, t)[i].task = es[i].task
                                  /\ ResolveEscalation(es, t)[i].by = es[i].by
<1> DEFINE open == {i \in DOMAIN es : es[i].task = t /\ ~es[i].resolved}
           k == Max(open)
           new == [es EXCEPT ![k].resolved = TRUE]
<1>1. ResolveEscalation(es, t) = IF open = {} THEN es ELSE new
  BY DEF ResolveEscalation
<1>2. CASE open = {}
  BY <1>1, <1>2
<1>3. CASE open # {}
  <2>1. open \in SUBSET (1..Len(es)) /\ Len(es) \in Nat
    OBVIOUS
  <2>2. k \in 1..Len(es)
    <3> HIDE DEF open
    <3> QED
      BY <1>3, <2>1, MaxOfSome
  <2> HIDE DEF open, k
  <2>3. es[k] \in Escal
    BY <2>2
  <2>4. [es[k] EXCEPT !.resolved = TRUE] \in Escal
    BY <2>3 DEF Escal
  <2>5. new \in Seq(Escal) /\ Len(new) = Len(es)
    BY <2>2, <2>4
  <2>6. \A i \in 1..Len(es) : new[i].task = es[i].task /\ new[i].by = es[i].by
    BY <2>2, <2>3 DEF Escal
  <2> QED
    BY <1>1, <1>3, <2>5, <2>6
<1> QED
  BY <1>2, <1>3

\* The stores keep their types.
LEMMA UpdatedOK ==
  ASSUME NEW s, NEW m, StoresOK(s), Fields(m), m.nick \in Nicks
  PROVE  StoresOK(Updated(s, m))
<1> DEFINE u == Updated(s, m)
<1>1. /\ s.votes \in [Topics -> [Nicks -> Word]] /\ s.reviews \in [Tasks -> Seq(Review)]
      /\ s.gates \in [Tasks -> Seq(Gate)] /\ s.escalations \in Seq(Escal)
      /\ {"votes", "reviews", "gates", "escalations"} \subseteq DOMAIN s
  BY DEF StoresOK
<1>2. DOMAIN u = DOMAIN s
  BY UpdateParts
<1>3. u.votes \in [Topics -> [Nicks -> Word]]
  BY <1>1, UpdateParts, VoteEffect
<1>4. u.reviews \in [Tasks -> Seq(Review)]
  <2>1. CASE m.action = "REVIEW-REQUEST"
    <3>1. RecordRequest(s.reviews, m) \in [Tasks -> Seq(Review)]
      BY <1>1, <2>1, RequestEffect
    <3> QED
      BY <2>1, <3>1, UpdateParts
  <2>2. CASE m.action = "REVIEW-COMPLETE"
    <3>1. m.task \in Tasks /\ m.verdict \in Word
      BY <2>2 DEF Fields
    <3>2. RecordComplete(s.reviews, m) \in [Tasks -> Seq(Review)]
      BY <1>1, <3>1, CompleteEffect
    <3> QED
      BY <2>2, <3>2, UpdateParts
  <2>3. CASE m.action \notin {"REVIEW-REQUEST", "REVIEW-COMPLETE"}
    BY <1>1, <2>3, UpdateParts
  <2> QED
    BY <2>1, <2>2, <2>3
<1>5. u.gates \in [Tasks -> Seq(Gate)]
  <2>1. m.action = "GATE-CHECK" => RecordGate(s.gates, m) \in [Tasks -> Seq(Gate)]
    BY <1>1, GateEffect
  <2> QED
    BY <1>1, <2>1, UpdateParts
<1>6. u.escalations \in Seq(Escal)
  BY <1>1, UpdateParts, EscalateEffect
<1> HIDE DEF u
<1>7. StoresOK(u)
  BY <1>1, <1>2, <1>3, <1>4, <1>5, <1>6 DEF StoresOK
<1> QED
  BY <1>7 DEF u

-----------------------------------------------------------------------------
(***************************************************************************)
(* The type invariant, and what the actions do.                            *)
(***************************************************************************)
Thread == {"app", "reader"}

\* What a thread of an agent sends, and what handlers have to send.
Sends(a, th) == IF th = "app" THEN BySay(a) ELSE ByRole(a)

Reply(a) == Answerable(a) \cup Notice

DispTypes ==
  /\ DOMAIN st = Nicks /\ \A a \in Nicks : StoresOK(st[a])
  /\ out \in [Nicks -> [Thread -> {None} \cup Signed]]
  /\ \A a \in Nicks, th \in Thread : out[a][th] \in {None} \cup Sends(a, th)
  /\ DOMAIN replies = Nicks /\ \A a \in Nicks : replies[a] \in Seq(Reply(a))
  /\ inbox \in [Nicks -> Seq(Signed)]
  /\ \A a \in Nicks : \A i \in 1..Len(inbox[a]) : inbox[a][i].nick # a

LEMMA SendsMessage ==
  ASSUME NEW a \in Nicks, NEW th \in Thread, NEW x \in Sends(a, th)
  PROVE  /\ x \in Signed /\ x.nick = a /\ x.action \notin {"TEXT", "none"}
         /\ Fields(x) /\ x # None
<1>1. x \in BySay(a) \/ x \in ByRole(a)
  BY DEF Sends
<1>2. x \in Signed /\ x.nick = a /\ x.action \notin {"TEXT", "none"}
  BY <1>1, BySayMessage, ByRoleMessage
<1>3. x # None
  BY <1>2 DEF None
<1> QED
  BY <1>2, <1>3, SignedMessage

LEMMA DispTypesInit == Init => DispTypes
<1> SUFFICES ASSUME Init PROVE DispTypes
  OBVIOUS
<1>1. StoresOK(NewAgent)
  <2>1. {"votes", "reviews", "gates", "escalations"} \subseteq DOMAIN NewAgent
    BY DEF NewAgent, NewStores
  <2>2. /\ NewAgent.votes = NewStores.votes /\ NewAgent.reviews = NewStores.reviews
        /\ NewAgent.gates = NewStores.gates /\ NewAgent.escalations = NewStores.escalations
    BY <2>1 DEF NewAgent
  <2>3. "none" \in Word
    BY DEF Word
  <2>4. /\ NewStores.votes \in [Topics -> [Nicks -> Word]] /\ NewStores.reviews \in [Tasks -> Seq(Review)]
        /\ NewStores.gates \in [Tasks -> Seq(Gate)] /\ NewStores.escalations \in Seq(Escal)
    BY <2>3 DEF NewStores
  <2> QED
    BY <2>1, <2>2, <2>4 DEF StoresOK
<1>2. /\ st = [a \in Nicks |-> NewAgent] /\ replies = [a \in Nicks |-> <<>>]
      /\ inbox = [a \in Nicks |-> <<>>]
      /\ out = [a \in Nicks |-> [app |-> None, reader |-> None]]
  BY DEF Init
<1>3. [app |-> None, reader |-> None] = [th \in Thread |-> None]
  BY DEF Thread
<1>4. out \in [Nicks -> [Thread -> {None} \cup Signed]] /\ \A a \in Nicks, th \in Thread : out[a][th] = None
  BY <1>2, <1>3
<1> QED
  BY <1>1, <1>2, <1>4 DEF DispTypes

\* Thread th of agent a has applied message x to the stores of a, and has to send it.
Applied(a, th, x) ==
  /\ DOMAIN st' = Nicks /\ st'[a] = Updated(st[a], x)
  /\ \A b \in Nicks \ {a} : st'[b] = st[b]
  /\ out[a][th] = None /\ out' = [out EXCEPT ![a][th] = x]
  /\ x \in Sends(a, th) /\ Check(Rules[a], a, x.action)
  /\ inbox' = inbox

LEMMA AppSendsEffect ==
  ASSUME DispTypes, NEW a \in Nicks, AppSends(a)
  PROVE  (\E x : Applied(a, "app", x)) /\ replies' = replies
<1>1. PICK m \in Says[a] : Check(Rules[a], a, m.action) /\ Apply(a, "app", m)
  BY DEF AppSends
<1> DEFINE x == From(a, m)
<1>2. x \in BySay(a) /\ x.action = m.action
  BY <1>1, ConstantTypes, SayableSound, SignedFields DEF BySay
<1>3. /\ DOMAIN st' = Nicks /\ st'[a] = Updated(st[a], x)
      /\ \A b \in Nicks \ {a} : st'[b] = st[b]
      /\ out' = [out EXCEPT ![a]["app"] = x]
  BY <1>1 DEF DispTypes, Apply, UpdateLocalState, Updated
<1>4. out[a]["app"] = None /\ inbox' = inbox /\ replies' = replies
  BY DEF AppSends
<1> QED
  BY <1>1, <1>2, <1>3, <1>4 DEF Applied, Sends

\* A role's answer is sent, or the agent's own rules deny it.
LEMMA AnswerEffect ==
  ASSUME DispTypes, NEW a \in Nicks, Answer(a)
  PROVE  /\ replies[a] # <<>> /\ replies' = [replies EXCEPT ![a] = Tail(@)]
         /\ Head(replies[a]) \in Answerable(a)
         /\ \/ /\ Applied(a, "reader", From(a, Head(replies[a])))
               /\ Check(Rules[a], a, Head(replies[a]).action)
            \/ /\ st' = st /\ out' = out /\ inbox' = inbox
               /\ ~Check(Rules[a], a, Head(replies[a]).action)
<1> DEFINE m == Head(replies[a])
           x == From(a, m)
<1>1. /\ replies[a] # <<>> /\ replies' = [replies EXCEPT ![a] = Tail(@)]
      /\ m.action # "TEXT" /\ out[a]["reader"] = None /\ inbox' = inbox
      /\ IF Check(Rules[a], a, m.action) THEN Apply(a, "reader", m) ELSE st' = st /\ out' = out
  BY DEF Answer
<1>2. m \in Answerable(a) \cup Notice
  <2>1. replies[a] \in Seq(Answerable(a) \cup Notice)
    BY DEF DispTypes, Reply
  <2> QED
    BY <1>1, <2>1
<1>3. m \in Answerable(a)
  BY <1>1, <1>2, NoticeSound
<1>4. x \in ByRole(a) /\ x.action = m.action
  BY <1>3, AnswerableSound, SignedFields DEF ByRole
<1>5. ASSUME Apply(a, "reader", m)
      PROVE  /\ DOMAIN st' = Nicks /\ st'[a] = Updated(st[a], x)
             /\ \A b \in Nicks \ {a} : st'[b] = st[b]
             /\ out' = [out EXCEPT ![a]["reader"] = x]
  BY <1>5 DEF DispTypes, Apply, UpdateLocalState, Updated
<1> HIDE DEF m
<1> QED
  BY <1>1, <1>3, <1>4, <1>5 DEF Applied, Sends, m

\* Message x of agent a has reached the inboxes of all others.
Relayed(a, x) ==
  inbox' = [b \in Nicks |-> IF b = a THEN inbox[b] ELSE Append(inbox[b], x)]

LEMMA TransmitEffect ==
  ASSUME DispTypes, NEW a \in Nicks, NEW th \in Thread, Transmit(a, th)
  PROVE  /\ out[a][th] \in Sends(a, th)
         /\ Relayed(a, out[a][th])
         /\ out' = [out EXCEPT ![a][th] = None]
         /\ st' = st /\ replies' = replies
BY DEF DispTypes, Transmit, Relay, Relayed

LEMMA NotifyEffect ==
  ASSUME DispTypes, NEW a \in Nicks, Notify(a)
  PROVE  /\ replies[a] # <<>> /\ replies' = [replies EXCEPT ![a] = Tail(@)]
         /\ Head(replies[a]) \in Notice
         /\ From(a, Head(replies[a])) \in ByNotice(a)
         /\ Relayed(a, From(a, Head(replies[a])))
         /\ st' = st /\ out' = out
<1> DEFINE m == Head(replies[a])
<1>1. /\ replies[a] # <<>> /\ replies' = [replies EXCEPT ![a] = Tail(@)]
      /\ m.action = "TEXT" /\ Relay(a, From(a, m)) /\ st' = st /\ out' = out
  BY DEF Notify
<1>2. m \in Answerable(a) \cup Notice
  <2>1. replies[a] \in Seq(Answerable(a) \cup Notice)
    BY DEF DispTypes, Reply
  <2> QED
    BY <1>1, <2>1
<1>3. m \in Notice
  BY <1>1, <1>2, AnswerableSound
<1>4. From(a, m) \in ByNotice(a)
  BY <1>3 DEF ByNotice
<1> QED
  BY <1>1, <1>3, <1>4 DEF Relay, Relayed

\* A message that passes is applied and answered; one that does not changes nothing.
Passes(a, m) == m.action # "TEXT" /\ Check(Rules[a], m.nick, m.action)

LEMMA ReceiveEffect ==
  ASSUME DispTypes, NEW a \in Nicks, Receive(a)
  PROVE  LET m == Head(inbox[a])
         IN  /\ inbox[a] # <<>> /\ m \in Signed /\ m.nick # a
             /\ replies[a] = <<>> /\ out[a]["reader"] = None
             /\ inbox' = [inbox EXCEPT ![a] = Tail(@)] /\ out' = out
             /\ DOMAIN st' = Nicks /\ \A b \in Nicks \ {a} : st'[b] = st[b]
             /\ st'[a] = IF Passes(a, m) THEN Updated(st[a], m) ELSE st[a]
             /\ \/ Passes(a, m) /\ \E order \in {<<RoleAnswers(Roles[a], m), Notifications(NotifyOn[a], m)>>,
                                                 <<Notifications(NotifyOn[a], m), RoleAnswers(Roles[a], m)>>} :
                                     replies' = [replies EXCEPT ![a] = order[1] \o order[2]]
                \/ ~Passes(a, m) /\ replies' = replies
<1> DEFINE m == Head(inbox[a])
<1>1. /\ inbox[a] # <<>> /\ replies[a] = <<>> /\ out[a]["reader"] = None
      /\ inbox' = [inbox EXCEPT ![a] = Tail(@)] /\ out' = out
  BY DEF Receive
<1>2. inbox[a] \in Seq(Signed) /\ \A i \in 1..Len(inbox[a]) : inbox[a][i].nick # a
  BY DEF DispTypes
<1>3. m = inbox[a][1] /\ 1 \in 1..Len(inbox[a]) /\ m \in Signed
  BY <1>1, <1>2
<1>4. m.nick # a
  BY <1>2, <1>3
<1>5. CASE Passes(a, m)
  <2>1. /\ st' = [st EXCEPT ![a] = UpdateCoordinationStores(UpdateState(@, m), m)]
        /\ \E order \in {<<RoleAnswers(Roles[a], m), Notifications(NotifyOn[a], m)>>,
                         <<Notifications(NotifyOn[a], m), RoleAnswers(Roles[a], m)>>} :
             replies' = [replies EXCEPT ![a] = order[1] \o order[2]]
    BY <1>4, <1>5 DEF Receive, Passes
  <2>2. /\ DOMAIN st' = Nicks /\ (\A b \in Nicks \ {a} : st'[b] = st[b])
        /\ st'[a] = Updated(st[a], m)
    BY <2>1 DEF DispTypes, Updated
  <2> HIDE DEF m
  <2> QED
    BY <1>1, <1>3, <1>4, <1>5, <2>1, <2>2 DEF m
<1>6. CASE ~Passes(a, m)
  <2>1. st' = st /\ replies' = replies
    BY <1>6 DEF Receive, Passes
  <2> QED
    BY <1>1, <1>3, <1>4, <1>6, <2>1 DEF DispTypes
<1> QED
  BY <1>5, <1>6

\* The stores u are s, the escalations apart.
SameBut(u, s) == DOMAIN u = DOMAIN s /\ \A f \in DOMAIN s : f # "escalations" => u[f] = s[f]

LEMMA ResolveStep ==
  ASSUME DispTypes, NEW a \in Nicks, NEW t \in Tasks, Resolve(a, t)
  PROVE  /\ DOMAIN st' = Nicks /\ StoresOK(st'[a])
         /\ \A b \in Nicks \ {a} : st'[b] = st[b]
         /\ st'[a].votes = st[a].votes /\ st'[a].reviews = st[a].reviews
         /\ st'[a].gates = st[a].gates
         /\ st'[a].escalations = ResolveEscalation(st[a].escalations, t)
         /\ SameBut(st'[a], st[a])
         /\ out' = out /\ replies' = replies /\ inbox' = inbox
<1> DEFINE s == st[a]
           e == ResolveEscalation(s.escalations, t)
<1>1. /\ s.votes \in [Topics -> [Nicks -> Word]] /\ s.reviews \in [Tasks -> Seq(Review)]
      /\ s.gates \in [Tasks -> Seq(Gate)] /\ s.escalations \in Seq(Escal)
      /\ "votes" \in DOMAIN s /\ "reviews" \in DOMAIN s /\ "gates" \in DOMAIN s
      /\ "escalations" \in DOMAIN s /\ DOMAIN st = Nicks
  BY DEF StoresOK, DispTypes
<1>2. e \in Seq(Escal)
  BY <1>1, ResolveEffect
<1>3. st' = [st EXCEPT ![a].escalations = e] /\ out' = out /\ replies' = replies /\ inbox' = inbox
  BY DEF Resolve
<1> HIDE DEF e
<1>4. st'[a] = [s EXCEPT !.escalations = e] /\ DOMAIN st' = Nicks /\ \A b \in Nicks \ {a} : st'[b] = st[b]
  BY <1>1, <1>3
<1>5. /\ st'[a].votes = s.votes /\ st'[a].reviews = s.reviews /\ st'[a].gates = s.gates
      /\ st'[a].escalations = e /\ DOMAIN st'[a] = DOMAIN s
  BY <1>1, <1>4
<1>6. SameBut(st'[a], s)
  BY <1>4 DEF SameBut
<1> QED
  BY <1>1, <1>2, <1>3, <1>4, <1>5, <1>6 DEF StoresOK, e

\* A queue keeps its type, and a message of somebody else may be appended.
LEMMA RelayTypes ==
  ASSUME DispTypes, NEW a \in Nicks, NEW x \in Signed, x.nick = a, Relayed(a, x)
  PROVE  /\ inbox' \in [Nicks -> Seq(Signed)]
         /\ \A b \in Nicks : \A i \in 1..Len(inbox'[b]) : inbox'[b][i].nick # b
<1>1. inbox \in [Nicks -> Seq(Signed)]
      /\ \A b \in Nicks : \A i \in 1..Len(inbox[b]) : inbox[b][i].nick # b
  BY DEF DispTypes
<1> SUFFICES ASSUME NEW b \in Nicks
             PROVE  /\ inbox'[b] \in Seq(Signed)
                    /\ \A i \in 1..Len(inbox'[b]) : inbox'[b][i].nick # b
  BY <1>1 DEF Relayed
<1>2. CASE b = a
  BY <1>1, <1>2 DEF Relayed
<1>3. CASE b # a
  <2> DEFINE q == inbox[b]
  <2>1. inbox'[b] = Append(q, x) /\ q \in Seq(Signed) /\ \A i \in 1..Len(q) : q[i].nick # b
    BY <1>1, <1>3 DEF Relayed
  <2> HIDE DEF q
  <2>2. /\ Append(q, x) \in Seq(Signed)
        /\ \A i \in 1..Len(Append(q, x)) : Append(q, x)[i] = x \/ \E j \in 1..Len(q) : Append(q, x)[i] = q[j]
    BY <2>1
  <2> QED
    BY <1>3, <2>1, <2>2
<1> QED
  BY <1>2, <1>3

LEMMA AppliedTypes ==
  ASSUME DispTypes, NEW a \in Nicks, NEW th \in Thread, NEW x, Applied(a, th, x)
  PROVE  /\ DOMAIN st' = Nicks /\ \A b \in Nicks : StoresOK(st'[b])
         /\ out' \in [Nicks -> [Thread -> {None} \cup Signed]]
         /\ \A b \in Nicks, h \in Thread : out'[b][h] \in {None} \cup Sends(b, h)
         /\ inbox' = inbox
<1>1. x \in Signed /\ Fields(x) /\ x.nick = a /\ x \in Sends(a, th)
  BY SendsMessage DEF Applied
<1>2. StoresOK(Updated(st[a], x))
  BY <1>1, UpdatedOK DEF DispTypes
<1> QED
  BY <1>1, <1>2 DEF Applied, DispTypes

LEMMA RepliesTail ==
  ASSUME DispTypes, NEW a \in Nicks, replies[a] # <<>>, replies' = [replies EXCEPT ![a] = Tail(@)]
  PROVE  DOMAIN replies' = Nicks /\ \A b \in Nicks : replies'[b] \in Seq(Reply(b))
<1>1. DOMAIN replies = Nicks /\ \A b \in Nicks : replies[b] \in Seq(Reply(b))
  BY DEF DispTypes
<1>2. Tail(replies[a]) \in Seq(Reply(a))
  BY <1>1
<1> QED
  BY <1>1, <1>2

LEMMA DispTypesStep == DispTypes /\ [Next]_vars => DispTypes'
<1> SUFFICES ASSUME DispTypes, [Next]_vars PROVE DispTypes'
  OBVIOUS
<1>1. ASSUME NEW a \in Nicks, AppSends(a) PROVE DispTypes'
  <2>1. (\E x : Applied(a, "app", x)) /\ replies' = replies
    BY <1>1, AppSendsEffect
  <2> QED
    BY <2>1, AppliedTypes DEF DispTypes, Thread
<1>2. ASSUME NEW a \in Nicks, NEW th \in Thread, Transmit(a, th) PROVE DispTypes'
  <2>1. /\ out[a][th] \in Sends(a, th) /\ Relayed(a, out[a][th])
        /\ out' = [out EXCEPT ![a][th] = None] /\ st' = st /\ replies' = replies
    BY <1>2, TransmitEffect
  <2>2. out[a][th] \in Signed /\ out[a][th].nick = a
    BY <2>1, SendsMessage
  <2>3. /\ inbox' \in [Nicks -> Seq(Signed)]
        /\ \A b \in Nicks : \A i \in 1..Len(inbox'[b]) : inbox'[b][i].nick # b
    BY <2>1, <2>2, RelayTypes
  <2> QED
    BY <2>1, <2>3 DEF DispTypes
<1>3. ASSUME NEW a \in Nicks, Receive(a) PROVE DispTypes'
  <2> DEFINE m == Head(inbox[a])
             q == inbox[a]
  <2>1. /\ q # <<>> /\ m \in Signed /\ inbox' = [inbox EXCEPT ![a] = Tail(@)] /\ out' = out
        /\ DOMAIN st' = Nicks /\ \A b \in Nicks \ {a} : st'[b] = st[b]
        /\ st'[a] = IF Passes(a, m) THEN Updated(st[a], m) ELSE st[a]
    BY <1>3, ReceiveEffect
  <2>2. m.nick \in Nicks /\ Fields(m)
    BY <2>1, SignedMessage
  <2>3. \A b \in Nicks : StoresOK(st'[b])
    <3> HIDE DEF m
    <3>1. StoresOK(st[a])
      BY DEF DispTypes
    <3>2. StoresOK(Updated(st[a], m))
      BY <2>2, <3>1, UpdatedOK
    <3>3. StoresOK(st'[a])
      BY <2>1, <3>1, <3>2
    <3> QED
      BY <2>1, <3>3 DEF DispTypes
  <2>4. Tail(q) \in Seq(Signed) /\ \A i \in 1..Len(Tail(q)) : \E j \in 1..Len(q) : Tail(q)[i] = q[j]
    BY <2>1 DEF DispTypes
  <2>5. /\ inbox' \in [Nicks -> Seq(Signed)]
        /\ \A b \in Nicks : \A i \in 1..Len(inbox'[b]) : inbox'[b][i].nick # b
    BY <2>1, <2>4 DEF DispTypes
  <2>6. DOMAIN replies' = Nicks /\ \A b \in Nicks : replies'[b] \in Seq(Reply(b))
    <3> DEFINE r == RoleAnswers(Roles[a], m)
               n == Notifications(NotifyOn[a], m)
    <3>1. r \in Seq(Answerable(a)) /\ n \in Seq(Notice)
      BY <2>2, RoleAnswersAre, NotificationsAre
    <3>2. \/ replies' = [replies EXCEPT ![a] = r \o n] \/ replies' = [replies EXCEPT ![a] = n \o r]
          \/ replies' = replies
      BY <1>3, ReceiveEffect
    <3> HIDE DEF r, n, m
    <3>3. r \in Seq(Reply(a)) /\ n \in Seq(Reply(a))
      BY <3>1 DEF Reply
    <3>4. r \o n \in Seq(Reply(a)) /\ n \o r \in Seq(Reply(a))
      BY <3>3
    <3> QED
      BY <3>2, <3>4 DEF DispTypes
  <2> QED
    BY <2>1, <2>3, <2>5, <2>6 DEF DispTypes
<1>4. ASSUME NEW a \in Nicks, Answer(a) PROVE DispTypes'
  <2>1. DOMAIN replies' = Nicks /\ \A b \in Nicks : replies'[b] \in Seq(Reply(b))
    BY <1>4, AnswerEffect, RepliesTail
  <2>2. (\E x : Applied(a, "reader", x)) \/ (st' = st /\ out' = out /\ inbox' = inbox)
    BY <1>4, AnswerEffect
  <2> QED
    BY <2>1, <2>2, AppliedTypes DEF DispTypes, Thread
<1>5. ASSUME NEW a \in Nicks, Notify(a) PROVE DispTypes'
  <2> DEFINE x == From(a, Head(replies[a]))
  <2>1. x \in ByNotice(a) /\ Relayed(a, x) /\ st' = st /\ out' = out
    BY <1>5, NotifyEffect
  <2>2. x \in Signed /\ x.nick = a
    BY <2>1, ByNoticeMessage
  <2>3. DOMAIN replies' = Nicks /\ \A b \in Nicks : replies'[b] \in Seq(Reply(b))
    BY <1>5, NotifyEffect, RepliesTail
  <2>4. /\ inbox' \in [Nicks -> Seq(Signed)]
        /\ \A b \in Nicks : \A i \in 1..Len(inbox'[b]) : inbox'[b][i].nick # b
    BY <2>1, <2>2, RelayTypes
  <2> QED
    BY <2>1, <2>3, <2>4 DEF DispTypes
<1>6. ASSUME NEW a \in Nicks, NEW t \in Tasks, Resolve(a, t) PROVE DispTypes'
  BY <1>6, ResolveStep DEF DispTypes
<1>7. CASE UNCHANGED vars
  BY <1>7 DEF DispTypes, vars
<1> QED
  BY <1>1, <1>2, <1>3, <1>4, <1>5, <1>6, <1>7 DEF Next, Thread

LEMMA TypesHold == Spec => []DispTypes
BY DispTypesInit, DispTypesStep, PTL DEF Spec

-----------------------------------------------------------------------------
(***************************************************************************)
(* What a message does to one topic, one task and the escalations.         *)
(***************************************************************************)
AskedIn(m) == [pr |-> m.pr, reviewType |-> m.reviewType, by |-> m.nick,
               reviewer |-> NoNick, verdict |-> ""]
CheckedIn(m) == [gate |-> m.gate, status |-> m.status, checkedBy |-> m.nick]
RaisedIn(m) == [task |-> m.task, to |-> m.to, severity |-> m.severity, by |-> m.nick,
                resolved |-> FALSE]
LEMMA VotesAfter ==
  ASSUME NEW s, StoresOK(s), NEW m \in Signed, NEW p \in Topics, NEW n \in Nicks
  PROVE  Updated(s, m).votes[p][n]
           = IF m.action = "VOTE" /\ p = m.topic /\ n = m.nick THEN m.choice
                                                               ELSE s.votes[p][n]
<1> DEFINE v == s.votes
           w == Updated(s, m).votes
<1>1. m.nick \in Nicks /\ Fields(m)
  BY SignedMessage
<1>2. w = IF m.action = "VOTE" THEN RecordVote(v, m) ELSE v
  BY UpdateParts
<1>3. v \in [Topics -> [Nicks -> Word]]
  BY DEF StoresOK
<1> HIDE DEF v, w
<1>4. m.action = "VOTE" => RecordVote(v, m)[p][n] = IF p = m.topic /\ n = m.nick THEN m.choice ELSE v[p][n]
  BY <1>1, <1>3, VoteEffect
<1>5. w[p][n] = IF m.action = "VOTE" /\ p = m.topic /\ n = m.nick THEN m.choice ELSE v[p][n]
  BY <1>2, <1>4
<1> QED
  BY <1>5 DEF v, w

LEMMA ReviewsAfter ==
  ASSUME NEW s, StoresOK(s), NEW m \in Signed, NEW t \in Tasks
  PROVE  LET rs  == s.reviews[t]
             new == Updated(s, m).reviews[t]
         IN  /\ rs \in Seq(Review)
             /\ \/ /\ m.action = "REVIEW-REQUEST" /\ m.task = t
                   /\ AskedIn(m) \in Review /\ new = Append(rs, AskedIn(m))
                \/ /\ m.action = "REVIEW-COMPLETE" /\ m.task = t
                   /\ CompletesTo(rs, new, m)
                \/ /\ ~(m.action \in {"REVIEW-REQUEST", "REVIEW-COMPLETE"} /\ m.task = t)
                   /\ new = rs
<1> DEFINE R == s.reviews
           N == Updated(s, m).reviews
<1>1. m.nick \in Nicks /\ Fields(m)
  BY SignedMessage
<1>2. N = CASE m.action = "REVIEW-REQUEST" -> RecordRequest(R, m)
            [] m.action = "REVIEW-COMPLETE" -> RecordComplete(R, m)
            [] OTHER -> R
  BY UpdateParts
<1>3. R \in [Tasks -> Seq(Review)]
  BY DEF StoresOK
<1> HIDE DEF R, N
<1>4. R[t] \in Seq(Review)
  BY <1>3
<1>5. CASE m.action = "REVIEW-REQUEST"
  <2>1. /\ AskedIn(m) \in Review
        /\ RecordRequest(R, m)[m.task] = Append(R[m.task], AskedIn(m))
        /\ \A x \in Tasks \ {m.task} : RecordRequest(R, m)[x] = R[x]
    BY <1>1, <1>3, <1>5, RequestEffect DEF AskedIn
  <2>2. N = RecordRequest(R, m)
    BY <1>2, <1>5
  <2>3. CASE m.task = t
    BY <1>4, <1>5, <2>1, <2>2, <2>3 DEF R, N
  <2>4. CASE m.task # t
    BY <1>4, <1>5, <2>1, <2>2, <2>4 DEF R, N
  <2> QED
    BY <2>3, <2>4
<1>6. CASE m.action = "REVIEW-COMPLETE"
  <2> DEFINE rs == R[m.task]
             new == RecordComplete(R, m)
  <2>1. m.task \in Tasks /\ m.verdict \in Word
    BY <1>1, <1>6 DEF Fields
  <2>2. /\ \A x \in Tasks \ {m.task} : new[x] = R[x]
        /\ CompletesTo(rs, new[m.task], m)
    BY <1>1, <1>3, <2>1, CompleteEffect
  <2>3. N = RecordComplete(R, m)
    BY <1>2, <1>6
  <2> HIDE DEF new
  <2>4. CASE m.task = t
    BY <1>4, <1>6, <2>2, <2>3, <2>4 DEF R, N, new
  <2>5. CASE m.task # t
    BY <1>4, <1>6, <2>2, <2>3, <2>5 DEF R, N, new
  <2> QED
    BY <2>4, <2>5
<1>7. CASE m.action \notin {"REVIEW-REQUEST", "REVIEW-COMPLETE"}
  BY <1>2, <1>4, <1>7 DEF R, N
<1> QED
  BY <1>5, <1>6, <1>7

LEMMA GatesAfter ==
  ASSUME NEW s, StoresOK(s), NEW m \in Signed, NEW t \in Tasks
  PROVE  /\ s.gates[t] \in Seq(Gate)
         /\ Updated(s, m).gates[t] = IF m.action = "GATE-CHECK" /\ m.task = t
                                     THEN Append(s.gates[t], CheckedIn(m)) ELSE s.gates[t]
         /\ m.action = "GATE-CHECK" => CheckedIn(m) \in Gate
<1> DEFINE G == s.gates
           N == Updated(s, m).gates
<1>1. m.nick \in Nicks /\ Fields(m)
  BY SignedMessage
<1>2. N = IF m.action = "GATE-CHECK" THEN RecordGate(G, m) ELSE G
  BY UpdateParts
<1>3. G \in [Tasks -> Seq(Gate)]
  BY DEF StoresOK
<1> HIDE DEF G, N
<1>4. m.action = "GATE-CHECK" =>
        /\ CheckedIn(m) \in Gate
        /\ RecordGate(G, m)[m.task] = Append(G[m.task], CheckedIn(m))
        /\ \A x \in Tasks \ {m.task} : RecordGate(G, m)[x] = G[x]
  BY <1>1, <1>3, GateEffect DEF CheckedIn
<1>5. G[t] \in Seq(Gate)
  BY <1>3
<1>6. N[t] = IF m.action = "GATE-CHECK" /\ m.task = t THEN Append(G[t], CheckedIn(m)) ELSE G[t]
  BY <1>2, <1>4
<1> QED
  BY <1>4, <1>5, <1>6 DEF G, N

LEMMA EscalationsAfter ==
  ASSUME NEW s, StoresOK(s), NEW m \in Signed
  PROVE  /\ s.escalations \in Seq(Escal)
         /\ Updated(s, m).escalations = IF m.action = "ESCALATE"
                                        THEN Append(s.escalations, RaisedIn(m)) ELSE s.escalations
         /\ m.action = "ESCALATE" => RaisedIn(m) \in Escal
<1> DEFINE E == s.escalations
           N == Updated(s, m).escalations
<1>1. m.nick \in Nicks /\ Fields(m)
  BY SignedMessage
<1>2. N = IF m.action = "ESCALATE" THEN RecordEscalation(E, m) ELSE E
  BY UpdateParts
<1>3. E \in Seq(Escal)
  BY DEF StoresOK
<1> HIDE DEF E, N
<1>4. m.action = "ESCALATE" => RaisedIn(m) \in Escal /\ RecordEscalation(E, m) = Append(E, RaisedIn(m))
  BY <1>1, <1>3, EscalateEffect DEF RaisedIn
<1> QED
  BY <1>2, <1>3, <1>4 DEF E, N

-----------------------------------------------------------------------------
(***************************************************************************)
(* What the rules deny.                                                    *)
(***************************************************************************)
LEMMA DeniedIsNotPassed ==
  ASSUME NEW a \in Nicks, NEW n, NEW action, Denied(a, n, action)
  PROVE  ~Check(Rules[a], n, action)
<1> DEFINE rules == Rules[a]
           r(j) == n \in rules[j].nicks /\ (action \in rules[j].actions \/ rules[j].actions = {})
           hits == {j \in DOMAIN rules : r(j)}
<1>1. rules \in Seq(Rule) /\ Len(rules) \in Nat /\ DOMAIN rules = 1..Len(rules)
  BY ConstantTypes
<1>2. PICK i \in DOMAIN rules : ~rules[i].allow /\ r(i) /\ \A j \in 1..(i - 1) : ~r(j)
  BY DEF Denied
<1>3. Check(rules, n, action) <=> (hits # {} => rules[Min(hits)].allow)
  <2>1. hits = {j \in DOMAIN rules : /\ n \in rules[j].nicks
                                     /\ rules[j].actions = {} \/ action \in rules[j].actions}
    OBVIOUS
  <2> QED
    BY <2>1 DEF Check
<1>4. i \in hits /\ hits \subseteq 1..Len(rules) /\ \A j \in hits : i <= j
  BY <1>1, <1>2
<1> HIDE DEF hits, r, rules
<1>5. Min(hits) \in hits /\ \A y \in hits : Min(hits) <= y
  BY <1>4 DEF Min
<1>6. Min(hits) = i
  BY <1>1, <1>4, <1>5
<1> QED
  BY <1>2, <1>3, <1>4, <1>6 DEF rules

\* Every step leaves the stores of an agent alone, applies a message to them that the
\* agent's rules let pass, or resolves an escalation.
LEMMA StoreStep ==
  ASSUME DispTypes, [Next]_vars, NEW b \in Nicks
  PROVE  \/ st'[b] = st[b]
         \/ \E m \in Signed : /\ Check(Rules[b], m.nick, m.action)
                              /\ st'[b] = Updated(st[b], m)
         \/ \E t \in Tasks :
              /\ st'[b].votes = st[b].votes /\ st'[b].reviews = st[b].reviews
              /\ st'[b].gates = st[b].gates
              /\ st'[b].escalations = ResolveEscalation(st[b].escalations, t)
              /\ SameBut(st'[b], st[b])
<1> DEFINE Goal == \/ st'[b] = st[b]
                   \/ \E m \in Signed : /\ Check(Rules[b], m.nick, m.action)
                                        /\ st'[b] = Updated(st[b], m)
                   \/ \E t \in Tasks :
                        /\ st'[b].votes = st[b].votes /\ st'[b].reviews = st[b].reviews
                        /\ st'[b].gates = st[b].gates
                        /\ st'[b].escalations = ResolveEscalation(st[b].escalations, t)
                        /\ SameBut(st'[b], st[b])
<1>1. ASSUME NEW a \in Nicks, NEW th \in Thread, NEW x, Applied(a, th, x) PROVE Goal
  <2>1. x \in Signed /\ x.nick = a
    BY <1>1, SendsMessage DEF Applied
  <2>2. CASE a = b
    BY <1>1, <2>1, <2>2 DEF Applied
  <2>3. CASE a # b
    BY <1>1, <2>3 DEF Applied
  <2> QED
    BY <2>2, <2>3
<1>2. ASSUME NEW a \in Nicks, AppSends(a) PROVE Goal
  BY <1>1, <1>2, AppSendsEffect DEF Thread
<1>3. ASSUME NEW a \in Nicks, NEW th \in Thread, Transmit(a, th) PROVE Goal
  BY <1>3, TransmitEffect
<1>4. ASSUME NEW a \in Nicks, Receive(a) PROVE Goal
  <2> DEFINE m == Head(inbox[a])
  <2>1. /\ m \in Signed /\ \A c \in Nicks \ {a} : st'[c] = st[c]
        /\ st'[a] = IF Passes(a, m) THEN Updated(st[a], m) ELSE st[a]
    BY <1>4, ReceiveEffect
  <2> HIDE DEF m
  <2> QED
    BY <2>1 DEF Passes
<1>5. ASSUME NEW a \in Nicks, Answer(a) PROVE Goal
  <2>1. (\E x : Applied(a, "reader", x)) \/ st' = st
    BY <1>5, AnswerEffect
  <2> QED
    BY <1>1, <2>1 DEF Thread
<1>6. ASSUME NEW a \in Nicks, Notify(a) PROVE Goal
  BY <1>6, NotifyEffect
<1>7. ASSUME NEW a \in Nicks, NEW t \in Tasks, Resolve(a, t) PROVE Goal
  BY <1>7, ResolveStep
<1>8. CASE UNCHANGED vars
  BY <1>8 DEF vars
<1> QED
  BY <1>2, <1>3, <1>4, <1>5, <1>6, <1>7, <1>8 DEF Next, Thread

\* Nothing that the rules of a deny is in the stores s.
Traceless(a, s) ==
  \A n \in Nicks :
    /\ Denied(a, n, "VOTE") => \A p \in Topics : s.votes[p][n] = "none"
    /\ Denied(a, n, "ESCALATE") =>
         \A i \in 1..Len(s.escalations) : s.escalations[i].by # n
    /\ \A t \in Tasks :
         /\ Denied(a, n, "REVIEW-REQUEST") =>
              \A i \in 1..Len(s.reviews[t]) : s.reviews[t][i].by # n
         /\ Denied(a, n, "REVIEW-COMPLETE") =>
              \A i \in 1..Len(s.reviews[t]) : s.reviews[t][i].reviewer # n
         /\ Denied(a, n, "GATE-CHECK") =>
              \A i \in 1..Len(s.gates[t]) : s.gates[t][i].checkedBy # n

LEMMA TracelessUpdate ==
  ASSUME NEW a \in Nicks, NEW s, StoresOK(s), Traceless(a, s), NEW m \in Signed,
         Check(Rules[a], m.nick, m.action)
  PROVE  Traceless(a, Updated(s, m))
<1> DEFINE u == Updated(s, m)
<1> SUFFICES ASSUME NEW n \in Nicks
             PROVE
    /\ Denied(a, n, "VOTE") => \A p \in Topics : u.votes[p][n] = "none"
    /\ Denied(a, n, "ESCALATE") =>
         \A i \in 1..Len(u.escalations) : u.escalations[i].by # n
    /\ \A t \in Tasks :
         /\ Denied(a, n, "REVIEW-REQUEST") =>
              \A i \in 1..Len(u.reviews[t]) : u.reviews[t][i].by # n
         /\ Denied(a, n, "REVIEW-COMPLETE") =>
              \A i \in 1..Len(u.reviews[t]) : u.reviews[t][i].reviewer # n
         /\ Denied(a, n, "GATE-CHECK") =>
              \A i \in 1..Len(u.gates[t]) : u.gates[t][i].checkedBy # n
  BY DEF Traceless
<1>1. Denied(a, n, m.action) => m.nick # n
  BY DeniedIsNotPassed
<1>2. ASSUME Denied(a, n, "VOTE"), NEW p \in Topics PROVE u.votes[p][n] = "none"
  <2>1. s.votes[p][n] = "none"
    BY <1>2 DEF Traceless
  <2> QED
    BY <1>1, <1>2, <2>1, VotesAfter
<1>3. ASSUME Denied(a, n, "ESCALATE") PROVE \A i \in 1..Len(u.escalations) : u.escalations[i].by # n
  <2> DEFINE e == RaisedIn(m)
             es == s.escalations
             new == u.escalations
  <2>1. es \in Seq(Escal) /\ \A j \in 1..Len(es) : es[j].by # n
    BY <1>3 DEF Traceless, StoresOK
  <2>2. /\ new = IF m.action = "ESCALATE" THEN Append(es, e) ELSE es
        /\ m.action = "ESCALATE" => e \in Escal
    BY EscalationsAfter
  <2>3. m.action = "ESCALATE" => e.by # n
    BY <1>1, <1>3 DEF RaisedIn
  <2> HIDE DEF e, es, new
  <2>4. \A i \in 1..Len(new) : \/ m.action = "ESCALATE" /\ new[i] = e
                               \/ i \in 1..Len(es) /\ new[i] = es[i]
    BY <2>1, <2>2
  <2>5. \A i \in 1..Len(new) : new[i].by # n
    BY <2>1, <2>3, <2>4
  <2> QED
    BY <2>5 DEF new
<1>4. ASSUME NEW t \in Tasks
      PROVE  \A i \in 1..Len(u.reviews[t]) :
               /\ Denied(a, n, "REVIEW-REQUEST") => u.reviews[t][i].by # n
               /\ Denied(a, n, "REVIEW-COMPLETE") => u.reviews[t][i].reviewer # n
  <2> DEFINE rs == s.reviews[t]
             new == u.reviews[t]
             Fine(r) == /\ Denied(a, n, "REVIEW-REQUEST") => r.by # n
                        /\ Denied(a, n, "REVIEW-COMPLETE") => r.reviewer # n
  <2>1. \A j \in 1..Len(rs) : Fine(rs[j])
    BY DEF Traceless
  <2>2. /\ rs \in Seq(Review)
        /\ \/ /\ m.action = "REVIEW-REQUEST" /\ m.task = t
              /\ AskedIn(m) \in Review /\ new = Append(rs, AskedIn(m))
           \/ /\ m.action = "REVIEW-COMPLETE" /\ m.task = t
              /\ CompletesTo(rs, new, m)
           \/ new = rs
    BY ReviewsAfter
  <2>3. m.action = "REVIEW-REQUEST" => Fine(AskedIn(m))
    BY <1>1, EmptyNames DEF AskedIn
  <2>4. ASSUME m.action = "REVIEW-COMPLETE", NEW r \in Review, Fine(r) PROVE Fine(Settled(r, m))
    <3>1. Settled(r, m).by = r.by /\ Settled(r, m).reviewer = m.nick
      BY DEF Settled, Review
    <3> QED
      BY <1>1, <2>4, <3>1
  <2> HIDE DEF rs, new, Fine
  <2>5. \A i \in 1..Len(new) : Fine(new[i])
    <3>1. CASE new = rs
      BY <2>1, <3>1
    <3>2. CASE m.action = "REVIEW-REQUEST" /\ AskedIn(m) \in Review /\ new = Append(rs, AskedIn(m))
      <4>1. \A i \in 1..Len(new) : new[i] = AskedIn(m) \/ (i \in 1..Len(rs) /\ new[i] = rs[i])
        BY <2>2, <3>2
      <4> QED
        BY <2>1, <2>3, <3>2, <4>1
    <3>3. ASSUME m.action = "REVIEW-COMPLETE",
                 NEW k \in 1..Len(rs), Len(new) = Len(rs),
                 \A i \in 1..Len(rs) : new[i] = IF i = k THEN Settled(rs[k], m) ELSE rs[i]
          PROVE  \A i \in 1..Len(new) : Fine(new[i])
      <4>1. rs[k] \in Review
        BY <2>2
      <4>2. Fine(Settled(rs[k], m))
        BY <2>1, <2>4, <3>3, <4>1
      <4> QED
        BY <2>1, <3>3, <4>2
    <3> QED
      BY <2>2, <3>1, <3>2, <3>3 DEF CompletesTo
  <2> QED
    BY <2>5 DEF new, Fine
<1>5. ASSUME NEW t \in Tasks, Denied(a, n, "GATE-CHECK")
      PROVE  \A i \in 1..Len(u.gates[t]) : u.gates[t][i].checkedBy # n
  <2> DEFINE gs == s.gates[t]
             g == CheckedIn(m)
             new == u.gates[t]
  <2>1. \A j \in 1..Len(gs) : gs[j].checkedBy # n
    BY <1>5 DEF Traceless
  <2>2. /\ gs \in Seq(Gate)
        /\ new = IF m.action = "GATE-CHECK" /\ m.task = t THEN Append(gs, g) ELSE gs
        /\ m.action = "GATE-CHECK" => g \in Gate
    BY GatesAfter
  <2>3. m.action = "GATE-CHECK" => g.checkedBy # n
    BY <1>1, <1>5 DEF CheckedIn
  <2> HIDE DEF g, gs, new
  <2>4. \A i \in 1..Len(new) : \/ m.action = "GATE-CHECK" /\ new[i] = g
                               \/ i \in 1..Len(gs) /\ new[i] = gs[i]
    BY <2>2
  <2>5. \A i \in 1..Len(new) : new[i].checkedBy # n
    BY <2>1, <2>3, <2>4
  <2> QED
    BY <2>5 DEF new
<1> HIDE DEF u
<1> QED
  BY <1>2, <1>3, <1>4, <1>5

AllTraceless == \A a \in Nicks : Traceless(a, st[a])

\* The sequences of the stores as sets.
LEMMA AsSet ==
  ASSUME NEW S, NEW q \in Seq(S)
  PROVE  ToSet(q) = {q[i] : i \in 1..Len(q)}
BY DEF ToSet

\* Records with one author each.
LEMMA TracelessIs ==
  ASSUME NEW a \in Nicks, NEW s, StoresOK(s), Traceless(a, s)
  PROVE  /\ \A n \in Nicks, p \in Topics : s.votes[p][n] # "none" => ~Denied(a, n, "VOTE")
         /\ \A e \in ToSet(s.escalations) : ~Denied(a, e.by, "ESCALATE")
         /\ \A t \in Tasks :
              /\ \A g \in ToSet(s.gates[t]) : ~Denied(a, g.checkedBy, "GATE-CHECK")
              /\ \A r \in ToSet(s.reviews[t]) :
                   /\ ~Denied(a, r.by, "REVIEW-REQUEST")
                   /\ r.reviewer # NoNick => ~Denied(a, r.reviewer, "REVIEW-COMPLETE")
<1>1. /\ s.escalations \in Seq(Escal)
      /\ \A t \in Tasks : s.reviews[t] \in Seq(Review) /\ s.gates[t] \in Seq(Gate)
  BY DEF StoresOK
<1>2. ASSUME NEW e \in ToSet(s.escalations) PROVE ~Denied(a, e.by, "ESCALATE")
  <2> DEFINE es == s.escalations
  <2>1. PICK i \in 1..Len(es) : e = es[i]
    BY <1>1, AsSet
  <2>2. es[i].by \in Nicks
    <3>1. es[i] \in Escal
      BY <1>1
    <3> QED BY <3>1 DEF Escal
  <2> QED
    BY <2>1, <2>2 DEF Traceless
<1>3. ASSUME NEW t \in Tasks, NEW g \in ToSet(s.gates[t]) PROVE ~Denied(a, g.checkedBy, "GATE-CHECK")
  <2> DEFINE gs == s.gates[t]
  <2>1. PICK i \in 1..Len(gs) : g = gs[i]
    BY <1>1, AsSet
  <2>2. gs[i].checkedBy \in Nicks
    <3>1. gs[i] \in Gate
      BY <1>1
    <3> QED BY <3>1 DEF Gate
  <2> QED
    BY <2>1, <2>2 DEF Traceless
<1>4. ASSUME NEW t \in Tasks, NEW r \in ToSet(s.reviews[t])
      PROVE  /\ ~Denied(a, r.by, "REVIEW-REQUEST")
             /\ r.reviewer # NoNick => ~Denied(a, r.reviewer, "REVIEW-COMPLETE")
  <2> DEFINE rs == s.reviews[t]
  <2>1. PICK i \in 1..Len(rs) : r = rs[i]
    BY <1>1, AsSet
  <2>2. rs[i].by \in Nicks /\ rs[i].reviewer \in Nicks \cup {NoNick}
    <3>1. rs[i] \in Review
      BY <1>1
    <3> QED BY <3>1 DEF Review
  <2> QED
    BY <2>1, <2>2 DEF Traceless
<1>5. \A n \in Nicks, p \in Topics : s.votes[p][n] # "none" => ~Denied(a, n, "VOTE")
  BY DEF Traceless
<1> QED
  BY <1>2, <1>3, <1>4, <1>5

LEMMA TracelessInit == Init => AllTraceless
<1> SUFFICES ASSUME Init PROVE AllTraceless
  OBVIOUS
<1>1. \A f \in {"votes", "reviews", "gates", "escalations"} : NewAgent[f] = NewStores[f]
  BY DEF NewAgent, NewStores
<1>2. \A a \in Nicks : /\ \A p \in Topics, n \in Nicks : st[a].votes[p][n] = "none"
                       /\ \A t \in Tasks : st[a].reviews[t] = <<>> /\ st[a].gates[t] = <<>>
                       /\ st[a].escalations = <<>>
  BY <1>1 DEF Init, NewStores
<1> QED
  BY <1>2 DEF AllTraceless, Traceless

LEMMA TracelessStep == DispTypes /\ AllTraceless /\ [Next]_vars => AllTraceless'
<1> SUFFICES ASSUME DispTypes, AllTraceless, [Next]_vars, NEW a \in Nicks
             PROVE  Traceless(a, st'[a])
  BY DEF AllTraceless
<1> DEFINE s == st[a]
           u == st'[a]
<1>1. Traceless(a, s) /\ StoresOK(s)
  BY DEF AllTraceless, DispTypes
<1>2. CASE u = s
  BY <1>1, <1>2
<1>3. ASSUME NEW m \in Signed, Check(Rules[a], m.nick, m.action), u = Updated(s, m)
      PROVE  Traceless(a, u)
  BY <1>1, <1>3, TracelessUpdate
<1>4. ASSUME NEW t \in Tasks, u.votes = s.votes, u.reviews = s.reviews, u.gates = s.gates,
             u.escalations = ResolveEscalation(s.escalations, t)
      PROVE  Traceless(a, u)
  <2>1. s.escalations \in Seq(Escal)
    BY <1>1 DEF StoresOK
  <2>2. /\ Len(u.escalations) = Len(s.escalations)
        /\ \A i \in 1..Len(s.escalations) : u.escalations[i].by = s.escalations[i].by
    BY <1>4, <2>1, ResolveEffect
  <2> HIDE DEF u, s
  <2> QED
    BY <1>1, <1>4, <2>2 DEF Traceless
<1> QED
  BY <1>2, <1>3, <1>4, StoreStep

\* The stores of tasks, whose fields depend on the fields of a record that a message
\* leaves as they are.
Saved(m) == [nick |-> m.nick, progress |-> m.progress]

MoreOK(s) ==
  /\ {"tasks", "agents", "offers", "checkpoints", "handoffs"} \subseteq DOMAIN s
  /\ DOMAIN s.tasks = Tasks /\ DOMAIN s.agents = Nicks
  /\ DOMAIN s.offers = Tasks /\ DOMAIN s.handoffs = Tasks
  /\ s.checkpoints \in [Tasks -> Seq({Saved(m) : m \in Signed})]
  /\ \A t \in Tasks : /\ s.tasks[t].status \in TaskStatus
                      /\ DOMAIN s.offers[t] = {"claimedBy", "offered"}
                      /\ DOMAIN s.handoffs[t] = {"from", "to", "progress", "accepted"}

\* What a message makes of the five of them.
LEMMA MoreParts ==
  ASSUME NEW s, NEW m, {"tasks", "agents", "offers", "checkpoints", "handoffs"} \subseteq DOMAIN s
  PROVE  LET u == Updated(s, m)
         IN  /\ DOMAIN u = DOMAIN s
             /\ u.tasks = IF m.action \in TaskAction
                          THEN [s.tasks EXCEPT ![m.task] = TaskAfter(@, m)] ELSE s.tasks
             /\ u.agents = IF m.action \in TaskAction
                           THEN [s.agents EXCEPT ![m.nick] = m.task] ELSE s.agents
             /\ u.offers = CASE m.action = "OFFER"  -> RecordOffer(s.offers, m)
                             [] m.action = "CLAIM"  -> SetClaimedBy(s.offers, m.task, m.nick)
                             [] m.action = "ASSIGN" -> RecordAssign(s.offers, m)
                             [] m.action \in {"DECLINE", "YIELD"} ->
                                  SetClaimedBy(s.offers, m.task, NoNick)
                             [] OTHER -> s.offers
             /\ u.checkpoints = IF m.action = "CHECKPOINT" THEN RecordCheckpoint(s.checkpoints, m)
                                ELSE s.checkpoints
             /\ u.handoffs = CASE m.action = "HANDOFF" -> RecordHandoff(s.handoffs, s.checkpoints, m)
                               [] m.action = "ACCEPT"  -> AcceptHandoff(s.handoffs, m)
                               [] OTHER -> s.handoffs
<1>1. /\ "tasks" \in DOMAIN s /\ "agents" \in DOMAIN s /\ "offers" \in DOMAIN s
      /\ "checkpoints" \in DOMAIN s /\ "handoffs" \in DOMAIN s
  OBVIOUS
<1> DEFINE x == UpdateState(s, m)
<1>2. /\ DOMAIN x = DOMAIN s /\ x.offers = s.offers /\ x.checkpoints = s.checkpoints
      /\ x.handoffs = s.handoffs
      /\ x.tasks = IF m.action \in TaskAction
                   THEN [s.tasks EXCEPT ![m.task] = TaskAfter(@, m)] ELSE s.tasks
      /\ x.agents = IF m.action \in TaskAction
                    THEN [s.agents EXCEPT ![m.nick] = m.task] ELSE s.agents
  BY <1>1 DEF UpdateState
<1> DEFINE u == UpdateCoordinationStores(x, m)
<1>3. u = Updated(s, m)
  BY DEF Updated
<1> HIDE DEF x
<1>4. DOMAIN u = DOMAIN x /\ u.tasks = x.tasks /\ u.agents = x.agents
  BY <1>1, <1>2 DEF UpdateCoordinationStores
<1>5. u.offers = CASE m.action = "OFFER"  -> RecordOffer(x.offers, m)
                   [] m.action = "CLAIM"  -> SetClaimedBy(x.offers, m.task, m.nick)
                   [] m.action = "ASSIGN" -> RecordAssign(x.offers, m)
                   [] m.action \in {"DECLINE", "YIELD"} ->
                        SetClaimedBy(x.offers, m.task, NoNick)
                   [] OTHER -> x.offers
  BY <1>1, <1>2 DEF UpdateCoordinationStores
<1>6. u.checkpoints = IF m.action = "CHECKPOINT" THEN RecordCheckpoint(x.checkpoints, m)
                      ELSE x.checkpoints
  BY <1>1, <1>2 DEF UpdateCoordinationStores
<1>7. u.handoffs = CASE m.action = "HANDOFF" -> RecordHandoff(x.handoffs, x.checkpoints, m)
                     [] m.action = "ACCEPT"  -> AcceptHandoff(x.handoffs, m)
                     [] OTHER -> x.handoffs
  BY <1>1, <1>2 DEF UpdateCoordinationStores
<1> HIDE DEF u
<1> QED
  BY <1>2, <1>3, <1>4, <1>5, <1>6, <1>7

\* Some message that leaves nothing but this is not denied.
May(a, n, actions) == \E x \in actions : ~Denied(a, n, x)
SomeMay(a, actions) == \E n \in Nicks : May(a, n, actions)

OfferFine(a, o) ==
  /\ o.offered => SomeMay(a, {"OFFER", "ASSIGN"})
  /\ o.claimedBy # NoNick => May(a, o.claimedBy, {"CLAIM"}) \/ SomeMay(a, {"ASSIGN"})

HandoffFine(a, h) ==
  /\ h # NoHandoff => May(a, h.from, {"HANDOFF"})
  /\ h.accepted => May(a, h.to, {"ACCEPT"})

TaskFine(a, i) ==
  /\ i.status # "absent" => SomeMay(a, Reaching(i.status))
  /\ i.owner # NoNick => May(a, i.owner, {"CLAIM", "ACCEPT"}) \/ SomeMay(a, {"ASSIGN", "HANDOFF"})

MoreTraceless(a, s) ==
  /\ \A n \in Nicks : s.agents[n] # <<>> => May(a, n, TaskAction)
  /\ \A t \in Tasks :
       /\ \A i \in 1..Len(s.checkpoints[t]) : ~Denied(a, s.checkpoints[t][i].nick, "CHECKPOINT")
       /\ HandoffFine(a, s.handoffs[t])
       /\ OfferFine(a, s.offers[t])
       /\ TaskFine(a, s.tasks[t])

LEMMA StatusIs ==
  ASSUME NEW old \in TaskStatus, NEW x
  PROVE  StatusAfter(old, x) \in TaskStatus
BY DEF StatusAfter, TaskStatus

\* A message that is let pass leaves each store of tasks as it should be.
LEMMA MoreUpdate ==
  ASSUME NEW a \in Nicks, NEW s, MoreOK(s), MoreTraceless(a, s), NEW m \in Signed,
         ~Denied(a, m.nick, m.action)
  PROVE  MoreTraceless(a, Updated(s, m))
<1> DEFINE u == Updated(s, m)
<1>1. m.nick \in Nicks
  BY SignedMessage
<1>2. {"tasks", "agents", "offers", "checkpoints", "handoffs"} \subseteq DOMAIN s
  BY DEF MoreOK
<1>3. \A actions : m.action \in actions => May(a, m.nick, actions) /\ SomeMay(a, actions)
  BY <1>1 DEF May, SomeMay
<1>4. ASSUME NEW n \in Nicks, u.agents[n] # <<>> PROVE May(a, n, TaskAction)
  <2>1. u.agents = IF m.action \in TaskAction
                   THEN [s.agents EXCEPT ![m.nick] = m.task] ELSE s.agents
    BY <1>2, MoreParts
  <2>2. DOMAIN s.agents = Nicks /\ (s.agents[n] # <<>> => May(a, n, TaskAction))
    BY DEF MoreOK, MoreTraceless
  <2>3. CASE m.action \in TaskAction /\ n = m.nick
    BY <1>3, <2>3
  <2>4. CASE ~(m.action \in TaskAction /\ n = m.nick)
    <3>1. u.agents[n] = s.agents[n]
      BY <2>1, <2>2, <2>4
    <3> QED
      BY <1>4, <2>2, <3>1
  <2> QED
    BY <2>3, <2>4
<1>5. ASSUME NEW t \in Tasks
      PROVE  \A i \in 1..Len(u.checkpoints[t]) : ~Denied(a, u.checkpoints[t][i].nick, "CHECKPOINT")
  <2> DEFINE C == s.checkpoints
             q == C[t]
             N == u.checkpoints
  <2>1. N = IF m.action = "CHECKPOINT" THEN RecordCheckpoint(C, m) ELSE C
    BY <1>2, MoreParts
  <2>2. /\ C \in [Tasks -> Seq({Saved(x) : x \in Signed})]
        /\ \A i \in 1..Len(q) : ~Denied(a, q[i].nick, "CHECKPOINT")
    BY DEF MoreOK, MoreTraceless
  <2> HIDE DEF C, N
  <2>3. N[t] = IF m.action = "CHECKPOINT" /\ m.task = t THEN Append(q, Saved(m)) ELSE q
    BY <2>1, <2>2 DEF RecordCheckpoint, Saved
  <2>4. q \in Seq({Saved(x) : x \in Signed})
    BY <2>2
  <2> HIDE DEF q
  <2>5. Saved(m).nick = m.nick
    BY DEF Saved
  <2>6. \A i \in 1..Len(N[t]) : \/ m.action = "CHECKPOINT" /\ N[t][i] = Saved(m)
                                \/ i \in 1..Len(q) /\ N[t][i] = q[i]
    BY <2>3, <2>4
  <2>7. \A i \in 1..Len(N[t]) : ~Denied(a, N[t][i].nick, "CHECKPOINT")
    BY <2>2, <2>5, <2>6
  <2> QED
    BY <2>7 DEF N
<1>6. ASSUME NEW t \in Tasks PROVE HandoffFine(a, u.handoffs[t])
  <2> DEFINE H == s.handoffs
             N == u.handoffs
             C == s.checkpoints
  <2> SUFFICES HandoffFine(a, N[t])
    OBVIOUS
  <2>1. N = CASE m.action = "HANDOFF" -> RecordHandoff(H, C, m)
              [] m.action = "ACCEPT"  -> AcceptHandoff(H, m)
              [] OTHER -> H
    BY <1>2, MoreParts
  <2>2. DOMAIN H = Tasks /\ HandoffFine(a, H[t]) /\ DOMAIN H[t] = {"from", "to", "progress", "accepted"}
    BY DEF MoreOK, MoreTraceless
  <2> HIDE DEF H, N, C
  <2>3. CASE m.action = "HANDOFF" /\ m.task = t
    <3>1. N[t].from = m.nick /\ N[t].accepted = FALSE
      BY <2>1, <2>2, <2>3 DEF RecordHandoff
    <3> QED
      BY <1>3, <2>3, <3>1 DEF HandoffFine
  <2>4. CASE m.action = "ACCEPT" /\ m.task = t /\ H[t].to = m.nick
    <3>1. N[t] = [H[t] EXCEPT !.accepted = TRUE]
      BY <2>1, <2>2, <2>4 DEF AcceptHandoff
    <3>2. N[t].to = m.nick /\ N[t].from = H[t].from
      BY <2>2, <2>4, <3>1
    <3>3. H[t] # NoHandoff
      BY <1>1, <2>4, EmptyNames DEF NoHandoff
    <3> QED
      BY <1>3, <2>2, <2>4, <3>2, <3>3 DEF HandoffFine
  <2>5. CASE ~(m.action \in {"HANDOFF", "ACCEPT"} /\ m.task = t)
    <3>1. N[t] = H[t]
      BY <2>1, <2>2, <2>5 DEF RecordHandoff, AcceptHandoff
    <3> QED
      BY <2>2, <3>1
  <2>6. CASE m.action = "ACCEPT" /\ m.task = t /\ H[t].to # m.nick
    <3>1. N[t] = H[t]
      BY <2>1, <2>6 DEF AcceptHandoff
    <3> QED
      BY <2>2, <3>1
  <2> QED
    BY <2>3, <2>4, <2>5, <2>6
<1>7. ASSUME NEW t \in Tasks PROVE OfferFine(a, u.offers[t])
  <2> DEFINE O == s.offers
             N == u.offers
  <2> SUFFICES OfferFine(a, N[t])
    OBVIOUS
  <2>1. N = CASE m.action = "OFFER"  -> RecordOffer(O, m)
              [] m.action = "CLAIM"  -> SetClaimedBy(O, m.task, m.nick)
              [] m.action = "ASSIGN" -> RecordAssign(O, m)
              [] m.action \in {"DECLINE", "YIELD"} -> SetClaimedBy(O, m.task, NoNick)
              [] OTHER -> O
    BY <1>2, MoreParts
  <2>2. DOMAIN O = Tasks /\ OfferFine(a, O[t]) /\ DOMAIN O[t] = {"claimedBy", "offered"}
    BY DEF MoreOK, MoreTraceless
  <2> HIDE DEF O, N
  <2>3. CASE m.task = t /\ m.action \in {"OFFER", "ASSIGN"}
    <3>1. SomeMay(a, {"OFFER", "ASSIGN"}) /\ (m.action = "ASSIGN" => SomeMay(a, {"ASSIGN"}))
      BY <1>3, <2>3
    <3>2. m.action = "OFFER" => N[t].claimedBy = NoNick
      BY <2>1, <2>2, <2>3 DEF RecordOffer
    <3> QED
      BY <2>3, <3>1, <3>2 DEF OfferFine
  <2>4. ASSUME NEW n, m.task = t, N = SetClaimedBy(O, t, n),
               n # NoNick => May(a, n, {"CLAIM"})
        PROVE  OfferFine(a, N[t])
    <3>1. CASE O[t].offered
      <4>1. N[t] = [O[t] EXCEPT !.claimedBy = n]
        BY <2>2, <2>4, <3>1 DEF SetClaimedBy
      <4>2. N[t].claimedBy = n /\ N[t].offered = O[t].offered
        BY <2>2, <4>1
      <4> QED
        BY <2>2, <2>4, <4>2 DEF OfferFine
    <3>2. CASE ~O[t].offered
      BY <2>2, <2>4, <3>2 DEF SetClaimedBy
    <3> QED
      BY <3>1, <3>2
  <2>5. CASE m.task = t /\ m.action = "CLAIM"
    <3>1. N = SetClaimedBy(O, t, m.nick) /\ May(a, m.nick, {"CLAIM"})
      BY <1>3, <2>1, <2>5
    <3> QED
      BY <2>4, <2>5, <3>1
  <2>6. CASE m.task = t /\ m.action \in {"DECLINE", "YIELD"}
    <3>1. N = SetClaimedBy(O, t, NoNick)
      BY <2>1, <2>6
    <3> QED
      BY <2>4, <2>6, <3>1
  <2>7. CASE ~(m.task = t /\ m.action \in {"OFFER", "ASSIGN", "CLAIM", "DECLINE", "YIELD"})
    <3>1. N[t] = O[t]
      BY <2>1, <2>2, <2>7 DEF RecordOffer, RecordAssign, SetClaimedBy
    <3> QED
      BY <2>2, <3>1
  <2> QED
    BY <2>3, <2>5, <2>6, <2>7
<1>8. ASSUME NEW t \in Tasks PROVE TaskFine(a, u.tasks[t])
  <2> DEFINE T == s.tasks
             N == u.tasks
  <2> SUFFICES TaskFine(a, N[t])
    OBVIOUS
  <2>1. N = IF m.action \in TaskAction THEN [T EXCEPT ![m.task] = TaskAfter(@, m)] ELSE T
    BY <1>2, MoreParts
  <2>2. DOMAIN T = Tasks /\ TaskFine(a, T[t]) /\ T[t].status \in TaskStatus
    BY DEF MoreOK, MoreTraceless
  <2> HIDE DEF T, N
  <2>3. CASE m.action \in TaskAction /\ m.task = t
    <3> DEFINE old == T[t].status
               new == StatusAfter(old, m.action)
               after == OwnerAfter(T[t].owner, m)
    <3>1. N[t].status = new /\ N[t].owner = after
      BY <2>1, <2>2, <2>3 DEF TaskAfter
    <3>2. new # "absent" => SomeMay(a, Reaching(new))
      <4>1. CASE new = old
        <5> HIDE DEF new, old
        <5> QED
          BY <2>2, <4>1 DEF TaskFine, old
      <4>2. CASE new # old
        <5>1. m.action \in Reaching(new)
          <6>1. old \in TaskStatus \ {new}
            BY <2>2, <4>2
          <6> QED
            BY <2>3, <6>1 DEF Reaching
        <5> QED
          BY <1>3, <5>1
      <4> QED
        BY <4>1, <4>2
    <3>3. after # NoNick => \/ May(a, after, {"CLAIM", "ACCEPT"})
                            \/ SomeMay(a, {"ASSIGN", "HANDOFF"})
      <4>1. CASE m.action \in {"CLAIM", "ACCEPT"}
        <5>1. after = m.nick
          BY <4>1 DEF OwnerAfter
        <5> QED
          BY <1>3, <4>1, <5>1
      <4>2. CASE m.action \in {"ASSIGN", "HANDOFF"}
        BY <1>3, <4>2
      <4>3. CASE m.action \in {"DECLINE", "YIELD"}
        BY <4>3 DEF OwnerAfter
      <4>4. CASE m.action \notin {"CLAIM", "ACCEPT", "ASSIGN", "HANDOFF", "DECLINE", "YIELD"}
        <5>1. after = T[t].owner
          BY <4>4 DEF OwnerAfter
        <5> QED
          BY <2>2, <5>1 DEF TaskFine
      <4> QED
        BY <4>1, <4>2, <4>3, <4>4
    <3> HIDE DEF new, after
    <3> QED
      BY <3>1, <3>2, <3>3 DEF TaskFine
  <2>4. CASE ~(m.action \in TaskAction /\ m.task = t)
    <3>1. N[t] = T[t]
      BY <2>1, <2>2, <2>4
    <3> QED
      BY <2>2, <3>1
  <2> QED
    BY <2>3, <2>4
<1> HIDE DEF u
<1>9. MoreTraceless(a, u)
  BY <1>4, <1>5, <1>6, <1>7, <1>8 DEF MoreTraceless
<1> QED
  BY <1>9 DEF u

LEMMA MoreOKUpdate ==
  ASSUME NEW s, MoreOK(s), NEW m \in Signed
  PROVE  MoreOK(Updated(s, m))
<1> DEFINE u == Updated(s, m)
           fields == {"from", "to", "progress", "accepted"}
<1>1. {"tasks", "agents", "offers", "checkpoints", "handoffs"} \subseteq DOMAIN s
  BY DEF MoreOK
<1>2. DOMAIN u = DOMAIN s
  BY <1>1, MoreParts
<1>3. DOMAIN u.agents = Nicks
  <2>1. DOMAIN s.agents = Nicks
    BY DEF MoreOK
  <2>2. u.agents = IF m.action \in TaskAction
                   THEN [s.agents EXCEPT ![m.nick] = m.task] ELSE s.agents
    BY <1>1, MoreParts
  <2> QED
    BY <2>1, <2>2
<1>4. DOMAIN u.tasks = Tasks /\ \A t \in Tasks : u.tasks[t].status \in TaskStatus
  <2> DEFINE T == s.tasks
             N == u.tasks
  <2>1. DOMAIN T = Tasks /\ \A t \in Tasks : T[t].status \in TaskStatus
    BY DEF MoreOK
  <2>2. N = IF m.action \in TaskAction THEN [T EXCEPT ![m.task] = TaskAfter(@, m)] ELSE T
    BY <1>1, MoreParts
  <2> SUFFICES DOMAIN N = Tasks /\ \A t \in Tasks : N[t].status \in TaskStatus
    OBVIOUS
  <2> HIDE DEF T, N
  <2>3. ASSUME NEW t \in Tasks PROVE TaskAfter(T[t], m).status \in TaskStatus
    <3>1. StatusAfter(T[t].status, m.action) \in TaskStatus
      BY <2>1, StatusIs
    <3>2. TaskAfter(T[t], m).status = StatusAfter(T[t].status, m.action)
      BY DEF TaskAfter
    <3> QED
      BY <3>1, <3>2
  <2> QED
    BY <2>1, <2>2, <2>3
<1>5. /\ DOMAIN u.offers = Tasks
      /\ \A t \in Tasks : DOMAIN u.offers[t] = {"claimedBy", "offered"}
  <2> DEFINE O == s.offers
             N == u.offers
  <2>1. DOMAIN O = Tasks /\ \A t \in Tasks : DOMAIN O[t] = {"claimedBy", "offered"}
    BY DEF MoreOK
  <2>2. \/ N = O \/ N = RecordOffer(O, m) \/ N = RecordAssign(O, m)
        \/ \E n : N = SetClaimedBy(O, m.task, n)
    BY <1>1, MoreParts
  <2> SUFFICES DOMAIN N = Tasks /\ \A t \in Tasks : DOMAIN N[t] = {"claimedBy", "offered"}
    OBVIOUS
  <2> HIDE DEF O, N
  <2>3. ASSUME NEW n, N = SetClaimedBy(O, m.task, n)
        PROVE  DOMAIN N = Tasks /\ \A t \in Tasks : DOMAIN N[t] = {"claimedBy", "offered"}
    BY <2>1, <2>3 DEF SetClaimedBy
  <2>4. CASE N = RecordOffer(O, m) \/ N = RecordAssign(O, m)
    BY <2>1, <2>4 DEF RecordOffer, RecordAssign
  <2> QED
    BY <2>1, <2>2, <2>3, <2>4
<1>6. u.checkpoints \in [Tasks -> Seq({Saved(x) : x \in Signed})]
  <2> DEFINE C == s.checkpoints
             S == {Saved(x) : x \in Signed}
             N == u.checkpoints
  <2>1. N = IF m.action = "CHECKPOINT" THEN RecordCheckpoint(C, m) ELSE C
    BY <1>1, MoreParts
  <2>2. C \in [Tasks -> Seq(S)] /\ Saved(m) \in S
    BY DEF MoreOK
  <2> SUFFICES N \in [Tasks -> Seq(S)]
    OBVIOUS
  <2> HIDE DEF C, N, S
  <2>3. \A t \in Tasks : Append(C[t], Saved(m)) \in Seq(S)
    BY <2>2
  <2>4. RecordCheckpoint(C, m) = [C EXCEPT ![m.task] = Append(@, Saved(m))]
    BY DEF RecordCheckpoint, Saved
  <2>5. [C EXCEPT ![m.task] = Append(@, Saved(m))] \in [Tasks -> Seq(S)]
    BY <2>2, <2>3
  <2> QED
    BY <2>1, <2>2, <2>4, <2>5
<1>7. DOMAIN u.handoffs = Tasks /\ \A t \in Tasks : DOMAIN u.handoffs[t] = fields
  <2> DEFINE H == s.handoffs
             C == s.checkpoints
             N == u.handoffs
  <2>1. DOMAIN H = Tasks /\ \A t \in Tasks : DOMAIN H[t] = fields
    BY DEF MoreOK
  <2>2. N = H \/ N = RecordHandoff(H, C, m) \/ N = AcceptHandoff(H, m)
    BY <1>1, MoreParts
  <2> SUFFICES DOMAIN N = Tasks /\ \A t \in Tasks : DOMAIN N[t] = fields
    OBVIOUS
  <2> HIDE DEF H, C, N
  <2>3. CASE N = RecordHandoff(H, C, m)
    BY <2>1, <2>3 DEF RecordHandoff
  <2>4. CASE N = AcceptHandoff(H, m)
    BY <2>1, <2>4 DEF AcceptHandoff
  <2> QED
    BY <2>1, <2>2, <2>3, <2>4
<1> HIDE DEF u
<1>8. MoreOK(u)
  BY <1>1, <1>2, <1>3, <1>4, <1>5, <1>6, <1>7 DEF MoreOK
<1> QED
  BY <1>8 DEF u

\* What goes out, and what waits to, the rules of its sender let pass.
OutIsAllowed ==
  \A a \in Nicks, th \in Thread : out[a][th] # None => Check(Rules[a], a, out[a][th].action)

Allowed(m) == m.action # "TEXT" => Check(Rules[m.nick], m.nick, m.action)

QueuedIsAllowed == \A a \in Nicks : \A i \in 1..Len(inbox[a]) : Allowed(inbox[a][i])

AllMore == \A a \in Nicks : MoreOK(st[a]) /\ MoreTraceless(a, st[a])

NoTrace == AllTraceless /\ AllMore /\ OutIsAllowed /\ QueuedIsAllowed

LEMMA NoTraceInit == Init => NoTrace
<1> SUFFICES ASSUME Init PROVE NoTrace
  OBVIOUS
<1>1. /\ NewAgent.tasks = [t \in Tasks |-> NewTaskInfo]
      /\ NewAgent.agents = [n \in Nicks |-> <<>>]
      /\ \A f \in {"offers", "checkpoints", "handoffs"} : NewAgent[f] = NewStores[f]
      /\ {"tasks", "agents", "offers", "checkpoints", "handoffs"} \subseteq DOMAIN NewAgent
  BY DEF NewAgent, NewStores
<1>2. /\ NewAgent.offers = [t \in Tasks |-> NoOffer]
      /\ NewAgent.checkpoints = [t \in Tasks |-> <<>>]
      /\ NewAgent.handoffs = [t \in Tasks |-> NoHandoff]
  BY <1>1 DEF NewStores
<1>3. MoreOK(NewAgent)
  BY <1>1, <1>2 DEF MoreOK, NewTaskInfo, NoOffer, NoHandoff, TaskStatus
<1>4. ASSUME NEW a \in Nicks PROVE MoreTraceless(a, NewAgent)
  BY <1>1, <1>2
     DEF MoreTraceless, HandoffFine, OfferFine, TaskFine, NewTaskInfo, NoOffer, NoHandoff
<1>5. \A a \in Nicks : st[a] = NewAgent /\ inbox[a] = <<>>
  BY DEF Init
<1>6. \A a \in Nicks, th \in Thread : out[a][th] = None
  BY DEF Init, Thread
<1>7. AllTraceless
  BY TracelessInit
<1> QED
  BY <1>3, <1>4, <1>5, <1>6, <1>7 DEF NoTrace, AllMore, OutIsAllowed, QueuedIsAllowed

LEMMA AllMoreStep == DispTypes /\ AllMore /\ [Next]_vars => AllMore'
<1> SUFFICES ASSUME DispTypes, AllMore, [Next]_vars, NEW a \in Nicks
             PROVE  MoreOK(st'[a]) /\ MoreTraceless(a, st'[a])
  BY DEF AllMore
<1> DEFINE s == st[a]
           u == st'[a]
<1>1. MoreOK(s) /\ MoreTraceless(a, s)
  BY DEF AllMore
<1>2. CASE u = s
  BY <1>1, <1>2
<1>3. ASSUME NEW m \in Signed, Check(Rules[a], m.nick, m.action), u = Updated(s, m)
      PROVE  MoreOK(u) /\ MoreTraceless(a, u)
  <2>1. ~Denied(a, m.nick, m.action)
    BY <1>3, DeniedIsNotPassed
  <2> QED
    BY <1>1, <1>3, <2>1, MoreOKUpdate, MoreUpdate
<1>4. ASSUME SameBut(u, s) PROVE MoreOK(u) /\ MoreTraceless(a, u)
  <2> HIDE DEF u, s
  <2>1. {"tasks", "agents", "offers", "checkpoints", "handoffs"} \subseteq DOMAIN s
    BY <1>1 DEF MoreOK
  <2>2. /\ u.tasks = s.tasks /\ u.agents = s.agents /\ u.offers = s.offers
        /\ u.checkpoints = s.checkpoints /\ u.handoffs = s.handoffs /\ DOMAIN u = DOMAIN s
    BY <1>4, <2>1 DEF SameBut
  <2>3. MoreOK(u)
    BY <1>1, <2>2 DEF MoreOK
  <2>4. MoreTraceless(a, u)
    BY <1>1, <2>2 DEF MoreTraceless
  <2> QED
    BY <2>3, <2>4
<1> QED
  BY <1>2, <1>3, <1>4, StoreStep

LEMMA AllowedStep ==
  DispTypes /\ OutIsAllowed /\ QueuedIsAllowed /\ [Next]_vars => OutIsAllowed' /\ QueuedIsAllowed'
<1> SUFFICES ASSUME DispTypes, OutIsAllowed, QueuedIsAllowed, [Next]_vars
             PROVE  OutIsAllowed' /\ QueuedIsAllowed'
  OBVIOUS
<1>1. /\ out \in [Nicks -> [Thread -> {None} \cup Signed]] /\ inbox \in [Nicks -> Seq(Signed)]
      /\ \A a \in Nicks, th \in Thread : out[a][th] \in {None} \cup Sends(a, th)
  BY DEF DispTypes
<1>2. out' = out => OutIsAllowed'
  BY DEF OutIsAllowed
<1>3. inbox' = inbox => QueuedIsAllowed'
  BY DEF QueuedIsAllowed
<1>4. ASSUME NEW a \in Nicks, NEW th \in Thread, NEW x, Applied(a, th, x)
      PROVE  OutIsAllowed' /\ QueuedIsAllowed'
  <2>1. /\ out' = [out EXCEPT ![a][th] = x] /\ Check(Rules[a], a, x.action) /\ inbox' = inbox
    BY <1>4 DEF Applied
  <2>2. \A b \in Nicks, k \in Thread :
          out'[b][k] = IF b = a /\ k = th THEN x ELSE out[b][k]
    BY <1>1, <2>1
  <2> QED
    BY <1>3, <2>1, <2>2 DEF OutIsAllowed
<1>5. ASSUME NEW a \in Nicks, NEW x \in Signed, Relayed(a, x), Allowed(x)
      PROVE  QueuedIsAllowed'
  <2> SUFFICES ASSUME NEW b \in Nicks, NEW i \in 1..Len(inbox'[b]) PROVE Allowed(inbox'[b][i])
    BY DEF QueuedIsAllowed, Allowed
  <2> DEFINE q == inbox[b]
             new == inbox'[b]
  <2>1. q \in Seq(Signed) /\ \A j \in 1..Len(q) : Allowed(q[j])
    BY <1>1 DEF QueuedIsAllowed
  <2>2. new = IF b = a THEN q ELSE Append(q, x)
    BY <1>5 DEF Relayed
  <2> HIDE DEF q, new, Allowed
  <2>3. \A j \in 1..Len(new) : (j \in 1..Len(q) /\ new[j] = q[j]) \/ new[j] = x
    BY <2>1, <2>2
  <2>4. \A j \in 1..Len(new) : Allowed(new[j])
    BY <1>5, <2>1, <2>3
  <2> QED
    BY <2>4 DEF new
<1>6. ASSUME NEW a \in Nicks, inbox[a] # <<>>, inbox' = [inbox EXCEPT ![a] = Tail(@)]
      PROVE  QueuedIsAllowed'
  <2> SUFFICES ASSUME NEW b \in Nicks, NEW i \in 1..Len(inbox'[b]) PROVE Allowed(inbox'[b][i])
    BY DEF QueuedIsAllowed, Allowed
  <2> DEFINE q == inbox[b]
             new == inbox'[b]
  <2>1. q \in Seq(Signed) /\ \A j \in 1..Len(q) : Allowed(q[j])
    BY <1>1 DEF QueuedIsAllowed
  <2>2. new = q \/ (q # <<>> /\ new = Tail(q))
    BY <1>1, <1>6
  <2> HIDE DEF q, new, Allowed
  <2>3. ASSUME NEW j \in 1..Len(new) PROVE \E k \in 1..Len(q) : new[j] = q[k]
    <3>1. CASE new = q
      BY <3>1
    <3>2. CASE q # <<>> /\ new = Tail(q)
      <4>1. Len(new) = Len(q) - 1 /\ new[j] = q[j + 1] /\ j + 1 \in 1..Len(q)
        BY <2>1, <3>2
      <4> QED
        BY <4>1
    <3> QED
      BY <2>2, <3>1, <3>2
  <2>4. \A j \in 1..Len(new) : Allowed(new[j])
    BY <2>1, <2>3
  <2> QED
    BY <2>4 DEF new
<1>7. ASSUME NEW a \in Nicks, AppSends(a) PROVE OutIsAllowed' /\ QueuedIsAllowed'
  BY <1>4, <1>7, AppSendsEffect DEF Thread
<1>8. ASSUME NEW a \in Nicks, NEW th \in Thread, Transmit(a, th)
      PROVE  OutIsAllowed' /\ QueuedIsAllowed'
  <2> DEFINE x == out[a][th]
  <2>1. x \in Sends(a, th) /\ Relayed(a, x) /\ out' = [out EXCEPT ![a][th] = None]
    BY <1>8, TransmitEffect
  <2>2. x \in Signed /\ x.nick = a /\ x # None
    BY <2>1, SendsMessage
  <2>3. Allowed(x)
    BY <2>2 DEF Allowed, OutIsAllowed
  <2>4. \A b \in Nicks, k \in Thread :
          out'[b][k] = IF b = a /\ k = th THEN None ELSE out[b][k]
    BY <1>1, <2>1
  <2>5. OutIsAllowed'
    BY <2>4 DEF OutIsAllowed
  <2> HIDE DEF x
  <2> QED
    BY <1>5, <2>1, <2>2, <2>3, <2>5
<1>9. ASSUME NEW a \in Nicks, Receive(a) PROVE OutIsAllowed' /\ QueuedIsAllowed'
  BY <1>2, <1>6, <1>9, ReceiveEffect
<1>10. ASSUME NEW a \in Nicks, Answer(a) PROVE OutIsAllowed' /\ QueuedIsAllowed'
  <2>1. (\E x : Applied(a, "reader", x)) \/ (out' = out /\ inbox' = inbox)
    BY <1>10, AnswerEffect
  <2> QED
    BY <1>2, <1>3, <1>4, <2>1 DEF Thread
<1>11. ASSUME NEW a \in Nicks, Notify(a) PROVE OutIsAllowed' /\ QueuedIsAllowed'
  <2> DEFINE x == From(a, Head(replies[a]))
  <2>1. x \in ByNotice(a) /\ Relayed(a, x) /\ out' = out
    BY <1>11, NotifyEffect
  <2>2. x \in Signed /\ Allowed(x)
    BY <2>1, ByNoticeMessage DEF Allowed
  <2> HIDE DEF x
  <2> QED
    BY <1>2, <1>5, <2>1, <2>2
<1>12. ASSUME NEW a \in Nicks, NEW t \in Tasks, Resolve(a, t)
       PROVE  OutIsAllowed' /\ QueuedIsAllowed'
  BY <1>2, <1>3, <1>12, ResolveStep
<1>13. CASE UNCHANGED vars
  BY <1>2, <1>3, <1>13 DEF vars
<1> QED
  BY <1>7, <1>8, <1>9, <1>10, <1>11, <1>12, <1>13 DEF Next, Thread

LEMMA NoTraceIs ==
  ASSUME DispTypes, NoTrace
  PROVE  DeniedLeavesNoTrace
<1>1. ASSUME NEW a \in Nicks PROVE Authorized(a, st[a])
  <2> DEFINE s == st[a]
  <2>1. StoresOK(s) /\ Traceless(a, s) /\ MoreOK(s) /\ MoreTraceless(a, s)
    BY DEF DispTypes, NoTrace, AllTraceless, AllMore
  <2> HIDE DEF s
  <2>2. /\ \A n \in Nicks, p \in Topics : s.votes[p][n] # "none" => May(a, n, {"VOTE"})
        /\ \A e \in ToSet(s.escalations) : May(a, e.by, {"ESCALATE"})
        /\ \A t \in Tasks :
             /\ \A g \in ToSet(s.gates[t]) : May(a, g.checkedBy, {"GATE-CHECK"})
             /\ \A r \in ToSet(s.reviews[t]) :
                  /\ May(a, r.by, {"REVIEW-REQUEST"})
                  /\ r.reviewer # NoNick => May(a, r.reviewer, {"REVIEW-COMPLETE"})
    BY <2>1, TracelessIs DEF May
  <2>3. ASSUME NEW t \in Tasks, NEW c \in ToSet(s.checkpoints[t])
        PROVE  May(a, c.nick, {"CHECKPOINT"})
    <3> DEFINE q == s.checkpoints[t]
    <3>1. q \in Seq({Saved(x) : x \in Signed}) /\ \A i \in 1..Len(q) : ~Denied(a, q[i].nick, "CHECKPOINT")
      BY <2>1 DEF MoreOK, MoreTraceless
    <3>2. PICK i \in 1..Len(q) : c = q[i]
      BY <3>1, AsSet
    <3> QED
      BY <3>1, <3>2 DEF May
  <2>4. \A n \in Nicks : s.agents[n] # <<>> => May(a, n, TaskAction)
    BY <2>1 DEF MoreTraceless
  <2>5. \A t \in Tasks : HandoffFine(a, s.handoffs[t]) /\ OfferFine(a, s.offers[t])
                          /\ TaskFine(a, s.tasks[t])
    BY <2>1, Zenon DEF MoreTraceless
  <2>6. Authorized(a, s)
    BY <2>2, <2>3, <2>4, <2>5 DEF Authorized, HandoffFine, OfferFine, TaskFine, May, SomeMay
  <2> QED
    BY <2>6 DEF s
<1>2. ASSUME NEW a \in Nicks, NEW m \in ToSet(inbox[a]), m.action # "TEXT"
      PROVE  ~Denied(m.nick, m.nick, m.action)
  <2>1. inbox[a] \in Seq(Signed)
    BY DEF DispTypes
  <2>2. PICK i \in 1..Len(inbox[a]) : m = inbox[a][i]
    BY <2>1, AsSet
  <2>3. Allowed(m) /\ m.nick \in Nicks
    BY <2>1, <2>2, SignedMessage DEF NoTrace, QueuedIsAllowed
  <2> QED
    BY <1>2, <2>3, DeniedIsNotPassed DEF Allowed
<1> QED
  BY <1>1, <1>2 DEF DeniedLeavesNoTrace

\* What an agent's rules deny leaves no trace in any of its stores and is not sent, for
\* any rules: the dispatcher checks a message of somebody else before it touches a
\* store, and SendProtocolMessage checks the agent's own, the answers of its roles
\* among them.
THEOREM DenialsLeaveNoTrace == Spec => []DeniedLeavesNoTrace
<1>1. DispTypes /\ NoTrace => DeniedLeavesNoTrace
  BY NoTraceIs
<1>2. DispTypes /\ NoTrace /\ [Next]_vars => NoTrace'
  BY TracelessStep, AllMoreStep, AllowedStep DEF NoTrace
<1> QED
  BY <1>1, <1>2, NoTraceInit, TypesHold, PTL DEF Spec

-----------------------------------------------------------------------------
(***************************************************************************)
(* The steps there are, by what they do to stores, messages and queues.    *)
(***************************************************************************)
Sent(c, h, x) ==
  /\ x \in Sends(c, h) /\ out[c][h] = x /\ Relayed(c, x)
  /\ out' = [out EXCEPT ![c][h] = None] /\ st' = st

Noticed(c, x) == x \in ByNotice(c) /\ Relayed(c, x) /\ st' = st /\ out' = out

Read(c, m) ==
  /\ inbox[c] # <<>> /\ m = Head(inbox[c]) /\ m \in Signed /\ m.nick # c
  /\ inbox' = [inbox EXCEPT ![c] = Tail(@)] /\ out' = out
  /\ \A b \in Nicks \ {c} : st'[b] = st[b]
  /\ st'[c] = IF Passes(c, m) THEN Updated(st[c], m) ELSE st[c]

Resolved(c, t) ==
  /\ \A b \in Nicks \ {c} : st'[b] = st[b]
  /\ st'[c].votes = st[c].votes /\ st'[c].reviews = st[c].reviews
  /\ st'[c].gates = st[c].gates
  /\ st'[c].escalations = ResolveEscalation(st[c].escalations, t)
  /\ out' = out /\ inbox' = inbox

LEMMA Steps ==
  ASSUME DispTypes, [Next]_vars
  PROVE  \/ \E c \in Nicks, h \in Thread : \E x : Applied(c, h, x)
         \/ \E c \in Nicks, h \in Thread : \E x : Sent(c, h, x)
         \/ \E c \in Nicks : \E x : Noticed(c, x)
         \/ \E c \in Nicks : \E m : Read(c, m)
         \/ \E c \in Nicks, t \in Tasks : Resolved(c, t)
         \/ st' = st /\ out' = out /\ inbox' = inbox
<1>1. ASSUME NEW a \in Nicks, AppSends(a)
      PROVE  \E c \in Nicks, h \in Thread : \E x : Applied(c, h, x)
  BY <1>1, AppSendsEffect DEF Thread
<1>2. ASSUME NEW a \in Nicks, NEW th \in Thread, Transmit(a, th)
      PROVE  \E c \in Nicks, h \in Thread : \E x : Sent(c, h, x)
  <2>1. Sent(a, th, out[a][th])
    BY <1>2, TransmitEffect DEF Sent
  <2> QED
    BY <2>1
<1>3. ASSUME NEW a \in Nicks, Receive(a) PROVE \E c \in Nicks : \E m : Read(c, m)
  <2> DEFINE m == Head(inbox[a])
  <2>1. /\ inbox[a] # <<>> /\ m \in Signed /\ m.nick # a
        /\ inbox' = [inbox EXCEPT ![a] = Tail(@)] /\ out' = out
        /\ \A b \in Nicks \ {a} : st'[b] = st[b]
        /\ st'[a] = IF Passes(a, m) THEN Updated(st[a], m) ELSE st[a]
    BY <1>3, ReceiveEffect
  <2>2. Read(a, m)
    BY <2>1 DEF Read
  <2> QED
    BY <2>2
<1>4. ASSUME NEW a \in Nicks, Answer(a)
      PROVE  \/ \E c \in Nicks, h \in Thread : \E x : Applied(c, h, x)
             \/ st' = st /\ out' = out /\ inbox' = inbox
  BY <1>4, AnswerEffect DEF Thread
<1>5. ASSUME NEW a \in Nicks, Notify(a) PROVE \E c \in Nicks : \E x : Noticed(c, x)
  <2>1. Noticed(a, From(a, Head(replies[a])))
    BY <1>5, NotifyEffect DEF Noticed
  <2> QED
    BY <2>1
<1>6. ASSUME NEW a \in Nicks, NEW t \in Tasks, Resolve(a, t)
      PROVE  \E c \in Nicks, u \in Tasks : Resolved(c, u)
  BY <1>6, ResolveStep DEF Resolved
<1>7. CASE UNCHANGED vars
  BY <1>7 DEF vars
<1> QED
  BY <1>1, <1>2, <1>3, <1>4, <1>5, <1>6, <1>7 DEF Next, Thread

\* What a thread holds after another one, or the thread itself, took or sent a message.
LEMMA AppliedOut ==
  ASSUME DispTypes, NEW c \in Nicks, NEW h \in Thread, NEW x, Applied(c, h, x),
         NEW b \in Nicks, NEW g \in Thread
  PROVE  out'[b][g] = IF b = c /\ g = h THEN x ELSE out[b][g]
<1>1. out \in [Nicks -> [Thread -> {None} \cup Signed]] /\ out' = [out EXCEPT ![c][h] = x]
  BY DEF DispTypes, Applied
<1> QED
  BY <1>1

LEMMA SentOut ==
  ASSUME DispTypes, NEW c \in Nicks, NEW h \in Thread, NEW x, Sent(c, h, x),
         NEW b \in Nicks, NEW g \in Thread
  PROVE  out'[b][g] = IF b = c /\ g = h THEN None ELSE out[b][g]
<1>1. out \in [Nicks -> [Thread -> {None} \cup Signed]] /\ out' = [out EXCEPT ![c][h] = None]
  BY DEF DispTypes, Sent
<1> QED
  BY <1>1

LEMMA RelayedTo ==
  ASSUME DispTypes, NEW c \in Nicks, NEW x \in Signed, Relayed(c, x), NEW b \in Nicks
  PROVE  /\ inbox[b] \in Seq(Signed)
         /\ b = c => inbox'[b] = inbox[b]
         /\ b # c => inbox'[b] = Append(inbox[b], x)
BY DEF DispTypes, Relayed

LEMMA ReadFrom ==
  ASSUME DispTypes, NEW c \in Nicks, NEW m, Read(c, m), NEW b \in Nicks
  PROVE  /\ inbox[b] \in Seq(Signed)
         /\ b = c => inbox'[b] = Tail(inbox[b]) /\ inbox[b] # <<>> /\ Head(inbox[b]) = m
         /\ b # c => inbox'[b] = inbox[b]
BY DEF DispTypes, Read

\* An agent without rules lets everything pass.
LEMMA UnfilteredPasses ==
  ASSUME NEW a \in Unfiltered, NEW m, m.action # "TEXT"
  PROVE  a \in Nicks /\ Passes(a, m)
<1>1. a \in Nicks /\ Rules[a] = <<>>
  BY DEF Unfiltered
<1>2. \A n, act : Check(<<>>, n, act)
  BY DEF Check
<1> QED
  BY <1>1, <1>2 DEF Passes

\* Every message but a notice is one that some thread sends.
LEMMA SignedBySomeone ==
  ASSUME NEW m \in Signed
  PROVE  \/ m.action = "TEXT"
         \/ \E n \in Nicks, h \in Thread : m \in Sends(n, h) /\ m.nick = n
<1>1. PICK n \in Nicks : m \in BySay(n) \cup ByRole(n) \cup ByNotice(n)
  BY DEF Signed
<1>2. CASE m \in BySay(n)
  <2>1. m \in Sends(n, "app") /\ m.nick = n
    BY <1>2, BySayMessage DEF Sends
  <2> QED
    BY <2>1 DEF Thread
<1>3. CASE m \in ByRole(n)
  <2>1. m \in Sends(n, "reader") /\ m.nick = n
    BY <1>3, ByRoleMessage DEF Sends
  <2> QED
    BY <2>1 DEF Thread
<1>4. CASE m \in ByNotice(n)
  BY <1>4, ByNoticeMessage
<1> QED
  BY <1>1, <1>2, <1>3, <1>4

-----------------------------------------------------------------------------
(***************************************************************************)
(* What only one thread writes: a vote of an agent on a topic, and the     *)
(* result of a gate that has one checker.  Messages that write it reach    *)
(* everyone in the order in which they were applied by their sender.       *)
(***************************************************************************)
VoteKey(p, n) == [kind |-> "vote", topic |-> p, nick |-> n]
GateKey(t, g) == [kind |-> "gate", task |-> t, gate |-> g]

Keys == {VoteKey(p, n) : p \in Topics, n \in Nicks} \cup {GateKey(t, g) : t \in Tasks, g \in Word}

Writes(m, k) ==
  IF k.kind = "vote" THEN m.action = "VOTE" /\ m.topic = k.topic /\ m.nick = k.nick
  ELSE m.action = "GATE-CHECK" /\ m.task = k.task /\ m.gate = k.gate

Written(m, k) == IF k.kind = "vote" THEN {m.choice} ELSE {m.status}

\* The latest result of the gate, as a set that is empty when there is none.
GateStatus(gs, g) ==
  {gs[i].status : i \in {j \in 1..Len(gs) : /\ gs[j].gate = g
                                            /\ \A l \in 1..Len(gs) : l > j => gs[l].gate # g}}

Stored(s, k) == IF k.kind = "vote" THEN {s.votes[k.topic][k.nick]}
                ELSE GateStatus(s.gates[k.task], k.gate)

LEMMA GateStatusAppend ==
  ASSUME NEW gs \in Seq(Gate), NEW r \in Gate, NEW g
  PROVE  GateStatus(Append(gs, r), g) = IF r.gate = g THEN {r.status} ELSE GateStatus(gs, g)
<1> DEFINE n == Len(gs)
           hs == Append(gs, r)
           Latest(q) == {j \in 1..Len(q) : q[j].gate = g /\ \A l \in 1..Len(q) : l > j => q[l].gate # g}
<1>1. /\ n \in Nat /\ Len(hs) = n + 1 /\ hs[n + 1] = r /\ \A i \in 1..n : hs[i] = gs[i]
  OBVIOUS
<1> HIDE DEF hs, n
<1>2. CASE r.gate = g
  <2>1. Latest(hs) = {n + 1}
    BY <1>1, <1>2
  <2> QED
    BY <1>1, <1>2, <2>1 DEF GateStatus, hs
<1>3. CASE r.gate # g
  <2>1. Latest(hs) = Latest(gs) /\ \A j \in Latest(gs) : hs[j] = gs[j]
    <3>1. \A j \in 1..(n + 1) : j \in Latest(hs) => j \in Latest(gs)
      BY <1>1, <1>3 DEF n
    <3>2. \A j \in 1..n : j \in Latest(gs) => j \in Latest(hs)
      BY <1>1, <1>3 DEF n
    <3> QED
      BY <1>1, <3>1, <3>2 DEF n
  <2> QED
    BY <1>3, <2>1 DEF GateStatus, hs
<1> QED
  BY <1>2, <1>3

\* A message writes the keys it writes and no others.
LEMMA StoredAfter ==
  ASSUME NEW s, StoresOK(s), NEW m \in Signed, NEW k \in Keys
  PROVE  Stored(Updated(s, m), k) = IF Writes(m, k) THEN Written(m, k) ELSE Stored(s, k)
<1>1. ASSUME NEW p \in Topics, NEW n \in Nicks, k = VoteKey(p, n)
      PROVE  Stored(Updated(s, m), k) = IF Writes(m, k) THEN Written(m, k) ELSE Stored(s, k)
  <2>1. k.kind = "vote" /\ k.topic = p /\ k.nick = n
    BY <1>1 DEF VoteKey
  <2>2. Updated(s, m).votes[p][n]
           = IF m.action = "VOTE" /\ p = m.topic /\ n = m.nick THEN m.choice ELSE s.votes[p][n]
    BY VotesAfter
  <2> QED
    BY <2>1, <2>2 DEF Stored, Writes, Written
<1>2. ASSUME NEW t \in Tasks, NEW g \in Word, k = GateKey(t, g)
      PROVE  Stored(Updated(s, m), k) = IF Writes(m, k) THEN Written(m, k) ELSE Stored(s, k)
  <2>1. k.kind = "gate" /\ k.task = t /\ k.gate = g
    BY <1>2 DEF GateKey
  <2> DEFINE gs == s.gates[t]
             hs == Updated(s, m).gates[t]
             r  == CheckedIn(m)
  <2>2. /\ gs \in Seq(Gate)
        /\ m.action = "GATE-CHECK" => r \in Gate
        /\ hs = IF m.action = "GATE-CHECK" /\ m.task = t THEN Append(gs, r) ELSE gs
    BY GatesAfter
  <2>3. r.gate = m.gate /\ r.status = m.status
    BY DEF CheckedIn
  <2> HIDE DEF gs, hs, r
  <2>4. CASE m.action = "GATE-CHECK" /\ m.task = t
    <3>1. GateStatus(hs, g) = IF r.gate = g THEN {r.status} ELSE GateStatus(gs, g)
      BY <2>2, <2>4, GateStatusAppend
    <3> QED
      BY <2>1, <2>3, <2>4, <3>1 DEF Stored, Writes, Written, gs, hs
  <2>5. CASE ~(m.action = "GATE-CHECK" /\ m.task = t)
    BY <2>1, <2>2, <2>5 DEF Stored, Writes, Written, gs, hs
  <2> QED
    BY <2>4, <2>5
<1> QED
  BY <1>1, <1>2 DEF Keys

\* Thread h of agent n, and nobody else, writes k.
OnlyWriter(n, h, k) ==
  \A b \in Nicks, g \in Thread : \A x \in Sends(b, g) : Writes(x, k) => b = n /\ g = h

\* When the messages of q are applied to stores with the value x, the value is v.
Becomes(q, k, x, v) ==
  /\ \A i \in 1..Len(q) : Writes(q[i], k) /\ (\A j \in 1..Len(q) : j > i => ~Writes(q[j], k))
                          => Written(q[i], k) = v
  /\ (\A i \in 1..Len(q) : ~Writes(q[i], k)) => x = v

\* Agent a has the value v, or it is on its way to a.
WillStore(a, n, h, k, v) ==
  IF a = n THEN Stored(st[a], k) = v
  ELSE IF Writes(out[n][h], k) THEN Written(out[n][h], k) = v
  ELSE Becomes(inbox[a], k, Stored(st[a], k), v)

KeysAgree ==
  \A k \in Keys, n \in Nicks, h \in Thread :
    OnlyWriter(n, h, k) => \E v : \A a \in Unfiltered : WillStore(a, n, h, k, v)

LEMMA TextWritesNothing ==
  ASSUME NEW m, NEW k, m.action \in {"TEXT", "none"}
  PROVE  ~Writes(m, k)
BY DEF Writes

LEMMA BecomesAppend ==
  ASSUME NEW q \in Seq(Signed), NEW m \in Signed, NEW k, NEW x, NEW v
  PROVE  /\ Writes(m, k) => Becomes(Append(q, m), k, x, Written(m, k))
         /\ ~Writes(m, k) /\ Becomes(q, k, x, v) => Becomes(Append(q, m), k, x, v)
<1> DEFINE n == Len(q)
           r == Append(q, m)
<1>1. /\ n \in Nat /\ Len(r) = n + 1 /\ r[n + 1] = m /\ \A i \in 1..n : r[i] = q[i]
  OBVIOUS
<1> HIDE DEF n, r
<1>2. ASSUME Writes(m, k) PROVE Becomes(r, k, x, Written(m, k))
  <2>1. n + 1 \in 1..Len(r)
    BY <1>1
  <2>2. ASSUME NEW i \in 1..Len(r), Writes(r[i], k), \A j \in 1..Len(r) : j > i => ~Writes(r[j], k)
        PROVE  Written(r[i], k) = Written(m, k)
    BY <1>1, <1>2, <2>1, <2>2
  <2> QED
    BY <1>1, <1>2, <2>1, <2>2 DEF Becomes
<1>3. ASSUME ~Writes(m, k), Becomes(q, k, x, v) PROVE Becomes(r, k, x, v)
  <2>1. ASSUME NEW i \in 1..Len(r), Writes(r[i], k), \A j \in 1..Len(r) : j > i => ~Writes(r[j], k)
        PROVE  Written(r[i], k) = v
    <3>1. i \in 1..n
      BY <1>1, <1>3, <2>1
    <3>2. \A j \in 1..n : j > i => ~Writes(q[j], k)
      BY <1>1, <2>1
    <3> QED
      BY <1>1, <1>3, <2>1, <3>1, <3>2 DEF Becomes, n
  <2>2. ASSUME \A i \in 1..Len(r) : ~Writes(r[i], k) PROVE x = v
    <3>1. \A i \in 1..n : ~Writes(q[i], k)
      BY <1>1, <2>2
    <3> QED
      BY <1>3, <3>1 DEF Becomes, n
  <2> QED
    BY <2>1, <2>2 DEF Becomes
<1> QED
  BY <1>2, <1>3 DEF r

LEMMA BecomesTail ==
  ASSUME NEW q \in Seq(Signed), q # <<>>, NEW k, NEW x, NEW v, Becomes(q, k, x, v)
  PROVE  Becomes(Tail(q), k, IF Writes(Head(q), k) THEN Written(Head(q), k) ELSE x, v)
<1> DEFINE n == Len(q)
           r == Tail(q)
           y == IF Writes(Head(q), k) THEN Written(Head(q), k) ELSE x
<1>1. /\ n \in Nat /\ n > 0 /\ Len(r) = n - 1 /\ Head(q) = q[1]
      /\ \A i \in 1..(n - 1) : r[i] = q[i + 1]
  OBVIOUS
<1> HIDE DEF r
<1>2. ASSUME NEW i \in 1..Len(r), Writes(r[i], k), \A j \in 1..Len(r) : j > i => ~Writes(r[j], k)
      PROVE  Written(r[i], k) = v
  <2>1. i + 1 \in 1..n /\ q[i + 1] = r[i]
    BY <1>1
  <2>2. ASSUME NEW j \in 1..n, j > i + 1 PROVE ~Writes(q[j], k)
    <3>1. j - 1 \in 1..Len(r) /\ j - 1 > i /\ r[j - 1] = q[j]
      BY <1>1, <2>2
    <3> QED
      BY <1>2, <3>1
  <2> HIDE DEF n
  <2> QED
    BY <1>2, <2>1, <2>2 DEF Becomes, n
<1>3. ASSUME \A i \in 1..Len(r) : ~Writes(r[i], k) PROVE y = v
  <2>1. ASSUME NEW j \in 1..n, j > 1 PROVE ~Writes(q[j], k)
    <3>1. j - 1 \in 1..Len(r) /\ r[j - 1] = q[j]
      BY <1>1, <2>1
    <3> QED
      BY <1>3, <3>1
  <2>2. CASE Writes(q[1], k)
    BY <1>1, <2>1, <2>2 DEF Becomes
  <2>3. CASE ~Writes(q[1], k)
    <3>1. \A j \in 1..n : ~Writes(q[j], k)
      BY <1>1, <2>1, <2>3
    <3> QED
      BY <1>1, <2>3, <3>1 DEF Becomes
  <2> QED
    BY <2>2, <2>3
<1> QED
  BY <1>2, <1>3 DEF Becomes, r

LEMMA KeysAgreeInit == Init => KeysAgree
<1> SUFFICES ASSUME Init, NEW k \in Keys, NEW n \in Nicks, NEW h \in Thread
             PROVE  \E v : \A a \in Unfiltered : WillStore(a, n, h, k, v)
  BY DEF KeysAgree
<1>1. \A a \in Nicks : st[a] = NewAgent /\ inbox[a] = <<>>
  BY DEF Init
<1>2. ~Writes(out[n][h], k)
  <2>1. out[n][h] = None
    BY DEF Init, Thread
  <2> QED
    BY <2>1, TextWritesNothing DEF None
<1>3. \A x : Becomes(<<>>, k, x, x)
  BY DEF Becomes
<1>4. \A a \in Unfiltered : a \in Nicks
  BY DEF Unfiltered
<1>5. \A a \in Unfiltered : WillStore(a, n, h, k, Stored(NewAgent, k))
  BY <1>1, <1>2, <1>3, <1>4 DEF WillStore
<1> QED
  BY <1>5

LEMMA KeysAgreeStep == DispTypes /\ KeysAgree /\ [Next]_vars => KeysAgree'
<1> SUFFICES ASSUME DispTypes, KeysAgree, [Next]_vars,
                    NEW k \in Keys, NEW n \in Nicks, NEW h \in Thread, OnlyWriter(n, h, k)
             PROVE  \E w : \A a \in Unfiltered : WillStore(a, n, h, k, w)'
  BY DEF KeysAgree
<1>1. PICK v : \A a \in Unfiltered : WillStore(a, n, h, k, v)
  BY DEF KeysAgree
<1>2. \A a \in Unfiltered : a \in Nicks
  BY DEF Unfiltered
<1>3. \A a \in Nicks : StoresOK(st[a])
  BY DEF DispTypes
<1>4. ~Writes(None, k)
  BY TextWritesNothing DEF None
<1>5. ASSUME NEW c \in Nicks, NEW g \in Thread, NEW x, Applied(c, g, x)
      PROVE  \E w : \A a \in Unfiltered : WillStore(a, n, h, k, w)'
  <2>1. x \in Sends(c, g) /\ x \in Signed /\ x.nick = c
    BY <1>5, SendsMessage DEF Applied
  <2>2. /\ st'[c] = Updated(st[c], x) /\ \A b \in Nicks \ {c} : st'[b] = st[b]
        /\ inbox' = inbox /\ out[c][g] = None /\ out' = [out EXCEPT ![c][g] = x]
    BY <1>5 DEF Applied
  <2>3. out'[n][h] = IF n = c /\ h = g THEN x ELSE out[n][h]
    BY <1>5, AppliedOut
  <2>4. Stored(st'[c], k) = IF Writes(x, k) THEN Written(x, k) ELSE Stored(st[c], k)
    BY <1>3, <2>1, <2>2, StoredAfter
  <2>5. CASE Writes(x, k)
    <3>1. c = n /\ g = h
      BY <2>1, <2>5 DEF OnlyWriter
    <3>2. \A a \in Unfiltered : WillStore(a, n, h, k, Written(x, k))'
      BY <2>3, <2>4, <2>5, <3>1 DEF WillStore
    <3> QED
      BY <3>2
  <2>6. CASE ~Writes(x, k)
    <3>1. \A a \in Nicks : Stored(st'[a], k) = Stored(st[a], k)
      BY <2>2, <2>4, <2>6
    <3>2. out'[n][h] = out[n][h] \/ (~Writes(out[n][h], k) /\ ~Writes(out'[n][h], k))
      BY <1>4, <2>2, <2>3, <2>6
    <3>3. \A a \in Unfiltered : WillStore(a, n, h, k, v)'
      BY <1>1, <1>2, <2>2, <3>1, <3>2 DEF WillStore
    <3> QED
      BY <3>3
  <2> QED
    BY <2>5, <2>6
<1>6. ASSUME NEW c \in Nicks, NEW x \in Signed, Relayed(c, x), st' = st, ~Writes(x, k),
             out'[n][h] = out[n][h] \/ (~Writes(out[n][h], k) /\ ~Writes(out'[n][h], k))
      PROVE  \E w : \A a \in Unfiltered : WillStore(a, n, h, k, w)'
  <2>1. ASSUME NEW a \in Unfiltered PROVE WillStore(a, n, h, k, v)'
    <3> DEFINE q == inbox[a]
               y == Stored(st[a], k)
    <3>1. q \in Seq(Signed) /\ (inbox'[a] = q \/ inbox'[a] = Append(q, x))
      BY <1>2, <1>6, RelayedTo
    <3>2. Becomes(q, k, y, v) => Becomes(inbox'[a], k, y, v)
      <4> HIDE DEF q, y
      <4> QED
        BY <1>6, <3>1, BecomesAppend
    <3> QED
      BY <1>1, <1>6, <3>2 DEF WillStore
  <2> QED
    BY <2>1
<1>7. ASSUME NEW c \in Nicks, NEW g \in Thread, NEW x, Sent(c, g, x)
      PROVE  \E w : \A a \in Unfiltered : WillStore(a, n, h, k, w)'
  <2>1. x \in Sends(c, g) /\ x \in Signed /\ x.nick = c
    BY <1>7, SendsMessage DEF Sent
  <2>2. /\ st' = st /\ out[c][g] = x /\ out' = [out EXCEPT ![c][g] = None] /\ Relayed(c, x)
    BY <1>7 DEF Sent
  <2>3. out'[n][h] = IF n = c /\ h = g THEN None ELSE out[n][h]
    BY <1>7, SentOut
  <2>4. CASE Writes(x, k)
    <3>1. c = n /\ g = h
      BY <2>1, <2>4 DEF OnlyWriter
    <3>2. ASSUME NEW a \in Unfiltered PROVE WillStore(a, n, h, k, v)'
      <4>1. CASE a = n
        BY <1>1, <2>2, <4>1 DEF WillStore
      <4>2. CASE a # n
        <5>1. v = Written(x, k)
          BY <1>1, <2>2, <2>4, <3>1, <4>2 DEF WillStore
        <5> DEFINE q == inbox[a]
                   y == Stored(st[a], k)
        <5>2. q \in Seq(Signed) /\ inbox'[a] = Append(q, x)
          BY <1>2, <2>1, <2>2, <3>1, <4>2, RelayedTo
        <5>3. Becomes(inbox'[a], k, y, v)
          <6> HIDE DEF q, y
          <6> QED
            BY <2>1, <2>4, <5>1, <5>2, BecomesAppend
        <5> QED
          BY <1>4, <2>2, <2>3, <3>1, <4>2, <5>3 DEF WillStore
      <4> QED
        BY <4>1, <4>2
    <3> QED
      BY <3>2
  <2>5. CASE ~Writes(x, k)
    BY <1>4, <1>6, <2>1, <2>2, <2>3, <2>5
  <2> QED
    BY <2>4, <2>5
<1>8. ASSUME NEW c \in Nicks, NEW x, Noticed(c, x)
      PROVE  \E w : \A a \in Unfiltered : WillStore(a, n, h, k, w)'
  <2>1. x \in Signed /\ x.action = "TEXT"
    BY <1>8, ByNoticeMessage DEF Noticed
  <2>2. ~Writes(x, k)
    BY <2>1, TextWritesNothing
  <2> QED
    BY <1>6, <1>8, <2>1, <2>2 DEF Noticed
<1>9. ASSUME NEW c \in Nicks, NEW m, Read(c, m)
      PROVE  \E w : \A a \in Unfiltered : WillStore(a, n, h, k, w)'
  <2>1. /\ m \in Signed /\ m.nick # c /\ out' = out
        /\ \A b \in Nicks \ {c} : st'[b] = st[b]
        /\ st'[c] = IF Passes(c, m) THEN Updated(st[c], m) ELSE st[c]
    BY <1>9 DEF Read
  <2>2. Writes(m, k) => m.nick = n /\ m.action # "TEXT"
    <3>1. Writes(m, k) => m.action # "TEXT"
      BY TextWritesNothing
    <3> QED
      BY <2>1, <3>1, SignedBySomeone DEF OnlyWriter
  <2>3. ASSUME NEW a \in Unfiltered PROVE WillStore(a, n, h, k, v)'
    <3>1. CASE a # c
      <4>1. inbox'[a] = inbox[a] /\ st'[a] = st[a]
        BY <1>2, <1>9, <2>1, <3>1, ReadFrom
      <4> QED
        BY <1>1, <2>1, <4>1 DEF WillStore
    <3>2. CASE a = c
      <4> DEFINE q == inbox[a]
                 y == Stored(st[a], k)
                 z == Stored(st'[a], k)
      <4>1. Stored(Updated(st[a], m), k) = IF Writes(m, k) THEN Written(m, k) ELSE y
        BY <1>2, <1>3, <2>1, StoredAfter
      <4>2. z = IF Writes(m, k) THEN Written(m, k) ELSE y
        <5>1. CASE Writes(m, k)
          <6>1. Passes(a, m)
            BY <2>2, <5>1, UnfilteredPasses
          <6> QED
            BY <2>1, <3>2, <4>1, <6>1
        <5>2. CASE ~Writes(m, k)
          BY <2>1, <3>2, <4>1, <5>2
        <5> QED
          BY <5>1, <5>2
      <4>3. q \in Seq(Signed) /\ q # <<>> /\ Head(q) = m /\ inbox'[a] = Tail(q)
        BY <1>2, <1>9, <3>2, ReadFrom
      <4>4. Becomes(q, k, y, v) => Becomes(inbox'[a], k, z, v)
        <5> HIDE DEF q, y, z
        <5> QED
          BY <4>2, <4>3, BecomesTail
      <4>5. a = n => ~Writes(m, k)
        BY <2>1, <2>2, <3>2
      <4> QED
        BY <1>1, <2>1, <4>2, <4>4, <4>5 DEF WillStore
    <3> QED
      BY <3>1, <3>2
  <2> QED
    BY <2>3
<1>10. ASSUME NEW c \in Nicks, NEW t \in Tasks, Resolved(c, t)
       PROVE  \E w : \A a \in Unfiltered : WillStore(a, n, h, k, w)'
  <2>1. \A a \in Nicks : st'[a].votes = st[a].votes /\ st'[a].gates = st[a].gates
    BY <1>10 DEF Resolved
  <2>2. \A a \in Nicks : Stored(st'[a], k) = Stored(st[a], k)
    BY <2>1 DEF Stored
  <2>3. out' = out /\ inbox' = inbox
    BY <1>10 DEF Resolved
  <2>4. \A a \in Unfiltered : WillStore(a, n, h, k, v)'
    BY <1>1, <1>2, <2>2, <2>3 DEF WillStore
  <2> QED
    BY <2>4
<1>11. CASE st' = st /\ out' = out /\ inbox' = inbox
  <2>1. \A a \in Unfiltered : WillStore(a, n, h, k, v)'
    BY <1>1, <1>11 DEF WillStore
  <2> QED
    BY <2>1
<1> QED
  BY <1>5, <1>7, <1>8, <1>9, <1>10, <1>11, Steps

-----------------------------------------------------------------------------
(***************************************************************************)
(* Escalated tasks: an agent has the escalation, or it is on its way.      *)
(***************************************************************************)
Escalates(m, t) == m.action = "ESCALATE" /\ m.task = t

Known(a, t) ==
  \/ \E i \in 1..Len(st[a].escalations) : st[a].escalations[i].task = t
  \/ \E i \in 1..Len(inbox[a]) : Escalates(inbox[a][i], t)
  \/ \E b \in Nicks \ {a}, h \in Thread : Escalates(out[b][h], t)

EscalationsAgree == \A t \in Tasks : \A a, b \in Unfiltered : Known(a, t) <=> Known(b, t)

\* Escalations of s and q, and those after the first message of q was applied.
LEMMA EscalationsMove ==
  ASSUME NEW s, StoresOK(s), NEW m \in Signed, NEW t \in Tasks
  PROVE  (\E i \in 1..Len(Updated(s, m).escalations) : Updated(s, m).escalations[i].task = t)
           <=> \/ \E i \in 1..Len(s.escalations) : s.escalations[i].task = t
               \/ Escalates(m, t)
<1> DEFINE es == s.escalations
           e == RaisedIn(m)
           new == Updated(s, m).escalations
<1>1. /\ es \in Seq(Escal)
      /\ new = IF m.action = "ESCALATE" THEN Append(es, e) ELSE es
      /\ m.action = "ESCALATE" => e \in Escal
  BY EscalationsAfter
<1>2. e.task = m.task
  BY DEF RaisedIn
<1> HIDE DEF es, e, new
<1>3. CASE m.action = "ESCALATE"
  <2>1. /\ Len(es) \in Nat /\ Len(new) = Len(es) + 1 /\ new[Len(es) + 1] = e
        /\ \A i \in 1..Len(es) : new[i] = es[i]
    BY <1>1, <1>3
  <2>2. (\E i \in 1..Len(new) : new[i].task = t) <=> \/ \E i \in 1..Len(es) : es[i].task = t
                                                     \/ e.task = t
    <3>1. \A i \in 1..Len(new) : i \in 1..Len(es) \/ i = Len(es) + 1
      BY <2>1
    <3>2. Len(es) + 1 \in 1..Len(new) /\ \A i \in 1..Len(es) : i \in 1..Len(new)
      BY <2>1
    <3> QED
      BY <2>1, <3>1, <3>2
  <2> QED
    BY <1>2, <1>3, <2>2 DEF Escalates, new, es
<1>4. CASE m.action # "ESCALATE"
  BY <1>1, <1>4 DEF Escalates, new, es
<1> QED
  BY <1>3, <1>4

LEMMA EscalationsAgreeInit == Init => EscalationsAgree
<1> SUFFICES ASSUME Init, NEW t \in Tasks, NEW a \in Unfiltered PROVE ~Known(a, t)
  BY DEF EscalationsAgree
<1>1. a \in Nicks
  BY DEF Unfiltered
<1>2. st[a].escalations = <<>> /\ inbox[a] = <<>>
  BY <1>1 DEF Init, NewAgent, NewStores
<1>3. \A b \in Nicks, h \in Thread : out[b][h] = None
  BY DEF Init, Thread
<1> QED
  BY <1>2, <1>3 DEF Known, Escalates, None

LEMMA EscalationsAgreeStep == DispTypes /\ EscalationsAgree /\ [Next]_vars => EscalationsAgree'
<1> SUFFICES ASSUME DispTypes, EscalationsAgree, [Next]_vars, NEW t \in Tasks
             PROVE  \/ \A a \in Unfiltered : Known(a, t)'
                    \/ \A a \in Unfiltered : Known(a, t)' <=> Known(a, t)
  BY DEF EscalationsAgree
<1> DEFINE InStore(s) == \E i \in 1..Len(s.escalations) : s.escalations[i].task = t
           InQueue(q) == \E i \in 1..Len(q) : Escalates(q[i], t)
           Awaits(a) == \E b \in Nicks \ {a}, h \in Thread : Escalates(out[b][h], t)
           AwaitsNext(a) == \E b \in Nicks \ {a}, h \in Thread : Escalates(out'[b][h], t)
<1>1. \A a \in Unfiltered : a \in Nicks /\ StoresOK(st[a]) /\ inbox[a] \in Seq(Signed)
  BY DEF Unfiltered, DispTypes
<1>2. ASSUME NEW a \in Unfiltered
      PROVE  /\ Known(a, t) <=> InStore(st[a]) \/ InQueue(inbox[a]) \/ Awaits(a)
             /\ Known(a, t)' <=> InStore(st'[a]) \/ InQueue(inbox'[a]) \/ AwaitsNext(a)
  BY DEF Known
<1>3. ~Escalates(None, t)
  BY DEF Escalates, None
<1>4. ASSUME NEW s, StoresOK(s), NEW m \in Signed
      PROVE  InStore(Updated(s, m)) <=> InStore(s) \/ Escalates(m, t)
  BY <1>4, EscalationsMove
<1>5. ASSUME NEW q \in Seq(Signed), NEW m \in Signed
      PROVE  InQueue(Append(q, m)) <=> InQueue(q) \/ Escalates(m, t)
  <2>1. /\ Len(Append(q, m)) = Len(q) + 1 /\ Append(q, m)[Len(q) + 1] = m /\ Len(q) \in Nat
        /\ \A i \in 1..Len(q) : Append(q, m)[i] = q[i]
    OBVIOUS
  <2> DEFINE r == Append(q, m)
  <2> HIDE DEF r
  <2>2. /\ \A i \in 1..Len(r) : i \in 1..Len(q) \/ i = Len(q) + 1
        /\ Len(q) + 1 \in 1..Len(r) /\ \A i \in 1..Len(q) : i \in 1..Len(r)
    BY <2>1 DEF r
  <2>3. InQueue(r) <=> InQueue(q) \/ Escalates(m, t)
    BY <2>1, <2>2 DEF r
  <2> QED
    BY <2>3 DEF r
<1>6. ASSUME NEW q \in Seq(Signed), q # <<>>
      PROVE  InQueue(q) <=> InQueue(Tail(q)) \/ Escalates(Head(q), t)
  <2>1. /\ Len(q) \in Nat /\ Len(q) > 0 /\ Len(Tail(q)) = Len(q) - 1 /\ Head(q) = q[1]
        /\ \A i \in 1..(Len(q) - 1) : Tail(q)[i] = q[i + 1]
    BY <1>6
  <2> DEFINE r == Tail(q)
  <2> HIDE DEF r
  <2>2. \A i \in 1..Len(q) : i = 1 \/ (i - 1 \in 1..Len(r) /\ q[i] = r[i - 1])
    BY <2>1 DEF r
  <2>3. \A i \in 1..Len(r) : i + 1 \in 1..Len(q) /\ q[i + 1] = r[i]
    BY <2>1 DEF r
  <2>4. 1 \in 1..Len(q) /\ Head(q) = q[1]
    BY <2>1
  <2>5. InQueue(q) <=> InQueue(r) \/ Escalates(Head(q), t)
    BY <2>2, <2>3, <2>4
  <2> QED
    BY <2>5 DEF r
<1> HIDE DEF InStore, InQueue
<1>7. ASSUME NEW c \in Nicks, NEW g \in Thread, NEW x, Applied(c, g, x)
      PROVE  \/ \A a \in Unfiltered : Known(a, t)'
             \/ \A a \in Unfiltered : Known(a, t)' <=> Known(a, t)
  <2>1. x \in Signed
    BY <1>7, SendsMessage DEF Applied
  <2>2. /\ st'[c] = Updated(st[c], x) /\ \A b \in Nicks \ {c} : st'[b] = st[b]
        /\ inbox' = inbox /\ out[c][g] = None
    BY <1>7 DEF Applied
  <2>3. \A b \in Nicks, h \in Thread : out'[b][h] = IF b = c /\ h = g THEN x ELSE out[b][h]
    BY <1>7, AppliedOut
  <2>4. StoresOK(st[c])
    BY DEF DispTypes
  <2>5. InStore(st'[c]) <=> InStore(st[c]) \/ Escalates(x, t)
    BY <1>4, <2>1, <2>2, <2>4
  <2>6. CASE Escalates(x, t)
    <3>1. ASSUME NEW a \in Unfiltered PROVE Known(a, t)'
      <4>1. CASE a = c
        BY <1>2, <2>5, <2>6, <4>1
      <4>2. CASE a # c
        <5>1. AwaitsNext(a)
          BY <2>3, <2>6, <4>2
        <5> QED
          BY <1>2, <5>1
      <4> QED
        BY <4>1, <4>2
    <3> QED
      BY <3>1
  <2>7. CASE ~Escalates(x, t)
    <3>1. ASSUME NEW a \in Unfiltered PROVE Known(a, t)' <=> Known(a, t)
      <4>1. \A b \in Nicks, h \in Thread : Escalates(out'[b][h], t) <=> Escalates(out[b][h], t)
        BY <1>3, <2>2, <2>3, <2>7
      <4>2. AwaitsNext(a) <=> Awaits(a)
        BY <4>1
      <4>3. InStore(st'[a]) <=> InStore(st[a])
        BY <1>1, <2>2, <2>5, <2>7
      <4> QED
        BY <1>2, <2>2, <4>2, <4>3
    <3> QED
      BY <3>1
  <2> QED
    BY <2>6, <2>7
<1>8. ASSUME NEW c \in Nicks, NEW g \in Thread, NEW x, Sent(c, g, x), NEW a \in Unfiltered
      PROVE  Known(a, t)' <=> Known(a, t)
  <2>1. x \in Signed /\ st' = st /\ out[c][g] = x /\ Relayed(c, x)
    BY <1>8, SendsMessage DEF Sent
  <2>2. \A b \in Nicks, h \in Thread : out'[b][h] = IF b = c /\ h = g THEN None ELSE out[b][h]
    BY <1>8, SentOut
  <2>3. /\ a = c => inbox'[a] = inbox[a]
        /\ a # c => inbox'[a] = Append(inbox[a], x)
    BY <1>1, <2>1, RelayedTo
  <2>4. a # c => (InQueue(inbox'[a]) <=> InQueue(inbox[a]) \/ Escalates(x, t))
    BY <1>1, <1>5, <2>1, <2>3
  <2>5. CASE a = c
    <3>1. AwaitsNext(a) <=> Awaits(a)
      BY <2>2, <2>5
    <3> QED
      BY <1>2, <2>1, <2>3, <2>5, <3>1
  <2>6. CASE a # c
    <3>1. AwaitsNext(a) => Awaits(a)
      BY <1>3, <2>2
    <3>2. Awaits(a) => AwaitsNext(a) \/ Escalates(x, t)
      BY <2>1, <2>2
    <3>3. Escalates(x, t) => Awaits(a)
      BY <2>1, <2>6
    <3> QED
      BY <1>2, <2>1, <2>4, <2>6, <3>1, <3>2, <3>3
  <2> QED
    BY <2>5, <2>6
<1>9. ASSUME NEW c \in Nicks, NEW x, Noticed(c, x), NEW a \in Unfiltered
      PROVE  Known(a, t)' <=> Known(a, t)
  <2>1. x \in Signed /\ x.action = "TEXT" /\ st' = st /\ out' = out /\ Relayed(c, x)
    BY <1>9, ByNoticeMessage DEF Noticed
  <2>2. inbox'[a] = inbox[a] \/ inbox'[a] = Append(inbox[a], x)
    BY <1>1, <2>1, RelayedTo
  <2>3. InQueue(inbox'[a]) <=> InQueue(inbox[a])
    <3>1. ~Escalates(x, t)
      BY <2>1 DEF Escalates
    <3>2. InQueue(Append(inbox[a], x)) <=> InQueue(inbox[a]) \/ Escalates(x, t)
      BY <1>1, <1>5, <2>1
    <3> QED
      BY <2>2, <3>1, <3>2
  <2> QED
    BY <1>2, <2>1, <2>3
<1>10. ASSUME NEW c \in Nicks, NEW m, Read(c, m), NEW a \in Unfiltered
       PROVE  Known(a, t)' <=> Known(a, t)
  <2>1. /\ m \in Signed /\ out' = out
        /\ \A b \in Nicks \ {c} : st'[b] = st[b]
        /\ st'[c] = IF Passes(c, m) THEN Updated(st[c], m) ELSE st[c]
    BY <1>10 DEF Read
  <2>2. /\ a = c => inbox'[a] = Tail(inbox[a]) /\ inbox[a] # <<>> /\ Head(inbox[a]) = m
        /\ a # c => inbox'[a] = inbox[a]
    BY <1>1, <1>10, ReadFrom
  <2>3. a = c => (InQueue(inbox[a]) <=> InQueue(inbox'[a]) \/ Escalates(m, t))
    BY <1>1, <1>6, <2>2
  <2>4. a = c => (InStore(st'[a]) <=> InStore(st[a]) \/ Escalates(m, t))
    <3>1. m.action = "TEXT" => ~Escalates(m, t)
      BY DEF Escalates
    <3>2. m.action # "TEXT" => Passes(a, m)
      BY UnfilteredPasses
    <3>3. InStore(Updated(st[a], m)) <=> InStore(st[a]) \/ Escalates(m, t)
      BY <1>1, <1>4, <2>1
    <3>4. m.action = "TEXT" => ~Passes(a, m)
      BY DEF Passes
    <3> QED
      BY <2>1, <3>1, <3>2, <3>3, <3>4
  <2> QED
    BY <1>1, <1>2, <2>1, <2>2, <2>3, <2>4
<1>11. ASSUME NEW c \in Nicks, NEW u \in Tasks, Resolved(c, u), NEW a \in Unfiltered
       PROVE  Known(a, t)' <=> Known(a, t)
  <2>1. InStore(st'[a]) <=> InStore(st[a])
    <3>1. CASE a = c
      <4> DEFINE es == st[a].escalations
                 new == st'[a].escalations
      <4>1. es \in Seq(Escal)
        BY <1>1 DEF StoresOK
      <4>2. new = ResolveEscalation(es, u)
        BY <1>11, <3>1 DEF Resolved
      <4>3. Len(new) = Len(es) /\ \A i \in 1..Len(es) : new[i].task = es[i].task
        <5> HIDE DEF es, new
        <5> QED
          BY <4>1, <4>2, ResolveEffect
      <4> QED
        BY <4>3 DEF InStore
    <3>2. CASE a # c
      BY <1>1, <1>11, <3>2 DEF Resolved
    <3> QED
      BY <3>1, <3>2
  <2>2. out' = out /\ inbox' = inbox
    BY <1>11 DEF Resolved
  <2> QED
    BY <1>2, <2>1, <2>2
<1>12. ASSUME st' = st, out' = out, inbox' = inbox, NEW a \in Unfiltered
       PROVE  Known(a, t)' <=> Known(a, t)
  BY <1>12 DEF Known
<1> QED
  BY <1>7, <1>8, <1>9, <1>10, <1>11, <1>12, Steps

-----------------------------------------------------------------------------
(***************************************************************************)
(* Review requests: those an agent has recorded, those in its queue, and   *)
(* those that others have recorded and not sent yet.                       *)
(***************************************************************************)
Requests(t) == {m \in Signed : m.action = "REVIEW-REQUEST" /\ m.task = t}

Waiting(a, t) == {b \in Nicks \ {a} : out[b]["app"] \in Requests(t)}

AskedOf(a, t) ==
  Len(st[a].reviews[t]) + CountAfter(inbox[a], Requests(t), 0) + Cardinality(Waiting(a, t))

TotalsAgree == \A t \in Tasks : \A a, b \in Unfiltered : AskedOf(a, t) = AskedOf(b, t)

LEMMA TotalAfter ==
  ASSUME NEW s, StoresOK(s), NEW m \in Signed, NEW t \in Tasks
  PROVE  /\ Len(s.reviews[t]) \in Nat
         /\ Len(Updated(s, m).reviews[t])
              = Len(s.reviews[t]) + (IF m \in Requests(t) THEN 1 ELSE 0)
<1> DEFINE rs == s.reviews[t]
           new == Updated(s, m).reviews[t]
<1>1. /\ rs \in Seq(Review)
      /\ \/ /\ m.action = "REVIEW-REQUEST" /\ m.task = t
            /\ AskedIn(m) \in Review /\ new = Append(rs, AskedIn(m))
         \/ /\ m.action = "REVIEW-COMPLETE" /\ m.task = t
            /\ CompletesTo(rs, new, m)
         \/ /\ ~(m.action \in {"REVIEW-REQUEST", "REVIEW-COMPLETE"} /\ m.task = t)
            /\ new = rs
  BY ReviewsAfter
<1> HIDE DEF rs, new
<1>2. Len(rs) \in Nat
  BY <1>1
<1>3. CompletesTo(rs, new, m) => Len(new) = Len(rs)
  BY DEF CompletesTo
<1>4. AskedIn(m) \in Review => Len(Append(rs, AskedIn(m))) = Len(rs) + 1
  BY <1>1
<1>5. Len(new) = Len(rs) + (IF m \in Requests(t) THEN 1 ELSE 0)
  BY <1>1, <1>2, <1>3, <1>4 DEF Requests
<1> QED
  BY <1>2, <1>5 DEF rs, new

LEMMA WaitingFinite ==
  ASSUME NEW a, NEW t
  PROVE  IsFiniteSet(Waiting(a, t)) /\ Cardinality(Waiting(a, t)) \in Nat
<1>1. IsFiniteSet(Nicks) /\ Waiting(a, t) \subseteq Nicks
  BY DispatchConstants DEF Waiting
<1>2. IsFiniteSet(Waiting(a, t))
  BY <1>1, FS_Subset
<1> QED
  BY <1>2, FS_CardinalityType

\* Roles do not ask for reviews.
LEMMA OnlyApplicationsAsk ==
  ASSUME NEW c \in Nicks, NEW h \in Thread, NEW x \in Sends(c, h), NEW t, x \in Requests(t)
  PROVE  h = "app"
BY ByRoleMessage DEF Sends, Requests, Thread

LEMMA TotalsAgreeInit == Init => TotalsAgree
<1> SUFFICES ASSUME Init, NEW t \in Tasks, NEW a \in Unfiltered PROVE AskedOf(a, t) = 0
  BY DEF TotalsAgree
<1>1. a \in Nicks
  BY DEF Unfiltered
<1>2. st[a].reviews[t] = <<>> /\ inbox[a] = <<>>
  BY <1>1 DEF Init, NewAgent, NewStores
<1>3. Waiting(a, t) = {}
  BY DEF Init, Waiting, Requests, None
<1>4. Cardinality({}) = 0 /\ CountAfter(<<>>, Requests(t), 0) = 0
  BY FS_EmptySet, CountNone
<1> QED
  BY <1>2, <1>3, <1>4 DEF AskedOf

\* A step adds the same to what every agent without rules was or will be asked.
LEMMA TotalsAgreeStep == DispTypes /\ TotalsAgree /\ [Next]_vars => TotalsAgree'
<1> SUFFICES ASSUME DispTypes, TotalsAgree, [Next]_vars, NEW t \in Tasks
             PROVE  \/ \A a \in Unfiltered : AskedOf(a, t)' = AskedOf(a, t)
                    \/ \A a \in Unfiltered : AskedOf(a, t)' = AskedOf(a, t) + 1
  BY DEF TotalsAgree
<1> DEFINE R == Requests(t)
           L(a) == Len(st[a].reviews[t])
           C(a) == CountAfter(inbox[a], R, 0)
           W(a) == Waiting(a, t)
           n(a) == Cardinality(W(a))
<1>1. ASSUME NEW a \in Unfiltered
      PROVE  /\ a \in Nicks /\ StoresOK(st[a]) /\ inbox[a] \in Seq(Signed)
             /\ L(a) \in Nat /\ C(a) \in Nat /\ n(a) \in Nat /\ IsFiniteSet(W(a))
             /\ AskedOf(a, t) = L(a) + C(a) + n(a)
             /\ AskedOf(a, t)' = L(a)' + C(a)' + n(a)'
  <2>1. a \in Nicks /\ StoresOK(st[a]) /\ inbox[a] \in Seq(Signed)
    BY DEF Unfiltered, DispTypes
  <2>2. st[a].reviews[t] \in Seq(Review)
    BY <2>1 DEF StoresOK
  <2>3. C(a) \in Nat
    BY <2>1, CountType
  <2> QED
    BY <2>1, <2>2, <2>3, WaitingFinite DEF AskedOf
<1>2. None \notin R
  BY DEF Requests, None
<1>3. ASSUME NEW m \in Signed, m.action = "TEXT" PROVE m \notin R
  BY <1>3 DEF Requests
<1>4. ASSUME NEW a \in Unfiltered, NEW m \in Signed
      PROVE  CountAfter(Append(inbox[a], m), R, 0) = C(a) + (IF m \in R THEN 1 ELSE 0)
  <2> DEFINE q == inbox[a]
  <2>1. q \in Seq(Signed) /\ 0 <= Len(q)
    BY <1>1
  <2> HIDE DEF R, q
  <2>2. CountAfter(Append(q, m), R, 0) = CountAfter(q, R, 0) + (IF m \in R THEN 1 ELSE 0)
    BY <2>1, CountAppend
  <2> QED
    BY <2>2 DEF q
<1> HIDE DEF R
<1>5. ASSUME NEW c \in Nicks, NEW g \in Thread, NEW x, Applied(c, g, x)
      PROVE  \/ \A a \in Unfiltered : AskedOf(a, t)' = AskedOf(a, t)
             \/ \A a \in Unfiltered : AskedOf(a, t)' = AskedOf(a, t) + 1
  <2>1. x \in Signed /\ x \in Sends(c, g)
    BY <1>5, SendsMessage DEF Applied
  <2>2. /\ st'[c] = Updated(st[c], x) /\ \A b \in Nicks \ {c} : st'[b] = st[b]
        /\ inbox' = inbox /\ out[c][g] = None
    BY <1>5 DEF Applied
  <2>3. "app" \in Thread
    BY DEF Thread
  <2>4. \A b \in Nicks : out'[b]["app"] = IF b = c /\ g = "app" THEN x ELSE out[b]["app"]
    BY <1>5, <2>3, AppliedOut
  <2>5. \A a \in Unfiltered : C(a)' = C(a)
    BY <2>2
  <2>6. StoresOK(st[c])
    BY DEF DispTypes
  <2>7. L(c)' = L(c) + (IF x \in R THEN 1 ELSE 0)
    <3>1. Len(Updated(st[c], x).reviews[t]) = L(c) + (IF x \in R THEN 1 ELSE 0)
      BY <2>1, <2>6, TotalAfter DEF R
    <3> QED
      BY <2>2, <3>1
  <2>8. \A a \in Unfiltered : a # c => L(a)' = L(a)
    BY <1>1, <2>2
  <2>9. CASE x \in R
    <3>1. g = "app"
      BY <2>1, <2>9, OnlyApplicationsAsk DEF R
    <3>2. ASSUME NEW a \in Unfiltered PROVE AskedOf(a, t)' = AskedOf(a, t) + 1
      <4>1. CASE a = c
        <5>1. W(a)' = W(a)
          BY <2>4, <4>1 DEF Waiting
        <5> HIDE DEF L, C, W
        <5> QED
          BY <1>1, <2>5, <2>7, <2>9, <4>1, <5>1
      <4>2. CASE a # c
        <5>1. W(a)' = W(a) \cup {c} /\ c \notin W(a)
          BY <1>2, <2>2, <2>4, <2>9, <3>1, <4>2 DEF Waiting, R
        <5> HIDE DEF L, C, W
        <5>2. n(a)' = n(a) + 1
          <6>1. Cardinality(W(a) \cup {c}) = Cardinality(W(a)) + 1
            BY <1>1, <5>1, FS_AddElement
          <6> QED
            BY <5>1, <6>1
        <5> HIDE DEF n
        <5> QED
          BY <1>1, <2>5, <2>8, <4>2, <5>2
      <4> QED
        BY <4>1, <4>2
    <3> QED
      BY <3>2
  <2>10. CASE x \notin R
    <3>1. ASSUME NEW a \in Unfiltered PROVE AskedOf(a, t)' = AskedOf(a, t)
      <4>1. W(a)' = W(a)
        BY <1>2, <2>2, <2>4, <2>10 DEF Waiting, R
      <4>2. L(a)' = L(a)
        <5> HIDE DEF L
        <5> QED
          BY <1>1, <2>7, <2>8, <2>10
      <4> HIDE DEF L, C, W
      <4> QED
        BY <1>1, <2>5, <4>1, <4>2
    <3> QED
      BY <3>1
  <2> QED
    BY <2>9, <2>10
<1>6. ASSUME NEW c \in Nicks, NEW g \in Thread, NEW x, Sent(c, g, x), NEW a \in Unfiltered
      PROVE  AskedOf(a, t)' = AskedOf(a, t)
  <2>1. x \in Signed /\ x \in Sends(c, g) /\ st' = st /\ out[c][g] = x /\ Relayed(c, x)
    BY <1>6, SendsMessage DEF Sent
  <2>2. "app" \in Thread
    BY DEF Thread
  <2>3. \A b \in Nicks : out'[b]["app"] = IF b = c /\ g = "app" THEN None ELSE out[b]["app"]
    BY <1>6, <2>2, SentOut
  <2>4. /\ a = c => inbox'[a] = inbox[a]
        /\ a # c => inbox'[a] = Append(inbox[a], x)
    BY <1>1, <2>1, RelayedTo
  <2>5. L(a)' = L(a)
    BY <2>1
  <2>6. CASE a = c
    <3>1. W(a)' = W(a)
      BY <2>3, <2>6 DEF Waiting
    <3>2. C(a)' = C(a)
      BY <2>4, <2>6
    <3> HIDE DEF L, C, W
    <3> QED
      BY <1>1, <2>5, <3>1, <3>2
  <2>7. CASE a # c /\ x \in R
    <3>1. g = "app"
      BY <2>1, <2>7, OnlyApplicationsAsk DEF R
    <3>2. W(a)' = W(a) \ {c} /\ c \in W(a)
      BY <1>2, <2>1, <2>3, <2>7, <3>1 DEF Waiting, R
    <3>3. C(a)' = C(a) + 1
      BY <1>4, <2>1, <2>4, <2>7
    <3> HIDE DEF L, C, W
    <3>4. n(a)' = n(a) - 1
      <4>1. Cardinality(W(a) \ {c}) = Cardinality(W(a)) - 1
        BY <1>1, <3>2, FS_RemoveElement
      <4> QED
        BY <3>2, <4>1
    <3> HIDE DEF n
    <3> QED
      BY <1>1, <2>5, <3>3, <3>4
  <2>8. CASE a # c /\ x \notin R
    <3>1. W(a)' = W(a)
      BY <1>2, <2>1, <2>3, <2>8 DEF Waiting, R
    <3>2. C(a)' = C(a)
      <4>1. CountAfter(Append(inbox[a], x), R, 0) = C(a)
        BY <1>1, <1>4, <2>1, <2>8
      <4> QED
        BY <2>4, <2>8, <4>1
    <3> HIDE DEF L, C, W
    <3> QED
      BY <1>1, <2>5, <3>1, <3>2
  <2> QED
    BY <2>6, <2>7, <2>8
<1>7. ASSUME NEW c \in Nicks, NEW x, Noticed(c, x), NEW a \in Unfiltered
      PROVE  AskedOf(a, t)' = AskedOf(a, t)
  <2>1. x \in Signed /\ x.action = "TEXT" /\ st' = st /\ out' = out /\ Relayed(c, x)
    BY <1>7, ByNoticeMessage DEF Noticed
  <2>2. inbox'[a] = inbox[a] \/ inbox'[a] = Append(inbox[a], x)
    BY <1>1, <2>1, RelayedTo
  <2>3. C(a)' = C(a)
    <3>1. CountAfter(Append(inbox[a], x), R, 0) = C(a)
      BY <1>1, <1>3, <1>4, <2>1
    <3> QED
      BY <2>2, <3>1
  <2>4. L(a)' = L(a) /\ W(a)' = W(a)
    BY <2>1 DEF Waiting
  <2> HIDE DEF L, C, W
  <2> QED
    BY <1>1, <2>3, <2>4
<1>8. ASSUME NEW c \in Nicks, NEW m, Read(c, m), NEW a \in Unfiltered
      PROVE  AskedOf(a, t)' = AskedOf(a, t)
  <2>1. /\ m \in Signed /\ out' = out
        /\ \A b \in Nicks \ {c} : st'[b] = st[b]
        /\ st'[c] = IF Passes(c, m) THEN Updated(st[c], m) ELSE st[c]
    BY <1>8 DEF Read
  <2>2. /\ a = c => inbox'[a] = Tail(inbox[a]) /\ inbox[a] # <<>> /\ Head(inbox[a]) = m
        /\ a # c => inbox'[a] = inbox[a]
    BY <1>1, <1>8, ReadFrom
  <2>3. W(a)' = W(a)
    BY <2>1 DEF Waiting
  <2>4. CASE a # c
    <3>1. C(a)' = C(a) /\ L(a)' = L(a)
      BY <1>1, <2>1, <2>2, <2>4
    <3> HIDE DEF L, C, W
    <3> QED
      BY <1>1, <2>3, <3>1
  <2>5. CASE a = c
    <3>1. C(a) = C(a)' + (IF m \in R THEN 1 ELSE 0)
      <4> DEFINE q == inbox[a]
      <4>1. q \in Seq(Signed) /\ q # <<>> /\ inbox'[a] = Tail(q) /\ Head(q) = m
        BY <1>1, <2>2, <2>5
      <4> HIDE DEF q
      <4>2. CountAfter(q, R, 0) = CountAfter(Tail(q), R, 0) + (IF m \in R THEN 1 ELSE 0)
        BY <4>1, CountHead
      <4> QED
        BY <4>1, <4>2 DEF q
    <3>2. L(a)' = L(a) + (IF m \in R THEN 1 ELSE 0)
      <4>1. CASE m.action # "TEXT"
        <5>1. Passes(a, m)
          BY <4>1, UnfilteredPasses
        <5> QED
          BY <1>1, <2>1, <2>5, <5>1, TotalAfter DEF R
      <4>2. CASE m.action = "TEXT"
        <5>1. ~Passes(a, m)
          BY <4>2 DEF Passes
        <5>2. m \notin R
          BY <1>3, <2>1, <4>2
        <5>3. st'[a] = st[a]
          BY <2>1, <2>5, <5>1
        <5> HIDE DEF L
        <5>4. L(a)' = L(a)
          BY <5>3 DEF L
        <5> QED
          BY <1>1, <5>2, <5>4
      <4> QED
        BY <4>1, <4>2
    <3>3. C(a)' \in Nat
      <4>1. inbox'[a] \in Seq(Signed)
        <5> DEFINE q == inbox[a]
        <5>1. q \in Seq(Signed) /\ q # <<>> /\ inbox'[a] = Tail(q)
          BY <1>1, <2>2, <2>5
        <5> HIDE DEF q
        <5> QED
          BY <5>1
      <4> QED
        BY <4>1, CountType
    <3> HIDE DEF L, C, W
    <3> QED
      BY <1>1, <2>3, <3>1, <3>2, <3>3
  <2> QED
    BY <2>4, <2>5
<1>9. ASSUME NEW c \in Nicks, NEW u \in Tasks, Resolved(c, u), NEW a \in Unfiltered
      PROVE  AskedOf(a, t)' = AskedOf(a, t)
  <2>1. out' = out /\ inbox' = inbox /\ st'[a].reviews = st[a].reviews
    BY <1>1, <1>9 DEF Resolved
  <2> QED
    BY <2>1 DEF AskedOf, Waiting
<1>10. ASSUME st' = st, out' = out, inbox' = inbox, NEW a \in Unfiltered
       PROVE  AskedOf(a, t)' = AskedOf(a, t)
  BY <1>10 DEF AskedOf, Waiting
<1> QED
  BY <1>5, <1>6, <1>7, <1>8, <1>9, <1>10, Steps

-----------------------------------------------------------------------------
(***************************************************************************)
(* What is left when the channel is quiet.                                 *)
(***************************************************************************)
LEMMA QuietThreads ==
  ASSUME Quiet, NEW b \in Nicks, NEW h \in Thread
  PROVE  out[b][h] = None /\ inbox[b] = <<>> /\ replies[b] = <<>>
BY DEF Quiet, Thread

LEMMA QuietKeys ==
  ASSUME KeysAgree, Quiet, NEW k \in Keys, NEW n \in Nicks, NEW h \in Thread, OnlyWriter(n, h, k),
         NEW a \in Unfiltered, NEW b \in Unfiltered
  PROVE  Stored(st[a], k) = Stored(st[b], k)
<1>1. PICK v : \A c \in Unfiltered : WillStore(c, n, h, k, v)
  BY DEF KeysAgree
<1>2. out[n][h] = None /\ ~Writes(None, k)
  BY QuietThreads, TextWritesNothing DEF None
<1>3. ASSUME NEW c \in Unfiltered PROVE Stored(st[c], k) = v
  <2>1. inbox[c] = <<>>
    BY QuietThreads DEF Unfiltered, Thread
  <2>2. \A x : Becomes(<<>>, k, x, v) => x = v
    BY DEF Becomes
  <2> QED
    BY <1>1, <1>2, <2>1, <2>2 DEF WillStore
<1> QED
  BY <1>3

LEMMA VotesHaveOneWriter ==
  ASSUME NEW p \in Topics, NEW n \in Nicks
  PROVE  OnlyWriter(n, "app", VoteKey(p, n))
<1> SUFFICES ASSUME NEW b \in Nicks, NEW g \in Thread, NEW x \in Sends(b, g),
                    Writes(x, VoteKey(p, n))
             PROVE  b = n /\ g = "app"
  BY DEF OnlyWriter
<1>1. x.action = "VOTE" /\ x.nick = n
  BY DEF Writes, VoteKey
<1>2. x.nick = b
  BY SendsMessage
<1>3. g = "app"
  BY <1>1, ByRoleMessage DEF Sends, Thread
<1> QED
  BY <1>1, <1>2, <1>3

\* Whoever sends the result of a gate is one of its checkers.
LEMMA GateWriters ==
  ASSUME NEW t \in Tasks, NEW g \in Word, NEW b \in Nicks, NEW h \in Thread,
         NEW x \in Sends(b, h), Writes(x, GateKey(t, g))
  PROVE  <<b, h>> \in Checkers(t, g) /\ g \in Gates
<1>1. x.action = "GATE-CHECK" /\ x.task = t /\ x.gate = g
  BY DEF Writes, GateKey
<1>2. CASE h = "app"
  <2>1. PICK m \in Says[b] : x = From(b, m)
    BY <1>2 DEF Sends, BySay
  <2>2. Sound(m)
    BY <2>1, ConstantTypes, SayableSound
  <2>3. m.action = "GATE-CHECK" /\ \A f \in DOMAIN m : x[f] = m[f]
    BY <1>1, <2>1, <2>2, SignedFields
  <2>4. m.task = t /\ m.gate = g
    BY <1>1, <2>2, <2>3 DEF Sound
  <2>5. b \in {a \in Nicks : \E y \in Says[a] : y.action = "GATE-CHECK" /\ y.task = t /\ y.gate = g}
    BY <2>1, <2>3, <2>4
  <2>6. <<b, h>> \in Checkers(t, g)
    BY <1>2, <2>5 DEF Checkers
  <2>7. g \in Gates
    BY <2>1, <2>3, <2>4 DEF Gates
  <2> QED
    BY <2>6, <2>7
<1>3. CASE h = "reader"
  <2>1. PICK m \in Answerable(b) : x = From(b, m)
    BY <1>3 DEF Sends, ByRole
  <2>2. /\ Sound(m)
        /\ m.action = "GATE-CHECK" =>
             m.gate = "monitoring" /\ "monitoring-guardian" \in ToSet(Roles[b])
    BY <2>1, AnswerableSound
  <2>3. m.action = "GATE-CHECK" /\ \A f \in DOMAIN m : x[f] = m[f]
    BY <1>1, <2>1, <2>2, SignedFields
  <2>4. m.gate = g
    BY <1>1, <2>2, <2>3 DEF Sound
  <2>5. b \in {a \in Nicks : g = "monitoring" /\ "monitoring-guardian" \in ToSet(Roles[a])}
    BY <2>2, <2>3, <2>4
  <2>6. <<b, h>> \in Checkers(t, g)
    BY <1>3, <2>5 DEF Checkers
  <2>7. g \in Gates
    BY <2>2, <2>3, <2>4 DEF Gates
  <2> QED
    BY <2>6, <2>7
<1> QED
  BY <1>2, <1>3 DEF Thread

LEMMA GatesHaveOneWriter ==
  ASSUME NEW t \in Tasks, NEW g \in Word, OneChecker(t), NEW a \in Nicks
  PROVE  \E n \in Nicks, h \in Thread : OnlyWriter(n, h, GateKey(t, g))
<1> DEFINE k == GateKey(t, g)
<1> HIDE DEF k
<1>1. CASE \E n \in Nicks, h \in Thread : \E x \in Sends(n, h) : Writes(x, k)
  <2>1. PICK n \in Nicks, h \in Thread : \E x \in Sends(n, h) : Writes(x, k)
    BY <1>1
  <2>2. <<n, h>> \in Checkers(t, g) /\ g \in Gates
    BY <2>1, GateWriters DEF k
  <2>3. ASSUME NEW b \in Nicks, NEW f \in Thread, NEW x \in Sends(b, f), Writes(x, k)
        PROVE  b = n /\ f = h
    <3>1. <<b, f>> \in Checkers(t, g)
      BY <2>3, GateWriters DEF k
    <3>2. <<b, f>> = <<n, h>>
      BY <2>2, <3>1 DEF OneChecker
    <3> QED
      BY <3>2
  <2> QED
    BY <2>3 DEF OnlyWriter, k
<1>2. CASE ~\E n \in Nicks, h \in Thread : \E x \in Sends(n, h) : Writes(x, k)
  <2>1. OnlyWriter(a, "app", k)
    BY <1>2 DEF OnlyWriter
  <2> QED
    BY <2>1 DEF Thread, k
<1> QED
  BY <1>1, <1>2

\* Whether all gates have passed depends on the latest result of each only.
LEMMA GatesPassedBy ==
  ASSUME NEW gs \in Seq(Gate), NEW hs \in Seq(Gate),
         \A g \in Word : GateStatus(gs, g) = GateStatus(hs, g), AllGatesPassed(gs)
  PROVE  AllGatesPassed(hs)
<1> DEFINE n == Len(gs)
           l == Len(hs)
<1>0. \A r \in Gate : r.gate \in Word
  BY DEF Gate
<1>1. /\ n \in Nat /\ DOMAIN gs = 1..n /\ \A i \in 1..n : gs[i] \in Gate /\ gs[i].gate \in Word
  BY <1>0
<1>2. /\ l \in Nat /\ DOMAIN hs = 1..l /\ \A i \in 1..l : hs[i] \in Gate /\ hs[i].gate \in Word
  BY <1>0
<1>3. hs # <<>>
  <2>1. n > 0 /\ n \in 1..n
    BY <1>1 DEF AllGatesPassed
  <2> DEFINE g == gs[n].gate
  <2>2. g \in Word
    BY <1>1, <2>1
  <2>3. gs[n].status \in GateStatus(gs, g)
    <3>1. n \in {j \in 1..Len(gs) : gs[j].gate = g /\ \A i \in 1..Len(gs) : i > j => gs[i].gate # g}
      BY <1>1, <2>1
    <3> QED
      BY <3>1 DEF GateStatus
  <2> HIDE DEF g
  <2>4. GateStatus(<<>>, g) = {}
    BY DEF GateStatus
  <2> QED
    BY <2>2, <2>3, <2>4
<1>4. ASSUME NEW i \in 1..l, \A j \in 1..l : j > i => hs[j].gate # hs[i].gate
      PROVE  hs[i].status = "passed"
  <2> DEFINE g == hs[i].gate
  <2>1. g \in Word
    BY <1>2
  <2>2. hs[i].status \in GateStatus(hs, g)
    <3>1. i \in {j \in 1..Len(hs) : hs[j].gate = g /\ \A m \in 1..Len(hs) : m > j => hs[m].gate # g}
      BY <1>2, <1>4
    <3> QED
      BY <3>1 DEF GateStatus
  <2> HIDE DEF g
  <2>3. hs[i].status \in GateStatus(gs, g)
    BY <2>1, <2>2
  <2>4. PICK j \in {j \in 1..Len(gs) : gs[j].gate = g /\ \A m \in 1..Len(gs) : m > j => gs[m].gate # g} :
          hs[i].status = gs[j].status
    BY <2>3 DEF GateStatus
  <2>5. gs[j].status = "passed"
    <3>1. j \in 1..n /\ \A m \in 1..n : m > j => gs[m].gate # gs[j].gate
      BY <2>4
    <3> QED
      BY <1>1, <3>1 DEF AllGatesPassed
  <2> QED
    BY <2>4, <2>5
<1> QED
  BY <1>2, <1>3, <1>4 DEF AllGatesPassed

LEMMA StoresAgreeFollows ==
  ASSUME DispTypes, KeysAgree, EscalationsAgree, TotalsAgree
  PROVE  StoresAgree
<1> SUFFICES ASSUME Quiet, NEW a \in Unfiltered, NEW b \in Unfiltered
             PROVE
      /\ st[a].votes = st[b].votes
      /\ {st[a].escalations[i].task : i \in DOMAIN st[a].escalations}
           = {st[b].escalations[i].task : i \in DOMAIN st[b].escalations}
      /\ \A t \in Tasks :
           /\ Summary(st[a], t).total = Summary(st[b], t).total
           /\ OneChecker(t) => Summary(st[a], t).allGatesPassed
                                 = Summary(st[b], t).allGatesPassed
  BY DEF StoresAgree
<1>1. a \in Nicks /\ b \in Nicks /\ StoresOK(st[a]) /\ StoresOK(st[b])
  BY DEF Unfiltered, DispTypes
<1>2. st[a].votes = st[b].votes
  <2> DEFINE v == st[a].votes
             w == st[b].votes
  <2>1. v \in [Topics -> [Nicks -> Word]] /\ w \in [Topics -> [Nicks -> Word]]
    BY <1>1 DEF StoresOK
  <2>2. ASSUME NEW p \in Topics, NEW n \in Nicks PROVE v[p][n] = w[p][n]
    <3>1. VoteKey(p, n) \in Keys /\ "app" \in Thread
      BY DEF Keys, Thread
    <3>2. Stored(st[a], VoteKey(p, n)) = Stored(st[b], VoteKey(p, n))
      BY <3>1, QuietKeys, VotesHaveOneWriter
    <3>3. /\ Stored(st[a], VoteKey(p, n)) = {st[a].votes[p][n]}
          /\ Stored(st[b], VoteKey(p, n)) = {st[b].votes[p][n]}
      BY DEF Stored, VoteKey
    <3> QED
      BY <3>2, <3>3
  <2> HIDE DEF v, w
  <2>3. \A p \in Topics : v[p] = w[p]
    BY <2>1, <2>2
  <2>4. v = w
    BY <2>1, <2>3
  <2> QED
    BY <2>4 DEF v, w
<1>3. {st[a].escalations[i].task : i \in DOMAIN st[a].escalations}
           = {st[b].escalations[i].task : i \in DOMAIN st[b].escalations}
  <2>1. ASSUME NEW c \in Unfiltered
        PROVE  LET es == st[c].escalations
               IN  {es[i].task : i \in DOMAIN es} = {t \in Tasks : Known(c, t)}
    <3> DEFINE es == st[c].escalations
    <3>1. c \in Nicks /\ es \in Seq(Escal)
      BY DEF Unfiltered, DispTypes, StoresOK
    <3>2. inbox[c] = <<>> /\ \A d \in Nicks, h \in Thread : out[d][h] = None
      BY <3>1, QuietThreads DEF Thread
    <3>3. \A t : Known(c, t) <=> \E i \in 1..Len(es) : es[i].task = t
      BY <3>2 DEF Known, Escalates, None
    <3>4. DOMAIN es = 1..Len(es) /\ \A i \in 1..Len(es) : es[i] \in Escal /\ es[i].task \in Tasks
      <4>1. \A e \in Escal : e.task \in Tasks
        BY DEF Escal
      <4> QED
        BY <3>1, <4>1
    <3> HIDE DEF es
    <3>5. {es[i].task : i \in DOMAIN es} = {t \in Tasks : Known(c, t)}
      BY <3>3, <3>4
    <3> QED
      BY <3>5 DEF es
  <2>2. {t \in Tasks : Known(a, t)} = {t \in Tasks : Known(b, t)}
    BY DEF EscalationsAgree
  <2> QED
    BY <2>1, <2>2
<1>4. ASSUME NEW t \in Tasks PROVE Summary(st[a], t).total = Summary(st[b], t).total
  <2>1. ASSUME NEW c \in Unfiltered PROVE AskedOf(c, t) = Len(st[c].reviews[t])
    <3>1. c \in Nicks /\ st[c].reviews[t] \in Seq(Review)
      BY DEF Unfiltered, DispTypes, StoresOK
    <3>2. inbox[c] = <<>> /\ \A d \in Nicks, h \in Thread : out[d][h] = None
      BY <3>1, QuietThreads DEF Thread
    <3>3. "app" \in Thread /\ None \notin Requests(t)
      BY DEF Requests, None, Thread
    <3>4. Waiting(c, t) = {}
      BY <3>2, <3>3 DEF Waiting
    <3>5. Cardinality(Waiting(c, t)) = 0 /\ CountAfter(inbox[c], Requests(t), 0) = 0
      BY <3>2, <3>4, FS_EmptySet, CountNone
    <3> QED
      BY <3>1, <3>5 DEF AskedOf
  <2>2. Len(st[a].reviews[t]) = Len(st[b].reviews[t])
    BY <2>1 DEF TotalsAgree
  <2> QED
    BY <2>2 DEF Summary
<1>5. ASSUME NEW t \in Tasks, OneChecker(t)
      PROVE  Summary(st[a], t).allGatesPassed = Summary(st[b], t).allGatesPassed
  <2> DEFINE gs == st[a].gates[t]
             hs == st[b].gates[t]
  <2>1. gs \in Seq(Gate) /\ hs \in Seq(Gate)
    BY <1>1 DEF StoresOK
  <2>2. ASSUME NEW g \in Word PROVE GateStatus(gs, g) = GateStatus(hs, g)
    <3>1. GateKey(t, g) \in Keys
      BY DEF Keys
    <3>2. Stored(st[a], GateKey(t, g)) = Stored(st[b], GateKey(t, g))
      BY <1>1, <1>5, <3>1, QuietKeys, GatesHaveOneWriter
    <3>3. /\ Stored(st[a], GateKey(t, g)) = GateStatus(gs, g)
          /\ Stored(st[b], GateKey(t, g)) = GateStatus(hs, g)
      BY DEF Stored, GateKey
    <3> QED
      BY <3>2, <3>3
  <2>3. /\ Summary(st[a], t).allGatesPassed = AllGatesPassed(gs)
        /\ Summary(st[b], t).allGatesPassed = AllGatesPassed(hs)
    BY DEF Summary
  <2> HIDE DEF gs, hs
  <2>4. AllGatesPassed(gs) <=> AllGatesPassed(hs)
    BY <2>1, <2>2, GatesPassedBy
  <2>5. AllGatesPassed(gs) \in BOOLEAN /\ AllGatesPassed(hs) \in BOOLEAN
    BY DEF AllGatesPassed
  <2> QED
    BY <2>3, <2>4, <2>5
<1> QED
  BY <1>2, <1>3, <1>4, <1>5

\* When everything said was heard, the agents without rules agree on votes, escalated
\* tasks, the number of reviews and the gates of a task that has one checker for each,
\* for any number of agents, any traffic and any order in which threads run: a vote and
\* a gate result have one writing thread, whose messages everyone gets in its order, and
\* requests and escalations only accumulate.
THEOREM QuietStoresAgree == Spec => []StoresAgree
<1>1. DispTypes /\ KeysAgree /\ EscalationsAgree /\ TotalsAgree => StoresAgree
  BY StoresAgreeFollows
<1>2. Spec => []KeysAgree
  BY KeysAgreeInit, KeysAgreeStep, TypesHold, PTL DEF Spec
<1>3. Spec => []EscalationsAgree
  BY EscalationsAgreeInit, EscalationsAgreeStep, TypesHold, PTL DEF Spec
<1>4. Spec => []TotalsAgree
  BY TotalsAgreeInit, TotalsAgreeStep, TypesHold, PTL DEF Spec
<1> QED
  BY <1>1, <1>2, <1>3, <1>4, TypesHold, PTL

-----------------------------------------------------------------------------
(***************************************************************************)
(* Reviews: what a message does to the pending ones of a task and a pull   *)
(* request, and to the condition that each review has a reviewer.          *)
(***************************************************************************)
Open(p) == {r \in Review : r.verdict = "" /\ r.pr = p}

PendingOf(s, t, p) == CountAfter(s.reviews[t], Open(p), 0)

AllHaveReviewer(a, s, t) == \A i \in 1..Len(s.reviews[t]) : HasReviewer(a, s.reviews[t][i])

\* A review of pull request p of task t is asked for, or a verdict given.
AsksFor(m, t, p) == m.action = "REVIEW-REQUEST" /\ m.task = t /\ m.pr = p

Verdict(m) == m.verdict # ""

Decides(m, t, p) == m.action = "REVIEW-COMPLETE" /\ m.task = t /\ m.pr = p /\ Verdict(m)

LEMMA PendingType ==
  ASSUME NEW s, StoresOK(s), NEW t \in Tasks, NEW p
  PROVE  PendingOf(s, t, p) \in Nat
<1>1. s.reviews[t] \in Seq(Review)
  BY DEF StoresOK
<1> QED
  BY <1>1, CountType DEF PendingOf

Named(p) == p # ""

\* Answering a review makes it no longer pending, and no other one pending.
LEMMA SettledPlaces ==
  ASSUME NEW rs \in Seq(Review), NEW new, NEW m, CompletesTo(rs, new, m), NEW p, Named(p)
  PROVE  /\ PlacesAfter(new, Open(p), 0) \subseteq PlacesAfter(rs, Open(p), 0)
         /\ m.pr = p /\ Verdict(m) =>
              \/ PlacesAfter(new, Open(p), 0) = {}
              \/ \E k \in PlacesAfter(rs, Open(p), 0) : k \notin PlacesAfter(new, Open(p), 0)
<1> DEFINE X == Open(p)
           P == PlacesAfter(rs, X, 0)
           N == PlacesAfter(new, X, 0)
<1>2. CASE PendingOn(rs, m.pr) = {} /\ new = rs
  <2>1. m.pr = p => P = {}
    <3> SUFFICES ASSUME m.pr = p, NEW i \in P PROVE FALSE
      OBVIOUS
    <3>1. i \in 1..Len(rs) /\ i \in DOMAIN rs /\ rs[i] \in Open(p)
      BY DEF PlacesAfter
    <3>2. i \in PendingOn(rs, m.pr)
      BY <3>1 DEF PendingOn, Open
    <3> QED
      BY <1>2, <3>2
  <2> QED
    BY <1>2, <2>1
<1>3. ASSUME NEW k \in PendingOn(rs, m.pr), k \in 1..Len(rs), Len(new) = Len(rs),
             \A i \in 1..Len(rs) : new[i] = IF i = k THEN Settled(rs[k], m) ELSE rs[i]
      PROVE  N \subseteq P /\ (m.pr = p /\ Verdict(m) => k \in P /\ k \notin N)
  <2>1. rs[k] \in Review /\ rs[k].verdict = "" /\ (m.pr = "" \/ rs[k].pr = m.pr)
    <3>1. rs[k] \in Review
      BY <1>3
    <3> QED
      BY <1>3, <3>1 DEF PendingOn
  <2>2. Settled(rs[k], m).pr = rs[k].pr /\ Settled(rs[k], m).verdict = m.verdict
    BY <2>1 DEF Settled, Review
  <2>3. new[k] \in X => ~Verdict(m) /\ rs[k] \in X
    BY <1>3, <2>1, <2>2 DEF Open, Verdict
  <2>4. m.pr = p => rs[k] \in X
    BY <2>1 DEF Open, Named
  <2> HIDE DEF X
  <2>5. \A i \in 1..Len(rs) : new[i] \in X => rs[i] \in X
    BY <1>3, <2>3
  <2> QED
    BY <1>3, <2>3, <2>4, <2>5 DEF PlacesAfter
<1> QED
  BY <1>2, <1>3 DEF CompletesTo

LEMMA PendingSettled ==
  ASSUME NEW rs \in Seq(Review), NEW new, NEW m, CompletesTo(rs, new, m), NEW p, Named(p)
  PROVE  /\ CountAfter(new, Open(p), 0) \in Nat
         /\ CountAfter(new, Open(p), 0) <= CountAfter(rs, Open(p), 0)
         /\ m.pr = p /\ Verdict(m) =>
              \/ CountAfter(new, Open(p), 0) = 0
              \/ CountAfter(new, Open(p), 0) + 1 <= CountAfter(rs, Open(p), 0)
<1> DEFINE X == Open(p)
           P == PlacesAfter(rs, X, 0)
           N == PlacesAfter(new, X, 0)
<1>1. N \subseteq P /\ (m.pr = p /\ Verdict(m) => N = {} \/ \E k \in P : k \notin N)
  BY SettledPlaces
<1> HIDE DEF X
<1>2. /\ CountAfter(new, X, 0) \in Nat /\ CountAfter(new, X, 0) <= CountAfter(rs, X, 0)
      /\ \A k \in P \ N : CountAfter(new, X, 0) + 1 <= CountAfter(rs, X, 0)
  BY <1>1, CountFewer
<1>3. N = {} => CountAfter(new, X, 0) = 0
  BY FS_EmptySet DEF CountAfter
<1> HIDE DEF P, N
<1> QED
  BY <1>1, <1>2, <1>3 DEF X

\* What a message does to the pending reviews.
LEMMA PendingAfter ==
  ASSUME NEW s, StoresOK(s), NEW m \in Signed, NEW t \in Tasks, NEW p, Named(p)
  PROVE  /\ PendingOf(Updated(s, m), t, p) \in Nat
         /\ PendingOf(Updated(s, m), t, p)
              <= PendingOf(s, t, p) + (IF AsksFor(m, t, p) THEN 1 ELSE 0)
         /\ Decides(m, t, p) => \/ PendingOf(Updated(s, m), t, p) = 0
                                \/ PendingOf(Updated(s, m), t, p) + 1 <= PendingOf(s, t, p)
<1> DEFINE rs == s.reviews[t]
           ns == Updated(s, m).reviews[t]
           X  == Open(p)
<1>1. /\ rs \in Seq(Review)
      /\ \/ /\ m.action = "REVIEW-REQUEST" /\ m.task = t
            /\ AskedIn(m) \in Review /\ ns = Append(rs, AskedIn(m))
         \/ /\ m.action = "REVIEW-COMPLETE" /\ m.task = t
            /\ CompletesTo(rs, ns, m)
         \/ /\ ~(m.action \in {"REVIEW-REQUEST", "REVIEW-COMPLETE"} /\ m.task = t)
            /\ ns = rs
  BY ReviewsAfter
<1> HIDE DEF rs, ns
<1>2. CountAfter(rs, X, 0) \in Nat
  BY <1>1, CountType
<1>3. CASE /\ m.action = "REVIEW-REQUEST" /\ m.task = t
           /\ AskedIn(m) \in Review /\ ns = Append(rs, AskedIn(m))
  <2>1. AskedIn(m) \in X <=> m.pr = p
    BY <1>3 DEF AskedIn, Open
  <2>2. 0 <= Len(rs)
    BY <1>1
  <2>3. CountAfter(ns, X, 0) = CountAfter(rs, X, 0) + (IF AskedIn(m) \in X THEN 1 ELSE 0)
    <3> HIDE DEF X
    <3> QED
      BY <1>1, <1>3, <2>2, CountAppend
  <2> HIDE DEF X
  <2>4. /\ CountAfter(ns, X, 0) \in Nat
        /\ CountAfter(ns, X, 0) <= CountAfter(rs, X, 0) + (IF AsksFor(m, t, p) THEN 1 ELSE 0)
    BY <1>2, <1>3, <2>1, <2>3 DEF AsksFor
  <2>5. ~Decides(m, t, p)
    BY <1>3 DEF Decides
  <2> QED
    BY <2>4, <2>5 DEF PendingOf, rs, ns, X
<1>4. CASE m.action = "REVIEW-COMPLETE" /\ m.task = t /\ CompletesTo(rs, ns, m)
  <2>1. /\ CountAfter(ns, X, 0) \in Nat
        /\ CountAfter(ns, X, 0) <= CountAfter(rs, X, 0)
        /\ m.pr = p /\ Verdict(m) =>
              \/ CountAfter(ns, X, 0) = 0
              \/ CountAfter(ns, X, 0) + 1 <= CountAfter(rs, X, 0)
    BY <1>1, <1>4, PendingSettled
  <2>2. ~AsksFor(m, t, p) /\ (Decides(m, t, p) => m.pr = p /\ Verdict(m))
    BY <1>4 DEF Decides, AsksFor
  <2> HIDE DEF X
  <2>3. CountAfter(ns, X, 0) <= CountAfter(rs, X, 0) + (IF AsksFor(m, t, p) THEN 1 ELSE 0)
    BY <1>2, <2>1, <2>2
  <2> QED
    BY <2>1, <2>2, <2>3 DEF PendingOf, rs, ns, X
<1>5. CASE ~(m.action \in {"REVIEW-REQUEST", "REVIEW-COMPLETE"} /\ m.task = t) /\ ns = rs
  <2>1. ~AsksFor(m, t, p) /\ ~Decides(m, t, p)
    BY <1>5 DEF Decides, AsksFor
  <2> HIDE DEF X
  <2>2. CountAfter(ns, X, 0) <= CountAfter(rs, X, 0) + (IF AsksFor(m, t, p) THEN 1 ELSE 0)
    BY <1>2, <1>5, <2>1
  <2> QED
    BY <1>2, <1>5, <2>1, <2>2 DEF PendingOf, rs, ns, X
<1> QED
  BY <1>1, <1>3, <1>4, <1>5

\* Reviews that have a reviewer had one before, and so has one that was asked for.
LEMMA ReviewersBefore ==
  ASSUME NEW s, StoresOK(s), NEW m \in Signed, NEW t \in Tasks, NEW a,
         AllHaveReviewer(a, Updated(s, m), t)
  PROVE  /\ AllHaveReviewer(a, s, t)
         /\ m.action = "REVIEW-REQUEST" /\ m.task = t => HasReviewer(a, AskedIn(m))
<1> DEFINE rs == s.reviews[t]
           ns == Updated(s, m).reviews[t]
<1>1. /\ rs \in Seq(Review)
      /\ \/ /\ m.action = "REVIEW-REQUEST" /\ m.task = t
            /\ AskedIn(m) \in Review /\ ns = Append(rs, AskedIn(m))
         \/ /\ m.action = "REVIEW-COMPLETE" /\ m.task = t
            /\ CompletesTo(rs, ns, m)
         \/ /\ ~(m.action \in {"REVIEW-REQUEST", "REVIEW-COMPLETE"} /\ m.task = t)
            /\ ns = rs
  BY ReviewsAfter
<1>2. \A i \in 1..Len(ns) : HasReviewer(a, ns[i])
  BY DEF AllHaveReviewer
<1> HIDE DEF rs, ns
<1>3. CASE /\ m.action = "REVIEW-REQUEST" /\ m.task = t
           /\ AskedIn(m) \in Review /\ ns = Append(rs, AskedIn(m))
  <2>1. /\ Len(rs) \in Nat /\ Len(ns) = Len(rs) + 1 /\ ns[Len(rs) + 1] = AskedIn(m)
        /\ \A i \in 1..Len(rs) : ns[i] = rs[i]
    BY <1>1, <1>3
  <2>2. Len(rs) + 1 \in 1..Len(ns) /\ \A i \in 1..Len(rs) : i \in 1..Len(ns)
    BY <2>1
  <2>3. HasReviewer(a, AskedIn(m)) /\ \A i \in 1..Len(rs) : HasReviewer(a, rs[i])
    BY <1>2, <2>1, <2>2
  <2> QED
    BY <2>3 DEF AllHaveReviewer, rs
<1>4. CASE m.action = "REVIEW-COMPLETE" /\ CompletesTo(rs, ns, m)
  <2>1. ASSUME NEW i \in 1..Len(rs)
        PROVE  i \in 1..Len(ns) /\ ns[i].pr = rs[i].pr /\ ns[i].by = rs[i].by
               /\ ns[i].reviewType = rs[i].reviewType
    <3>1. rs[i] \in Review
      BY <1>1
    <3>2. /\ Settled(rs[i], m).pr = rs[i].pr /\ Settled(rs[i], m).by = rs[i].by
          /\ Settled(rs[i], m).reviewType = rs[i].reviewType
      BY <3>1 DEF Settled, Review
    <3>3. i \in 1..Len(ns) /\ (ns[i] = rs[i] \/ ns[i] = Settled(rs[i], m))
      BY <1>4 DEF CompletesTo
    <3> QED
      BY <3>2, <3>3
  <2>2. \A i \in 1..Len(rs) : HasReviewer(a, rs[i])
    BY <1>2, <2>1 DEF HasReviewer
  <2> QED
    BY <1>4, <2>2 DEF AllHaveReviewer, rs
<1>5. CASE ~(m.action \in {"REVIEW-REQUEST", "REVIEW-COMPLETE"} /\ m.task = t) /\ ns = rs
  BY <1>2, <1>5 DEF AllHaveReviewer, rs
<1> QED
  BY <1>1, <1>3, <1>4, <1>5

-----------------------------------------------------------------------------
(***************************************************************************)
(* The messages about a review: the requests that reviewer v answers, its  *)
(* verdicts, and the answer that its roles have ready.                     *)
(***************************************************************************)
Prs == {p \in Word : Named(p)}

Asks(v, t, p) == {m \in Signed : AsksFor(m, t, p) /\ Reviews(v, m.nick, m.reviewType)}

Gives(v, t, p) == {m \in Signed : Decides(m, t, p) /\ m.nick = v}

Approval(t, p) == {CompleteReview(t, p, "approved")}

\* Agents whose rules let them send a verdict, and those of them that agent a hears.
Reviewers == {v \in Nicks : Check(Rules[v], v, "REVIEW-COMPLETE")}

Heard(a) == {v \in Reviewers : Check(Rules[a], v, "REVIEW-COMPLETE")}

LEMMA AsksAndGives ==
  ASSUME NEW v \in Nicks, NEW t, NEW p
  PROVE  /\ None \notin Asks(v, t, p) /\ None \notin Gives(v, t, p)
         /\ \A m : m.action = "TEXT" => m \notin Asks(v, t, p) /\ m \notin Gives(v, t, p)
         /\ \A m \in Asks(v, t, p) : m \in Signed /\ AsksFor(m, t, p) /\ m.nick # v /\ m \notin Gives(v, t, p)
         /\ \A m \in Gives(v, t, p) : m \in Signed /\ Decides(m, t, p) /\ m.nick = v
BY DEF Asks, Gives, None, AsksFor, Decides, Reviews

\* The answer of a role is the verdict that was owed.
LEMMA ApprovalGives ==
  ASSUME NEW v \in Nicks, NEW t \in Tasks, NEW p \in Prs, NEW m \in Approval(t, p)
  PROVE  From(v, m) \in Gives(v, t, p) /\ m.action = "REVIEW-COMPLETE"
<1>1. m = CompleteReview(t, p, "approved") /\ p \in Word
  BY DEF Approval, Prs
<1>2. m \in Answerable(v)
  BY <1>1 DEF Answerable, CompleteReview
<1>3. Sound(m) /\ {"action", "task", "pr", "verdict"} \subseteq DOMAIN m
  BY <1>1, <1>2, AnswerableSound DEF CompleteReview
<1>4. /\ From(v, m).nick = v /\ From(v, m).action = m.action
      /\ From(v, m).task = m.task /\ From(v, m).pr = m.pr /\ From(v, m).verdict = m.verdict
  BY <1>3, SignedFields
<1>5. m.action = "REVIEW-COMPLETE" /\ m.task = t /\ m.pr = p /\ m.verdict = "approved"
  BY <1>1 DEF CompleteReview
<1>6. "approved" # ""
  OBVIOUS
<1>7. From(v, m) \in Signed
  BY <1>2 DEF Signed, ByRole
<1>8. Verdict(From(v, m))
  BY <1>4, <1>5, <1>6 DEF Verdict
<1> QED
  BY <1>4, <1>5, <1>7, <1>8 DEF Gives, Decides

\* Reading a request leaves a reviewer with an answer to send.
LEMMA RequestIsAnswered ==
  ASSUME NEW v \in Nicks, NEW t \in Tasks, NEW p, NEW m \in Asks(v, t, p)
  PROVE  /\ Passes(v, m)
         /\ CompleteReview(t, p, "approved") \in ToSet(RoleAnswers(Roles[v], m))
<1>1. /\ m \in Signed /\ m.action = "REVIEW-REQUEST" /\ m.task = t /\ m.pr = p
      /\ Reviews(v, m.nick, m.reviewType)
  BY DEF Asks, AsksFor
<1>2. Passes(v, m)
  BY <1>1 DEF Passes, Reviews
<1>3. PICK role \in ToSet(Roles[v]) :
             \/ m.reviewType = "architecture" /\ role = "architecture-reviewer"
             \/ m.reviewType = "security" /\ role = "security-reviewer"
  BY <1>1 DEF Reviews
<1>4. Answers(role, m) = <<CompleteReview(t, p, "approved")>>
  <2>1. CASE m.reviewType = "architecture" /\ role = "architecture-reviewer"
    BY <1>1, <2>1 DEF Answers
  <2>2. CASE m.reviewType = "security" /\ role = "security-reviewer"
    BY <1>1, <2>2 DEF Answers
  <2> QED
    BY <1>3, <2>1, <2>2
<1>5. CompleteReview(t, p, "approved") \in ToSet(Answers(role, m))
  BY <1>4 DEF ToSet
<1>6. Fields(m)
  BY <1>1, SignedMessage
<1> QED
  BY <1>2, <1>5, <1>6, RoleAnswersAre

\* The steps there are, with what they do to the answers that handlers have ready.
Dropped(c) == replies[c] # <<>> /\ replies' = [replies EXCEPT ![c] = Tail(@)]

Refilled(c, m) ==
  /\ replies[c] = <<>> /\ \A b \in Nicks \ {c} : replies'[b] = replies[b]
  /\ \/ /\ Passes(c, m)
        /\ \E n \in Seq(Notice) : replies'[c] \in {RoleAnswers(Roles[c], m) \o n, n \o RoleAnswers(Roles[c], m)}
     \/ ~Passes(c, m) /\ replies'[c] = <<>>

AppStep(c, x)     == Applied(c, "app", x) /\ replies' = replies
RoleStep(c, m)    == /\ Applied(c, "reader", From(c, m)) /\ m \in Answerable(c)
                     /\ m = Head(replies[c]) /\ Dropped(c)
SendStep(c, h, x) == Sent(c, h, x) /\ replies' = replies
NoticeStep(c, x)  == Noticed(c, x) /\ Head(replies[c]) \in Notice /\ Dropped(c)
ReadStep(c, m)    == Read(c, m) /\ Refilled(c, m)
CloseStep(c, t)   == Resolved(c, t) /\ replies' = replies
DenyStep(c)       == /\ Dropped(c) /\ st' = st /\ out' = out /\ inbox' = inbox
                     /\ ~Check(Rules[c], c, Head(replies[c]).action)
IdleStep          == st' = st /\ out' = out /\ inbox' = inbox /\ replies' = replies

LEMMA StepsWithReplies ==
  ASSUME DispTypes, [Next]_vars
  PROVE  \/ \E c \in Nicks : \E x : AppStep(c, x)
         \/ \E c \in Nicks : \E m : RoleStep(c, m)
         \/ \E c \in Nicks, h \in Thread : \E x : SendStep(c, h, x)
         \/ \E c \in Nicks : \E x : NoticeStep(c, x)
         \/ \E c \in Nicks : \E m : ReadStep(c, m)
         \/ \E c \in Nicks, t \in Tasks : CloseStep(c, t)
         \/ \E c \in Nicks : DenyStep(c)
         \/ IdleStep
<1>1. ASSUME NEW a \in Nicks, AppSends(a) PROVE \E c \in Nicks : \E x : AppStep(c, x)
  BY <1>1, AppSendsEffect DEF AppStep
<1>2. ASSUME NEW a \in Nicks, NEW th \in Thread, Transmit(a, th)
      PROVE  \E c \in Nicks, h \in Thread : \E x : SendStep(c, h, x)
  <2>1. SendStep(a, th, out[a][th])
    BY <1>2, TransmitEffect DEF Sent, SendStep
  <2> QED
    BY <2>1
<1>3. ASSUME NEW a \in Nicks, Receive(a) PROVE \E c \in Nicks : \E m : ReadStep(c, m)
  <2> DEFINE m == Head(inbox[a])
             r == RoleAnswers(Roles[a], m)
             n == Notifications(NotifyOn[a], m)
  <2>1. /\ inbox[a] # <<>> /\ m \in Signed /\ m.nick # a
        /\ inbox' = [inbox EXCEPT ![a] = Tail(@)] /\ out' = out
        /\ \A b \in Nicks \ {a} : st'[b] = st[b]
        /\ st'[a] = IF Passes(a, m) THEN Updated(st[a], m) ELSE st[a]
    BY <1>3, ReceiveEffect
  <2>2. Read(a, m)
    BY <2>1 DEF Read
  <2>3. n \in Seq(Notice)
    BY NotificationsAre
  <2>4. /\ replies[a] = <<>>
        /\ \/ Passes(a, m) /\ replies' = [replies EXCEPT ![a] = r \o n]
           \/ Passes(a, m) /\ replies' = [replies EXCEPT ![a] = n \o r]
           \/ ~Passes(a, m) /\ replies' = replies
    BY <1>3, ReceiveEffect
  <2>5. DOMAIN replies = Nicks
    BY DEF DispTypes
  <2> HIDE DEF m, n
  <2>6. Refilled(a, m)
    BY <2>3, <2>4, <2>5 DEF Refilled
  <2> QED
    BY <2>2, <2>6 DEF ReadStep
<1>4. ASSUME NEW a \in Nicks, Answer(a)
      PROVE  (\E c \in Nicks : \E m : RoleStep(c, m)) \/ (\E c \in Nicks : DenyStep(c))
  <2>1. RoleStep(a, Head(replies[a])) \/ DenyStep(a)
    BY <1>4, AnswerEffect DEF Dropped, RoleStep, DenyStep
  <2> QED
    BY <2>1
<1>5. ASSUME NEW a \in Nicks, Notify(a) PROVE \E c \in Nicks : \E x : NoticeStep(c, x)
  <2>1. NoticeStep(a, From(a, Head(replies[a])))
    BY <1>5, NotifyEffect DEF Noticed, Dropped, NoticeStep
  <2> QED
    BY <2>1
<1>6. ASSUME NEW a \in Nicks, NEW t \in Tasks, Resolve(a, t)
      PROVE  \E c \in Nicks, u \in Tasks : CloseStep(c, u)
  BY <1>6, ResolveStep DEF Resolved, CloseStep
<1>7. CASE UNCHANGED vars
  BY <1>7 DEF vars, IdleStep
<1> QED
  BY <1>1, <1>2, <1>3, <1>4, <1>5, <1>6, <1>7 DEF Next, Thread

-----------------------------------------------------------------------------
(***************************************************************************)
(* The verdicts that a reviewer owes: one for each request in its queue    *)
(* and each answer it has ready, and the one that its reader is sending.   *)
(***************************************************************************)
One(x, X) == IF x \in X THEN 1 ELSE 0

Ready(v, t, p) == CountAfter(replies[v], Approval(t, p), 0)

Owed(v, t, p) ==
  CountAfter(inbox[v], Asks(v, t, p), 0) + Ready(v, t, p) + One(out[v]["reader"], Gives(v, t, p))

LEMMA OneIs ==
  ASSUME NEW x, NEW X
  PROVE  /\ One(x, X) \in Nat /\ One(x, X) <= 1
         /\ (x \in X => One(x, X) = 1) /\ (x \notin X => One(x, X) = 0)
BY DEF One

LEMMA QueueType ==
  ASSUME DispTypes, NEW b \in Nicks, NEW X, NEW k \in Nat
  PROVE  inbox[b] \in Seq(Signed) /\ Len(inbox[b]) \in Nat /\ CountAfter(inbox[b], X, k) \in Nat
<1>1. inbox[b] \in Seq(Signed)
  BY DEF DispTypes
<1>2. Len(inbox[b]) \in Nat
  BY <1>1
<1> QED
  BY <1>1, <1>2, CountType

LEMMA QueueRelayed ==
  ASSUME DispTypes, NEW c \in Nicks, NEW x \in Signed, Relayed(c, x), NEW b \in Nicks, NEW X
  PROVE  /\ b = c => inbox'[b] = inbox[b]
         /\ b # c => /\ Len(inbox'[b]) = Len(inbox[b]) + 1
                     /\ \A k \in 0..Len(inbox[b]) :
                          CountAfter(inbox'[b], X, k) = CountAfter(inbox[b], X, k) + One(x, X)
                     /\ CountAfter(inbox'[b], X, Len(inbox[b]) + 1) = 0
<1> DEFINE q == inbox[b]
<1>1. q \in Seq(Signed) /\ (b = c => inbox'[b] = q) /\ (b # c => inbox'[b] = Append(q, x))
  BY RelayedTo
<1> HIDE DEF q
<1>2. Append(q, x) \in Seq(Signed) /\ Len(Append(q, x)) = Len(q) + 1
  BY <1>1
<1>3. CountAfter(Append(q, x), X, Len(q) + 1) = 0
  <2>1. CountAfter(Append(q, x), X, Len(Append(q, x))) = 0
    BY <1>2, CountPastEnd
  <2> QED
    BY <1>2, <2>1
<1>4. ASSUME NEW k \in 0..Len(q)
      PROVE  CountAfter(Append(q, x), X, k) = CountAfter(q, X, k) + One(x, X)
  <2>1. k \in Nat /\ k <= Len(q)
    BY <1>1
  <2> QED
    BY <1>1, <2>1, CountAppend DEF One
<1> QED
  BY <1>1, <1>2, <1>3, <1>4 DEF q

LEMMA QueueRead ==
  ASSUME DispTypes, NEW c \in Nicks, NEW m, Read(c, m), NEW X
  PROVE  /\ Len(inbox'[c]) + 1 = Len(inbox[c])
         /\ \A k \in Nat : CountAfter(inbox'[c], X, k) = CountAfter(inbox[c], X, k + 1)
         /\ CountAfter(inbox[c], X, 0) = CountAfter(inbox'[c], X, 0) + One(m, X)
<1> DEFINE q == inbox[c]
<1>1. q \in Seq(Signed) /\ q # <<>> /\ inbox'[c] = Tail(q) /\ Head(q) = m
  BY ReadFrom
<1> HIDE DEF q
<1>2. Len(Tail(q)) + 1 = Len(q)
  BY <1>1
<1>3. \A k \in Nat : CountAfter(Tail(q), X, k) = CountAfter(q, X, k + 1)
  BY <1>1, CountTail
<1>4. CountAfter(q, X, 0) = CountAfter(Tail(q), X, 0) + One(m, X)
  BY <1>1, CountHead DEF One
<1> QED
  BY <1>1, <1>2, <1>3, <1>4 DEF q

LEMMA ReadyType ==
  ASSUME DispTypes, NEW v \in Nicks, NEW t, NEW p
  PROVE  replies[v] \in Seq(Reply(v)) /\ Ready(v, t, p) \in Nat
<1>1. replies[v] \in Seq(Reply(v))
  BY DEF DispTypes
<1> QED
  BY <1>1, CountType DEF Ready

LEMMA ReadyDropped ==
  ASSUME DispTypes, NEW c \in Nicks, Dropped(c), NEW v \in Nicks, NEW t, NEW p
  PROVE  /\ v # c => Ready(v, t, p)' = Ready(v, t, p)
         /\ Ready(c, t, p) = Ready(c, t, p)' + One(Head(replies[c]), Approval(t, p))
<1>1. /\ replies[c] # <<>> /\ replies'[c] = Tail(replies[c]) /\ replies[c] \in Seq(Reply(c))
      /\ v # c => replies'[v] = replies[v]
  BY DEF Dropped, DispTypes
<1>2. CountAfter(replies[c], Approval(t, p), 0)
        = CountAfter(Tail(replies[c]), Approval(t, p), 0) + One(Head(replies[c]), Approval(t, p))
  BY <1>1, CountHead DEF One
<1> QED
  BY <1>1, <1>2 DEF Ready

LEMMA ReadyRefilled ==
  ASSUME DispTypes, NEW c \in Nicks, NEW m \in Signed, Refilled(c, m), NEW v \in Nicks,
         NEW t \in Tasks, NEW p
  PROVE  /\ v # c => Ready(v, t, p)' = Ready(v, t, p)
         /\ Ready(c, t, p) = 0 /\ Ready(c, t, p)' \in Nat
         /\ m \in Asks(c, t, p) => Ready(c, t, p)' >= 1
<1> DEFINE r == RoleAnswers(Roles[c], m)
           z == CompleteReview(t, p, "approved")
<1>1. /\ replies[c] = <<>> /\ \A b \in Nicks \ {c} : replies'[b] = replies[b]
      /\ \/ Passes(c, m) /\ \E n \in Seq(Notice) : replies'[c] \in {r \o n, n \o r}
         \/ ~Passes(c, m) /\ replies'[c] = <<>>
  BY DEF Refilled
<1>2. v # c => Ready(v, t, p)' = Ready(v, t, p)
  BY <1>1 DEF Ready
<1>3. Ready(c, t, p) = 0
  BY <1>1, CountNone DEF Ready
<1>4. Ready(c, t, p)' = CountAfter(replies'[c], Approval(t, p), 0)
  BY DEF Ready
<1>5. CASE ~Passes(c, m)
  <2>1. Ready(c, t, p)' = 0
    BY <1>1, <1>4, <1>5, CountNone
  <2> QED
    BY <1>2, <1>3, <1>5, <2>1, RequestIsAnswered
<1>6. ASSUME NEW n \in Seq(Notice), replies'[c] \in {r \o n, n \o r}
      PROVE  Ready(c, t, p)' \in Nat /\ (m \in Asks(c, t, p) => Ready(c, t, p)' >= 1)
  <2> DEFINE S == Answerable(c) \cup Notice
             u == replies'[c]
  <2>1. r \in Seq(S) /\ n \in Seq(S)
    <3>1. r \in Seq(Answerable(c))
      BY SignedMessage, RoleAnswersAre
    <3> HIDE DEF r
    <3> QED
      BY <3>1
  <2> HIDE DEF r, S, u
  <2>2. r \o n \in Seq(S) /\ n \o r \in Seq(S)
    BY <2>1
  <2>3. u \in Seq(S)
    BY <1>6, <2>2 DEF u
  <2>4. ASSUME NEW i \in 1..Len(r) PROVE \E j \in 1..Len(u) : u[j] = r[i]
    <3>1. /\ Len(r \o n) = Len(r) + Len(n) /\ Len(n \o r) = Len(r) + Len(n)
          /\ Len(r) \in Nat /\ Len(n) \in Nat
      BY <2>1
    <3>2. (r \o n)[i] = r[i] /\ (n \o r)[Len(n) + i] = r[i]
      BY <2>1
    <3>3. i \in 1..(Len(r) + Len(n)) /\ Len(n) + i \in 1..(Len(r) + Len(n))
      BY <3>1
    <3> QED
      BY <1>6, <3>1, <3>2, <3>3 DEF u
  <2>5. ASSUME m \in Asks(c, t, p) PROVE \E j \in 1..Len(u) : u[j] \in Approval(t, p)
    <3>1. z \in ToSet(r)
      BY <2>5, RequestIsAnswered DEF r
    <3>2. PICK i \in 1..Len(r) : r[i] = z
      BY <2>1, <3>1 DEF ToSet
    <3> QED
      BY <2>4, <3>2 DEF Approval
  <2>6. CountAfter(u, Approval(t, p), 0) \in Nat
    BY <2>3, CountType
  <2>7. ASSUME m \in Asks(c, t, p) PROVE CountAfter(u, Approval(t, p), 0) >= 1
    BY <2>3, <2>5, <2>7, CountSome
  <2> QED
    BY <1>4, <2>6, <2>7 DEF u
<1> QED
  BY <1>1, <1>2, <1>3, <1>5, <1>6

LEMMA OwedType ==
  ASSUME DispTypes, NEW v \in Nicks, NEW t, NEW p
  PROVE  /\ Owed(v, t, p) \in Nat
<1>1. /\ CountAfter(inbox[v], Asks(v, t, p), 0) \in Nat /\ Ready(v, t, p) \in Nat
      /\ One(out[v]["reader"], Gives(v, t, p)) \in Nat
  BY QueueType, ReadyType, OneIs
<1> QED
  BY <1>1 DEF Owed

\* Sending a request makes its reviewer owe a verdict more, and sending the verdict
\* one less.
LEMMA OwedSent ==
  ASSUME DispTypes, DispTypes', NEW c \in Nicks, NEW h \in Thread, NEW x, SendStep(c, h, x),
         NEW v \in Nicks, NEW t, NEW p
  PROVE  Owed(v, t, p)' + One(x, Gives(v, t, p)) >= Owed(v, t, p) + One(x, Asks(v, t, p))
<1> DEFINE A == Asks(v, t, p)
           G == Gives(v, t, p)
           q  == CountAfter(inbox[v], A, 0)
           qq == CountAfter(inbox'[v], A, 0)
           r  == Ready(v, t, p)
           o  == One(out[v]["reader"], G)
           oo == One(out'[v]["reader"], G)
           ia == One(x, A)
           ig == One(x, G)
<1>1. Sent(c, h, x) /\ x \in Signed /\ x.nick = c /\ Relayed(c, x) /\ out[c][h] = x
  BY SendsMessage DEF SendStep, Sent
<1>2. /\ q \in Nat /\ qq \in Nat /\ r \in Nat /\ o \in Nat /\ oo \in Nat
      /\ ia \in Nat /\ ig \in Nat
  <2>1. qq \in Nat
    <3>1. inbox'[v] \in Seq(Signed)
      BY DEF DispTypes
    <3> QED
      BY <3>1, CountType
  <2> QED
    BY <2>1, QueueType, ReadyType, OneIs
<1>3. Owed(v, t, p) = q + r + o /\ Owed(v, t, p)' = qq + r + oo
  <2>1. Ready(v, t, p)' = Ready(v, t, p)
    BY DEF SendStep, Ready
  <2> QED
    BY <2>1 DEF Owed
<1>4. v # c => qq = q + ia
  <2>1. v # c => \A k \in 0..Len(inbox[v]) : CountAfter(inbox'[v], A, k) = CountAfter(inbox[v], A, k) + ia
    BY <1>1, QueueRelayed
  <2>2. 0 \in 0..Len(inbox[v])
    <3>1. Len(inbox[v]) \in Nat
      BY QueueType
    <3> QED
      BY <3>1
  <2> QED
    BY <2>1, <2>2
<1>5. v = c => qq = q /\ ia = 0
  BY <1>1, QueueRelayed, AsksAndGives, OneIs
<1>6. oo + ig >= o
  <2>1. "reader" \in Thread
    BY DEF Thread
  <2>2. out'[v]["reader"] = IF v = c /\ h = "reader" THEN None ELSE out[v]["reader"]
    BY <1>1, <2>1, SentOut
  <2>3. CASE v = c /\ h = "reader"
    <3>1. o = ig
      BY <1>1, <2>3
    <3> HIDE DEF o, oo, ig
    <3> QED
      BY <1>2, <3>1
  <2>4. CASE ~(v = c /\ h = "reader")
    <3>1. oo = o
      BY <2>2, <2>4
    <3> HIDE DEF o, oo, ig
    <3> QED
      BY <1>2, <3>1
  <2> QED
    BY <2>3, <2>4
<1> HIDE DEF q, qq, r, o, oo, ia, ig
<1>7. qq + r + oo + ig >= q + r + o + ia
  BY <1>2, <1>4, <1>5, <1>6
<1> QED
  BY <1>3, <1>7 DEF ia, ig

\* No other step makes a reviewer owe less.
LEMMA OwedKept ==
  ASSUME DispTypes, DispTypes', NEW v \in Reviewers, NEW t \in Tasks, NEW p \in Prs,
         \/ \E c \in Nicks : \E x : AppStep(c, x)
         \/ \E c \in Nicks : \E m : RoleStep(c, m)
         \/ \E c \in Nicks : \E x : NoticeStep(c, x)
         \/ \E c \in Nicks : \E m : ReadStep(c, m)
         \/ \E c \in Nicks, u \in Tasks : CloseStep(c, u)
         \/ \E c \in Nicks : DenyStep(c)
         \/ IdleStep
  PROVE  Owed(v, t, p)' >= Owed(v, t, p)
<1> DEFINE A == Asks(v, t, p)
           G == Gives(v, t, p)
           q  == CountAfter(inbox[v], A, 0)
           qq == CountAfter(inbox'[v], A, 0)
           r  == Ready(v, t, p)
           rr == Ready(v, t, p)'
           o  == One(out[v]["reader"], G)
           oo == One(out'[v]["reader"], G)
<1>1. v \in Nicks /\ Check(Rules[v], v, "REVIEW-COMPLETE") /\ "reader" \in Thread
  BY DEF Reviewers, Thread
<1>2. /\ q \in Nat /\ qq \in Nat /\ r \in Nat /\ rr \in Nat /\ o \in Nat /\ oo \in Nat
  <2>1. qq \in Nat
    <3>1. inbox'[v] \in Seq(Signed)
      BY <1>1 DEF DispTypes
    <3> QED
      BY <3>1, CountType
  <2>2. rr \in Nat
    <3>1. replies'[v] \in Seq(Reply(v))
      BY <1>1 DEF DispTypes
    <3> QED
      BY <3>1, CountType DEF Ready
  <2> QED
    BY <1>1, <2>1, <2>2, QueueType, ReadyType, OneIs
<1>3. Owed(v, t, p) = q + r + o /\ Owed(v, t, p)' = qq + rr + oo
  BY DEF Owed
<1>4. SUFFICES qq + rr + oo >= q + r + o
  BY <1>3
<1>5. ASSUME NEW c \in Nicks, NEW x, AppStep(c, x) PROVE qq + rr + oo >= q + r + o
  <2>1. qq = q /\ rr = r
    BY <1>5 DEF AppStep, Applied, Ready
  <2>2. oo = o
    BY <1>1, <1>5, AppliedOut DEF AppStep, Thread
  <2> HIDE DEF q, qq, r, rr, o, oo
  <2> QED
    BY <1>2, <2>1, <2>2
<1>6. ASSUME NEW c \in Nicks, NEW m, RoleStep(c, m) PROVE qq + rr + oo >= q + r + o
  <2>1. /\ Applied(c, "reader", From(c, m)) /\ Dropped(c) /\ m = Head(replies[c])
        /\ out[c]["reader"] = None
    BY <1>6 DEF RoleStep, Applied
  <2>2. qq = q
    BY <2>1 DEF Applied
  <2>3. v # c => rr = r /\ oo = o
    BY <1>1, <2>1, AppliedOut, ReadyDropped
  <2>4. v = c => /\ r = rr + One(m, Approval(t, p)) /\ o = 0 /\ oo = One(From(c, m), G)
    BY <1>1, <2>1, AppliedOut, ReadyDropped, AsksAndGives, OneIs
  <2>5. v = c => One(m, Approval(t, p)) <= One(From(c, m), G) /\ One(From(c, m), G) \in Nat /\ One(m, Approval(t, p)) \in Nat
    BY <1>1, ApprovalGives, OneIs
  <2> HIDE DEF q, qq, r, rr, o, oo
  <2>6. CASE v # c
    BY <1>2, <2>2, <2>3, <2>6
  <2>7. CASE v = c
    BY <1>2, <2>2, <2>4, <2>5, <2>7
  <2> QED
    BY <2>6, <2>7
<1>7. ASSUME NEW c \in Nicks, NEW x, NoticeStep(c, x) PROVE qq + rr + oo >= q + r + o
  <2>1. /\ x \in Signed /\ x.action = "TEXT" /\ Relayed(c, x) /\ out' = out
        /\ Dropped(c) /\ Head(replies[c]) \in Notice
    BY <1>7, ByNoticeMessage DEF NoticeStep, Noticed
  <2>2. oo = o
    BY <2>1
  <2>3. qq = q
    <3>1. One(x, A) = 0
      BY <1>1, <2>1, AsksAndGives, OneIs
    <3>2. v # c => \A k \in 0..Len(inbox[v]) : CountAfter(inbox'[v], A, k) = CountAfter(inbox[v], A, k) + One(x, A)
      BY <1>1, <2>1, QueueRelayed
    <3>3. 0 \in 0..Len(inbox[v])
      <4>1. Len(inbox[v]) \in Nat
        BY <1>1, QueueType
      <4> QED
        BY <4>1
    <3>4. v = c => qq = q
      BY <2>1, QueueRelayed
    <3>5. v # c => qq = q + 0
      BY <3>1, <3>2, <3>3
    <3> HIDE DEF q, qq
    <3> QED
      BY <1>2, <3>4, <3>5
  <2>4. rr = r
    <3>1. Head(replies[c]) \notin Approval(t, p)
      <4>1. Head(replies[c]).action = "TEXT"
        BY <2>1, NoticeSound
      <4> QED
        BY <4>1 DEF Approval, CompleteReview
    <3>2. v = c => r = rr + 0
      BY <1>1, <2>1, <3>1, ReadyDropped, OneIs
    <3>3. v # c => rr = r
      BY <1>1, <2>1, ReadyDropped
    <3> HIDE DEF r, rr
    <3> QED
      BY <1>2, <3>2, <3>3
  <2> HIDE DEF q, qq, r, rr, o, oo
  <2> QED
    BY <1>2, <2>2, <2>3, <2>4
<1>8. ASSUME NEW c \in Nicks, NEW m, ReadStep(c, m) PROVE qq + rr + oo >= q + r + o
  <2>1. Read(c, m) /\ m \in Signed /\ Refilled(c, m) /\ out' = out
    BY <1>8 DEF ReadStep, Read
  <2>2. oo = o
    BY <2>1
  <2>3. v # c => qq = q /\ rr = r
    BY <1>1, <2>1, ReadFrom, ReadyRefilled
  <2>4. v = c => q = qq + One(m, A) /\ r = 0 /\ (m \in A => rr >= 1)
    BY <1>1, <2>1, QueueRead, ReadyRefilled
  <2>5. One(m, A) \in Nat /\ One(m, A) <= 1 /\ (m \notin A => One(m, A) = 0)
    BY OneIs
  <2> HIDE DEF q, qq, r, rr, o, oo, A
  <2>6. CASE v # c
    BY <1>2, <2>2, <2>3, <2>6
  <2>7. CASE v = c
    BY <1>2, <2>2, <2>4, <2>5, <2>7
  <2> QED
    BY <2>6, <2>7
<1>9. ASSUME NEW c \in Nicks, DenyStep(c) PROVE qq + rr + oo >= q + r + o
  <2>1. Dropped(c) /\ inbox' = inbox /\ out' = out /\ ~Check(Rules[c], c, Head(replies[c]).action)
    BY <1>9 DEF DenyStep
  <2>2. qq = q /\ oo = o
    BY <2>1
  <2>3. v # c => rr = r
    BY <1>1, <2>1, ReadyDropped
  <2>4. v = c => r = rr + 0
    <3>1. v = c => Head(replies[c]) \notin Approval(t, p)
      BY <1>1, <2>1, ApprovalGives
    <3> QED
      BY <1>1, <2>1, <3>1, ReadyDropped, OneIs
  <2> HIDE DEF q, qq, r, rr, o, oo
  <2> QED
    BY <1>2, <2>2, <2>3, <2>4
<1>10. ASSUME \/ \E c \in Nicks, u \in Tasks : CloseStep(c, u)
              \/ IdleStep
       PROVE  qq + rr + oo >= q + r + o
  <2>1. inbox' = inbox /\ out' = out /\ replies' = replies
    BY <1>10 DEF CloseStep, Resolved, IdleStep
  <2>2. qq = q /\ rr = r /\ oo = o
    BY <2>1 DEF Ready
  <2> HIDE DEF q, qq, r, rr, o, oo
  <2> QED
    BY <1>2, <2>2
<1> HIDE DEF q, qq, r, rr, o, oo
<1> QED
  BY <1>5, <1>6, <1>7, <1>8, <1>9, <1>10

-----------------------------------------------------------------------------
(***************************************************************************)
(* No agent sees a request without its verdict coming behind it: wherever  *)
(* one starts to count in the queue of an agent, the requests that v       *)
(* answers are no more than the verdicts of v there and those v owes.      *)
(***************************************************************************)
Covered(a, v, t, p) ==
  \A k \in 0..Len(inbox[a]) :
    CountAfter(inbox[a], Asks(v, t, p), k) <= CountAfter(inbox[a], Gives(v, t, p), k) + Owed(v, t, p)

RequestsCovered ==
  \A t \in Tasks, p \in Prs, v \in Reviewers : \A a \in Nicks \ {v} : Covered(a, v, t, p)

LEMMA OwedTypeNext ==
  ASSUME DispTypes', NEW v \in Nicks, NEW t, NEW p
  PROVE  Owed(v, t, p)' \in Nat
<1>1. inbox'[v] \in Seq(Signed) /\ replies'[v] \in Seq(Reply(v))
  BY DEF DispTypes
<1>2. /\ CountAfter(inbox'[v], Asks(v, t, p), 0) \in Nat
      /\ CountAfter(replies'[v], Approval(t, p), 0) \in Nat
      /\ One(out'[v]["reader"], Gives(v, t, p)) \in Nat
  BY <1>1, CountType, OneIs
<1> QED
  BY <1>2 DEF Owed, Ready

LEMMA RequestsCoveredInit == Init => RequestsCovered
<1> SUFFICES ASSUME Init, NEW t \in Tasks, NEW p \in Prs, NEW v \in Reviewers, NEW a \in Nicks \ {v},
                    NEW k \in 0..Len(inbox[a])
             PROVE  CountAfter(inbox[a], Asks(v, t, p), k)
                      <= CountAfter(inbox[a], Gives(v, t, p), k) + Owed(v, t, p)
  BY DEF RequestsCovered, Covered
<1>1. inbox[a] = <<>> /\ v \in Nicks
  BY DEF Init, Reviewers
<1>2. Owed(v, t, p) \in Nat
  BY <1>1, DispTypesInit, OwedType
<1>3. CountAfter(inbox[a], Asks(v, t, p), k) = 0 /\ CountAfter(inbox[a], Gives(v, t, p), k) = 0
  BY <1>1, CountNone
<1> QED
  BY <1>2, <1>3

LEMMA RequestsCoveredStep ==
  DispTypes /\ DispTypes' /\ RequestsCovered /\ [Next]_vars => RequestsCovered'
<1> SUFFICES ASSUME DispTypes, DispTypes', RequestsCovered, [Next]_vars,
                    NEW t \in Tasks, NEW p \in Prs, NEW v \in Reviewers, NEW a \in Nicks \ {v}
             PROVE  Covered(a, v, t, p)'
  BY DEF RequestsCovered
<1> DEFINE A == Asks(v, t, p)
           G == Gives(v, t, p)
           w == Owed(v, t, p)
           ww == Owed(v, t, p)'
           q == inbox[a]
           qq == inbox'[a]
           Behind(x) ==
             /\ Len(qq) = Len(q) + 1
             /\ CountAfter(qq, A, Len(q) + 1) = 0 /\ CountAfter(qq, G, Len(q) + 1) = 0
             /\ \A k \in 0..Len(q) : /\ CountAfter(qq, A, k) = CountAfter(q, A, k) + One(x, A)
                                     /\ CountAfter(qq, G, k) = CountAfter(q, G, k) + One(x, G)
<1>1. v \in Nicks /\ a \in Nicks /\ a # v
  BY DEF Reviewers
<1>2. Len(q) \in Nat /\ Len(qq) \in Nat /\ w \in Nat /\ ww \in Nat
  <2>1. Owed(v, t, p)' \in Nat
    BY <1>1, OwedTypeNext
  <2>2. inbox'[a] \in Seq(Signed)
    BY <1>1 DEF DispTypes
  <2>3. Len(inbox'[a]) \in Nat
    BY <2>2
  <2> QED
    BY <1>1, <2>1, <2>3, QueueType, OwedType
<1>3. \A k \in Nat : CountAfter(q, A, k) \in Nat /\ CountAfter(q, G, k) \in Nat
  BY <1>1, QueueType
<1>4. \A k \in 0..Len(q) : CountAfter(q, A, k) <= CountAfter(q, G, k) + w
  BY DEF RequestsCovered, Covered
<1>5. SUFFICES \A k \in 0..Len(qq) : CountAfter(qq, A, k) <= CountAfter(qq, G, k) + ww
  BY DEF Covered
<1>6. ASSUME qq = q, ww >= w
      PROVE  \A k \in 0..Len(qq) : CountAfter(qq, A, k) <= CountAfter(qq, G, k) + ww
  <2> HIDE DEF q, qq, w, ww, A, G
  <2>1. \A k \in 0..Len(q) : k \in Nat
    BY <1>2
  <2> QED
    BY <1>2, <1>3, <1>4, <1>6, <2>1
<1>7. ASSUME NEW x, Behind(x), ww + One(x, G) >= w + One(x, A)
      PROVE  \A k \in 0..Len(qq) : CountAfter(qq, A, k) <= CountAfter(qq, G, k) + ww
  <2>1. One(x, A) \in Nat /\ One(x, G) \in Nat
    BY OneIs
  <2> HIDE DEF q, qq, w, ww, A, G
  <2> SUFFICES ASSUME NEW k \in 0..Len(qq) PROVE CountAfter(qq, A, k) <= CountAfter(qq, G, k) + ww
    OBVIOUS
  <2>2. CASE k = Len(q) + 1
    BY <1>2, <1>7, <2>2
  <2>3. CASE k # Len(q) + 1
    <3>1. k \in 0..Len(q) /\ k \in Nat
      BY <1>2, <1>7, <2>3
    <3>2. /\ CountAfter(qq, A, k) = CountAfter(q, A, k) + One(x, A)
          /\ CountAfter(qq, G, k) = CountAfter(q, G, k) + One(x, G)
          /\ CountAfter(q, A, k) <= CountAfter(q, G, k) + w
          /\ CountAfter(q, A, k) \in Nat /\ CountAfter(q, G, k) \in Nat
      BY <1>3, <1>4, <1>7, <3>1
    <3> QED
      BY <1>2, <1>7, <2>1, <3>2
  <2> QED
    BY <2>2, <2>3
<1>8. ASSUME Len(qq) + 1 = Len(q), ww >= w,
             \A k \in Nat : /\ CountAfter(qq, A, k) = CountAfter(q, A, k + 1)
                            /\ CountAfter(qq, G, k) = CountAfter(q, G, k + 1)
      PROVE  \A k \in 0..Len(qq) : CountAfter(qq, A, k) <= CountAfter(qq, G, k) + ww
  <2> HIDE DEF q, qq, w, ww, A, G
  <2> SUFFICES ASSUME NEW k \in 0..Len(qq) PROVE CountAfter(qq, A, k) <= CountAfter(qq, G, k) + ww
    OBVIOUS
  <2>1. k \in Nat /\ k + 1 \in Nat /\ k + 1 \in 0..Len(q)
    BY <1>2, <1>8
  <2>2. /\ CountAfter(qq, A, k) = CountAfter(q, A, k + 1) /\ CountAfter(qq, G, k) = CountAfter(q, G, k + 1)
        /\ CountAfter(q, A, k + 1) <= CountAfter(q, G, k + 1) + w
        /\ CountAfter(q, A, k + 1) \in Nat /\ CountAfter(q, G, k + 1) \in Nat
    BY <1>3, <1>4, <1>8, <2>1
  <2>3. ww >= w
    BY <1>8
  <2> QED
    BY <1>2, <2>2, <2>3
<1>9. ASSUME NEW c \in Nicks, NEW x \in Signed, Relayed(c, x), a # c PROVE Behind(x)
  <2> HIDE DEF A, G
  <2>1. inbox[a] \in Seq(Signed) /\ inbox'[a] = Append(inbox[a], x)
    BY <1>1, <1>9, RelayedTo
  <2>2. Len(inbox'[a]) = Len(inbox[a]) + 1 /\ inbox'[a] \in Seq(Signed)
    BY <2>1
  <2>3. CountAfter(inbox'[a], A, Len(inbox'[a])) = 0 /\ CountAfter(inbox'[a], G, Len(inbox'[a])) = 0
    BY <2>2, CountPastEnd
  <2>4. ASSUME NEW k \in 0..Len(inbox[a])
        PROVE  /\ CountAfter(inbox'[a], A, k) = CountAfter(inbox[a], A, k) + One(x, A)
               /\ CountAfter(inbox'[a], G, k) = CountAfter(inbox[a], G, k) + One(x, G)
    BY <1>1, <1>9, QueueRelayed
  <2> QED
    BY <2>2, <2>3, <2>4
<1>10. ASSUME NEW c \in Nicks, NEW h \in Thread, NEW x, SendStep(c, h, x)
      PROVE  \A k \in 0..Len(qq) : CountAfter(qq, A, k) <= CountAfter(qq, G, k) + ww
  <2>1. x \in Signed /\ x.nick = c /\ Relayed(c, x)
    BY <1>10, SendsMessage DEF SendStep, Sent
  <2>2. ww + One(x, G) >= w + One(x, A)
    BY <1>1, <1>10, OwedSent
  <2>3. CASE a = c
    <3>1. One(x, G) = 0 /\ One(x, A) \in Nat
      BY <1>1, <2>1, <2>3, AsksAndGives, OneIs
    <3>2. qq = q
      BY <1>1, <2>1, <2>3, QueueRelayed
    <3>3. ww >= w
      <4> HIDE DEF ww, w, A, G
      <4> QED
        BY <1>2, <2>2, <3>1
    <3> QED
      BY <1>6, <3>2, <3>3
  <2>4. CASE a # c
    <3>1. Behind(x)
      BY <1>9, <2>1, <2>4
    <3> HIDE DEF q, qq, w, ww, A, G
    <3> QED
      BY <1>7, <2>2, <3>1
  <2> QED
    BY <2>3, <2>4
<1>11. ASSUME NEW c \in Nicks, NEW x, NoticeStep(c, x)
       PROVE  \A k \in 0..Len(qq) : CountAfter(qq, A, k) <= CountAfter(qq, G, k) + ww
  <2>1. x \in Signed /\ x.action = "TEXT" /\ Relayed(c, x)
    BY <1>11, ByNoticeMessage DEF NoticeStep, Noticed
  <2>2. ww >= w
    BY <1>11, OwedKept
  <2>3. One(x, G) = 0 /\ One(x, A) = 0
    BY <1>1, <2>1, AsksAndGives, OneIs
  <2>4. CASE a = c
    <3>1. qq = q
      BY <1>1, <2>1, <2>4, QueueRelayed
    <3> QED
      BY <1>6, <2>2, <3>1
  <2>5. CASE a # c
    <3>1. Behind(x)
      BY <1>9, <2>1, <2>5
    <3>3. ww + One(x, G) >= w + One(x, A)
      <4> HIDE DEF ww, w, A, G
      <4> QED
        BY <1>2, <2>2, <2>3
    <3> HIDE DEF q, qq, w, ww, A, G
    <3> QED
      BY <1>7, <3>1, <3>3
  <2> QED
    BY <2>4, <2>5
<1>12. ASSUME NEW c \in Nicks, NEW m, ReadStep(c, m)
       PROVE  \A k \in 0..Len(qq) : CountAfter(qq, A, k) <= CountAfter(qq, G, k) + ww
  <2>1. Read(c, m)
    BY <1>12 DEF ReadStep
  <2>2. ww >= w
    BY <1>12, OwedKept
  <2>3. CASE a = c
    <3>1. /\ Len(qq) + 1 = Len(q)
          /\ \A k \in Nat : CountAfter(qq, A, k) = CountAfter(q, A, k + 1)
      BY <1>1, <2>1, <2>3, QueueRead
    <3>2. \A k \in Nat : CountAfter(qq, G, k) = CountAfter(q, G, k + 1)
      BY <1>1, <2>1, <2>3, QueueRead
    <3> HIDE DEF q, qq, w, ww, A, G
    <3> QED
      BY <1>8, <2>2, <3>1, <3>2
  <2>4. CASE a # c
    <3>1. qq = q
      BY <1>1, <2>1, <2>4, ReadFrom
    <3> QED
      BY <1>6, <2>2, <3>1
  <2> QED
    BY <2>3, <2>4
<1>13. ASSUME \/ \E c \in Nicks : \E x : AppStep(c, x)
              \/ \E c \in Nicks : \E m : RoleStep(c, m)
              \/ \E c \in Nicks, u \in Tasks : CloseStep(c, u)
              \/ \E c \in Nicks : DenyStep(c)
              \/ IdleStep
       PROVE  \A k \in 0..Len(qq) : CountAfter(qq, A, k) <= CountAfter(qq, G, k) + ww
  <2>1. ww >= w
    BY <1>13, OwedKept
  <2>2. qq = q
    BY <1>13 DEF AppStep, RoleStep, Applied, CloseStep, Resolved, DenyStep, IdleStep
  <2> QED
    BY <1>6, <2>1, <2>2
<1> HIDE DEF q, qq, w, ww, A, G
<1> QED
  BY <1>10, <1>11, <1>12, <1>13, StepsWithReplies

-----------------------------------------------------------------------------
(***************************************************************************)
(* The verdicts of v that agent a is to hear beyond those for requests     *)
(* that a has not seen.  An agent answers its own store at once, so for    *)
(* itself only the answers it has ready count.                             *)
(***************************************************************************)
Credit(a, v, t, p) ==
  IF v \notin Heard(a) THEN 0
  ELSE IF v = a THEN Ready(a, t, p)
  ELSE CountAfter(inbox[a], Gives(v, t, p), 0) + Owed(v, t, p)
         + One(out[a]["app"], Asks(v, t, p)) - CountAfter(inbox[a], Asks(v, t, p), 0)

Credits(a, t, p) == [v \in Nicks |-> Credit(a, v, t, p)]

CreditTypes == \A a \in Nicks, t \in Tasks, p \in Prs : Credits(a, t, p) \in [Nicks -> Nat]

LEMMA CreditsAreNat == DispTypes /\ RequestsCovered => CreditTypes
<1> SUFFICES ASSUME DispTypes, RequestsCovered, NEW a \in Nicks, NEW t \in Tasks, NEW p \in Prs,
                    NEW v \in Nicks
             PROVE  Credit(a, v, t, p) \in Nat
  BY DEF CreditTypes, Credits
<1>1. CASE v \notin Heard(a)
  BY <1>1 DEF Credit
<1>2. CASE v \in Heard(a) /\ v = a
  BY <1>2, ReadyType DEF Credit
<1>3. CASE v \in Heard(a) /\ v # a
  <2> DEFINE g == CountAfter(inbox[a], Gives(v, t, p), 0)
             w == Owed(v, t, p)
             b == One(out[a]["app"], Asks(v, t, p))
             q == CountAfter(inbox[a], Asks(v, t, p), 0)
  <2>1. g \in Nat /\ w \in Nat /\ b \in Nat /\ q \in Nat
    BY QueueType, OwedType, OneIs
  <2>2. q <= g + w
    <3>1. Covered(a, v, t, p)
      BY <1>3 DEF RequestsCovered, Heard
    <3>2. Len(inbox[a]) \in Nat
      BY QueueType
    <3>3. 0 \in 0..Len(inbox[a])
      BY <3>2
    <3> QED
      BY <3>1, <3>3 DEF Covered
  <2>3. Credit(a, v, t, p) = g + w + b - q
    BY <1>3 DEF Credit
  <2> HIDE DEF g, w, b, q
  <2>4. g + w + b - q \in Nat
    BY <2>1, <2>2
  <2> QED
    BY <2>3, <2>4
<1> QED
  BY <1>1, <1>2, <1>3

\* The parts of the credit of another agent, before and after a step.
LEMMA CreditParts ==
  ASSUME DispTypes, DispTypes', NEW a \in Nicks, NEW v \in Heard(a), v # a, NEW t \in Tasks, NEW p \in Prs
  PROVE  LET A == Asks(v, t, p)
             G == Gives(v, t, p)
         IN  /\ v \in Nicks /\ v \in Reviewers
             /\ CountAfter(inbox[a], G, 0) \in Nat /\ CountAfter(inbox[a], A, 0) \in Nat
             /\ CountAfter(inbox'[a], G, 0) \in Nat /\ CountAfter(inbox'[a], A, 0) \in Nat
             /\ Owed(v, t, p) \in Nat /\ Owed(v, t, p)' \in Nat
             /\ One(out[a]["app"], A) \in Nat /\ One(out'[a]["app"], A) \in Nat
             /\ Credit(a, v, t, p) = CountAfter(inbox[a], G, 0) + Owed(v, t, p)
                                       + One(out[a]["app"], A) - CountAfter(inbox[a], A, 0)
             /\ Credit(a, v, t, p)' = CountAfter(inbox'[a], G, 0) + Owed(v, t, p)'
                                        + One(out'[a]["app"], A) - CountAfter(inbox'[a], A, 0)
<1>1. v \in Nicks /\ v \in Reviewers
  BY DEF Heard, Reviewers
<1>2. inbox'[a] \in Seq(Signed)
  BY DEF DispTypes
<1>3. CountAfter(inbox'[a], Gives(v, t, p), 0) \in Nat /\ CountAfter(inbox'[a], Asks(v, t, p), 0) \in Nat
  BY <1>2, CountType
<1>4. Owed(v, t, p) \in Nat /\ Owed(v, t, p)' \in Nat
  BY <1>1, OwedType, OwedTypeNext
<1>5. CountAfter(inbox[a], Gives(v, t, p), 0) \in Nat /\ CountAfter(inbox[a], Asks(v, t, p), 0) \in Nat
  BY QueueType
<1>6. One(out[a]["app"], Asks(v, t, p)) \in Nat /\ One(out'[a]["app"], Asks(v, t, p)) \in Nat
  BY OneIs
<1> QED
  BY <1>1, <1>3, <1>4, <1>5, <1>6 DEF Credit

LEMMA CreditOfOther ==
  ASSUME DispTypes, DispTypes', NEW a \in Nicks, NEW v \in Heard(a), v # a, NEW t \in Tasks, NEW p \in Prs
  PROVE  /\ Credit(a, v, t, p) \in Int /\ Credit(a, v, t, p)' \in Int
         /\ \A c \in Nicks : \A x : AppStep(c, x) =>
              /\ Credit(a, v, t, p)' >= Credit(a, v, t, p)
              /\ c = a /\ x \in Asks(v, t, p) => Credit(a, v, t, p)' > Credit(a, v, t, p)
         /\ \A c \in Nicks, h \in Thread : \A x : SendStep(c, h, x) =>
              Credit(a, v, t, p)' >= Credit(a, v, t, p)
         /\ \A c \in Nicks : \A m : ReadStep(c, m) =>
              /\ c # a \/ m \notin Gives(v, t, p) => Credit(a, v, t, p)' >= Credit(a, v, t, p)
              /\ c = a /\ m \in Asks(v, t, p) => Credit(a, v, t, p)' > Credit(a, v, t, p)
              /\ Credit(a, v, t, p)' + 1 >= Credit(a, v, t, p)
         /\ \/ \E c \in Nicks : \E m : RoleStep(c, m)
            \/ \E c \in Nicks : \E x : NoticeStep(c, x)
            \/ \E c \in Nicks, u \in Tasks : CloseStep(c, u)
            \/ \E c \in Nicks : DenyStep(c)
            \/ IdleStep
            => Credit(a, v, t, p)' >= Credit(a, v, t, p)
<1> DEFINE A == Asks(v, t, p)
           G == Gives(v, t, p)
           g  == CountAfter(inbox[a], G, 0)
           gg == CountAfter(inbox'[a], G, 0)
           q  == CountAfter(inbox[a], A, 0)
           qq == CountAfter(inbox'[a], A, 0)
           w  == Owed(v, t, p)
           ww == Owed(v, t, p)'
           b  == One(out[a]["app"], A)
           bb == One(out'[a]["app"], A)
           f  == Credit(a, v, t, p)
           ff == Credit(a, v, t, p)'
<1>1. /\ v \in Nicks /\ v \in Reviewers /\ g \in Nat /\ gg \in Nat /\ q \in Nat /\ qq \in Nat
      /\ w \in Nat /\ ww \in Nat /\ b \in Nat /\ bb \in Nat
      /\ f = g + w + b - q /\ ff = gg + ww + bb - qq
  BY CreditParts
<1>2. "app" \in Thread /\ 0 \in 0..Len(inbox[a])
  <2>1. Len(inbox[a]) \in Nat
    BY QueueType
  <2>2. 0 \in 0..Len(inbox[a])
    BY <2>1
  <2> QED
    BY <2>2 DEF Thread
<1>3. f \in Int /\ ff \in Int
  <2> HIDE DEF g, gg, q, qq, w, ww, b, bb, f, ff
  <2> QED
    BY <1>1
<1>4. ASSUME NEW c \in Nicks, NEW x, AppStep(c, x)
      PROVE  ff >= f /\ (c = a /\ x \in A => ff > f)
  <2>1. gg = g /\ qq = q /\ out[c]["app"] = None
    BY <1>4 DEF AppStep, Applied
  <2>2. ww >= w
    BY <1>1, <1>4, OwedKept
  <2>3. out'[a]["app"] = IF a = c THEN x ELSE out[a]["app"]
    BY <1>2, <1>4, AppliedOut DEF AppStep
  <2>4. a # c => bb = b
    BY <2>3
  <2>5. a = c => b = 0 /\ (x \in A => bb = 1)
    BY <1>1, <2>1, <2>3, AsksAndGives, OneIs
  <2> HIDE DEF g, gg, q, qq, w, ww, b, bb, f, ff
  <2> QED
    BY <1>1, <2>1, <2>2, <2>4, <2>5
<1>5. ASSUME NEW c \in Nicks, NEW h \in Thread, NEW x, SendStep(c, h, x) PROVE ff >= f
  <2>1. Sent(c, h, x) /\ x \in Signed /\ x.nick = c /\ Relayed(c, x) /\ out[c][h] = x
    BY <1>5, SendsMessage DEF SendStep, Sent
  <2>2. ww + One(x, G) >= w + One(x, A)
    BY <1>1, <1>5, OwedSent
  <2>3. out'[a]["app"] = IF a = c /\ h = "app" THEN None ELSE out[a]["app"]
    BY <1>2, <2>1, SentOut
  <2>4. One(x, A) \in Nat /\ One(x, G) \in Nat
    BY OneIs
  <2>5. CASE a = c
    <3>1. gg = g /\ qq = q
      BY <2>1, <2>5, QueueRelayed
    <3>2. One(x, G) = 0
      BY <1>1, <2>1, <2>5, AsksAndGives, OneIs
    <3>3. h = "app" => b = One(x, A)
      BY <2>1, <2>5
    <3>4. h # "app" => bb = b
      BY <2>3
    <3> HIDE DEF g, gg, q, qq, w, ww, b, bb, f, ff, A, G
    <3> QED
      BY <1>1, <2>2, <2>4, <3>1, <3>2, <3>3, <3>4
  <2>6. CASE a # c
    <3>1. bb = b
      BY <2>3, <2>6
    <3>2. gg = g + One(x, G)
      <4> HIDE DEF G
      <4> QED
        BY <1>2, <2>1, <2>6, QueueRelayed
    <3>3. qq = q + One(x, A)
      <4> HIDE DEF A
      <4> QED
        BY <1>2, <2>1, <2>6, QueueRelayed
    <3> HIDE DEF g, gg, q, qq, w, ww, b, bb, f, ff, A, G
    <3> QED
      BY <1>1, <2>2, <2>4, <3>1, <3>2, <3>3
  <2> QED
    BY <2>5, <2>6
<1>6. ASSUME NEW c \in Nicks, NEW m, ReadStep(c, m)
      PROVE  /\ c # a \/ m \notin G => ff >= f
             /\ c = a /\ m \in A => ff > f
             /\ ff + 1 >= f
  <2>1. Read(c, m) /\ out' = out
    BY <1>6 DEF ReadStep, Read
  <2>2. ww >= w /\ bb = b
    BY <1>1, <1>6, <2>1, OwedKept
  <2>3. c # a => gg = g /\ qq = q
    BY <2>1, ReadFrom
  <2>4. c = a => g = gg + One(m, G) /\ q = qq + One(m, A)
    BY <2>1, QueueRead
  <2>5. /\ One(m, A) \in Nat /\ One(m, G) \in Nat /\ One(m, G) <= 1
        /\ m \notin G => One(m, G) = 0
        /\ m \in A => One(m, A) = 1 /\ One(m, G) = 0
    BY <1>1, AsksAndGives, OneIs
  <2> HIDE DEF g, gg, q, qq, w, ww, b, bb, f, ff, A, G
  <2>6. CASE c # a
    BY <1>1, <2>2, <2>3, <2>6
  <2>7. CASE c = a
    BY <1>1, <2>2, <2>4, <2>5, <2>7
  <2> QED
    BY <2>6, <2>7
<1>7. ASSUME NEW c \in Nicks, NEW x, NoticeStep(c, x) PROVE ff >= f
  <2>1. x \in Signed /\ x.action = "TEXT" /\ Relayed(c, x) /\ out' = out
    BY <1>7, ByNoticeMessage DEF NoticeStep, Noticed
  <2>2. ww >= w /\ bb = b
    BY <1>1, <1>7, <2>1, OwedKept
  <2>3. One(x, G) = 0 /\ One(x, A) = 0
    BY <1>1, <2>1, AsksAndGives, OneIs
  <2>4. CASE a = c
    <3>1. gg = g /\ qq = q
      BY <2>1, <2>4, QueueRelayed
    <3> HIDE DEF g, gg, q, qq, w, ww, b, bb, f, ff, A, G
    <3> QED
      BY <1>1, <2>2, <3>1
  <2>5. CASE a # c
    <3>2. gg = g + One(x, G)
      <4> HIDE DEF G
      <4> QED
        BY <1>2, <2>1, <2>5, QueueRelayed
    <3>3. qq = q + One(x, A)
      <4> HIDE DEF A
      <4> QED
        BY <1>2, <2>1, <2>5, QueueRelayed
    <3> HIDE DEF g, gg, q, qq, w, ww, b, bb, f, ff, A, G
    <3> QED
      BY <1>1, <2>2, <2>3, <3>2, <3>3
  <2> QED
    BY <2>4, <2>5
<1>8. ASSUME NEW c \in Nicks, NEW m, RoleStep(c, m) PROVE ff >= f
  <2>1. gg = g /\ qq = q /\ Applied(c, "reader", From(c, m)) /\ "reader" \in Thread
    BY <1>8 DEF RoleStep, Applied, Thread
  <2>2. ww >= w
    BY <1>1, <1>8, OwedKept
  <2>3. bb = b
    BY <1>2, <2>1, AppliedOut
  <2> HIDE DEF g, gg, q, qq, w, ww, b, bb, f, ff
  <2> QED
    BY <1>1, <2>1, <2>2, <2>3
<1>9. ASSUME \/ \E c \in Nicks, u \in Tasks : CloseStep(c, u)
             \/ \E c \in Nicks : DenyStep(c)
             \/ IdleStep
      PROVE  ff >= f
  <2>1. gg = g /\ qq = q /\ bb = b
    BY <1>9 DEF CloseStep, Resolved, DenyStep, IdleStep
  <2>2. ww >= w
    BY <1>1, <1>9, OwedKept
  <2> HIDE DEF g, gg, q, qq, w, ww, b, bb, f, ff
  <2> QED
    BY <1>1, <2>1, <2>2
<1> HIDE DEF f, ff, A, G
<1> QED
  BY <1>3, <1>4, <1>5, <1>6, <1>7, <1>8, <1>9 DEF f, ff, A, G

LEMMA CreditOfSelf ==
  ASSUME DispTypes, DispTypes', NEW a \in Nicks, a \in Heard(a), NEW t \in Tasks, NEW p \in Prs
  PROVE  /\ Credit(a, a, t, p) \in Nat /\ Credit(a, a, t, p)' \in Nat
         /\ \A c \in Nicks : \A m : RoleStep(c, m) =>
              /\ c # a \/ m \notin Approval(t, p) => Credit(a, a, t, p)' = Credit(a, a, t, p)
              /\ Credit(a, a, t, p)' + 1 >= Credit(a, a, t, p)
         /\ \A c \in Nicks : \A m : ReadStep(c, m) =>
              /\ Credit(a, a, t, p)' >= Credit(a, a, t, p)
              /\ c = a /\ m \in Asks(a, t, p) => Credit(a, a, t, p)' > Credit(a, a, t, p)
         /\ \/ \E c \in Nicks : \E x : AppStep(c, x)
            \/ \E c \in Nicks, h \in Thread : \E x : SendStep(c, h, x)
            \/ \E c \in Nicks : \E x : NoticeStep(c, x)
            \/ \E c \in Nicks, u \in Tasks : CloseStep(c, u)
            \/ \E c \in Nicks : DenyStep(c)
            \/ IdleStep
            => Credit(a, a, t, p)' = Credit(a, a, t, p)
<1> DEFINE f  == Ready(a, t, p)
           ff == Ready(a, t, p)'
<1>1. Credit(a, a, t, p) = f /\ Credit(a, a, t, p)' = ff
  BY DEF Credit
<1>2. f \in Nat /\ ff \in Nat
  <2>1. replies'[a] \in Seq(Reply(a))
    BY DEF DispTypes
  <2>2. CountAfter(replies'[a], Approval(t, p), 0) \in Nat
    BY <2>1, CountType
  <2> QED
    BY <2>2, ReadyType DEF Ready
<1>3. Check(Rules[a], a, "REVIEW-COMPLETE")
  BY DEF Heard
<1>4. ASSUME NEW c \in Nicks, Dropped(c)
      PROVE  /\ c # a \/ Head(replies[c]) \notin Approval(t, p) => ff = f
             /\ ff + 1 >= f
  <2> DEFINE i == One(Head(replies[c]), Approval(t, p))
  <2>1. i \in Nat /\ i <= 1 /\ (Head(replies[c]) \notin Approval(t, p) => i = 0)
    BY OneIs
  <2>2. (a # c => ff = f) /\ (a = c => f = ff + i)
    BY <1>4, ReadyDropped
  <2> HIDE DEF i, f, ff
  <2> QED
    BY <1>2, <2>1, <2>2
<1>5. ASSUME NEW c \in Nicks, NEW m, RoleStep(c, m)
      PROVE  (c # a \/ m \notin Approval(t, p) => ff = f) /\ ff + 1 >= f
  BY <1>4, <1>5 DEF RoleStep
<1>6. ASSUME NEW c \in Nicks, NEW m, ReadStep(c, m)
      PROVE  ff >= f /\ (c = a /\ m \in Asks(a, t, p) => ff > f)
  <2>1. m \in Signed /\ Refilled(c, m)
    BY <1>6 DEF ReadStep, Read
  <2>2. (a # c => ff = f) /\ (a = c => f = 0 /\ (m \in Asks(a, t, p) => ff >= 1))
    BY <2>1, ReadyRefilled
  <2> HIDE DEF f, ff
  <2> QED
    BY <1>2, <2>2
<1>7. ASSUME \/ \E c \in Nicks : \E x : AppStep(c, x)
             \/ \E c \in Nicks, h \in Thread : \E x : SendStep(c, h, x)
             \/ \E c \in Nicks, u \in Tasks : CloseStep(c, u)
             \/ IdleStep
      PROVE  ff = f
  <2>1. replies' = replies
    BY <1>7 DEF AppStep, SendStep, CloseStep, IdleStep
  <2> QED
    BY <2>1 DEF Ready
<1>8. ASSUME NEW c \in Nicks, NEW x, NoticeStep(c, x) PROVE ff = f
  <2>1. Dropped(c) /\ Head(replies[c]).action = "TEXT"
    BY <1>8, NoticeSound DEF NoticeStep
  <2>2. Head(replies[c]) \notin Approval(t, p)
    BY <2>1 DEF Approval, CompleteReview
  <2> QED
    BY <1>4, <2>1, <2>2
<1>9. ASSUME NEW c \in Nicks, DenyStep(c) PROVE ff = f
  <2>1. Dropped(c) /\ ~Check(Rules[c], c, Head(replies[c]).action)
    BY <1>9 DEF DenyStep
  <2>2. c = a => Head(replies[c]) \notin Approval(t, p)
    BY <1>3, <2>1, ApprovalGives
  <2> QED
    BY <1>4, <2>1, <2>2
<1> HIDE DEF f, ff
<1> QED
  BY <1>1, <1>2, <1>5, <1>6, <1>7, <1>8, <1>9

\* A request whose review has a reviewer is one that a reviewer heard by a answers.
LEMMA AskedHasReviewer ==
  ASSUME NEW a \in Nicks, NEW m \in Signed, NEW t, NEW p, AsksFor(m, t, p), HasReviewer(a, AskedIn(m))
  PROVE  \E v \in Heard(a) : m \in Asks(v, t, p)
<1>1. AskedIn(m).by = m.nick /\ AskedIn(m).reviewType = m.reviewType
  BY DEF AskedIn
<1>2. PICK v \in Nicks : Reviews(v, m.nick, m.reviewType) /\ Check(Rules[a], v, "REVIEW-COMPLETE")
  BY <1>1 DEF HasReviewer
<1>3. v \in Heard(a)
  BY <1>2 DEF Heard, Reviewers, Reviews
<1> QED
  BY <1>2, <1>3 DEF Asks

\* The pending reviews of an agent are no more than the verdicts it is to hear.
Paid(a, t, p) ==
  AllHaveReviewer(a, st[a], t) => PendingOf(st[a], t, p) <= Total(Nicks, Credits(a, t, p))

ReviewsPaid == \A a \in Nicks, t \in Tasks, p \in Prs : Paid(a, t, p)

LEMMA ReviewsPaidInit == Init => ReviewsPaid
<1> SUFFICES ASSUME Init, NEW a \in Nicks, NEW t \in Tasks, NEW p \in Prs
             PROVE  PendingOf(st[a], t, p) <= Total(Nicks, Credits(a, t, p))
  BY DEF ReviewsPaid, Paid
<1>1. st[a].reviews[t] = <<>>
  BY DEF Init, NewAgent, NewStores
<1>2. PendingOf(st[a], t, p) = 0
  BY <1>1, CountNone DEF PendingOf
<1>3. CreditTypes
  BY DispTypesInit, RequestsCoveredInit, CreditsAreNat
<1>4. Credits(a, t, p) \in [Nicks -> Nat] /\ IsFiniteSet(Nicks)
  BY <1>3, DispatchConstants DEF CreditTypes
<1>5. Total(Nicks, Credits(a, t, p)) \in Nat
  BY <1>4, TotalType
<1> QED
  BY <1>2, <1>5

LEMMA ReviewsPaidStep ==
  /\ DispTypes /\ DispTypes' /\ CreditTypes /\ CreditTypes' /\ ReviewsPaid /\ [Next]_vars
  => ReviewsPaid'
<1> SUFFICES ASSUME DispTypes, DispTypes', CreditTypes, CreditTypes', ReviewsPaid, [Next]_vars,
                    NEW a \in Nicks, NEW t \in Tasks, NEW p \in Prs,
                    AllHaveReviewer(a, st'[a], t)
             PROVE  PendingOf(st'[a], t, p) <= Total(Nicks, Credits(a, t, p)')
  BY DEF ReviewsPaid, Paid, AllHaveReviewer, PendingOf
<1> DEFINE f  == Credits(a, t, p)
           ff == Credits(a, t, p)'
           n  == PendingOf(st[a], t, p)
           nn == PendingOf(st'[a], t, p)
           Goal == nn <= Total(Nicks, ff)
           Kept == AllHaveReviewer(a, st[a], t)
           Higher == \A v \in Nicks : f[v] <= ff[v]
<1>1. /\ IsFiniteSet(Nicks) /\ f \in [Nicks -> Nat] /\ ff \in [Nicks -> Nat]
      /\ Total(Nicks, f) \in Nat /\ Total(Nicks, ff) \in Nat
  <2>1. IsFiniteSet(Nicks) /\ f \in [Nicks -> Nat] /\ ff \in [Nicks -> Nat]
    BY DispatchConstants DEF CreditTypes
  <2> HIDE DEF f, ff
  <2> QED
    BY <2>1, TotalType
<1>2. StoresOK(st[a]) /\ StoresOK(st'[a]) /\ Named(p)
  BY DEF DispTypes, Prs
<1>3. n \in Nat /\ nn \in Nat
  BY <1>2, PendingType
<1>4. Kept => n <= Total(Nicks, f)
  BY DEF ReviewsPaid, Paid
<1>5. ASSUME NEW v \in Nicks
      PROVE  /\ f[v] = Credit(a, v, t, p) /\ ff[v] = Credit(a, v, t, p)'
             /\ v \notin Heard(a) => f[v] = 0 /\ ff[v] = 0
  <2>1. f[v] = Credit(a, v, t, p) /\ ff[v] = Credit(a, v, t, p)'
    BY DEF Credits
  <2>2. v \notin Heard(a) => Credit(a, v, t, p) = 0 /\ Credit(a, v, t, p)' = 0
    BY DEF Credit
  <2> QED
    BY <2>1, <2>2
<1>6. ASSUME Higher, Kept, nn <= n PROVE Goal
  <2>1. Total(Nicks, f) <= Total(Nicks, ff)
    <3> HIDE DEF f, ff
    <3> QED
      BY <1>1, <1>6, TotalGrows
  <2> HIDE DEF f, ff, n, nn, Kept
  <2> QED
    BY <1>1, <1>3, <1>4, <1>6, <2>1
<1>7. ASSUME Higher, Kept, NEW v \in Nicks, f[v] < ff[v], nn <= n + 1 PROVE Goal
  <2>1. Total(Nicks, f) + 1 <= Total(Nicks, ff)
    <3> HIDE DEF f, ff
    <3> QED
      BY <1>1, <1>7, TotalGrows
  <2> HIDE DEF f, ff, n, nn, Kept
  <2> QED
    BY <1>1, <1>3, <1>4, <1>7, <2>1
<1>8. ASSUME NEW w \in Nicks, \A v \in Nicks \ {w} : f[v] <= ff[v], f[w] <= ff[w] + 1, Kept,
             nn = 0 \/ nn + 1 <= n
      PROVE  Goal
  <2>1. Total(Nicks, f) <= Total(Nicks, ff) + 1
    <3> HIDE DEF f, ff
    <3> QED
      BY <1>1, <1>8, TotalShrinks
  <2> HIDE DEF f, ff, n, nn, Kept
  <2> QED
    BY <1>1, <1>3, <1>4, <1>8, <2>1
<1>9. ASSUME \A v \in Heard(a) : Credit(a, v, t, p) <= Credit(a, v, t, p)' PROVE Higher
  <2> SUFFICES ASSUME NEW v \in Nicks PROVE f[v] <= ff[v]
    OBVIOUS
  <2>1. CASE v \in Heard(a)
    BY <1>5, <1>9, <2>1
  <2>2. CASE v \notin Heard(a)
    <3>1. f[v] = 0 /\ ff[v] = 0
      BY <1>5, <2>2
    <3> QED
      BY <3>1
  <2> QED
    BY <2>1, <2>2
<1>10. ASSUME st'[a].reviews = st[a].reviews PROVE Kept /\ nn <= n
  <2>1. Kept /\ nn = n
    BY <1>10 DEF AllHaveReviewer, PendingOf
  <2> HIDE DEF n, nn
  <2> QED
    BY <1>3, <2>1
<1>11. ASSUME NEW m \in Signed, st'[a] = Updated(st[a], m)
       PROVE  /\ Kept /\ nn <= n + 1 /\ (~AsksFor(m, t, p) => nn <= n)
              /\ Decides(m, t, p) => nn = 0 \/ nn + 1 <= n
              /\ AsksFor(m, t, p) => \E v \in Heard(a) : m \in Asks(v, t, p)
  <2>1. /\ Kept
        /\ m.action = "REVIEW-REQUEST" /\ m.task = t => HasReviewer(a, AskedIn(m))
    BY <1>2, <1>11, ReviewersBefore
  <2>2. /\ nn <= n + (IF AsksFor(m, t, p) THEN 1 ELSE 0)
        /\ Decides(m, t, p) => nn = 0 \/ nn + 1 <= n
    BY <1>2, <1>11, PendingAfter
  <2>3. AsksFor(m, t, p) => \E v \in Heard(a) : m \in Asks(v, t, p)
    BY <2>1, AskedHasReviewer DEF AsksFor
  <2>4. nn <= n + 1 /\ (~AsksFor(m, t, p) => nn <= n)
    <3> HIDE DEF n, nn
    <3> QED
      BY <1>3, <2>2
  <2> QED
    BY <2>1, <2>2, <2>3, <2>4
<1>12. Heard(a) \subseteq Nicks
  BY DEF Heard, Reviewers
<1>13. ASSUME NEW c \in Nicks, NEW x, AppStep(c, x) PROVE Goal
  <2>1. \A v \in Heard(a) : Credit(a, v, t, p) <= Credit(a, v, t, p)'
    <3> SUFFICES ASSUME NEW v \in Heard(a) PROVE Credit(a, v, t, p) <= Credit(a, v, t, p)'
      OBVIOUS
    <3>1. CASE v = a
      BY <1>13, <3>1, CreditOfSelf
    <3>2. CASE v # a
      BY <1>13, <3>2, CreditOfOther
    <3> QED
      BY <3>1, <3>2
  <2>2. Higher
    BY <1>9, <2>1
  <2>3. /\ x \in Signed /\ x.nick = c /\ st'[c] = Updated(st[c], x)
        /\ \A b \in Nicks \ {c} : st'[b] = st[b]
    BY <1>13, SendsMessage DEF AppStep, Applied, Thread
  <2>4. CASE a # c
    BY <1>6, <1>10, <2>2, <2>3, <2>4
  <2>5. CASE a = c /\ ~AsksFor(x, t, p)
    BY <1>6, <1>11, <2>2, <2>3, <2>5
  <2>6. CASE a = c /\ AsksFor(x, t, p)
    <3>1. PICK v \in Heard(a) : x \in Asks(v, t, p)
      BY <1>11, <2>3, <2>6
    <3>2. v \in Nicks /\ v # a
      BY <1>12, <2>3, <2>6, <3>1, AsksAndGives
    <3>3. f[v] < ff[v]
      BY <1>5, <1>13, <2>6, <3>1, <3>2, CreditOfOther
    <3> QED
      BY <1>7, <1>11, <2>2, <2>3, <2>6, <3>2, <3>3
  <2> QED
    BY <2>4, <2>5, <2>6
<1>14. ASSUME NEW c \in Nicks, NEW m, RoleStep(c, m) PROVE Goal
  <2> DEFINE x == From(c, m)
  <2>1. /\ x \in Signed /\ x.nick = c /\ st'[c] = Updated(st[c], x) /\ x \in Sends(c, "reader")
        /\ \A b \in Nicks \ {c} : st'[b] = st[b]
    BY <1>14, SendsMessage DEF RoleStep, Applied, Thread
  <2>2. ~AsksFor(x, t, p)
    BY <2>1, ByRoleMessage DEF Sends, AsksFor
  <2>3. \A v \in Heard(a) \ {a} : Credit(a, v, t, p) <= Credit(a, v, t, p)'
    BY <1>14, CreditOfOther
  <2>4. CASE a # c \/ m \notin Approval(t, p)
    <3>1. a \in Heard(a) => Credit(a, a, t, p) <= Credit(a, a, t, p)'
      BY <1>14, <2>4, CreditOfSelf
    <3>2. Higher
      BY <1>9, <2>3, <3>1
    <3>3. Kept /\ nn <= n
      BY <1>10, <1>11, <2>1, <2>2
    <3> QED
      BY <1>6, <3>2, <3>3
  <2>5. CASE a = c /\ m \in Approval(t, p)
    <3>1. Decides(x, t, p)
      BY <2>5, ApprovalGives, AsksAndGives
    <3>2. Kept /\ (nn = 0 \/ nn + 1 <= n)
      BY <1>11, <2>1, <2>5, <3>1
    <3>3. \A v \in Nicks \ {a} : f[v] <= ff[v]
      <4> SUFFICES ASSUME NEW v \in Nicks \ {a} PROVE f[v] <= ff[v]
        OBVIOUS
      <4>1. CASE v \in Heard(a)
        BY <1>5, <2>3, <4>1
      <4>2. CASE v \notin Heard(a)
        <5>1. f[v] = 0 /\ ff[v] = 0
          BY <1>5, <4>2
        <5> QED
          BY <5>1
      <4> QED
        BY <4>1, <4>2
    <3>4. f[a] <= ff[a] + 1
      <4>1. CASE a \in Heard(a)
        BY <1>5, <1>14, <4>1, CreditOfSelf
      <4>2. CASE a \notin Heard(a)
        <5>1. f[a] = 0 /\ ff[a] = 0
          BY <1>5, <4>2
        <5> QED
          BY <5>1
      <4> QED
        BY <4>1, <4>2
    <3> QED
      BY <1>8, <3>2, <3>3, <3>4
  <2> QED
    BY <2>4, <2>5
<1>15. ASSUME NEW c \in Nicks, NEW m, ReadStep(c, m) PROVE Goal
  <2>1. /\ m \in Signed /\ m.nick # c /\ st'[c] = IF Passes(c, m) THEN Updated(st[c], m) ELSE st[c]
        /\ \A b \in Nicks \ {c} : st'[b] = st[b]
    BY <1>15 DEF ReadStep, Read
  <2>2. a \in Heard(a) => Credit(a, a, t, p) <= Credit(a, a, t, p)'
    BY <1>15, CreditOfSelf
  <2>3. CASE c # a
    <3>1. \A v \in Heard(a) \ {a} : Credit(a, v, t, p) <= Credit(a, v, t, p)'
      BY <1>15, <2>3, CreditOfOther
    <3>2. Higher
      BY <1>9, <2>2, <3>1
    <3> QED
      BY <1>6, <1>10, <2>1, <2>3, <3>2
  <2>4. CASE c = a /\ ~Decides(m, t, p)
    <3>1. \A v \in Heard(a) \ {a} : Credit(a, v, t, p) <= Credit(a, v, t, p)'
      <4> SUFFICES ASSUME NEW v \in Heard(a) \ {a} PROVE Credit(a, v, t, p) <= Credit(a, v, t, p)'
        OBVIOUS
      <4>1. m \notin Gives(v, t, p)
        BY <2>4 DEF Gives
      <4> QED
        BY <1>15, <4>1, CreditOfOther
    <3>2. Higher
      BY <1>9, <2>2, <3>1
    <3>3. CASE ~Passes(a, m) \/ ~AsksFor(m, t, p)
      <4>1. Kept /\ nn <= n
        BY <1>10, <1>11, <2>1, <2>4, <3>3
      <4> QED
        BY <1>6, <3>2, <4>1
    <3>4. CASE Passes(a, m) /\ AsksFor(m, t, p)
      <4>1. st'[a] = Updated(st[a], m)
        BY <2>1, <2>4, <3>4
      <4>2. PICK v \in Heard(a) : m \in Asks(v, t, p)
        BY <1>11, <2>1, <3>4, <4>1
      <4>3. v \in Nicks
        BY <1>12
      <4>4. f[v] < ff[v]
        <5>1. CASE v = a
          BY <1>5, <1>15, <2>4, <4>2, <5>1, CreditOfSelf
        <5>2. CASE v # a
          BY <1>5, <1>15, <2>4, <4>2, <4>3, <5>2, CreditOfOther
        <5> QED
          BY <5>1, <5>2
      <4>5. Kept /\ nn <= n + 1
        BY <1>11, <2>1, <4>1
      <4> QED
        BY <1>7, <3>2, <4>3, <4>4, <4>5
    <3> QED
      BY <3>3, <3>4
  <2>5. CASE c = a /\ Decides(m, t, p)
    <3> DEFINE w == m.nick
    <3>1. w \in Nicks /\ w # a
      BY <2>1, <2>5, SignedMessage
    <3> HIDE DEF w
    <3>2. \A v \in Heard(a) \ {a} : v # w => Credit(a, v, t, p) <= Credit(a, v, t, p)'
      <4> SUFFICES ASSUME NEW v \in Heard(a) \ {a}, v # w PROVE Credit(a, v, t, p) <= Credit(a, v, t, p)'
        OBVIOUS
      <4>1. m \notin Gives(v, t, p)
        BY DEF Gives, w
      <4> QED
        BY <1>15, <4>1, CreditOfOther
    <3>3. ~AsksFor(m, t, p)
      BY <2>5 DEF AsksFor, Decides
    <3>4. CASE w \notin Heard(a)
      <4>1. Higher
        BY <1>9, <2>2, <3>2, <3>4
      <4>2. Kept /\ nn <= n
        BY <1>10, <1>11, <2>1, <2>5, <3>3
      <4> QED
        BY <1>6, <4>1, <4>2
    <3>5. CASE w \in Heard(a)
      <4>1. Passes(a, m)
        BY <2>5, <3>5 DEF Passes, Heard, Decides, w
      <4>2. Kept /\ (nn = 0 \/ nn + 1 <= n)
        BY <1>11, <2>1, <2>5, <4>1
      <4>3. f[w] <= ff[w] + 1
        BY <1>5, <1>15, <3>1, <3>5, CreditOfOther
      <4>4. \A v \in Nicks \ {w} : f[v] <= ff[v]
        <5> SUFFICES ASSUME NEW v \in Nicks \ {w} PROVE f[v] <= ff[v]
          OBVIOUS
        <5>1. CASE v \in Heard(a)
          BY <1>5, <2>2, <3>2, <5>1
        <5>2. CASE v \notin Heard(a)
          <6>1. f[v] = 0 /\ ff[v] = 0
            BY <1>5, <5>2
          <6> QED
            BY <6>1
        <5> QED
          BY <5>1, <5>2
      <4> QED
        BY <1>8, <3>1, <4>2, <4>3, <4>4
    <3> QED
      BY <3>4, <3>5
  <2> QED
    BY <2>3, <2>4, <2>5
<1>16. ASSUME \/ \E c \in Nicks, h \in Thread : \E x : SendStep(c, h, x)
              \/ \E c \in Nicks : \E x : NoticeStep(c, x)
              \/ \E c \in Nicks, u \in Tasks : CloseStep(c, u)
              \/ \E c \in Nicks : DenyStep(c)
              \/ IdleStep
       PROVE  Goal
  <2>1. st'[a].reviews = st[a].reviews
    BY <1>16 DEF SendStep, Sent, NoticeStep, Noticed, CloseStep, Resolved, DenyStep, IdleStep
  <2>2. a \in Heard(a) => Credit(a, a, t, p) <= Credit(a, a, t, p)'
    BY <1>16, CreditOfSelf
  <2>3. \A v \in Heard(a) \ {a} : Credit(a, v, t, p) <= Credit(a, v, t, p)'
    BY <1>16, CreditOfOther
  <2>4. Higher
    BY <1>9, <2>2, <2>3
  <2> QED
    BY <1>6, <1>10, <2>1, <2>4
<1> HIDE DEF Goal
<1>17. Goal
  BY <1>13, <1>14, <1>15, <1>16, StepsWithReplies
<1> QED
  BY <1>17 DEF Goal

LEMMA QuietOwesNothing ==
  ASSUME DispTypes, Quiet, NEW a \in Nicks, NEW v \in Nicks, NEW t, NEW p
  PROVE  Credit(a, v, t, p) = 0
<1>1. \A b \in Nicks : /\ replies[b] = <<>> /\ inbox[b] = <<>>
                       /\ out[b]["app"] = None /\ out[b]["reader"] = None
  BY DEF Quiet
<1>2. \A b \in Nicks : Ready(b, t, p) = 0
  BY <1>1, CountNone DEF Ready
<1>3. \A b \in Nicks : \A X : CountAfter(inbox[b], X, 0) = 0
  BY <1>1, CountNone
<1>4. One(None, Gives(v, t, p)) = 0 /\ One(None, Asks(v, t, p)) = 0
  BY AsksAndGives, OneIs
<1>5. Owed(v, t, p) = 0
  BY <1>1, <1>2, <1>3, <1>4 DEF Owed
<1> QED
  BY <1>1, <1>2, <1>3, <1>4, <1>5 DEF Credit

LEMMA SettledFollows == DispTypes /\ ReviewsPaid => ReviewsAreSettled
<1> SUFFICES ASSUME DispTypes, ReviewsPaid, Quiet, NEW a \in Nicks, NEW t \in Tasks,
                    \A r \in ToSet(st[a].reviews[t]) : HasReviewer(a, r),
                    NEW r \in ToSet(st[a].reviews[t]), ~Verdict(r)
             PROVE  FALSE
  BY DEF ReviewsAreSettled, Verdict
<1> DEFINE rs == st[a].reviews[t]
           p  == r.pr
<1>1. rs \in Seq(Review)
  BY DEF DispTypes, StoresOK
<1>2. AllHaveReviewer(a, st[a], t)
  <2>1. \A i \in 1..Len(rs) : rs[i] \in ToSet(rs)
    BY <1>1 DEF ToSet
  <2> QED
    BY <2>1 DEF AllHaveReviewer
<1>3. PICK i \in 1..Len(rs) : rs[i] = r
  BY <1>1 DEF ToSet
<1>4. r \in Review
  BY <1>1, <1>3
<1>5. p \in Word
  BY <1>4 DEF Review
<1>6. p \in Prs
  BY <1>5 DEF Prs, Named, HasReviewer
<1>7. r \in Open(p)
  BY <1>4 DEF Open, Verdict
<1> HIDE DEF p
<1>8. PendingOf(st[a], t, p) <= Total(Nicks, Credits(a, t, p))
  BY <1>2, <1>6 DEF ReviewsPaid, Paid
<1>9. Total(Nicks, Credits(a, t, p)) = 0
  <2>1. \A v \in Nicks : Credits(a, t, p)[v] = 0
    BY QuietOwesNothing DEF Credits
  <2> QED
    BY <2>1, TotalOfNone
<1>10. CountAfter(rs, Open(p), 0) >= 1
  <2> HIDE DEF rs
  <2> QED
    BY <1>1, <1>3, <1>7, CountSome
<1>11. CountAfter(rs, Open(p), 0) \in Nat
  BY <1>1, CountType
<1>12. CountAfter(rs, Open(p), 0) <= 0
  BY <1>8, <1>9 DEF PendingOf
<1>13. ASSUME NEW c \in Nat, c >= 1, c <= 0 PROVE FALSE
  BY <1>13
<1> HIDE DEF rs
<1> QED
  BY <1>10, <1>11, <1>12, <1>13

\* When the channel is quiet, no agent sees a review pending that has a reviewer, for
\* any number of agents, reviewers and requests: RecordComplete gives every verdict to
\* some pending review of its pull request, and at all times the pending ones are no
\* more than the verdicts that are on their way.
THEOREM ReviewsEndSettled == Spec => []ReviewsAreSettled
<1>1. Init => DispTypes /\ RequestsCovered /\ ReviewsPaid
  BY DispTypesInit, RequestsCoveredInit, ReviewsPaidInit
<1>2. DispTypes /\ RequestsCovered => CreditTypes
  BY CreditsAreNat
<1>3. DispTypes /\ RequestsCovered /\ [Next]_vars => DispTypes' /\ RequestsCovered'
  BY DispTypesStep, RequestsCoveredStep
<1> QED
  BY <1>1, <1>2, <1>3, ReviewsPaidStep, SettledFollows, PTL DEF Spec
=============================================================================
