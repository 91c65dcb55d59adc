------------------------------ MODULE TaskBoard ------------------------------
(***************************************************************************)
(* One TaskBoard (internal/agent/taskboard.go).  Every method and the      *)
(* timer's callback take tb.mu, so each is one step.  Offers keep what     *)
(* decides ownership; channel, priority, scope and times are shown only.   *)
(* A message without a task name is recorded under the empty name, which   *)
(* is one more member of Tasks.                                            *)
(***************************************************************************)
EXTENDS TaskState, Integers, SequencesExt

CONSTANTS NoClaim,   \* no claim: the refinement's closed window
          Loads,     \* the loads agents report (strconv.Atoi: any integer)
          MaxPending \* the most claims in one window

ASSUME TaskBoardConstants ==
  /\ NoClaim \notin [nick : Nicks, load : Loads]
  /\ Loads \subseteq Int
  /\ MaxPending \in Nat

ClaimEntry == [nick : Nicks, load : Loads]

\* tb.offers: listed with ClaimedBy, or no entry and so nobody's.
OfferInfo == {o \in [listed : BOOLEAN, claimedBy : Nicks \cup {NoNick}] :
                o.listed \/ o.claimedBy = NoNick}

VARIABLES instant,        \* claimJitter == 0, as configured
          offers,         \* tb.offers
          pendingClaims,  \* tb.pendingClaims; <<>> when the task has no entry
          timers          \* the tasks with an entry in tb.timers

vars == <<instant, offers, pendingClaims, timers>>

TypeOK ==
  /\ instant \in BOOLEAN
  /\ offers \in [Tasks -> OfferInfo]
  /\ pendingClaims \in [Tasks -> Seq(ClaimEntry)]
  /\ timers \subseteq Tasks

Init ==
  /\ instant \in BOOLEAN
  /\ offers = [t \in Tasks |-> [listed |-> FALSE, claimedBy |-> NoNick]]
  /\ pendingClaims = [t \in Tasks |-> <<>>]
  /\ timers = {}

\* The i-th claim has the lowest load, and is the first one that has it.
IsFirstLeast(claims, i) ==
  \A j \in 1..Len(claims) : /\ claims[i].load <= claims[j].load
                            /\ j < i => claims[i].load < claims[j].load

\* Mutant of Winner: of equally loaded agents the last one wins.
WinnerOfTiesIsLast(claims) ==
  claims[CHOOSE i \in 1..Len(claims) :
           \A j \in 1..Len(claims) : /\ claims[i].load <= claims[j].load
                                     /\ j > i => claims[i].load < claims[j].load]

\* The claim that resolveArbitration's loop ends with.
Winner(claims) == claims[CHOOSE i \in 1..Len(claims) : IsFirstLeast(claims, i)]

\* The loop itself: winner := claims[0]; each later claim with a lower load wins.
ArbitrationLoop(claims) ==
  FoldLeft(LAMBDA winner, c : IF c.load < winner.load THEN c ELSE winner,
           Head(claims), Tail(claims))

\* Mutant of GiveTo: the entry is not looked up first.
GiveAnyway(t, n) == offers' = [offers EXCEPT ![t].claimedBy = n]

\* offer.ClaimedBy = n, on a task that has an entry.
GiveTo(t, n) ==
  offers' = IF offers[t].listed THEN [offers EXCEPT ![t].claimedBy = n] ELSE offers

-----------------------------------------------------------------------------
\* A new entry replaces the old one and its owner; claims that are pending stay.
RecordOffer(t) ==
  /\ offers' = [offers EXCEPT ![t] = [listed |-> TRUE, claimedBy |-> NoNick]]
  /\ UNCHANGED <<instant, pendingClaims, timers>>

\* claimJitter == 0: the claim is appended, the first pending one wins, and the
\* pending claims are deleted.
ClaimInstantly(t, c) ==
  /\ instant
  /\ GiveTo(t, Append(pendingClaims[t], c)[1].nick)
  /\ pendingClaims' = [pendingClaims EXCEPT ![t] = <<>>]
  /\ UNCHANGED <<instant, timers>>

\* Otherwise the claim waits, and the first one starts the timer.
ClaimDeferred(t, c) ==
  /\ ~instant
  /\ Len(pendingClaims[t]) < MaxPending
  /\ pendingClaims' = [pendingClaims EXCEPT ![t] = Append(@, c)]
  /\ timers' = timers \cup {t}
  /\ UNCHANGED <<instant, offers>>

RecordClaim(t, c) == ClaimInstantly(t, c) \/ ClaimDeferred(t, c)

\* Mutants of ResolveArbitration: the timer's entry is not deleted; a task
\* that is not offered keeps its claims.
ResolveKeepsTimer(t) ==
  /\ t \in timers
  /\ pendingClaims[t] # <<>>
  /\ GiveTo(t, Winner(pendingClaims[t]).nick)
  /\ pendingClaims' = [pendingClaims EXCEPT ![t] = <<>>]
  /\ UNCHANGED <<instant, timers>>

ResolveOffered(t) ==
  /\ t \in timers
  /\ offers[t].listed
  /\ GiveTo(t, Winner(pendingClaims[t]).nick)
  /\ pendingClaims' = [pendingClaims EXCEPT ![t] = <<>>]
  /\ timers' = timers \ {t}
  /\ UNCHANGED instant

\* The timer fires: resolveArbitration.  Its early return, for no claims,
\* leaves the timer's entry behind.
ResolveArbitration(t) ==
  /\ t \in timers
  /\ IF pendingClaims[t] = <<>>
     THEN UNCHANGED vars
     ELSE /\ GiveTo(t, Winner(pendingClaims[t]).nick)
          /\ pendingClaims' = [pendingClaims EXCEPT ![t] = <<>>]
          /\ timers' = timers \ {t}
          /\ UNCHANGED instant

\* Nothing checks that an ASSIGN says to whom.
RecordAssign(t, n) ==
  /\ offers' = [offers EXCEPT ![t] = [listed |-> TRUE, claimedBy |-> n]]
  /\ UNCHANGED <<instant, pendingClaims, timers>>

RecordDecline(t) == GiveTo(t, NoNick) /\ UNCHANGED <<instant, pendingClaims, timers>>

RecordYield(t) == GiveTo(t, NoNick) /\ UNCHANGED <<instant, pendingClaims, timers>>

Next ==
  \E t \in Tasks :
    \/ RecordOffer(t)
    \/ \E c \in ClaimEntry : RecordClaim(t, c)
    \/ ResolveArbitration(t)
    \/ \E n \in Nicks \cup {NoNick} : RecordAssign(t, n)
    \/ RecordDecline(t)
    \/ RecordYield(t)

\* time.AfterFunc runs the callback of every timer that was started.
Spec == Init /\ [][Next]_vars /\ \A t \in Tasks : WF_vars(ResolveArbitration(t))

-----------------------------------------------------------------------------
\* A timer runs exactly for the tasks that have pending claims.  Otherwise a
\* claim would wait forever, or the callback would return early, leave its
\* entry in tb.timers and no later claim would start a timer again.
TimerIffPending == \A t \in Tasks : t \in timers <=> pendingClaims[t] # <<>>

\* The loop of resolveArbitration ends with the earliest of the least loaded
\* claims, for every window of claims that can build up.
LoopFindsWinner ==
  \A t \in Tasks : pendingClaims[t] # <<>> =>
    ArbitrationLoop(pendingClaims[t]) = Winner(pendingClaims[t])

\* Every claim is decided, offered task or not: a window that is open closes.
ClaimsAreDecided ==
  \A t \in Tasks : pendingClaims[t] # <<>> ~> pendingClaims[t] = <<>>

\* The abstract state of the board: the tasks on it, who owns them, and the
\* best claim of every open window.
listedBar == {t \in Tasks : offers[t].listed}

ownerBar == [t \in Tasks |-> offers[t].claimedBy]

bestBar == [t \in Tasks |-> IF pendingClaims[t] = <<>> THEN NoClaim
                            ELSE Winner(pendingClaims[t])]

Abstract == INSTANCE ClaimBoard
              WITH listed <- listedBar, owner <- ownerBar, best <- bestBar

\* The board with its lists and timers implements ClaimBoard: keeping every
\* claim and scanning the list when the timer fires decides as if only the best
\* claim had been kept.
ImplementsClaimBoard == Abstract!Spec

\* The behaviours of Spec in which tasks are only offered and claimed, so that
\* whoever owns a task has claimed it after its offer.
OfferOrClaim(t) == RecordOffer(t) \/ \E c \in ClaimEntry : RecordClaim(t, c)

OffersAndClaims ==
  /\ Init /\ [][\E t \in Tasks : OfferOrClaim(t) \/ ResolveArbitration(t)]_vars
  /\ \A t \in Tasks : WF_vars(ResolveArbitration(t))

\* taskboard.go, on a board with claimJitter == 0: "first-claim-wins (instant
\* arbitration)".  Of two claims on an offered task the first one keeps it: a
\* claim on a task that somebody owns leaves it to its owner.
FirstClaimWins ==
  [][\A t \in Tasks : \A c \in ClaimEntry :
       instant /\ offers[t].claimedBy # NoNick /\ RecordClaim(t, c)
         => offers'[t].claimedBy = offers[t].claimedBy]_vars
=============================================================================
