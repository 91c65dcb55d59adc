----------------------------- MODULE ClaimBoard ------------------------------
(***************************************************************************)
(* What a task board promises (the comments of internal/agent/             *)
(* taskboard.go): a task that is offered or assigned has at most one       *)
(* owner.  Claims compete in a window; of the claims heard since the       *)
(* window opened only the best, the earliest of those with the lowest      *)
(* load, matters, and closing the window makes it the owner.  TaskBoard    *)
(* keeps lists and timers and implements this.                             *)
(***************************************************************************)
EXTENDS Integers

CONSTANTS Tasks, Nicks, Loads, NoNick, NoClaim

Claim == [nick : Nicks, load : Loads]

VARIABLES listed,  \* the tasks with an entry on the board
          owner,   \* the owner of each task on the board, NoNick if none
          best     \* the best claim of the open window, NoClaim if closed

vars == <<listed, owner, best>>

Init ==
  /\ listed = {}
  /\ owner = [t \in Tasks |-> NoNick]
  /\ best = [t \in Tasks |-> NoClaim]

\* An offer lists the task, without an owner; the window stays as it is.
Offer(t) ==
  /\ listed' = listed \cup {t}
  /\ owner' = [owner EXCEPT ![t] = NoNick]
  /\ UNCHANGED best

\* A claim opens the window or competes in it.
Compete(t, c) ==
  /\ best' = [best EXCEPT ![t] =
       IF best[t] = NoClaim \/ c.load < best[t].load THEN c ELSE best[t]]
  /\ UNCHANGED <<listed, owner>>

\* The window closes: the best claim takes the task, if the task is listed.
Decide(t) ==
  /\ best[t] # NoClaim
  /\ owner' = IF t \in listed THEN [owner EXCEPT ![t] = best[t].nick] ELSE owner
  /\ best' = [best EXCEPT ![t] = NoClaim]
  /\ UNCHANGED listed

\* Without a window a claim takes the task at once.
Take(t, c) ==
  /\ best[t] = NoClaim
  /\ owner' = IF t \in listed THEN [owner EXCEPT ![t] = c.nick] ELSE owner
  /\ UNCHANGED <<listed, best>>

\* An assignment lists the task and gives it to whom it names, if anybody.
Assign(t, n) ==
  /\ listed' = listed \cup {t}
  /\ owner' = [owner EXCEPT ![t] = n]
  /\ UNCHANGED best

\* A decline or a yield leaves a listed task without an owner.
Release(t) ==
  /\ t \in listed
  /\ owner' = [owner EXCEPT ![t] = NoNick]
  /\ UNCHANGED <<listed, best>>

Next ==
  \E t \in Tasks :
    \/ Offer(t)
    \/ Decide(t)
    \/ Release(t)
    \/ \E n \in Nicks \cup {NoNick} : Assign(t, n)
    \/ \E c \in Claim : Compete(t, c) \/ Take(t, c)

Spec == Init /\ [][Next]_vars
=============================================================================
