----------------------------- MODULE TokenBucket -----------------------------
(***************************************************************************)
(* What the rate limiter promises: a bucket that gains one unit of credit  *)
(* in every unit of time, up to Burst messages' worth, a message costing   *)
(* Cost units.  So no stretch of n units sees more than Burst + n / Cost   *)
(* messages, and while somebody waits messages are sent again and again,   *)
(* by whom is open: one who waits may see only others send.                *)
(***************************************************************************)
EXTENDS Naturals

CONSTANTS Users,  \* goroutines that send
          Burst, Cost

VARIABLES credit, waiting

bucketVars == <<credit, waiting>>

BucketInit == credit = Burst * Cost /\ waiting = {}

Ask(u) ==
  /\ u \notin waiting
  /\ waiting' = waiting \cup {u}
  /\ UNCHANGED credit

\* A message is sent, by somebody who waits or by somebody who just tries.
Take(u) ==
  /\ credit >= Cost
  /\ credit' = credit - Cost
  /\ waiting' = waiting \ {u}

Gain ==
  /\ credit < Burst * Cost
  /\ credit' = credit + 1
  /\ UNCHANGED waiting

BucketNext == (\E u \in Users : Ask(u) \/ Take(u)) \/ Gain

BucketSpec ==
  /\ BucketInit /\ [][BucketNext]_bucketVars
  /\ []<>(waiting = {}) \/ []<><<\E u \in Users : Take(u)>>_bucketVars
=============================================================================
