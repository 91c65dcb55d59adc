----------------------------- MODULE RateLimiter -----------------------------
(***************************************************************************)
(* The token bucket in front of a client's SendMessage, SendNotice and     *)
(* SendRaw (pkg/ircclient/ratelimiter.go, waitRateLimit of connection.go). *)
(* The bucket is only refilled when somebody looks, by the time since the  *)
(* last look; a goroutine that finds no token sleeps for as long as the    *)
(* deficit takes and looks again, and another may have been faster.        *)
(*                                                                         *)
(* Tokens are counted in units of 1/Cost of a token, and one unit of time  *)
(* refills one of them (refillRate = 1/Cost), so that tokens, a float64,   *)
(* stay integers.                                                          *)
(***************************************************************************)
EXTENDS Naturals, FiniteSetsExt

CONSTANTS Users,     \* goroutines that send
          Burst,     \* cfg.RateLimitBurst
          Cost       \* 1 / cfg.RateLimit, in units of time

\* RateLimitBurst is not validated; with 0 no message is ever sent.
ASSUME RateLimiterConstants ==
  Burst \in Nat \ {0} /\ Cost \in Nat \ {0}

VARIABLES tokens,   \* r.tokens
          elapsed,  \* the time since r.lastRefill, as far as it makes a difference
          sleep     \* per goroutine in Wait, how long it still sleeps

rateVars == <<tokens, elapsed, sleep>>

\* NewRateLimiter: a full bucket.
RateInit ==
  /\ tokens = Burst * Cost
  /\ elapsed = 0
  /\ sleep = <<>>

-----------------------------------------------------------------------------
\* refill, under r.mu.
refill == Min({tokens + elapsed, Burst * Cost})

Without(u) == [v \in DOMAIN sleep \ {u} |-> sleep[v]]

\* SendMessage and the others call waitRateLimit, which calls Wait.
CallWait(u) ==
  /\ u \notin DOMAIN sleep
  /\ sleep' = [v \in DOMAIN sleep \cup {u} |-> IF v = u THEN 0 ELSE sleep[v]]
  /\ UNCHANGED <<tokens, elapsed>>

\* Mutant of Look: lastRefill only moves when a token is taken.
LookForgetful(u) ==
  /\ u \in DOMAIN sleep /\ sleep[u] = 0
  /\ IF refill >= Cost
     THEN tokens' = refill - Cost /\ sleep' = Without(u) /\ elapsed' = 0
     ELSE tokens' = refill /\ sleep' = [sleep EXCEPT ![u] = Cost - refill] /\ UNCHANGED elapsed

\* One turn of Wait's loop: refill, and take a token or sleep for the deficit.
Look(u) ==
  /\ u \in DOMAIN sleep /\ sleep[u] = 0
  /\ IF refill >= Cost
     THEN tokens' = refill - Cost /\ sleep' = Without(u)
     ELSE tokens' = refill /\ sleep' = [sleep EXCEPT ![u] = Cost - refill]
  /\ elapsed' = 0

\* Allow: one look without waiting.
Allow(u) ==
  /\ u \notin DOMAIN sleep
  /\ tokens' = IF refill >= Cost THEN refill - Cost ELSE refill
  /\ elapsed' = 0
  /\ UNCHANGED sleep

\* Time passes, also while a goroutine that could run does not; time.After may
\* fire late.
Pass ==
  /\ elapsed' = IF elapsed < Burst * Cost THEN elapsed + 1 ELSE elapsed
  /\ sleep' = [u \in DOMAIN sleep |-> IF sleep[u] > 0 THEN sleep[u] - 1 ELSE 0]
  /\ UNCHANGED tokens

RateNext == (\E u \in Users : CallWait(u) \/ Look(u) \/ Allow(u)) \/ Pass

\* Clocks run, and a goroutine whose sleep is over gets to look.
RateFairness == WF_rateVars(Pass) /\ \A u \in Users : WF_rateVars(Look(u))

RateSpec == RateInit /\ [][RateNext]_rateVars /\ RateFairness

-----------------------------------------------------------------------------
\* The limiter that refills when it is looked at implements the bucket that gains
\* credit all the time: no rounding to the last look, no sleep and no race between
\* goroutines grants a message the bucket would not, and while goroutines wait the
\* sleeps of the losers end in time for messages to go on.  A goroutine can lose
\* every race for a token, since sleeping reserves none.
Bucket == INSTANCE TokenBucket WITH credit <- refill, waiting <- DOMAIN sleep

ImplementsTokenBucket == Bucket!BucketSpec
=============================================================================
