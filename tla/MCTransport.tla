----------------------------- MODULE MCTransport -----------------------------
(***************************************************************************)
(* What happens to a message on its way: it is written and parsed, the     *)
(* rate limiter holds it back, and the client keeps its connection and its *)
(* channels.  The three share no state, so a behaviour exercises one of    *)
(* them.                                                                   *)
(***************************************************************************)
EXTENDS Wire, RateLimiter, IrcClient

VARIABLE component

allVars == <<component, wireVars, rateVars, vars>>

TransportInit ==
  /\ component \in {"wire", "rate limiter", "client"}
  /\ WireInit
  /\ component # "wire" => sent = [payload |-> <<>>, sharing |-> TRUE, fields |-> <<>>, tags |-> <<>>]
  /\ RateInit
  /\ Init
  /\ component # "client" => autoRejoin

RateStep(A) == component = "rate limiter" /\ A /\ UNCHANGED <<component, wireVars, vars>>

TransportNext ==
  \/ component = "wire" /\ WireNext /\ UNCHANGED <<component, rateVars, vars>>
  \/ RateStep(RateNext)
  \/ component = "client" /\ Next /\ UNCHANGED <<component, wireVars, rateVars>>

\* The fairness of the components: time passes only for the rate limiter.
TransportFairness ==
  /\ WF_allVars(RateStep(Pass))
  /\ \A u \in Users : WF_rateVars(Look(u))
  /\ Fairness

TransportSpec == TransportInit /\ [][TransportNext]_allVars /\ TransportFairness
=============================================================================
