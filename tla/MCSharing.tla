------------------------------ MODULE MCSharing ------------------------------
(***************************************************************************)
(* How agents and observers come to know of each other: context sharing,   *)
(* discovery and the manager's events.  They share no state, so a          *)
(* behaviour exercises one of them.                                        *)
(***************************************************************************)
EXTENDS ContextSharing, Discovery, EventHub

CONSTANTS a1, a2, go, sql

VARIABLE component

vars == <<component, ctxVars, discVars, hubVars>>

MCExpertise == (a1 :> {go}) @@ (a2 :> {go, sql})

Init ==
  /\ component \in {"context sharing", "discovery", "event hub"}
  /\ CtxInit
  /\ DiscInit
  /\ HubInit

Next ==
  \/ component = "context sharing" /\ CtxNext /\ UNCHANGED <<component, discVars, hubVars>>
  \/ component = "discovery" /\ DiscNext /\ UNCHANGED <<component, ctxVars, hubVars>>
  \/ component = "event hub" /\ HubNext /\ UNCHANGED <<component, ctxVars, discVars>>

Spec == Init /\ [][Next]_vars
=============================================================================
