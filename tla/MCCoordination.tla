--------------------------- MODULE MCCoordination ----------------------------
(* Who announces what, in the model-checking instances of Coordination.     *)
EXTENDS Coordination

CONSTANTS n1, n2, t1, t2, app

\* The applications have a task each; they and the handlers of one agent speak
\* about the third.
SomeShared == [t \in Tasks |-> CASE t = t1 -> {<<n1, app>>} [] t = t2 -> {<<n2, app>>}
                                 [] OTHER -> Senders \ {<<n2, "reader">>}]

\* A role answers STARTED, CHECKPOINT or OFFER (role.go).
SomeKinds == [w \in Threads |-> IF w = "reader" THEN {"STARTED"}
                               ELSE {"COMPLETED", "BLOCKED", "CLAIM"}]
=============================================================================
