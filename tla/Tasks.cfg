\* Every acyclic graph of unresolved edges over four tasks, with a resolved edge or
\* none; boards with a claim window and without, and two of the tasks on them.
CONSTANTS
  Tasks = {t1, t2, t3, t4}
  OnBoard = {t1, t2}
  Nicks = {n1, n2}
  NoTask = NoTask
  NoNick = NoNick
  NoClaim = NoClaim
  Loads = {0, 1}
  MaxPending = 3
  MaxResolved = 1
  MaxNamed = 3
SPECIFICATION TasksSpec
INVARIANTS TimerIffPending LoopFindsWinner
INVARIANTS CycleCheckIsExact TransitiveIsExact NamingOrderIrrelevant
PROPERTIES ClaimsAreDecided ImplementsClaimBoard SearchEnds
CHECK_DEADLOCK FALSE
