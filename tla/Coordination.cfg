\* Two agents, each with an application and one with a handler that speaks, and
\* three tasks, one of them shared, with losses.
CONSTANTS
  n1 = n1  n2 = n2  t1 = t1  t2 = t2  app = app
  Tasks = {t1, t2, t3}
  Nicks = {n1, n2}
  NoTask = NoTask
  NoNick = NoNick
  Apps = {app}
  Announcers <- SomeShared
  Kinds <- SomeKinds
  MaxSends = 4
  MaxLosses = 1
SPECIFICATION Spec
INVARIANTS StatusesAgree OneAckPerTask AckIsCurrent
PROPERTY FoundIsAcknowledged
