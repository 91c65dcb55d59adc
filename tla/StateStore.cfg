\* Three tasks, one agent, every kind of message; a BLOCKED names up to two tasks, one
\* as waiting-for and one as a tag.
CONSTANTS
  Tasks = {t1, t2, t3}
  Nicks = {n1}
  NoTask = NoTask
  NoNick = NoNick
  Kinds = {"STARTED", "COMPLETED", "BLOCKED", "ACKNOWLEDGED", "OFFER", "CLAIM",
           "ASSIGN", "ACCEPT", "DECLINE", "YIELD", "CHECKPOINT", "HANDOFF"}
  MaxBlockers = 1
SPECIFICATION Spec
SYMMETRY NameSymmetry
INVARIANTS NoOpenCycle SomeBlockerCanRun
PROPERTIES UnblockedIsStable CompletionUnblocks
