\* One configured channel, one broken connection and one kick.
CONSTANTS
  Channels = {c1}
  Configured = {c1}
  Reconnects = TRUE
  MaxReconnectAttempts = 2
  MaxCalls = 1
  MaxKicks = 1
  MaxRefusals = 1
  MaxDrops = 1
  MaxFailures = 0
SPECIFICATION Spec
INVARIANT JoinedIsCurrent
CHECK_DEADLOCK FALSE
