\* Every message with two values of up to three and two symbols; three goroutines
\* that go on sending behind a bucket of two; a client with one configured channel
\* and one its application may join, which may part either.
CONSTANTS
  MaxFirst = 3
  MaxSecond = 2
  Users = {u1, u2, u3}
  Burst = 2
  Cost = 3
  Channels = {c1, c2}
  Configured = {c1}
  Reconnects = TRUE
  MaxReconnectAttempts = 2
  MaxCalls = 2
  MaxKicks = 1
  MaxRefusals = 1
  MaxDrops = 2
  MaxFailures = 2
SPECIFICATION TransportSpec
INVARIANTS RoundTripIsExact ChannelsKnown AttemptsAreLimited
PROPERTIES ImplementsTokenBucket ComesBack
CHECK_DEADLOCK FALSE
