\* Two agents, one of which shares both components and has a payload to share when
\* the other asks for one of them.
CONSTANTS
  Sharers = {s1, s2}
  Components = {c1, c2}
  NoSharer = NoSharer
  MaxShares = 4
SPECIFICATION CtxSpec
PROPERTY PayloadsFollowRequests
CHECK_DEADLOCK FALSE
