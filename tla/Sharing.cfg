\* Three agents share context of two components in three messages; two agents
\* announce themselves, in time without bound; two observers with one event's
\* buffer follow two calls of the manager.
CONSTANTS
  Sharers = {s1, s2, s3}
  Components = {c1, c2}
  NoSharer = NoSharer
  MaxShares = 3
  a1 = a1
  a2 = a2
  go = go
  sql = sql
  Peers = {a1, a2}
  Tags = {go, sql}
  Expertise <- MCExpertise
  Ttl = 4
  Second = 1
  Delay = 1
  Actors = {"irc", "http"}
  Subscribers = {w1, w2}
  BufferSize = 1
  Actions = {"STARTED", "OFFER", "CLAIM", "CONTEXT", "CAPABILITIES", "COST-REPORT", "VOTE"}
  MaxJobs = 2
SPECIFICATION Spec
INVARIANTS NoForeignPayload PendingMeansUnanswered JoinedAreFound GoneAreForgotten
INVARIANTS NoSendOnClosed EventsFollowChanges
CHECK_DEADLOCK FALSE
