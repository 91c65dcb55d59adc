\* Two tasks that are offered and claimed, boards with a claim window and without.
CONSTANTS
  Tasks = {t1, t2}
  Nicks = {n1, n2}
  NoTask = NoTask
  NoNick = NoNick
  NoClaim = NoClaim
  Loads = {0, 1}
  MaxPending = 3
SPECIFICATION OffersAndClaims
PROPERTY FirstClaimWins
