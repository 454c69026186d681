SPECIFICATION MCSpec
CONSTANTS
  a = a
  b = b
  Sources = {a, b}
  Callers = {r1, r2}
  MaxGens = 2
  Key <- Five
  Batched = {"arxiv"}
  Editions = {1, 2}
  Permits = 1
  MaxAttempts = 3
  MaxWait = 3
  RetryAfter = {0, 2}
  MaxLosses = 1
  Users = {1, 2}
  Tokens = {"t1", "t2"}
  MaxDays = 1
  Retention = 1
  MaxClock = 3
  MaxMoves = 1
CHECK_DEADLOCK FALSE
SYMMETRY Alike
INVARIANTS FilesPresent FailedHasStopped
PROPERTIES ConfirmedWasPreviewed LookupsHold ActsWithAuthority
