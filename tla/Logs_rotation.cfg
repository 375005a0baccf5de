\* Processes append to one log and rotate it, and a follower reads it.
CONSTANTS
  w1 = w1
  w2 = w2
  w3 = w3
  Procs = {w1, w2, w3}
  Nobody = Nobody
  DefaultMax = 2
  DefaultKeep = 3
  FlushEvery = 2
  Top = 3
  Casts <- MCCasts
SPECIFICATION Spec
INVARIANTS HistoryKept GenerationsBounded FollowedOnce CountsKept
CHECK_DEADLOCK FALSE
