\* Two requests of one runtime line, the retention sweep on, two faults at any point.
CONSTANTS
  Ids = {1, 2}
  Verb <- MixedVerb
  Target <- MixedTarget
  Pool = {t1, t2}
  Modes = {"serve"}
  Retention = TRUE
  MaxFaults = 2
  MaxResends = 0
SPECIFICATION HistoryFairSpec
INVARIANTS NothingLost
PROPERTIES AnsweredNeverRerun Answered CollectedPruned AbandonedReaped TeardownEnds
