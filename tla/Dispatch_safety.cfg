\* Three requests, two of one runtime line, one delivered twice, one fault, both entry points.
CONSTANTS
  Ids = {1, 2, 3}
  Verb <- MixedVerb
  Target <- MixedTarget
  Pool = {t1, t2}
  Modes = {"serve", "once"}
  Retention = FALSE
  MaxFaults = 1
  MaxResends = 1
SYMMETRY PoolSymmetry
SPECIFICATION HistorySpec
INVARIANTS ServicedByOne
PROPERTIES DedupHolds ReplyStable OnceComplete Refines
