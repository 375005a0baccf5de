\* One request; the sandbox refuses one operation of gc.
CONSTANTS
  Ids = {1}
  Verb <- MixedVerb
  Target <- MixedTarget
  Pool = {t1}
  Modes = {"serve"}
  Retention = FALSE
  MaxFaults = 2
  MaxResends = 0
SPECIFICATION Spec
PROPERTIES ReapedNeverRerun
