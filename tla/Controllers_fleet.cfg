SPECIFICATION FairSpec
CONSTANTS
  a = a
  b = b
  c = c
  d = d
  Members <- MCMembers
  Commands = {c}
  Console = Console
  Nobody = Nobody
  Challenges <- PasswordThenForm
  Targets = {b}
  Provisioned = {a, b}
  Flaky <- DialsAndServes
  MaxDrops = 1
  MaxMistakes = 1
  MaxRotations = 1
  MaxGates = 1
  MaxCommands = 1
CHECK_DEADLOCK FALSE
PROPERTIES
  Joins
  Reconnects
INVARIANTS
 
  OneServer
 
 
  CodeNotReplayed
