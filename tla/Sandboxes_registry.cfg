\* The commands on the sandboxes of one controller, at once, and one over all of them.
CONSTANTS
  dev = dev
  lab = lab
  p1 = p1
  p2 = p2
  p3 = p3
  a1 = a1
  a2 = a2
  Nobody = Nobody
  Names = {dev, lab}
  Order <- MCOrder
  Procs = {p1, p2, p3}
  Addrs = {a1, a2}
  Versions <- MCVersions
  Casts <- MCAll
SPECIFICATION FleetSpec
INVARIANTS CreatesIndependent DialHeals OneVersion LinesWhole EveryMemberCounted
CHECK_DEADLOCK FALSE
