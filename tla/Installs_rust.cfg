\* Requests of a fleet of two sandboxes, of one line and of several.
CONSTANTS
  j1 = j1
  j2 = j2
  j3 = j3
  Nobody = Nobody
  None = None
  Torn = Torn
  Fetchers = {j1, j2, j3}
  Files = {"python.tgz", "jq.tgz", "jdk.tgz", "coursier.jar", "rust.tgz", "node.tgz", "numpy.conda", "agent.tgz"}
  Digests = {"d1", "d2"}
  Trees <- MCTrees
  Parts <- MCParts
  Needed <- MCNeeded
  Script <- MCScript
  Key <- MCKey
  Link <- MCLink
  Casts <- MCRusts
  MaxFaults = 1
  MaxAsks <- MCMaxAsks
SPECIFICATION Spec
INVARIANT ReportedStays

