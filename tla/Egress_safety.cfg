\* Held fetches and commands; prompts of three kinds; the proxy and a command.
CONSTANTS
  f1 = f1
  f2 = f2
  g1 = g1
  g2 = g2
  c1 = c1
  c2 = c2
  k1 = k1
  k2 = k2
  Nobody = Nobody
  Clients = {f1, f2, c1, c2, k1, k2}
  Fetches = {f1, f2}
  Gated = {g1, g2}
  Commands = {c1, c2}
  Conns = {k1, k2}
  Verb <- MCVerb
  URLs <- MCURLs
  Patterns <- MCPatterns
  Malformed = {"registry"}
  Matches <- MCMatches
  Host <- MCHost
  HostGlob <- MCHostGlob
  Unlisted = "gate"
  Root <- MCRoot
  Rewrite <- MCRewrite
  ConfigAllowed = {"mirror"}
  Passthrough = {"api"}
  Artifacts <- MCArtifacts
  IndexOf <- MCIndexOf
  Standings <- MCStandings
  Casts <- MCCasts
  MaxFaults = 1
  MaxHops = 2
  MaxRequests = 1
  Wanted <- MCWanted
  Custom = {"registry"}
SPECIFICATION Spec
INVARIANTS HeldOnce DenySticks HostAskedOnce PackageDenied
PROPERTIES StoreRefines NothingForgotten VerbAskedUntilDecided
