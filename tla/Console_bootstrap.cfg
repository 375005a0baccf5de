\* The operator bootstraps a sandbox that serves.
CONSTANTS
  r1 = r1
  r2 = r2
  p1 = p1
  Requests = {r1, r2}
  Pings = {p1}
  Serve = Serve
  Smoke = Smoke
  Fetch = Fetch
  Dial = Dial
  Nobody = Nobody
  Pool = 2
  Cap = 2
  Casts <- MCBootstraps
  Patience = 5
  Gap = 1
  Wrap = 8
SPECIFICATION BeatSpec
INVARIANT HeldWhileAsked
CHECK_DEADLOCK FALSE
