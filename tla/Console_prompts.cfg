\* A console of one sandbox: prompts, dropped links, the operator's actions and a
\* client that waits for its response.
CONSTANTS
  r1 = r1
  r2 = r2
  p1 = p1
  Requests = {r1, r2}
  Pings = {p1}
  Serve = Serve
  Smoke = Smoke
  Fetch = Fetch
  Dial = Dial
  Nobody = Nobody
  Pool = 2
  Cap = 2
  Casts <- MCAll
  Patience = 5
  Gap = 1
  Wrap = 8
SPECIFICATION BeatSpec
INVARIANTS PromptsHaveWaiters ScreenFollows
PROPERTIES NobodyStuck DownIsTrue
CHECK_DEADLOCK FALSE
