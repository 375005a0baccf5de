----------------------------- MODULE MCConsole -----------------------------
(* Instances of Console and Heartbeat. *)
EXTENDS Heartbeat, TLC

CONSTANTS r1, r2, p1

Cast(requests, actions, drops, asks, fetches, quits) ==
  [ready |-> TRUE, requests |-> requests, actions |-> actions, drops |-> drops,
   asks |-> asks, fetches |-> fetches, quits |-> quits, watch |-> {}, boots |-> 0]

Bare(cast) == [cast EXCEPT !.ready = FALSE]

\* What may happen together in one behaviour.
MCCasts ==
  {Cast({r1, r2}, {}, 1, 0, 0, 0), Cast({r1, r2}, {}, 0, 0, 1, 0),
   Cast({r1}, {}, 1, 1, 1, 1), Cast({r1}, {}, 2, 1, 0, 0),
   Bare(Cast({}, {"bootstrap"}, 0, 0, 1, 0)),
   Cast({}, {"reset"}, 1, 0, 0, 0), Cast({}, {"install"}, 1, 0, 0, 1),
   Cast({}, {"agent"}, 1, 0, 0, 0)}

\* Beside a client that waits, and a bootstrap.
Watched(cast, boots) == [cast EXCEPT !.watch = {r1}, !.boots = boots]

MCWatched == {Watched(Cast({r1}, {}, 1, 0, 0, 0), 0), Watched(Cast({r1}, {}, 0, 0, 0, 0), 1)}

MCAll == MCCasts \cup MCWatched

\* A client's patience suffices beside them.
ASSUME PatientCasts == \A c \in MCAll : Patient(c)

\* The operator bootstraps a sandbox that serves.
MCBootstraps == {Cast({r1}, {"bootstrap"}, 0, 0, 0, 0)}

=============================================================================
