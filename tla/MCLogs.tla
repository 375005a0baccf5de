------------------------------ MODULE MCLogs -------------------------------
(* Instances of Logs. *)
EXTENDS Logs, TLC

CONSTANTS w1, w2, w3

Writer(role, max, keep, lines) == [role |-> role, max |-> max, keep |-> keep, lines |-> lines]
Cast(writers, counted, deaths, follower, n) ==
  [writers |-> writers, snapshot |-> counted, kills |-> deaths, reader |-> follower, last |-> n]

\* Who appends, with which bounds, and who reads.
MCCasts ==
  {Cast(w1 :> Writer("serve", 2, 3, 5) @@ w2 :> Writer("approve", 2, 4, 3), 0, 1, "none", 0),
   Cast(w1 :> Writer("tee", 2, 2, 4) @@ w2 :> Writer("tee", 2, 2, 3), 0, 1, "bridge", 0),
   Cast(w1 :> Writer("tee", 1, 3, 3) @@ w2 :> Writer("tee", 1, 3, 2) @@ w3 :> Writer("tee", 1, 3, 2), 0, 0, "none", 0),
   Cast(w1 :> Writer("serve", 2, 1, 5) @@ w2 :> Writer("approve", 3, 1, 2), 0, 0, "tail", 1),
   Cast(w1 :> Writer("serve", 3, 2, 6), -1, 1, "tail", 0)}

\* A configuration that names no bounds, for which the defaults are promised.
MCDefaults == {Cast(w1 :> Writer("serve", 0, 0, 4), 0, 0, "none", 0)}

=============================================================================
