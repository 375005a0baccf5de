---------------------------- MODULE MCSandboxes ----------------------------
(* Instances of Sandboxes and Fleet. *)
EXTENDS Fleet, TLC

CONSTANTS dev, lab, p1, p2, p3, a1, a2

MCOrder == <<dev, lab>>

Cast(made, cmds, kills, restarts) ==
  [made |-> made, cmds |-> cmds, kills |-> kills, restarts |-> restarts,
   fleet |-> [kind |-> "none", file |-> {}, parts |-> {}, cap |-> 1,
             dialer |-> [n \in Names |-> p1]]]
Run(op, n) == [op |-> op, name |-> n]

\* Two or three commands at once, sandboxes made earlier, and the faults.
MCCasts ==
  {Cast({}, p1 :> Run("create", dev) @@ p2 :> Run("create", lab), 1, 0),
   Cast({}, p1 :> Run("create", Nobody) @@ p2 :> Run("create", Nobody) @@ p3 :> Run("dial", dev), 0, 0),
   Cast({lab}, p1 :> Run("create", dev) @@ p2 :> Run("dial", lab) @@ p3 :> Run("dial", dev), 1, 1),
   Cast({dev, lab}, p1 :> Run("dial", dev) @@ p2 :> Run("dial", dev) @@ p3 :> Run("dial", lab), 1, 1),
   Cast({dev, lab}, p1 :> Run("dial", dev) @@ p2 :> Run("dial", dev) @@ p3 :> Run("dial", lab), 0, 2),
   Cast({dev, lab}, p1 :> Run("dial", dev) @@ p2 :> Run("dial", dev), 1, 2),
   Cast({dev, lab}, p1 :> Run("rm", dev) @@ p2 :> Run("rm", lab) @@ p3 :> Run("dial", dev), 1, 1),
   Cast({dev}, p1 :> Run("rm", dev) @@ p2 :> Run("create", dev) @@ p3 :> Run("dial", dev), 1, 0),
   Cast({dev}, p1 :> Run("host rm", Nobody) @@ p2 :> Run("rm", dev) @@ p3 :> Run("create", lab), 0, 0),
   Cast({dev}, p1 :> Run("host rm --force", Nobody) @@ p2 :> Run("dial", dev) @@ p3 :> Run("rm", dev), 0, 1),
   Cast({}, p1 :> Run("create lima", dev) @@ p2 :> Run("rm", dev) @@ p3 :> Run("dial", dev), 1, 0)}

FleetCast(kind, file, parts, cap, cmds, restarts) ==
  [Cast({dev, lab}, cmds, 0, restarts) EXCEPT !.fleet =
     [kind |-> kind, file |-> file, parts |-> parts, cap |-> cap, dialer |-> dev :> p1 @@ lab :> p2]]

\* A command over the fleet, beside another on one of its members.
MCFleets ==
  {FleetCast("mutate", {}, {Names}, 2, p3 :> Run("rm", lab), 0),
   FleetCast("mutate", {}, {}, 1, p3 :> Run("rm", lab), 0),
   FleetCast("install", {}, {{dev}, {lab}}, 2, p3 :> Run("rm", lab), 0),
   FleetCast("install", {dev, lab}, {Names}, 1, p3 :> Run("rm", lab), 0),
   FleetCast("status", {}, {}, 2, p3 :> Run("rm", lab), 1)}

MCVersions == <<1, 2>>
MCAll == MCCasts \cup MCFleets

=============================================================================
