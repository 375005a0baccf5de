-------------------------- MODULE SandboxesProofs ---------------------------

(***************************************************************************)
(* The sandboxes of a controller, for every set of names, commands at      *)
(* once, addresses and faults: whom a dial reaches, and that creates of    *)
(* different sandboxes do not get in each other's way.                     *)
(***************************************************************************)
EXTENDS Fleet, WellFoundedInduction, TLAPS

Ops == {"create", "create lima", "dial", "rm", "host rm", "host rm --force"}

(* Where the command of a create is, by what it has behind it.             *)
DialSteps == {"state", "start", "address", "check", "pin", "write", "ready", "connect"}
Registered == DialSteps \cup {"finish"}
Configured == Registered \cup {"register"}
Pinned == Configured \cup {"ssh config"}
Located == Pinned \cup {"scan"}
Authorized == Located \cup {"ip"}
Running1 == Authorized \cup {"authorize"}
Keyed == Running1 \cup {"run"}
Prepared == {"key", "run"}
Built == {"unbuild", "key", "run"}
Linked == {"image", "build", "commit", "unbuild", "key", "run"}
Hostless == {"begin", "host", "start host"}
Boxless == {"begin", "host", "start host", "podman", "install", "network", "net create"} \cup Linked
Unlisted == Boxless \cup {"authorize", "ip", "scan", "ssh config", "register"}

(* The steps of each kind of command.                                      *)
StepsOf(op) ==
  CASE op = "create" -> Boxless \cup Keyed
    [] op = "create lima" -> {"begin", "start vm", "record", "register", "air-gap", "connect", "finish"}
    [] op = "dial" -> {"begin"} \cup DialSteps
    [] op = "rm" -> {"begin", "delete vm", "delete", "forget", "default", "repoint"}
    [] OTHER -> {"begin", "destroy"}

Steps == {"idle"} \cup Ended \cup Boxless \cup Keyed \cup
         {"start vm", "record", "air-gap", "delete vm", "delete", "forget", "default", "repoint", "destroy"}
Command == [op : Ops \cup {"none"}, name : Names \cup {Nobody}, pc : Steps,
            ip : Addrs \cup {Nobody}, started : BOOLEAN, to : Names \cup {Nobody}]

CommandOK(c) ==
  \/ c.op = "none" /\ c.pc = "idle"
  \/ /\ c.op \in Ops /\ c.pc \in StepsOf(c.op) \cup Ended
     /\ c.op \notin {"host rm", "host rm --force"} => c.name \in Names

GivenCommands ==
  /\ DOMAIN left.cmds \subseteq Procs
  /\ \A p \in DOMAIN left.cmds :
       LET r == left.cmds[p] IN
       /\ r.op \in Ops
       /\ r.name \in Names \/ (r.name = Nobody /\ r.op \in {"create", "host rm", "host rm --force"})
  /\ {"cmds", "kills", "restarts", "fleet"} \subseteq DOMAIN left
  /\ left.fleet.dialer \in [Names -> Procs]

Files == [key : Keys \cup {Nobody}, pin : Keys \cup {Nobody},
          at : Addrs \cup {Nobody}, addr : Addrs \cup {Nobody}]
Boxes == [state : {"absent", "stopped", "running"}, made : Keys \cup {Nobody},
          addr : Addrs \cup {Nobody}, keys : SUBSET Keys]
Hosts == [state : {"absent", "stopped", "running"}, has : SUBSET {"podman", "network", "image"}]

Types ==
  /\ GivenCommands
  /\ entry \in [Names -> {"none", "dir", "lima", "container"}]
  /\ files \in [Names -> Files]
  /\ vm \in [Names -> [there : BOOLEAN, gap : BOOLEAN]]
  /\ host \in Hosts
  /\ box \in [Names -> Boxes]
  /\ builder \in [Procs -> Procs \cup {Nobody}]
  /\ cmd \in [Procs -> Command]
  /\ \A p \in Procs : CommandOK(cmd[p])
  /\ calm \in [Procs -> BOOLEAN]

-----------------------------------------------------------------------------

(* The first of some names is one of them.                                 *)
LEMMA FirstIsOne ==
  ASSUME NEW ns \in SUBSET Names, ns # {}
  PROVE  First(ns) \in ns
<1> DEFINE R == OpToRel(<, Nat)
           I == {i \in DOMAIN Order : Order[i] \in ns}
<1>1. I \subseteq Nat /\ I # {}
  BY OrderAssumption
<1>2. IsWellFoundedOn(R, Nat)
  BY NatLessThanWellFounded
<1>3. PICK i \in I : \A j \in I : ~(<<j, i>> \in R)
  <2> HIDE DEF R, I
  <2> QED BY <1>1, <1>2, WFMin
<1>4. \A j \in I : ~(j < i)
  BY <1>1, <1>3 DEF OpToRel
<1>5. \A j \in 1..(i - 1) : Order[j] \notin ns
  BY <1>4, OrderAssumption
<1> QED BY <1>3, <1>5 DEF First

(* A step of a command, in the fields of its record.                       *)
Moves(p, to) ==
  /\ cmd' \in [Procs -> Command] /\ CommandOK(cmd'[p])
  /\ \A q \in Procs \ {p} : cmd'[q] = cmd[q]
  /\ cmd'[p].op = cmd[p].op /\ cmd'[p].name = cmd[p].name /\ cmd'[p].pc = to

Known(p, to) == cmd[p].pc # "idle" /\ to \in Steps /\ to \in StepsOf(cmd[p].op) \cup Ended

(* Setting the position of a command.                                      *)
LEMMA StepMoves ==
  ASSUME Types, NEW p \in Procs, NEW to, Known(p, to), Step(p, to)
  PROVE  /\ Moves(p, to)
         /\ cmd'[p].ip = cmd[p].ip /\ cmd'[p].started = cmd[p].started /\ cmd'[p].to = cmd[p].to
<1>1. cmd \in [Procs -> Command] /\ cmd[p] \in Command /\ CommandOK(cmd[p]) /\ cmd[p].op \in Ops
  BY DEF Types, CommandOK, Known
<1>2. cmd' = [cmd EXCEPT ![p] = [cmd[p] EXCEPT !.pc = to]]
  BY <1>1 DEF Step
<1> DEFINE c == [cmd[p] EXCEPT !.pc = to]
<1>3. /\ c \in Command /\ c.op = cmd[p].op /\ c.name = cmd[p].name /\ c.pc = to
      /\ c.ip = cmd[p].ip /\ c.started = cmd[p].started /\ c.to = cmd[p].to
  BY <1>1 DEF Command, Known
<1> HIDE DEF c
<1>4. cmd' \in [Procs -> Command] /\ cmd'[p] = c /\ \A q \in Procs \ {p} : cmd'[q] = cmd[q]
  BY <1>1, <1>2, <1>3 DEF c
<1>5. CommandOK(c)
  BY <1>1, <1>3 DEF CommandOK, Known, Ended
<1> QED BY <1>3, <1>4, <1>5 DEF Moves

(* What a command may do to the others, unless it destroys the host: the   *)
(* host is only added to, only the command's own name is touched, and only *)
(* its own key gives access.                                               *)
Kept(p) ==
  /\ Up => Up'
  /\ host.has \subseteq host'.has
  /\ left'.cmds = left.cmds /\ left'.fleet = left.fleet /\ DOMAIN left' = DOMAIN left
  /\ spoiled' = spoiled /\ stale' = stale
  /\ \A m \in Names \ {cmd[p].name} :
       entry'[m] = entry[m] /\ files'[m] = files[m] /\ box'[m] = box[m]
  /\ \A q \in Procs \ {p} : builder'[q] = builder[q] /\ calm'[q] = calm[q]
  /\ calm'[p] => calm[p]

Granted(p) ==
  \A m \in Names :
    /\ files'[m].key \in {files[m].key, Nobody} \/ (m = cmd[p].name /\ files'[m].key = p)
    /\ \A k \in box'[m].keys : k \in box[m].keys \/ (m = cmd[p].name /\ k = p)

\* A container keeps its address, has none, or takes a free one.
Placed(p) ==
  \A m \in Names :
    \/ box'[m].state = box[m].state /\ box'[m].addr = box[m].addr
    \/ box'[m].state # "running" /\ box'[m].addr = Nobody
    \/ m = cmd[p].name /\ box'[m].state = "running" /\ box'[m].addr \in FreeAddrs

StaysTyped ==
  /\ entry' \in [Names -> {"none", "dir", "lima", "container"}]
  /\ files' \in [Names -> Files] /\ box' \in [Names -> Boxes] /\ host' \in Hosts
  /\ vm' \in [Names -> [there : BOOLEAN, gap : BOOLEAN]]
  /\ builder' \in [Procs -> Procs \cup {Nobody}] /\ calm' \in [Procs -> BOOLEAN]

Goes(p) == \E to \in Steps \ {"idle"} : Moves(p, to)

(* A step that touches nothing but the command itself.                     *)
LEMMA OnlyMoves ==
  ASSUME Types, UNCHANGED <<registryVars, hostVars, left, calm, spoiled, stale>>, NEW p \in Procs
  PROVE  Kept(p) /\ Granted(p) /\ Placed(p) /\ StaysTyped
BY DEF Types, registryVars, hostVars, Kept, Granted, Placed, StaysTyped, Up

(* Which command is where.                                                 *)
LEMMA Places ==
  ASSUME Types, NEW p \in Procs
  PROVE  /\ cmd[p].pc \in {"host", "start host", "podman", "install", "network", "net create", "image", "build",
               "commit", "unbuild", "key", "run", "authorize", "ip", "scan", "ssh config"}
              => cmd[p].op = "create"
         /\ cmd[p].pc \in {"start vm", "record", "air-gap"} => cmd[p].op = "create lima"
         /\ cmd[p].pc \in {"register", "finish"} => cmd[p].op \in {"create", "create lima"}
         /\ cmd[p].pc \in DialSteps \ {"connect"} => cmd[p].op \in {"create", "dial"}
         /\ cmd[p].pc = "connect" => cmd[p].op \in {"create", "create lima", "dial"}
         /\ cmd[p].pc \in {"delete vm", "delete", "forget", "default", "repoint"} => cmd[p].op = "rm"
         /\ cmd[p].pc = "destroy" => cmd[p].op \in {"host rm", "host rm --force"}
         /\ cmd[p].pc # "idle" => cmd[p].op \in Ops /\ cmd[p].pc \in StepsOf(cmd[p].op) \cup Ended
         /\ cmd[p].op \in {"create", "create lima", "dial", "rm"} => cmd[p].name \in Names
         /\ cmd[p] \in Command
<1>1. CommandOK(cmd[p]) /\ cmd[p] \in Command
  BY DEF Types
<1> QED
  BY <1>1 DEF CommandOK, StepsOf, Ended, Ops, DialSteps, Boxless, Linked, Keyed, Running1,
     Authorized, Located, Pinned, Configured, Registered
Framed(p) == Goes(p) /\ Kept(p) /\ Granted(p) /\ Placed(p) /\ StaysTyped

(* A command at a step of its kind goes to another of its kind.            *)
LEMMA StepGoes ==
  ASSUME Types, NEW p \in Procs, cmd[p].pc # "idle", NEW to,
         to \in (StepsOf(cmd[p].op) \cup Ended) \cap Steps, to # "idle", Step(p, to)
  PROVE  Goes(p)
BY StepMoves DEF Known, Goes

(* Putting something on the host.                                          *)
LEMMA PutsAdds ==
  ASSUME Types, NEW p, NEW what \in {"podman", "network", "image"}, NEW then, Puts(p, what, then)
  PROVE  host' \in Hosts /\ host'.state = host.state /\ host.has \subseteq host'.has
<1>1. host \in [state : {"absent", "stopped", "running"}, has : SUBSET {"podman", "network", "image"}]
  BY DEF Types, Hosts
<1>2. CASE host' = [host EXCEPT !.has = @ \cup {what}]
  <2>1. host.has \cup {what} \in SUBSET {"podman", "network", "image"}
    BY <1>1
  <2> DEFINE has == host.has \cup {what}
  <2>2. host' = [host EXCEPT !.has = has] /\ has \in SUBSET {"podman", "network", "image"} /\ host.has \subseteq has
    BY <1>2, <2>1
  <2> HIDE DEF has
  <2> QED BY <1>1, <2>2 DEF Hosts
<1> QED BY <1>1, <1>2 DEF Puts, Hosts

(* The work on the host: what a create installs, links and builds.         *)
LEMMA HostFramed ==
  ASSUME Types, NEW p \in Procs,
         HostThere(p) \/ StartHost(p) \/ Available(p) \/ Install(p) \/ NetworkThere(p) \/ NetCreate(p)
         \/ ImageExists(p) \/ Build(p) \/ Commit(p) \/ Unbuild(p)
  PROVE  Framed(p)
<1> USE DEF StepsOf, Steps, Ended, Boxless, Linked
<1>1. CASE StartHost(p)
  <2>1. Goes(p)
    BY <1>1, Places, StepGoes DEF StartHost, Fails
  <2>2. Kept(p) /\ Granted(p) /\ Placed(p) /\ StaysTyped
    BY <1>1 DEF StartHost, Types, registryVars, Kept, Granted, Placed, StaysTyped, Up, Hosts
  <2> QED BY <2>1, <2>2 DEF Framed
<1>2. CASE HostThere(p) \/ Available(p) \/ NetworkThere(p) \/ ImageExists(p)
  <2>1. Goes(p)
    BY <1>2, Places, StepGoes DEF HostThere, Available, NetworkThere, ImageExists, Has
  <2>2. UNCHANGED <<registryVars, hostVars, left, calm, spoiled, stale>>
    BY <1>2 DEF HostThere, Available, NetworkThere, ImageExists, Has
  <2> QED BY <2>1, <2>2, OnlyMoves DEF Framed
<1>3. CASE Install(p)
  <2>1. Goes(p)
    BY <1>3, Places, StepGoes DEF Install, Puts, Fails
  <2>2. Kept(p) /\ Granted(p) /\ Placed(p) /\ StaysTyped
    <3>1. host' \in Hosts /\ host'.state = host.state /\ host.has \subseteq host'.has
      BY <1>3, PutsAdds DEF Install, Types
    <3> QED BY <1>3, <3>1 DEF Install, Types, registryVars, Kept, Granted, Placed, StaysTyped, Up
  <2> QED BY <2>1, <2>2 DEF Framed
<1>4. CASE NetCreate(p)
  <2>1. Goes(p)
    BY <1>4, Places, StepGoes DEF NetCreate, Puts, Fails
  <2>2. Kept(p) /\ Granted(p) /\ Placed(p) /\ StaysTyped
    <3>1. host' \in Hosts /\ host'.state = host.state /\ host.has \subseteq host'.has
      BY <1>4, PutsAdds DEF NetCreate, Types
    <3> QED BY <1>4, <3>1 DEF NetCreate, Types, registryVars, Kept, Granted, Placed, StaysTyped, Up
  <2> QED BY <2>1, <2>2 DEF Framed
<1>5. CASE Build(p) \/ Unbuild(p)
  <2>1. Goes(p)
    BY <1>5, Places, StepGoes DEF Build, Unbuild, Fails
  <2>2. Kept(p) /\ Granted(p) /\ Placed(p) /\ StaysTyped
    BY <1>5 DEF Build, Unbuild, BuilderName, Types, registryVars, Kept, Granted, Placed, StaysTyped, Up
  <2> QED BY <2>1, <2>2 DEF Framed
<1>6. CASE Commit(p)
  <2>1. Goes(p)
    BY <1>6, Places, StepGoes DEF Commit, Puts, Fails
  <2>2. Kept(p) /\ Granted(p) /\ Placed(p) /\ StaysTyped
    <3>1. host' \in Hosts /\ host'.state = host.state /\ host.has \subseteq host'.has
      BY <1>6, PutsAdds DEF Commit, Types
    <3> QED BY <1>6, <3>1 DEF Commit, BuilderName, Types, registryVars, Kept, Granted, Placed, StaysTyped, Up
  <2> QED BY <2>1, <2>2 DEF Framed
<1> QED BY <1>1, <1>2, <1>3, <1>4, <1>5, <1>6

(* A command that gets a new record of the same kind.                      *)
LEMMA RecordGoes ==
  ASSUME Types, NEW p \in Procs, cmd[p].pc # "idle", NEW c \in Command,
         c.op = cmd[p].op, c.name = cmd[p].name, c.pc # "idle",
         c.pc \in StepsOf(cmd[p].op) \cup Ended, cmd' = [cmd EXCEPT ![p] = c]
  PROVE  Goes(p) /\ Moves(p, c.pc) /\ cmd'[p] = c
<1>1. cmd \in [Procs -> Command] /\ cmd[p].op \in Ops /\ CommandOK(cmd[p])
  BY Places DEF Types
<1>2. cmd' \in [Procs -> Command] /\ cmd'[p] = c /\ \A q \in Procs \ {p} : cmd'[q] = cmd[q]
  BY <1>1
<1>3. c.pc \in Steps \ {"idle"}
  BY DEF Command
<1>4. CommandOK(c)
  BY <1>1, <1>3 DEF CommandOK, Ended
<1> QED BY <1>2, <1>3, <1>4 DEF Goes, Moves

(* The address of a container that runs is looked up.                      *)
LEMMA Resolves ==
  ASSUME Types, NEW p \in Procs, cmd[p].pc # "idle", cmd[p].name \in Names, NEW then,
         then \in (StepsOf(cmd[p].op) \cup Ended) \cap Steps, then # "idle", Resolve(p, then)
  PROVE  /\ Goes(p)
         /\ Running(cmd[p].name) =>
              /\ Moves(p, then) /\ cmd'[p].ip = box[cmd[p].name].addr
              /\ cmd'[p].started = cmd[p].started /\ cmd'[p].to = cmd[p].to
         /\ ~Running(cmd[p].name) => Step(p, "failed")
<1>1. cmd \in [Procs -> Command] /\ cmd[p] \in Command /\ box[cmd[p].name].addr \in Addrs \cup {Nobody}
  BY Places DEF Types, Boxes
<1>2. CASE ~Running(cmd[p].name)
  <2>1. Step(p, "failed")
    BY <1>2 DEF Resolve, Fails
  <2> QED BY <1>2, <2>1, StepGoes DEF Ended, Steps
<1>3. CASE Running(cmd[p].name)
  <2> DEFINE c == [cmd[p] EXCEPT !.pc = then, !.ip = box[cmd[p].name].addr]
  <2>1. cmd' = [cmd EXCEPT ![p] = c]
    BY <1>1, <1>3 DEF Resolve
  <2>2. /\ c \in Command /\ c.op = cmd[p].op /\ c.name = cmd[p].name /\ c.pc = then
        /\ c.ip = box[cmd[p].name].addr /\ c.started = cmd[p].started /\ c.to = cmd[p].to
    BY <1>1 DEF Command
  <2> HIDE DEF c
  <2>3. Goes(p) /\ Moves(p, c.pc) /\ cmd'[p] = c
    BY <2>1, <2>2, RecordGoes
  <2> QED BY <1>3, <2>2, <2>3
<1> QED BY <1>2, <1>3

(* A command that writes the files of its sandbox, but not the identity.   *)
LEMMA FilesFramed ==
  ASSUME Types, NEW p \in Procs, cmd[p].name \in Names, NEW f \in Files,
         f.key = files[cmd[p].name].key,
         files' = [files EXCEPT ![cmd[p].name] = f],
         UNCHANGED <<entry, default, hostVars, left, calm, spoiled, stale>>
  PROVE  Kept(p) /\ Granted(p) /\ Placed(p) /\ StaysTyped
<1>1. files' \in [Names -> Files] /\ \A m \in Names : files'[m] = IF m = cmd[p].name THEN f ELSE files[m]
  BY DEF Types
<1> QED BY <1>1 DEF Types, hostVars, Kept, Granted, Placed, StaysTyped, Up

(* The address of ssh_config, written or not.                              *)
LEMMA ConfigFramed ==
  ASSUME Types, NEW p \in Procs, cmd[p].pc # "idle", cmd[p].name \in Names, NEW then,
         then \in (StepsOf(cmd[p].op) \cup Ended) \cap Steps, then # "idle", WriteConfig(p, then),
         UNCHANGED <<entry, default, hostVars, left, calm, spoiled, stale>>
  PROVE  Framed(p)
<1> DEFINE n == cmd[p].name
           f == [files[n] EXCEPT !.addr = cmd[p].ip]
<1>1. files[n] \in Files /\ cmd[p].ip \in Addrs \cup {Nobody}
  BY Places DEF Types, Command
<1>2. Goes(p)
  BY StepGoes DEF WriteConfig, Fails, Ended, Steps
<1>3. f \in Files /\ f.key = files[n].key
  BY <1>1 DEF Files
<1>4. files' = files \/ files' = [files EXCEPT ![n] = f]
  BY DEF WriteConfig, Types
<1> HIDE DEF f
<1>5. CASE files' = files
  BY <1>2, <1>5, OnlyMoves DEF Framed, registryVars, Types, hostVars, Kept, Granted, Placed, StaysTyped, Up
<1>6. CASE files' = [files EXCEPT ![n] = f]
  BY <1>2, <1>3, <1>6, FilesFramed DEF Framed
<1> QED BY <1>4, <1>5, <1>6

(* The files and the container of a create.                                *)
LEMMA ContainerFramed ==
  ASSUME Types, NEW p \in Procs,
         GenerateKey(p) \/ RunContainer(p) \/ AuthorizeKey(p) \/ FirstIP(p) \/ Keyscan(p) \/ FirstConfig(p)
  PROVE  Framed(p)
<1> USE DEF StepsOf, Steps, Ended, Boxless, Keyed, Running1, Authorized, Located, Pinned, Configured
<1> DEFINE n == cmd[p].name
<1>1. n \in Names /\ p \in Keys /\ files[n] \in Files /\ box[n] \in Boxes /\ cmd[p].ip \in Addrs \cup {Nobody}
  <2>1. cmd[p].op = "create"
    BY Places DEF GenerateKey, RunContainer, AuthorizeKey, FirstIP, Keyscan, FirstConfig
  <2>2. n \in Names /\ cmd[p] \in Command
    BY <2>1, Places
  <2> QED BY <2>2 DEF Types, Keys, Command
<1>2. CASE GenerateKey(p)
  <2>1. Goes(p)
    BY <1>2, Places, StepGoes DEF GenerateKey
  <2>2. files' = [files EXCEPT ![n] = [files[n] EXCEPT !.key = p]]
    BY <1>2, <1>1 DEF GenerateKey, Types
  <2>3. [files[n] EXCEPT !.key = p] \in Files
    BY <1>1 DEF Files
  <2>4. Kept(p) /\ Granted(p) /\ Placed(p) /\ StaysTyped
    BY <1>1, <1>2, <2>2, <2>3 DEF GenerateKey, Types, hostVars, Kept, Granted, Placed, StaysTyped, Up, Files
  <2> QED BY <2>1, <2>4 DEF Framed
<1>3. CASE RunContainer(p)
  <2>1. Goes(p)
    BY <1>3, Places, StepGoes DEF RunContainer, Fails
  <2>2. CASE UNCHANGED box
    BY <1>3, <2>1, <2>2 DEF RunContainer, Types, registryVars, Kept, Granted, Placed, StaysTyped, Up, Framed
  <2>3. CASE ~UNCHANGED box
    <3>1. PICK a \in FreeAddrs :
            box' = [box EXCEPT ![n] = [state |-> "running", made |-> p, addr |-> a, keys |-> {}]]
      BY <1>3, <2>3 DEF RunContainer
    <3> DEFINE b == [state |-> "running", made |-> p, addr |-> a, keys |-> {}]
    <3>2. b \in Boxes /\ b.state = "running" /\ b.addr = a /\ b.keys = {}
      BY <1>1, <3>1 DEF Boxes, FreeAddrs
    <3> HIDE DEF b
    <3>3. box' = [box EXCEPT ![n] = b]
      BY <3>1 DEF b
    <3>4. box' \in [Names -> Boxes] /\ box'[n] = b /\ \A m \in Names \ {n} : box'[m] = box[m]
      BY <1>1, <3>2, <3>3 DEF Types
    <3>5. Kept(p) /\ Granted(p) /\ Placed(p) /\ StaysTyped
      BY <1>1, <1>3, <3>1, <3>2, <3>4
         DEF RunContainer, Types, registryVars, Kept, Granted, Placed, StaysTyped, Up
    <3> QED BY <2>1, <3>5 DEF Framed
  <2> QED BY <2>2, <2>3
<1>4. CASE AuthorizeKey(p)
  <2>1. Goes(p)
    BY <1>4, Places, StepGoes DEF AuthorizeKey, Fails
  <2>2. CASE UNCHANGED box
    BY <1>4, <2>1, <2>2 DEF AuthorizeKey, Types, registryVars, Kept, Granted, Placed, StaysTyped, Up, Framed
  <2>3. CASE ~UNCHANGED box
    <3> DEFINE b == [box[n] EXCEPT !.keys = @ \cup {p}]
    <3>1. box' = [box EXCEPT ![n] = b]
      BY <1>1, <1>4, <2>3 DEF AuthorizeKey, Types
    <3>2. b \in Boxes /\ b.state = box[n].state /\ b.addr = box[n].addr /\ b.keys = box[n].keys \cup {p}
      BY <1>1 DEF Boxes
    <3> HIDE DEF b
    <3>3. box' \in [Names -> Boxes] /\ box'[n] = b /\ \A m \in Names \ {n} : box'[m] = box[m]
      BY <1>1, <3>1, <3>2 DEF Types
    <3>4. Kept(p) /\ Granted(p) /\ Placed(p) /\ StaysTyped
      BY <1>1, <1>4, <3>2, <3>3
         DEF AuthorizeKey, Types, registryVars, Kept, Granted, Placed, StaysTyped, Up
    <3> QED BY <2>1, <3>4 DEF Framed
  <2> QED BY <2>2, <2>3
<1>5. CASE FirstIP(p)
  <2>1. UNCHANGED <<registryVars, hostVars, left, calm, spoiled, stale>> /\ Resolve(p, "scan")
    BY <1>5 DEF FirstIP
  <2>2. Goes(p)
    BY <1>1, <1>5, <2>1, Places, Resolves DEF FirstIP
  <2> QED BY <2>1, <2>2, OnlyMoves DEF Framed
<1>6. CASE Keyscan(p)
  <2>1. Goes(p)
    BY <1>6, Places, StepGoes DEF Keyscan, Fails
  <2>2. CASE UNCHANGED files
    BY <1>6, <2>1, <2>2 DEF Keyscan, Types, hostVars, Kept, Granted, Placed, StaysTyped, Up, Framed
  <2>3. CASE ~UNCHANGED files
    <3>1. PICK m \in Names : files' = [files EXCEPT ![n].pin = box[m].made, ![n].at = cmd[p].ip]
      BY <1>6, <2>3 DEF Keyscan, At
    <3> DEFINE f == [files[n] EXCEPT !.pin = box[m].made, !.at = cmd[p].ip]
    <3>2. files' = [files EXCEPT ![n] = f]
      BY <1>1, <3>1 DEF Types
    <3>3. f \in Files /\ f.key = files[n].key
      BY <1>1, <3>1 DEF Files, Types, Boxes
    <3> HIDE DEF f
    <3> QED BY <1>1, <1>6, <2>1, <3>2, <3>3, FilesFramed DEF Framed, Keyscan
  <2> QED BY <2>2, <2>3
<1>7. CASE FirstConfig(p)
  <2>1. "register" \in (StepsOf(cmd[p].op) \cup Ended) \cap Steps /\ cmd[p].pc # "idle"
    BY <1>7, Places DEF FirstConfig
  <2> QED BY <1>1, <1>7, <2>1, ConfigFramed DEF FirstConfig
<1> QED BY <1>2, <1>3, <1>4, <1>5, <1>6, <1>7

(* The steps of a create that both kinds share, and those of a Lima        *)
(* instance, which leave the containers alone.                             *)
LEMMA CreateFramed ==
  ASSUME Types, NEW p \in Procs, Create(p)
  PROVE  Framed(p)
<1> USE DEF StepsOf, Steps, Ended
<1> DEFINE n == cmd[p].name
<1>1. CASE Refuse(p)
  <2>1. Goes(p)
    BY <1>1, StepGoes, Places DEF Refuse, Fails, Boxless
  <2> QED BY <1>1, <2>1, OnlyMoves DEF Refuse, Framed
<1>2. CASE CreateContainer(p)
  BY <1>2, HostFramed, ContainerFramed DEF CreateContainer
<1>3. CASE StartVM(p) \/ AirGap(p)
  <2>1. Goes(p)
    <3>1. CASE StartVM(p)
      <4>1. cmd[p].pc # "idle" /\ cmd[p].op = "create lima" /\ Step(p, "record")
        BY <3>1, Places DEF StartVM
      <4>2. "record" \in (StepsOf(cmd[p].op) \cup Ended) \cap Steps
        BY <4>1
      <4>3. "record" # "idle"
        OBVIOUS
      <4> HIDE DEF StepsOf, Steps, Ended
      <4> QED BY <4>1, <4>2, <4>3, StepGoes
    <3>2. CASE AirGap(p)
      <4>1. cmd[p].pc # "idle" /\ cmd[p].op = "create lima" /\ (Step(p, "connect") \/ Step(p, "failed"))
        BY <3>2, Places DEF AirGap, Fails
      <4>2. {"connect", "failed"} \subseteq (StepsOf(cmd[p].op) \cup Ended) \cap (Steps \ {"idle"})
        BY <4>1 DEF Keyed, Running1, Authorized, Located, Pinned, Configured, Registered, DialSteps
      <4> HIDE DEF StepsOf, Steps, Ended
      <4> QED BY <4>1, <4>2, StepGoes
    <3> QED BY <1>3, <3>1, <3>2
  <2>2. vm' \in [Names -> [there : BOOLEAN, gap : BOOLEAN]]
    <3>1. PICK v \in [there : BOOLEAN, gap : BOOLEAN] : vm' = vm \/ vm' = [vm EXCEPT ![n] = v]
      <4>1. n \in Names => /\ [vm[n] EXCEPT !.there = TRUE] \in [there : BOOLEAN, gap : BOOLEAN]
                           /\ [vm[n] EXCEPT !.gap = TRUE] \in [there : BOOLEAN, gap : BOOLEAN]
        BY DEF Types
      <4>2. n \in Names
        BY <1>3, Places DEF StartVM, AirGap
      <4> QED BY <1>3, <4>1, <4>2 DEF StartVM, AirGap, Types
    <3> QED BY <3>1 DEF Types
  <2>3. Kept(p) /\ Granted(p) /\ Placed(p) /\ StaysTyped
    BY <1>3, <2>2 DEF StartVM, AirGap, Types, registryVars, Kept, Granted, Placed, StaysTyped, Up
  <2> QED BY <2>1, <2>3 DEF Framed
<1>4. CASE Record(p) \/ Register(p)
  <2>1. Goes(p)
    BY <1>4, StepGoes, Places DEF Record, Register, Fails, Boxless, Keyed, Running1, Authorized,
       Located, Pinned, Configured, Registered, DialSteps
  <2>2. /\ entry' \in [Names -> {"none", "dir", "lima", "container"}]
        /\ \A m \in Names \ {n} : entry'[m] = entry[m]
    BY <1>4 DEF Record, Register, Types
  <2>3. Kept(p) /\ Granted(p) /\ Placed(p) /\ StaysTyped
    BY <1>4, <2>2 DEF Record, Register, Types, hostVars, Kept, Granted, Placed, StaysTyped, Up
  <2> QED BY <2>1, <2>3 DEF Framed
<1>5. CASE FinishCreate(p)
  <2>1. Goes(p)
    BY <1>5, StepGoes, Places DEF FinishCreate
  <2>2. Kept(p) /\ Granted(p) /\ Placed(p) /\ StaysTyped
    BY <1>5 DEF FinishCreate, Types, hostVars, Kept, Granted, Placed, StaysTyped, Up
  <2> QED BY <2>1, <2>2 DEF Framed
<1> QED BY <1>1, <1>2, <1>3, <1>4, <1>5 DEF Create, CreateVM

(* A start of a container: its own address, or a free one.                 *)
LEMMA StartFramed ==
  ASSUME Types, NEW p \in Procs, StartContainer(p)
  PROVE  Framed(p)
<1> DEFINE n == cmd[p].name
<1>1. n \in Names /\ box[n] \in Boxes /\ cmd[p] \in Command /\ cmd[p].pc = "start" /\ cmd[p].op \in {"create", "dial"}
  BY Places DEF StartContainer, Types, DialSteps
<1>2. Goes(p)
  <2>1. CASE Fails(p)
    BY <1>1, <2>1, StepGoes DEF Fails, Ended, Steps
  <2>2. CASE cmd' = [cmd EXCEPT ![p].pc = "address", ![p].started = TRUE]
    <3> DEFINE c == [cmd[p] EXCEPT !.pc = "address", !.started = TRUE]
    <3>1. cmd' = [cmd EXCEPT ![p] = c]
      BY <2>2 DEF Types
    <3>2. c \in Command /\ c.op = cmd[p].op /\ c.name = cmd[p].name /\ c.pc = "address"
      BY <1>1 DEF Command, Steps, Keyed, Running1, Authorized, Located, Pinned, Configured,
         Registered, DialSteps
    <3> HIDE DEF c
    <3>3. c.pc \in StepsOf(cmd[p].op)
      BY <1>1, <3>2 DEF StepsOf, Keyed, Running1, Authorized, Located, Pinned, Configured,
         Registered, DialSteps
    <3> QED BY <1>1, <3>1, <3>2, <3>3, RecordGoes
  <2> QED BY <2>1, <2>2 DEF StartContainer
<1>3. CASE UNCHANGED box
  BY <1>2, <1>3 DEF StartContainer, Types, registryVars, Kept, Granted, Placed, StaysTyped, Up, Framed
<1>4. CASE ~UNCHANGED box
  <2>1. PICK a \in FreeAddrs : box' = [box EXCEPT ![n].state = "running", ![n].addr = a]
    BY <1>4 DEF StartContainer
  <2> DEFINE b == [box[n] EXCEPT !.state = "running", !.addr = a]
  <2>2. box' = [box EXCEPT ![n] = b]
    BY <1>1, <2>1 DEF Types
  <2>3. b \in Boxes /\ b.state = "running" /\ b.addr = a /\ b.keys = box[n].keys
    BY <1>1, <2>1 DEF Boxes, FreeAddrs
  <2> HIDE DEF b
  <2>4. box' \in [Names -> Boxes] /\ box'[n] = b /\ \A m \in Names \ {n} : box'[m] = box[m]
    BY <1>1, <2>2, <2>3 DEF Types
  <2>5. Kept(p) /\ Granted(p) /\ Placed(p) /\ StaysTyped
    BY <1>1, <2>1, <2>3, <2>4 DEF StartContainer, Types, registryVars, Kept, Granted, Placed, StaysTyped, Up
  <2> QED BY <1>2, <2>5 DEF Framed
<1> QED BY <1>3, <1>4


(* The steps of a dial.                                                    *)
LEMMA DialFramed ==
  ASSUME Types, NEW p \in Procs, Dial(p)
  PROVE  Framed(p)
<1> DEFINE n == cmd[p].name
<1>1. cmd[p].op \in {"create", "create lima", "dial"} /\ n \in Names /\ cmd[p].pc # "idle"
  BY Places DEF Dial, Load, At1, State, StartContainer, CurrentIP, Rewrite, Ready, Connect, DialSteps
<1>2. DialSteps \subseteq Steps \ {"idle"} /\ Ended \subseteq Steps \ {"idle"} /\ "finish" \in Steps
  BY DEF Steps, Ended, DialSteps, Keyed, Running1, Authorized, Located, Pinned, Configured, Registered
<1>3. cmd[p].op \in {"create", "dial"} => DialSteps \subseteq StepsOf(cmd[p].op)
  BY DEF StepsOf, Keyed, Running1, Authorized, Located, Pinned, Configured, Registered
<1>4. cmd[p].op \in {"create", "create lima"} => "finish" \in StepsOf(cmd[p].op)
  BY DEF StepsOf, Keyed, Running1, Authorized, Located, Pinned, Configured, Registered
<1>5. CASE Load(p) \/ State(p) \/ Ready(p)
  <2>1. cmd[p].op \in {"create", "dial"} /\ \E to \in DialSteps \cup Ended : Step(p, to)
    BY <1>5, Places DEF Load, At1, State, Ready, Fails, DialSteps, Ended
  <2>2. Goes(p)
    BY <1>1, <1>2, <1>3, <2>1, StepGoes
  <2>3. UNCHANGED <<registryVars, hostVars, left, calm, spoiled, stale>>
    BY <1>5 DEF Load, State, Ready
  <2> QED BY <2>2, <2>3, OnlyMoves DEF Framed
<1>6. CASE StartContainer(p)
  BY <1>6, StartFramed
<1>7. CASE CurrentIP(p)
  <2>1. cmd[p].op \in {"create", "dial"} /\ "check" \in DialSteps
    BY <1>7, Places DEF CurrentIP, DialSteps
  <2>2. Goes(p)
    BY <1>1, <1>2, <1>3, <1>7, <2>1, Resolves DEF CurrentIP
  <2> QED BY <1>7, <2>2, OnlyMoves DEF Framed, CurrentIP
<1>8. CASE Rewrite(p)
  <2>1. cmd[p].op \in {"create", "dial"}
    BY <1>8, Places DEF Rewrite, DialSteps
  <2>2. CASE cmd[p].pc = "check"
    <3>1. \E to \in DialSteps \cup Ended : Step(p, to)
      BY <1>8, <2>2 DEF Rewrite, DialSteps
    <3>2. Goes(p)
      BY <1>1, <1>2, <1>3, <2>1, <3>1, StepGoes
    <3> QED BY <1>8, <2>2, <3>2, OnlyMoves DEF Framed, Rewrite
  <2>3. CASE cmd[p].pc = "pin"
    <3>1. \E to \in DialSteps \cup Ended : Step(p, to)
      BY <1>8, <2>3 DEF Rewrite, DialSteps, Fails, Ended
    <3>2. Goes(p)
      BY <1>1, <1>2, <1>3, <2>1, <3>1, StepGoes
    <3> DEFINE f == [files[n] EXCEPT !.at = cmd[p].ip]
    <3>3. f \in Files /\ f.key = files[n].key
      <4>1. files[n] \in Files /\ cmd[p].ip \in Addrs \cup {Nobody}
        BY <1>1, Places DEF Types, Command
      <4> QED BY <4>1 DEF Files
    <3>4. files' = files \/ files' = [files EXCEPT ![n] = f]
      BY <1>8, <2>3 DEF Rewrite, Types
    <3>5. UNCHANGED <<entry, default, hostVars, left, calm, spoiled, stale>>
      BY <1>8, <2>3 DEF Rewrite
    <3> HIDE DEF f
    <3>6. CASE files' = files
      BY <3>2, <3>5, <3>6 DEF Framed, Types, hostVars, Kept, Granted, Placed, StaysTyped, Up
    <3>7. CASE files' = [files EXCEPT ![n] = f]
      BY <1>1, <3>2, <3>3, <3>5, <3>7, FilesFramed DEF Framed
    <3> QED BY <3>4, <3>6, <3>7
  <2>4. CASE cmd[p].pc = "write"
    <3>1. "ready" \in DialSteps
      BY DEF DialSteps
    <3> QED BY <1>1, <1>2, <1>3, <1>8, <2>1, <2>4, <3>1, ConfigFramed DEF Rewrite
  <2> QED BY <1>8, <2>2, <2>3, <2>4 DEF Rewrite
<1>9. CASE Connect(p)
  <2> DEFINE then == IF cmd[p].op = "dial" THEN "done" ELSE "finish"
  <2>1. then \in (StepsOf(cmd[p].op) \cup Ended) \cap Steps /\ then # "idle"
    BY <1>1, <1>2, <1>4 DEF Ended
  <2>2. Goes(p)
    <3>1. CASE Step(p, then) \/ Step(p, "failed")
      BY <1>1, <1>2, <2>1, <3>1, StepGoes DEF Ended
    <3>2. ASSUME NEW m \in Names, cmd' = [cmd EXCEPT ![p].pc = then, ![p].to = m] PROVE Goes(p)
      <4> DEFINE c == [cmd[p] EXCEPT !.pc = then, !.to = m]
      <4>1. cmd' = [cmd EXCEPT ![p] = c]
        BY <3>2 DEF Types
      <4>2. c \in Command /\ c.op = cmd[p].op /\ c.name = n /\ c.pc = then
        BY <2>1, Places DEF Command
      <4> HIDE DEF c, then
      <4> QED BY <1>1, <2>1, <4>1, <4>2, RecordGoes
    <3>3. Reached(n) \subseteq Names
      BY DEF Reached, At
    <3> QED BY <1>9, <3>1, <3>2, <3>3 DEF Connect, Fails
  <2> QED BY <1>9, <2>2, OnlyMoves DEF Framed, Connect
<1> QED BY <1>5, <1>6, <1>7, <1>8, <1>9 DEF Dial


(* The steps of an rm, of a host rm that does not destroy, and a kill.     *)
LEMMA RemoveFramed ==
  ASSUME Types, NEW p \in Procs, Remove(p) \/ CountUsers(p) \/ Kill(p)
  PROVE  Framed(p)
<1> DEFINE n == cmd[p].name
<1>1. CASE LoadRm(p) \/ CountUsers(p)
  <2>1. cmd[p].pc # "idle" /\ \E to \in (StepsOf(cmd[p].op) \cup Ended) \cap (Steps \ {"idle"}) : Step(p, to)
    BY <1>1 DEF LoadRm, At1, CountUsers, Fails, StepsOf, Ended, Steps
  <2>2. UNCHANGED <<registryVars, hostVars, left, calm, spoiled, stale>>
    BY <1>1 DEF LoadRm, CountUsers
  <2> QED BY <2>1, <2>2, StepGoes, OnlyMoves DEF Framed
<1>2. CASE Delete(p)
  <2>1. cmd[p].pc # "idle" /\ cmd[p].op = "rm" /\ n \in Names /\ (Step(p, "forget") \/ Step(p, "failed"))
    BY <1>2, Places DEF Delete, Fails
  <2>2. {"forget", "failed"} \subseteq (StepsOf(cmd[p].op) \cup Ended) \cap (Steps \ {"idle"})
    BY <2>1 DEF StepsOf, Ended, Steps
  <2>3. Goes(p)
    BY <2>1, <2>2, StepGoes
  <2>4. vm' \in [Names -> [there : BOOLEAN, gap : BOOLEAN]]
    <3>1. [there |-> FALSE, gap |-> FALSE] \in [there : BOOLEAN, gap : BOOLEAN]
      OBVIOUS
    <3>2. vm' = vm \/ vm' = [vm EXCEPT ![n] = [there |-> FALSE, gap |-> FALSE]]
      BY <1>2 DEF Delete
    <3> QED BY <3>1, <3>2 DEF Types
  <2>5. /\ box' \in [Names -> Boxes] /\ \A m \in Names \ {n} : box'[m] = box[m]
        /\ box'[n] = box[n] \/ (box'[n].state = "absent" /\ box'[n].addr = Nobody /\ box'[n].keys = {})
    <3>1. NoBox \in Boxes /\ NoBox.state = "absent" /\ NoBox.addr = Nobody /\ NoBox.keys = {}
      BY DEF NoBox, Boxes
    <3> QED BY <1>2, <2>1, <3>1 DEF Delete, Types
  <2>6. UNCHANGED <<registryVars, host, builder, left, calm, spoiled, stale>>
    BY <1>2 DEF Delete
  <2>7. Kept(p) /\ Granted(p) /\ Placed(p) /\ StaysTyped
    BY <2>4, <2>5, <2>6 DEF Types, registryVars, Kept, Granted, Placed, StaysTyped, Up
  <2> QED BY <2>3, <2>7 DEF Framed
<1>3. CASE Forget(p)
  <2>1. cmd[p].pc # "idle" /\ cmd[p].op = "rm" /\ n \in Names /\ Step(p, "default")
    BY <1>3, Places DEF Forget
  <2>2. "default" \in (StepsOf(cmd[p].op) \cup Ended) \cap (Steps \ {"idle"})
    BY <2>1 DEF StepsOf, Ended, Steps
  <2>3. Goes(p)
    BY <2>1, <2>2, StepGoes
  <2>4. NoFiles \in Files /\ NoFiles.key = Nobody
    BY DEF NoFiles, Files
  <2>5. entry' \in [Names -> {"none", "dir", "lima", "container"}] /\ files' \in [Names -> Files]
        /\ files'[n].key = Nobody
        /\ \A m \in Names \ {n} : entry'[m] = entry[m] /\ files'[m] = files[m]
    BY <1>3, <2>1, <2>4 DEF Forget, Types
  <2>6. UNCHANGED <<default, hostVars, left, calm, spoiled, stale>>
    BY <1>3 DEF Forget
  <2>7. Kept(p) /\ Granted(p) /\ Placed(p) /\ StaysTyped
    BY <2>5, <2>6 DEF Types, hostVars, Kept, Granted, Placed, StaysTyped, Up
  <2> QED BY <2>3, <2>7 DEF Framed
<1>4. CASE ReadDefault(p)
  <2>1. cmd[p].pc = "default" /\ cmd[p].op = "rm"
    BY <1>4, Places DEF ReadDefault
  <2> DEFINE to == IF Listed = {} THEN Nobody ELSE First(Listed)
             pc == IF default = n THEN "repoint" ELSE "done"
             c == [cmd[p] EXCEPT !.pc = pc, !.to = to]
  <2>2. pc \in StepsOf(cmd[p].op) \cup Ended /\ pc # "idle" /\ pc \in Steps
    BY <2>1 DEF StepsOf, Ended, Steps
  <2>3. to \in Names \cup {Nobody}
    <3>1. Listed \subseteq Names
      BY DEF Listed
    <3> QED BY <3>1, FirstIsOne
  <2> HIDE DEF to, pc
  <2>4. cmd' = [cmd EXCEPT ![p] = c]
    BY <1>4 DEF ReadDefault, Types, pc, to
  <2>5. c \in Command /\ c.op = cmd[p].op /\ c.name = n /\ c.pc = pc
    BY <2>2, <2>3, Places DEF Command
  <2> HIDE DEF c
  <2>6. Goes(p)
    BY <2>1, <2>2, <2>4, <2>5, RecordGoes
  <2> QED BY <1>4, <2>6, OnlyMoves DEF Framed, ReadDefault
<1>5. CASE Repoint(p)
  <2>1. cmd[p].pc # "idle" /\ cmd[p].op = "rm" /\ Step(p, "done")
    BY <1>5, Places DEF Repoint
  <2>2. "done" \in (StepsOf(cmd[p].op) \cup Ended) \cap (Steps \ {"idle"})
    BY DEF Ended, Steps
  <2>3. Goes(p)
    BY <2>1, <2>2, StepGoes
  <2> QED BY <1>5, <2>3 DEF Repoint, Framed, Types, hostVars, Kept, Granted, Placed, StaysTyped, Up
<1>6. CASE Kill(p)
  <2>1. cmd[p].pc # "idle" /\ Step(p, "killed")
    BY <1>6 DEF Kill, Active
  <2>2. "killed" \in (StepsOf(cmd[p].op) \cup Ended) \cap (Steps \ {"idle"})
    BY DEF Ended, Steps
  <2>3. Goes(p)
    BY <2>1, <2>2, StepGoes
  <2>4. left'.cmds = left.cmds /\ left'.fleet = left.fleet /\ DOMAIN left' = DOMAIN left
    BY <1>6 DEF Kill, Types, GivenCommands
  <2> QED BY <1>6, <2>3, <2>4 DEF Kill, Framed, Types, registryVars, hostVars, Kept, Granted, Placed, StaysTyped, Up
<1> QED BY <1>1, <1>2, <1>3, <1>4, <1>5, <1>6 DEF Remove


(* A command begins: one that did not run.                                 *)
LEMMA Begins ==
  ASSUME Types, NEW p \in Procs, NEW op \in Ops, NEW n \in Names \cup {Nobody},
         op \notin {"host rm", "host rm --force"} => n \in Names, Begin(p, op, n)
  PROVE  /\ cmd[p].pc = "idle"
         /\ cmd' \in [Procs -> Command] /\ \A q \in Procs \ {p} : cmd'[q] = cmd[q]
         /\ cmd'[p].op = op /\ cmd'[p].name = n /\ cmd'[p].pc = "begin" /\ cmd'[p].to = Nobody
         /\ cmd'[p].started = FALSE
         /\ Types'
<1> DEFINE c == [NoCommand EXCEPT !.op = op, !.name = n, !.pc = "begin"]
<1>1. cmd[p].pc = "idle" /\ cmd' = [cmd EXCEPT ![p] = c] /\ UNCHANGED <<registryVars, hostVars, left>>
  BY DEF Begin
<1>2. /\ c \in Command /\ c.op = op /\ c.name = n /\ c.pc = "begin" /\ c.to = Nobody
      /\ c.started = FALSE
  BY DEF NoCommand, Command, Steps, Boxless
<1> HIDE DEF c
<1>3. CommandOK(c)
  BY <1>2 DEF CommandOK, StepsOf, Boxless, Ops
<1>4. cmd' \in [Procs -> Command] /\ cmd'[p] = c /\ \A q \in Procs \ {p} : cmd'[q] = cmd[q]
  BY <1>1, <1>2 DEF Types
<1>5. calm' \in [Procs -> BOOLEAN]
  <2> DEFINE was(q) == calm[q] /\ ~(Disturbing(op) /\ q \in On(n))
             alone == IF Disturbing(op) THEN On(n) = {}
                      ELSE \A q \in On(n) : ~Disturbing(cmd[q].op) /\ calm[q]
             sound == CASE op = "dial" -> entry[n] = "container" /\ Up /\ box[n].state # "absent"
                                            /\ n \notin spoiled
                        [] op = "create" -> n \notin Listed /\ box[n].state = "absent"
                        [] OTHER -> FALSE
  <2>1. sound \in BOOLEAN /\ alone \in BOOLEAN
    OBVIOUS
  <2>2. calm' = [q \in Procs |-> IF q = p THEN alone /\ sound ELSE was(q)]
    BY DEF Begin
  <2> HIDE DEF was, alone, sound
  <2>3. \A q \in Procs : was(q) \in BOOLEAN
    BY DEF was
  <2>4. (alone /\ sound) \in BOOLEAN
    BY <2>1, Zenon
  <2> QED BY <2>2, <2>3, <2>4, Zenon
<1>6. Types'
  BY <1>1, <1>3, <1>4, <1>5 DEF Types, GivenCommands, registryVars, hostVars
<1> QED BY <1>1, <1>2, <1>4, <1>6

(* A step of a command, but for one that destroys the host.                *)
LEMMA Working1 ==
  ASSUME Types, NEW p \in Procs, Create(p) \/ Dial(p) \/ Remove(p) \/ RemoveHost(p) \/ Kill(p), ~DestroyHost(p)
  PROVE  Framed(p)
BY CreateFramed, DialFramed, RemoveFramed DEF RemoveHost

(* What a framed step makes of a command.                                  *)
LEMMA FramedCommand ==
  ASSUME Types, NEW p \in Procs, Framed(p)
  PROVE  /\ cmd' \in [Procs -> Command] /\ \A q \in Procs \ {p} : cmd'[q] = cmd[q]
         /\ cmd'[p].op = cmd[p].op /\ cmd'[p].name = cmd[p].name /\ cmd'[p].pc # "idle"
         /\ Types'
<1>1. cmd' \in [Procs -> Command] /\ \A q \in Procs : q # p => cmd'[q] = cmd[q]
  BY DEF Framed, Goes, Moves
<1>2. CommandOK(cmd'[p]) /\ cmd'[p].op = cmd[p].op /\ cmd'[p].name = cmd[p].name /\ cmd'[p].pc # "idle"
  BY DEF Framed, Goes, Moves
<1>3. \A q \in Procs : CommandOK(cmd'[q])
  BY <1>1, <1>2 DEF Types
<1>4. GivenCommands'
  BY DEF Framed, Kept, Types, GivenCommands
<1>5. Types'
  BY <1>1, <1>3, <1>4 DEF Types, Framed, StaysTyped
<1> QED BY <1>1, <1>2, <1>5

(* The commands that are given.                                            *)
LEMMA Starts ==
  ASSUME Types, NEW p \in Procs, Start(p)
  PROVE  \E op \in Ops, n \in Names \cup {Nobody} :
           /\ op \notin {"host rm", "host rm --force"} => n \in Names
           /\ Begin(p, op, n)
<1> DEFINE op == left.cmds[p].op
           unnamed == left.cmds[p].name = Nobody /\ op = "create"
           n == IF unnamed THEN First(Names \ Listed) ELSE left.cmds[p].name
<1>1. p \in DOMAIN left.cmds /\ (unnamed => Names \ Listed # {}) /\ Begin(p, op, n)
  BY DEF Start
<1>2. op \in Ops /\ (left.cmds[p].name \in Names
                     \/ (left.cmds[p].name = Nobody /\ op \in {"create", "host rm", "host rm --force"}))
  BY <1>1 DEF Types, GivenCommands
<1>3. CASE unnamed
  <2>1. First(Names \ Listed) \in Names
    BY <1>1, <1>3, FirstIsOne
  <2>2. n \in Names
    BY <1>3, <2>1
  <2> HIDE DEF n
  <2> QED BY <1>1, <1>2, <2>2
<1>4. CASE ~unnamed
  <2>1. n = left.cmds[p].name
    BY <1>4
  <2> HIDE DEF n
  <2> QED BY <1>1, <1>2, <1>4, <2>1
<1> QED BY <1>3, <1>4

(* The host is destroyed, or goes down: what is left of its containers.    *)
LEMMA Destroys ==
  ASSUME Types, NEW p \in Procs, DestroyHost(p)
  PROVE  /\ Goes(p) /\ cmd[p].pc = "destroy" /\ cmd' \in [Procs -> Command]
         /\ \A m \in Names : box'[m] = NoBox /\ files'[m] = files[m]
         /\ \A q \in Procs : calm'[q] => calm[q] /\ ~Active(q)
         /\ Types'
<1>1. cmd[p].pc # "idle" /\ cmd[p].op \in {"host rm", "host rm --force"} /\ Step(p, "done")
  BY Places DEF DestroyHost
<1>2. "done" \in (StepsOf(cmd[p].op) \cup Ended) \cap (Steps \ {"idle"})
  BY DEF Ended, Steps
<1>3. Goes(p)
  BY <1>1, <1>2, StepGoes
<1>4. /\ cmd' \in [Procs -> Command] /\ \A q \in Procs : CommandOK(cmd'[q])
  BY <1>3 DEF Goes, Moves, Types
<1>5. NoBox \in Boxes /\ host' \in Hosts
  BY DEF NoBox, Boxes, DestroyHost, Hosts
<1>6. UNCHANGED <<registryVars, vm, left>> /\ box' = [n \in Names |-> NoBox]
      /\ builder' = [q \in Procs |-> Nobody] /\ calm' = [q \in Procs |-> calm[q] /\ ~Active(q)]
  BY DEF DestroyHost
<1>7. calm' \in [Procs -> BOOLEAN] /\ \A q \in Procs : calm'[q] => calm[q] /\ ~Active(q)
  <2>1. \A q \in Procs : (calm[q] /\ ~Active(q)) \in BOOLEAN
    BY DEF Types
  <2> QED BY <1>6, <2>1, Zenon
<1>8. Types'
  BY <1>4, <1>5, <1>6, <1>7 DEF Types, GivenCommands, registryVars
<1> QED BY <1>3, <1>4, <1>6, <1>7, <1>8 DEF DestroyHost, registryVars

(* A reboot of the containers' host stops every running container, leaves its key and the
   files alone, and no dial under way is calm any more. *)
LEMMA Restarts ==
  ASSUME Types, Restart
  PROVE  /\ cmd' = cmd /\ files' = files
         /\ \A m \in Names :
              IF box[m].state = "running"
              THEN box'[m].state = "stopped" /\ box'[m].addr = Nobody /\ box'[m].keys = box[m].keys
              ELSE box'[m] = box[m]
         /\ \A q \in Procs : calm'[q] => calm[q] /\ ~Active(q)
         /\ Types'
<1>1. UNCHANGED <<registryVars, vm, cmd>> /\ builder' = [p \in Procs |-> Nobody]
      /\ calm' = [q \in Procs |-> calm[q] /\ ~Active(q)]
  BY DEF Restart
<1>2. host' \in Hosts
  BY DEF Restart, Types, Hosts
<1>3. \A m \in Names : [box[m] EXCEPT !.state = "stopped", !.addr = Nobody] \in Boxes
  BY DEF Types, Boxes
<1>4. \A m \in Names : box'[m] = IF box[m].state = "running"
                                 THEN [box[m] EXCEPT !.state = "stopped", !.addr = Nobody] ELSE box[m]
  BY DEF Restart
<1>5. box' \in [Names -> Boxes]
  <2>1. \A m \in Names : box'[m] \in Boxes
    BY <1>3, <1>4 DEF Types
  <2>2. box' = [m \in Names |-> box'[m]]
    BY DEF Restart
  <2> QED BY <2>1, <2>2
<1>6. \A m \in Names :
        IF box[m].state = "running"
        THEN box'[m].state = "stopped" /\ box'[m].addr = Nobody /\ box'[m].keys = box[m].keys
        ELSE box'[m] = box[m]
  BY <1>4, ZenonT(30) DEF Types, Boxes
<1>7. calm' \in [Procs -> BOOLEAN] /\ \A q \in Procs : calm'[q] => calm[q] /\ ~Active(q)
  <2>1. \A q \in Procs : (calm[q] /\ ~Active(q)) \in BOOLEAN
    BY DEF Types
  <2> QED BY <1>1, <2>1, Zenon
<1>8. left'.cmds = left.cmds /\ left'.fleet = left.fleet /\ DOMAIN left' = DOMAIN left
  BY DEF Restart, Types, GivenCommands
<1>9. Types'
  BY <1>1, <1>2, <1>5, <1>7, <1>8 DEF Types, GivenCommands, registryVars
<1> QED BY <1>1, <1>6, <1>7, <1>9 DEF registryVars

-----------------------------------------------------------------------------

(* Types hold when the sandboxes made earlier are found.                   *)
LEMMA TypesInit == Init => Types
<1> SUFFICES ASSUME Init PROVE Types
  OBVIOUS
<1>1. left \in Casts
  BY DEF Init
<1>2. GivenCommands
  BY <1>1, CommandsAssumption, CastAssumption DEF GivenCommands, Ops
<1>3. left.made \subseteq Names
  BY <1>1, CommandsAssumption
<1>4. PICK at \in [left.made -> Addrs] :
        /\ files = [n \in Names |-> IF n \in left.made
                      THEN [key |-> n, pin |-> n, at |-> at[n], addr |-> at[n]] ELSE NoFiles]
        /\ box = [n \in Names |-> IF n \in left.made
                    THEN [state |-> "running", made |-> n, addr |-> at[n], keys |-> {n}] ELSE NoBox]
  BY DEF Init
<1>5. \A n \in left.made : [key |-> n, pin |-> n, at |-> at[n], addr |-> at[n]] \in Files
  BY <1>3 DEF Files, Keys
<1>6. NoFiles \in Files /\ NoBox \in Boxes
  BY DEF NoFiles, Files, NoBox, Boxes
<1>7. files \in [Names -> Files]
  BY <1>4, <1>5, <1>6
<1>8. \A n \in left.made : [state |-> "running", made |-> n, addr |-> at[n], keys |-> {n}] \in Boxes
  BY <1>3 DEF Boxes, Keys
<1>9. box \in [Names -> Boxes]
  BY <1>4, <1>6, <1>8
<1>10. host \in Hosts /\ entry \in [Names -> {"none", "dir", "lima", "container"}]
       /\ vm \in [Names -> [there : BOOLEAN, gap : BOOLEAN]]
       /\ builder \in [Procs -> Procs \cup {Nobody}] /\ calm \in [Procs -> BOOLEAN]
  <2>1. host \in Hosts
    BY DEF Init, Hosts
  <2>2. entry \in [Names -> {"none", "dir", "lima", "container"}]
    BY DEF Init
  <2>3. vm \in [Names -> [there : BOOLEAN, gap : BOOLEAN]]
    BY DEF Init
  <2>4. builder \in [Procs -> Procs \cup {Nobody}] /\ calm \in [Procs -> BOOLEAN]
    BY DEF Init
  <2> QED BY <2>1, <2>2, <2>3, <2>4
<1>11. cmd \in [Procs -> Command] /\ \A p \in Procs : CommandOK(cmd[p])
  <2>1. NoCommand \in Command /\ CommandOK(NoCommand)
    BY DEF NoCommand, Command, Steps, CommandOK
  <2>2. cmd = [p \in Procs |-> NoCommand]
    BY DEF Init
  <2> HIDE DEF NoCommand
  <2> QED BY <2>1, <2>2
<1> QED BY <1>2, <1>7, <1>9, <1>10, <1>11 DEF Types
-----------------------------------------------------------------------------

(* A key that gives access to a sandbox, or is its identity: of one made   *)
(* earlier, or of a create of that sandbox, since a process runs one       *)
(* command.                                                                *)
OwnedBy(k, n) == k = n \/ (k \in Procs /\ cmd[k].pc # "idle" /\ cmd[k].name = n)

KeysOwn ==
  \A n \in Names : /\ files[n].key = Nobody \/ OwnedBy(files[n].key, n)
                   /\ \A k \in box[n].keys : OwnedBy(k, n)

\* A container has an address while it runs, and none has another's.
Addressed ==
  /\ \A n \in Names : box[n].state = "running" <=> box[n].addr # Nobody
  /\ \A m, n \in Names : m # n /\ box[m].addr # Nobody => box[m].addr # box[n].addr

OwnInv == Types /\ KeysOwn /\ Addressed /\ DialsOwn

(* A container that is reached has the identity's key, so it is its own.   *)
LEMMA ReachedOwn ==
  ASSUME KeysOwn, Types, NEW n \in Names, NEW m \in Reached(n)
  PROVE  m = n
<1>1. m \in Names /\ files[n].key \in box[m].keys /\ box[m].keys \subseteq Keys
  BY DEF Reached, At, Types, Boxes
<1>2. OwnedBy(files[n].key, m) /\ files[n].key # Nobody
  BY <1>1, DistinctAssumption DEF KeysOwn, Keys
<1>3. OwnedBy(files[n].key, n)
  BY <1>2 DEF KeysOwn
<1> QED BY <1>1, <1>2, <1>3, DistinctAssumption DEF OwnedBy

(* A step of the position leaves the rest of the command's record.         *)
LEMMA StepRest ==
  ASSUME Types, NEW p \in Procs, NEW to, Step(p, to)
  PROVE  cmd'[p].to = cmd[p].to /\ cmd'[p].ip = cmd[p].ip /\ cmd'[p].started = cmd[p].started
         /\ cmd'[p].pc = to
<1>1. cmd \in [Procs -> Command] /\ cmd[p] \in Command
  BY DEF Types
<1>2. cmd' = [cmd EXCEPT ![p] = [cmd[p] EXCEPT !.pc = to]]
  BY <1>1 DEF Step
<1>3. cmd'[p] = [cmd[p] EXCEPT !.pc = to]
  BY <1>1, <1>2
<1> QED BY <1>1, <1>3 DEF Command

(* A command that takes a step is at work, and a dial takes no other's.    *)
LEMMA AtWork ==
  ASSUME Types, NEW p \in Procs, Create(p) \/ Dial(p) \/ Remove(p) \/ RemoveHost(p) \/ Kill(p)
  PROVE  /\ Active(p)
         /\ cmd[p].op = "dial" => Dial(p) \/ Kill(p)
         /\ cmd[p].op = "create" => Create(p) \/ Dial(p) \/ Kill(p)
         /\ cmd[p].op \in {"host rm", "host rm --force"} => RemoveHost(p) \/ Kill(p)
<1>1. CASE Create(p)
  BY <1>1, Places DEF Create, Refuse, CreateContainer, HostThere, StartHost, Available, Has, Install, NetworkThere,
     NetCreate, ImageExists, Build, Commit, Unbuild, GenerateKey, RunContainer, AuthorizeKey, FirstIP,
     Keyscan, FirstConfig, CreateVM, StartVM, Record, AirGap, Register, FinishCreate, Active, Ended
<1>2. CASE Dial(p)
  BY <1>2, Places DEF Dial, Load, At1, State, StartContainer, CurrentIP, Rewrite, Ready, Connect, Active,
     Ended, DialSteps
<1>3. CASE Remove(p)
  BY <1>3, Places DEF Remove, LoadRm, At1, Delete, Forget, ReadDefault, Repoint, Active, Ended
<1>4. CASE RemoveHost(p)
  BY <1>4, Places DEF RemoveHost, CountUsers, DestroyHost, Active, Ended
<1>5. CASE Kill(p)
  BY <1>5 DEF Kill
<1> QED BY <1>1, <1>2, <1>3, <1>4, <1>5

(* Where a dial gets to.                                                   *)
LEMMA DialArrives ==
  ASSUME Types, NEW p \in Procs, cmd[p].op = "dial", Create(p) \/ Dial(p) \/ Remove(p) \/ RemoveHost(p) \/ Kill(p)
  PROVE  cmd'[p].to = cmd[p].to \/ cmd'[p].to \in Reached(cmd[p].name)
<1>1. cmd[p] \in Command /\ cmd \in [Procs -> Command]
  BY Places DEF Types
<1>2. Dial(p) \/ Kill(p)
  BY AtWork
<1>3. CASE Load(p) \/ State(p) \/ Ready(p) \/ Rewrite(p) \/ Kill(p)
  <2>1. \E to : Step(p, to)
    BY <1>3 DEF Load, State, Ready, Rewrite, WriteConfig, Kill, Fails
  <2> QED BY <2>1, StepRest
<1>4. CASE StartContainer(p)
  <2>1. Fails(p) \/ cmd' = [cmd EXCEPT ![p].pc = "address", ![p].started = TRUE]
    BY <1>4 DEF StartContainer
  <2>2. ASSUME cmd' = [cmd EXCEPT ![p].pc = "address", ![p].started = TRUE] PROVE cmd'[p].to = cmd[p].to
    <3>1. cmd'[p] = [cmd[p] EXCEPT !.pc = "address", !.started = TRUE]
      BY <1>1, <2>2
    <3> QED BY <1>1, <3>1 DEF Command
  <2> QED BY <2>1, <2>2, StepRest DEF Fails
<1>5. CASE CurrentIP(p)
  <2>1. Fails(p) \/ cmd' = [cmd EXCEPT ![p].pc = "check", ![p].ip = box[cmd[p].name].addr]
    BY <1>5 DEF CurrentIP, Resolve
  <2>2. ASSUME cmd' = [cmd EXCEPT ![p].pc = "check", ![p].ip = box[cmd[p].name].addr]
        PROVE  cmd'[p].to = cmd[p].to
    <3>1. cmd'[p] = [cmd[p] EXCEPT !.pc = "check", !.ip = box[cmd[p].name].addr]
      BY <1>1, <2>2
    <3> QED BY <1>1, <3>1 DEF Command
  <2> QED BY <2>1, <2>2, StepRest DEF Fails
<1>6. CASE Connect(p)
  <2>1. (\E to : Step(p, to))
        \/ \E m \in Reached(cmd[p].name) : cmd' = [cmd EXCEPT ![p].pc = "done", ![p].to = m]
    BY <1>6 DEF Connect, Fails
  <2>2. ASSUME NEW m \in Reached(cmd[p].name), cmd' = [cmd EXCEPT ![p].pc = "done", ![p].to = m]
        PROVE  cmd'[p].to = m
    <3>1. cmd'[p] = [cmd[p] EXCEPT !.pc = "done", !.to = m]
      BY <1>1, <2>2
    <3> QED BY <1>1, <3>1 DEF Command
  <2> QED BY <2>1, <2>2, StepRest
<1> QED BY <1>2, <1>3, <1>4, <1>5, <1>6 DEF Dial

(* Keys and addresses, by what a framed step grants and places.            *)
LEMMA FramedOwn ==
  ASSUME Types, KeysOwn, Addressed, NEW p \in Procs, Framed(p)
  PROVE  KeysOwn' /\ Addressed'
<1>1. cmd'[p].pc # "idle" /\ cmd'[p].name = cmd[p].name
      /\ \A q \in Procs : q # p => cmd'[q] = cmd[q]
  BY DEF Framed, Goes, Moves
<1>2. \A n \in Names, k \in Keys : OwnedBy(k, n) => OwnedBy(k, n)'
  BY <1>1 DEF OwnedBy, Moves, Keys
<1>3. \A n \in Names : cmd[p].name = n => OwnedBy(p, n)'
  BY <1>1 DEF OwnedBy
<1>4. KeysOwn'
  <2> SUFFICES ASSUME NEW n \in Names
      PROVE  /\ files'[n].key = Nobody \/ OwnedBy(files[n].key, n)'
             /\ \A k \in box'[n].keys : OwnedBy(k, n)'
    BY DEF KeysOwn
  <2>1. files[n].key = Nobody \/ (files[n].key \in Keys /\ OwnedBy(files[n].key, n))
    BY DEF KeysOwn, Types, Files
  <2>2. \A k \in box[n].keys : k \in Keys /\ OwnedBy(k, n)
    BY DEF KeysOwn, Types, Boxes
  <2>3. files'[n].key \in {files[n].key, Nobody} \/ (n = cmd[p].name /\ files'[n].key = p)
    BY DEF Framed, Granted
  <2>4. \A k \in box'[n].keys : k \in box[n].keys \/ (n = cmd[p].name /\ k = p)
    BY DEF Framed, Granted
  <2>5. files'[n].key = Nobody \/ OwnedBy(files[n].key, n)'
    BY <1>1, <1>2, <2>1, <2>3 DEF OwnedBy
  <2>6. \A k \in box'[n].keys : OwnedBy(k, n)'
    BY <1>2, <1>3, <2>2, <2>4
  <2> QED BY <2>5, <2>6
<1>5. Addressed'
  <2>1. \A n \in Names :
          \/ box'[n].state = box[n].state /\ box'[n].addr = box[n].addr
          \/ box'[n].state # "running" /\ box'[n].addr = Nobody
          \/ n = cmd[p].name /\ box'[n].state = "running" /\ box'[n].addr \in FreeAddrs
    BY DEF Framed, Placed
  <2>2. \A a \in FreeAddrs : a # Nobody /\ \A n \in Names : box[n].state = "running" => box[n].addr # a
    BY DistinctAssumption DEF FreeAddrs
  <2> QED BY <2>1, <2>2 DEF Addressed
<1> QED BY <1>4, <1>5

(* What a step does to the sandboxes: a step of the fleet's command begins *)
(* a dial or leaves them alone.                                            *)
Step1 ==
  \/ \E p \in Procs : Framed(p) /\ (Create(p) \/ Dial(p) \/ Remove(p) \/ RemoveHost(p) \/ Kill(p))
  \/ \E p \in Procs, op \in Ops, n \in Names \cup {Nobody} :
       (op \notin {"host rm", "host rm --force"} => n \in Names) /\ Begin(p, op, n)
  \/ (\E p \in Procs : DestroyHost(p)) \/ Restart
  \/ UNCHANGED vars

(* Every step of the fleet's composition is one of the steps Step1 lists, with the frame
   of what it leaves alone. *)
LEMMA FleetSteps ==
  ASSUME Types, [FleetNext]_<<vars, fleetVars>>
  PROVE  Step1
<1>1. CASE Next
  <2>1. ASSUME NEW p \in Procs, Start(p) PROVE Step1
    BY <2>1, Starts DEF Step1
  <2>2. ASSUME NEW p \in Procs, Create(p) \/ Dial(p) \/ Remove(p) \/ RemoveHost(p) \/ Kill(p) PROVE Step1
    BY <2>2, Working1 DEF Step1
  <2> QED BY <1>1, <2>1, <2>2 DEF Next, Step1
<1>2. ASSUME NEW n \in Names, StartDial(n) PROVE Step1
  <2>1. Asked.dialer[n] \in Procs /\ Begin(Asked.dialer[n], "dial", n)
    BY <1>2 DEF StartDial, Types, GivenCommands, Asked
  <2> QED BY <2>1 DEF Step1, Ops
<1>3. ASSUME NEW n \in Names, Goroutine(n), ~StartDial(n) PROVE UNCHANGED vars
  BY <1>3 DEF Goroutine, TakeOps, Dialled, ResolveVersion, InstallPin, Write, EndLine, OpEnds, Flush
<1>4. CASE ResolveTargets \/ Spawn \/ Compare \/ Summarize \/ IndexMoves
  BY <1>4 DEF ResolveTargets, Spawn, Compare, Summarize, IndexMoves, Step1
<1> QED BY <1>1, <1>2, <1>3, <1>4 DEF FleetNext, Step1

(* No step breaks the types of the sandboxes' variables. *)
LEMMA TypesStep ==
  ASSUME Types, Step1
  PROVE  Types'
<1>1. CASE UNCHANGED vars
  BY <1>1 DEF vars, registryVars, hostVars, Types, GivenCommands
<1> QED BY <1>1, FramedCommand, Begins, Destroys, Restarts DEF Step1

-----------------------------------------------------------------------------

(* At the start no container exists, no files are written, nothing runs. *)
LEMMA OwnInit == Init => OwnInv
<1> SUFFICES ASSUME Init PROVE OwnInv
  OBVIOUS
<1>1. left.made \subseteq Names
  BY CommandsAssumption DEF Init
<1>2. PICK at \in [left.made -> Addrs] :
        /\ \A m, n \in left.made : m # n => at[m] # at[n]
        /\ files = [n \in Names |-> IF n \in left.made
                      THEN [key |-> n, pin |-> n, at |-> at[n], addr |-> at[n]] ELSE NoFiles]
        /\ box = [n \in Names |-> IF n \in left.made
                    THEN [state |-> "running", made |-> n, addr |-> at[n], keys |-> {n}] ELSE NoBox]
  BY DEF Init
<1>3. \A n \in Names : IF n \in left.made
        THEN files[n].key = n /\ box[n].state = "running" /\ box[n].addr = at[n] /\ box[n].keys = {n}
        ELSE files[n].key = Nobody /\ box[n].state = "absent" /\ box[n].addr = Nobody /\ box[n].keys = {}
  BY <1>2 DEF NoFiles, NoBox
<1>4. KeysOwn
  BY <1>3 DEF KeysOwn, OwnedBy
<1>5. Addressed
  BY <1>2, <1>3, DistinctAssumption DEF Addressed
<1>6. DialsOwn
  BY DEF Init, DialsOwn, NoCommand
<1> QED BY <1>4, <1>5, <1>6, TypesInit DEF OwnInv

(* Every step keeps addresses, keys and the files of each sandbox its own. *)
LEMMA OwnStep ==
  ASSUME OwnInv, Step1
  PROVE  OwnInv'
<1> USE DEF OwnInv
<1>1. Types'
  BY TypesStep
<1>2. ASSUME NEW p \in Procs, Framed(p), Create(p) \/ Dial(p) \/ Remove(p) \/ RemoveHost(p) \/ Kill(p)
      PROVE  OwnInv'
  <2>1. KeysOwn' /\ Addressed'
    BY <1>2, FramedOwn
  <2>2. DialsOwn'
    <3>1. \A q \in Procs \ {p} : cmd'[q] = cmd[q]
      BY <1>2, FramedCommand
    <3>2. cmd'[p].op = cmd[p].op /\ cmd'[p].name = cmd[p].name
      BY <1>2, FramedCommand
    <3>3. cmd[p].op = "dial" => cmd'[p].to = cmd[p].to \/ cmd'[p].to = cmd[p].name
      BY <1>2, DialArrives, ReachedOwn, Places
    <3> QED BY <3>1, <3>2, <3>3 DEF DialsOwn
  <2> QED BY <1>1, <2>1, <2>2
<1>3. ASSUME NEW p \in Procs, NEW op \in Ops, NEW n \in Names \cup {Nobody},
             op \notin {"host rm", "host rm --force"} => n \in Names, Begin(p, op, n)
      PROVE  OwnInv'
  <2>1. cmd[p].pc = "idle" /\ (\A q \in Procs \ {p} : cmd'[q] = cmd[q]) /\ cmd'[p].to = Nobody
    BY <1>3, Begins
  <2>2. box' = box /\ files' = files
    BY <1>3 DEF Begin, registryVars, hostVars
  <2>3. \A m \in Names, k \in Keys : OwnedBy(k, m) => OwnedBy(k, m)'
    BY <2>1 DEF OwnedBy, Keys
  <2>4. KeysOwn'
    BY <2>2, <2>3 DEF KeysOwn, Types, Files, Boxes
  <2>5. Addressed'
    BY <2>2 DEF Addressed
  <2>6. DialsOwn'
    BY <2>1 DEF DialsOwn
  <2> QED BY <1>1, <2>4, <2>5, <2>6
<1>4. ASSUME NEW p \in Procs, DestroyHost(p) PROVE OwnInv'
  <2>1. /\ Goes(p) /\ \A m \in Names : box'[m] = NoBox /\ files'[m] = files[m]
    BY <1>4, Destroys
  <2>2. cmd'[p].pc # "idle" /\ cmd'[p].name = cmd[p].name /\ cmd'[p].op = cmd[p].op
        /\ \A q \in Procs \ {p} : cmd'[q] = cmd[q]
    BY <2>1 DEF Goes, Moves
  <2>3. \A m \in Names, k \in Keys : OwnedBy(k, m) => OwnedBy(k, m)'
    BY <2>2 DEF OwnedBy, Keys
  <2>4. KeysOwn'
    BY <2>1, <2>3 DEF KeysOwn, Types, Files, NoBox
  <2>5. Addressed'
    BY <2>1 DEF Addressed, NoBox
  <2>6. cmd'[p].to = cmd[p].to
    BY <1>4, StepRest DEF DestroyHost
  <2>7. DialsOwn'
    BY <2>2, <2>6 DEF DialsOwn
  <2> QED BY <1>1, <2>4, <2>5, <2>7
<1>5. CASE Restart
  <2>1. cmd' = cmd /\ files' = files
        /\ \A m \in Names :
              IF box[m].state = "running"
              THEN box'[m].state = "stopped" /\ box'[m].addr = Nobody /\ box'[m].keys = box[m].keys
              ELSE box'[m] = box[m]
    BY <1>5, Restarts
  <2>2. KeysOwn'
    BY <2>1 DEF KeysOwn, OwnedBy
  <2>3. Addressed'
    BY <2>1 DEF Addressed
  <2>4. DialsOwn'
    BY <2>1 DEF DialsOwn
  <2> QED BY <1>1, <2>2, <2>3, <2>4
<1>6. CASE UNCHANGED vars
  BY <1>1, <1>6 DEF vars, registryVars, hostVars, KeysOwn, OwnedBy, Addressed, DialsOwn
<1> QED BY <1>2, <1>3, <1>4, <1>5, <1>6 DEF Step1

(* Whatever is created, removed, restarted or killed beside it, a dial, a  *)
(* fleet command's too, that gets through is connected to the container of *)
(* the sandbox it was asked for: the one that knows the identity.          *)
THEOREM DialsOwnHolds == FleetSpec => []DialsOwn
<1>1. FleetInit => OwnInv
  BY OwnInit DEF FleetInit
<1>2. OwnInv /\ [FleetNext]_<<vars, fleetVars>> => OwnInv'
  BY FleetSteps, OwnStep DEF OwnInv
<1>3. OwnInv => DialsOwn
  BY DEF OwnInv
<1> QED BY <1>1, <1>2, <1>3, PTL DEF FleetSpec

-----------------------------------------------------------------------------

(* What an undisturbed create has behind it, by where it is: nobody works  *)
(* on its name but dials, and they only once it is registered.             *)
Good(p) ==
  LET n == cmd[p].name
      pc == cmd[p].pc IN
  /\ pc # "start" /\ ~cmd[p].started
  /\ pc \in Boxless => box[n].state = "absent"
  /\ pc \in Unlisted => entry[n] \notin {"lima", "container"}
  /\ pc \notin Hostless => Up
  /\ pc \in Linked => "network" \in host.has
  /\ pc \in Built => "image" \in host.has
  /\ pc = "commit" => builder[p] = p
  /\ pc \in Keyed => entry[n] # "none" /\ files[n].key = p
  /\ pc \in Running1 => box[n].state = "running" /\ box[n].made = p
  /\ pc \in Authorized => p \in box[n].keys
  /\ pc \in Located => cmd[p].ip = box[n].addr
  /\ pc \in Pinned => files[n].pin = p /\ files[n].at = box[n].addr
  /\ pc \in Configured => files[n].addr = box[n].addr

Beside(p, q) ==
  /\ ~Disturbing(cmd[q].op)
  /\ cmd[q].op = "dial" /\ cmd[q].pc # "begin" => cmd[p].pc \in Registered
  /\ cmd[q].pc \in {"check", "pin", "write"} => cmd[q].ip = box[cmd[p].name].addr

CreateGood(p) ==
  calm[p] /\ cmd[p].op = "create" =>
    /\ cmd[p].pc # "failed"
    /\ Active(p) => Good(p) /\ \A q \in On(cmd[p].name) \ {p} : Beside(p, q)

CreateInv == \A p \in Procs : CreateGood(p)

(* The steps a create has behind it, spelled out.                          *)
LEMMA GoodStays ==
  ASSUME NEW p \in Procs, Good(p), cmd'[p] = cmd[p], NEW n, n = cmd[p].name,
         Up => Up', host.has \subseteq host'.has, builder'[p] = builder[p],
         entry'[n] = entry[n], box'[n] = box[n],
         files'[n].key = files[n].key, files'[n].pin = files[n].pin,
         files'[n].at \in {files[n].at, box[n].addr}, files'[n].addr \in {files[n].addr, box[n].addr}
  PROVE  Good(p)'
BY DEF Good

(* A dial beside an undisturbed create of its sandbox: it finds nothing    *)
(* before that has registered, and a container that runs afterwards.       *)
LEMMA DialBeside ==
  ASSUME Types, NEW p \in Procs, NEW q \in Procs, p # q, cmd[p].op = "create", Active(p), Good(p),
         Beside(p, q), cmd[q].name = cmd[p].name, cmd[q].op = "dial", Dial(q), Framed(q)
  PROVE  Good(p)' /\ box' = box /\ (Active(q)' => Beside(p, q)')
<1> DEFINE n == cmd[p].name
<1>1. n \in Names /\ cmd[q] \in Command /\ cmd \in [Procs -> Command] /\ files[n] \in Files /\ box[n] \in Boxes
  BY Places DEF Types
<1>2. cmd'[p] = cmd[p] /\ cmd'[q].op = cmd[q].op /\ cmd'[q].name = cmd[q].name
  BY FramedCommand
<1>3. cmd[q].pc # "begin" => Running(n) /\ cmd[p].pc \in Registered
  BY DEF Beside, Good, Running, Up, Hostless, Boxless, Linked, Running1, Authorized, Located, Pinned, Configured,
     Registered, DialSteps
<1>4. UNCHANGED <<host, builder, entry>>
  BY DEF Dial, Load, State, StartContainer, CurrentIP, Rewrite, Ready, Connect, registryVars, hostVars
<1>5. cmd[q].pc \in {"check", "pin", "write"} => cmd[q].ip = box[n].addr
  BY DEF Beside
<1>6. box' = box
  <2>1. CASE StartContainer(q)
    BY <1>3, <2>1 DEF StartContainer, Running
  <2> QED BY <2>1 DEF Dial, Load, State, CurrentIP, Rewrite, Ready, Connect, hostVars
<1>7. /\ files'[n].key = files[n].key /\ files'[n].pin = files[n].pin
      /\ files'[n].at \in {files[n].at, box[n].addr} /\ files'[n].addr \in {files[n].addr, box[n].addr}
  <2>1. CASE files' = files
    BY <2>1
  <2>2. CASE files' # files
    <3>1. Rewrite(q)
      BY <2>2 DEF Dial, Load, State, StartContainer, CurrentIP, Ready, Connect, registryVars
    <3>2. files' = [files EXCEPT ![n].at = cmd[q].ip] \/ files' = [files EXCEPT ![n].addr = cmd[q].ip]
      BY <2>2, <3>1 DEF Rewrite, WriteConfig, registryVars
    <3>3. cmd[q].ip = box[n].addr
      BY <1>5, <3>1 DEF Rewrite
    <3>4. CASE files' = [files EXCEPT ![n].at = cmd[q].ip]
      <4>1. files'[n] = [files[n] EXCEPT !.at = cmd[q].ip]
        BY <1>1, <3>4 DEF Types
      <4> QED BY <1>1, <3>3, <4>1 DEF Files
    <3>5. CASE files' = [files EXCEPT ![n].addr = cmd[q].ip]
      <4>1. files'[n] = [files[n] EXCEPT !.addr = cmd[q].ip]
        BY <1>1, <3>5 DEF Types
      <4> QED BY <1>1, <3>3, <4>1 DEF Files
    <3> QED BY <3>2, <3>4, <3>5
  <2> QED BY <2>1, <2>2
<1>8. Good(p)'
  BY <1>2, <1>4, <1>6, <1>7, GoodStays DEF Up
<1>9. ASSUME Active(q)' PROVE cmd'[q].pc # "begin" => cmd'[p].pc \in Registered
  <2>1. CASE cmd[q].pc # "begin"
    BY <1>2, <1>3, <2>1
  <2>2. CASE cmd[q].pc = "begin"
    <3>1. Load(q)
      BY <2>2 DEF Dial, State, StartContainer, CurrentIP, Rewrite, Ready, Connect
    <3>2. entry[n] \in {"container", "lima"}
      BY <1>9, <1>2, <3>1, StepRest DEF Load, Fails, Active, Ended
    <3>3. cmd[p].pc \notin Unlisted
      BY <3>2 DEF Good
    <3>4. cmd[p].pc \in Boxless \cup Keyed
      BY Places DEF StepsOf, Active
    <3> QED BY <1>2, <3>3, <3>4 DEF Unlisted, Keyed, Running1, Authorized, Located, Pinned, Configured,
          Boxless, Linked
  <2> QED BY <2>1, <2>2
<1>10. cmd'[q].pc \in {"check", "pin", "write"} => cmd'[q].ip = box'[n].addr
  <2>1. CASE CurrentIP(q)
    <3>1. Running(n) /\ cmd' = [cmd EXCEPT ![q].pc = "check", ![q].ip = box[n].addr]
      BY <1>3, <2>1 DEF CurrentIP, Resolve
    <3>2. cmd'[q] = [cmd[q] EXCEPT !.pc = "check", !.ip = box[n].addr]
      BY <1>1, <3>1
    <3> QED BY <1>1, <1>6, <3>2 DEF Command
  <2>2. CASE Rewrite(q)
    <3>1. cmd[q].ip = box[n].addr /\ \E to : Step(q, to)
      BY <1>5, <2>2 DEF Rewrite, WriteConfig, Fails
    <3> QED BY <1>6, <3>1, StepRest
  <2>3. CASE Load(q) \/ State(q) \/ Ready(q)
    <3>1. \E to : Step(q, to) /\ to \notin {"check", "pin", "write"}
      BY <2>3 DEF Load, State, Ready, Fails
    <3> QED BY <3>1, StepRest
  <2>4. CASE StartContainer(q) \/ Connect(q)
    <3>1. cmd'[q].pc \in {"address", "done", "failed"}
      BY <1>1, <2>4 DEF StartContainer, Connect, Fails, Step, Command
    <3> QED BY <3>1
  <2> QED BY <2>1, <2>2, <2>3, <2>4 DEF Dial
<1> QED BY <1>2, <1>6, <1>8, <1>9, <1>10 DEF Beside

(* An undisturbed create, beside a step of another command.                *)
LEMMA OthersStep ==
  ASSUME Types, NEW p \in Procs, CreateGood(p), NEW q \in Procs, p # q, Framed(q),
         Create(q) \/ Dial(q) \/ Remove(q) \/ RemoveHost(q) \/ Kill(q), ~DestroyHost(q)
  PROVE  CreateGood(p)'
<1> DEFINE n == cmd[p].name
<1>1. /\ cmd'[p] = cmd[p] /\ calm'[p] = calm[p] /\ builder'[p] = builder[p]
      /\ Up => Up'
      /\ host.has \subseteq host'.has
      /\ \A r \in Procs \ {q} : cmd'[r] = cmd[r]
      /\ cmd'[q].op = cmd[q].op /\ cmd'[q].name = cmd[q].name
  BY FramedCommand DEF Framed, Kept
<1> SUFFICES ASSUME calm[p], cmd[p].op = "create", Active(p), Good(p), \A r \in On(n) \ {p} : Beside(p, r)
    PROVE  Good(p)' /\ \A r \in On(n)' \ {p} : Beside(p, r)'
  BY <1>1 DEF CreateGood, Active
<1>2. n \in Names
  BY Places
<1>3. ASSUME box'[n] = box[n], NEW r \in On(n)' \ {p}, r # q PROVE Beside(p, r)'
  <2>1. r \in On(n) \ {p} /\ cmd'[r] = cmd[r]
    BY <1>1, <1>3 DEF On, Active
  <2> QED BY <1>1, <1>3, <2>1 DEF Beside
<1>4. CASE cmd[q].name # n
  <2>1. entry'[n] = entry[n] /\ files'[n] = files[n] /\ box'[n] = box[n]
    BY <1>2, <1>4 DEF Framed, Kept
  <2>2. Good(p)'
    BY <1>1, <2>1, GoodStays
  <2>3. q \notin On(n)'
    BY <1>1, <1>4 DEF On
  <2> QED BY <1>3, <2>1, <2>2, <2>3
<1>5. CASE cmd[q].name = n
  <2>1. Active(q) /\ Beside(p, q)
    BY <1>5, AtWork DEF On
  <2>2. cmd[q].op \in {"dial", "host rm", "host rm --force"}
    BY <2>1, Places DEF Beside, Disturbing, Active, Ops
  <2>3. CASE Kill(q) \/ CountUsers(q)
    <3>1. UNCHANGED <<registryVars, hostVars>>
      BY <2>3 DEF Kill, CountUsers
    <3>2. Good(p)' /\ box'[n] = box[n]
      BY <1>1, <3>1, GoodStays DEF registryVars, hostVars
    <3>3. Active(q)' => Beside(p, q)'
      <4>1. cmd'[q].pc \in Ended \cup {"destroy"}
        BY <2>3, StepRest DEF Kill, CountUsers, Fails, Ended
      <4>2. Active(q)' => cmd'[q].pc = "destroy" /\ cmd[q].op # "dial"
        BY <2>3, <4>1, StepRest DEF Active, CountUsers, Kill, Ended
      <4> QED BY <1>1, <2>1, <4>2 DEF Beside
    <3> QED BY <1>3, <3>2, <3>3 DEF On
  <2>4. CASE cmd[q].op = "dial" /\ Dial(q)
    <3>1. Good(p)' /\ box' = box /\ (Active(q)' => Beside(p, q)')
      BY <1>5, <2>1, <2>4, DialBeside
    <3> QED BY <1>3, <3>1 DEF On
  <2> QED BY <2>2, <2>3, <2>4, AtWork DEF RemoveHost
<1> QED BY <1>4, <1>5

(* An undisturbed create takes a step on the host: none of them fails, and *)
(* what it needs is there when it gets to it.                              *)
LEMMA HostGood ==
  ASSUME Types, NEW p \in Procs, Good(p), cmd[p].op = "create", calm'[p], Framed(p),
         Refuse(p) \/ HostThere(p) \/ StartHost(p) \/ Available(p) \/ Install(p) \/ NetworkThere(p) \/ NetCreate(p)
         \/ ImageExists(p) \/ Build(p) \/ Commit(p) \/ Unbuild(p)
  PROVE  cmd'[p].pc # "failed" /\ Good(p)' /\ cmd[p].pc \notin Registered
<1> USE DEF Hostless, Boxless, Unlisted, Linked, Built, Keyed, Running1, Authorized, Located, Pinned, Configured,
        Registered, DialSteps
<1> DEFINE n == cmd[p].name
<1>1. n \in Names /\ host \in Hosts /\ cmd'[p].name = n /\ builder \in [Procs -> Procs \cup {Nobody}]
  BY Places, FramedCommand DEF Types
<1>2. CASE Refuse(p)
  <2>1. entry[n] \notin {"lima", "container"} /\ box[n].state = "absent" /\ ~cmd[p].started /\ cmd[p].pc = "begin"
    BY <1>2 DEF Good, Refuse
  <2>2. Step(p, "host")
    BY <1>2, <2>1 DEF Refuse, Listed
  <2>3. UNCHANGED <<registryVars, hostVars>>
    BY <1>2 DEF Refuse
  <2>4. cmd'[p].pc = "host" /\ cmd'[p].started = cmd[p].started
    BY <2>2, StepRest
  <2>5. UNCHANGED <<entry, box>>
    BY <2>3 DEF registryVars, hostVars
  <2> QED BY <1>1, <2>1, <2>4, <2>5 DEF Good
<1>3. CASE HostThere(p) \/ StartHost(p)
  <2>1. /\ entry[n] \notin {"lima", "container"} /\ box[n].state = "absent" /\ ~cmd[p].started
        /\ cmd[p].pc \in {"host", "start host"}
    BY <1>3 DEF Good, HostThere, StartHost
  <2>2. \/ Step(p, "podman") /\ Up'
        \/ Step(p, "start host")
    <3>1. CASE HostThere(p)
      BY <3>1 DEF HostThere, hostVars, Up
    <3>2. CASE StartHost(p)
      BY <1>1, <3>2 DEF StartHost, Up, Hosts, Types
    <3> QED BY <1>3, <3>1, <3>2
  <2>3. /\ \/ cmd'[p].pc = "podman" /\ Up'
           \/ cmd'[p].pc = "start host"
        /\ cmd'[p].started = cmd[p].started
    BY <2>2, StepRest
  <2>4. UNCHANGED <<entry, box>>
    BY <1>3 DEF HostThere, StartHost, registryVars, hostVars
  <2> QED BY <1>1, <2>1, <2>3, <2>4 DEF Good
<1>4. CASE Available(p) \/ NetworkThere(p) \/ ImageExists(p)
  <2>1. /\ cmd[p].pc \in {"podman", "network", "image"} /\ UNCHANGED <<registryVars, hostVars>>
        /\ \/ cmd[p].pc = "podman" /\ (Step(p, "network") \/ Step(p, "install"))
           \/ cmd[p].pc = "network" /\ (Step(p, "net create") \/ ("network" \in host.has /\ Step(p, "image")))
           \/ cmd[p].pc = "image" /\ (Step(p, "build") \/ ("image" \in host.has /\ Step(p, "key")))
    BY <1>4 DEF Available, NetworkThere, ImageExists, Has
  <2>2. entry[n] \notin {"lima", "container"} /\ box[n].state = "absent" /\ ~cmd[p].started /\ Up
        /\ (cmd[p].pc = "image" => "network" \in host.has)
    BY <2>1 DEF Good
  <2>3. /\ UNCHANGED <<entry, box, host>> /\ ~cmd'[p].started
        /\ cmd'[p].pc \in {"network", "install", "net create", "image", "build", "key"}
        /\ cmd'[p].pc \in {"image", "build", "key"} => "network" \in host.has
        /\ cmd'[p].pc = "key" => "image" \in host.has
        /\ cmd[p].pc \in {"podman", "network", "image"}
    <3>1. UNCHANGED <<entry, box, host>>
      BY <2>1 DEF registryVars, hostVars
    <3>2. CASE Step(p, "network") \/ Step(p, "install") \/ Step(p, "net create")
      <4>1. cmd'[p].pc \in {"network", "install", "net create"} /\ cmd'[p].started = cmd[p].started
        BY <3>2, StepRest
      <4> QED BY <2>1, <2>2, <3>1, <4>1
    <3>3. CASE "network" \in host.has /\ (Step(p, "image") \/ Step(p, "build"))
      <4>1. cmd'[p].pc \in {"image", "build"} /\ cmd'[p].started = cmd[p].started
        BY <3>3, StepRest
      <4> QED BY <2>1, <2>2, <3>1, <3>3, <4>1
    <3>4. CASE {"network", "image"} \subseteq host.has /\ Step(p, "key")
      <4>1. cmd'[p].pc = "key" /\ cmd'[p].started = cmd[p].started
        BY <3>4, StepRest
      <4> QED BY <2>1, <2>2, <3>1, <3>4, <4>1
    <3> QED BY <2>1, <2>2, <3>2, <3>3, <3>4
  <2> QED BY <1>1, <2>2, <2>3 DEF Good, Up
<1>5. CASE Install(p) \/ NetCreate(p)
  <2>1. /\ cmd[p].pc \in {"install", "net create"} /\ UNCHANGED <<registryVars, box>> /\ Up
        /\ entry[n] \notin {"lima", "container"} /\ box[n].state = "absent" /\ ~cmd[p].started
    BY <1>5 DEF Install, NetCreate, Good
  <2>2. \/ Puts(p, "podman", "network") /\ cmd[p].pc = "install"
        \/ Puts(p, "network", "image") /\ cmd[p].pc = "net create"
    BY <1>5 DEF Install, NetCreate, Types
  <2>3. \/ Step(p, "network") /\ cmd[p].pc = "install"
        \/ Step(p, "image") /\ cmd[p].pc = "net create" /\ host' = [host EXCEPT !.has = @ \cup {"network"}]
    BY <2>1, <2>2 DEF Puts
  <2>4. cmd'[p].pc = "image" => "network" \in host'.has
    <3>1. CASE Step(p, "network")
      BY <3>1, StepRest
    <3>2. CASE host' = [host EXCEPT !.has = @ \cup {"network"}]
      BY <1>1, <3>2 DEF Hosts
    <3> QED BY <2>3, <3>1, <3>2
  <2>5. Up'
    BY <2>1 DEF Framed, Kept
  <2>6. cmd'[p].pc \in {"network", "image"} /\ ~cmd'[p].started
    BY <2>1, <2>3, StepRest
  <2> QED BY <1>1, <2>1, <2>4, <2>5, <2>6 DEF Good, registryVars
<1>6. CASE Build(p) \/ Commit(p) \/ Unbuild(p)
  <2>1. /\ cmd[p].pc \in {"build", "commit", "unbuild"} /\ UNCHANGED <<registryVars, box>> /\ Up
        /\ entry[n] \notin {"lima", "container"} /\ box[n].state = "absent" /\ ~cmd[p].started
        /\ "network" \in host.has /\ (cmd[p].pc = "unbuild" => "image" \in host.has)
        /\ (cmd[p].pc = "commit" => builder[p] = p)
    BY <1>6 DEF Build, Commit, Unbuild, Good
  <2>2. Up' /\ "network" \in host'.has /\ ("image" \in host.has => "image" \in host'.has)
    BY <2>1 DEF Framed, Kept
  <2>3. \/ cmd[p].pc = "build" /\ Step(p, "commit") /\ builder'[p] = p
        \/ cmd[p].pc = "commit" /\ Step(p, "unbuild") /\ host' = [host EXCEPT !.has = @ \cup {"image"}]
        \/ cmd[p].pc = "unbuild" /\ Step(p, "key")
    BY <1>1, <1>6, <2>1 DEF Build, Commit, Unbuild, BuilderName, Puts
  <2>4. cmd[p].pc = "commit" => "image" \in host'.has
    BY <1>1, <2>3 DEF Hosts
  <2>5. /\ cmd'[p].pc \in {"commit", "unbuild", "key"} /\ ~cmd'[p].started
        /\ (cmd'[p].pc = "commit" => builder'[p] = p)
        /\ (cmd'[p].pc \in {"unbuild", "key"} => "image" \in host'.has)
    BY <2>1, <2>2, <2>3, <2>4, StepRest
  <2> QED BY <1>1, <2>1, <2>2, <2>5 DEF Good, registryVars
<1> QED BY <1>2, <1>3, <1>4, <1>5, <1>6

(* ... and on its files and its container.                                 *)
LEMMA ContainerGood ==
  ASSUME Types, Addressed, NEW p \in Procs, Good(p), cmd[p].op = "create", calm'[p], Framed(p),
         GenerateKey(p) \/ RunContainer(p) \/ AuthorizeKey(p) \/ FirstIP(p) \/ Keyscan(p) \/ FirstConfig(p)
         \/ Register(p)
  PROVE  cmd'[p].pc # "failed" /\ Good(p)' /\ cmd[p].pc \notin Registered
<1> USE DEF Hostless, Boxless, Unlisted, Linked, Built, Keyed, Running1, Authorized, Located, Pinned, Configured,
        Registered, DialSteps
<1> DEFINE n == cmd[p].name
<1>1. /\ n \in Names /\ cmd'[p].name = n /\ files[n] \in Files /\ box[n] \in Boxes /\ entry[n] \in {"none", "dir", "lima", "container"}
      /\ files \in [Names -> Files] /\ box \in [Names -> Boxes] /\ cmd[p] \in Command
      /\ entry \in [Names -> {"none", "dir", "lima", "container"}] /\ cmd \in [Procs -> Command]
  BY Places, FramedCommand DEF Types
<1>2. Up => Up'
  BY DEF Framed, Kept
<1>3. CASE GenerateKey(p)
  <2>1. /\ cmd[p].pc = "key" /\ Up /\ ~cmd[p].started /\ box[n].state = "absent" /\ UNCHANGED <<box, host>>
        /\ entry[n] \notin {"lima", "container"} /\ {"network", "image"} \subseteq host.has
    BY <1>3 DEF GenerateKey, Good, hostVars
  <2>2. cmd'[p].pc = "run" /\ cmd'[p].started = cmd[p].started
    BY <1>3, StepRest DEF GenerateKey
  <2>3. entry'[n] = "dir" /\ files'[n].key = p
    <3>1. files'[n] = [files[n] EXCEPT !.key = p]
      BY <1>1, <1>3 DEF GenerateKey
    <3>2. entry'[n] = IF entry[n] = "none" THEN "dir" ELSE entry[n]
      BY <1>1, <1>3 DEF GenerateKey
    <3> QED BY <1>1, <2>1, <3>1, <3>2 DEF Files
  <2> QED BY <1>1, <2>1, <2>2, <2>3 DEF Good, Up
<1>4. CASE RunContainer(p)
  <2>1. /\ cmd[p].pc = "run" /\ Up /\ ~cmd[p].started /\ box[n].state = "absent" /\ UNCHANGED <<registryVars, host>>
        /\ entry[n] \notin {"lima", "container", "none"} /\ {"network", "image"} \subseteq host.has
        /\ files[n].key = p
    BY <1>4 DEF RunContainer, Good
  <2>2. PICK a \in FreeAddrs :
          box' = [box EXCEPT ![n] = [state |-> "running", made |-> p, addr |-> a, keys |-> {}]]
    BY <1>4, <2>1 DEF RunContainer
  <2>3. Step(p, "authorize")
    BY <1>4, <2>1 DEF RunContainer
  <2>4. cmd'[p].pc = "authorize" /\ cmd'[p].started = cmd[p].started
    BY <2>3, StepRest
  <2>5. box'[n].state = "running" /\ box'[n].made = p
    BY <1>1, <2>2
  <2> QED BY <1>1, <2>1, <2>4, <2>5 DEF Good, registryVars, Up
<1>5. CASE AuthorizeKey(p)
  <2>1. /\ cmd[p].pc = "authorize" /\ Up /\ ~cmd[p].started /\ box[n].state = "running" /\ box[n].made = p
        /\ UNCHANGED <<registryVars, host>>
        /\ entry[n] \notin {"lima", "container", "none"} /\ files[n].key = p
    BY <1>5 DEF AuthorizeKey, Good
  <2>2. box' = [box EXCEPT ![n].keys = @ \cup {p}] /\ Step(p, "ip")
    BY <1>5, <2>1 DEF AuthorizeKey, Running
  <2>3. cmd'[p].pc = "ip" /\ cmd'[p].started = cmd[p].started
    BY <2>2, StepRest
  <2>4. box'[n].state = "running" /\ box'[n].made = p /\ p \in box'[n].keys
    <3>1. box'[n] = [box[n] EXCEPT !.keys = @ \cup {p}]
      BY <1>1, <2>2
    <3> QED BY <1>1, <2>1, <3>1 DEF Boxes
  <2> QED BY <1>1, <2>1, <2>3, <2>4 DEF Good, registryVars, Up
<1>6. CASE FirstIP(p)
  <2>1. /\ cmd[p].pc = "ip" /\ Up /\ ~cmd[p].started /\ box[n].state = "running" /\ box[n].made = p
        /\ UNCHANGED <<registryVars, hostVars>>
        /\ entry[n] \notin {"lima", "container", "none"} /\ files[n].key = p /\ p \in box[n].keys
    BY <1>6 DEF FirstIP, Good
  <2>2. "scan" \in (StepsOf(cmd[p].op) \cup Ended) \cap Steps
    BY DEF StepsOf, Steps
  <2>3. cmd'[p].ip = box[n].addr /\ cmd'[p].started = cmd[p].started /\ cmd'[p].pc = "scan"
    BY <1>1, <1>6, <2>1, <2>2, Resolves DEF FirstIP, Running, Moves
  <2> QED BY <1>1, <2>1, <2>3 DEF Good, registryVars, hostVars, Up
<1>7. CASE Keyscan(p)
  <2>1. /\ cmd[p].pc = "scan" /\ Up /\ ~cmd[p].started /\ box[n].state = "running" /\ box[n].made = p
        /\ UNCHANGED <<entry, hostVars>> /\ cmd[p].ip = box[n].addr
        /\ entry[n] \notin {"lima", "container", "none"} /\ files[n].key = p /\ p \in box[n].keys
    BY <1>7 DEF Keyscan, Good
  <2>2. At(cmd[p].ip) = {n}
    BY <1>1, <2>1 DEF At, Running, Addressed
  <2>3. files' = [files EXCEPT ![n].pin = box[n].made, ![n].at = cmd[p].ip] /\ Step(p, "ssh config")
    BY <1>7, <2>1, <2>2 DEF Keyscan
  <2>4. cmd'[p].pc = "ssh config" /\ cmd'[p].started = cmd[p].started /\ cmd'[p].ip = cmd[p].ip
    BY <2>3, StepRest
  <2>5. files'[n].key = p /\ files'[n].pin = p /\ files'[n].at = box[n].addr
    <3>1. files'[n] = [files[n] EXCEPT !.pin = box[n].made, !.at = cmd[p].ip]
      BY <1>1, <2>3
    <3> QED BY <1>1, <2>1, <3>1 DEF Files
  <2> QED BY <1>1, <2>1, <2>4, <2>5 DEF Good, hostVars, Up
<1>8. CASE FirstConfig(p)
  <2>1. /\ cmd[p].pc = "ssh config" /\ Up /\ ~cmd[p].started /\ box[n].state = "running" /\ box[n].made = p
        /\ UNCHANGED <<entry, hostVars>> /\ cmd[p].ip = box[n].addr
        /\ entry[n] \notin {"lima", "container", "none"} /\ files[n].key = p /\ p \in box[n].keys
        /\ files[n].pin = p /\ files[n].at = box[n].addr
    BY <1>8 DEF FirstConfig, Good
  <2>2. files' = [files EXCEPT ![n].addr = cmd[p].ip] /\ Step(p, "register")
    BY <1>8, <2>1 DEF FirstConfig, WriteConfig, Up
  <2>3. cmd'[p].pc = "register" /\ cmd'[p].started = cmd[p].started /\ cmd'[p].ip = cmd[p].ip
    BY <2>2, StepRest
  <2>4. files'[n].key = p /\ files'[n].pin = p /\ files'[n].at = box[n].addr /\ files'[n].addr = box[n].addr
    <3>1. files'[n] = [files[n] EXCEPT !.addr = cmd[p].ip]
      BY <1>1, <2>2
    <3> QED BY <1>1, <2>1, <3>1, ZenonT(30) DEF Files
  <2> QED BY <1>1, <2>1, <2>3, <2>4, ZenonT(30) DEF Good, hostVars, Up
<1>9. CASE Register(p)
  <2>1. /\ cmd[p].pc = "register" /\ Up /\ ~cmd[p].started /\ box[n].state = "running" /\ box[n].made = p
        /\ UNCHANGED <<files, hostVars>> /\ cmd[p].ip = box[n].addr
        /\ files[n].key = p /\ p \in box[n].keys
        /\ files[n].pin = p /\ files[n].at = box[n].addr /\ files[n].addr = box[n].addr
    BY <1>9 DEF Register, Good
  <2>2. cmd'[p].pc = "state" /\ cmd'[p].started = cmd[p].started /\ cmd'[p].ip = cmd[p].ip
    BY <1>9, StepRest DEF Register
  <2>3. entry'[n] = "container"
    BY <1>1, <1>9 DEF Register
  <2> QED BY <1>1, <2>1, <2>2, <2>3 DEF Good, hostVars, Up
<1> QED BY <1>3, <1>4, <1>5, <1>6, <1>7, <1>8, <1>9

(* ... and when it dials its own sandbox for the bootstrap, and ends.      *)
LEMMA BootstrapGood ==
  ASSUME Types, Addressed, NEW p \in Procs, Good(p), cmd[p].op = "create", Framed(p),
         Dial(p) \/ FinishCreate(p)
  PROVE  /\ cmd'[p].pc # "failed" /\ (Active(p)' => Good(p)')
         /\ box' = box /\ cmd'[p].pc \in Registered \cup {"done"}
<1> USE DEF Hostless, Boxless, Unlisted, Linked, Built, Keyed, Running1, Authorized, Located, Pinned, Configured,
        Registered, DialSteps
<1> DEFINE n == cmd[p].name
<1>1. /\ n \in Names /\ cmd'[p].name = n /\ cmd[p] \in Command /\ cmd \in [Procs -> Command]
      /\ files[n] \in Files /\ files \in [Names -> Files]
  BY Places, FramedCommand DEF Types
<1>2. /\ cmd[p].pc \in Registered \ {"start"} /\ ~Load(p) /\ ~StartContainer(p)
      /\ (FinishCreate(p) => cmd[p].pc = "finish") /\ (Dial(p) => cmd[p].pc # "finish")
  BY DEF Dial, Load, At1, State, StartContainer, CurrentIP, Rewrite, Ready, Connect, FinishCreate, Good
<1>3. /\ Running(n) /\ Up /\ box[n].made = p /\ p \in box[n].keys /\ cmd[p].ip = box[n].addr
      /\ files[n].key = p /\ files[n].pin = p /\ files[n].at = box[n].addr /\ files[n].addr = box[n].addr
      /\ entry[n] # "none" /\ ~cmd[p].started
  BY <1>2 DEF Good, Running
<1>4. n \in At(box[n].addr)
  BY <1>1, <1>3 DEF At
<1>5. UNCHANGED <<entry, host, box>>
  BY <1>2 DEF Dial, State, CurrentIP, Rewrite, Ready, Connect, FinishCreate, registryVars, hostVars
<1>6. files' = files \/ files' = [files EXCEPT ![n].at = cmd[p].ip] \/ files' = [files EXCEPT ![n].addr = cmd[p].ip]
  BY <1>2 DEF Dial, State, CurrentIP, Rewrite, WriteConfig, Ready, Connect, FinishCreate, registryVars
<1>7. files'[n].key = p /\ files'[n].pin = p /\ files'[n].at = box[n].addr /\ files'[n].addr = box[n].addr
  <2>1. CASE files' = files
    BY <1>3, <2>1
  <2>2. CASE files' = [files EXCEPT ![n].at = cmd[p].ip]
    <3>1. files'[n] = [files[n] EXCEPT !.at = cmd[p].ip]
      BY <1>1, <2>2
    <3> QED BY <1>1, <1>3, <3>1 DEF Files
  <2>3. CASE files' = [files EXCEPT ![n].addr = cmd[p].ip]
    <3>1. files'[n] = [files[n] EXCEPT !.addr = cmd[p].ip]
      BY <1>1, <2>3
    <3> QED BY <1>1, <1>3, <3>1 DEF Files
  <2> QED BY <1>6, <2>1, <2>2, <2>3
<1>8. /\ cmd'[p].pc \in (Registered \ {"start"}) \cup {"done"}
      /\ cmd'[p].started = cmd[p].started /\ cmd'[p].ip = box[n].addr
  <2>1. CASE State(p)
    <3>1. Step(p, "address")
      BY <1>3, <2>1 DEF State, Running
    <3> QED BY <1>3, <3>1, StepRest
  <2>2. CASE CurrentIP(p)
    <3>1. "check" \in (StepsOf(cmd[p].op) \cup Ended) \cap Steps
      BY DEF StepsOf, Steps
    <3>2. cmd'[p].ip = box[n].addr /\ cmd'[p].started = cmd[p].started /\ cmd'[p].pc = "check"
      BY <1>1, <1>3, <2>2, <3>1, Resolves DEF CurrentIP, Moves
    <3> QED BY <3>2
  <2>3. CASE Rewrite(p)
    <3>1. Step(p, "ready") \/ Step(p, "pin") \/ Step(p, "write")
      BY <1>3, <2>3, DistinctAssumption DEF Rewrite, WriteConfig, Up
    <3> QED BY <1>3, <3>1, StepRest
  <2>4. CASE Ready(p)
    <3>1. Step(p, "connect")
      BY <1>3, <2>4 DEF Ready
    <3> QED BY <1>3, <3>1, StepRest
  <2>5. CASE Connect(p)
    <3>1. n \in Reached(n)
      BY <1>3, <1>4 DEF Reached
    <3>2. PICK m : cmd' = [cmd EXCEPT ![p].pc = "finish", ![p].to = m]
      BY <2>5, <3>1 DEF Connect
    <3>3. cmd'[p] = [cmd[p] EXCEPT !.pc = "finish", !.to = m]
      BY <1>1, <3>2
    <3> QED BY <1>1, <1>3, <3>3 DEF Command
  <2>6. CASE FinishCreate(p)
    BY <1>3, <2>6, StepRest DEF FinishCreate
  <2> QED BY <1>2, <2>1, <2>2, <2>3, <2>4, <2>5, <2>6 DEF Dial
<1>9. Active(p)' => Good(p)'
  <2> SUFFICES ASSUME Active(p)' PROVE Good(p)'
    OBVIOUS
  <2>1. cmd'[p].pc \in Registered \ {"start"}
    BY <1>8 DEF Active, Ended
  <2> QED BY <1>1, <1>3, <1>5, <1>7, <1>8, <2>1 DEF Good, Running, Up
<1> QED BY <1>5, <1>8, <1>9

(* A command's own step keeps what its create has established: every stage finds what the
   stage before it left. *)
LEMMA CreateSelf ==
  ASSUME Types, Addressed, NEW p \in Procs, CreateGood(p), Framed(p),
         Create(p) \/ Dial(p) \/ Remove(p) \/ RemoveHost(p) \/ Kill(p)
  PROVE  CreateGood(p)'
<1> DEFINE n == cmd[p].name
<1>1. /\ cmd'[p].op = cmd[p].op /\ cmd'[p].name = n /\ (calm'[p] => calm[p])
      /\ \A r \in Procs \ {p} : cmd'[r] = cmd[r]
  BY FramedCommand DEF Framed, Kept
<1>2. Active(p)
  BY AtWork
<1> SUFFICES ASSUME calm'[p], cmd[p].op = "create", Good(p), \A r \in On(n) \ {p} : Beside(p, r)
    PROVE  cmd'[p].pc # "failed" /\ (Active(p)' => Good(p)' /\ \A r \in On(n)' \ {p} : Beside(p, r)')
  BY <1>1, <1>2 DEF CreateGood
<1>3. ASSUME cmd[p].pc \in Registered => box' = box /\ cmd'[p].pc \in Registered \cup Ended,
             NEW r \in On(n)' \ {p}, Active(p)'
      PROVE  Beside(p, r)'
  <2>1. r \in On(n) /\ cmd'[r] = cmd[r] /\ Beside(p, r)
    BY <1>1, <1>3 DEF On, Active
  <2>2. cmd[r].pc \in {"check", "pin", "write"} => cmd[r].op = "dial"
    BY <2>1, Places DEF Beside, Disturbing, DialSteps, On
  <2>3. cmd'[p].pc \notin Ended
    BY <1>3 DEF Active
  <2> QED BY <1>1, <1>3, <2>1, <2>2, <2>3 DEF Beside
<1>4. CASE Kill(p)
  <2>1. cmd'[p].pc = "killed"
    BY <1>4, StepRest DEF Kill
  <2> QED BY <2>1 DEF Active, Ended
<1>5. CASE Dial(p) \/ FinishCreate(p)
  <2>1. /\ cmd'[p].pc # "failed" /\ (Active(p)' => Good(p)')
        /\ box' = box /\ cmd'[p].pc \in Registered \cup {"done"}
    BY <1>5, BootstrapGood
  <2> QED BY <1>3, <2>1 DEF Ended
<1>6. CASE CreateContainer(p) \/ Refuse(p) \/ Register(p)
  <2>1. cmd'[p].pc # "failed" /\ Good(p)' /\ cmd[p].pc \notin Registered
    BY <1>6, HostGood, ContainerGood DEF CreateContainer
  <2> QED BY <1>3, <2>1
<1>7. ~CreateVM(p)
  BY Places DEF CreateVM, StartVM, Record, AirGap
<1> QED BY <1>4, <1>5, <1>6, <1>7, AtWork DEF Create

(* A command that begins keeps the creates good: one it disturbs is not calm any more. *)
LEMMA CreateBegins ==
  ASSUME OwnInv, CreateInv, NEW p \in Procs, NEW op \in Ops, NEW n \in Names \cup {Nobody},
         op \notin {"host rm", "host rm --force"} => n \in Names, Begin(p, op, n)
  PROVE  CreateInv'
<1> USE DEF OwnInv
<1>1. /\ cmd[p].pc = "idle" /\ \A q \in Procs \ {p} : cmd'[q] = cmd[q]
      /\ cmd'[p].op = op /\ cmd'[p].name = n /\ cmd'[p].pc = "begin" /\ ~cmd'[p].started
  BY Begins
<1>2. UNCHANGED <<registryVars, hostVars>>
  BY DEF Begin
<1>3. ASSUME NEW r \in Procs \ {p} PROVE CreateGood(r)'
  <2>1. calm'[r] => calm[r] /\ ~(Disturbing(op) /\ r \in On(n))
    BY DEF Begin
  <2> SUFFICES ASSUME calm[r], ~(Disturbing(op) /\ r \in On(n)), cmd[r].op = "create", Active(r), Good(r),
                      \A s \in On(cmd[r].name) \ {r} : Beside(r, s)
      PROVE  Good(r)' /\ \A s \in On(cmd[r].name)' \ {r} : Beside(r, s)'
    BY <1>1, <1>3, <2>1 DEF CreateInv, CreateGood, Active
  <2>2. Good(r)'
    BY <1>1, <1>2, GoodStays DEF registryVars, hostVars, Up
  <2>3. ASSUME NEW s \in On(cmd[r].name)' \ {r} PROVE Beside(r, s)'
    <3>1. CASE s = p
      <4>1. r \in On(n)
        BY <1>1, <2>3, <3>1 DEF On
      <4> QED BY <1>1, <3>1, <4>1 DEF Beside
    <3>2. CASE s # p
      <4>1. s \in On(cmd[r].name) \ {r} /\ cmd'[s] = cmd[s]
        BY <1>1, <2>3, <3>2 DEF On, Active
      <4> QED BY <1>1, <1>2, <4>1 DEF Beside, hostVars
    <3> QED BY <3>1, <3>2
  <2> QED BY <2>2, <2>3
<1>4. CreateGood(p)'
  <2> SUFFICES ASSUME calm'[p], op = "create"
      PROVE  Good(p)' /\ \A s \in On(n)' \ {p} : Beside(p, s)'
    BY <1>1 DEF CreateGood
  <2>1. On(n) = {} /\ n \notin Listed /\ box[n].state = "absent"
    BY DEF Begin, Disturbing
  <2>2. On(n)' \ {p} = {}
    BY <1>1, <2>1 DEF On, Active
  <2>3. entry[n] \notin {"lima", "container"}
    BY <2>1 DEF Listed
  <2>4. Good(p)'
    BY <1>1, <1>2, <2>1, <2>3 DEF Good, registryVars, hostVars, Hostless, Boxless, Unlisted, Linked, Built, Keyed,
       Running1, Authorized, Located, Pinned, Configured, Registered, DialSteps
  <2> QED BY <2>2, <2>4
<1> QED BY <1>3, <1>4 DEF CreateInv

(* Every step, of the create itself or of anybody beside it, keeps the creates good. *)
LEMMA CreateInvStep ==
  ASSUME OwnInv, CreateInv, Step1
  PROVE  CreateInv'
<1> USE DEF OwnInv
<1>1. ASSUME NEW q \in Procs, Framed(q), Create(q) \/ Dial(q) \/ Remove(q) \/ RemoveHost(q) \/ Kill(q),
             ~DestroyHost(q)
      PROVE  CreateInv'
  BY <1>1, OthersStep, CreateSelf DEF CreateInv
<1>2. ASSUME NEW q \in Procs, DestroyHost(q) PROVE CreateInv'
  <2>1. /\ \A r \in Procs : calm'[r] => calm[r] /\ ~Active(r)
        /\ Goes(q) /\ cmd'[q].pc = "done"
    BY <1>2, Destroys, StepRest DEF DestroyHost
  <2>2. \A r \in Procs : cmd'[r] = cmd[r] \/ cmd'[r].pc = "done"
    BY <2>1 DEF Goes, Moves
  <2> QED BY <2>1, <2>2 DEF CreateInv, CreateGood, Active, Ended
<1>3. CASE Restart
  <2>1. cmd' = cmd /\ \A r \in Procs : calm'[r] => calm[r] /\ ~Active(r)
    BY <1>3, Restarts
  <2> QED BY <2>1 DEF CreateInv, CreateGood, Active
<1>4. CASE UNCHANGED vars
  <2>1. UNCHANGED <<entry, files, host, box, builder, cmd, calm>>
    BY <1>4 DEF vars, registryVars, hostVars
  <2>2. \A r \in Procs : Good(r) => Good(r)'
    BY <2>1, GoodStays DEF Up
  <2>3. \A r, q \in Procs : Beside(r, q) => Beside(r, q)'
    BY <2>1 DEF Beside
  <2>4. \A r \in Procs : (Active(r))' = Active(r) /\ \A n : On(n)' = On(n)
    BY <2>1 DEF Active, On
  <2> QED BY <2>1, <2>2, <2>3, <2>4 DEF CreateInv, CreateGood, On
<1> QED BY <1>1, <1>2, <1>3, <1>4, CreateBegins DEF Step1

(* Creates of different sandboxes do not get in each other's way, however  *)
(* many run at once and whatever else does: one that found its name free   *)
(* fails only when it was disturbed. What it needs on the host is there    *)
(* whoever put it there, its container is its own, and it reaches it.      *)
THEOREM CreatesIndependentHolds == FleetSpec => []CreatesIndependent
<1>1. FleetInit => OwnInv /\ CreateInv
  BY OwnInit DEF FleetInit, Init, CreateInv, CreateGood
<1>2. (OwnInv /\ CreateInv) /\ [FleetNext]_<<vars, fleetVars>> => (OwnInv /\ CreateInv)'
  BY FleetSteps, OwnStep, CreateInvStep DEF OwnInv
<1>3. CreateInv => CreatesIndependent
  BY DEF CreateInv, CreateGood, CreatesIndependent
<1> QED BY <1>1, <1>2, <1>3, PTL DEF FleetSpec
-----------------------------------------------------------------------------

(* Of the commands that change a sandbox at most one is at work on a name  *)
(* that is not spoiled.                                                    *)
Solo ==
  \A n \in Names \ spoiled : \A q, r \in On(n) :
    q # r => ~(Disturbing(cmd[q].op) /\ Disturbing(cmd[r].op))

\* What a create, calm or not, has done to a container that is still there.
Making(p) ==
  LET n == cmd[p].name
      pc == cmd[p].pc IN
  /\ pc \in Unlisted \ {"begin"} => entry[n] \notin {"lima", "container"}
  /\ pc \in Keyed => files[n].key = p
  /\ box[n].state # "absent" =>
       /\ pc \in Running1 => box[n].state = "running" /\ box[n].made = p
       /\ pc \in Authorized => p \in box[n].keys
       /\ pc \in Located => cmd[p].ip = box[n].addr
       /\ pc \in Pinned => files[n].pin = p

Makes == \A p \in Procs : cmd[p].op = "create" /\ Active(p) /\ cmd[p].name \notin spoiled => Making(p)

\* The container of a registered sandbox is the one that is trusted, and trusts.
Trusted ==
  \A n \in Names \ spoiled :
    entry[n] = "container" /\ box[n].state # "absent" =>
      files[n].pin = box[n].made /\ files[n].pin # Nobody /\ files[n].key \in box[n].keys

\* A dial that knows where the container is, beside one that is undisturbed.
Fresh(q) ==
  LET n == cmd[q].name
      pc == cmd[q].pc IN
  /\ pc \in {"address", "check", "pin", "write", "ready", "connect"} => box[n].state = "running"
  /\ pc \in {"check", "pin", "write", "ready", "connect"} => cmd[q].ip = box[n].addr
  /\ pc = "write" => files[n].at = box[n].addr
  /\ pc \in {"ready", "connect"} => files[n].addr = box[n].addr

Undisturbed(p) == cmd[p].op = "dial" /\ calm[p] /\ Active(p)

Healthy(n) ==
  /\ n \notin spoiled /\ Up /\ entry[n] = "container" /\ box[n].state # "absent"
  /\ \A q \in On(n) : ~Disturbing(cmd[q].op) /\ (cmd[q].op = "dial" => Fresh(q))

Heals == \A p \in Procs : Undisturbed(p) => Healthy(cmd[p].name)

(* What a dial leaves of a sandbox.                                        *)
LEMMA DialKeeps ==
  ASSUME Types, NEW q \in Procs, Dial(q)
  PROVE  /\ UNCHANGED <<entry, host, builder, calm, spoiled, stale>>
         /\ \A m \in Names :
              /\ files'[m].key = files[m].key /\ files'[m].pin = files[m].pin
              /\ \/ box'[m] = box[m]
                 \/ /\ m = cmd[q].name /\ StartContainer(q) /\ box[m].state = "stopped" /\ box'[m].state = "running"
                    /\ box'[m].made = box[m].made /\ box'[m].keys = box[m].keys
<1>1. UNCHANGED <<entry, host, builder, calm, spoiled, stale>>
  BY DEF Dial, Load, State, StartContainer, CurrentIP, Rewrite, Ready, Connect, registryVars, hostVars
<1>2. ASSUME NEW m \in Names PROVE files'[m].key = files[m].key /\ files'[m].pin = files[m].pin
  <2>1. CASE files' = files
    BY <2>1
  <2>2. CASE files' # files
    <3>1. files' = [files EXCEPT ![cmd[q].name].at = cmd[q].ip] \/ files' = [files EXCEPT ![cmd[q].name].addr = cmd[q].ip]
      BY <2>2 DEF Dial, Load, State, StartContainer, CurrentIP, Rewrite, WriteConfig, Ready, Connect, registryVars
    <3>2. files \in [Names -> Files]
      BY DEF Types
    <3>3. CASE files' = [files EXCEPT ![cmd[q].name].at = cmd[q].ip]
      <4>1. files'[m] = IF m = cmd[q].name THEN [files[m] EXCEPT !.at = cmd[q].ip] ELSE files[m]
        BY <3>2, <3>3
      <4> QED BY <3>2, <4>1 DEF Files
    <3>4. CASE files' = [files EXCEPT ![cmd[q].name].addr = cmd[q].ip]
      <4>1. files'[m] = IF m = cmd[q].name THEN [files[m] EXCEPT !.addr = cmd[q].ip] ELSE files[m]
        BY <3>2, <3>4
      <4> QED BY <3>2, <4>1 DEF Files
    <3> QED BY <3>1, <3>3, <3>4
  <2> QED BY <2>1, <2>2
<1>3. ASSUME NEW m \in Names
      PROVE  \/ box'[m] = box[m]
             \/ /\ m = cmd[q].name /\ StartContainer(q) /\ box[m].state = "stopped" /\ box'[m].state = "running"
                /\ box'[m].made = box[m].made /\ box'[m].keys = box[m].keys
  <2>1. CASE box' = box
    BY <2>1
  <2>2. CASE box' # box
    <3>1. StartContainer(q)
      BY <2>2 DEF Dial, Load, State, CurrentIP, Rewrite, Ready, Connect, hostVars
    <3>2. PICK a \in FreeAddrs : /\ box' = [box EXCEPT ![cmd[q].name].state = "running", ![cmd[q].name].addr = a]
                                 /\ box[cmd[q].name].state = "stopped"
      BY <2>2, <3>1 DEF StartContainer
    <3>3. box \in [Names -> Boxes]
      BY DEF Types
    <3>4. box'[m] = IF m = cmd[q].name THEN [box[m] EXCEPT !.state = "running", !.addr = a] ELSE box[m]
      BY <3>2, <3>3
    <3> QED BY <3>1, <3>2, <3>3, <3>4 DEF Boxes
  <2> QED BY <2>1, <2>2
<1> QED BY <1>1, <1>2, <1>3

(* No step puts two commands that disturb each other on a name that is not spoiled. *)
LEMMA SoloStep ==
  ASSUME Types, Solo, Step1
  PROVE  Solo'
<1>1. ASSUME spoiled \subseteq spoiled',
             \A q \in Procs : Active(q)' => /\ Active(q) /\ cmd'[q].op = cmd[q].op /\ cmd'[q].name = cmd[q].name
      PROVE  Solo'
  BY <1>1 DEF Solo, On
<1>2. ASSUME NEW p \in Procs, Framed(p), Create(p) \/ Dial(p) \/ Remove(p) \/ RemoveHost(p) \/ Kill(p)
      PROVE  Solo'
  BY <1>1, <1>2, FramedCommand, AtWork, ZenonT(30) DEF Framed, Kept, Active
<1>3. ASSUME NEW p \in Procs, DestroyHost(p) PROVE Solo'
  <2>1. Goes(p) /\ Active(p) /\ spoiled' = spoiled
    BY <1>3, Destroys, AtWork DEF DestroyHost, RemoveHost
  <2> QED BY <1>1, <2>1 DEF Goes, Moves, Active
<1>4. CASE Restart
  BY <1>1, <1>4, Restarts DEF Restart, Active
<1>5. CASE UNCHANGED vars
  BY <1>1, <1>5 DEF vars, Active
<1>6. ASSUME NEW p \in Procs, NEW op \in Ops, NEW n \in Names \cup {Nobody},
             op \notin {"host rm", "host rm --force"} => n \in Names, Begin(p, op, n)
      PROVE  Solo'
  <2>1. /\ (\A q \in Procs \ {p} : cmd'[q] = cmd[q]) /\ cmd'[p].op = op /\ cmd'[p].name = n
        /\ spoiled' = IF Disturbing(op) /\ On(n) # {} THEN spoiled \cup {n} ELSE spoiled
    <3>1. (\A q \in Procs \ {p} : cmd'[q] = cmd[q]) /\ cmd'[p].op = op /\ cmd'[p].name = n
      BY <1>6, Begins
    <3>2. spoiled' = IF Disturbing(op) /\ On(n) # {} THEN spoiled \cup {n} ELSE spoiled
      BY <1>6 DEF Begin
    <3> QED BY <3>1, <3>2
  <2> SUFFICES ASSUME NEW m \in Names \ spoiled', NEW q \in On(m)', NEW r \in On(m)', q # r
      PROVE  ~(Disturbing(cmd'[q].op) /\ Disturbing(cmd'[r].op))
    BY DEF Solo
  <2>2. \A s \in On(m)' \ {p} : s \in On(m) /\ cmd'[s] = cmd[s]
    BY <2>1 DEF On, Active
  <2>3. m \notin spoiled
    BY <2>1
  <2>4. CASE q # p /\ r # p
    BY <2>2, <2>3, <2>4 DEF Solo
  <2>5. CASE q = p \/ r = p
    <3>1. m = n /\ On(m) # {}
      BY <2>1, <2>2, <2>5 DEF On
    <3> QED BY <2>1, <2>5, <3>1
  <2> QED BY <2>4, <2>5
<1> QED BY <1>2, <1>3, <1>4, <1>5, <1>6 DEF Step1

(* A create's own step on the host: its name stays without an entry.       *)
LEMMA MakingHost ==
  ASSUME Types, NEW p \in Procs, Making(p), cmd[p].op = "create", Framed(p),
         Refuse(p) \/ HostThere(p) \/ StartHost(p) \/ Available(p) \/ Install(p) \/ NetworkThere(p) \/ NetCreate(p)
         \/ ImageExists(p) \/ Build(p) \/ Commit(p) \/ Unbuild(p)
  PROVE  Active(p)' => Making(p)'
<1> USE DEF Boxless, Unlisted, Linked, Keyed, Running1, Authorized, Located, Pinned, Configured,
        Registered, DialSteps
<1> DEFINE n == cmd[p].name
           Later == {"host", "start host", "podman", "install", "network", "net create", "image", "build", "commit",
                     "unbuild", "key", "failed"}
<1>1. n \in Names /\ cmd'[p].name = n
  BY Places, FramedCommand
<1>2. \E to \in Later : Step(p, to)
  BY DEF Refuse, HostThere, StartHost, Available, Has, Install, Puts, NetworkThere, NetCreate, ImageExists, Build,
     Commit, Unbuild, Fails
<1>3. cmd'[p].pc \in Later
  BY <1>2, StepRest
<1>4. UNCHANGED <<registryVars, box>>
  BY DEF Refuse, HostThere, StartHost, Available, Has, Install, NetworkThere, NetCreate, ImageExists, Build,
     Commit, Unbuild, hostVars
<1>5. entry[n] \notin {"lima", "container"} \/ Step(p, "failed")
  <2>1. CASE Refuse(p)
    BY <1>1, <2>1 DEF Refuse, Listed, Fails
  <2>2. CASE ~Refuse(p)
    <3>1. cmd[p].pc \in Unlisted \ {"begin"}
      BY <2>2 DEF HostThere, StartHost, Available, Has, Install, NetworkThere, NetCreate, ImageExists, Build,
         Commit, Unbuild
    <3> QED BY <3>1 DEF Making
  <2> QED BY <2>1, <2>2
<1>6. CASE Step(p, "failed")
  BY <1>6, StepRest DEF Active, Ended
<1>7. CASE entry[n] \notin {"lima", "container"}
  <2>1. cmd'[p].pc # "failed" => cmd'[p].pc \notin Keyed \cup {"begin"}
    BY <1>3
  <2>2. cmd'[p].pc = "failed" => ~Active(p)'
    BY DEF Active, Ended
  <2> QED BY <1>1, <1>4, <1>7, <2>1, <2>2 DEF Making, registryVars
<1> QED BY <1>5, <1>6, <1>7

(* Its steps on the files and the container.                               *)
LEMMA MakingContainer ==
  ASSUME Types, Addressed, NEW p \in Procs, Making(p), cmd[p].op = "create", Framed(p),
         GenerateKey(p) \/ RunContainer(p) \/ AuthorizeKey(p) \/ FirstIP(p) \/ Keyscan(p) \/ FirstConfig(p)
         \/ Register(p)
  PROVE  Active(p)' => Making(p)'
<1> USE DEF Boxless, Unlisted, Linked, Keyed, Running1, Authorized, Located, Pinned, Configured,
        Registered, DialSteps
<1> DEFINE n == cmd[p].name
<1>1. /\ n \in Names /\ cmd'[p].name = n /\ files[n] \in Files /\ box[n] \in Boxes
      /\ entry[n] \in {"none", "dir", "lima", "container"}
      /\ files \in [Names -> Files] /\ box \in [Names -> Boxes] /\ cmd[p] \in Command
      /\ entry \in [Names -> {"none", "dir", "lima", "container"}] /\ cmd \in [Procs -> Command]
  BY Places, FramedCommand DEF Types
<1>2. Step(p, "failed") => ~Active(p)'
  BY StepRest DEF Active, Ended
<1>3. CASE GenerateKey(p)
  <2>1. cmd[p].pc = "key" /\ box' = box /\ entry[n] \notin {"lima", "container"}
    BY <1>3 DEF GenerateKey, Making, hostVars
  <2>2. cmd'[p].pc = "run"
    BY <1>3, StepRest DEF GenerateKey
  <2>3. entry'[n] \notin {"lima", "container"} /\ files'[n].key = p
    <3>1. files'[n] = [files[n] EXCEPT !.key = p]
      BY <1>1, <1>3 DEF GenerateKey
    <3>2. entry'[n] = IF entry[n] = "none" THEN "dir" ELSE entry[n]
      BY <1>1, <1>3 DEF GenerateKey
    <3> QED BY <1>1, <2>1, <3>1, <3>2 DEF Files
  <2> QED BY <1>1, <2>2, <2>3 DEF Making
<1>4. CASE RunContainer(p) /\ ~Step(p, "failed")
  <2>1. cmd[p].pc = "run" /\ UNCHANGED registryVars /\ entry[n] \notin {"lima", "container"} /\ files[n].key = p
    BY <1>4 DEF RunContainer, Making
  <2>2. PICK a \in FreeAddrs :
          box' = [box EXCEPT ![n] = [state |-> "running", made |-> p, addr |-> a, keys |-> {}]]
    BY <1>4 DEF RunContainer, Fails
  <2>3. Step(p, "authorize")
    BY <1>4 DEF RunContainer, Fails
  <2>4. cmd'[p].pc = "authorize"
    BY <2>3, StepRest
  <2>5. box'[n].state = "running" /\ box'[n].made = p
    BY <1>1, <2>2
  <2> QED BY <1>1, <2>1, <2>4, <2>5 DEF Making, registryVars
<1>5. CASE AuthorizeKey(p) /\ ~Step(p, "failed")
  <2>1. /\ cmd[p].pc = "authorize" /\ box[n].state = "running" /\ box[n].made = p
        /\ UNCHANGED registryVars /\ entry[n] \notin {"lima", "container"} /\ files[n].key = p
    BY <1>5 DEF AuthorizeKey, Making, Running, Fails
  <2>2. box' = [box EXCEPT ![n].keys = @ \cup {p}] /\ Step(p, "ip")
    BY <1>5 DEF AuthorizeKey, Fails
  <2>3. cmd'[p].pc = "ip"
    BY <2>2, StepRest
  <2>4. box'[n].state = "running" /\ box'[n].made = p /\ p \in box'[n].keys
    <3>1. box'[n] = [box[n] EXCEPT !.keys = @ \cup {p}]
      BY <1>1, <2>2
    <3> QED BY <1>1, <2>1, <3>1 DEF Boxes
  <2> QED BY <1>1, <2>1, <2>3, <2>4 DEF Making, registryVars
<1>6. CASE FirstIP(p) /\ ~Step(p, "failed")
  <2>1. /\ cmd[p].pc = "ip" /\ box[n].state = "running" /\ box[n].made = p
        /\ UNCHANGED <<registryVars, hostVars>> /\ Running(n)
        /\ entry[n] \notin {"lima", "container"} /\ files[n].key = p /\ p \in box[n].keys
    BY <1>6 DEF FirstIP, Making, Resolve, Running, Fails
  <2>2. "scan" \in (StepsOf(cmd[p].op) \cup Ended) \cap Steps
    BY DEF StepsOf, Steps
  <2>3. cmd'[p].ip = box[n].addr /\ cmd'[p].pc = "scan"
    BY <1>1, <1>6, <2>1, <2>2, Resolves DEF FirstIP, Moves
  <2> QED BY <1>1, <2>1, <2>3 DEF Making, registryVars, hostVars
<1>7. CASE Keyscan(p) /\ ~Step(p, "failed")
  <2>1. /\ cmd[p].pc = "scan" /\ UNCHANGED <<entry, hostVars>>
        /\ entry[n] \notin {"lima", "container"} /\ files[n].key = p
        /\ box[n].state # "absent" =>
             box[n].state = "running" /\ box[n].made = p /\ p \in box[n].keys /\ cmd[p].ip = box[n].addr
    BY <1>7 DEF Keyscan, Making
  <2>2. PICK m \in At(cmd[p].ip) : files' = [files EXCEPT ![n].pin = box[m].made, ![n].at = cmd[p].ip]
    BY <1>7 DEF Keyscan, Fails
  <2>3. Step(p, "ssh config")
    BY <1>7 DEF Keyscan, Fails
  <2>4. cmd'[p].pc = "ssh config" /\ cmd'[p].ip = cmd[p].ip
    BY <2>3, StepRest
  <2>5. box[n].state # "absent" => box[m].made = p
    BY <1>1, <2>1, <2>2 DEF At, Running, Addressed
  <2>6. files'[n].key = p /\ files'[n].pin = box[m].made
    <3>1. files'[n] = [files[n] EXCEPT !.pin = box[m].made, !.at = cmd[p].ip]
      BY <1>1, <2>2
    <3> QED BY <1>1, <2>1, <3>1 DEF Files
  <2> QED BY <1>1, <2>1, <2>4, <2>5, <2>6 DEF Making, hostVars
<1>8. CASE FirstConfig(p) /\ ~Step(p, "failed")
  <2>1. cmd[p].pc = "ssh config" /\ UNCHANGED <<entry, hostVars>> /\ cmd'[p].name = n
    BY <1>1, <1>8 DEF FirstConfig
  <2>2. files' = [files EXCEPT ![n].addr = cmd[p].ip] /\ Step(p, "register")
    BY <1>8 DEF FirstConfig, WriteConfig, Fails
  <2>3. cmd'[p].pc = "register" /\ cmd'[p].ip = cmd[p].ip
    BY <2>2, StepRest
  <2>4. files'[n].key = files[n].key /\ files'[n].pin = files[n].pin
    <3>1. files'[n] = [files[n] EXCEPT !.addr = cmd[p].ip]
      BY <1>1, <2>2
    <3> QED BY <1>1, <3>1 DEF Files
  <2> QED BY <2>1, <2>3, <2>4 DEF Making, hostVars
<1>9. CASE Register(p)
  <2>1. cmd[p].pc = "register" /\ UNCHANGED <<files, hostVars>> /\ cmd'[p].name = n
    BY <1>1, <1>9 DEF Register
  <2>2. cmd'[p].pc = "state" /\ cmd'[p].ip = cmd[p].ip
    BY <1>9, StepRest DEF Register
  <2> QED BY <2>1, <2>2 DEF Making, hostVars
<1> QED BY <1>2, <1>3, <1>4, <1>5, <1>6, <1>7, <1>8, <1>9

(* A dial's step leaves the position in a dial, and what was resolved.     *)
LEMMA DialGoes ==
  ASSUME Types, NEW p \in Procs, Dial(p), Framed(p)
  PROVE  /\ cmd'[p].pc \in Registered \cup Ended
         /\ cmd'[p].ip = cmd[p].ip \/ (CurrentIP(p) /\ Running(cmd[p].name) /\ cmd'[p].ip = box[cmd[p].name].addr)
<1> USE DEF Registered, DialSteps, Ended
<1>1. cmd[p] \in Command /\ cmd \in [Procs -> Command]
  BY Places DEF Types
<1>2. CASE Load(p) \/ State(p) \/ Ready(p) \/ Rewrite(p)
  <2>1. \E to \in Registered \cup Ended : Step(p, to)
    BY <1>2 DEF Load, State, Ready, Rewrite, WriteConfig, Fails
  <2> QED BY <2>1, StepRest
<1>3. CASE StartContainer(p)
  <2>1. Step(p, "failed") \/ cmd' = [cmd EXCEPT ![p].pc = "address", ![p].started = TRUE]
    BY <1>3 DEF StartContainer, Fails
  <2>2. ASSUME cmd' = [cmd EXCEPT ![p].pc = "address", ![p].started = TRUE]
        PROVE  cmd'[p].pc = "address" /\ cmd'[p].ip = cmd[p].ip
    <3>1. cmd'[p] = [cmd[p] EXCEPT !.pc = "address", !.started = TRUE]
      BY <1>1, <2>2
    <3> QED BY <1>1, <3>1 DEF Command
  <2> QED BY <2>1, <2>2, StepRest
<1>4. CASE CurrentIP(p)
  <2>1. Step(p, "failed") \/ (Running(cmd[p].name) /\ cmd' = [cmd EXCEPT ![p].pc = "check", ![p].ip = box[cmd[p].name].addr])
    BY <1>4 DEF CurrentIP, Resolve, Fails
  <2>2. ASSUME cmd' = [cmd EXCEPT ![p].pc = "check", ![p].ip = box[cmd[p].name].addr]
        PROVE  cmd'[p].pc = "check" /\ cmd'[p].ip = box[cmd[p].name].addr
    <3>1. cmd'[p] = [cmd[p] EXCEPT !.pc = "check", !.ip = box[cmd[p].name].addr]
      BY <1>1, <2>2
    <3> QED BY <1>1, <3>1 DEF Command
  <2> QED BY <1>4, <2>1, <2>2, StepRest
<1>5. CASE Connect(p)
  <2> DEFINE then == IF cmd[p].op = "dial" THEN "done" ELSE "finish"
  <2>1. Step(p, "failed") \/ Step(p, then) \/ \E m \in Reached(cmd[p].name) : cmd' = [cmd EXCEPT ![p].pc = then, ![p].to = m]
    BY <1>5 DEF Connect, Fails
  <2>2. then \in {"done", "finish"}
    OBVIOUS
  <2> HIDE DEF then
  <2>3. ASSUME NEW m \in Reached(cmd[p].name), cmd' = [cmd EXCEPT ![p].pc = then, ![p].to = m]
        PROVE  cmd'[p].pc = then /\ cmd'[p].ip = cmd[p].ip
    <3>1. cmd'[p] = [cmd[p] EXCEPT !.pc = then, !.to = m]
      BY <1>1, <2>3
    <3> QED BY <1>1, <3>1 DEF Command
  <2> QED BY <2>1, <2>2, <2>3, StepRest
<1> QED BY <1>2, <1>3, <1>4, <1>5 DEF Dial

(* The refresh and the dial at the end of a create keep it a create that is making its
   container. *)
LEMMA MakingDial ==
  ASSUME Types, NEW p \in Procs, Making(p), cmd[p].op = "create", Framed(p), Dial(p) \/ FinishCreate(p)
  PROVE  Active(p)' => Making(p)'
<1> USE DEF Boxless, Unlisted, Linked, Keyed, Running1, Authorized, Located, Pinned, Configured,
        Registered, DialSteps
<1> DEFINE n == cmd[p].name
<1>1. n \in Names /\ cmd'[p].name = n
  BY Places, FramedCommand
<1>2. CASE FinishCreate(p)
  <2>1. cmd'[p].pc = "done"
    BY <1>2, StepRest DEF FinishCreate
  <2> QED BY <2>1 DEF Active, Ended
<1>3. CASE Dial(p)
  <2>1. cmd'[p].pc \in Registered \cup Ended
        /\ (cmd'[p].ip = cmd[p].ip \/ cmd'[p].ip = box[n].addr)
    BY <1>3, DialGoes
  <2>2. cmd[p].pc \in Registered
    BY <1>3 DEF Dial, Load, At1, State, StartContainer, CurrentIP, Rewrite, Ready, Connect
  <2>3. files'[n].key = files[n].key /\ files'[n].pin = files[n].pin
    BY <1>1, <1>3, DialKeeps
  <2>4. box'[n] = box[n]
    BY <1>1, <1>3, <2>2, DialKeeps DEF Making
  <2> QED BY <1>1, <2>1, <2>2, <2>3, <2>4 DEF Making, Active
<1> QED BY <1>2, <1>3

(* Every step keeps what a create that is making its container knows of it. *)
LEMMA MakesStep ==
  ASSUME Types, Addressed, Solo, Makes, Step1
  PROVE  Makes'
<1> SUFFICES ASSUME NEW p \in Procs, cmd'[p].op = "create", Active(p)', cmd'[p].name \notin spoiled'
    PROVE  Making(p)'
  BY DEF Makes
<1> DEFINE n == cmd[p].name
<1>1. ASSUME NEW q \in Procs, Framed(q), Create(q) \/ Dial(q) \/ Remove(q) \/ RemoveHost(q) \/ Kill(q),
             ~DestroyHost(q)
      PROVE  Making(p)'
  <2>1. /\ spoiled' = spoiled /\ cmd'[p].op = cmd[p].op /\ cmd'[p].name = n
        /\ \A r \in Procs \ {q} : cmd'[r] = cmd[r]
    BY <1>1, FramedCommand DEF Framed, Kept
  <2>2. cmd[p].op = "create" /\ Active(p) /\ n \notin spoiled /\ n \in Names
    BY <1>1, <2>1, AtWork, Places DEF Active
  <2>3. Making(p)
    BY <2>2 DEF Makes
  <2>4. CASE q = p
    <3>1. ~CreateVM(p)
      BY <2>2, Places DEF CreateVM, StartVM, Record, AirGap
    <3>2. ~Kill(p)
      BY StepRest DEF Kill, Active, Ended
    <3>3. Create(p) \/ Dial(p)
      BY <1>1, <2>2, <2>4, <3>2, AtWork
    <3> QED BY <1>1, <2>2, <2>3, <2>4, <3>1, <3>3, MakingHost, MakingContainer, MakingDial DEF Create, CreateContainer
  <2>5. CASE q # p
    <3>1. cmd'[p] = cmd[p]
      BY <2>1, <2>5
    <3>2. CASE cmd[q].name # n
      <4>1. entry'[n] = entry[n] /\ files'[n] = files[n] /\ box'[n] = box[n]
        BY <1>1, <2>2, <3>2 DEF Framed, Kept
      <4> QED BY <2>3, <3>1, <4>1 DEF Making
    <3>3. CASE cmd[q].name = n
      <4>1. Active(q) /\ ~Disturbing(cmd[q].op)
        BY <1>1, <2>2, <2>5, <3>3, AtWork DEF Solo, On, Disturbing
      <4>2. cmd[q].op \in {"dial", "host rm", "host rm --force"}
        BY <4>1, Places DEF Disturbing, Active, Ops
      <4>3. CASE Kill(q) \/ CountUsers(q)
        <5>1. UNCHANGED <<entry, files, box>>
          BY <4>3 DEF Kill, CountUsers, registryVars, hostVars
        <5> QED BY <2>3, <3>1, <5>1 DEF Making
      <4>4. CASE Dial(q)
        <5>1. entry' = entry /\ files'[n].key = files[n].key /\ files'[n].pin = files[n].pin
          BY <2>2, <4>4, DialKeeps
        <5>2. \/ box'[n] = box[n]
              \/ /\ box[n].state = "stopped" /\ box'[n].state = "running"
                 /\ box'[n].made = box[n].made /\ box'[n].keys = box[n].keys
          BY <2>2, <4>4, DialKeeps
        <5>3. Located \subseteq Running1 /\ Authorized \subseteq Running1 /\ Pinned \subseteq Running1
          BY DEF Running1, Authorized, Located
        <5> QED BY <2>3, <3>1, <5>1, <5>2, <5>3 DEF Making
      <4> QED BY <1>1, <4>2, <4>3, <4>4, AtWork DEF RemoveHost
    <3> QED BY <3>2, <3>3
  <2> QED BY <2>4, <2>5
<1>2. ASSUME NEW q \in Procs, DestroyHost(q) PROVE Making(p)'
  <2>2. /\ Goes(q) /\ cmd'[q].pc = "done" /\ UNCHANGED <<entry, files, spoiled>>
    BY <1>2, Destroys, StepRest DEF DestroyHost, registryVars
  <2>3. cmd'[p] = cmd[p] /\ n \in Names
    BY <2>2, Places DEF Goes, Moves, Active, Ended
  <2>4. box'[n].state = "absent"
    BY <1>2, <2>3, Destroys DEF NoBox
  <2>5. Making(p)
    BY <2>2, <2>3 DEF Makes, Active
  <2> QED BY <2>2, <2>3, <2>4, <2>5 DEF Making
<1>3. CASE Restart
  BY <1>3 DEF Restart, Active
<1>4. CASE UNCHANGED vars
  BY <1>4 DEF vars, registryVars, hostVars, Makes, Making, Active
<1>5. ASSUME NEW q \in Procs, NEW op \in Ops, NEW m \in Names \cup {Nobody},
             op \notin {"host rm", "host rm --force"} => m \in Names, Begin(q, op, m)
      PROVE  Making(p)'
  <2>1. (\A r \in Procs \ {q} : cmd'[r] = cmd[r]) /\ cmd'[q].pc = "begin"
    BY <1>5, Begins
  <2>2. UNCHANGED <<registryVars, hostVars>> /\ spoiled \subseteq spoiled'
    BY <1>5 DEF Begin
  <2>3. CASE q = p
    BY <2>1, <2>3 DEF Making, Boxless, Unlisted, Linked, Keyed, Running1, Authorized, Located, Pinned, Configured,
       Registered, DialSteps
  <2>4. CASE q # p
    BY <2>1, <2>2, <2>4 DEF Makes, Making, Active, registryVars, hostVars
  <2> QED BY <2>3, <2>4
<1> QED BY <1>1, <1>2, <1>3, <1>4, <1>5 DEF Step1

(* At the start no name has files, so none is trusted wrongly. *)
LEMMA TrustedInit == Init => Trusted
<1> SUFFICES ASSUME Init PROVE Trusted
  OBVIOUS
<1>1. PICK at \in [left.made -> Addrs] :
        /\ files = [n \in Names |-> IF n \in left.made
                      THEN [key |-> n, pin |-> n, at |-> at[n], addr |-> at[n]] ELSE NoFiles]
        /\ box = [n \in Names |-> IF n \in left.made
                    THEN [state |-> "running", made |-> n, addr |-> at[n], keys |-> {n}] ELSE NoBox]
  BY DEF Init
<1>2. \A n \in Names : IF n \in left.made
        THEN files[n].key = n /\ files[n].pin = n /\ box[n].made = n /\ box[n].keys = {n}
        ELSE box[n].state = "absent"
  BY <1>1 DEF NoFiles, NoBox
<1> QED BY <1>2, DistinctAssumption DEF Trusted

(* Every step keeps the key that known_hosts trusts for a name the key of its container,
   unless the name was spoiled. *)
LEMMA TrustedStep ==
  ASSUME Types, Makes, Trusted, Step1
  PROVE  Trusted'
<1> SUFFICES ASSUME NEW n \in Names, n \notin spoiled', entry'[n] = "container", box'[n].state # "absent"
    PROVE  files'[n].pin = box'[n].made /\ files'[n].pin # Nobody /\ files'[n].key \in box'[n].keys
  BY DEF Trusted
<1>1. ASSUME n \notin spoiled, entry[n] = "container", box[n].state # "absent",
             files'[n].pin = files[n].pin, files'[n].key = files[n].key,
             box'[n].made = box[n].made, box'[n].keys = box[n].keys
      PROVE  files'[n].pin = box'[n].made /\ files'[n].pin # Nobody /\ files'[n].key \in box'[n].keys
  BY <1>1 DEF Trusted
<1>2. ASSUME UNCHANGED <<entry, files, box>>, spoiled \subseteq spoiled'
      PROVE  files'[n].pin = box'[n].made /\ files'[n].pin # Nobody /\ files'[n].key \in box'[n].keys
  BY <1>1, <1>2
<1>3. ASSUME NEW q \in Procs, Framed(q), Create(q) \/ Dial(q) \/ Remove(q) \/ RemoveHost(q) \/ Kill(q),
             ~DestroyHost(q)
      PROVE  files'[n].pin = box'[n].made /\ files'[n].pin # Nobody /\ files'[n].key \in box'[n].keys
  <2>1. spoiled' = spoiled /\ n \notin spoiled
    BY <1>3 DEF Framed, Kept
  <2>2. CASE cmd[q].name # n
    <3>1. entry'[n] = entry[n] /\ files'[n] = files[n] /\ box'[n] = box[n]
      BY <1>3, <2>2 DEF Framed, Kept
    <3> QED BY <1>1, <2>1, <3>1
  <2>3. CASE cmd[q].name = n /\ Dial(q)
    <3>1. entry' = entry /\ files'[n].key = files[n].key /\ files'[n].pin = files[n].pin
          /\ box[n].state # "absent" /\ box'[n].made = box[n].made /\ box'[n].keys = box[n].keys
      BY <2>3, DialKeeps
    <3> QED BY <1>1, <2>1, <3>1
  <2>4. CASE cmd[q].name = n /\ cmd[q].op = "create" /\ Create(q)
    <3>1. Making(q)
      BY <1>3, <2>1, <2>4, AtWork DEF Makes
    <3>2. CASE Refuse(q) \/ FinishCreate(q) \/ HostThere(q) \/ StartHost(q) \/ Available(q) \/ Install(q) \/ NetworkThere(q)
               \/ NetCreate(q) \/ ImageExists(q) \/ Build(q) \/ Commit(q) \/ Unbuild(q)
      <4>1. UNCHANGED <<entry, files, box>>
        BY <3>2 DEF Refuse, FinishCreate, HostThere, StartHost, Available, Has, Install, NetworkThere, NetCreate,
           ImageExists, Build, Commit, Unbuild, registryVars, hostVars
      <4> QED BY <1>2, <2>1, <4>1
    <3>3. CASE GenerateKey(q) \/ RunContainer(q) \/ AuthorizeKey(q) \/ FirstIP(q) \/ Keyscan(q) \/ FirstConfig(q)
      <4>1. cmd[q].pc \in Unlisted \ {"begin"}
        BY <3>3 DEF GenerateKey, RunContainer, AuthorizeKey, FirstIP, Keyscan, FirstConfig, Unlisted, Boxless, Linked
      <4>2. entry[n] \notin {"lima", "container"}
        BY <2>4, <3>1, <4>1 DEF Making
      <4>3. entry' = entry \/ entry' = [entry EXCEPT ![n] = IF @ = "none" THEN "dir" ELSE @]
        BY <2>4, <3>3 DEF GenerateKey, RunContainer, AuthorizeKey, FirstIP, Keyscan, FirstConfig, registryVars
      <4> QED BY <4>2, <4>3 DEF Types
    <3>4. CASE Register(q)
      <4>1. cmd[q].pc = "register" /\ UNCHANGED <<files, box>>
        BY <3>4 DEF Register, hostVars
      <4>2. "register" \in Keyed \cap Running1 \cap Authorized \cap Pinned
        BY DEF Keyed, Running1, Authorized, Located, Pinned, Configured
      <4> QED BY <2>4, <3>1, <4>1, <4>2, DistinctAssumption DEF Making
    <3>5. ~CreateVM(q)
      BY <2>4, Places DEF CreateVM, StartVM, Record, AirGap
    <3> QED BY <2>4, <3>2, <3>3, <3>4, <3>5 DEF Create, CreateContainer
  <2>5. CASE cmd[q].name = n /\ cmd[q].op # "create" /\ Create(q)
    <3>1. ~CreateContainer(q)
      BY <2>5, Places DEF CreateContainer, HostThere, StartHost, Available, Has, Install, NetworkThere, NetCreate, ImageExists,
         Build, Commit, Unbuild, GenerateKey, RunContainer, AuthorizeKey, FirstIP, Keyscan, FirstConfig
    <3>2. CASE Refuse(q) \/ StartVM(q) \/ AirGap(q) \/ FinishCreate(q)
      <4>1. UNCHANGED <<entry, files, box>>
        BY <3>2 DEF Refuse, FinishCreate, StartVM, AirGap, registryVars, hostVars
      <4> QED BY <1>2, <2>1, <4>1
    <3>3. CASE Record(q)
      <4>1. UNCHANGED <<files, box>> /\ (entry' = entry \/ entry' = [entry EXCEPT ![n] = IF @ = "none" THEN "dir" ELSE @])
        BY <2>5, <3>3 DEF Record, hostVars
      <4>2. entry[n] = "container"
        BY <4>1 DEF Types
      <4> QED BY <1>1, <2>1, <4>1, <4>2
    <3>4. ~Register(q)
      <4>1. Register(q) => entry' = [entry EXCEPT ![n] = "lima"]
        BY <2>5 DEF Register
      <4> QED BY <4>1 DEF Types
    <3> QED BY <2>5, <3>1, <3>2, <3>3, <3>4 DEF Create, CreateVM
  <2>6. CASE LoadRm(q) \/ ReadDefault(q) \/ Repoint(q) \/ CountUsers(q) \/ Kill(q)
    <3>1. UNCHANGED <<entry, files, box>>
      BY <2>6 DEF LoadRm, ReadDefault, Repoint, CountUsers, Kill, registryVars, hostVars
    <3> QED BY <1>2, <2>1, <3>1
  <2>7. CASE cmd[q].name = n /\ Delete(q)
    <3>1. UNCHANGED <<entry, files>> /\ (box' = box \/ box' = [box EXCEPT ![n] = NoBox])
      BY <2>7 DEF Delete, registryVars
    <3>2. box' = box
      BY <3>1 DEF Types, NoBox
    <3> QED BY <1>2, <2>1, <3>1, <3>2
  <2>8. CASE cmd[q].name = n /\ Forget(q)
    BY <2>8 DEF Forget, Types
  <2> QED BY <1>3, <2>2, <2>3, <2>4, <2>5, <2>6, <2>7, <2>8 DEF Remove, RemoveHost
<1>4. ASSUME NEW q \in Procs, DestroyHost(q) PROVE FALSE
  BY <1>4, Destroys DEF NoBox
<1>5. CASE Restart
  <2>1. /\ files' = files /\ entry' = entry /\ spoiled \subseteq spoiled'
        /\ box'[n].made = box[n].made /\ box'[n].keys = box[n].keys /\ box[n].state # "absent"
    <3>1. files' = files /\ entry' = entry /\ spoiled \subseteq spoiled'
      BY <1>5 DEF Restart, registryVars
    <3>2. box'[n] = IF box[n].state = "running" THEN [box[n] EXCEPT !.state = "stopped", !.addr = Nobody] ELSE box[n]
      BY <1>5 DEF Restart
    <3>3. box'[n].made = box[n].made /\ box'[n].keys = box[n].keys /\ box[n].state # "absent"
      BY <3>2 DEF Types, Boxes
    <3> QED BY <3>1, <3>3
  <2> QED BY <1>1, <2>1
<1>6. CASE UNCHANGED vars
  BY <1>2, <1>6 DEF vars, registryVars, hostVars
<1>7. ASSUME NEW q \in Procs, NEW op \in Ops, NEW m \in Names \cup {Nobody}, Begin(q, op, m)
      PROVE  UNCHANGED <<entry, files, box>> /\ spoiled \subseteq spoiled'
  BY <1>7 DEF Begin, registryVars, hostVars
<1> QED BY <1>2, <1>3, <1>4, <1>5, <1>6, <1>7 DEF Step1

(* A dial of a healthy sandbox writes no other address than the one the    *)
(* container has, and stays one that knows it.                             *)
LEMMA HealDial ==
  ASSUME Types, NEW q \in Procs, cmd[q].op = "dial", Dial(q), Fresh(q), Framed(q), NEW n, n = cmd[q].name,
         entry[n] = "container"
  PROVE  /\ files'[n].at \in {files[n].at, box[n].addr}
         /\ files'[n].addr \in {files[n].addr, box[n].addr}
         /\ files' # files => box' = box
         /\ Active(q)' => Fresh(q)'
<1>1. /\ n \in Names /\ cmd[q] \in Command /\ cmd \in [Procs -> Command] /\ files[n] \in Files
      /\ files \in [Names -> Files] /\ box[n] \in Boxes /\ box \in [Names -> Boxes]
  BY Places DEF Types
<1>2. cmd'[q].name = n
  BY FramedCommand
<1>3. Fails(q) => ~Active(q)'
  BY StepRest DEF Fails, Active, Ended
<1>4. CASE Load(q)
  <2>1. Step(q, "state") /\ UNCHANGED <<files, box>>
    BY <1>4 DEF Load, registryVars, hostVars
  <2> QED BY <2>1, StepRest DEF Fresh
<1>5. CASE State(q)
  <2>1. UNCHANGED <<files, box>> /\ (Fails(q) \/ Step(q, "start") \/ (Step(q, "address") /\ box[n].state = "running"))
    BY <1>5 DEF State, registryVars, hostVars
  <2> QED BY <1>2, <1>3, <2>1, StepRest DEF Fresh
<1>6. CASE StartContainer(q)
  <2>1. UNCHANGED files
    BY <1>6 DEF StartContainer, registryVars
  <2>2. ASSUME ~Fails(q) PROVE cmd'[q].pc = "address" /\ box'[n].state = "running"
    <3>1. cmd' = [cmd EXCEPT ![q].pc = "address", ![q].started = TRUE]
      BY <1>6, <2>2 DEF StartContainer
    <3>2. cmd'[q] = [cmd[q] EXCEPT !.pc = "address", !.started = TRUE]
      BY <1>1, <3>1
    <3>3. box'[n].state = "running"
      <4>1. \/ \E a \in FreeAddrs : box' = [box EXCEPT ![n].state = "running", ![n].addr = a]
            \/ Running(n) /\ UNCHANGED box
        BY <1>6, <2>2 DEF StartContainer
      <4>2. ASSUME NEW a \in FreeAddrs, box' = [box EXCEPT ![n].state = "running", ![n].addr = a]
            PROVE  box'[n].state = "running"
        <5>1. box'[n] = [box[n] EXCEPT !.state = "running", !.addr = a]
          BY <1>1, <4>2
        <5> QED BY <1>1, <5>1 DEF Boxes
      <4> QED BY <4>1, <4>2 DEF Running
    <3> QED BY <1>1, <3>2, <3>3 DEF Command
  <2> QED BY <1>2, <1>3, <2>1, <2>2 DEF Fresh
<1>7. CASE CurrentIP(q)
  <2>1. UNCHANGED <<files, box>>
    BY <1>7 DEF CurrentIP, registryVars, hostVars
  <2>2. ASSUME ~Fails(q) PROVE cmd'[q].pc = "check" /\ cmd'[q].ip = box[n].addr /\ box[n].state = "running"
    <3>1. Running(n) /\ cmd' = [cmd EXCEPT ![q].pc = "check", ![q].ip = box[n].addr]
      BY <1>7, <2>2 DEF CurrentIP, Resolve
    <3>2. cmd'[q] = [cmd[q] EXCEPT !.pc = "check", !.ip = box[n].addr]
      BY <1>1, <3>1
    <3> QED BY <1>1, <3>1, <3>2 DEF Command, Running
  <2> QED BY <1>2, <1>3, <2>1, <2>2 DEF Fresh
<1>8. CASE Rewrite(q)
  <2>1. box' = box /\ cmd[q].ip = box[n].addr /\ box[n].state = "running"
    BY <1>8 DEF Rewrite, Fresh, hostVars
  <2>2. CASE cmd[q].pc = "check"
    <3>1. files' = files /\ Step(q, IF files[n].addr = cmd[q].ip THEN "ready" ELSE "pin")
      BY <1>8, <2>2 DEF Rewrite, registryVars
    <3> QED BY <1>2, <2>1, <3>1, StepRest DEF Fresh
  <2>3. CASE cmd[q].pc = "pin" /\ ~Fails(q)
    <3>1. files' = [files EXCEPT ![n].at = cmd[q].ip] /\ Step(q, "write")
      BY <1>8, <2>3 DEF Rewrite
    <3>2. files'[n] = [files[n] EXCEPT !.at = cmd[q].ip]
      BY <1>1, <3>1
    <3>3. files'[n].at = box[n].addr /\ files'[n].addr = files[n].addr
      BY <1>1, <2>1, <3>2 DEF Files
    <3>4. cmd'[q].pc = "write" /\ cmd'[q].ip = cmd[q].ip
      BY <3>1, StepRest
    <3> QED BY <1>2, <2>1, <3>3, <3>4 DEF Fresh
  <2>4. CASE cmd[q].pc = "write" /\ ~Fails(q)
    <3>1. files' = [files EXCEPT ![n].addr = cmd[q].ip] /\ Step(q, "ready")
      BY <1>8, <2>4 DEF Rewrite, WriteConfig
    <3>2. files'[n] = [files[n] EXCEPT !.addr = cmd[q].ip]
      BY <1>1, <3>1
    <3>3. files'[n].addr = box[n].addr /\ files'[n].at = files[n].at
      BY <1>1, <2>1, <3>2 DEF Files
    <3>4. cmd'[q].pc = "ready" /\ cmd'[q].ip = cmd[q].ip
      BY <3>1, StepRest
    <3> QED BY <1>2, <2>1, <3>3, <3>4 DEF Fresh
  <2>5. CASE Fails(q) /\ cmd[q].pc \in {"pin", "write"}
    <3>1. cmd'[q].pc = "failed"
      BY <2>5, StepRest DEF Fails
    <3>2. files' = files
      BY <1>8, <2>5, <3>1, StepRest DEF Rewrite, WriteConfig
    <3> QED BY <1>3, <2>5, <3>2
  <2> QED BY <1>8, <2>2, <2>3, <2>4, <2>5 DEF Rewrite
<1>9. CASE Ready(q)
  <2>1. UNCHANGED <<files, box>> /\ (Fails(q) \/ Step(q, "connect")) /\ cmd[q].pc = "ready"
    BY <1>9 DEF Ready, registryVars, hostVars
  <2> QED BY <1>2, <1>3, <2>1, StepRest DEF Fresh
<1>10. CASE Connect(q)
  <2>1. UNCHANGED <<files, box>>
    BY <1>10 DEF Connect, registryVars, hostVars
  <2>2. cmd'[q].pc \in Ended
    BY <1>1, <1>10 DEF Connect, Fails, Step, Command, Ended
  <2> QED BY <2>1, <2>2 DEF Active
<1> QED BY <1>4, <1>5, <1>6, <1>7, <1>8, <1>9, <1>10 DEF Dial

(* A sandbox stays healthy beside a command at work: one that is not a     *)
(* dial is no create and no rm, a dial writes what the others wait for.    *)
LEMMA HealthyStays ==
  ASSUME Types, NEW n \in Names, Healthy(n), NEW q \in Procs, Framed(q),
         Create(q) \/ Dial(q) \/ Remove(q) \/ RemoveHost(q) \/ Kill(q), ~DestroyHost(q)
  PROVE  Healthy(n)'
<1>1. /\ \A r \in Procs \ {q} : cmd'[r] = cmd[r]
      /\ cmd'[q].op = cmd[q].op /\ cmd'[q].name = cmd[q].name /\ Active(q)
  BY FramedCommand, AtWork
<1>2. spoiled' = spoiled /\ Up'
  BY DEF Framed, Kept, Healthy
<1>3. \A r \in On(n)' : r \in On(n) /\ ~Disturbing(cmd'[r].op)
  BY <1>1 DEF On, Active, Healthy
<1>4. \A r \in On(n)' : cmd'[r].op = "dial" => cmd[r].op = "dial" /\ Fresh(r)
  <2>1. \A r \in Procs : cmd'[r].op = cmd[r].op
    BY <1>1
  <2> QED BY <1>3, <2>1 DEF Healthy, On
<1>5. ASSUME UNCHANGED <<entry[n], files[n], box[n]>>, \A r \in On(n)' : cmd'[r].op = "dial" => cmd'[r] = cmd[r]
      PROVE  Healthy(n)'
  BY <1>2, <1>3, <1>4, <1>5 DEF Healthy, Fresh, On
<1>6. CASE cmd[q].name # n
  <2>1. UNCHANGED <<entry[n], files[n], box[n]>>
    BY <1>6 DEF Framed, Kept
  <2> QED BY <1>1, <1>3, <1>5, <1>6, <2>1 DEF On
<1>7. CASE cmd[q].name = n
  <2>1. ~Disturbing(cmd[q].op)
    BY <1>1, <1>7 DEF On, Healthy
  <2>2. cmd[q].op \in {"dial", "host rm", "host rm --force"}
    BY <1>1, <2>1, Places DEF Disturbing, Active, Ops
  <2>3. CASE Kill(q) \/ CountUsers(q)
    <3>1. UNCHANGED <<entry, files, box>>
      BY <2>3 DEF Kill, CountUsers, registryVars, hostVars
    <3>2. cmd'[q].op = "dial" => ~Active(q)'
      BY <1>1, <2>3, StepRest DEF Kill, CountUsers, Active, Ended
    <3> QED BY <1>1, <1>5, <3>1, <3>2 DEF On
  <2>4. CASE Dial(q)
    <3>1. cmd[q].op = "dial"
      BY <2>2, <2>4, AtWork, Places DEF Dial, Load, At1, State, StartContainer, CurrentIP, Rewrite, Ready, Connect,
         DialSteps
    <3>2. Fresh(q) /\ entry[n] = "container"
      BY <1>1, <1>7, <3>1 DEF On, Healthy
    <3>3. /\ files'[n].at \in {files[n].at, box[n].addr}
          /\ files'[n].addr \in {files[n].addr, box[n].addr}
          /\ files' # files => box' = box
          /\ Active(q)' => Fresh(q)'
      BY <1>7, <2>4, <3>1, <3>2, HealDial
    <3>4. /\ entry' = entry
          /\ box'[n] = box[n] \/ (box[n].state = "stopped" /\ box'[n].state = "running")
      BY <2>4, DialKeeps
    <3>5. ASSUME NEW r \in On(n)', cmd'[r].op = "dial" PROVE Fresh(r)'
      <4>1. CASE r = q
        BY <3>3, <3>5, <4>1 DEF On
      <4>2. CASE r # q
        <5>1. cmd'[r] = cmd[r] /\ Fresh(r) /\ cmd[r].name = n
          BY <1>1, <1>3, <1>4, <3>5, <4>2 DEF On
        <5>2. CASE box'[n] = box[n]
          BY <3>3, <5>1, <5>2 DEF Fresh
        <5>3. CASE box[n].state = "stopped"
          <6>1. cmd[r].pc \notin {"address", "check", "pin", "write", "ready", "connect"}
            BY <5>1, <5>3 DEF Fresh
          <6> QED BY <5>1, <6>1 DEF Fresh
        <5> QED BY <3>4, <5>2, <5>3
      <4> QED BY <4>1, <4>2
    <3>6. box'[n].state # "absent" /\ entry'[n] = "container"
      BY <3>2, <3>4 DEF Healthy
    <3> QED BY <1>2, <1>3, <3>5, <3>6 DEF Healthy
  <2> QED BY <1>7, <2>2, <2>3, <2>4, AtWork DEF RemoveHost
<1> QED BY <1>6, <1>7

(* The sandboxes of undisturbed dials are healthy.                         *)
LEMMA HealsStep ==
  ASSUME Types, Heals, Step1
  PROVE  Heals'
<1> SUFFICES ASSUME NEW p \in Procs, Undisturbed(p)' PROVE Healthy(cmd[p].name)'
  BY DEF Heals
<1>1. ASSUME NEW q \in Procs, Framed(q), Create(q) \/ Dial(q) \/ Remove(q) \/ RemoveHost(q) \/ Kill(q),
             ~DestroyHost(q)
      PROVE  Healthy(cmd[p].name)'
  <2>1. cmd'[p].name = cmd[p].name /\ cmd'[p].op = cmd[p].op /\ (Active(p)' => Active(p)) /\ (calm'[p] => calm[p])
    BY <1>1, FramedCommand, AtWork DEF Framed, Kept, Active
  <2>2. Undisturbed(p) /\ cmd[p].name \in Names
    BY <2>1, Places DEF Undisturbed
  <2>3. PICK n \in Names : n = cmd[p].name
    BY <2>2
  <2>4. Healthy(n) /\ cmd'[p].name = n
    BY <2>1, <2>2, <2>3 DEF Heals
  <2>5. Healthy(n)'
    BY <1>1, <2>4, HealthyStays
  <2> QED BY <2>4, <2>5 DEF Healthy, On
<1>2. ASSUME NEW q \in Procs, DestroyHost(q) PROVE FALSE
  <2>1. Goes(q) /\ Active(q) /\ (calm'[p] => calm[p] /\ ~Active(p))
    BY <1>2, Destroys, AtWork DEF RemoveHost
  <2>2. Active(p)' => Active(p)
    BY <2>1 DEF Goes, Moves, Active
  <2> QED BY <2>1, <2>2 DEF Undisturbed
<1>3. CASE Restart
  BY <1>3, Restarts DEF Undisturbed, Active
<1>4. CASE UNCHANGED vars
  <2>1. Undisturbed(p) /\ cmd' = cmd
    BY <1>4 DEF vars, Undisturbed, Active
  <2>2. Healthy(cmd[p].name)
    BY <2>1 DEF Heals
  <2> QED BY <1>4, <2>1, <2>2 DEF vars, registryVars, hostVars, Healthy, Fresh, On, Active, Up
<1>5. ASSUME NEW q \in Procs, NEW op \in Ops, NEW m \in Names \cup {Nobody},
             op \notin {"host rm", "host rm --force"} => m \in Names, Begin(q, op, m)
      PROVE  Healthy(cmd[p].name)'
  <2> DEFINE alone == IF Disturbing(op) THEN On(m) = {}
                      ELSE \A r \in On(m) : ~Disturbing(cmd[r].op) /\ calm[r]
             sound == CASE op = "dial" -> entry[m] = "container" /\ Up /\ box[m].state # "absent"
                                            /\ m \notin spoiled
                        [] op = "create" -> m \notin Listed /\ box[m].state = "absent"
                        [] OTHER -> FALSE
  <2>1. /\ (\A r \in Procs \ {q} : cmd'[r] = cmd[r])
        /\ cmd'[q].op = op /\ cmd'[q].name = m /\ cmd'[q].pc = "begin"
    BY <1>5, Begins
  <2>2. /\ UNCHANGED <<registryVars, hostVars>>
        /\ spoiled' = IF Disturbing(op) /\ On(m) # {} THEN spoiled \cup {m} ELSE spoiled
        /\ \A r \in Procs : calm'[r] = IF r = q THEN alone /\ sound ELSE calm[r] /\ ~(Disturbing(op) /\ r \in On(m))
    BY <1>5 DEF Begin
  <2>3. CASE p = q
    <3>1. op = "dial" /\ alone /\ sound /\ ~Disturbing(op) /\ m \in Names
      BY <1>5, <2>1, <2>2, <2>3 DEF Undisturbed, Disturbing
    <3>2. entry[m] = "container" /\ Up /\ box[m].state # "absent" /\ m \notin spoiled
      BY <3>1
    <3>3. \A r \in On(m) : ~Disturbing(cmd[r].op) /\ calm[r]
      BY <3>1
    <3>4. ASSUME NEW r \in On(m), cmd[r].op = "dial" PROVE Fresh(r)
      <4>1. r \in Procs /\ Undisturbed(r) /\ cmd[r].name = m
        BY <3>3, <3>4 DEF Undisturbed, On
      <4>2. Healthy(m)
        BY <4>1 DEF Heals
      <4> QED BY <3>4, <4>2 DEF Healthy
    <3> HIDE DEF alone, sound
    <3>5. spoiled' = spoiled /\ cmd'[p].name = m
      BY <2>1, <2>2, <2>3, <3>1
    <3>6. \A r \in On(m)' : r = q \/ (r \in On(m) /\ cmd'[r] = cmd[r])
      BY <2>1 DEF On, Active
    <3>7. \A r \in On(m)' : ~Disturbing(cmd'[r].op) /\ (cmd'[r].op = "dial" => Fresh(r)')
      <4> SUFFICES ASSUME NEW r \in On(m)' PROVE ~Disturbing(cmd'[r].op) /\ (cmd'[r].op = "dial" => Fresh(r)')
        OBVIOUS
      <4>1. CASE r = q
        BY <2>1, <3>1, <4>1 DEF Fresh
      <4>2. CASE r # q
        BY <2>2, <3>3, <3>4, <3>6, <4>2 DEF Fresh, registryVars, hostVars
      <4> QED BY <4>1, <4>2
    <3>8. Healthy(m)'
      BY <2>2, <3>2, <3>5, <3>7 DEF Healthy, Up, registryVars, hostVars
    <3> QED BY <3>5, <3>8 DEF Healthy, On
  <2>4. CASE p # q
    <3> HIDE DEF alone, sound
    <3>1. cmd'[p] = cmd[p] /\ Undisturbed(p) /\ ~(Disturbing(op) /\ p \in On(m))
      BY <2>1, <2>2, <2>4 DEF Undisturbed, Active
    <3>0. PICK n \in Names : n = cmd[p].name
      BY <3>1, Places DEF Undisturbed
    <3>2. Healthy(n) /\ p \in On(n)
      BY <3>0, <3>1 DEF Heals, On, Undisturbed
    <3>3. n \notin spoiled' /\ ~(Disturbing(op) /\ m = n)
      BY <2>2, <3>1, <3>2 DEF Healthy
    <3>4. \A r \in On(n)' : (r = q /\ m = n) \/ (r # q /\ r \in On(n) /\ cmd'[r] = cmd[r])
      BY <2>1 DEF On, Active
    <3>5. \A r \in On(n)' : ~Disturbing(cmd'[r].op) /\ (cmd'[r].op = "dial" => Fresh(r)')
      <4> SUFFICES ASSUME NEW r \in On(n)' PROVE ~Disturbing(cmd'[r].op) /\ (cmd'[r].op = "dial" => Fresh(r)')
        OBVIOUS
      <4>1. CASE r = q
        BY <2>1, <3>3, <3>4, <4>1 DEF Fresh
      <4>2. CASE r # q
        BY <2>2, <3>2, <3>4, <4>2 DEF Healthy, Fresh, registryVars, hostVars
      <4> QED BY <4>1, <4>2
    <3>6. Healthy(n)'
      BY <2>2, <3>2, <3>3, <3>5 DEF Healthy, Up, registryVars, hostVars
    <3> QED BY <3>0, <3>1, <3>6 DEF Healthy, On
  <2> QED BY <2>3, <2>4
<1> QED BY <1>1, <1>2, <1>3, <1>4, <1>5 DEF Step1

(* An undisturbed dial has everything it needs, but for files that agree.  *)
LEMMA DialFails ==
  ASSUME Types, Trusted, NEW p \in Procs, cmd[p].op = "dial", NEW n, n = cmd[p].name, Healthy(n), Fresh(p),
         Dial(p), cmd'[p].pc = "failed"
  PROVE  Torn(n) /\ files[n].addr = box[n].addr
<1>1. /\ n \in Names /\ cmd[p] \in Command /\ cmd \in [Procs -> Command] /\ box[n] \in Boxes
      /\ entry[n] = "container" /\ Up /\ box[n].state # "absent"
  BY Places DEF Types, Healthy
<1>2. files[n].pin = box[n].made /\ files[n].pin # Nobody /\ files[n].key \in box[n].keys
  BY <1>1 DEF Trusted, Healthy
<1>3. \A to : Step(p, to) => to = "failed"
  BY StepRest
<1>4. ~Load(p)
  <2>1. Load(p) => Step(p, "state")
    BY <1>1 DEF Load
  <2> QED BY <1>3, <2>1
<1>5. ~State(p)
  <2>1. State(p) => Step(p, "address") \/ Step(p, "start")
    BY <1>1 DEF State
  <2> QED BY <1>3, <2>1
<1>6. ~StartContainer(p)
  <2> SUFFICES ASSUME StartContainer(p) PROVE FALSE
    OBVIOUS
  <2>1. cmd' = [cmd EXCEPT ![p].pc = "address", ![p].started = TRUE]
    BY <1>1 DEF StartContainer
  <2>2. cmd'[p] = [cmd[p] EXCEPT !.pc = "address", !.started = TRUE]
    BY <1>1, <2>1
  <2> QED BY <1>1, <2>2 DEF Command
<1>7. ~CurrentIP(p)
  <2> SUFFICES ASSUME CurrentIP(p) PROVE FALSE
    OBVIOUS
  <2>1. Running(n)
    BY <1>1 DEF CurrentIP, Fresh, Running
  <2>2. cmd' = [cmd EXCEPT ![p].pc = "check", ![p].ip = box[n].addr]
    BY <2>1 DEF CurrentIP, Resolve
  <2>3. cmd'[p] = [cmd[p] EXCEPT !.pc = "check", !.ip = box[n].addr]
    BY <1>1, <2>2
  <2> QED BY <1>1, <2>3 DEF Command
<1>8. ~Rewrite(p)
  <2>1. Rewrite(p) => \E to \in {"ready", "pin", "write"} : Step(p, to)
    BY <1>1, <1>2 DEF Rewrite, WriteConfig, Up
  <2> QED BY <1>3, <2>1
<1>9. ~Ready(p)
  <2>1. Ready(p) => n \in At(cmd[p].ip)
    BY <1>1 DEF Ready, Fresh, At, Running
  <2>2. Ready(p) => Step(p, "connect")
    BY <2>1 DEF Ready
  <2> QED BY <1>3, <2>2
<1>10. CASE Connect(p)
  <2>1. files[n].addr = box[n].addr /\ n \in At(files[n].addr)
    BY <1>1, <1>10 DEF Connect, Fresh, At, Running
  <2>2. Reached(n) = {}
    <3>1. ASSUME NEW m \in Reached(n), cmd' = [cmd EXCEPT ![p].pc = "done", ![p].to = m] PROVE FALSE
      <4>1. cmd'[p] = [cmd[p] EXCEPT !.pc = "done", !.to = m]
        BY <1>1, <3>1
      <4> QED BY <1>1, <4>1 DEF Command
    <3> QED BY <1>10, <3>1 DEF Connect
  <2>3. Torn(n)
    BY <1>1, <1>2, <2>1, <2>2 DEF Reached, Torn
  <2> QED BY <2>1, <2>3
<1> QED BY <1>4, <1>5, <1>6, <1>7, <1>8, <1>9, <1>10 DEF Dial

(* No other step fails a dial.                                             *)
LEMMA FailsStep ==
  ASSUME Types, Trusted, Heals, Step1, NEW p \in Procs, cmd[p].op = "dial", calm[p], cmd[p].pc # "failed",
         cmd'[p].pc = "failed", NEW n, n = cmd[p].name
  PROVE  Healthy(n) /\ Torn(n) /\ files[n].addr = box[n].addr
<1>1. ASSUME NEW q \in Procs, Framed(q), Create(q) \/ Dial(q) \/ Remove(q) \/ RemoveHost(q) \/ Kill(q)
      PROVE  Healthy(n) /\ Torn(n) /\ files[n].addr = box[n].addr
  <2>1. q = p
    BY <1>1, FramedCommand
  <2>2. Active(p) /\ (Dial(p) \/ Kill(p))
    BY <1>1, <2>1, AtWork
  <2>3. ~Kill(p)
    BY StepRest DEF Kill
  <2>4. Healthy(n)
    BY <2>2 DEF Heals, Undisturbed
  <2>5. Fresh(p)
    BY <2>2, <2>4 DEF Healthy, On
  <2> QED BY <2>2, <2>3, <2>4, <2>5, DialFails
<1>2. ASSUME NEW q \in Procs, DestroyHost(q) PROVE FALSE
  <2>1. Goes(q) /\ cmd'[q].pc = "done"
    BY <1>2, Destroys, StepRest DEF DestroyHost
  <2> QED BY <2>1 DEF Goes, Moves
<1>3. ASSUME NEW q \in Procs, NEW op \in Ops, NEW m \in Names \cup {Nobody},
             op \notin {"host rm", "host rm --force"} => m \in Names, Begin(q, op, m)
      PROVE  FALSE
  BY <1>3, Begins
<1>4. CASE Restart
  BY <1>4, Restarts
<1>5. CASE UNCHANGED vars
  BY <1>5 DEF vars
<1> QED BY <1>1, <1>2, <1>3, <1>4, <1>5 DEF Step1

-----------------------------------------------------------------------------

(* What keeps the two files from naming different addresses, unless a      *)
(* restart comes between the steps of a refresh: whoever has looked up the *)
(* address has the one the container has.                                  *)
Refreshes == {"state", "start", "address", "check", "pin", "write"}

\* No dial is under way beside a create that has not registered its sandbox.
Apart(n) ==
  \A p, q \in On(n) : cmd[p].op = "create" /\ cmd[q].op = "dial" /\ cmd[q].pc \in Refreshes =>
    cmd[p].pc \notin Unlisted \ {"begin"} /\ (cmd[p].pc = "begin" => entry[n] = "container")

\* The create's own: it has written what it scanned.
Written(n) ==
  \A p \in On(n) : cmd[p].op = "create" =>
    /\ cmd[p].pc \in {"ssh config", "register"} => files[n].at = cmd[p].ip
    /\ cmd[p].pc = "register" => files[n].addr = cmd[p].ip

\* The other two that change an entry: neither finds a container registered.
Elsewhere(n) ==
  \A p \in On(n) :
    /\ cmd[p].op = "create lima" /\ cmd[p].pc # "begin" => entry[n] # "container"
    /\ cmd[p].pc \in {"delete vm", "forget"} /\ box[n].state # "absent" => entry[n] # "container"

Aims(n) ==
  \A q \in On(n) : cmd[q].pc \in Refreshes /\ box[n].state # "absent" =>
    /\ entry[n] = "container"
    /\ cmd[q].pc \in {"check", "pin", "write"} => box[n].state = "running" /\ cmd[q].ip = box[n].addr
    /\ cmd[q].pc = "write" => files[n].at = box[n].addr

Mendable(n) ==
  entry[n] = "container" /\ box[n].state # "absent" =>
    files[n].at = files[n].addr \/ (box[n].state = "running" /\ files[n].at = box[n].addr)

Mends(n) == Apart(n) /\ Written(n) /\ Elsewhere(n) /\ Aims(n) /\ Mendable(n)

Mended == \A n \in Names \ (spoiled \cup stale) : Mends(n)
Works(q) == (Create(q) \/ Dial(q) \/ Remove(q) \/ RemoveHost(q) \/ Kill(q)) /\ ~DestroyHost(q)

(* Who is at work on a name, after a step of one command.                  *)
LEMMA StaysOn ==
  ASSUME Types, NEW q \in Procs, Framed(q), Works(q), NEW n \in Names
  PROVE  /\ \A r \in Procs \ {q} : cmd'[r] = cmd[r]
         /\ cmd'[q].op = cmd[q].op /\ cmd'[q].name = cmd[q].name /\ Active(q)
         /\ \A r \in On(n)' : r \in On(n) /\ cmd'[r].op = cmd[r].op
         /\ cmd[q].name # n => entry'[n] = entry[n] /\ files'[n] = files[n] /\ box'[n] = box[n]
<1>1. /\ \A r \in Procs \ {q} : cmd'[r] = cmd[r]
      /\ cmd'[q].op = cmd[q].op /\ cmd'[q].name = cmd[q].name /\ Active(q)
  BY FramedCommand, AtWork DEF Works
<1>2. \A r \in On(n)' : r \in On(n) /\ cmd'[r].op = cmd[r].op
  BY <1>1 DEF On, Active
<1> QED BY <1>1, <1>2 DEF Framed, Kept

(* Beside a create, an rm or a command that works with Lima, only a dial   *)
(* of the sandbox changes its files or starts its container.               *)
LEMMA Bystander ==
  ASSUME Types, Solo, NEW n \in Names \ spoiled, NEW p \in On(n), Disturbing(cmd[p].op),
         NEW q \in Procs, q # p, Framed(q), Works(q)
  PROVE  /\ entry'[n] = entry[n]
         /\ \/ files'[n] = files[n] /\ box'[n] = box[n]
            \/ q \in On(n) /\ cmd[q].op = "dial" /\ Dial(q)
<1>1. CASE cmd[q].name # n
  BY <1>1, StaysOn
<1>2. CASE cmd[q].name = n
  <2>1. q \in On(n) /\ ~Disturbing(cmd[q].op)
    BY <1>2, StaysOn DEF On, Solo
  <2>2. cmd[q].op \in {"dial", "host rm", "host rm --force"}
    BY <2>1, Places DEF Disturbing, Ops, On, Active
  <2>3. CASE Kill(q) \/ CountUsers(q)
    BY <2>3 DEF Kill, CountUsers, registryVars, hostVars
  <2>4. CASE cmd[q].op = "dial" /\ Dial(q)
    BY <2>1, <2>4, DialKeeps
  <2> QED BY <2>2, <2>3, <2>4, AtWork DEF Works, RemoveHost
<1> QED BY <1>1, <1>2

(* What a dial writes is the address that it has looked up.                *)
LEMMA DialWrites ==
  ASSUME Types, NEW q \in Procs, Dial(q), NEW n, n = cmd[q].name, n \in Names
  PROVE  \/ files' = files
         \/ /\ cmd[q].pc = "pin" /\ box' = box
            /\ files'[n].at = cmd[q].ip /\ files'[n].addr = files[n].addr /\ cmd'[q].pc = "write"
         \/ /\ cmd[q].pc = "write" /\ box' = box
            /\ files'[n].addr = cmd[q].ip /\ files'[n].at = files[n].at /\ cmd'[q].pc = "ready"
<1>1. files[n] \in Files /\ files \in [Names -> Files]
  BY DEF Types
<1>2. CASE Rewrite(q) /\ files' # files
  <2>1. box' = box
    BY <1>2 DEF Rewrite, hostVars
  <2>2. CASE cmd[q].pc = "pin"
    <3>1. files' = [files EXCEPT ![n].at = cmd[q].ip] /\ Step(q, "write")
      BY <1>2, <2>2 DEF Rewrite
    <3>2. files'[n] = [files[n] EXCEPT !.at = cmd[q].ip]
      BY <1>1, <3>1
    <3>3. cmd'[q].pc = "write"
      BY <3>1, StepRest
    <3> QED BY <1>1, <2>1, <2>2, <3>2, <3>3 DEF Files
  <2>3. CASE cmd[q].pc = "write"
    <3>1. files' = [files EXCEPT ![n].addr = cmd[q].ip] /\ Step(q, "ready")
      BY <1>2, <2>3 DEF Rewrite, WriteConfig
    <3>2. files'[n] = [files[n] EXCEPT !.addr = cmd[q].ip]
      BY <1>1, <3>1
    <3>3. cmd'[q].pc = "ready"
      BY <3>1, StepRest
    <3> QED BY <1>1, <2>1, <2>3, <3>2, <3>3 DEF Files
  <2> QED BY <1>2, <2>2, <2>3 DEF Rewrite, registryVars
<1> QED BY <1>2 DEF Dial, Load, State, StartContainer, CurrentIP, Ready, Connect, registryVars

(* A dial is let in beside a create only when its sandbox is registered,   *)
(* and a create gets past its first step only when it is not.              *)
LEMMA ApartStep ==
  ASSUME Types, Solo, Makes, NEW n \in Names \ spoiled, Apart(n), NEW q \in Procs, Framed(q), Works(q)
  PROVE  Apart(n)'
<1> SUFFICES ASSUME NEW p \in On(n)', NEW r \in On(n)', cmd'[p].op = "create", cmd'[r].op = "dial",
                    cmd'[r].pc \in Refreshes
    PROVE  cmd'[p].pc \notin Unlisted \ {"begin"} /\ (cmd'[p].pc = "begin" => entry'[n] = "container")
  BY DEF Apart
<1>1. /\ p \in On(n) /\ r \in On(n) /\ cmd[p].op = "create" /\ cmd[r].op = "dial" /\ p # r
      /\ p \in Procs /\ r \in Procs /\ Disturbing(cmd[p].op) /\ Active(p) /\ cmd[p].name = n
  BY StaysOn DEF On, Disturbing
<1>2. q # p => cmd'[p] = cmd[p] /\ entry'[n] = entry[n]
  BY <1>1, StaysOn, Bystander
<1>3. q # r => cmd'[r] = cmd[r]
  BY <1>1, StaysOn
<1>4. CASE q # p /\ q # r
  BY <1>1, <1>2, <1>3, <1>4 DEF Apart
<1>5. CASE q = r
  <2>1. Dial(r)
    <3>1. ~Kill(r)
      BY <1>1, StepRest DEF Kill, Refreshes
    <3> QED BY <1>1, <1>5, <3>1, AtWork DEF Works
  <2>2. CASE cmd[r].pc \in Refreshes
    BY <1>1, <1>2, <1>5, <2>2 DEF Apart
  <2>3. CASE Load(r)
    <3>1. entry[n] = "container"
      <4>1. entry[n] # "container" => Step(r, "connect") \/ Step(r, "failed")
        BY <1>1, <2>3 DEF Load, On, Fails
      <4> QED BY <1>1, <4>1, StepRest DEF Refreshes
    <3>2. Making(p)
      BY <1>1 DEF Makes
    <3> QED BY <1>1, <1>2, <1>5, <3>1, <3>2 DEF Making
  <2>4. CASE Ready(r) \/ Connect(r)
    <3>1. cmd[r] \in Command /\ cmd \in [Procs -> Command]
      BY <1>1, Places DEF Types
    <3>2. cmd'[r].pc \in {"connect", "failed", "done"}
      BY <1>1, <2>4, <3>1 DEF Ready, Connect, Fails, Step, Command
    <3> QED BY <3>2 DEF Refreshes
  <2> QED BY <2>1, <2>2, <2>3, <2>4 DEF Dial, State, StartContainer, CurrentIP, Rewrite, Refreshes
<1>6. CASE q = p
  <2>1. cmd[r].pc \in Refreshes
    BY <1>1, <1>3, <1>6
  <2>2. cmd[p].pc \notin Unlisted \ {"begin"} /\ (cmd[p].pc = "begin" => entry[n] = "container")
    BY <1>1, <2>1 DEF Apart
  <2>3. ~Kill(p) /\ ~Fails(p)
    BY StepRest DEF Kill, Fails, On, Active, Ended
  <2>4. ~Refuse(p)
    BY <1>1, <2>2, <2>3 DEF Refuse, Listed
  <2>5. cmd[p].pc \in Registered
    <3>1. cmd[p].pc \in Boxless \cup Keyed
      BY <1>1, Places DEF StepsOf, Active
    <3>2. cmd[p].pc # "begin"
      BY <1>1, <1>6, <2>3, <2>4, AtWork DEF Works, Create, CreateContainer, HostThere, StartHost, Available, Has, Install,
         NetworkThere, NetCreate, ImageExists, Build, Commit, Unbuild, GenerateKey, RunContainer, AuthorizeKey, FirstIP,
         Keyscan, FirstConfig, CreateVM, StartVM, Record, AirGap, Register, FinishCreate, Dial, Load, At1, State,
         StartContainer, CurrentIP, Rewrite, Ready, Connect
    <3> QED BY <2>2, <3>1, <3>2 DEF Unlisted, Boxless, Linked, Keyed, Running1, Authorized, Located, Pinned,
          Configured
  <2>6. Dial(p) \/ FinishCreate(p)
    BY <1>1, <1>6, <2>3, <2>4, <2>5, AtWork DEF Works, Create, CreateContainer, HostThere, StartHost, Available, Has, Install,
       NetworkThere, NetCreate, ImageExists, Build, Commit, Unbuild, GenerateKey, RunContainer, AuthorizeKey, FirstIP,
       Keyscan, FirstConfig, CreateVM, StartVM, Record, AirGap, Register, Registered, DialSteps
  <2>7. cmd'[p].pc \in Registered \cup Ended
    <3>1. FinishCreate(p) => Step(p, "done")
      BY DEF FinishCreate
    <3> QED BY <1>6, <2>6, <3>1, DialGoes, StepRest DEF Ended
  <2> QED BY <2>7 DEF Registered, DialSteps, Ended, Unlisted, Boxless, Linked
<1> QED BY <1>4, <1>5, <1>6

(* Nobody writes the files between a create's scan and its registration.   *)
LEMMA WrittenStep ==
  ASSUME Types, Solo, NEW n \in Names \ spoiled, Apart(n), Written(n), NEW q \in Procs, Framed(q), Works(q)
  PROVE  Written(n)'
<1> SUFFICES ASSUME NEW p \in On(n)', cmd'[p].op = "create", cmd'[p].pc \in {"ssh config", "register"}
    PROVE  /\ files'[n].at = cmd'[p].ip
           /\ cmd'[p].pc = "register" => files'[n].addr = cmd'[p].ip
  BY DEF Written
<1>1. /\ p \in On(n) /\ cmd[p].op = "create" /\ p \in Procs /\ Disturbing(cmd[p].op) /\ Active(p)
      /\ cmd[p].name = n /\ files[n] \in Files /\ files \in [Names -> Files]
  BY StaysOn DEF On, Disturbing, Types
<1>2. CASE q # p
  <2>1. cmd'[p] = cmd[p]
    BY <1>2, StaysOn, <1>1
  <2>2. cmd[p].pc \in Unlisted \ {"begin"}
    BY <2>1 DEF Unlisted
  <2>3. files'[n] = files[n]
    <3>1. CASE q \in On(n) /\ cmd[q].op = "dial" /\ Dial(q)
      <4>1. cmd[q].pc \notin Refreshes
        BY <1>1, <2>2, <3>1 DEF Apart
      <4>2. files' = files
        BY <3>1, <4>1, DialWrites DEF On, Refreshes
      <4> QED BY <4>2
    <3> QED BY <1>1, <1>2, <3>1, Bystander
  <2> QED BY <1>1, <2>1, <2>3 DEF Written
<1>3. CASE q = p
  <2>0. \A to : Step(p, to) => to \in {"ssh config", "register"}
    BY <1>1, StepRest
  <2>1. ~Kill(p) /\ ~Fails(p)
    <3>1. Step(p, "killed") => cmd'[p].pc = "killed"
      BY <1>1, StepRest
    <3>2. Step(p, "failed") => cmd'[p].pc = "failed"
      BY <1>1, StepRest
    <3> QED BY <3>1, <3>2 DEF Kill, Fails
  <2>2. CASE Keyscan(p)
    <3>1. PICK m \in At(cmd[p].ip) : files' = [files EXCEPT ![n].pin = box[m].made, ![n].at = cmd[p].ip]
      BY <1>1, <2>1, <2>2 DEF Keyscan
    <3>2. Step(p, "ssh config")
      BY <2>1, <2>2 DEF Keyscan
    <3>3. cmd'[p].ip = cmd[p].ip /\ cmd'[p].pc = "ssh config"
      BY <1>1, <3>2, StepRest
    <3>4. files'[n] = [files[n] EXCEPT !.pin = box[m].made, !.at = cmd[p].ip]
      BY <1>1, <3>1
    <3> QED BY <1>1, <3>3, <3>4 DEF Files
  <2>3. CASE FirstConfig(p)
    <3>1. files' = [files EXCEPT ![n].addr = cmd[p].ip] /\ Step(p, "register") /\ cmd[p].pc = "ssh config"
      BY <1>1, <2>1, <2>3 DEF FirstConfig, WriteConfig
    <3>2. cmd'[p].ip = cmd[p].ip
      BY <1>1, <3>1, StepRest
    <3>3. files'[n] = [files[n] EXCEPT !.addr = cmd[p].ip]
      BY <1>1, <3>1
    <3> QED BY <1>1, <3>1, <3>2, <3>3 DEF Files, Written
  <2>4. CASE Dial(p)
    BY <1>1, <1>3, <2>4, DialGoes DEF Registered, DialSteps, Ended
  <2>5. CASE Refuse(p) \/ HostThere(p) \/ StartHost(p) \/ Available(p) \/ Install(p) \/ NetworkThere(p) \/ NetCreate(p)
             \/ ImageExists(p) \/ Build(p) \/ Commit(p) \/ Unbuild(p) \/ GenerateKey(p) \/ RunContainer(p)
             \/ AuthorizeKey(p) \/ Register(p) \/ FinishCreate(p)
    <3>1. \E to \in {"host", "start host", "start vm", "podman", "install", "network", "net create", "image", "build", "commit",
                    "unbuild", "key", "run", "authorize", "ip", "state", "air-gap", "done"} : Step(p, to)
      BY <1>1, <2>1, <2>5 DEF Refuse, HostThere, StartHost, Available, Has, Install, Puts, NetworkThere, NetCreate,
         ImageExists, Build, Commit, Unbuild, GenerateKey, RunContainer, AuthorizeKey, Register, FinishCreate
    <3> QED BY <2>0, <3>1
  <2>6. CASE FirstIP(p)
    <3>1. cmd[p] \in Command /\ cmd \in [Procs -> Command]
      BY <1>1, Places DEF Types
    <3>2. cmd' = [cmd EXCEPT ![p].pc = "scan", ![p].ip = box[n].addr]
      BY <1>1, <2>1, <2>6 DEF FirstIP, Resolve
    <3>3. cmd'[p] = [cmd[p] EXCEPT !.pc = "scan", !.ip = box[n].addr]
      BY <1>1, <3>1, <3>2
    <3> QED BY <3>1, <3>3 DEF Command
  <2>7. ~CreateVM(p)
    BY <1>1, Places DEF CreateVM, StartVM, Record, AirGap
  <2> QED BY <1>1, <1>3, <2>1, <2>2, <2>3, <2>4, <2>5, <2>6, <2>7, AtWork DEF Works, Create, CreateContainer
<1> QED BY <1>2, <1>3

(* A create with a Lima instance, or an rm that deletes no container, is   *)
(* at work on a name that no container is registered of.                   *)
LEMMA ElsewhereStep ==
  ASSUME Types, Solo, NEW n \in Names \ spoiled, Elsewhere(n), NEW q \in Procs, Framed(q), Works(q)
  PROVE  Elsewhere(n)'
<1>1. ASSUME NEW r \in On(n)', r # q,
             \/ cmd'[r].op = "create lima" /\ cmd'[r].pc # "begin"
             \/ cmd'[r].pc \in {"delete vm", "forget"} /\ box'[n].state # "absent"
      PROVE  entry'[n] # "container"
  <2>0. r \in On(n) /\ cmd'[r] = cmd[r]
    <3>1. r \in Procs
      BY DEF On
    <3> QED BY <1>1, <3>1, StaysOn
  <2>1. r \in On(n) /\ cmd'[r] = cmd[r] /\ Disturbing(cmd[r].op)
    BY <1>1, <2>0, Places DEF On, Disturbing
  <2>2. entry'[n] = entry[n] /\ (box'[n].state # "absent" => box[n].state # "absent")
    <3>1. /\ entry'[n] = entry[n]
          /\ box'[n] = box[n] \/ Dial(q)
      BY <1>1, <2>1, Bystander
    <3>2. Dial(q) => (box'[n].state # "absent" => box[n].state # "absent")
      BY DialKeeps
    <3> QED BY <3>1, <3>2
  <2> QED BY <1>1, <2>1, <2>2 DEF Elsewhere
<1>2. ASSUME q \in On(n)', cmd'[q].op = "create lima", cmd'[q].pc # "begin"
      PROVE  entry'[n] # "container"
  <2>1. q \in On(n) /\ cmd[q].op = "create lima" /\ cmd[q].name = n /\ ~Kill(q) /\ ~Fails(q)
    BY <1>2, StaysOn, StepRest, ZenonT(30) DEF Kill, Fails, On, Active, Ended
  <2>2. ~CreateContainer(q)
    BY <2>1, Places DEF CreateContainer, HostThere, StartHost, Available, Has, Install, NetworkThere, NetCreate, ImageExists,
       Build, Commit, Unbuild, GenerateKey, RunContainer, AuthorizeKey, FirstIP, Keyscan, FirstConfig
  <2>3. CASE Refuse(q)
    BY <2>1, <2>3 DEF Refuse, Listed, registryVars
  <2>4. CASE ~Refuse(q)
    <3>1. Create(q) \/ Connect(q)
      <4>1. ~Remove(q) /\ ~RemoveHost(q)
        BY <2>1, Places DEF Remove, LoadRm, At1, Delete, Forget, ReadDefault, Repoint, RemoveHost, CountUsers, DestroyHost
      <4>2. Dial(q) => Connect(q)
        BY <2>1, Places DEF Dial, Load, At1, State, StartContainer, CurrentIP, Rewrite, Ready, DialSteps
      <4> QED BY <2>1, <4>1, <4>2 DEF Works
    <3>2. cmd[q].pc # "begin"
      BY <2>2, <2>4, <3>1 DEF Create, CreateVM, StartVM, Record, AirGap, Register, FinishCreate, Connect
    <3>3. entry[n] # "container"
      BY <2>1, <3>2 DEF Elsewhere
    <3>4. entry' = entry \/ entry' = [entry EXCEPT ![n] = "lima"]
          \/ entry' = [entry EXCEPT ![n] = IF @ = "none" THEN "dir" ELSE @]
      BY <2>1, <2>2, <2>4, <3>1 DEF Create, CreateVM, StartVM, Record, AirGap, Register, FinishCreate, Connect,
         registryVars
    <3> QED BY <3>3, <3>4 DEF Types
  <2> QED BY <2>3, <2>4
<1>3. ASSUME q \in On(n)', cmd'[q].pc \in {"delete vm", "forget"}, box'[n].state # "absent"
      PROVE  entry'[n] # "container"
  <2>1. q \in On(n) /\ cmd[q].op = "rm" /\ cmd[q].name = n /\ ~Kill(q)
    <3>1. cmd'[q].op = "rm"
      <4>1. CommandOK(cmd'[q])
        BY FramedCommand DEF Types
      <4> QED BY <1>3, <4>1 DEF CommandOK, Ops, StepsOf, Ended, Boxless, Linked, Keyed, Running1, Authorized, Located,
            Pinned, Configured, Registered, DialSteps
    <3>2. q \in On(n) /\ cmd[q].op = "rm" /\ cmd[q].name = n
      BY <1>3, <3>1, StaysOn DEF On
    <3>3. Kill(q) => cmd'[q].pc = "killed"
      BY StepRest DEF Kill
    <3> QED BY <1>3, <3>2, <3>3
  <2>2. Remove(q)
    BY <2>1, Places DEF Works, Create, Refuse, CreateContainer, HostThere, StartHost, Available, Has, Install, NetworkThere,
       NetCreate, ImageExists, Build, Commit, Unbuild, GenerateKey, RunContainer, AuthorizeKey, FirstIP, Keyscan,
       FirstConfig, CreateVM, StartVM, Record, AirGap, Register, FinishCreate, Dial, Load, At1, State, StartContainer,
       CurrentIP, Rewrite, Ready, Connect, RemoveHost, CountUsers, DialSteps
  <2>3. CASE LoadRm(q)
    <3>2. entry[n] = "container" => Step(q, "delete")
      BY <2>1, <2>3 DEF LoadRm
    <3>1. Step(q, "delete") => cmd'[q].pc = "delete"
      BY StepRest
    <3>3. ~Step(q, "delete")
      BY <1>3, <3>1
    <3> QED BY <2>3, <3>2, <3>3 DEF LoadRm, registryVars
  <2>4. CASE Delete(q)
    <3>1. cmd[q].pc = "delete" => Fails(q) \/ box' = [box EXCEPT ![n] = NoBox]
      BY <2>1, <2>4 DEF Delete
    <3>3. Step(q, "failed") => cmd'[q].pc = "failed"
      BY StepRest
    <3>4. ~Fails(q)
      BY <1>3, <3>3 DEF Fails
    <3>5. box' # [box EXCEPT ![n] = NoBox]
      <4>1. box' = [box EXCEPT ![n] = NoBox] => box'[n] = NoBox
        BY DEF Types
      <4>2. NoBox.state = "absent"
        BY DEF NoBox
      <4> QED BY <1>3, <4>1, <4>2
    <3>2. cmd[q].pc = "delete vm"
      BY <2>4, <3>1, <3>4, <3>5 DEF Delete
    <3>6. UNCHANGED <<entry, box>>
      BY <2>4, <3>2 DEF Delete, registryVars
    <3> QED BY <1>3, <2>1, <3>2, <3>6 DEF Elsewhere
  <2>5. CASE Forget(q) \/ ReadDefault(q) \/ Repoint(q)
    <3>1. cmd[q] \in Command /\ cmd \in [Procs -> Command]
      BY Places DEF Types
    <3>2. cmd'[q].pc \in {"default", "repoint", "done"}
      BY <2>5, <3>1 DEF Forget, ReadDefault, Repoint, Step, Command
    <3> QED BY <1>3, <3>2
  <2> QED BY <2>2, <2>3, <2>4, <2>5 DEF Remove
<1> QED BY <1>1, <1>2, <1>3 DEF Elsewhere

(* A create's own steps, when its sandbox is refreshed by another: none    *)
(* that changes anything; nor does a create with a Lima instance then.     *)
LEMMA CreateIdles ==
  ASSUME Types, Solo, NEW n \in Names \ spoiled, Apart(n), Elsewhere(n), Aims(n), NEW r \in On(n),
         cmd[r].pc \in Refreshes, box[n].state # "absent",
         NEW q \in Procs, q # r, q \in On(n), Create(q)
  PROVE  UNCHANGED <<entry, files, box>>
<1>1. entry[n] = "container" /\ r \in Procs /\ q \in Procs
  BY DEF Aims, On
<1>2. cmd[q].op \in {"create", "create lima"}
  BY <1>1, Places DEF Create, Refuse, CreateContainer, HostThere, StartHost, Available, Has, Install, NetworkThere,
     NetCreate, ImageExists, Build, Commit, Unbuild, GenerateKey, RunContainer, AuthorizeKey, FirstIP, Keyscan,
     FirstConfig, CreateVM, StartVM, Record, AirGap, Register, FinishCreate
<1>3. CASE Refuse(q) \/ FinishCreate(q)
  BY <1>3 DEF Refuse, FinishCreate, registryVars, hostVars
<1>4. CASE cmd[q].op = "create" /\ ~Refuse(q) /\ ~FinishCreate(q)
  <2>1. cmd[r].op = "dial"
    BY <1>1, <1>4, Places DEF Solo, Disturbing, Refreshes, DialSteps
  <2>2. cmd[q].pc \notin Unlisted \ {"begin"}
    BY <1>4, <2>1 DEF Apart
  <2>3. ~CreateVM(q)
    BY <1>4, Places DEF CreateVM, StartVM, Record, AirGap
  <2>4. ~Register(q)
    BY <2>2 DEF Register, Unlisted
  <2>5. ~CreateContainer(q)
    BY <2>2 DEF CreateContainer, HostThere, StartHost, Available, Has, Install, NetworkThere, NetCreate, ImageExists,
       Build, Commit, Unbuild, GenerateKey, RunContainer, AuthorizeKey, FirstIP, Keyscan, FirstConfig, Unlisted,
       Boxless, Linked
  <2> QED BY <1>4, <2>3, <2>4, <2>5 DEF Create
<1>5. CASE cmd[q].op = "create lima"
  <2>1. cmd[q].pc = "begin"
    BY <1>1, <1>5 DEF Elsewhere
  <2>2. Refuse(q)
    BY <2>1 DEF Create, CreateContainer, HostThere, StartHost, Available, Has, Install, NetworkThere, NetCreate, ImageExists,
       Build, Commit, Unbuild, GenerateKey, RunContainer, AuthorizeKey, FirstIP, Keyscan, FirstConfig, CreateVM,
       StartVM, Record, AirGap, Register, FinishCreate
  <2> QED BY <1>3, <2>2
<1> QED BY <1>2, <1>3, <1>4, <1>5

(* Another command leaves alone what a refresh goes by, or the container   *)
(* is removed.                                                             *)
LEMMA AimsBeside ==
  ASSUME Types, Solo, NEW n \in Names \ spoiled, Apart(n), Elsewhere(n), Aims(n), NEW r \in On(n),
         cmd[r].pc \in Refreshes, box'[n].state # "absent",
         NEW q \in Procs, q # r, Framed(q), Works(q)
  PROVE  /\ entry'[n] = entry[n] /\ box[n].state # "absent"
         /\ box'[n] = box[n] \/ cmd[r].pc \in {"state", "start", "address"}
         /\ cmd[r].pc = "write" => files'[n].at = files[n].at \/ files'[n].at = box[n].addr
<1>1. r \in Procs /\ cmd[r].name = n
  BY DEF On
<1>2. CASE cmd[q].name # n
  BY <1>2, StaysOn
<1>3. CASE UNCHANGED <<entry, files, box>>
  BY <1>3
<1>4. CASE cmd[q].name = n
  <2>1. q \in On(n)
    BY <1>4, StaysOn DEF On
  <2>2. CASE Dial(q)
    <3>1. entry' = entry /\ box[n].state # "absent"
          /\ (box'[n] = box[n] \/ box[n].state = "stopped")
      BY <2>2, DialKeeps
    <3>2. box'[n] = box[n] \/ cmd[r].pc \in {"state", "start", "address"}
      BY <3>1 DEF Aims, Refreshes
    <3>3. files'[n].at = files[n].at \/ files'[n].at = box[n].addr
      <4>1. \/ files' = files
            \/ cmd[q].pc = "pin" /\ files'[n].at = cmd[q].ip
            \/ files'[n].at = files[n].at
        BY <1>4, <2>2, DialWrites
      <4>2. cmd[q].pc = "pin" => cmd[q].ip = box[n].addr
        BY <2>1, <3>1 DEF Aims, Refreshes
      <4> QED BY <4>1, <4>2
    <3> QED BY <3>1, <3>2, <3>3
  <2>3. CASE Create(q)
    <3>1. CASE box[n].state # "absent"
      BY <1>3, <2>1, <2>3, <3>1, CreateIdles
    <3>2. CASE box[n].state = "absent"
      <4>1. RunContainer(q)
        <5>1. box' # box
          BY <3>2
        <5>2. CASE AuthorizeKey(q)
          BY <1>4, <3>2, <5>1, <5>2 DEF AuthorizeKey, Running
        <5> QED BY <2>3, <5>1, <5>2 DEF Create, Refuse, CreateContainer, HostThere, StartHost, Available, Has, Install,
              NetworkThere, NetCreate, ImageExists, Build, Commit, Unbuild, GenerateKey, FirstIP, Keyscan,
              FirstConfig, CreateVM, StartVM, Record, AirGap, Register, FinishCreate, hostVars
      <4>2. cmd[q].op = "create" /\ cmd[q].pc = "run"
        BY <4>1, Places DEF RunContainer
      <4>3. cmd[r].op = "dial"
        BY <1>1, <2>1, <4>2, Places DEF Solo, Disturbing, Refreshes, DialSteps
      <4>4. FALSE
        BY <2>1, <4>2, <4>3 DEF Apart, Unlisted, Boxless, Linked
      <4> QED BY <4>4
    <3> QED BY <3>1, <3>2
  <2>4. CASE Remove(q) \/ CountUsers(q) \/ Kill(q)
    <3>1. CASE LoadRm(q) \/ ReadDefault(q) \/ Repoint(q) \/ CountUsers(q) \/ Kill(q)
      BY <1>3, <3>1 DEF LoadRm, ReadDefault, Repoint, CountUsers, Kill, registryVars, hostVars
    <3>2. CASE Delete(q)
      <4>1. UNCHANGED <<entry, files>> /\ (box' = box \/ box' = [box EXCEPT ![n] = NoBox])
        BY <1>4, <3>2 DEF Delete, registryVars
      <4>2. NoBox.state = "absent"
        BY DEF NoBox
      <4>3. box' = [box EXCEPT ![n] = NoBox] => box'[n] = NoBox
        BY DEF Types
      <4> QED BY <1>3, <4>1, <4>2, <4>3
    <3>3. CASE Forget(q)
      <4>1. box' = box /\ cmd[q].pc = "forget"
        BY <3>3 DEF Forget, hostVars
      <4>2. entry[n] = "container" /\ entry[n] # "container"
        BY <2>1, <4>1 DEF Aims, Elsewhere
      <4> QED BY <4>2
    <3> QED BY <2>4, <3>1, <3>2, <3>3 DEF Remove
  <2> QED BY <2>2, <2>3, <2>4 DEF Works, RemoveHost
<1> QED BY <1>2, <1>4

(* Whoever refreshes goes by the address that the container has.           *)
LEMMA AimsStep ==
  ASSUME Types, Solo, NEW n \in Names \ spoiled, Apart(n), Elsewhere(n), Aims(n), NEW q \in Procs, Framed(q),
         Works(q)
  PROVE  Aims(n)'
<1> SUFFICES ASSUME NEW r \in On(n)', cmd'[r].pc \in Refreshes, box'[n].state # "absent"
    PROVE  /\ entry'[n] = "container"
           /\ cmd'[r].pc \in {"check", "pin", "write"} => box'[n].state = "running" /\ cmd'[r].ip = box'[n].addr
           /\ cmd'[r].pc = "write" => files'[n].at = box'[n].addr
  BY DEF Aims
<1>1. r \in Procs
  BY DEF On
<1>2. r \in On(n) /\ cmd'[r].op = cmd[r].op /\ cmd[r].name = n
  BY StaysOn DEF On
<1>3. CASE q # r
  <2>1. cmd'[r] = cmd[r] /\ cmd[r].pc \in Refreshes
    BY <1>1, <1>3, StaysOn
  <2>2. /\ entry'[n] = entry[n] /\ box[n].state # "absent"
        /\ box'[n] = box[n] \/ cmd[r].pc \in {"state", "start", "address"}
        /\ cmd[r].pc = "write" => files'[n].at = files[n].at \/ files'[n].at = box[n].addr
    BY <1>2, <1>3, <2>1, AimsBeside
  <2> QED BY <1>2, <2>1, <2>2 DEF Aims
<1>4. CASE q = r
  <2>1. cmd[r] \in Command /\ cmd \in [Procs -> Command] /\ box[n] \in Boxes /\ box \in [Names -> Boxes]
    BY <1>1, Places DEF Types
  <2>2. \A to : Step(r, to) => to = cmd'[r].pc
    BY <1>1, StepRest
  <2>3. ~Fails(r)
    <3>1. Step(r, "failed") => cmd'[r].pc = "failed"
      BY <1>1, StepRest
    <3> QED BY <3>1 DEF Fails, Refreshes
  <2>4. CASE Dial(r)
    <3>1. /\ entry' = entry /\ box[n].state # "absent"
      BY <1>1, <2>4, DialKeeps
    <3>2. CASE Load(r)
      <4>1. cmd'[r].pc \in {"state", "connect"} /\ (cmd'[r].pc = "state" => entry[n] = "container")
        BY <1>1, <1>2, <2>3, <3>2, StepRest DEF Load
      <4> QED BY <3>1, <4>1 DEF Refreshes
    <3>3. CASE State(r)
      <4>1. cmd'[r].pc \in {"address", "start"} /\ cmd[r].pc = "state"
        BY <1>1, <1>2, <2>3, <3>3, StepRest DEF State
      <4> QED BY <1>2, <3>1, <4>1 DEF Aims, Refreshes
    <3>4. CASE StartContainer(r)
      <4>1. cmd' = [cmd EXCEPT ![r].pc = "address", ![r].started = TRUE] /\ cmd[r].pc = "start"
        BY <2>3, <3>4 DEF StartContainer
      <4>2. cmd'[r] = [cmd[r] EXCEPT !.pc = "address", !.started = TRUE]
        BY <1>1, <2>1, <4>1
      <4>3. cmd'[r].pc = "address"
        BY <2>1, <4>2 DEF Command
      <4> QED BY <1>2, <3>1, <4>1, <4>3 DEF Aims, Refreshes
    <3>5. CASE CurrentIP(r)
      <4>1. Running(n) /\ cmd' = [cmd EXCEPT ![r].pc = "check", ![r].ip = box[n].addr] /\ cmd[r].pc = "address"
        BY <1>2, <2>3, <3>5 DEF CurrentIP, Resolve
      <4>2. cmd'[r] = [cmd[r] EXCEPT !.pc = "check", !.ip = box[n].addr]
        BY <1>1, <2>1, <4>1
      <4>3. cmd'[r].pc = "check" /\ cmd'[r].ip = box[n].addr
        BY <2>1, <4>2 DEF Command
      <4>4. box' = box /\ entry[n] = "container"
        BY <1>2, <3>1, <3>5, <4>1 DEF Aims, Refreshes, CurrentIP, hostVars
      <4> QED BY <3>1, <4>1, <4>3, <4>4 DEF Running
    <3>6. CASE Rewrite(r)
      <4>1. /\ cmd[r].pc \in {"check", "pin", "write"} /\ box' = box /\ \E to : Step(r, to)
        BY <3>6 DEF Rewrite, WriteConfig, Fails, hostVars
      <4>2. entry[n] = "container" /\ box[n].state = "running" /\ cmd[r].ip = box[n].addr /\ cmd'[r].ip = cmd[r].ip
        BY <1>1, <1>2, <3>1, <4>1, StepRest DEF Aims, Refreshes
      <4>3. cmd'[r].pc = "write" => files'[n].at = cmd[r].ip
        <5>1. cmd[r].pc = "check" => cmd'[r].pc \in {"ready", "pin"}
          BY <1>1, <3>6, StepRest DEF Rewrite
        <5>2. cmd[r].pc = "write" => cmd'[r].pc # "write"
          <6>1. cmd[r].pc = "write" => Step(r, "ready") \/ Fails(r)
            BY <3>6 DEF Rewrite, WriteConfig
          <6>2. Step(r, "ready") => cmd'[r].pc = "ready"
            BY <1>1, StepRest
          <6> QED BY <2>3, <6>1, <6>2
        <5>3. CASE cmd[r].pc = "pin"
          <6>1. files' = [files EXCEPT ![n].at = cmd[r].ip]
            BY <1>2, <2>3, <3>6, <5>3 DEF Rewrite
          <6>2. files[n] \in Files /\ files'[n] = [files[n] EXCEPT !.at = cmd[r].ip]
            BY <6>1 DEF Types
          <6> QED BY <6>2 DEF Files
        <5> QED BY <4>1, <5>1, <5>2, <5>3
      <4> QED BY <3>1, <4>1, <4>2, <4>3
    <3>7. CASE Ready(r) \/ Connect(r)
      <4>1. cmd'[r].pc \in {"connect", "failed", "done", "finish"}
        BY <1>1, <2>1, <3>7 DEF Ready, Connect, Fails, Step, Command
      <4> QED BY <4>1 DEF Refreshes
    <3> QED BY <2>4, <3>2, <3>3, <3>4, <3>5, <3>6, <3>7 DEF Dial
  <2>5. CASE Register(r)
    <3>1. cmd'[r].pc \in {"state", "air-gap"}
      BY <1>1, <2>5, StepRest DEF Register
    <3>2. cmd[r].op = "create"
      <4>1. cmd[r].op # "create" => Step(r, "air-gap")
        BY <2>5 DEF Register
      <4>2. Step(r, "air-gap") => cmd'[r].pc = "air-gap"
        BY <1>1, StepRest
      <4> QED BY <4>1, <4>2 DEF Refreshes
    <3>3. entry'[n] = "container"
      BY <1>2, <2>5, <3>2 DEF Register, Types
    <3> QED BY <3>1, <3>3
  <2>6. CASE Works(r) /\ ~Dial(r) /\ ~Register(r)
    <3>1. cmd'[r].op \in {"dial", "create"}
      <4>1. CommandOK(cmd'[r])
        BY <1>1, FramedCommand DEF Types
      <4> QED BY <4>1 DEF CommandOK, Ops, StepsOf, Ended, Refreshes
    <3>2. ~Kill(r)
      <4>1. Step(r, "killed") => cmd'[r].pc = "killed"
        BY <1>1, StepRest
      <4> QED BY <4>1 DEF Kill, Refreshes
    <3>3. Create(r) /\ cmd[r].op = "create" /\ ~CreateVM(r)
      BY <1>1, <1>2, <2>6, <3>1, <3>2, AtWork, Places DEF Works, CreateVM, StartVM, Record, AirGap
    <3>4. CASE FirstIP(r)
      <4>1. cmd' = [cmd EXCEPT ![r].pc = "scan", ![r].ip = box[n].addr]
        BY <1>2, <2>3, <3>4 DEF FirstIP, Resolve
      <4>2. cmd'[r] = [cmd[r] EXCEPT !.pc = "scan", !.ip = box[n].addr]
        BY <1>1, <2>1, <4>1
      <4> QED BY <2>1, <4>2 DEF Command, Refreshes
    <3>5. CASE ~FirstIP(r)
      <4>1. \E to \in {"host", "start host", "start vm", "podman", "install", "network", "net create", "image", "build", "commit",
                      "unbuild", "key", "run", "authorize", "ip", "ssh config", "register", "done"} : Step(r, to)
        BY <2>3, <2>6, <3>3, <3>5 DEF Create, CreateContainer, Refuse, HostThere, StartHost, Available, Has, Install, Puts,
           NetworkThere, NetCreate, ImageExists, Build, Commit, Unbuild, GenerateKey, RunContainer, AuthorizeKey,
           Keyscan, FirstConfig, WriteConfig, FinishCreate
      <4> QED BY <1>1, <4>1, StepRest DEF Refreshes
    <3> QED BY <3>4, <3>5
  <2> QED BY <1>4, <2>4, <2>5, <2>6
<1> QED BY <1>3, <1>4

(* The two files agree, or a refresh of this address is half-way.          *)
LEMMA MendableStep ==
  ASSUME Types, Solo, Makes, NEW n \in Names \ spoiled, Written(n), Aims(n), Mendable(n), NEW q \in Procs,
         Framed(q), Works(q)
  PROVE  Mendable(n)'
<1> SUFFICES ASSUME entry'[n] = "container", box'[n].state # "absent"
    PROVE  files'[n].at = files'[n].addr \/ (box'[n].state = "running" /\ files'[n].at = box'[n].addr)
  BY DEF Mendable
<1>1. ASSUME entry[n] = "container", files'[n] = files[n], box'[n] = box[n]
      PROVE  files'[n].at = files'[n].addr \/ (box'[n].state = "running" /\ files'[n].at = box'[n].addr)
  BY <1>1 DEF Mendable
<1>2. CASE cmd[q].name # n
  BY <1>1, <1>2, StaysOn
<1>3. CASE cmd[q].name = n
  <2>1. q \in On(n) /\ Active(q)
    BY <1>3, StaysOn DEF On
  <2>2. CASE Dial(q)
    <3>1. /\ entry[n] = "container" /\ box[n].state # "absent"
          /\ box'[n] = box[n] \/ box[n].state = "stopped"
      BY <2>2, DialKeeps
    <3>2. CASE files' = files
      BY <3>1, <3>2 DEF Mendable
    <3>3. CASE files' # files
      <4>1. /\ cmd[q].pc \in {"pin", "write"} /\ box' = box
            /\ cmd[q].pc = "pin" => files'[n].at = cmd[q].ip
            /\ cmd[q].pc = "write" => files'[n].at = files[n].at
        BY <1>3, <2>2, <3>3, DialWrites
      <4>2. /\ box[n].state = "running" /\ cmd[q].ip = box[n].addr
            /\ cmd[q].pc = "write" => files[n].at = box[n].addr
        BY <2>1, <3>1, <4>1 DEF Aims, Refreshes
      <4> QED BY <4>1, <4>2
    <3> QED BY <3>2, <3>3
  <2>3. CASE cmd[q].op = "create" /\ Create(q)
    <3>1. Making(q)
      BY <1>3, <2>1, <2>3 DEF Makes
    <3>2. CASE Refuse(q) \/ FinishCreate(q)
      BY <1>1, <3>2 DEF Refuse, FinishCreate, registryVars, hostVars
    <3>3. CASE HostThere(q) \/ StartHost(q) \/ Available(q) \/ Install(q) \/ NetworkThere(q) \/ NetCreate(q) \/ ImageExists(q)
               \/ Build(q) \/ Commit(q) \/ Unbuild(q) \/ GenerateKey(q) \/ RunContainer(q) \/ AuthorizeKey(q)
               \/ FirstIP(q) \/ Keyscan(q) \/ FirstConfig(q)
      <4>1. cmd[q].pc \in Unlisted \ {"begin"}
        BY <3>3 DEF HostThere, StartHost, Available, Has, Install, NetworkThere, NetCreate, ImageExists, Build, Commit, Unbuild,
           GenerateKey, RunContainer, AuthorizeKey, FirstIP, Keyscan, FirstConfig, Unlisted, Boxless, Linked
      <4>2. entry[n] \notin {"lima", "container"}
        BY <1>3, <3>1, <4>1 DEF Making
      <4>3. entry' = entry \/ entry' = [entry EXCEPT ![n] = IF @ = "none" THEN "dir" ELSE @]
        BY <1>3, <3>3 DEF HostThere, StartHost, Available, Has, Install, NetworkThere, NetCreate, ImageExists, Build, Commit,
           Unbuild, GenerateKey, RunContainer, AuthorizeKey, FirstIP, Keyscan, FirstConfig, registryVars
      <4> QED BY <4>2, <4>3 DEF Types
    <3>4. CASE Register(q)
      <4>1. cmd[q].pc = "register" /\ UNCHANGED <<files, box>>
        BY <3>4 DEF Register, hostVars
      <4>2. files[n].at = files[n].addr
        BY <2>1, <2>3, <4>1 DEF Written
      <4> QED BY <4>1, <4>2
    <3>5. ~CreateVM(q)
      BY <2>3, Places DEF CreateVM, StartVM, Record, AirGap
    <3> QED BY <2>3, <3>2, <3>3, <3>4, <3>5 DEF Create, CreateContainer
  <2>4. CASE cmd[q].op # "create" /\ Create(q)
    <3>1. ~CreateContainer(q)
      BY <2>4, Places DEF CreateContainer, HostThere, StartHost, Available, Has, Install, NetworkThere, NetCreate, ImageExists,
         Build, Commit, Unbuild, GenerateKey, RunContainer, AuthorizeKey, FirstIP, Keyscan, FirstConfig
    <3>2. CASE Refuse(q) \/ StartVM(q) \/ AirGap(q) \/ FinishCreate(q)
      BY <1>1, <3>2 DEF Refuse, FinishCreate, StartVM, AirGap, registryVars, hostVars
    <3>3. CASE Record(q)
      <4>1. UNCHANGED <<files, box>> /\ (entry' = entry \/ entry' = [entry EXCEPT ![n] = IF @ = "none" THEN "dir" ELSE @])
        BY <1>3, <3>3 DEF Record, hostVars
      <4>2. entry[n] = "container"
        BY <4>1 DEF Types
      <4> QED BY <1>1, <4>1, <4>2
    <3>4. ~Register(q)
      <4>1. Register(q) => entry' = [entry EXCEPT ![n] = "lima"]
        BY <1>3, <2>4 DEF Register
      <4> QED BY <4>1 DEF Types
    <3> QED BY <2>4, <3>1, <3>2, <3>3, <3>4 DEF Create, CreateVM
  <2>5. CASE LoadRm(q) \/ ReadDefault(q) \/ Repoint(q) \/ CountUsers(q) \/ Kill(q)
    BY <1>1, <2>5 DEF LoadRm, ReadDefault, Repoint, CountUsers, Kill, registryVars, hostVars
  <2>6. CASE Delete(q)
    <3>1. UNCHANGED <<entry, files>> /\ (box' = box \/ box' = [box EXCEPT ![n] = NoBox])
      BY <1>3, <2>6 DEF Delete, registryVars
    <3>2. NoBox.state = "absent"
      BY DEF NoBox
    <3>3. box' = [box EXCEPT ![n] = NoBox] => box'[n] = NoBox
      BY DEF Types
    <3> QED BY <1>1, <3>1, <3>2, <3>3
  <2>7. CASE Forget(q)
    BY <1>3, <2>7 DEF Forget, Types
  <2> QED BY <2>2, <2>3, <2>4, <2>5, <2>6, <2>7 DEF Works, Remove, RemoveHost
<1> QED BY <1>2, <1>3

(* No refresh goes by another address than the container's, until a        *)
(* restart comes between its steps.                                        *)
LEMMA MendedStep ==
  ASSUME Types, Solo, Makes, Mended, Step1
  PROVE  Mended'
<1> SUFFICES ASSUME NEW n \in Names, n \notin spoiled' \cup stale' PROVE Mends(n)'
  BY DEF Mended
<1>1. ASSUME n \notin spoiled \cup stale PROVE Apart(n) /\ Written(n) /\ Elsewhere(n) /\ Aims(n) /\ Mendable(n)
  BY <1>1 DEF Mended, Mends
<1>2. ASSUME NEW q \in Procs, Framed(q), Create(q) \/ Dial(q) \/ Remove(q) \/ RemoveHost(q) \/ Kill(q),
             ~DestroyHost(q)
      PROVE  Mends(n)'
  <2>1. n \notin spoiled \cup stale /\ n \in Names \ spoiled /\ Works(q)
    BY <1>2 DEF Framed, Kept, Works
  <2>2. Apart(n) /\ Written(n) /\ Elsewhere(n) /\ Aims(n) /\ Mendable(n)
    BY <1>1, <2>1
  <2>3. Apart(n)'
    BY <1>2, <2>1, <2>2, ApartStep
  <2>4. Written(n)'
    BY <1>2, <2>1, <2>2, WrittenStep
  <2>5. Elsewhere(n)'
    BY <1>2, <2>1, <2>2, ElsewhereStep
  <2>6. Aims(n)'
    BY <1>2, <2>1, <2>2, AimsStep
  <2>7. Mendable(n)'
    BY <1>2, <2>1, <2>2, MendableStep
  <2> QED BY <2>3, <2>4, <2>5, <2>6, <2>7 DEF Mends
<1>3. ASSUME NEW q \in Procs, DestroyHost(q) PROVE Mends(n)'
  <2>1. Goes(q) /\ cmd'[q].pc = "done" /\ box'[n].state = "absent"
    BY <1>3, Destroys, StepRest DEF DestroyHost, NoBox
  <2>2. UNCHANGED <<registryVars, spoiled, stale>>
    BY <1>3 DEF DestroyHost
  <2>3. \A r \in On(n)' : r \in On(n) /\ cmd'[r] = cmd[r]
    BY <2>1 DEF Goes, Moves, On, Active, Ended
  <2>4. Apart(n) /\ Written(n) /\ Elsewhere(n)
    BY <1>1, <2>2
  <2>5. Apart(n)'
    BY <2>2, <2>3, <2>4 DEF Apart, registryVars
  <2>6. Written(n)'
    BY <2>2, <2>3, <2>4 DEF Written, registryVars
  <2>7. Elsewhere(n)'
    BY <2>1, <2>2, <2>3, <2>4 DEF Elsewhere, registryVars
  <2>8. Aims(n)' /\ Mendable(n)'
    BY <2>1 DEF Aims, Mendable
  <2> QED BY <2>5, <2>6, <2>7, <2>8 DEF Mends
<1>4. CASE Restart
  <2>1. cmd' = cmd /\ files' = files /\ entry' = entry /\ spoiled \subseteq spoiled' /\ stale \subseteq stale'
    BY <1>4 DEF Restart, registryVars
  <2>2. \A r \in On(n) : cmd[r].op # "create" /\ ~Refreshing(r)
    <3>1. ASSUME NEW r \in On(n), cmd[r].op = "create" PROVE FALSE
      <4>1. n \in spoiled'
        BY <1>4, <3>1 DEF Restart, On
      <4> QED BY <4>1
    <3>2. ASSUME NEW r \in On(n), Refreshing(r) PROVE FALSE
      <4>1. n \in stale'
        BY <1>4, <3>2 DEF Restart
      <4> QED BY <4>1
    <3> QED BY <3>1, <3>2
  <2>3. ~Torn(n)
    BY <1>4 DEF Restart
  <2>4. box'[n].state # "absent" => box[n].state # "absent"
    BY <1>4, Restarts
  <2>5. \A r \in Procs : (r \in On(n)') <=> (r \in On(n))
    BY <2>1 DEF On, Active
  <2>6. \A r \in On(n)' : r \in On(n)
    BY <2>5 DEF On
  <2>7. Elsewhere(n) /\ Aims(n)
    BY <1>1, <2>1
  <2>8. Apart(n)' /\ Written(n)'
    BY <2>1, <2>2, <2>6 DEF Apart, Written
  <2>9. Elsewhere(n)'
    BY <2>1, <2>4, <2>6, <2>7 DEF Elsewhere
  <2>10. Aims(n)'
    <3> SUFFICES ASSUME NEW r \in On(n)', cmd'[r].pc \in Refreshes, box'[n].state # "absent"
        PROVE  entry'[n] = "container" /\ cmd'[r].pc \notin {"check", "pin", "write"}
      BY DEF Aims
    <3>1. r \in Procs /\ r \in On(n) /\ cmd'[r] = cmd[r] /\ cmd[r].pc \in Refreshes
      BY <2>1, <2>6 DEF On
    <3>2. cmd[r].op = "dial"
      BY <2>2, <3>1, Places DEF Refreshes, DialSteps
    <3> QED BY <2>1, <2>2, <2>4, <2>7, <3>1, <3>2 DEF Aims, Refreshing
  <2>11. Mendable(n)'
    BY <2>1, <2>3 DEF Mendable, Torn
  <2> QED BY <2>8, <2>9, <2>10, <2>11 DEF Mends
<1>5. CASE UNCHANGED vars
  <2>1. Mends(n)
    BY <1>1, <1>5 DEF vars, Mends
  <2> QED BY <1>5, <2>1 DEF vars, registryVars, hostVars, Mends, Apart, Written, Elsewhere, Aims, Mendable, On, Active
<1>6. ASSUME NEW q \in Procs, NEW op \in Ops, NEW m \in Names \cup {Nobody},
             op \notin {"host rm", "host rm --force"} => m \in Names, Begin(q, op, m)
      PROVE  Mends(n)'
  <2>1. /\ (\A r \in Procs \ {q} : cmd'[r] = cmd[r])
        /\ cmd'[q].op = op /\ cmd'[q].name = m /\ cmd'[q].pc = "begin"
    BY <1>6, Begins
  <2>2. /\ UNCHANGED <<registryVars, hostVars, stale>>
        /\ spoiled' = IF Disturbing(op) /\ On(m) # {} THEN spoiled \cup {m} ELSE spoiled
    BY <1>6 DEF Begin
  <2>3. \A r \in On(n)' : (r = q /\ m = n) \/ (r # q /\ r \in On(n) /\ cmd'[r] = cmd[r])
    BY <2>1 DEF On, Active
  <2>4. Apart(n) /\ Written(n) /\ Elsewhere(n) /\ Aims(n) /\ Mendable(n)
    BY <1>1, <2>2
  <2>5. Apart(n)'
    <3> SUFFICES ASSUME NEW r \in On(n)', NEW s \in On(n)', cmd'[r].op = "create", cmd'[s].op = "dial",
                        cmd'[s].pc \in Refreshes
        PROVE  cmd'[r].pc \notin Unlisted \ {"begin"} /\ (cmd'[r].pc = "begin" => entry'[n] = "container")
      BY DEF Apart
    <3>1. s # q
      BY <2>1 DEF Refreshes
    <3>2. s \in On(n) /\ cmd'[s] = cmd[s]
      BY <2>3, <3>1
    <3>3. CASE r = q
      <4>1. Disturbing(op) /\ m = n /\ On(m) # {}
        BY <2>1, <2>3, <3>2, <3>3 DEF Disturbing
      <4> QED BY <2>2, <4>1
    <3>4. CASE r # q
      BY <2>2, <2>3, <2>4, <3>2, <3>4 DEF Apart, registryVars
    <3> QED BY <3>3, <3>4
  <2>6. Written(n)'
    BY <2>1, <2>2, <2>3, <2>4 DEF Written, registryVars
  <2>7. Elsewhere(n)'
    BY <2>1, <2>2, <2>3, <2>4 DEF Elsewhere, registryVars, hostVars
  <2>8. Aims(n)'
    BY <2>1, <2>2, <2>3, <2>4 DEF Aims, Refreshes, registryVars, hostVars
  <2>9. Mendable(n)'
    BY <2>2, <2>4 DEF Mendable, registryVars, hostVars
  <2> QED BY <2>5, <2>6, <2>7, <2>8, <2>9 DEF Mends
<1> QED BY <1>2, <1>3, <1>4, <1>5, <1>6 DEF Step1

-----------------------------------------------------------------------------

(* A command that has failed is the one it was, and the names a restart    *)
(* has taken stay so.                                                      *)
LEMMA FailedStays ==
  ASSUME Types, Step1
  PROVE  /\ stale \subseteq stale'
         /\ \A p \in Procs : cmd'[p].pc = "failed" =>
              cmd[p].op = cmd'[p].op /\ cmd[p].name = cmd'[p].name /\ (calm'[p] => calm[p])
<1>1. ASSUME NEW q \in Procs, Framed(q), NEW p \in Procs
      PROVE  stale' = stale /\ cmd[p].op = cmd'[p].op /\ cmd[p].name = cmd'[p].name /\ (calm'[p] => calm[p])
  BY <1>1, FramedCommand DEF Framed, Kept
<1>2. ASSUME NEW q \in Procs, DestroyHost(q), NEW p \in Procs
      PROVE  stale' = stale /\ cmd[p].op = cmd'[p].op /\ cmd[p].name = cmd'[p].name /\ (calm'[p] => calm[p])
  BY <1>2, Destroys DEF DestroyHost, Goes, Moves
<1>3. ASSUME NEW q \in Procs, NEW op \in Ops, NEW m \in Names \cup {Nobody},
             op \notin {"host rm", "host rm --force"} => m \in Names, Begin(q, op, m),
             NEW p \in Procs, cmd'[p].pc = "failed"
      PROVE  cmd[p].op = cmd'[p].op /\ cmd[p].name = cmd'[p].name /\ (calm'[p] => calm[p])
  <2>1. p # q /\ cmd'[p] = cmd[p]
    BY <1>3, Begins
  <2> QED BY <1>3, <2>1 DEF Begin
<1>4. ASSUME NEW q \in Procs, NEW op, NEW m, Begin(q, op, m) PROVE stale' = stale
  BY <1>4 DEF Begin
<1>5. CASE Restart
  BY <1>5, Restarts DEF Restart
<1>6. CASE UNCHANGED vars
  BY <1>6 DEF vars
<1>7. stale \subseteq stale'
  BY <1>1, <1>2, <1>4, <1>5, <1>6 DEF Step1
<1> QED BY <1>1, <1>2, <1>3, <1>5, <1>6, <1>7 DEF Step1

HealInv == OwnInv /\ Solo /\ Makes /\ Trusted /\ Heals /\ Mended /\ DialHeals

(* The inductive invariant of the refreshes.                               *)
LEMMA HealInvInit == FleetInit => HealInv
<1> SUFFICES ASSUME FleetInit PROVE HealInv
  OBVIOUS
<1>1. \A p \in Procs : cmd[p].pc = "idle"
  BY DEF FleetInit, Init, NoCommand
<1>2. Solo /\ Makes /\ Heals
  BY <1>1 DEF Solo, Makes, Heals, Undisturbed, On, Active
<1>3. PICK at \in [left.made -> Addrs] :
        files = [n \in Names |-> IF n \in left.made
                   THEN [key |-> n, pin |-> n, at |-> at[n], addr |-> at[n]] ELSE NoFiles]
  BY DEF FleetInit, Init
<1>4. \A n \in Names : files[n].at = files[n].addr
  BY <1>3 DEF NoFiles
<1>5. \A n \in Names : On(n) = {}
  BY <1>1 DEF On, Active
<1>6. Mended
  BY <1>4, <1>5 DEF Mended, Mends, Apart, Written, Elsewhere, Aims, Mendable
<1>7. OwnInv /\ Trusted
  BY OwnInit, TrustedInit DEF FleetInit
<1>8. DialHeals
  BY <1>1, <1>7 DEF DialHeals, OwnInv
<1> QED BY <1>2, <1>6, <1>7, <1>8 DEF HealInv

(* Every step keeps it.                                                    *)
LEMMA HealInvStep ==
  ASSUME HealInv, Step1
  PROVE  HealInv'
<1>1. Types /\ Addressed
  BY DEF HealInv, OwnInv
<1>2. OwnInv' /\ Solo' /\ Makes' /\ Trusted' /\ Heals' /\ Mended'
  BY <1>1, OwnStep, SoloStep, MakesStep, TrustedStep, HealsStep, MendedStep DEF HealInv
<1>3. ASSUME NEW p \in Procs, cmd'[p].op = "dial", calm'[p], cmd'[p].pc = "failed"
      PROVE  cmd'[p].name \in stale'
  <2>1. cmd[p].op = "dial" /\ cmd[p].name = cmd'[p].name /\ calm[p] /\ stale \subseteq stale'
    BY <1>1, <1>3, FailedStays
  <2>2. CASE cmd[p].pc = "failed"
    BY <2>1, <2>2 DEF HealInv, DialHeals
  <2>3. CASE cmd[p].pc # "failed"
    <3>1. PICK n \in Names : n = cmd[p].name
      BY <1>1, <2>1, Places
    <3>2. Healthy(n) /\ Torn(n) /\ files[n].addr = box[n].addr
      BY <1>1, <1>3, <2>1, <2>3, <3>1, FailsStep DEF HealInv
    <3>3. n \notin stale => Mendable(n)
      BY <3>2 DEF HealInv, Mended, Mends, Healthy
    <3> QED BY <2>1, <3>1, <3>2, <3>3 DEF Mendable, Healthy, Torn
  <2> QED BY <2>2, <2>3
<1> QED BY <1>2, <1>3 DEF HealInv, OwnInv, DialHeals

(* The refresh before a dial repairs what there is to repair: in whatever  *)
(* order commands, kills and restarts come, whatever address another       *)
(* container has taken, a dial that nothing disturbs gets through to its   *)
(* own sandbox, unless a restart has once come between the steps of a      *)
(* refresh of that sandbox.                                                *)
THEOREM DialHealsHolds == FleetSpec => []DialHeals
<1>1. HealInv /\ [FleetNext]_<<vars, fleetVars>> => HealInv'
  BY FleetSteps, HealInvStep DEF HealInv, OwnInv
<1>2. HealInv => DialHeals
  BY DEF HealInv
<1> QED BY <1>1, <1>2, HealInvInit, PTL DEF FleetSpec

(* After such a restart a dial may fail, but only by the two files naming  *)
(* different addresses, of which ssh_config, the only one a refresh looks  *)
(* at, has the right one.                                                  *)
THEOREM FailsTornHolds == FleetSpec => [][FailsTorn]_<<vars, fleetVars>>
<1>1. HealInv /\ [FleetNext]_<<vars, fleetVars>> => HealInv'
  BY FleetSteps, HealInvStep DEF HealInv, OwnInv
<1>2. HealInv /\ [FleetNext]_<<vars, fleetVars>> => [FailsTorn]_<<vars, fleetVars>>
  <2> SUFFICES ASSUME HealInv, [FleetNext]_<<vars, fleetVars>> PROVE FailsTorn
    OBVIOUS
  <2>1. Types /\ Step1
    BY FleetSteps DEF HealInv, OwnInv
  <2> QED BY <2>1, FailsStep DEF FailsTorn, HealInv
<1> QED BY <1>1, <1>2, HealInvInit, PTL DEF FleetSpec

=============================================================================
