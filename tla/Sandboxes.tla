----------------------------- MODULE Sandboxes -----------------------------
(***************************************************************************)
(* The sandboxes of one controller: `sandbox create`, `rm` and `host rm`   *)
(* (src/internal/cli/sandbox.go, sandbox_container.go) and the refresh     *)
(* before every dial, as processes that share the registry of files, the   *)
(* Lima instances (lima/lima.go) and the containers of one shared host     *)
(* (container/container.go). Any of them may be killed at any step, and    *)
(* the host may restart: its containers stop, and one that is started      *)
(* again gets an address that may have been another's.                     *)
(*                                                                         *)
(* The host is the Lima VM of a Mac (on Linux it is the controller's own   *)
(* machine, always up and never removed).                                  *)
(*                                                                         *)
(* Left out: sizes, templates and the gVisor runtime, the pinned key of    *)
(* the jump host, the two locks (Controllers) and what a bootstrap writes  *)
(* into a sandbox (Console).                                               *)
(***************************************************************************)
EXTENDS Naturals, Sequences, FiniteSets

CONSTANTS
  Names,      \* the names of sandboxes
  Order,      \* the names `create` tries when it is given none, in order
  Procs,      \* the processes, each runs one command
  Addrs,      \* the addresses of the containers' bridge
  Nobody,
  Casts       \* bounds: the commands of a behaviour and its faults, see Init

ASSUME OrderAssumption ==
  /\ Order \in Seq(Names) /\ \A n \in Names : \E i \in DOMAIN Order : Order[i] = n
  /\ \A i, j \in DOMAIN Order : Order[i] = Order[j] => i = j
ASSUME AddressAssumption == Cardinality(Addrs) >= Cardinality(Names)
\* A command names a sandbox, unless it is about the host, or a create that picks one.
ASSUME CommandsAssumption ==
  \A c \in Casts :
    /\ {"made", "cmds", "kills", "restarts"} \subseteq DOMAIN c
    /\ c.made \subseteq Names /\ DOMAIN c.cmds \subseteq Procs
    /\ \A p \in DOMAIN c.cmds :
         LET r == c.cmds[p] IN
         /\ r.op \in {"create", "create lima", "dial", "rm", "host rm", "host rm --force"}
         /\ r.name \in Names \/ (r.name = Nobody /\ r.op \in {"create", "host rm", "host rm --force"})
ASSUME DistinctAssumption == Names \cap Procs = {} /\ Nobody \notin Names \cup Procs \cup Addrs

VARIABLES
  entry,    \* the directory of a name: "none", "dir" without a config.yaml, or
            \* the backend the config names: "lima", "container"
  files,    \* the files beside it: the identity, the pinned host key and its
            \* address (known_hosts), the address of ssh_config
  default,  \* the default pointer
  vm,       \* the Lima instance of a name: whether it is there, and air-gapped
  host,     \* the containers' host: its state and what is installed on it
  box,      \* the container of a name: state, maker, address, authorized keys
  builder,  \* the builder containers on the host: whose build runs in each
  cmd,      \* the command of a process
  left,     \* the cast: what is still to come
  calm,     \* history: the commands that nothing has disturbed
  spoiled,  \* history: names whose create met another command, or a restart
  stale     \* history: names a restart took when their endpoint was being refreshed,
            \* or had been in part

registryVars == <<entry, files, default>>
hostVars == <<vm, host, box, builder>>
vars == <<registryVars, hostVars, cmd, left, calm, spoiled, stale>>

Keys == Procs \cup Names
NoFiles == [key |-> Nobody, pin |-> Nobody, at |-> Nobody, addr |-> Nobody]
NoBox == [state |-> "absent", made |-> Nobody, addr |-> Nobody, keys |-> {}]
NoCommand == [op |-> "none", name |-> Nobody, pc |-> "idle", ip |-> Nobody,
              started |-> FALSE, to |-> Nobody]

Ended == {"done", "failed", "killed"}
Active(p) == cmd[p].pc \notin Ended \cup {"idle"}
On(n) == {p \in Procs : Active(p) /\ cmd[p].name = n}

\* Sandboxes made earlier have their own name as their maker and key.
Init ==
  /\ left \in Casts
  /\ \E at \in [left.made -> Addrs] :
       /\ \A m, n \in left.made : m # n => at[m] # at[n]
       /\ files = [n \in Names |-> IF n \in left.made
                     THEN [key |-> n, pin |-> n, at |-> at[n], addr |-> at[n]] ELSE NoFiles]
       /\ box = [n \in Names |-> IF n \in left.made
                   THEN [state |-> "running", made |-> n, addr |-> at[n], keys |-> {n}] ELSE NoBox]
  /\ entry = [n \in Names |-> IF n \in left.made THEN "container" ELSE "none"]
  /\ default \in left.made \cup {Nobody} /\ (left.made # {} => default # Nobody)
  /\ vm = [n \in Names |-> [there |-> FALSE, gap |-> FALSE]]
  /\ host = IF left.made = {} THEN [state |-> "absent", has |-> {}]
            ELSE [state |-> "running", has |-> {"podman", "network", "image"}]
  /\ builder = [p \in Procs |-> Nobody]
  /\ cmd = [p \in Procs |-> NoCommand]
  /\ calm = [p \in Procs |-> FALSE] /\ spoiled = {} /\ stale = {}

Step(p, to) == cmd' = [cmd EXCEPT ![p].pc = to]
Fails(p) == Step(p, "failed")
Up == host.state = "running"
Running(n) == Up /\ box[n].state = "running"
At(a) == {n \in Names : Running(n) /\ box[n].addr = a}
FreeAddrs == Addrs \ {box[n].addr : n \in {m \in Names : box[m].state = "running"}}

\* listSandboxes: a directory without a config.yaml is none.
Listed == {n \in Names : entry[n] \in {"lima", "container"}}
\* Every name is in Order, which is the order of their spelling too.
First(ns) == Order[CHOOSE i \in DOMAIN Order :
                     Order[i] \in ns /\ \A j \in 1..(i - 1) : Order[j] \notin ns]

(***************************************************************************)
(* A command starts. A create or rm disturbs every other command on its    *)
(* name; a dial is undisturbed beside others that are.                     *)
(***************************************************************************)
Disturbing(op) == op \in {"create", "create lima", "rm"}

Begin(p, op, n) ==
  LET alone == IF Disturbing(op) THEN On(n) = {}
               ELSE \A q \in On(n) : ~Disturbing(cmd[q].op) /\ calm[q]
      sound == CASE op = "dial" -> entry[n] = "container" /\ Up /\ box[n].state # "absent"
                                     /\ n \notin spoiled
                 [] op = "create" -> n \notin Listed /\ box[n].state = "absent"
                 [] OTHER -> FALSE
  IN
  /\ cmd[p].pc = "idle"
  /\ cmd' = [cmd EXCEPT ![p] = [NoCommand EXCEPT !.op = op, !.name = n, !.pc = "begin"]]
  /\ calm' = [q \in Procs |-> IF q = p THEN alone /\ sound
                              ELSE calm[q] /\ ~(Disturbing(op) /\ q \in On(n))]
  /\ spoiled' = IF Disturbing(op) /\ On(n) # {} THEN spoiled \cup {n} ELSE spoiled
  /\ UNCHANGED <<registryVars, hostVars, left, stale>>

Start(p) ==
  /\ p \in DOMAIN left.cmds
  /\ LET op == left.cmds[p].op
         unnamed == left.cmds[p].name = Nobody /\ op = "create" IN
     /\ unnamed => Names \ Listed # {}
     /\ Begin(p, op, IF unnamed THEN First(Names \ Listed) ELSE left.cmds[p].name)

At1(p, op, pc) == cmd[p].op = op /\ cmd[p].pc = pc

(***************************************************************************)
(* create, with a container                                                *)
(***************************************************************************)
Refuse(p) ==
  /\ cmd[p].op \in {"create", "create lima"} /\ cmd[p].pc = "begin"
  /\ IF cmd[p].name \in Listed THEN Fails(p)
     ELSE Step(p, IF cmd[p].op = "create" THEN "host" ELSE "start vm")
  /\ UNCHANGED <<registryVars, hostVars, left, calm, spoiled, stale>>

\* Is the shared host running? The look is not repeated before the start.
HostThere(p) ==
  /\ cmd[p].pc = "host"
  /\ Step(p, IF Up THEN "podman" ELSE "start host")
  /\ UNCHANGED <<registryVars, hostVars, left, calm, spoiled, stale>>

\* It is created, or started when it is stopped; beside another create's start,
\* or after it, limactl may refuse, which is an error.
StartHost(p) ==
  /\ cmd[p].pc = "start host"
  /\ \/ host' = [host EXCEPT !.state = "running"] /\ Step(p, "podman") /\ UNCHANGED calm
     \/ /\ Up \/ \E q \in Procs \ {p} : cmd[q].pc = "start host"
        /\ Fails(p) /\ UNCHANGED host
        /\ calm' = [calm EXCEPT ![p] = FALSE]
  /\ UNCHANGED <<registryVars, vm, box, builder, left, spoiled, stale>>

\* Is what the create needs on the host? If not, another step puts it there.
Has(p, what, then, otherwise) ==
  /\ cmd[p].pc = what
  /\ Step(p, IF Up /\ what \in host.has THEN then ELSE otherwise)
  /\ UNCHANGED <<registryVars, hostVars, left, calm, spoiled, stale>>

Available(p) == Has(p, "podman", "network", "install")
NetworkThere(p) == Has(p, "network", "image", "net create")
ImageExists(p) == Has(p, "image", "key", "build")

Puts(p, what, then) ==
  IF Up THEN host' = [host EXCEPT !.has = @ \cup {what}] /\ Step(p, then)
  ELSE Fails(p) /\ UNCHANGED host

\* apt-get of two creates at once: the second does not get the package lock.
Install(p) ==
  /\ cmd[p].pc = "install"
  /\ \/ Puts(p, "podman", "network") /\ UNCHANGED calm
     \/ /\ \E q \in Procs \ {p} : cmd[q].pc = "install"
        /\ Fails(p) /\ UNCHANGED host
        /\ calm' = [calm EXCEPT ![p] = FALSE]
  /\ UNCHANGED <<registryVars, vm, box, builder, left, spoiled, stale>>

\* Mutant: a network somebody else has created meanwhile is an error.
NetCreateOnce(p) ==
  /\ cmd[p].pc = "net create"
  /\ IF "network" \in host.has THEN Fails(p) /\ UNCHANGED host ELSE Puts(p, "network", "image")
  /\ UNCHANGED <<registryVars, vm, box, builder, left, calm, spoiled, stale>>

\* Losing the race to create it is as good as creating it.
NetCreate(p) ==
  /\ cmd[p].pc = "net create"
  /\ Puts(p, "network", "image")
  /\ UNCHANGED <<registryVars, vm, box, builder, left, calm, spoiled, stale>>

\* The builder's name: of the process, its predecessor of that name removed.
BuilderName(p) == p

Build(p) ==
  /\ cmd[p].pc = "build"
  /\ IF Up THEN builder' = [builder EXCEPT ![BuilderName(p)] = p] /\ Step(p, "commit")
     ELSE Fails(p) /\ UNCHANGED builder
  /\ UNCHANGED <<registryVars, vm, host, box, left, calm, spoiled, stale>>

Commit(p) ==
  /\ cmd[p].pc = "commit"
  /\ IF builder[BuilderName(p)] = p THEN Puts(p, "image", "unbuild") /\ UNCHANGED builder
     ELSE Fails(p) /\ builder' = [builder EXCEPT ![BuilderName(p)] = Nobody] /\ UNCHANGED host
  /\ UNCHANGED <<registryVars, vm, box, left, calm, spoiled, stale>>

Unbuild(p) ==
  /\ cmd[p].pc = "unbuild"
  /\ IF Up THEN builder' = [builder EXCEPT ![BuilderName(p)] = Nobody] /\ Step(p, "key")
     ELSE Fails(p) /\ UNCHANGED builder
  /\ UNCHANGED <<registryVars, vm, host, box, left, calm, spoiled, stale>>

\* The pair of another create of this name is overwritten.
GenerateKey(p) ==
  LET n == cmd[p].name IN
  /\ cmd[p].pc = "key"
  /\ entry' = [entry EXCEPT ![n] = IF @ = "none" THEN "dir" ELSE @]
  /\ files' = [files EXCEPT ![n].key = p]
  /\ Step(p, "run")
  /\ UNCHANGED <<default, hostVars, left, calm, spoiled, stale>>

\* A container of the name, of whatever create, is an error.
RunContainer(p) ==
  LET n == cmd[p].name IN
  /\ cmd[p].pc = "run"
  /\ \/ /\ Up /\ box[n].state = "absent" /\ {"network", "image"} \subseteq host.has
        /\ \E a \in FreeAddrs :
             box' = [box EXCEPT ![n] = [state |-> "running", made |-> p, addr |-> a, keys |-> {}]]
        /\ Step(p, "authorize")
     \/ /\ ~(Up /\ box[n].state = "absent" /\ {"network", "image"} \subseteq host.has)
        /\ Fails(p) /\ UNCHANGED box
  /\ UNCHANGED <<registryVars, vm, host, builder, left, calm, spoiled, stale>>

AuthorizeKey(p) ==
  LET n == cmd[p].name IN
  /\ cmd[p].pc = "authorize"
  /\ IF Running(n) THEN box' = [box EXCEPT ![n].keys = @ \cup {p}] /\ Step(p, "ip")
     ELSE Fails(p) /\ UNCHANGED box
  /\ UNCHANGED <<registryVars, vm, host, builder, left, calm, spoiled, stale>>

\* A stopped container has no address.
Resolve(p, then) ==
  IF Running(cmd[p].name)
  THEN cmd' = [cmd EXCEPT ![p].pc = then, ![p].ip = box[cmd[p].name].addr]
  ELSE Fails(p)

FirstIP(p) ==
  /\ cmd[p].pc = "ip"
  /\ Resolve(p, "scan")
  /\ UNCHANGED <<registryVars, hostVars, left, calm, spoiled, stale>>

\* The host key is whatever answers at the address.
Keyscan(p) ==
  LET n == cmd[p].name IN
  /\ cmd[p].pc = "scan"
  /\ IF At(cmd[p].ip) # {} /\ entry[n] # "none"
     THEN /\ \E m \in At(cmd[p].ip) :
               files' = [files EXCEPT ![n].pin = box[m].made, ![n].at = cmd[p].ip]
          /\ Step(p, "ssh config")
     ELSE Fails(p) /\ UNCHANGED files
  /\ UNCHANGED <<entry, default, hostVars, left, calm, spoiled, stale>>

\* ssh_config: it names the host's own ssh details, so the host must be there.
WriteConfig(p, then) ==
  LET n == cmd[p].name IN
  IF host.state # "absent" /\ entry[n] # "none"
  THEN files' = [files EXCEPT ![n].addr = cmd[p].ip] /\ Step(p, then)
  ELSE Fails(p) /\ UNCHANGED files

FirstConfig(p) ==
  /\ cmd[p].pc = "ssh config"
  /\ WriteConfig(p, "register")
  /\ UNCHANGED <<entry, default, hostVars, left, calm, spoiled, stale>>

Register(p) ==
  LET n == cmd[p].name IN
  /\ cmd[p].pc = "register"
  /\ entry' = [entry EXCEPT ![n] = IF cmd[p].op = "create" THEN "container" ELSE "lima"]
  /\ Step(p, IF cmd[p].op = "create" THEN "state" ELSE "air-gap")
  /\ UNCHANGED <<files, default, hostVars, left, calm, spoiled, stale>>

(***************************************************************************)
(* create, with a Lima instance                                            *)
(***************************************************************************)
\* An instance that is there already, of an earlier create, is started.
StartVM(p) ==
  /\ cmd[p].pc = "start vm"
  /\ vm' = [vm EXCEPT ![cmd[p].name].there = TRUE]
  /\ Step(p, "record")
  /\ UNCHANGED <<registryVars, host, box, builder, left, calm, spoiled, stale>>

Record(p) ==
  LET n == cmd[p].name IN
  /\ cmd[p].pc = "record"
  /\ IF vm[n].there
     THEN entry' = [entry EXCEPT ![n] = IF @ = "none" THEN "dir" ELSE @] /\ Step(p, "register")
     ELSE Fails(p) /\ UNCHANGED entry
  /\ UNCHANGED <<files, default, hostVars, left, calm, spoiled, stale>>

AirGap(p) ==
  LET n == cmd[p].name IN
  /\ cmd[p].pc = "air-gap"
  /\ IF vm[n].there THEN vm' = [vm EXCEPT ![n].gap = TRUE] /\ Step(p, "connect")
     ELSE Fails(p) /\ UNCHANGED vm
  /\ UNCHANGED <<registryVars, host, box, builder, left, calm, spoiled, stale>>

\* The tail of both: the only sandbox, or the one asked for, is the default.
FinishCreate(p) ==
  /\ cmd[p].pc = "finish"
  /\ \E make \in BOOLEAN :
       default' = IF make \/ Cardinality(Listed) = 1 THEN cmd[p].name ELSE default
  /\ Step(p, "done")
  /\ UNCHANGED <<entry, files, hostVars, left, calm, spoiled, stale>>

(***************************************************************************)
(* A dial: of a command, of a reconnect, or of the create's own bootstrap. *)
(* A container's endpoint is refreshed first.                              *)
(***************************************************************************)
Load(p) ==
  LET n == cmd[p].name IN
  /\ At1(p, "dial", "begin")
  /\ CASE entry[n] = "container" -> Step(p, "state")
       [] entry[n] = "lima" -> Step(p, "connect")
       [] OTHER -> Fails(p)
  /\ UNCHANGED <<registryVars, hostVars, left, calm, spoiled, stale>>

State(p) ==
  LET n == cmd[p].name IN
  /\ cmd[p].pc = "state"
  /\ IF Up /\ box[n].state # "absent"
     THEN Step(p, IF box[n].state = "running" THEN "address" ELSE "start")
     ELSE Fails(p)
  /\ UNCHANGED <<registryVars, hostVars, left, calm, spoiled, stale>>

\* One that runs by now keeps its address.
StartContainer(p) ==
  LET n == cmd[p].name IN
  /\ cmd[p].pc = "start"
  /\ \/ /\ Up /\ box[n].state = "stopped"
        /\ \E a \in FreeAddrs : box' = [box EXCEPT ![n].state = "running", ![n].addr = a]
        /\ cmd' = [cmd EXCEPT ![p].pc = "address", ![p].started = TRUE]
     \/ /\ Running(n)
        /\ cmd' = [cmd EXCEPT ![p].pc = "address", ![p].started = TRUE]
        /\ UNCHANGED box
     \/ /\ ~Up \/ box[n].state = "absent"
        /\ Fails(p) /\ UNCHANGED box
  /\ UNCHANGED <<registryVars, vm, host, builder, left, calm, spoiled, stale>>

CurrentIP(p) ==
  /\ cmd[p].pc = "address"
  /\ Resolve(p, "check")
  /\ UNCHANGED <<registryVars, hostVars, left, calm, spoiled, stale>>

\* Mutant: ssh_config is rewritten before known_hosts.
RewriteSwapped(p) ==
  LET n == cmd[p].name IN
  \/ /\ cmd[p].pc = "check"
     /\ IF files[n].addr = cmd[p].ip THEN Step(p, "ready") /\ UNCHANGED files
        ELSE WriteConfig(p, "pin")
     /\ UNCHANGED <<entry, default, hostVars, left, calm, spoiled, stale>>
  \/ /\ cmd[p].pc = "pin" /\ entry[n] # "none"
     /\ files' = [files EXCEPT ![n].at = cmd[p].ip]
     /\ Step(p, "ready")
     /\ UNCHANGED <<entry, default, hostVars, left, calm, spoiled, stale>>

\* An endpoint that has moved: known_hosts is pointed at it, its key kept, and
\* then ssh_config, which the next refresh looks at.
Rewrite(p) ==
  LET n == cmd[p].name IN
  \/ /\ cmd[p].pc = "check"
     /\ Step(p, IF files[n].addr = cmd[p].ip THEN "ready" ELSE "pin")
     /\ UNCHANGED <<registryVars, hostVars, left, calm, spoiled, stale>>
  \/ /\ cmd[p].pc = "pin"
     /\ IF files[n].pin # Nobody
        THEN files' = [files EXCEPT ![n].at = cmd[p].ip] /\ Step(p, "write")
        ELSE Fails(p) /\ UNCHANGED files
     /\ UNCHANGED <<entry, default, hostVars, left, calm, spoiled, stale>>
  \/ /\ cmd[p].pc = "write"
     /\ WriteConfig(p, "ready")
     /\ UNCHANGED <<entry, default, hostVars, left, calm, spoiled, stale>>

\* A container that was started is waited for, whoever answers.
Ready(p) ==
  /\ cmd[p].pc = "ready"
  /\ IF cmd[p].started /\ At(cmd[p].ip) = {} THEN Fails(p) ELSE Step(p, "connect")
  /\ UNCHANGED <<registryVars, hostVars, left, calm, spoiled, stale>>

\* Whoever answers at the address of ssh_config, with the pinned key there, and
\* knows the identity.
Reached(n) ==
  {m \in At(files[n].addr) :
     files[n].at = files[n].addr /\ box[m].made = files[n].pin /\ files[n].key \in box[m].keys}

Connect(p) ==
  LET n == cmd[p].name
      then == IF cmd[p].op = "dial" THEN "done" ELSE "finish" IN
  /\ cmd[p].pc = "connect"
  /\ \/ \E m \in Reached(n) : cmd' = [cmd EXCEPT ![p].pc = then, ![p].to = m]
     \/ Reached(n) = {} /\ entry[n] = "lima" /\ vm[n].there /\ Step(p, then)
     \/ Reached(n) = {} /\ ~(entry[n] = "lima" /\ vm[n].there) /\ Fails(p)
  /\ UNCHANGED <<registryVars, hostVars, left, calm, spoiled, stale>>

(***************************************************************************)
(* rm: a config that does not load is taken for a remote sandbox's.        *)
(***************************************************************************)
LoadRm(p) ==
  /\ At1(p, "rm", "begin")
  /\ Step(p, CASE entry[cmd[p].name] = "lima" -> "delete vm"
               [] entry[cmd[p].name] = "container" -> "delete"
               [] OTHER -> "forget")
  /\ UNCHANGED <<registryVars, hostVars, left, calm, spoiled, stale>>

\* The backend is the one the config named when it was loaded.
Delete(p) ==
  LET n == cmd[p].name IN
  /\ \/ /\ cmd[p].pc = "delete vm"
        /\ vm' = [vm EXCEPT ![n] = [there |-> FALSE, gap |-> FALSE]]
        /\ Step(p, "forget") /\ UNCHANGED box
     \/ /\ cmd[p].pc = "delete" /\ Up
        /\ box' = [box EXCEPT ![n] = NoBox]
        /\ Step(p, "forget") /\ UNCHANGED vm
     \/ /\ cmd[p].pc = "delete" /\ ~Up
        /\ Fails(p) /\ UNCHANGED <<vm, box>>
  /\ UNCHANGED <<registryVars, host, builder, left, calm, spoiled, stale>>

Forget(p) ==
  LET n == cmd[p].name IN
  /\ cmd[p].pc = "forget"
  /\ entry' = [entry EXCEPT ![n] = "none"]
  /\ files' = [files EXCEPT ![n] = NoFiles]
  /\ Step(p, "default")
  /\ UNCHANGED <<default, hostVars, left, calm, spoiled, stale>>

\* The default moves to the first that is left: read here, written next.
ReadDefault(p) ==
  /\ cmd[p].pc = "default"
  /\ cmd' = [cmd EXCEPT ![p].pc = IF default = cmd[p].name THEN "repoint" ELSE "done",
                        ![p].to = IF Listed = {} THEN Nobody ELSE First(Listed)]
  /\ UNCHANGED <<registryVars, hostVars, left, calm, spoiled, stale>>

Repoint(p) ==
  /\ cmd[p].pc = "repoint"
  /\ default' = cmd[p].to
  /\ Step(p, "done")
  /\ UNCHANGED <<entry, files, hostVars, left, calm, spoiled, stale>>

(***************************************************************************)
(* host rm: refused while a registered sandbox uses the host.              *)
(***************************************************************************)
CountUsers(p) ==
  /\ cmd[p].op \in {"host rm", "host rm --force"} /\ cmd[p].pc = "begin"
  /\ CASE cmd[p].op = "host rm" /\ (\E n \in Names : entry[n] = "container") -> Fails(p)
       [] host.state = "absent" -> Step(p, "done")
       [] OTHER -> Step(p, "destroy")
  /\ UNCHANGED <<registryVars, hostVars, left, calm, spoiled, stale>>

\* Everything is lost that is on the host, a create's work included.
DestroyHost(p) ==
  /\ cmd[p].pc = "destroy"
  /\ host' = [state |-> "absent", has |-> {}]
  /\ box' = [n \in Names |-> NoBox]
  /\ builder' = [q \in Procs |-> Nobody]
  /\ Step(p, "done")
  /\ calm' = [q \in Procs |-> calm[q] /\ ~Active(q)]
  /\ UNCHANGED <<registryVars, vm, left, spoiled, stale>>

(***************************************************************************)
(* Faults.                                                                 *)
(***************************************************************************)
Kill(p) ==
  /\ Active(p) /\ left.kills > 0
  /\ left' = [left EXCEPT !.kills = @ - 1]
  /\ Step(p, "killed")
  /\ UNCHANGED <<registryVars, hostVars, calm, spoiled, stale>>

\* A refresh writes known_hosts and then ssh_config, and looks at the latter only.
Torn(n) == entry[n] = "container" /\ files[n].at # files[n].addr

\* It has looked up the address, and has not written it yet.
Refreshing(p) == cmd[p].op = "dial" /\ cmd[p].pc \in {"check", "pin", "write"}

\* The host goes down with its containers, and may come back.
Restart ==
  /\ Up /\ left.restarts > 0
  /\ left' = [left EXCEPT !.restarts = @ - 1]
  /\ \E state \in {"running", "stopped"} : host' = [host EXCEPT !.state = state]
  /\ box' = [n \in Names |-> IF box[n].state = "running"
               THEN [box[n] EXCEPT !.state = "stopped", !.addr = Nobody] ELSE box[n]]
  /\ builder' = [p \in Procs |-> Nobody]
  /\ calm' = [p \in Procs |-> calm[p] /\ ~Active(p)]
  /\ spoiled' = spoiled \cup {cmd[p].name : p \in {q \in Procs : Active(q) /\ cmd[q].op = "create"}}
  /\ stale' = stale \cup {n \in Names : Torn(n) \/ \E p \in On(n) : Refreshing(p)}
  /\ UNCHANGED <<registryVars, vm, cmd>>

CreateContainer(p) ==
  \/ HostThere(p) \/ StartHost(p) \/ Available(p) \/ Install(p) \/ NetworkThere(p) \/ NetCreate(p)
  \/ ImageExists(p) \/ Build(p) \/ Commit(p) \/ Unbuild(p) \/ GenerateKey(p)
  \/ RunContainer(p) \/ AuthorizeKey(p) \/ FirstIP(p) \/ Keyscan(p) \/ FirstConfig(p)

CreateVM(p) == StartVM(p) \/ Record(p) \/ AirGap(p)

Create(p) == Refuse(p) \/ CreateContainer(p) \/ CreateVM(p) \/ Register(p) \/ FinishCreate(p)

Dial(p) ==
  Load(p) \/ State(p) \/ StartContainer(p) \/ CurrentIP(p) \/ Rewrite(p) \/ Ready(p) \/ Connect(p)

Remove(p) == LoadRm(p) \/ Delete(p) \/ Forget(p) \/ ReadDefault(p) \/ Repoint(p)

RemoveHost(p) == CountUsers(p) \/ DestroyHost(p)

Next ==
  \/ \E p \in Procs : Start(p) \/ Create(p) \/ Dial(p) \/ Remove(p) \/ RemoveHost(p) \/ Kill(p)
  \/ Restart

Spec == Init /\ [][Next]_vars

-----------------------------------------------------------------------------
TypeOK ==
  /\ entry \in [Names -> {"none", "dir", "lima", "container"}]
  /\ files \in [Names -> [key : Keys \cup {Nobody}, pin : Keys \cup {Nobody},
                          at : Addrs \cup {Nobody}, addr : Addrs \cup {Nobody}]]
  /\ default \in Names \cup {Nobody}
  /\ vm \in [Names -> [there : BOOLEAN, gap : BOOLEAN]]
  /\ host \in [state : {"absent", "stopped", "running"}, has : SUBSET {"podman", "network", "image"}]
  /\ box \in [Names -> [state : {"absent", "stopped", "running"}, made : Keys \cup {Nobody},
                        addr : Addrs \cup {Nobody}, keys : SUBSET Keys]]
  /\ \A m, n \in Names : m # n /\ box[m].addr # Nobody => box[m].addr # box[n].addr
  /\ builder \in [Procs -> Procs \cup {Nobody}]
  /\ \A p \in Procs : cmd[p].name \in Names \cup {Nobody} /\ cmd[p].to \in Names \cup {Nobody}
  /\ calm \in [Procs -> BOOLEAN] /\ spoiled \subseteq Names /\ stale \subseteq Names

(***************************************************************************)
(* Creates of different sandboxes do not get in each other's way (the      *)
(* network that two create, the builders of the base image, container.go): *)
(* one that found its name free fails only if it was killed, if the host   *)
(* went away, if it lost the race to bring the host up or its package lock *)
(* was taken, or if another command worked on its name.                    *)
(***************************************************************************)
CreatesIndependent ==
  \A p \in Procs : cmd[p].op = "create" /\ calm[p] => cmd[p].pc # "failed"

\* A dial that gets through, disturbed or not, has reached the container of its sandbox.
DialsOwn == \A p \in Procs : cmd[p].op = "dial" /\ cmd[p].to # Nobody => cmd[p].to = cmd[p].name

(***************************************************************************)
(* However often the host has restarted, whatever address another          *)
(* container has taken meanwhile, whoever was killed: a dial of a          *)
(* container sandbox gets through (refreshContainerSSHWith), unless the    *)
(* host goes away or a restart has ever come between the steps of a        *)
(* refresh of its endpoint; and it gets to the sandbox's own.              *)
(***************************************************************************)
DialHeals ==
  /\ \A p \in Procs : cmd[p].op = "dial" /\ calm[p] /\ cmd[p].pc = "failed" => cmd[p].name \in stale
  /\ DialsOwn

(* And even then a dial that nothing disturbs fails in no other way than   *)
(* by the two files naming different addresses, of which ssh_config has    *)
(* the right one (refreshContainerSSHWith compares no other).              *)
FailsTorn ==
  \A p \in Procs :
    LET n == cmd[p].name IN
    cmd[p].op = "dial" /\ calm[p] /\ cmd[p].pc # "failed" /\ cmd'[p].pc = "failed" =>
      Torn(n) /\ files[n].addr = box[n].addr

=============================================================================
