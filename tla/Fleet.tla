------------------------------- MODULE Fleet -------------------------------
(***************************************************************************)
(* One command over several sandboxes (src/internal/cli/fleet.go): it      *)
(* finds its targets in the registry or in a fleet file (config/fleet.go), *)
(* works on a bounded number of them at once, and reports. Each target is  *)
(* dialled as any other command dials it (Sandboxes), while others create  *)
(* and remove sandboxes. `install` resolves the version everywhere before  *)
(* it installs anywhere; a mutation is an agent install or a bootstrap;    *)
(* `status` only looks.                                                    *)
(*                                                                         *)
(* A line of output is its pieces, as the operation writes them, behind    *)
(* the prefix of its sandbox.                                              *)
(*                                                                         *)
(* Left out: the globs of a selector (a part is the set of names that it   *)
(* matches), the holder of a lock that is taken (a refusal is a choice),   *)
(* timeouts and an interrupt (a failure is a choice), notices on stderr.   *)
(***************************************************************************)
EXTENDS Sandboxes

CONSTANTS
  Versions    \* what the upstream index offers for the line, one after the other

ASSUME FleetAssumption == Versions \in Seq(Nat \ {0}) /\ Versions # <<>>
ASSUME FinitelyMany == IsFiniteSet(Names)
ASSUME CastAssumption ==
  \A cast \in Casts : /\ "fleet" \in DOMAIN cast /\ cast.fleet.file \subseteq Names
                      /\ cast.fleet.dialer \in [Names -> Procs]

VARIABLES
  fleet,      \* the command: where it is, its targets, the next of them to start,
              \* its phase and its exit status
  job,        \* its goroutine of a target
  installed,  \* the version the command has put on a target, 0 if none
  out,        \* what it has printed
  mu,         \* who holds the lock of the output
  upstream    \* the position of the index

fleetVars == <<fleet, job, installed, out, mu, upstream>>

Asked == left.fleet
Prefix(n) == [of |-> n, piece |-> 0]
Piece(n, k) == [of |-> n, piece |-> k]

\* Which pieces of an operation's output end a line.
Pieces == CASE Asked.kind = "mutate" -> <<FALSE, TRUE, FALSE>>
            [] Asked.kind = "install" -> <<TRUE>>
            [] OTHER -> <<>>

NoJob == [stage |-> "none", err |-> FALSE, version |-> 0, said |-> 0, buf |-> <<>>]

FleetInit ==
  /\ Init
  /\ fleet = [pc |-> IF Asked.kind = "none" THEN "off" ELSE "resolve", targets |-> <<>>,
              next |-> 1, phase |-> 1, failed |-> FALSE]
  /\ job = [n \in Names |-> NoJob]
  /\ installed = [n \in Names |-> 0]
  /\ out = <<>> /\ mu = Nobody /\ upstream = 1

\* The one way to line up these names: sorted.
Before(m, n) == \E j, k \in DOMAIN Order : j < k /\ Order[j] = m /\ Order[k] = n
Sorted(ns) ==
  {s \in [1..Cardinality(ns) -> ns] : \A i, j \in 1..Cardinality(ns) : i < j => Before(s[i], s[j])}
Targets == {fleet.targets[i] : i \in DOMAIN fleet.targets}
Many == Len(fleet.targets) > 1

\* resolveFleet: a fleet file, or the registry.
Members == IF Asked.file # {} THEN Asked.file ELSE Listed

\* Fleet.Resolve: every part of the selector must match.
Matching == UNION {part \cap Members : part \in Asked.parts}
Unmatched == \E part \in Asked.parts : part \cap Members = {}

\* fleetTargetsRead, fleetTargetsMutate: without a selector everything, or, if the
\* command changes it, nothing but the only one.
Selected ==
  IF Asked.parts # {} THEN IF Unmatched THEN {} ELSE Matching
  ELSE IF Asked.kind = "status" \/ Cardinality(Members) = 1 THEN Members ELSE {}

ResolveTargets ==
  /\ fleet.pc = "resolve"
  /\ \/ Selected = {} /\ fleet' = [fleet EXCEPT !.pc = "ended", !.failed = TRUE]
     \/ /\ Selected # {}
        /\ \E targets \in Sorted(Selected) :
             fleet' = [fleet EXCEPT !.pc = "spawn", !.targets = targets]
  /\ UNCHANGED <<vars, job, installed, out, mu, upstream>>

(***************************************************************************)
(* The goroutines                                                          *)
(***************************************************************************)
Finished(n) == job[n].stage = "over"
Working == {n \in Targets : job[n].stage \notin {"none", "over"}}

At2(n, stage) == job[n].stage = stage
Stage(n, stage) == job' = [job EXCEPT ![n].stage = stage]
Errs(n, stage) == job' = [job EXCEPT ![n].stage = stage, ![n].err = TRUE]

\* The token is taken before the goroutine is started.
Spawn ==
  /\ fleet.pc = "spawn" /\ fleet.next <= Len(fleet.targets)
  /\ Cardinality(Working) < Asked.cap
  /\ LET n == fleet.targets[fleet.next] IN
     Stage(n, CASE fleet.phase = 1 -> IF Asked.kind = "status" THEN "dial" ELSE "lock"
                [] fleet.phase = 2 -> IF job[n].err THEN "flush" ELSE "install")
  /\ fleet' = [fleet EXCEPT !.next = @ + 1]
  /\ UNCHANGED <<vars, installed, out, mu, upstream>>

\* The lock of the sandbox, which another command may hold.
TakeOps(n) ==
  /\ At2(n, "lock")
  /\ Stage(n, "dial") \/ Errs(n, IF Asked.kind = "install" THEN "over" ELSE "flush")
  /\ UNCHANGED <<vars, fleet, installed, out, mu, upstream>>

StartDial(n) ==
  /\ At2(n, "dial")
  /\ Begin(Asked.dialer[n], "dial", n)
  /\ Stage(n, "dialing")
  /\ UNCHANGED <<fleet, installed, out, mu, upstream>>

Dialled(n) ==
  /\ At2(n, "dialing")
  /\ \/ /\ cmd[Asked.dialer[n]].pc = "done"
        /\ Stage(n, CASE Asked.kind = "status" -> "over" [] Asked.kind = "install" -> "pin"
                      [] OTHER -> "write")
     \/ /\ cmd[Asked.dialer[n]].pc \in {"failed", "killed"}
        /\ Errs(n, IF Asked.kind = "mutate" THEN "flush" ELSE "over")
  /\ UNCHANGED <<vars, fleet, installed, out, mu, upstream>>

\* The index may move between the resolutions of two members.
ResolveVersion(n) ==
  /\ At2(n, "pin")
  /\ \/ job' = [job EXCEPT ![n].stage = "over", ![n].version = Versions[upstream]]
     \/ Errs(n, "over")
  /\ UNCHANGED <<vars, fleet, installed, out, mu, upstream>>

\* What comes after an installation may fail, and it stays.
InstallPin(n) ==
  /\ At2(n, "install")
  /\ \/ Stage(n, "write") /\ installed' = [installed EXCEPT ![n] = job[n].version]
     \/ /\ Errs(n, "flush")
        /\ installed' \in {installed, [installed EXCEPT ![n] = job[n].version]}
  /\ UNCHANGED <<vars, fleet, out, mu, upstream>>

(***************************************************************************)
(* The output                                                              *)
(***************************************************************************)
\* Mutant: every writer has a lock of its own.
OutputFreeAlways == TRUE

OutputFree == mu = Nobody

\* prefixWriter.Write: a piece waits in the buffer for the end of its line.
Write(n) ==
  /\ At2(n, "write") /\ job[n].said < Len(Pieces) /\ OutputFree
  /\ LET k == job[n].said + 1 IN
     /\ job' = [job EXCEPT ![n].said = k, ![n].buf = Append(@, Piece(n, k)),
                           ![n].stage = IF Pieces[k] THEN "line" ELSE "write"]
     /\ IF Pieces[k] THEN mu' = n /\ out' = IF Many THEN Append(out, Prefix(n)) ELSE out
        ELSE UNCHANGED <<mu, out>>
  /\ UNCHANGED <<vars, fleet, installed, upstream>>

EndLine(n) ==
  /\ job[n].stage \in {"line", "tail"}
  /\ out' = out \o job[n].buf
  /\ mu' = Nobody
  /\ job' = [job EXCEPT ![n].buf = <<>>, ![n].stage = IF @ = "line" THEN "write" ELSE "over"]
  /\ UNCHANGED <<vars, fleet, installed, upstream>>

\* The operation ends, or fails midway.
OpEnds(n) ==
  /\ At2(n, "write")
  /\ \/ job[n].said = Len(Pieces) /\ Stage(n, "flush")
     \/ Asked.kind = "mutate" /\ Errs(n, "flush")
  /\ UNCHANGED <<vars, fleet, installed, out, mu, upstream>>

Flush(n) ==
  /\ At2(n, "flush") /\ OutputFree
  /\ IF job[n].buf = <<>> THEN Stage(n, "over") /\ UNCHANGED <<mu, out>>
     ELSE /\ Stage(n, "tail") /\ mu' = n
          /\ out' = IF Many THEN Append(out, Prefix(n)) ELSE out
  /\ UNCHANGED <<vars, fleet, installed, upstream>>

(***************************************************************************)
(* The command waits for all of them                                       *)
(***************************************************************************)
\* Mutant: the last one started is not waited for.
AllFinishedButLast == \A i \in 1..(fleet.next - 2) : Finished(fleet.targets[i])

AllFinished == \A n \in Targets : Finished(n)

Awaited == fleet.pc = "spawn" /\ fleet.next > Len(fleet.targets) /\ AllFinished
\* Mutant: whatever was resolved is installed.
AgreedAlways == TRUE

\* Nothing is installed anywhere unless all who resolved agree.
Agreed == \A m, n \in Targets : job[m].err \/ job[n].err \/ job[m].version = job[n].version

Compare ==
  /\ Awaited /\ Asked.kind = "install" /\ fleet.phase = 1
  /\ IF Agreed
       THEN /\ fleet' = [fleet EXCEPT !.phase = 2, !.next = 1]
            /\ job' = [n \in Names |-> [job[n] EXCEPT !.stage = "none"]]
       ELSE fleet' = [fleet EXCEPT !.pc = "ended", !.failed = TRUE] /\ UNCHANGED job
  /\ UNCHANGED <<vars, installed, out, mu, upstream>>

\* A status table of several ends well whoever was reached.
Summarize ==
  /\ Awaited /\ (Asked.kind = "install" => fleet.phase = 2)
  /\ fleet' = [fleet EXCEPT !.pc = "ended",
                !.failed = (Asked.kind # "status" \/ ~Many) /\ \E n \in Targets : job[n].err]
  /\ UNCHANGED <<vars, job, installed, out, mu, upstream>>

IndexMoves ==
  /\ Asked.kind = "install" /\ upstream < Len(Versions)
  /\ upstream' = upstream + 1
  /\ UNCHANGED <<vars, fleet, job, installed, out, mu>>

Goroutine(n) ==
  \/ TakeOps(n) \/ StartDial(n) \/ Dialled(n) \/ ResolveVersion(n) \/ InstallPin(n)
  \/ Write(n) \/ EndLine(n) \/ OpEnds(n) \/ Flush(n)

FleetNext ==
  \/ Next /\ UNCHANGED fleetVars
  \/ ResolveTargets \/ Spawn \/ Compare \/ Summarize \/ IndexMoves
  \/ \E n \in Names : Goroutine(n)

FleetSpec == FleetInit /\ [][FleetNext]_<<vars, fleetVars>>

-----------------------------------------------------------------------------
(* Properties                                                              *)

FleetTypeOK ==
  /\ fleet.pc \in {"off", "resolve", "spawn", "ended"} /\ fleet.phase \in 1..2
  /\ fleet.targets \in Seq(Names) /\ fleet.next \in 1..(Len(fleet.targets) + 1)
  /\ \A n \in Names : job[n].said \in 0..3
  /\ mu \in Names \cup {Nobody}
  /\ Cardinality(Working) <= Asked.cap

(* One command never leaves two sandboxes with different versions of a     *)
(* line, though the upstream index moves while it resolves and a member is *)
(* removed or fails in either phase (fleet.go:197-220).                    *)
OneVersion ==
  \A m, n \in Names : installed[m] # 0 /\ installed[n] # 0 => installed[m] = installed[n]

(* Output of several members stays attributable: a piece of a line stands  *)
(* behind the prefix of its member or the piece before it, and what an     *)
(* operation wrote before it ended or failed is printed, the unfinished    *)
(* last line too (prefixWriter, fleet.go:362-400).                         *)
LinesWhole ==
  Many =>
    /\ \A i \in DOMAIN out :
         out[i].piece > 0 =>
           i > 1 /\ out[i - 1] \in {Prefix(out[i].of), Piece(out[i].of, out[i].piece - 1)}
    /\ \A n \in Targets : Finished(n) =>
         \A k \in 1..job[n].said : \E i \in DOMAIN out : out[i] = Piece(n, k)

Worked(n) == IF Asked.kind = "install" THEN installed[n] # 0 ELSE job[n].said = Len(Pieces)

(* When the command ends, no target is still being worked on, and it ends  *)
(* well only if its work is done on every one of them, whoever failed      *)
(* before or after the others (fleet.go:196-244, 268-317). A status table  *)
(* has no exit status of its own.                                          *)
EveryMemberCounted ==
  fleet.pc = "ended" =>
    /\ \A n \in Targets : Finished(n)
    /\ ~fleet.failed => Targets # {} /\ \A n \in Targets : Worked(n)

=============================================================================
