---------------------------- MODULE FleetProofs ----------------------------
(***************************************************************************)
(* A command over any number of sandboxes, beside any others: one version  *)
(* of a line, nobody left out of its end, and lines of output that stay    *)
(* whole.                                                                  *)
(***************************************************************************)
EXTENDS Fleet, FiniteSetTheorems, TLAPS

fvars == <<vars, fleetVars>>

Pieced == [of : Names, piece : Nat]
Stages == {"none", "lock", "dial", "dialing", "pin", "install", "write", "line", "tail", "flush", "over"}
Jobs == [stage : Stages, err : BOOLEAN, version : Nat, said : Nat, buf : Seq(Pieced)]
Commands == [pc : {"off", "resolve", "spawn", "ended"}, targets : Seq(Names), next : Nat \ {0},
             phase : {1, 2}, failed : BOOLEAN]

\* The command as it was given.
Given == {"fleet", "kills", "restarts"} \subseteq DOMAIN left /\ Asked.file \subseteq Names

FleetTypes ==
  /\ fleet \in Commands
  /\ job \in [Names -> Jobs]
  /\ installed \in [Names -> Nat]
  /\ upstream \in 1..Len(Versions)

-----------------------------------------------------------------------------
(* The commands of the sandboxes leave the fleet's command as it was given, *)
(* and the fleet's own goroutines do too.                                   *)
LEMMA AskedStays ==
  ASSUME Given, Next
  PROVE  left'.fleet = left.fleet /\ DOMAIN left' = DOMAIN left
<1>1. ASSUME NEW p \in Procs, Start(p) PROVE left' = left
  BY <1>1 DEF Start, Begin
<1>2. ASSUME NEW p \in Procs, CreateContainer(p) PROVE left' = left
  BY <1>2 DEF CreateContainer, HostThere, StartHost, Available, Has, Install, NetworkThere, NetCreate,
     ImageExists, Build, Commit, Unbuild, GenerateKey, RunContainer, AuthorizeKey, FirstIP, Keyscan,
     FirstConfig
<1>3. ASSUME NEW p \in Procs, Create(p) PROVE left' = left
  BY <1>2, <1>3 DEF Create, Refuse, CreateVM, StartVM, Record, AirGap, Register, FinishCreate
<1>4. ASSUME NEW p \in Procs, Dial(p) PROVE left' = left
  BY <1>4 DEF Dial, Load, State, StartContainer, CurrentIP, Rewrite, Ready, Connect
<1>5. ASSUME NEW p \in Procs, Remove(p) PROVE left' = left
  BY <1>5 DEF Remove, LoadRm, Delete, Forget, ReadDefault, Repoint
<1>6. ASSUME NEW p \in Procs, RemoveHost(p) PROVE left' = left
  BY <1>6 DEF RemoveHost, CountUsers, DestroyHost
<1>7. ASSUME NEW p \in Procs, Kill(p) PROVE left'.fleet = left.fleet /\ DOMAIN left' = DOMAIN left
  BY <1>7 DEF Kill, Given
<1>8. CASE Restart
  BY <1>8 DEF Restart, Given
<1> QED
  BY <1>1, <1>3, <1>4, <1>5, <1>6, <1>7, <1>8 DEF Next

(* The command and its goroutines spend none of the cast. *)
LEMMA LeftStays ==
  ASSUME ResolveTargets \/ Spawn \/ Compare \/ Summarize \/ IndexMoves \/ \E n \in Names : Goroutine(n)
  PROVE  left' = left
<1>1. ASSUME NEW n \in Names, Goroutine(n) PROVE left' = left
  BY <1>1 DEF Goroutine, TakeOps, StartDial, Begin, Dialled, ResolveVersion, InstallPin, Write,
     EndLine, OpEnds, Flush, vars
<1> QED
  BY <1>1 DEF ResolveTargets, Spawn, Compare, Summarize, IndexMoves, vars

(* The command stays as it was given. *)
LEMMA GivenStep == Given /\ [FleetNext]_fvars => Given' /\ left'.fleet = left.fleet
  BY AskedStays, LeftStays DEF Given, FleetNext, Asked, fvars, vars

(* Sorted targets are a sequence of names, not empty if anything is selected. *)
LEMMA SortedType ==
  ASSUME NEW ns \in SUBSET Names, NEW s \in Sorted(ns)
  PROVE  s \in Seq(Names) /\ (ns # {} => Len(s) > 0)
<1>1. IsFiniteSet(ns)
  BY FinitelyMany, FS_Subset
<1>2. Cardinality(ns) \in Nat /\ (Cardinality(ns) = 0 <=> ns = {})
  BY <1>1, FS_CardinalityType, FS_EmptySet
<1>3. s \in [1..Cardinality(ns) -> Names]
  BY DEF Sorted
<1>4. s \in Seq(Names) /\ Len(s) = Cardinality(ns)
  BY <1>2, <1>3
<1> QED
  BY <1>2, <1>4

(* What is selected is in the fleet file or in the registry. *)
LEMMA SelectedNames == Given => Selected \subseteq Names
  BY DEF Given, Selected, Members, Matching, Listed

(* The target a position holds is a name. *)
LEMMA TargetsNames ==
  ASSUME FleetTypes
  PROVE  /\ Targets \subseteq Names
         /\ \A i \in Nat : 0 < i /\ i <= Len(fleet.targets) => fleet.targets[i] \in Targets
  BY DEF FleetTypes, Commands, Targets

-----------------------------------------------------------------------------
(* Updates of the fleet's record. *)
LEMMA CommandUpdates ==
  ASSUME NEW f \in Commands, NEW k \in Nat \ {0}
  PROVE  /\ [f EXCEPT !.next = k] \in Commands
         /\ [f EXCEPT !.phase = 2, !.next = k] \in Commands
         /\ \A b \in BOOLEAN : [f EXCEPT !.pc = "ended", !.failed = b] \in Commands
<1>1. [f EXCEPT !.next = k] \in Commands
  BY DEF Commands
<1>2. [f EXCEPT !.phase = 2, !.next = k] \in Commands
  BY DEF Commands
<1>3. \A b \in BOOLEAN : [f EXCEPT !.pc = "ended", !.failed = b] \in Commands
  BY DEF Commands
<1> QED
  BY <1>1, <1>2, <1>3

(* What a step does to the fleet's record, and to the goroutine of a target. *)
LEMMA FleetRecord ==
  ASSUME Given, FleetTypes, FleetNext
  PROVE  fleet' \in Commands
<1> USE DEF FleetTypes
<1>1. CASE ResolveTargets
  <2>1. ASSUME NEW s \in Sorted(Selected) PROVE s \in Seq(Names)
    BY <2>1, SelectedNames, SortedType
  <2> QED
    BY <1>1, <2>1 DEF ResolveTargets, Commands
<1>2. CASE Spawn
  <2>1. fleet' = [fleet EXCEPT !.next = fleet.next + 1]
    BY <1>2 DEF Spawn
  <2>2. fleet.next + 1 \in Nat \ {0} /\ 1 \in Nat \ {0} /\ fleet \in Commands
    BY DEF Commands
  <2> QED
    BY <2>1, <2>2, CommandUpdates
<1>3. CASE Compare
  <2>1. \/ fleet' = [fleet EXCEPT !.phase = 2, !.next = 1]
        \/ fleet' = [fleet EXCEPT !.pc = "ended", !.failed = TRUE]
    BY <1>3 DEF Compare
  <2>2. fleet.next + 1 \in Nat \ {0} /\ 1 \in Nat \ {0} /\ fleet \in Commands
    BY DEF Commands
  <2> QED
    BY <2>1, <2>2, CommandUpdates
<1>4. CASE Summarize
  <2>1. ((Asked.kind # "status" \/ ~Many) /\ \E n \in Targets : job[n].err) \in BOOLEAN
    OBVIOUS
  <2> QED
    BY <1>4, <2>1 DEF Summarize, Commands
<1>5. CASE (Next /\ UNCHANGED fleetVars) \/ IndexMoves
  BY <1>5 DEF IndexMoves, fleetVars
<1>6. ASSUME NEW n \in Names, Goroutine(n) PROVE fleet' = fleet
  BY <1>6 DEF Goroutine, TakeOps, StartDial, Dialled, ResolveVersion, InstallPin, Write, EndLine,
     OpEnds, Flush
<1> QED
  BY <1>1, <1>2, <1>3, <1>4, <1>5, <1>6 DEF FleetNext


-----------------------------------------------------------------------------
(* What a goroutine may do to the record of its target, and to what is     *)
(* installed there: it fails, goes on with the dial, is pinned, installs,  *)
(* writes, or ends.                                                        *)
Same(i, j) == (j.err <=> i.err) /\ j.version = i.version /\ j.said = i.said

Fail(n, i, j) ==
  /\ i.stage \in {"lock", "dialing", "pin", "install", "write"}
  /\ i.stage = "write" => Asked.kind = "mutate"
  /\ j.stage \in {"over", "flush"} /\ j.err /\ j.version = i.version /\ j.said = i.said
  /\ \/ installed' = installed
     \/ i.stage = "install" /\ installed' = [installed EXCEPT ![n] = i.version]

Reach(i, j) ==
  /\ Same(i, j) /\ installed' = installed
  /\ i.stage \in {"lock", "dial", "dialing"}
  /\ \/ j.stage \in {"dial", "dialing"}
     \/ Asked.kind = "status" /\ j.stage = "over"
     \/ Asked.kind = "install" /\ j.stage = "pin"
     \/ Asked.kind \notin {"status", "install"} /\ j.stage = "write"

Pinned(i, j) ==
  /\ i.stage = "pin" /\ j.stage = "over"
  /\ (j.err <=> i.err) /\ j.version = Versions[upstream] /\ j.said = i.said
  /\ installed' = installed

Installs(n, i, j) ==
  /\ i.stage = "install" /\ j.stage = "write" /\ Same(i, j)
  /\ installed' = [installed EXCEPT ![n] = i.version]

Writes(i, j) ==
  /\ i.stage = "write" /\ i.said < Len(Pieces) /\ j.stage \in {"line", "write"}
  /\ (j.err <=> i.err) /\ j.version = i.version /\ j.said = i.said + 1
  /\ installed' = installed

Ends(i, j) ==
  /\ Same(i, j) /\ installed' = installed
  /\ \/ i.stage = "line" /\ j.stage = "write"
     \/ i.stage = "tail" /\ j.stage = "over"
     \/ i.stage = "flush" /\ j.stage \in {"over", "tail"}
     \/ i.stage = "write" /\ i.said = Len(Pieces) /\ j.stage = "flush"

Does(n, i, j) ==
  Fail(n, i, j) \/ Reach(i, j) \/ Pinned(i, j) \/ Installs(n, i, j) \/ Writes(i, j) \/ Ends(i, j)

(* The updates of a record, and what they leave. *)
Staged(i, at) == [i EXCEPT !.stage = at]
Failed(i, at) == [i EXCEPT !.stage = at, !.err = TRUE]
Versioned(i, k) == [i EXCEPT !.stage = "over", !.version = k]
Said(i, at, k, b) == [i EXCEPT !.stage = at, !.said = k, !.buf = b]

(* Each update of a record is a record. *)
LEMMA JobUpdates ==
  ASSUME NEW i \in Jobs, NEW at \in Stages, NEW k \in Nat, NEW b \in Seq(Pieced)
  PROVE  /\ Staged(i, at) \in Jobs /\ Failed(i, at) \in Jobs /\ Versioned(i, k) \in Jobs
         /\ Said(i, at, k, b) \in Jobs
<1>1. Staged(i, at) \in Jobs
  BY DEF Jobs, Staged
<1>2. Failed(i, at) \in Jobs
  BY DEF Jobs, Failed
<1>3. Versioned(i, k) \in Jobs
  BY DEF Jobs, Versioned, Stages
<1>4. Said(i, at, k, b) \in Jobs
  BY DEF Jobs, Said
<1> QED
  BY <1>1, <1>2, <1>3, <1>4

(* A new stage leaves the rest. *)
LEMMA StagedFields ==
  ASSUME NEW i \in Jobs, NEW at \in Stages
  PROVE  Staged(i, at).stage = at /\ Same(i, Staged(i, at))
  BY DEF Jobs, Staged, Same

(* A failure leaves the version and what was printed. *)
LEMMA FailedFields ==
  ASSUME NEW i \in Jobs, NEW at \in Stages
  PROVE  /\ Failed(i, at).stage = at /\ Failed(i, at).err
         /\ Failed(i, at).version = i.version /\ Failed(i, at).said = i.said
<1>1. Failed(i, at).stage = at /\ Failed(i, at).err
  BY DEF Jobs, Failed
<1>2. Failed(i, at).version = i.version /\ Failed(i, at).said = i.said
  BY DEF Jobs, Failed
<1> QED
  BY <1>1, <1>2

(* A resolved version leaves the error and what was printed. *)
LEMMA VersionedFields ==
  ASSUME NEW i \in Jobs, NEW k \in Nat
  PROVE  /\ Versioned(i, k).stage = "over" /\ (Versioned(i, k).err <=> i.err)
         /\ Versioned(i, k).version = k /\ Versioned(i, k).said = i.said
<1>1. Versioned(i, k).stage = "over"
  BY DEF Jobs, Versioned
<1>2. Versioned(i, k).err <=> i.err
  BY DEF Jobs, Versioned
<1>3. Versioned(i, k).version = k /\ Versioned(i, k).said = i.said
  BY DEF Jobs, Versioned
<1> QED
  BY <1>1, <1>2, <1>3

(* A piece printed leaves the error and the version. *)
LEMMA SaidFields ==
  ASSUME NEW i \in Jobs, NEW at \in Stages, NEW k \in Nat, NEW b \in Seq(Pieced)
  PROVE  /\ Said(i, at, k, b).stage = at /\ (Said(i, at, k, b).err <=> i.err)
         /\ Said(i, at, k, b).version = i.version /\ Said(i, at, k, b).said = k
<1>1. Said(i, at, k, b).stage = at /\ (Said(i, at, k, b).err <=> i.err)
  BY DEF Jobs, Said
<1>2. Said(i, at, k, b).version = i.version /\ Said(i, at, k, b).said = k
  BY DEF Jobs, Said
<1> QED
  BY <1>1, <1>2

(* The two ways the code moves a goroutine. *)
LEMMA StageStep ==
  ASSUME FleetTypes, NEW n \in Names, NEW at
  PROVE  /\ Stage(n, at) => job' = [job EXCEPT ![n] = Staged(job[n], at)]
         /\ Errs(n, at) => job' = [job EXCEPT ![n] = Failed(job[n], at)]
  BY DEF FleetTypes, Stage, Errs, Staged, Failed

(* An empty buffer is a buffer. *)
LEMMA EmptyBuffer == <<>> \in Seq(Pieced)
  OBVIOUS

(* What Stage and Errs do, in the fields. *)
Becomes(n, j) == job' = [job EXCEPT ![n] = j]
Goes(n, at) == \E j \in Jobs : Becomes(n, j) /\ j.stage = at /\ Same(job[n], j)
Breaks(n, at) ==
  \E j \in Jobs : /\ Becomes(n, j) /\ j.stage = at /\ j.err
                  /\ j.version = job[n].version /\ j.said = job[n].said

(* Stage and Errs, in the fields. *)
LEMMA StageMoves ==
  ASSUME FleetTypes, NEW n \in Names, NEW at \in Stages
  PROVE  (Stage(n, at) => Goes(n, at)) /\ (Errs(n, at) => Breaks(n, at))
<1>1. job[n] \in Jobs
  BY DEF FleetTypes
<1>2. <<>> \in Seq(Pieced) /\ 0 \in Nat
  BY EmptyBuffer
<1>3. Staged(job[n], at) \in Jobs /\ Failed(job[n], at) \in Jobs
  BY <1>1, <1>2, JobUpdates
<1>4. /\ Staged(job[n], at).stage = at /\ Same(job[n], Staged(job[n], at))
      /\ Failed(job[n], at).stage = at /\ Failed(job[n], at).err
      /\ Failed(job[n], at).version = job[n].version /\ Failed(job[n], at).said = job[n].said
  BY <1>1, StagedFields, FailedFields
<1>5. ASSUME Stage(n, at) PROVE Goes(n, at)
  <2>1. Becomes(n, Staged(job[n], at))
    BY <1>5, StageStep DEF Becomes
  <2> QED
    BY <1>3, <1>4, <2>1 DEF Goes
<1>6. ASSUME Errs(n, at) PROVE Breaks(n, at)
  <2>1. Becomes(n, Failed(job[n], at))
    BY <1>6, StageStep DEF Becomes
  <2> QED
    BY <1>3, <1>4, <2>1 DEF Breaks
<1> QED
  BY <1>5, <1>6

(* Every step of a goroutine is one of those. *)
Step1(n) == \E j \in Jobs : Becomes(n, j) /\ Does(n, job[n], j)

(* A step of a goroutine fails, reaches, pins, installs, writes or ends. *)
LEMMA GoroutineStep ==
  ASSUME FleetTypes, NEW n \in Names, Goroutine(n)
  PROVE  Step1(n)
<1> DEFINE Kind == Asked.kind
<1>0. job[n] \in Jobs /\ job \in [Names -> Jobs]
  BY DEF FleetTypes
<1>1. CASE TakeOps(n)
  <2>1. CASE Stage(n, "dial")
    <3>1. Goes(n, "dial")
      BY <2>1, StageMoves DEF Stages
    <3> QED
      BY <1>1, <3>1 DEF TakeOps, At2, Goes, Reach, Does, Step1
  <2>2. CASE Errs(n, IF Kind = "install" THEN "over" ELSE "flush")
    <3>1. Breaks(n, "over") \/ Breaks(n, "flush")
      BY <2>2, StageMoves DEF Stages
    <3> QED
      BY <1>1, <3>1 DEF TakeOps, At2, Breaks, Fail, Does, Step1
  <2> QED
    BY <1>1, <2>1, <2>2 DEF TakeOps
<1>2. CASE StartDial(n)
  <2>1. Goes(n, "dialing")
    BY <1>2, StageMoves DEF StartDial, Stages
  <2> QED
    BY <1>2, <2>1 DEF StartDial, At2, Goes, Reach, Does, Step1
<1>3. CASE Dialled(n)
  <2>0. job[n].stage = "dialing" /\ installed' = installed
    BY <1>3 DEF Dialled, At2
  <2>1. CASE Kind = "status" /\ Stage(n, "over")
    <3>1. Goes(n, "over")
      BY <2>1, StageMoves DEF Stages
    <3> QED
      BY <2>0, <2>1, <3>1 DEF Goes, Reach, Does, Step1
  <2>2. CASE Kind = "install" /\ Stage(n, "pin")
    <3>1. Goes(n, "pin")
      BY <2>2, StageMoves DEF Stages
    <3> QED
      BY <2>0, <2>2, <3>1 DEF Goes, Reach, Does, Step1
  <2>3. CASE Kind \notin {"status", "install"} /\ Stage(n, "write")
    <3>1. Goes(n, "write")
      BY <2>3, StageMoves DEF Stages
    <3> QED
      BY <2>0, <2>3, <3>1 DEF Goes, Reach, Does, Step1
  <2>4. CASE Errs(n, IF Kind = "mutate" THEN "flush" ELSE "over")
    <3>1. Breaks(n, "over") \/ Breaks(n, "flush")
      BY <2>4, StageMoves DEF Stages
    <3> QED
      BY <2>0, <3>1 DEF Breaks, Fail, Does, Step1
  <2> QED
    BY <1>3, <2>1, <2>2, <2>3, <2>4 DEF Dialled
<1>4. CASE ResolveVersion(n)
  <2>1. CASE Errs(n, "over")
    <3>1. Breaks(n, "over")
      BY <2>1, StageMoves DEF Stages
    <3> QED
      BY <1>4, <3>1 DEF ResolveVersion, At2, Breaks, Fail, Does, Step1
  <2>2. CASE job' = [job EXCEPT ![n].stage = "over", ![n].version = Versions[upstream]]
    <3> DEFINE k == Versions[upstream]
               j == Versioned(job[n], k)
    <3>1. k \in Nat /\ <<>> \in Seq(Pieced) /\ "over" \in Stages
      BY FleetAssumption, EmptyBuffer DEF FleetTypes, Stages
    <3>2. Becomes(n, j)
      BY <1>0, <2>2 DEF Becomes, Versioned
    <3> HIDE DEF j, k
    <3>3. j \in Jobs
      BY <1>0, <3>1, JobUpdates DEF j
    <3>4. j.stage = "over" /\ (j.err <=> job[n].err) /\ j.version = k /\ j.said = job[n].said
      BY <1>0, <3>1, VersionedFields DEF j
    <3>5. Pinned(job[n], j)
      BY <1>4, <3>4 DEF ResolveVersion, At2, Pinned, k
    <3> QED
      BY <3>2, <3>3, <3>5 DEF Does, Step1
  <2> QED
    BY <1>4, <2>1, <2>2 DEF ResolveVersion
<1>5. CASE InstallPin(n)
  <2>1. CASE /\ Errs(n, "flush")
             /\ installed' \in {installed, [installed EXCEPT ![n] = job[n].version]}
    <3>1. Breaks(n, "flush")
      BY <2>1, StageMoves DEF Stages
    <3> QED
      BY <1>5, <2>1, <3>1 DEF InstallPin, At2, Breaks, Fail, Does, Step1
  <2>2. CASE Stage(n, "write") /\ installed' = [installed EXCEPT ![n] = job[n].version]
    <3>1. Goes(n, "write")
      BY <2>2, StageMoves DEF Stages
    <3> QED
      BY <1>5, <2>2, <3>1 DEF InstallPin, At2, Goes, Installs, Does, Step1
  <2> QED
    BY <1>5, <2>1, <2>2 DEF InstallPin
<1>6. CASE Write(n)
  <2> DEFINE k == job[n].said + 1
             at == IF Pieces[k] THEN "line" ELSE "write"
             b == Append(job[n].buf, Piece(n, k))
             j == Said(job[n], at, k, b)
  <2>1. job[n].said \in Nat /\ k \in Nat /\ Piece(n, k) \in Pieced /\ job[n].buf \in Seq(Pieced)
    BY <1>0 DEF Jobs, Pieced, Piece
  <2>2. b \in Seq(Pieced)
    BY <2>1
  <2>3. Becomes(n, j)
    BY <1>0, <1>6 DEF Write, Becomes, Said
  <2>4. at \in {"line", "write"} /\ at \in Stages
    BY DEF Stages
  <2>5. job[n].stage = "write" /\ job[n].said < Len(Pieces) /\ installed' = installed
    BY <1>6 DEF Write, At2
  <2> HIDE DEF at, b, j
  <2>6. j \in Jobs
    BY <1>0, <2>1, <2>2, <2>4, JobUpdates DEF j
  <2>7. j.stage = at /\ (j.err <=> job[n].err) /\ j.version = job[n].version /\ j.said = k
    BY <1>0, <2>1, <2>2, <2>4, SaidFields DEF j
  <2>8. Writes(job[n], j)
    BY <2>4, <2>5, <2>7 DEF Writes
  <2> QED
    BY <2>3, <2>6, <2>8 DEF Does, Step1
<1>7. CASE EndLine(n)
  <2> DEFINE at == IF job[n].stage = "line" THEN "write" ELSE "over"
             k == job[n].said
             b == <<>>
             j == Said(job[n], at, k, b)
  <2>1. Becomes(n, j)
    BY <1>0, <1>7 DEF EndLine, Becomes, Said, Jobs
  <2>2. at \in Stages /\ b \in Seq(Pieced) /\ k \in Nat
    BY <1>0, EmptyBuffer DEF Stages, Jobs
  <2>3. job[n].stage \in {"line", "tail"} /\ installed' = installed
    BY <1>7 DEF EndLine
  <2> HIDE DEF at, k, b, j
  <2>4. j \in Jobs
    BY <1>0, <2>2, JobUpdates DEF j
  <2>5. j.stage = at /\ (j.err <=> job[n].err) /\ j.version = job[n].version /\ j.said = k
    BY <1>0, <2>2, SaidFields DEF j
  <2>6. Ends(job[n], j)
    BY <2>3, <2>5 DEF Ends, Same, at, k
  <2> QED
    BY <2>1, <2>4, <2>6 DEF Does, Step1
<1>8. CASE OpEnds(n)
  <2>1. CASE job[n].said = Len(Pieces) /\ Stage(n, "flush")
    <3>1. Goes(n, "flush")
      BY <2>1, StageMoves DEF Stages
    <3> QED
      BY <1>8, <2>1, <3>1 DEF OpEnds, At2, Goes, Ends, Does, Step1
  <2>2. CASE Asked.kind = "mutate" /\ Errs(n, "flush")
    <3>1. Breaks(n, "flush")
      BY <2>2, StageMoves DEF Stages
    <3> QED
      BY <1>8, <2>2, <3>1 DEF OpEnds, At2, Breaks, Fail, Does, Step1
  <2> QED
    BY <1>8, <2>1, <2>2 DEF OpEnds
<1>9. CASE Flush(n)
  <2>1. Goes(n, "over") \/ Goes(n, "tail")
    BY <1>9, StageMoves DEF Flush, Stages
  <2> QED
    BY <1>9, <2>1 DEF Flush, At2, Goes, Ends, Does, Step1
<1> QED
  BY <1>1, <1>2, <1>3, <1>4, <1>5, <1>6, <1>7, <1>8, <1>9 DEF Goroutine


(* A goroutine is started for a target: in the second phase it installs,   *)
(* unless its member has failed.                                           *)
LEMMA SpawnStep ==
  ASSUME FleetTypes, Spawn
  PROVE  \E n \in Targets, at \in Stages :
           /\ Goes(n, at) /\ installed' = installed
           /\ fleet.phase = 1 => at \in {"dial", "lock"}
           /\ fleet.phase = 1 /\ at = "lock" => Asked.kind # "status"
           /\ fleet.phase = 2 => at = IF job[n].err THEN "flush" ELSE "install"
<1> DEFINE n == fleet.targets[fleet.next]
<1>1. fleet.targets \in Seq(Names) /\ fleet.next \in Nat \ {0} /\ fleet.phase \in {1, 2}
  BY DEF FleetTypes, Commands
<1>2. PICK at \in Stages : /\ Stage(n, at) /\ (fleet.phase = 1 => at \in {"dial", "lock"})
                           /\ fleet.phase = 1 /\ at = "lock" => Asked.kind # "status"
                           /\ fleet.phase = 2 => at = IF job[n].err THEN "flush" ELSE "install"
  BY <1>1 DEF Spawn, Stages
<1> QED
  BY <1>1, <1>2, TargetsNames, StageMoves DEF Spawn


(* An update of one record leaves the others. *)
LEMMA OthersStay ==
  ASSUME FleetTypes, NEW n \in Names, NEW j \in Jobs, Becomes(n, j)
  PROVE  /\ job' \in [Names -> Jobs] /\ job'[n] = j
         /\ \A m \in Names \ {n} : job'[m] = job[m]
  BY DEF FleetTypes, Becomes

(* A goroutine changes what is installed on its own target only. *)
LEMMA InstalledStays ==
  ASSUME FleetTypes, NEW n \in Names, NEW j \in Jobs, Does(n, job[n], j)
  PROVE  /\ installed' \in [Names -> Nat]
         /\ \A m \in Names \ {n} : installed'[m] = installed[m]
         /\ \/ installed'[n] = installed[n]
            \/ installed'[n] = job[n].version /\ job[n].stage = "install"
<1>1. job[n].version \in Nat
  BY DEF FleetTypes, Jobs
<1> QED
  BY <1>1 DEF FleetTypes, Does, Fail, Reach, Pinned, Installs, Writes, Ends

(* The command is well formed at the start. *)
LEMMA FleetTypesInit == FleetInit => Given /\ FleetTypes
<1> SUFFICES ASSUME FleetInit PROVE Given /\ FleetTypes
  OBVIOUS
<1>1. left \in Casts
  BY DEF FleetInit, Init
<1>2. fleet \in Commands
  BY DEF FleetInit, Commands
<1>3. NoJob \in Jobs
  BY EmptyBuffer DEF NoJob, Jobs, Stages
<1>4. job \in [Names -> Jobs] /\ installed \in [Names -> Nat]
  BY <1>3 DEF FleetInit
<1>5. upstream \in 1..Len(Versions)
  BY FleetAssumption DEF FleetInit
<1> QED
  BY <1>1, <1>2, <1>4, <1>5, CastAssumption, CommandsAssumption DEF FleetTypes, Given, Asked

(* And stays so. *)
LEMMA FleetTypesStep == Given /\ FleetTypes /\ [FleetNext]_fvars => FleetTypes'
<1> SUFFICES ASSUME Given, FleetTypes, [FleetNext]_fvars PROVE FleetTypes'
  OBVIOUS
<1>1. CASE UNCHANGED fvars
  BY <1>1 DEF fvars, fleetVars, FleetTypes
<1> SUFFICES ASSUME FleetNext PROVE FleetTypes'
  BY <1>1
<1>2. fleet' \in Commands
  BY FleetRecord
<1>3. ASSUME NEW n \in Names, Goroutine(n) PROVE FleetTypes'
  <2>1. upstream' = upstream
    BY <1>3 DEF Goroutine, TakeOps, StartDial, Dialled, ResolveVersion, InstallPin, Write, EndLine,
       OpEnds, Flush
  <2>2. PICK j \in Jobs : Becomes(n, j) /\ Does(n, job[n], j)
    BY <1>3, GoroutineStep DEF Step1
  <2> QED
    BY <1>2, <2>1, <2>2, OthersStay, InstalledStays DEF FleetTypes
<1>4. CASE Spawn
  <2>1. PICK n \in Targets, at \in Stages : Goes(n, at) /\ installed' = installed
    BY <1>4, SpawnStep
  <2>2. n \in Names
    BY TargetsNames
  <2>3. job' \in [Names -> Jobs]
    BY <2>1, <2>2, OthersStay DEF Goes
  <2> QED
    BY <1>2, <1>4, <2>1, <2>3 DEF Spawn, FleetTypes
<1>5. CASE Compare
  <2>1. \A n \in Names : [job[n] EXCEPT !.stage = "none"] \in Jobs
    <3> SUFFICES ASSUME NEW n \in Names PROVE [job[n] EXCEPT !.stage = "none"] \in Jobs
      OBVIOUS
    <3>1. job[n] \in Jobs /\ "none" \in Stages /\ <<>> \in Seq(Pieced) /\ 0 \in Nat
      BY EmptyBuffer DEF FleetTypes, Stages
    <3>2. Staged(job[n], "none") \in Jobs
      BY <3>1, JobUpdates
    <3> QED
      BY <3>2 DEF Staged
  <2>2. job' \in [Names -> Jobs]
    BY <1>5, <2>1 DEF Compare, FleetTypes
  <2> QED
    BY <1>2, <1>5, <2>2 DEF Compare, FleetTypes
<1>6. CASE ResolveTargets \/ Summarize \/ (Next /\ UNCHANGED fleetVars)
  BY <1>2, <1>6 DEF ResolveTargets, Summarize, fleetVars, FleetTypes
<1>7. CASE IndexMoves
  BY <1>2, <1>7, FleetAssumption DEF IndexMoves, FleetTypes
<1> QED
  BY <1>3, <1>4, <1>5, <1>6, <1>7 DEF FleetNext

-----------------------------------------------------------------------------
(***************************************************************************)
(* One version. Before the comparison nothing is installed; after it all   *)
(* members that have not failed are pinned to one version, and nobody      *)
(* resolves any more.                                                      *)
(***************************************************************************)
Early == {"lock", "dial", "dialing", "pin"}

Agree(v) ==
  \A n \in Names :
    /\ installed[n] # 0 => installed[n] = v
    /\ job[n].stage = "install" => job[n].version = v
    /\ n \in Targets /\ ~job[n].err => job[n].version = v

OneLine ==
  /\ fleet.phase = 1 => \A n \in Names : installed[n] = 0 /\ job[n].stage # "install"
  /\ fleet.phase = 2 => /\ fleet.pc \in {"spawn", "ended"}
                        /\ \A n \in Names : job[n].stage \notin Early
                        /\ \E v : Agree(v)

OneInv == Given /\ FleetTypes /\ OneLine

(* A step of a goroutine keeps the one version. *)
LEMMA OneLineGoroutine ==
  ASSUME OneInv, NEW n \in Names, NEW j \in Jobs, Becomes(n, j), fleet' = fleet,
         Does(n, job[n], j)
  PROVE  OneLine'
<1>1. FleetTypes /\ OneLine /\ fleet.phase \in {1, 2}
  BY DEF OneInv, FleetTypes, Commands
<1>2. job'[n] = j /\ \A m \in Names \ {n} : job'[m] = job[m]
  BY <1>1, OthersStay
<1>3. Targets' = Targets
  BY DEF Targets
<1>4. CASE fleet.phase = 1
  <2>1. j.stage # "install" /\ \A m \in Names : installed'[m] = installed[m]
    BY <1>1, <1>4 DEF OneLine, Does, Fail, Reach, Pinned, Installs, Writes, Ends
  <2> QED
    BY <1>1, <1>2, <1>4, <2>1 DEF OneLine
<1>5. CASE fleet.phase = 2
  <2>1. PICK v : Agree(v)
    BY <1>1, <1>5 DEF OneLine
  <2>2. job[n].stage \notin Early
    BY <1>1, <1>5 DEF OneLine
  <2>3. /\ j.stage \notin Early /\ j.stage # "install"
        /\ j.version = job[n].version /\ (job[n].err => j.err)
    BY <2>2 DEF Early, Does, Fail, Reach, Pinned, Installs, Writes, Ends, Same
  <2>4. installed'[n] # 0 => installed'[n] = v
    BY <1>1, <2>1, InstalledStays DEF Agree, Installs
  <2>5. \A m \in Names \ {n} : installed'[m] = installed[m]
    BY <1>1, InstalledStays
  <2>6. Agree(v)'
    BY <1>2, <1>3, <2>1, <2>3, <2>4, <2>5 DEF Agree
  <2> QED
    BY <1>1, <1>2, <1>5, <2>3, <2>6 DEF OneLine
<1> QED
  BY <1>1, <1>4, <1>5

(* Nothing is installed at the start. *)
LEMMA OneInvInit == FleetInit => OneInv
<1> SUFFICES ASSUME FleetInit PROVE OneLine
  BY FleetTypesInit DEF OneInv
<1> QED
  BY DEF FleetInit, OneLine, NoJob

(* Every step keeps the one version. *)
LEMMA OneInvStep == OneInv /\ [FleetNext]_fvars => OneInv'
<1> SUFFICES ASSUME OneInv, [FleetNext]_fvars PROVE OneLine'
  BY GivenStep, FleetTypesStep DEF OneInv
<1>0. Given /\ FleetTypes /\ OneLine
  BY DEF OneInv
<1>1. ASSUME fleet' = fleet, job' = job, installed' = installed PROVE OneLine'
  <2>1. Targets' = Targets
    BY <1>1 DEF Targets
  <2> QED
    BY <1>0, <1>1, <2>1 DEF OneLine, Agree
<1>2. CASE UNCHANGED fvars \/ (Next /\ UNCHANGED fleetVars) \/ IndexMoves
  BY <1>1, <1>2 DEF fvars, fleetVars, IndexMoves
<1>3. ASSUME NEW n \in Names, Goroutine(n) PROVE OneLine'
  <2>1. fleet' = fleet
    BY <1>3 DEF Goroutine, TakeOps, StartDial, Dialled, ResolveVersion, InstallPin, Write, EndLine,
       OpEnds, Flush
  <2> QED
    BY <1>0, <1>3, <2>1, GoroutineStep, OneLineGoroutine DEF Step1
<1>4. CASE ResolveTargets
  <2>1. fleet.phase = 1 /\ fleet'.phase = fleet.phase
    BY <1>0, <1>4 DEF ResolveTargets, OneLine, FleetTypes, Commands
  <2>2. job' = job /\ installed' = installed
    BY <1>4 DEF ResolveTargets
  <2> QED
    BY <1>0, <2>1, <2>2 DEF OneLine
<1>5. CASE Spawn
  <2>1. PICK n \in Targets, at \in Stages :
           /\ Goes(n, at) /\ installed' = installed
           /\ fleet.phase = 1 => at \in {"dial", "lock"}
           /\ fleet.phase = 2 => at = IF job[n].err THEN "flush" ELSE "install"
    BY <1>0, <1>5, SpawnStep
  <2>2. n \in Names
    BY <1>0, TargetsNames
  <2>3. PICK j \in Jobs : Becomes(n, j) /\ j.stage = at /\ Same(job[n], j)
    BY <2>1 DEF Goes
  <2>4. /\ fleet'.phase = fleet.phase /\ fleet'.pc = fleet.pc /\ fleet'.targets = fleet.targets
        /\ fleet.phase \in {1, 2}
    BY <1>0, <1>5 DEF Spawn, FleetTypes, Commands
  <2>5. Targets' = Targets
    BY <2>4 DEF Targets
  <2>6. job'[n] = j /\ \A m \in Names \ {n} : job'[m] = job[m]
    BY <1>0, <2>2, <2>3, OthersStay
  <2>7. CASE fleet.phase = 1
    BY <1>0, <2>1, <2>3, <2>4, <2>6, <2>7 DEF OneLine
  <2>8. CASE fleet.phase = 2
    <3>1. PICK v : Agree(v)
      BY <1>0, <2>8 DEF OneLine
    <3>2. Agree(v)'
      BY <2>1, <2>3, <2>5, <2>6, <2>8, <3>1 DEF Agree, Same
    <3>3. j.stage \notin Early
      BY <2>1, <2>3, <2>8 DEF Early
    <3> QED
      BY <1>0, <2>4, <2>6, <2>8, <3>2, <3>3 DEF OneLine
  <2> QED
    BY <2>4, <2>7, <2>8
<1>6. CASE Compare
  <2>1. fleet.phase = 1 /\ fleet.pc = "spawn" /\ installed' = installed
    BY <1>6 DEF Compare, Awaited
  <2>2. CASE Agreed /\ fleet' = [fleet EXCEPT !.phase = 2, !.next = 1]
             /\ job' = [n \in Names |-> [job[n] EXCEPT !.stage = "none"]]
    <3>1. fleet'.pc = "spawn" /\ fleet'.phase = 2 /\ fleet'.targets = fleet.targets
      BY <1>0, <2>1, <2>2 DEF FleetTypes, Commands
    <3>2. \A n \in Names : /\ job'[n].stage = "none" /\ job'[n].version = job[n].version
                           /\ job'[n].err <=> job[n].err
      BY <1>0, <2>2 DEF FleetTypes, Jobs
    <3>3. Targets' = Targets /\ Targets \subseteq Names
      BY <1>0, <3>1, TargetsNames DEF Targets
    <3>4. \E v : \A n \in Targets : ~job[n].err => job[n].version = v
      BY <2>2 DEF Agreed
    <3>5. \A n \in Names : installed'[n] = 0
      BY <1>0, <2>1 DEF OneLine
    <3>6. \E v : Agree(v)'
      BY <3>2, <3>3, <3>4, <3>5, ZenonT(30) DEF Agree
    <3> QED
      BY <3>1, <3>2, <3>6 DEF OneLine, Early
  <2>3. CASE fleet' = [fleet EXCEPT !.pc = "ended", !.failed = TRUE] /\ UNCHANGED job
    <3>1. fleet'.phase = 1
      BY <1>0, <2>1, <2>3 DEF FleetTypes, Commands
    <3> QED
      BY <1>0, <2>1, <2>3, <3>1 DEF OneLine
  <2> QED
    BY <1>6, <2>2, <2>3 DEF Compare
<1>7. CASE Summarize
  <2>1. /\ fleet'.phase = fleet.phase /\ fleet'.pc = "ended" /\ fleet'.targets = fleet.targets
        /\ job' = job /\ installed' = installed
    BY <1>0, <1>7 DEF Summarize, FleetTypes, Commands
  <2>2. Targets' = Targets
    BY <2>1 DEF Targets
  <2> QED
    BY <1>0, <2>1, <2>2 DEF OneLine, Agree
<1> QED
  BY <1>2, <1>3, <1>4, <1>5, <1>6, <1>7 DEF FleetNext

(* One command leaves one version of a line on the sandboxes it installs   *)
(* it on, whatever the index, the members and other commands do meanwhile. *)
THEOREM OneVersionHolds == FleetSpec => []OneVersion
<1>1. FleetInit => OneInv
  BY OneInvInit
<1>2. OneInv /\ [FleetNext]_<<vars, fleetVars>> => OneInv'
  BY OneInvStep DEF fvars
<1>3. OneInv => OneVersion
  BY DEF OneInv, OneLine, Agree, OneVersion, FleetTypes, Commands
<1> QED
  BY <1>1, <1>2, <1>3, PTL DEF FleetSpec

-----------------------------------------------------------------------------
(***************************************************************************)
(* The end of the command. Only targets have goroutines, and a goroutine   *)
(* that is over without an error has done its work, by kind of command.    *)
(***************************************************************************)
Kind == Asked.kind

Whereabouts ==
  /\ fleet.pc \in {"off", "resolve"} => fleet.targets = <<>>
  /\ fleet.pc = "spawn" => Targets # {}
  /\ \A n \in Names : job[n].stage # "none" => n \in Targets
  /\ fleet.pc = "ended" => AllFinished

\* What an install knows of a member that has not failed.
InstallWork ==
  Kind = "install" => \A n \in Names :
    /\ job[n].stage \in {"write", "line"} => installed[n] # 0
    /\ job[n].stage \in {"flush", "tail"} /\ ~job[n].err => installed[n] # 0
    /\ job[n].stage = "install" => job[n].version # 0
    /\ job[n].stage = "over" /\ ~job[n].err => job[n].version # 0
    /\ fleet.phase = 2 /\ n \in Targets /\ ~job[n].err => job[n].version # 0
    /\ fleet.phase = 2 /\ job[n].stage = "over" /\ ~job[n].err => installed[n] # 0

\* What the others know.
OtherWork ==
  Kind # "install" =>
    /\ fleet.phase = 1
    /\ Kind = "status" => \A n \in Names : job[n].said = 0
    /\ \A n \in Names : job[n].stage # "pin"
    /\ \A n \in Names : job[n].stage \in {"flush", "tail", "over"} /\ ~job[n].err => job[n].said = Len(Pieces)

EndsWell ==
  fleet.pc = "ended" /\ ~fleet.failed => Targets # {} /\ \A n \in Targets : Worked(n)

CountInv == OneInv /\ Whereabouts /\ InstallWork /\ OtherWork /\ EndsWell

(* A status prints nothing piecewise. *)
LEMMA PiecesOfStatus == Kind = "status" => Len(Pieces) = 0
  BY DEF Kind, Pieces

(* Nobody is worked on at the start. *)
LEMMA CountInvInit == FleetInit => CountInv
<1> SUFFICES ASSUME FleetInit PROVE CountInv
  OBVIOUS
<1>1. OneInv
  BY OneInvInit
<1>2. /\ fleet.targets = <<>> /\ fleet.phase = 1 /\ fleet.pc \in {"off", "resolve"}
      /\ job = [n \in Names |-> NoJob]
  BY DEF FleetInit
<1>3. \A n \in Names : job[n].stage = "none" /\ job[n].said = 0
  BY <1>2 DEF NoJob
<1> QED
  BY <1>1, <1>2, <1>3 DEF CountInv, Whereabouts, InstallWork, OtherWork, EndsWell

(* A goroutine keeps all of it, and one runs only before the end. *)
LEMMA CountGoroutine ==
  ASSUME CountInv, NEW n \in Names, NEW j \in Jobs, Becomes(n, j), Does(n, job[n], j),
         fleet' = fleet, left'.fleet = left.fleet
  PROVE  Whereabouts' /\ InstallWork' /\ OtherWork' /\ EndsWell'
<1>1. FleetTypes /\ OneLine /\ fleet.phase \in {1, 2}
  BY DEF CountInv, OneInv, FleetTypes, Commands
<1>2. job' \in [Names -> Jobs] /\ job'[n] = j /\ \A m \in Names \ {n} : job'[m] = job[m]
  BY <1>1, OthersStay
<1>3. Targets' = Targets /\ Targets \subseteq Names
  BY <1>1, TargetsNames DEF Targets
<1>4. Kind' = Kind /\ Pieces' = Pieces
  BY DEF Kind, Pieces, Asked
<1>5. /\ installed' \in [Names -> Nat] /\ \A m \in Names \ {n} : installed'[m] = installed[m]
      /\ \/ installed'[n] = installed[n]
         \/ installed'[n] = job[n].version /\ job[n].stage = "install"
  BY <1>1, InstalledStays
<1>6. job[n].stage \notin {"none", "over"} /\ j.stage # "none"
  BY DEF Does, Fail, Reach, Pinned, Installs, Writes, Ends
<1>7. n \in Targets /\ fleet.pc # "ended"
  BY <1>3, <1>6 DEF CountInv, Whereabouts, AllFinished, Finished
<1>8. Whereabouts' /\ EndsWell'
  BY <1>2, <1>3, <1>7 DEF CountInv, Whereabouts, EndsWell
<1>9. InstallWork'
  <2> SUFFICES ASSUME Kind = "install" PROVE InstallWork'
    BY <1>4 DEF InstallWork
  <2>1. /\ job[n].stage \in {"write", "line"} => installed[n] # 0
        /\ job[n].stage \in {"flush", "tail"} /\ ~job[n].err => installed[n] # 0
        /\ job[n].stage = "install" => job[n].version # 0
        /\ fleet.phase = 2 /\ n \in Targets /\ ~job[n].err => job[n].version # 0
    BY DEF CountInv, InstallWork
  <2>2. /\ fleet.phase = 1 => installed[n] = 0 /\ job[n].stage # "install"
        /\ fleet.phase = 2 => job[n].stage \notin Early
    BY <1>1 DEF OneLine
  <2>3. Versions[upstream] # 0
    BY <1>1, FleetAssumption DEF FleetTypes
  <2>4. /\ j.stage \in {"write", "line"} => installed'[n] # 0
        /\ j.stage \in {"flush", "tail"} /\ ~j.err => installed'[n] # 0
        /\ j.stage # "install"
    <3>1. CASE Fail(n, job[n], j)
      BY <3>1 DEF Fail
    <3>2. CASE Reach(job[n], j)
      BY <3>2 DEF Reach, Kind
    <3>3. CASE Pinned(job[n], j)
      BY <3>3 DEF Pinned
    <3>4. CASE Installs(n, job[n], j)
      BY <1>1, <2>1, <3>4 DEF Installs, FleetTypes
    <3>5. CASE Writes(job[n], j)
      BY <2>1, <3>5 DEF Writes
    <3>6. CASE Ends(job[n], j)
      BY <2>1, <3>6 DEF Ends, Same
    <3> QED
      BY <3>1, <3>2, <3>3, <3>4, <3>5, <3>6 DEF Does
  <2>5. fleet.phase = 2 /\ ~j.err => j.version # 0
    BY <1>7, <2>1, <2>2, <2>3 DEF Early, Does, Fail, Reach, Pinned, Installs, Writes, Ends, Same
  <2>6. j.stage = "over" /\ ~j.err => j.version # 0 /\ (fleet.phase = 2 => installed'[n] # 0)
    <3>1. CASE Pinned(job[n], j)
      BY <2>2, <2>3, <3>1 DEF Pinned, Early
    <3>2. CASE Ends(job[n], j)
      BY <1>1, <2>1, <2>2, <2>5, <3>2 DEF Ends, Same
    <3>3. CASE Fail(n, job[n], j) \/ Reach(job[n], j) \/ Installs(n, job[n], j) \/ Writes(job[n], j)
      BY <3>3 DEF Fail, Reach, Installs, Writes, Kind
    <3> QED
      BY <3>1, <3>2, <3>3 DEF Does
  <2> QED
    BY <1>2, <1>3, <1>5, <2>4, <2>5, <2>6 DEF CountInv, InstallWork
<1>10. OtherWork'
  <2> SUFFICES ASSUME Kind # "install" PROVE OtherWork'
    BY <1>4 DEF OtherWork
  <2>1. /\ fleet.phase = 1 /\ (Kind = "status" => job[n].said = 0)
        /\ job[n].stage \in {"flush", "tail", "over"} /\ ~job[n].err => job[n].said = Len(Pieces)
    BY DEF CountInv, OtherWork
  <2>2. job[n].stage # "install"
    BY <1>1, <2>1 DEF OneLine
  <2>3. Kind = "status" => j.said = 0
    <3>1. CASE Writes(job[n], j)
      BY <2>1, <3>1, PiecesOfStatus DEF Writes
    <3> QED
      BY <2>1, <3>1 DEF Does, Fail, Reach, Pinned, Installs, Writes, Ends, Same
  <2>4. job[n].stage # "pin"
    BY DEF CountInv, OtherWork
  <2>5. j.stage \in {"flush", "tail", "over"} /\ ~j.err => j.said = Len(Pieces)
    <3>1. CASE Reach(job[n], j)
      BY <2>3, <3>1, PiecesOfStatus DEF Reach, Kind
    <3> QED
      BY <2>1, <2>2, <2>4, <3>1 DEF Does, Fail, Reach, Pinned, Installs, Writes, Ends, Same
  <2>6. j.stage # "pin"
    BY <2>4 DEF Does, Fail, Reach, Pinned, Installs, Writes, Ends, Kind
  <2> QED
    BY <1>2, <1>4, <2>1, <2>3, <2>5, <2>6 DEF CountInv, OtherWork
<1> QED
  BY <1>8, <1>9, <1>10


(* Every step keeps account of every member. *)
LEMMA CountInvStep == CountInv /\ [FleetNext]_fvars => CountInv'
<1> SUFFICES ASSUME CountInv, [FleetNext]_fvars
             PROVE  Whereabouts' /\ InstallWork' /\ OtherWork' /\ EndsWell'
  BY OneInvStep DEF CountInv
<1>0. /\ Given /\ FleetTypes /\ OneLine /\ left'.fleet = left.fleet
      /\ Targets \subseteq Names /\ fleet.phase \in {1, 2}
  BY GivenStep, TargetsNames DEF CountInv, OneInv, FleetTypes, Commands
<1>k. Kind' = Kind /\ Pieces' = Pieces
  BY <1>0 DEF Kind, Pieces, Asked
<1>1. ASSUME fleet' = fleet, job' = job, installed' = installed
      PROVE  Whereabouts' /\ InstallWork' /\ OtherWork' /\ EndsWell'
  <2>1. Targets' = Targets
    BY <1>1 DEF Targets
  <2>2. \A n \in Names : Worked(n)' <=> Worked(n)
    BY <1>1, <1>k DEF Worked, Kind
  <2> QED
    BY <1>0, <1>1, <1>k, <2>1, <2>2
       DEF CountInv, Whereabouts, InstallWork, OtherWork, EndsWell, AllFinished, Finished
<1>2. CASE UNCHANGED fvars \/ (Next /\ UNCHANGED fleetVars) \/ IndexMoves
  BY <1>1, <1>2 DEF fvars, fleetVars, IndexMoves
<1>3. ASSUME NEW n \in Names, Goroutine(n)
      PROVE  Whereabouts' /\ InstallWork' /\ OtherWork' /\ EndsWell'
  <2>1. fleet' = fleet
    BY <1>3 DEF Goroutine, TakeOps, StartDial, Dialled, ResolveVersion, InstallPin, Write, EndLine,
       OpEnds, Flush
  <2> QED
    BY <1>0, <1>3, <2>1, GoroutineStep, CountGoroutine DEF Step1
<1>4. CASE ResolveTargets
  <2>1. /\ fleet.pc = "resolve" /\ fleet.targets = <<>> /\ job' = job /\ installed' = installed
        /\ fleet.phase = 1
    BY <1>0, <1>4 DEF ResolveTargets, CountInv, Whereabouts, OneLine
  <2>2. \A n \in Names : job[n].stage = "none"
    BY <2>1 DEF CountInv, Whereabouts, Targets
  <2>3. CASE fleet' = [fleet EXCEPT !.pc = "ended", !.failed = TRUE]
    <3>1. fleet'.pc = "ended" /\ fleet'.failed /\ fleet'.targets = <<>> /\ fleet'.phase = 1
      BY <1>0, <2>1, <2>3 DEF FleetTypes, Commands
    <3>2. Targets' = {}
      BY <3>1 DEF Targets
    <3> QED
      BY <1>k, <2>1, <2>2, <3>1, <3>2
         DEF CountInv, Whereabouts, InstallWork, OtherWork, EndsWell, AllFinished
  <2>4. ASSUME NEW s \in Sorted(Selected), Selected # {},
               fleet' = [fleet EXCEPT !.pc = "spawn", !.targets = s]
        PROVE  Whereabouts' /\ InstallWork' /\ OtherWork' /\ EndsWell'
    <3>1. s \in Seq(Names) /\ Len(s) > 0
      BY <1>0, <2>4, SelectedNames, SortedType
    <3>2. fleet'.pc = "spawn" /\ fleet'.targets = s /\ fleet'.phase = 1
      BY <1>0, <2>1, <2>4 DEF FleetTypes, Commands
    <3>3. 1 \in DOMAIN s
      BY <3>1
    <3>4. s[1] \in Targets'
      BY <3>2, <3>3 DEF Targets
    <3> QED
      BY <1>k, <2>1, <2>2, <3>2, <3>4 DEF CountInv, Whereabouts, InstallWork, OtherWork, EndsWell
  <2> QED
    BY <1>4, <2>3, <2>4 DEF ResolveTargets
<1>5. CASE Spawn
  <2>1. PICK n \in Targets, at \in Stages :
           /\ Goes(n, at) /\ installed' = installed
           /\ fleet.phase = 1 => at \in {"dial", "lock"}
           /\ fleet.phase = 2 => at = IF job[n].err THEN "flush" ELSE "install"
    BY <1>0, <1>5, SpawnStep
  <2>2. PICK j \in Jobs : Becomes(n, j) /\ j.stage = at /\ Same(job[n], j)
    BY <2>1 DEF Goes
  <2>3. /\ fleet'.phase = fleet.phase /\ fleet'.pc = "spawn" /\ fleet.pc = "spawn"
        /\ fleet'.targets = fleet.targets
    BY <1>0, <1>5 DEF Spawn, FleetTypes, Commands
  <2>4. Targets' = Targets
    BY <2>3 DEF Targets
  <2>5. n \in Names /\ job'[n] = j /\ \A m \in Names \ {n} : job'[m] = job[m]
    BY <1>0, <2>1, <2>2, OthersStay
  <2>6. Whereabouts' /\ EndsWell'
    BY <2>1, <2>3, <2>4, <2>5 DEF CountInv, Whereabouts, EndsWell
  <2>7. InstallWork'
    BY <1>0, <1>k, <2>1, <2>2, <2>3, <2>4, <2>5 DEF CountInv, InstallWork, Same
  <2>8. OtherWork'
    BY <1>0, <1>k, <2>1, <2>2, <2>3, <2>4, <2>5 DEF CountInv, OtherWork, Same
  <2> QED
    BY <2>6, <2>7, <2>8
<1>6. CASE Compare
  <2>1. /\ fleet.phase = 1 /\ fleet.pc = "spawn" /\ installed' = installed /\ Kind = "install"
        /\ AllFinished
    BY <1>6 DEF Compare, Awaited, Kind
  <2>2. CASE /\ fleet' = [fleet EXCEPT !.phase = 2, !.next = 1]
             /\ job' = [n \in Names |-> [job[n] EXCEPT !.stage = "none"]]
    <3>1. fleet'.pc = "spawn" /\ fleet'.phase = 2 /\ fleet'.targets = fleet.targets
      BY <1>0, <2>1, <2>2 DEF FleetTypes, Commands
    <3>2. \A n \in Names : /\ job'[n].stage = "none" /\ job'[n].version = job[n].version
                           /\ job'[n].err <=> job[n].err
      BY <1>0, <2>2 DEF FleetTypes, Jobs
    <3>3. Targets' = Targets
      BY <3>1 DEF Targets
    <3>4. \A n \in Targets : ~job[n].err => job[n].version # 0
      BY <1>0, <2>1 DEF AllFinished, Finished, CountInv, InstallWork
    <3>5. InstallWork'
      BY <1>0, <3>2, <3>3, <3>4 DEF InstallWork
    <3> QED
      BY <1>k, <2>1, <3>1, <3>2, <3>3, <3>5 DEF CountInv, Whereabouts, OtherWork, EndsWell
  <2>3. CASE fleet' = [fleet EXCEPT !.pc = "ended", !.failed = TRUE] /\ UNCHANGED job
    <3>1. fleet'.phase = 1 /\ fleet'.pc = "ended" /\ fleet'.failed /\ fleet'.targets = fleet.targets
      BY <1>0, <2>1, <2>3 DEF FleetTypes, Commands
    <3>2. Targets' = Targets
      BY <3>1 DEF Targets
    <3>3. Whereabouts'
      BY <2>1, <2>3, <3>1, <3>2 DEF CountInv, Whereabouts, AllFinished, Finished
    <3> QED
      BY <1>k, <2>1, <2>3, <3>1, <3>2, <3>3 DEF CountInv, InstallWork, OtherWork, EndsWell
  <2> QED
    BY <1>6, <2>2, <2>3 DEF Compare
<1>7. CASE Summarize
  <2>1. /\ fleet.pc = "spawn" /\ AllFinished /\ (Kind = "install" => fleet.phase = 2)
        /\ job' = job /\ installed' = installed
    BY <1>7 DEF Summarize, Awaited, Kind
  <2>2. /\ fleet'.phase = fleet.phase /\ fleet'.pc = "ended" /\ fleet'.targets = fleet.targets
        /\ fleet'.failed <=> (Kind # "status" \/ ~Many) /\ \E n \in Targets : job[n].err
    BY <1>0, <1>7 DEF Summarize, FleetTypes, Commands, Kind
  <2>3. Targets' = Targets
    BY <2>2 DEF Targets
  <2>4. Whereabouts' /\ InstallWork' /\ OtherWork'
    BY <1>k, <2>1, <2>2, <2>3
       DEF CountInv, Whereabouts, InstallWork, OtherWork, AllFinished, Finished
  <2>5. ASSUME ~fleet'.failed, NEW n \in Targets PROVE Worked(n)'
    <3>1. n \in Names /\ job[n].stage = "over"
      BY <1>0, <2>1 DEF AllFinished, Finished
    <3>2. CASE Kind = "status"
      <4>1. job[n].said = 0 /\ Len(Pieces) = 0
        BY <3>1, <3>2, PiecesOfStatus DEF CountInv, OtherWork
      <4> QED
        BY <1>k, <2>1, <3>2, <4>1 DEF Worked, Kind
    <3>3. CASE Kind # "status"
      <4>1. ~job[n].err
        BY <2>2, <2>5, <3>3
      <4> QED
        BY <1>k, <2>1, <3>1, <4>1 DEF CountInv, InstallWork, OtherWork, Worked, Kind
    <3> QED
      BY <3>2, <3>3
  <2>6. EndsWell'
    BY <2>1, <2>3, <2>5 DEF CountInv, Whereabouts, EndsWell
  <2> QED
    BY <2>4, <2>6
<1> QED
  BY <1>2, <1>3, <1>4, <1>5, <1>6, <1>7 DEF FleetNext

(* When the command ends, nobody is still being worked on, and it ends     *)
(* well only with its work done on every target.                           *)
THEOREM EveryMemberCountedHolds == FleetSpec => []EveryMemberCounted
<1>1. FleetInit => CountInv
  BY CountInvInit
<1>2. CountInv /\ [FleetNext]_<<vars, fleetVars>> => CountInv'
  BY CountInvStep DEF fvars
<1>3. CountInv => EveryMemberCounted
  BY DEF CountInv, Whereabouts, EndsWell, AllFinished, EveryMemberCounted
<1> QED
  BY <1>1, <1>2, <1>3, PTL DEF FleetSpec

-----------------------------------------------------------------------------
(* The output. A piece of a line stands behind the prefix of its sandbox   *)
(* or the piece before it.                                                 *)
Behind(s) ==
  \A i \in DOMAIN s :
    s[i].piece > 0 => i > 1 /\ s[i - 1] \in {Prefix(s[i].of), Piece(s[i].of, s[i].piece - 1)}

\* The last pieces of what an operation has written wait, if it still runs.
Buffered(n, i) ==
  /\ Len(i.buf) <= i.said
  /\ \A k \in 1..Len(i.buf) : i.buf[k] = Piece(n, i.said - Len(i.buf) + k)
  /\ i.buf # <<>> => i.stage \in {"write", "line", "tail", "flush"}

\* The ones before them are printed.
Shown(n, i, s) == \A k \in 1..(i.said - Len(i.buf)) : \E p \in DOMAIN s : s[p] = Piece(n, k)

\* A target is started once, and what comes next has not been.
EachOnce == \A i, j \in DOMAIN fleet.targets : i # j => fleet.targets[i] # fleet.targets[j]
Unstarted ==
  fleet.pc = "spawn" =>
    \A i \in DOMAIN fleet.targets : i >= fleet.next => job[fleet.targets[i]].stage = "none"

\* Who prints holds the lock, behind its prefix.
Holding == mu \in Names \cup {Nobody} /\ \A n \in Names : job[n].stage \in {"line", "tail"} <=> mu = n
Prefixed == Many /\ mu # Nobody => out # <<>> /\ out[Len(out)] = Prefix(mu)

OutInv ==
  /\ out \in Seq(Pieced) /\ (fleet.pc \in {"off", "resolve"} => out = <<>>)
  /\ \A n \in Names : Buffered(n, job[n]) /\ Shown(n, job[n], out)
  /\ EachOnce /\ Unstarted /\ Holding /\ Prefixed
  /\ Many => Behind(out)

LinesInv == CountInv /\ OutInv

(* Sorted targets are each there once. *)
LEMMA SortedOnce ==
  ASSUME NEW ns \in SUBSET Names, NEW s \in Sorted(ns)
  PROVE  \A i, j \in DOMAIN s : i # j => s[i] # s[j]
<1>1. Cardinality(ns) \in Nat
  BY FinitelyMany, FS_Subset, FS_CardinalityType
<1>2. DOMAIN s = 1..Cardinality(ns) /\ \A i, j \in 1..Cardinality(ns) : i < j => Before(s[i], s[j])
  BY DEF Sorted
<1>3. ASSUME NEW m, Before(m, m) PROVE FALSE
  <2>1. PICK j, k \in DOMAIN Order : j < k /\ Order[j] = m /\ Order[k] = m
    BY <1>3 DEF Before
  <2>2. j = k /\ j \in Nat
    BY <2>1, OrderAssumption
  <2> QED
    BY <2>1, <2>2
<1>4. ASSUME NEW i \in DOMAIN s, NEW j \in DOMAIN s, i < j PROVE s[i] # s[j]
  BY <1>2, <1>3, <1>4
<1> QED
  BY <1>1, <1>2, <1>4

(* A prefix may stand behind anything. *)
LEMMA BehindPrefix ==
  ASSUME NEW s \in Seq(Pieced), Behind(s), NEW n \in Names
  PROVE  /\ Append(s, Prefix(n)) \in Seq(Pieced) /\ Behind(Append(s, Prefix(n)))
         /\ Append(s, Prefix(n)) # <<>>
         /\ Append(s, Prefix(n))[Len(Append(s, Prefix(n)))] = Prefix(n)
<1> DEFINE t == Append(s, Prefix(n))
<1>1. Prefix(n) \in Pieced /\ Prefix(n).piece = 0
  BY DEF Prefix, Pieced
<1>2. /\ t \in Seq(Pieced) /\ Len(t) = Len(s) + 1 /\ t[Len(s) + 1] = Prefix(n)
      /\ \A i \in 1..Len(s) : t[i] = s[i]
  BY <1>1
<1>3. Len(s) \in Nat /\ DOMAIN s = 1..Len(s) /\ DOMAIN t = 1..(Len(s) + 1)
  BY <1>2
<1> HIDE DEF t
<1>4. ASSUME NEW i \in DOMAIN t, t[i].piece > 0
      PROVE  i > 1 /\ t[i - 1] \in {Prefix(t[i].of), Piece(t[i].of, t[i].piece - 1)}
  <2>1. i # Len(s) + 1
    BY <1>1, <1>2, <1>4
  <2>2. i \in 1..Len(s) /\ t[i] = s[i]
    BY <1>2, <1>3, <2>1
  <2>3. i > 1 /\ s[i - 1] \in {Prefix(s[i].of), Piece(s[i].of, s[i].piece - 1)}
    BY <1>3, <1>4, <2>2 DEF Behind
  <2>4. i - 1 \in 1..Len(s)
    BY <1>3, <2>2, <2>3
  <2> QED
    BY <1>2, <2>2, <2>3, <2>4
<1>5. Behind(t)
  BY <1>4 DEF Behind
<1>6. t # <<>>
  BY <1>2, <1>3
<1> QED
  BY <1>2, <1>5, <1>6 DEF t

(* A buffer may be printed behind the prefix of its sandbox. *)
LEMMA BehindBuffer ==
  ASSUME NEW s \in Seq(Pieced), Behind(s), NEW n \in Names, s # <<>>, s[Len(s)] = Prefix(n),
         NEW b \in Seq(Pieced), NEW f \in Nat, \A k \in 1..Len(b) : b[k] = Piece(n, f + k)
  PROVE  Behind(s \o b)
<1> DEFINE t == s \o b
<1>1. /\ t \in Seq(Pieced) /\ Len(t) = Len(s) + Len(b)
      /\ \A i \in 1..Len(s) : t[i] = s[i]
      /\ \A i \in 1..(Len(s) + Len(b)) : i > Len(s) => t[i] = b[i - Len(s)]
  OBVIOUS
<1>2. Len(s) \in Nat /\ Len(s) > 0 /\ Len(b) \in Nat /\ DOMAIN s = 1..Len(s)
      /\ DOMAIN t = 1..(Len(s) + Len(b))
  BY <1>1
<1> HIDE DEF t
<1> SUFFICES ASSUME NEW i \in DOMAIN t, t[i].piece > 0
             PROVE  i > 1 /\ t[i - 1] \in {Prefix(t[i].of), Piece(t[i].of, t[i].piece - 1)}
  BY DEF Behind, t
<1>3. CASE i \in 1..Len(s)
  <2>1. i > 1 /\ s[i - 1] \in {Prefix(s[i].of), Piece(s[i].of, s[i].piece - 1)}
    BY <1>1, <1>2, <1>3 DEF Behind
  <2>2. i - 1 \in 1..Len(s)
    BY <1>2, <1>3, <2>1
  <2> QED
    BY <1>1, <1>3, <2>1, <2>2
<1>4. CASE i = Len(s) + 1
  <2>1. t[i] = b[1] /\ 1 \in 1..Len(b) /\ i - 1 = Len(s)
    BY <1>1, <1>2, <1>4
  <2>2. b[1] = Piece(n, f + 1) /\ Piece(n, f + 1).of = n
    BY <2>1 DEF Piece
  <2> QED
    BY <1>1, <1>2, <1>4, <2>1, <2>2
<1>5. CASE i > Len(s) + 1
  <2> DEFINE k == i - Len(s)
  <2>1. k \in 1..Len(b) /\ k - 1 \in 1..Len(b) /\ i \in 1..(Len(s) + Len(b))
        /\ i > Len(s) /\ i - 1 \in 1..(Len(s) + Len(b)) /\ i - 1 > Len(s) /\ (i - 1) - Len(s) = k - 1
    BY <1>2, <1>5
  <2>2. t[i] = b[k] /\ t[i - 1] = b[k - 1]
    <3>1. t[i] = b[i - Len(s)]
      BY <1>1, <2>1
    <3>2. t[i - 1] = b[(i - 1) - Len(s)]
      BY <1>1, <2>1
    <3> QED
      BY <2>1, <3>1, <3>2
  <2> HIDE DEF k
  <2>3. t[i] = Piece(n, f + k) /\ t[i - 1] = Piece(n, f + (k - 1))
    BY <2>1, <2>2
  <2>4. t[i].of = n /\ t[i].piece = f + k /\ f + (k - 1) = (f + k) - 1
    BY <2>1, <2>3 DEF Piece
  <2> QED
    BY <1>2, <1>5, <2>3, <2>4
<1> QED
  BY <1>2, <1>3, <1>4, <1>5

(* What is shown stays shown. *)
LEMMA ShownStays ==
  ASSUME NEW s \in Seq(Pieced), NEW t \in Seq(Pieced), NEW n, NEW i \in Jobs, Shown(n, i, s)
  PROVE  Shown(n, i, s \o t)
<1>1. \A p \in DOMAIN s : p \in DOMAIN (s \o t) /\ (s \o t)[p] = s[p]
  OBVIOUS
<1> QED
  BY <1>1 DEF Shown

(* So is it with one more. *)
LEMMA ShownAppend ==
  ASSUME NEW s \in Seq(Pieced), NEW e \in Pieced, NEW n, NEW i \in Jobs, Shown(n, i, s)
  PROVE  Shown(n, i, Append(s, e))
<1>1. \A p \in DOMAIN s : p \in DOMAIN Append(s, e) /\ Append(s, e)[p] = s[p]
  OBVIOUS
<1> QED
  BY <1>1 DEF Shown

(* What the lock of the output is taken for. *)
Takes(n) == mu = Nobody /\ mu' = n /\ out' = IF Many THEN Append(out, Prefix(n)) ELSE out

\* What a step of a goroutine means to its output: nothing, a piece more to print,
\* the lock for the end of a line or for the last of it, or what waits printed.
Silent(i, j) ==
  /\ j.buf = i.buf /\ j.said = i.said /\ out' = out /\ mu' = mu
  /\ i.stage \notin {"none", "line", "tail"} /\ j.stage \notin {"none", "line", "tail"}
  /\ i.buf # <<>> => j.stage \in {"write", "flush"}

Grows(n, i, j) ==
  /\ i.stage = "write" /\ j.said = i.said + 1 /\ j.buf = Append(i.buf, Piece(n, i.said + 1))
  /\ \/ j.stage = "write" /\ out' = out /\ mu' = mu
     \/ j.stage = "line" /\ Takes(n)

Opens(n, i, j) == i.stage = "flush" /\ j.stage = "tail" /\ j.buf = i.buf /\ j.said = i.said /\ Takes(n)

Closes(i, j) ==
  /\ i.stage \in {"line", "tail"} /\ j.stage \in {"write", "over"}
  /\ j.buf = <<>> /\ j.said = i.said /\ out' = out \o i.buf /\ mu' = Nobody

Outs(n, i, j) == Silent(i, j) \/ Grows(n, i, j) \/ Opens(n, i, j) \/ Closes(i, j)

(* The updates of a record and its buffer. *)
LEMMA BufferFields ==
  ASSUME NEW i \in Jobs, NEW at \in Stages, NEW k \in Nat, NEW b \in Seq(Pieced)
  PROVE  /\ Staged(i, at).stage = at /\ Staged(i, at).buf = i.buf /\ Staged(i, at).said = i.said
         /\ Failed(i, at).stage = at /\ Failed(i, at).buf = i.buf /\ Failed(i, at).said = i.said
         /\ Versioned(i, k).stage = "over" /\ Versioned(i, k).buf = i.buf /\ Versioned(i, k).said = i.said
         /\ Said(i, at, k, b).stage = at /\ Said(i, at, k, b).buf = b /\ Said(i, at, k, b).said = k
<1>1. Staged(i, at).stage = at /\ Staged(i, at).buf = i.buf /\ Staged(i, at).said = i.said
  BY DEF Jobs, Staged
<1>2. Failed(i, at).stage = at /\ Failed(i, at).buf = i.buf /\ Failed(i, at).said = i.said
  BY DEF Jobs, Failed
<1>3. Versioned(i, k).stage = "over" /\ Versioned(i, k).buf = i.buf /\ Versioned(i, k).said = i.said
  BY DEF Jobs, Versioned
<1>4. Said(i, at, k, b).stage = at /\ Said(i, at, k, b).buf = b /\ Said(i, at, k, b).said = k
  BY DEF Jobs, Said
<1> QED
  BY <1>1, <1>2, <1>3, <1>4

(* A goroutine that goes on, or fails, leaves what it has to print. *)
LEMMA StageKeeps ==
  ASSUME FleetTypes, NEW n \in Names, NEW at \in Stages, Stage(n, at) \/ Errs(n, at)
  PROVE  \E j \in Jobs : Becomes(n, j) /\ j.stage = at /\ j.buf = job[n].buf /\ j.said = job[n].said
<1>1. job[n] \in Jobs /\ <<>> \in Seq(Pieced) /\ 0 \in Nat
  BY EmptyBuffer DEF FleetTypes
<1>2. Staged(job[n], at) \in Jobs /\ Failed(job[n], at) \in Jobs
  BY <1>1, JobUpdates
<1>3. /\ Staged(job[n], at).stage = at /\ Staged(job[n], at).buf = job[n].buf
      /\ Staged(job[n], at).said = job[n].said
      /\ Failed(job[n], at).stage = at /\ Failed(job[n], at).buf = job[n].buf
      /\ Failed(job[n], at).said = job[n].said
  BY <1>1, BufferFields, ZenonT(30)
<1>4. Becomes(n, Staged(job[n], at)) \/ Becomes(n, Failed(job[n], at))
  BY StageStep DEF Becomes
<1> QED
  BY <1>2, <1>3, <1>4

(* Before it writes and when it is over, nothing waits to be printed. *)
LEMMA SilentStage ==
  ASSUME FleetTypes, NEW n \in Names, Buffered(n, job[n]), NEW at \in Stages,
         Stage(n, at) \/ Errs(n, at), out' = out, mu' = mu,
         at \notin {"none", "line", "tail"}, job[n].stage \notin {"none", "line", "tail"},
         \/ at \in {"write", "flush"}
         \/ job[n].stage \notin {"write", "flush"}
         \/ job[n].buf = <<>>
  PROVE  \E j \in Jobs : Becomes(n, j) /\ Outs(n, job[n], j)
<1>1. PICK j \in Jobs : Becomes(n, j) /\ j.stage = at /\ j.buf = job[n].buf /\ j.said = job[n].said
  BY StageKeeps
<1>2. job[n].buf # <<>> => at \in {"write", "flush"}
  BY DEF Buffered
<1>3. Silent(job[n], j)
  BY <1>1, <1>2 DEF Silent
<1> QED
  BY <1>1, <1>3 DEF Outs

(* Every step of a goroutine is one of those. *)
LEMMA OutputStep ==
  ASSUME FleetTypes, NEW n \in Names, Buffered(n, job[n]), Goroutine(n)
  PROVE  \E j \in Jobs : Becomes(n, j) /\ Outs(n, job[n], j)
<1>0. job[n] \in Jobs /\ job \in [Names -> Jobs]
  BY DEF FleetTypes
<1>1. CASE TakeOps(n)
  <2>1. PICK at \in {"dial", "over", "flush"} : Stage(n, at) \/ Errs(n, at)
    BY <1>1 DEF TakeOps
  <2> QED
    BY <1>1, <2>1, SilentStage DEF TakeOps, At2, Stages
<1>2. CASE StartDial(n)
  BY <1>2, SilentStage DEF StartDial, At2, Stages
<1>3. CASE Dialled(n)
  <2>1. PICK at \in {"over", "pin", "write", "flush"} : Stage(n, at) \/ Errs(n, at)
    BY <1>3 DEF Dialled
  <2> QED
    BY <1>3, <2>1, SilentStage DEF Dialled, At2, Stages
<1>4. CASE ResolveVersion(n)
  <2>1. CASE Errs(n, "over")
    BY <1>4, <2>1, SilentStage DEF ResolveVersion, At2, Stages
  <2>2. CASE job' = [job EXCEPT ![n].stage = "over", ![n].version = Versions[upstream]]
    <3> DEFINE k == Versions[upstream]
               j == Versioned(job[n], k)
    <3>1. k \in Nat /\ "over" \in Stages /\ <<>> \in Seq(Pieced)
      BY FleetAssumption, EmptyBuffer DEF FleetTypes, Stages
    <3>2. Becomes(n, j)
      BY <1>0, <2>2 DEF Becomes, Versioned
    <3> HIDE DEF j, k
    <3>3. j \in Jobs
      BY <1>0, <3>1, JobUpdates DEF j
    <3>4. j.stage = "over" /\ j.buf = job[n].buf /\ j.said = job[n].said
      BY <1>0, <3>1, BufferFields, ZenonT(30) DEF j
    <3>5. job[n].stage = "pin" /\ job[n].buf = <<>>
      BY <1>4 DEF ResolveVersion, At2, Buffered
    <3>6. Silent(job[n], j)
      BY <1>4, <3>4, <3>5 DEF ResolveVersion, Silent
    <3> QED
      BY <3>2, <3>3, <3>6 DEF Outs
  <2> QED
    BY <1>4, <2>1, <2>2 DEF ResolveVersion
<1>5. CASE InstallPin(n)
  <2>1. PICK at \in {"write", "flush"} : Stage(n, at) \/ Errs(n, at)
    BY <1>5 DEF InstallPin
  <2> QED
    BY <1>5, <2>1, SilentStage DEF InstallPin, At2, Stages
<1>6. CASE Write(n)
  <2> DEFINE k == job[n].said + 1
             at == IF Pieces[k] THEN "line" ELSE "write"
             b == Append(job[n].buf, Piece(n, k))
             j == Said(job[n], at, k, b)
  <2>1. job[n].said \in Nat /\ k \in Nat /\ Piece(n, k) \in Pieced /\ job[n].buf \in Seq(Pieced)
    BY <1>0 DEF Jobs, Pieced, Piece
  <2>2. b \in Seq(Pieced)
    BY <2>1
  <2>3. Becomes(n, j)
    BY <1>0, <1>6 DEF Write, Becomes, Said
  <2>4. /\ at \in Stages /\ job[n].stage = "write" /\ mu = Nobody
        /\ \/ at = "write" /\ out' = out /\ mu' = mu
           \/ at = "line" /\ mu' = n /\ out' = IF Many THEN Append(out, Prefix(n)) ELSE out
    BY <1>6 DEF Write, At2, OutputFree, Stages
  <2> HIDE DEF at, b, j
  <2>5. j \in Jobs
    BY <1>0, <2>1, <2>2, <2>4, JobUpdates DEF j
  <2>6. j.stage = at /\ j.buf = b /\ j.said = k
    BY <1>0, <2>1, <2>2, <2>4, BufferFields DEF j
  <2>7. Grows(n, job[n], j)
    BY <2>4, <2>6 DEF Grows, Takes, b
  <2> QED
    BY <2>3, <2>5, <2>7 DEF Outs
<1>7. CASE EndLine(n)
  <2> DEFINE at == IF job[n].stage = "line" THEN "write" ELSE "over"
             k == job[n].said
             b == <<>>
             j == Said(job[n], at, k, b)
  <2>1. Becomes(n, j)
    BY <1>0, <1>7 DEF EndLine, Becomes, Said, Jobs
  <2>2. at \in Stages /\ at \in {"write", "over"} /\ b \in Seq(Pieced) /\ k \in Nat
    BY <1>0, EmptyBuffer DEF Stages, Jobs
  <2>3. job[n].stage \in {"line", "tail"} /\ out' = out \o job[n].buf /\ mu' = Nobody
    BY <1>7 DEF EndLine
  <2> HIDE DEF at, k, b, j
  <2>4. j \in Jobs
    BY <1>0, <2>2, JobUpdates DEF j
  <2>5. j.stage = at /\ j.buf = b /\ j.said = k
    BY <1>0, <2>2, BufferFields DEF j
  <2>6. Closes(job[n], j)
    BY <2>2, <2>3, <2>5 DEF Closes, b, k
  <2> QED
    BY <2>1, <2>4, <2>6 DEF Outs
<1>8. CASE OpEnds(n)
  <2>1. Stage(n, "flush") \/ Errs(n, "flush")
    BY <1>8 DEF OpEnds
  <2> QED
    BY <1>8, <2>1, SilentStage DEF OpEnds, At2, Stages
<1>9. CASE Flush(n)
  <2>1. CASE job[n].buf = <<>>
    BY <1>9, <2>1, SilentStage DEF Flush, At2, Stages
  <2>2. CASE job[n].buf # <<>>
    <3>1. Stage(n, "tail") /\ "tail" \in Stages
      BY <1>9, <2>2 DEF Flush, Stages
    <3>2. PICK j \in Jobs : Becomes(n, j) /\ j.stage = "tail" /\ j.buf = job[n].buf /\ j.said = job[n].said
      BY <3>1, StageKeeps
    <3>3. Opens(n, job[n], j)
      BY <1>9, <2>2, <3>2 DEF Flush, At2, OutputFree, Opens, Takes
    <3> QED
      BY <3>2, <3>3 DEF Outs
  <2> QED
    BY <2>1, <2>2
<1> QED
  BY <1>1, <1>2, <1>3, <1>4, <1>5, <1>6, <1>7, <1>8, <1>9 DEF Goroutine

(* A record of a goroutine: its buffer, its stage and what it has written. *)
LEMMA JobFields ==
  ASSUME NEW i \in Jobs
  PROVE  i.buf \in Seq(Pieced) /\ i.said \in Nat /\ i.stage \in Stages /\ Len(i.buf) \in Nat
  BY DEF Jobs

(* What waits is the last that was written, after a step too. *)
LEMMA BufferedStep ==
  ASSUME NEW n \in Names, NEW i \in Jobs, NEW j \in Jobs, Buffered(n, i), Outs(n, i, j)
  PROVE  Buffered(n, j)
<1>0. i.buf \in Seq(Pieced) /\ i.said \in Nat /\ Len(i.buf) \in Nat
  BY JobFields
<1>1. CASE Silent(i, j)
  BY <1>1 DEF Silent, Buffered
<1>2. CASE Grows(n, i, j)
  <2>1. Piece(n, i.said + 1) \in Pieced
    BY <1>0 DEF Piece, Pieced
  <2>2. /\ Len(j.buf) = Len(i.buf) + 1 /\ j.buf[Len(i.buf) + 1] = Piece(n, i.said + 1)
        /\ \A k \in 1..Len(i.buf) : j.buf[k] = i.buf[k]
    BY <1>0, <1>2, <2>1 DEF Grows
  <2>3. j.said = i.said + 1 /\ j.stage \in {"write", "line"} /\ Len(i.buf) <= i.said
    BY <1>2 DEF Grows, Buffered
  <2>4. j.said - Len(j.buf) = i.said - Len(i.buf)
    BY <1>0, <2>2, <2>3, SMTT(20)
  <2>5. ASSUME NEW k \in 1..Len(j.buf) PROVE j.buf[k] = Piece(n, j.said - Len(j.buf) + k)
    <3>1. CASE k \in 1..Len(i.buf)
      BY <2>2, <2>4, <3>1 DEF Buffered
    <3>2. CASE k = Len(i.buf) + 1
      <4>1. j.said - Len(j.buf) + k = i.said + 1
        BY <1>0, <2>4, <3>2
      <4> QED
        BY <2>2, <3>2, <4>1
    <3> QED
      BY <1>0, <2>2, <3>1, <3>2
  <2>6. Len(j.buf) <= j.said
    BY <1>0, <2>2, <2>3
  <2> QED
    BY <2>3, <2>5, <2>6 DEF Buffered
<1>3. CASE Opens(n, i, j)
  BY <1>3 DEF Opens, Buffered
<1>4. CASE Closes(i, j)
  <2>1. j.buf = <<>> /\ Len(j.buf) = 0 /\ j.said \in Nat
    BY <1>0, <1>4 DEF Closes
  <2> QED
    BY <2>1 DEF Buffered
<1> QED
  BY <1>1, <1>2, <1>3, <1>4 DEF Outs

(* The output only grows, by a prefix or by what waited.                   *)
LEMMA OutGrows ==
  ASSUME out \in Seq(Pieced), NEW n \in Names, NEW i \in Jobs, NEW j \in Jobs, Outs(n, i, j)
  PROVE  /\ out' \in Seq(Pieced)
         /\ \A m \in Names, r \in Jobs : Shown(m, r, out) => Shown(m, r, out')
<1>1. Prefix(n) \in Pieced /\ i.buf \in Seq(Pieced)
  BY JobFields DEF Prefix, Pieced
<1>2. out' = out \/ out' = Append(out, Prefix(n)) \/ out' = out \o i.buf
  BY DEF Outs, Silent, Grows, Opens, Closes, Takes
<1>3. out' \in Seq(Pieced)
  <2>1. Append(out, Prefix(n)) \in Seq(Pieced) /\ out \o i.buf \in Seq(Pieced)
    BY <1>1
  <2> QED
    BY <1>2, <2>1
<1>4. ASSUME NEW m \in Names, NEW r \in Jobs, Shown(m, r, out) PROVE Shown(m, r, out')
  BY <1>1, <1>2, <1>4, ShownStays, ShownAppend
<1> QED
  BY <1>3, <1>4

(* What no longer waits is printed. *)
LEMMA ShownStep ==
  ASSUME out \in Seq(Pieced), NEW n \in Names, NEW i \in Jobs, NEW j \in Jobs,
         Buffered(n, i), Shown(n, i, out), Outs(n, i, j)
  PROVE  Shown(n, j, out')
<1>0. i.buf \in Seq(Pieced) /\ i.said \in Nat /\ Len(i.buf) \in Nat
  BY JobFields
<1>1. Shown(n, i, out')
  BY OutGrows
<1>2. CASE Silent(i, j) \/ Opens(n, i, j)
  BY <1>1, <1>2 DEF Silent, Opens, Shown
<1>3. CASE Grows(n, i, j)
  <2>1. Piece(n, i.said + 1) \in Pieced
    BY <1>0 DEF Piece, Pieced
  <2>2. Len(j.buf) = Len(i.buf) + 1 /\ j.said = i.said + 1
    BY <1>0, <1>3, <2>1 DEF Grows
  <2>3. j.said - Len(j.buf) = i.said - Len(i.buf)
    BY <1>0, <2>2
  <2> QED
    BY <1>1, <2>3 DEF Shown
<1>4. CASE Closes(i, j)
  <2>1. j.said = i.said /\ Len(j.buf) = 0 /\ out' = out \o i.buf
    BY <1>4 DEF Closes
  <2>2. ASSUME NEW k \in 1..i.said PROVE \E p \in DOMAIN out' : out'[p] = Piece(n, k)
    <3>1. CASE k <= i.said - Len(i.buf)
      BY <1>0, <1>1, <3>1 DEF Shown
    <3>2. CASE k > i.said - Len(i.buf)
      <4> DEFINE f == i.said - Len(i.buf)
                 q == k - f
      <4>1. q \in 1..Len(i.buf) /\ f + q = k /\ Len(out) \in Nat
        BY <1>0, <3>2 DEF Buffered
      <4>2. i.buf[q] = Piece(n, f + q)
        BY <4>1 DEF Buffered
      <4>3. Len(out) + q \in DOMAIN (out \o i.buf) /\ (out \o i.buf)[Len(out) + q] = i.buf[q]
        BY <1>0, <4>1, SMTT(20)
      <4> QED
        BY <2>1, <4>1, <4>2, <4>3
    <3> QED
      BY <1>0, <3>1, <3>2
  <2>3. j.said - Len(j.buf) = i.said
    BY <1>0, <2>1
  <2> QED
    BY <2>2, <2>3 DEF Shown
<1> QED
  BY <1>2, <1>3, <1>4 DEF Outs

(* Lines stay whole: who prints has the lock and stands behind its prefix. *)
LEMMA BehindStep ==
  ASSUME FleetTypes, OutInv, NEW n \in Names, NEW j \in Jobs, Outs(n, job[n], j), Many
  PROVE  Behind(out') /\ (mu' # Nobody => out' # <<>> /\ out'[Len(out')] = Prefix(mu'))
<1> DEFINE i == job[n]
<1>0. i \in Jobs /\ out \in Seq(Pieced) /\ Behind(out) /\ Buffered(n, i)
  BY DEF FleetTypes, OutInv
<1>1. i.buf \in Seq(Pieced) /\ i.said \in Nat /\ Len(i.buf) \in Nat
  BY <1>0, JobFields
<1>2. CASE out' = out /\ mu' = mu
  BY <1>0, <1>2 DEF OutInv, Prefixed
<1>3. CASE Takes(n)
  BY <1>0, <1>3, BehindPrefix DEF Takes
<1>4. CASE Closes(i, j)
  <2>1. mu = n /\ mu # Nobody
    BY <1>4, DistinctAssumption DEF Closes, OutInv, Holding
  <2>2. out # <<>> /\ out[Len(out)] = Prefix(n)
    BY <2>1 DEF OutInv, Prefixed
  <2>3. i.said - Len(i.buf) \in Nat
    BY <1>0, <1>1 DEF Buffered
  <2>4. \A k \in 1..Len(i.buf) : i.buf[k] = Piece(n, (i.said - Len(i.buf)) + k)
    BY <1>0 DEF Buffered
  <2> HIDE DEF i
  <2>5. Behind(out \o i.buf)
    BY <1>0, <1>1, <2>2, <2>3, <2>4, BehindBuffer
  <2> QED
    BY <1>4, <2>5 DEF Closes
<1> QED
  BY <1>2, <1>3, <1>4 DEF Outs, Silent, Grows, Opens

(* The output after a step of a goroutine. *)
LEMMA OutGoroutine ==
  ASSUME LinesInv, NEW n \in Names, NEW j \in Jobs, Becomes(n, j), Outs(n, job[n], j), fleet' = fleet
  PROVE  OutInv'
<1>0. FleetTypes /\ OutInv /\ Targets \subseteq Names
  BY TargetsNames DEF LinesInv, CountInv, OneInv
<1>1. job \in [Names -> Jobs] /\ job[n] \in Jobs /\ out \in Seq(Pieced) /\ Buffered(n, job[n])
  BY <1>0 DEF FleetTypes, OutInv
<1>2. job' \in [Names -> Jobs] /\ job'[n] = j /\ \A m \in Names \ {n} : job'[m] = job[m]
  BY <1>0, OthersStay
<1>3. /\ job[n].stage # "none" /\ fleet.pc \notin {"off", "resolve"}
  <2>1. job[n].stage # "none"
    BY DEF Outs, Silent, Grows, Opens, Closes
  <2>2. n \in Targets
    BY <2>1 DEF LinesInv, CountInv, Whereabouts
  <2> QED
    BY <2>1, <2>2 DEF LinesInv, CountInv, Whereabouts, Targets
<1>4. out' \in Seq(Pieced) /\ \A m \in Names, r \in Jobs : Shown(m, r, out) => Shown(m, r, out')
  BY <1>1, OutGrows
<1>5. ASSUME NEW m \in Names PROVE Buffered(m, job'[m]) /\ Shown(m, job'[m], out')
  <2>1. Buffered(m, job[m]) /\ Shown(m, job[m], out) /\ job[m] \in Jobs
    BY <1>0, <1>1 DEF OutInv
  <2>2. CASE m = n
    BY <1>1, <1>2, <2>1, <2>2, BufferedStep, ShownStep
  <2>3. CASE m # n
    BY <1>2, <1>4, <2>1, <2>3
  <2> QED
    BY <2>2, <2>3
<1>6. EachOnce'
  BY <1>0 DEF OutInv, EachOnce
<1>7. Unstarted'
  BY <1>0, <1>2, <1>3 DEF OutInv, Unstarted, Targets
<1>8. Holding'
  <2>1. /\ mu \in Names \cup {Nobody} /\ Nobody \notin Names
        /\ \A m \in Names : job[m].stage \in {"line", "tail"} <=> mu = m
    BY <1>0, DistinctAssumption DEF OutInv, Holding
  <2>2. CASE Silent(job[n], j)
    BY <1>2, <2>1, <2>2 DEF Silent, Holding
  <2>3. CASE Grows(n, job[n], j)
    BY <1>2, <2>1, <2>3 DEF Grows, Takes, Holding
  <2>4. CASE Opens(n, job[n], j)
    BY <1>2, <2>1, <2>4 DEF Opens, Takes, Holding
  <2>5. CASE Closes(job[n], j)
    BY <1>2, <2>1, <2>5 DEF Closes, Holding
  <2> QED
    BY <2>2, <2>3, <2>4, <2>5 DEF Outs
<1>9. Many' = Many
  BY DEF Many
<1>10. Prefixed' /\ (Many' => Behind(out'))
  BY <1>0, <1>9, BehindStep DEF Prefixed
<1> QED
  BY <1>3, <1>4, <1>5, <1>6, <1>7, <1>8, <1>9, <1>10 DEF OutInv

(* Nothing is printed at the start. *)
LEMMA OutInit == FleetInit => OutInv
<1> SUFFICES ASSUME FleetInit PROVE OutInv
  OBVIOUS
<1>1. /\ out = <<>> /\ mu = Nobody /\ fleet.targets = <<>> /\ fleet.pc # "spawn"
      /\ job = [n \in Names |-> NoJob] /\ Nobody \notin Names
  BY DistinctAssumption DEF FleetInit
<1>2. NoJob.stage = "none" /\ NoJob.said = 0 /\ NoJob.buf = <<>> /\ Len(NoJob.buf) = 0
  BY DEF NoJob
<1>3. \A n \in Names : Buffered(n, job[n]) /\ Shown(n, job[n], out)
  BY <1>1, <1>2 DEF Buffered, Shown
<1>4. EachOnce /\ Unstarted /\ Holding /\ Prefixed
  BY <1>1, <1>2 DEF EachOnce, Unstarted, Holding, Prefixed
<1>5. out \in Seq(Pieced) /\ ~Many
  BY <1>1 DEF Many
<1> QED
  BY <1>1, <1>3, <1>4, <1>5 DEF OutInv

(* Every step keeps the output whole. *)
LEMMA OutInvStep == LinesInv /\ [FleetNext]_fvars => OutInv'
<1> SUFFICES ASSUME LinesInv, [FleetNext]_fvars PROVE OutInv'
  OBVIOUS
<1>0. /\ Given /\ FleetTypes /\ OutInv /\ CountInv /\ Targets \subseteq Names
      /\ fleet.targets \in Seq(Names) /\ fleet.next \in Nat \ {0}
  BY TargetsNames DEF LinesInv, CountInv, OneInv, FleetTypes, Commands
<1>t. job \in [Names -> Jobs]
  BY <1>0 DEF FleetTypes
<1>1. ASSUME fleet' = fleet, job' = job, out' = out, mu' = mu PROVE OutInv'
  <2>1. Many' = Many
    BY <1>1 DEF Many
  <2>2. EachOnce' /\ Unstarted' /\ Holding' /\ Prefixed'
    BY <1>0, <1>1, <2>1 DEF OutInv, EachOnce, Unstarted, Holding, Prefixed
  <2> QED
    BY <1>0, <1>1, <2>1, <2>2 DEF OutInv
<1>2. CASE UNCHANGED fvars \/ (Next /\ UNCHANGED fleetVars) \/ IndexMoves
  BY <1>1, <1>2 DEF fvars, fleetVars, IndexMoves
<1>3. ASSUME NEW n \in Names, Goroutine(n) PROVE OutInv'
  <2>1. fleet' = fleet
    BY <1>3 DEF Goroutine, TakeOps, StartDial, Dialled, ResolveVersion, InstallPin, Write, EndLine,
       OpEnds, Flush
  <2>2. Buffered(n, job[n])
    BY <1>0 DEF OutInv
  <2> QED
    BY <1>0, <1>3, <2>1, <2>2, OutputStep, OutGoroutine
<1>4. CASE ResolveTargets
  <2>1. /\ fleet.pc = "resolve" /\ out = <<>> /\ fleet.targets = <<>>
        /\ job' = job /\ out' = out /\ mu' = mu
    BY <1>0, <1>4 DEF ResolveTargets, OutInv, CountInv, Whereabouts
  <2>2. \A n \in Names : job[n].stage = "none"
    BY <1>0, <2>1 DEF CountInv, Whereabouts, Targets
  <2>3. mu = Nobody
    BY <1>0, <2>2 DEF OutInv, Holding
  <2>4. CASE fleet' = [fleet EXCEPT !.pc = "ended", !.failed = TRUE]
    <3>1. fleet'.pc = "ended" /\ fleet'.targets = <<>>
      BY <1>0, <2>1, <2>4 DEF FleetTypes, Commands
    <3>2. ~Many'
      BY <3>1 DEF Many
    <3>3. EachOnce' /\ Unstarted' /\ Holding' /\ Prefixed'
      BY <1>0, <2>1, <3>1, <3>2 DEF OutInv, EachOnce, Unstarted, Holding, Prefixed
    <3> QED
      BY <1>0, <2>1, <3>1, <3>2, <3>3 DEF OutInv
  <2>5. ASSUME NEW s \in Sorted(Selected), fleet' = [fleet EXCEPT !.pc = "spawn", !.targets = s]
        PROVE  OutInv'
    <3>1. s \in Seq(Names) /\ \A i, j \in DOMAIN s : i # j => s[i] # s[j]
      BY <1>0, <2>5, SelectedNames, SortedType, SortedOnce
    <3>2. fleet'.pc = "spawn" /\ fleet'.targets = s
      BY <1>0, <2>1, <2>5 DEF FleetTypes, Commands
    <3>3. EachOnce'
      BY <3>1, <3>2 DEF EachOnce
    <3>4. Unstarted'
      BY <2>1, <2>2, <3>1, <3>2 DEF Unstarted
    <3>5. Holding' /\ Prefixed'
      BY <1>0, <2>1, <2>3 DEF OutInv, Holding, Prefixed
    <3>6. Behind(out')
      BY <2>1 DEF Behind
    <3> QED
      BY <1>0, <2>1, <3>2, <3>3, <3>4, <3>5, <3>6 DEF OutInv
  <2> QED
    BY <1>4, <2>4, <2>5 DEF ResolveTargets
<1>5. CASE Spawn
  <2> DEFINE n == fleet.targets[fleet.next]
  <2>1. /\ fleet.pc = "spawn" /\ fleet.next <= Len(fleet.targets) /\ fleet.phase \in {1, 2}
        /\ out' = out /\ mu' = mu /\ n \in Names /\ fleet.next \in DOMAIN fleet.targets
    BY <1>0, <1>5 DEF Spawn, FleetTypes, Commands
  <2>2. job[n].stage = "none"
    BY <1>0, <2>1 DEF OutInv, Unstarted
  <2>3. PICK at \in {"dial", "lock", "flush", "install"} : Stage(n, at)
    BY <1>5, <2>1 DEF Spawn
  <2>4. /\ fleet'.pc = fleet.pc /\ fleet'.targets = fleet.targets /\ fleet'.next = fleet.next + 1
    BY <1>0, <1>5 DEF Spawn, FleetTypes, Commands
  <2>6. \A i \in DOMAIN fleet.targets : i >= fleet.next + 1 => fleet.targets[i] # n
    BY <1>0, <2>1 DEF OutInv, EachOnce
  <2> HIDE DEF n
  <2>5. PICK j \in Jobs : Becomes(n, j) /\ j.stage = at /\ j.buf = job[n].buf /\ j.said = job[n].said
    BY <1>0, <2>1, <2>3, StageKeeps DEF Stages
  <2>7. job' \in [Names -> Jobs] /\ job'[n] = j /\ \A m \in Names \ {n} : job'[m] = job[m]
    BY <1>0, <2>1, <2>5, OthersStay
  <2>8. job[n].buf = <<>>
    BY <1>0, <2>1, <2>2 DEF OutInv, Buffered
  <2>9. ASSUME NEW m \in Names PROVE Buffered(m, job'[m]) /\ Shown(m, job'[m], out')
    <3>1. Buffered(m, job[m]) /\ Shown(m, job[m], out)
      BY <1>0 DEF OutInv
    <3>2. CASE m = n
      BY <2>1, <2>5, <2>7, <2>8, <3>1, <3>2 DEF Buffered, Shown
    <3>3. CASE m # n
      BY <2>1, <2>7, <3>1, <3>3
    <3> QED
      BY <3>2, <3>3
  <2>10. EachOnce'
    BY <1>0, <2>4 DEF OutInv, EachOnce
  <2>11. Unstarted'
    <3> SUFFICES ASSUME NEW i \in DOMAIN fleet.targets, i >= fleet.next + 1
                 PROVE  job'[fleet.targets[i]].stage = "none"
      BY <2>4 DEF Unstarted
    <3>1. fleet.targets[i] \in Names /\ fleet.targets[i] # n /\ i >= fleet.next
      BY <1>0, <2>6
    <3>2. job[fleet.targets[i]].stage = "none"
      BY <1>0, <2>1, <3>1 DEF OutInv, Unstarted
    <3> QED
      BY <2>7, <3>1, <3>2
  <2>12. Holding'
    BY <1>0, <2>1, <2>2, <2>5, <2>7 DEF OutInv, Holding
  <2>13. Many' = Many
    BY <2>4 DEF Many
  <2>14. Prefixed' /\ (Many' => Behind(out'))
    BY <1>0, <2>1, <2>13 DEF OutInv, Prefixed
  <2> QED
    BY <1>0, <2>1, <2>4, <2>9, <2>10, <2>11, <2>12, <2>14 DEF OutInv
<1>6. CASE Compare
  <2>1. fleet.pc = "spawn" /\ AllFinished /\ out' = out /\ mu' = mu
    BY <1>6 DEF Compare, Awaited
  <2>2. CASE /\ fleet' = [fleet EXCEPT !.phase = 2, !.next = 1]
             /\ job' = [n \in Names |-> [job[n] EXCEPT !.stage = "none"]]
    <3>1. fleet'.pc = "spawn" /\ fleet'.targets = fleet.targets
      BY <1>0, <2>1, <2>2 DEF FleetTypes, Commands
    <3>2. \A n \in Names : /\ job'[n].stage = "none" /\ job'[n].buf = job[n].buf
                           /\ job'[n].said = job[n].said
      BY <1>t, <2>2 DEF Jobs
    <3>3. \A n \in Names : job[n].stage \in {"none", "over"}
      BY <1>0, <2>1 DEF CountInv, Whereabouts, AllFinished, Finished
    <3>4. \A n \in Names : job[n].buf = <<>>
      BY <1>0, <3>3 DEF OutInv, Buffered
    <3>5. \A n \in Names : Buffered(n, job'[n]) /\ Shown(n, job'[n], out')
      BY <1>0, <2>1, <3>2, <3>4 DEF OutInv, Buffered, Shown
    <3>6. EachOnce'
      BY <1>0, <3>1 DEF OutInv, EachOnce
    <3>7. Unstarted'
      BY <1>0, <3>1, <3>2 DEF Unstarted
    <3>8. Holding'
      BY <1>0, <2>1, <3>2, <3>3 DEF OutInv, Holding
    <3>9. Many' = Many
      BY <3>1 DEF Many
    <3>10. Prefixed' /\ (Many' => Behind(out'))
      BY <1>0, <2>1, <3>9 DEF OutInv, Prefixed
    <3> QED
      BY <1>0, <2>1, <3>1, <3>5, <3>6, <3>7, <3>8, <3>10 DEF OutInv
  <2>3. CASE fleet' = [fleet EXCEPT !.pc = "ended", !.failed = TRUE] /\ UNCHANGED job
    <3>1. fleet'.pc = "ended" /\ fleet'.targets = fleet.targets
      BY <1>0, <2>3 DEF FleetTypes, Commands
    <3>2. Many' = Many
      BY <3>1 DEF Many
    <3>3. EachOnce' /\ Unstarted' /\ Holding' /\ Prefixed'
      BY <1>0, <2>1, <2>3, <3>1, <3>2 DEF OutInv, EachOnce, Unstarted, Holding, Prefixed
    <3> QED
      BY <1>0, <2>1, <2>3, <3>1, <3>2, <3>3 DEF OutInv
  <2> QED
    BY <1>6, <2>2, <2>3 DEF Compare
<1>7. CASE Summarize
  <2>1. job' = job /\ out' = out /\ mu' = mu
    BY <1>7 DEF Summarize
  <2>2. fleet'.pc = "ended" /\ fleet'.targets = fleet.targets
    BY <1>0, <1>7 DEF Summarize, FleetTypes, Commands
  <2>3. Many' = Many
    BY <2>2 DEF Many
  <2>4. EachOnce' /\ Unstarted' /\ Holding' /\ Prefixed'
    BY <1>0, <2>1, <2>2, <2>3 DEF OutInv, EachOnce, Unstarted, Holding, Prefixed
  <2> QED
    BY <1>0, <2>1, <2>2, <2>3, <2>4 DEF OutInv
<1> QED
  BY <1>2, <1>3, <1>4, <1>5, <1>6, <1>7 DEF FleetNext

(* No line is torn or printed behind another sandbox's prefix, and what an *)
(* operation wrote is printed when its goroutine ends.                     *)
THEOREM LinesWholeHolds == FleetSpec => []LinesWhole
<1>1. FleetInit => LinesInv
  BY CountInvInit, OutInit DEF LinesInv
<1>2. LinesInv /\ [FleetNext]_<<vars, fleetVars>> => LinesInv'
  BY CountInvStep, OutInvStep DEF LinesInv, fvars
<1>3. LinesInv => LinesWhole
  <2> SUFFICES ASSUME LinesInv, Many PROVE LinesWhole
    BY DEF LinesWhole
  <2>1. Targets \subseteq Names /\ Behind(out) /\ job \in [Names -> Jobs]
    BY TargetsNames DEF LinesInv, OutInv, CountInv, OneInv, FleetTypes
  <2>2. ASSUME NEW n \in Targets, Finished(n), NEW k \in 1..job[n].said
        PROVE  \E i \in DOMAIN out : out[i] = Piece(n, k)
    <3>1. Buffered(n, job[n]) /\ Shown(n, job[n], out) /\ job[n].said \in Nat
      BY <2>1, JobFields DEF LinesInv, OutInv
    <3>2. Len(job[n].buf) = 0
      BY <2>2, <3>1 DEF Buffered, Finished
    <3> QED
      BY <2>2, <3>1, <3>2 DEF Shown
  <2> QED
    BY <2>1, <2>2 DEF LinesWhole, Behind
<1> QED
  BY <1>1, <1>2, <1>3, PTL DEF FleetSpec

=============================================================================
