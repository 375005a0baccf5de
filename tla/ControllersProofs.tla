------------------------- MODULE ControllersProofs -------------------------

(***************************************************************************)
(* Types, locks and secrets of Controllers, for every fleet, every set of  *)
(* commands, every sequence of challenges and all bounds.                  *)
(***************************************************************************)
EXTENDS Controllers, TLAPS

(* A new worker is a worker. *)
LEMMA NewWorkerType == NewWorker(TRUE) \in Worker /\ NewWorker(FALSE) \in Worker
  BY DEF NewWorker, Worker, EmptyCache, NoSecret, Secrets

(* Workers are stopped and locks released, by the cleanup and by the exit. *)
LEMMA StoppedType ==
  ASSUME WorkerTypes, NEW ms, Stopped(ms) PROVE WorkerTypes'
<1>1. conn' \in [Members -> Worker]
  BY NewWorkerType DEF Stopped, WorkerTypes
<1>2. sup' \in [Members -> {"off", "dialing", "asking", "checking", "parked", "serving", "backoff"}]
  BY DEF Stopped, WorkerTypes
<1>3. pwReqs' \in Seq(Members) /\ modals' \in Seq(Members)
  BY DEF Stopped
<1> QED BY <1>1, <1>2, <1>3 DEF WorkerTypes

(* Releasing serve locks keeps the locks' types. *)
LEMMA ReleasedType ==
  ASSUME LockTypes, NEW ms, Released(ms), UNCHANGED <<opsLock, probing>> PROVE LockTypes'
  BY DEF Released, LockTypes

(* The start of the console, the joins, its end.                           *)
LEMMA FleetType ==
  ASSUME TypeOK, MainStep \/ JoinerStep \/ Quit \/ Exit
  PROVE TypeOK'
<1> USE NobodyAssumption
<1> USE DEF TypeOK, LockTypes, FleetTypes, WorkerTypes, ServerTypes, CommandTypes,
            lockVars, fleetVars, promptVars, serverVars
<1>1. ASSUME NEW m \in Members, StartMember(m) PROVE TypeOK'
  BY <1>1, NewWorkerType DEF StartMember, Take, BeginDial
<1>2. ASSUME NEW m \in Members, MemberOwned(m) PROVE TypeOK'
  BY <1>2 DEF MemberOwned
<1>3. ASSUME GoLive PROVE TypeOK'
  BY <1>3 DEF GoLive
<1>4. ASSUME Cleanup PROVE TypeOK'
  <2>1. LockTypes' /\ WorkerTypes'
    BY <1>4, StoppedType, ReleasedType DEF Cleanup
  <2> QED BY <1>4, <2>1 DEF Cleanup
<1>5. ASSUME JoinTick PROVE TypeOK'
  BY <1>5 DEF JoinTick
<1>6. ASSUME JoinStops PROVE TypeOK'
  BY <1>6 DEF JoinStops
<1>7. ASSUME JoinRegister PROVE TypeOK'
  BY <1>7 DEF JoinRegister
<1>8. ASSUME JoinRest PROVE TypeOK'
  BY <1>8 DEF JoinRest
<1>9. ASSUME NEW m \in Members, JoinOwned(m) PROVE TypeOK'
  BY <1>9 DEF JoinOwned
<1>10. ASSUME NEW m \in Members, JoinStart(m) PROVE TypeOK'
  BY <1>10, NewWorkerType DEF JoinStart, Take, BeginDial
<1>11. ASSUME Quit PROVE TypeOK'
  BY <1>11 DEF Quit
<1>12. ASSUME Exit PROVE TypeOK'
  <2>1. LockTypes' /\ WorkerTypes'
    BY <1>12, StoppedType, ReleasedType DEF Exit
  <2> QED BY <1>12, <2>1 DEF Exit
<1> QED
  BY <1>1, <1>2, <1>3, <1>4, <1>5, <1>6, <1>7, <1>8, <1>9, <1>10, <1>11, <1>12
  DEF MainStep, JoinerStep

(* Secrets, and what an answer and the cache make of them.                 *)
LEMMA SecretTypes ==
  /\ Mistyped \in Secrets /\ NoSecret \in Secrets
  /\ \A n \in Nat : Password(n) \in Secrets /\ Code(n) \in Secrets
  BY DEF Mistyped, NoSecret, Password, Code, Secrets

Caches == [committed : Secrets, pending : Secrets]

(* The empty cache, a commit and a staged answer are caches. *)
LEMMA CacheTypes ==
  ASSUME NEW cache \in Caches, NEW secret \in Secrets, NEW challenge
  PROVE  EmptyCache \in Caches /\ Committed(cache) \in Caches
           /\ Staged(cache, challenge, secret) \in Caches
  BY SecretTypes DEF Caches, EmptyCache, Committed, Staged

(* A worker whose question is answered is a worker. *)
LEMMA AnsweredType ==
  ASSUME TypeOK, NEW m \in Members, NEW secret \in Secrets
  PROVE  Answered(m, secret) \in Worker
<1>1. conn[m] \in Worker /\ Append(conn[m].answers, secret) \in Seq(Secrets)
  BY DEF TypeOK, WorkerTypes, Worker
<1>2. (~Right(Challenge(m), secret, password[m], Seen(m))) \in BOOLEAN
  OBVIOUS
<1> QED BY <1>1, <1>2 DEF Answered, Worker

(* The codes a worker has spent, and those in the answers it sends, are secrets. *)
LEMMA SeenType ==
  ASSUME TypeOK, NEW m \in Members PROVE Seen(m) \subseteq Secrets
<1>1. conn[m].answers \in Seq(Secrets) /\ spent[m] \subseteq Secrets
  BY DEF TypeOK, WorkerTypes, ServerTypes, Worker
<1> QED BY <1>1 DEF Seen, CodesIn

(* Noting the codes that were sent keeps the server's types. *)
LEMMA SentType ==
  ASSUME TypeOK, NEW m \in Members, Sent(m), UNCHANGED <<boot, password, codes>>
  PROVE  ServerTypes'
  BY SeenType DEF TypeOK, ServerTypes, Sent

(* Using up one unit of a budget keeps the commands' types. *)
LEMMA UseType ==
  ASSUME CommandTypes, UNCHANGED cli,
         NEW what \in {"drops", "mistakes", "rotations", "gates", "commands"},
         Use(what)
  PROVE  CommandTypes'
  BY DEF CommandTypes, Use

(* A reply to a prompt.                                                    *)
LEMMA ReplyType ==
  ASSUME TypeOK, NEW m \in Members, NEW secret \in Secrets,
         Shown(m), Reply(m, secret), UNCHANGED modals
  PROVE  WorkerTypes'
<1> DEFINE answered == Answered(m, secret)
<1>1. answered \in Worker
  BY AnsweredType
<1>2. answered.cache \in Caches
  BY <1>1 DEF Worker, Caches
<1>3. Staged(answered.cache, Challenge(m), secret) \in Caches
  BY <1>2, CacheTypes
<1>4. [answered EXCEPT !.cache = Staged(answered.cache, Challenge(m), secret)] \in Worker
  <2> HIDE DEF answered
  <2> QED BY <1>1, <1>3 DEF Worker, Caches
<1>5. conn' \in [Members -> Worker]
  BY <1>4 DEF Reply, TypeOK, WorkerTypes
<1>6. pwReqs' \in Seq(Members)
  BY DEF Reply, Shown, TypeOK, WorkerTypes
<1> QED BY <1>5, <1>6 DEF Reply, TypeOK, WorkerTypes

(* How a dial ends.                                                        *)
LEMMA BackOffType ==
  ASSUME TypeOK, NEW m \in Members, NEW cache \in Caches, BackOff(m, cache),
         UNCHANGED promptVars
  PROVE  WorkerTypes'
<1>1. <<>> \in Seq(Secrets)
  OBVIOUS
<1>2. [conn[m] EXCEPT !.alive = FALSE, !.answers = <<>>, !.refused = FALSE, !.cache = cache]
        \in Worker
  BY <1>1, ZenonT(30) DEF TypeOK, WorkerTypes, Worker, Caches
<1>3. conn' \in [Members -> Worker]
  BY <1>2 DEF BackOff, TypeOK, WorkerTypes
<1> QED BY <1>3 DEF BackOff, TypeOK, WorkerTypes, promptVars

(* Opening a connection keeps the workers' types. *)
LEMMA OpenType ==
  ASSUME TypeOK, NEW m \in Members, NEW cache \in Caches, Open(m, cache),
         UNCHANGED promptVars
  PROVE  WorkerTypes'
<1>1. <<>> \in Seq(Secrets)
  OBVIOUS
<1>2. [conn[m] EXCEPT !.alive = TRUE, !.answers = <<>>, !.ui = TRUE, !.cache = cache] \in Worker
  BY <1>1, ZenonT(30) DEF TypeOK, WorkerTypes, Worker, Caches
<1>3. conn' \in [Members -> Worker]
  BY <1>2 DEF Open, TypeOK, WorkerTypes
<1> QED BY <1>3 DEF Open, TypeOK, WorkerTypes, promptVars

(* A member that starts keeps the locks' and the fleet's types. *)
LEMMA StartSucceedsType ==
  ASSUME TypeOK, NEW m \in Members, StartSucceeds(m), FirstDial(m), UNCHANGED <<opsLock, probing>>
  PROVE  LockTypes' /\ FleetTypes'
  BY DEF StartSucceeds, StartEnds, FirstDial, TypeOK, LockTypes, FleetTypes

(* A member that cannot start keeps the locks', the fleet's and the workers' types. *)
LEMMA StartFailsType ==
  ASSUME TypeOK, NEW m \in Members, StartFails(m), UNCHANGED <<opsLock, probing>>,
         UNCHANGED promptVars
  PROVE  LockTypes' /\ FleetTypes' /\ WorkerTypes'
<1>1. LockTypes' /\ FleetTypes'
  BY DEF StartFails, StartEnds, Drop, TypeOK, LockTypes, FleetTypes
<1>2. WorkerTypes'
  BY NewWorkerType DEF StartFails, TypeOK, WorkerTypes, promptVars
<1> QED BY <1>1, <1>2

(* A dial and a worker's cycle.                                            *)
LEMMA DialType ==
  ASSUME TypeOK, NEW m \in Members, Opened(m) \/ Rejected(m) \/ Unreachable(m)
  PROVE  TypeOK'
<1>1. conn[m].cache \in Caches /\ Committed(conn[m].cache) \in Caches /\ EmptyCache \in Caches
  BY CacheTypes, SecretTypes DEF TypeOK, WorkerTypes, Worker, Caches
<1>2. ASSUME Opened(m) PROVE TypeOK'
  <2>1. ServerTypes' /\ CommandTypes'
    BY <1>2, SentType DEF Opened, TypeOK, CommandTypes
  <2>2. CASE FirstDial(m)
    BY <1>1, <1>2, <2>1, <2>2, OpenType, StartSucceedsType DEF Opened, TypeOK
  <2>3. CASE ~FirstDial(m)
    <3>1. WorkerTypes'
      BY <1>1, <1>2, <2>3, OpenType DEF Opened
    <3> QED BY <1>2, <2>1, <2>3, <3>1 DEF Opened, TypeOK, LockTypes, FleetTypes, fleetVars
  <2> QED BY <2>2, <2>3
<1>3. ASSUME Rejected(m) PROVE TypeOK'
  <2>1. ServerTypes' /\ CommandTypes'
    BY <1>3, SentType DEF Rejected, TypeOK, CommandTypes
  <2>2. CASE FirstDial(m)
    BY <1>3, <2>1, <2>2, StartFailsType DEF Rejected, TypeOK
  <2>3. CASE ~FirstDial(m)
    <3>1. WorkerTypes'
      BY <1>1, <1>3, <2>3, BackOffType DEF Rejected
    <3> QED BY <1>3, <2>1, <2>3, <3>1 DEF Rejected, TypeOK, LockTypes, FleetTypes, fleetVars
  <2> QED BY <2>2, <2>3
<1>4. ASSUME Unreachable(m) PROVE TypeOK'
  <2>1. ServerTypes' /\ CommandTypes'
    BY <1>4, SentType, UseType DEF Unreachable, DropOf, TypeOK
  <2>2. CASE FirstDial(m)
    BY <1>4, <2>1, <2>2, StartFailsType DEF Unreachable, TypeOK
  <2>3. CASE ~FirstDial(m)
    <3>1. WorkerTypes'
      BY <1>1, <1>4, <2>3, BackOffType DEF Unreachable
    <3> QED BY <1>4, <2>1, <2>3, <3>1 DEF Unreachable, TypeOK, LockTypes, FleetTypes, fleetVars
  <2> QED BY <2>2, <2>3
<1> QED BY <1>2, <1>3, <1>4

(* The steps of a question and its answer keep the types. *)
LEMMA PromptType ==
  ASSUME TypeOK, NEW m \in Members,
         \/ AnswerSilently(m) \/ Ask(m) \/ ForwardPassword(m) \/ ForwardApproval(m)
         \/ TypeSecret(m) \/ Mistype(m) \/ AnswerApproval(m)
  PROVE  TypeOK'
<1> USE DEF lockVars, fleetVars, promptVars, serverVars
<1>0. conn[m] \in Worker /\ conn[m].cache.committed \in Secrets
  BY DEF TypeOK, WorkerTypes, Worker
<1>1. ASSUME AnswerSilently(m) PROVE TypeOK'
  <2>1. Answered(m, conn[m].cache.committed) \in Worker
    BY <1>0, AnsweredType
  <2>2. conn' \in [Members -> Worker]
    BY <1>1, <2>1 DEF AnswerSilently, TypeOK, WorkerTypes
  <2> QED BY <1>1, <2>2
        DEF AnswerSilently, TypeOK, LockTypes, FleetTypes, WorkerTypes, ServerTypes, CommandTypes
<1>2. ASSUME Ask(m) PROVE TypeOK'
  <2>1. conn' \in [Members -> Worker]
    BY <1>0, <1>2 DEF Ask, TypeOK, WorkerTypes, Worker
  <2> QED BY <1>2, <2>1
        DEF Ask, TypeOK, LockTypes, FleetTypes, WorkerTypes, ServerTypes, CommandTypes
<1>3. ASSUME ForwardPassword(m) PROVE TypeOK'
  <2>1. conn' \in [Members -> Worker]
    BY <1>0, <1>3 DEF ForwardPassword, TypeOK, WorkerTypes, Worker
  <2> QED BY <1>3, <2>1, SMTT(20)
        DEF ForwardPassword, TypeOK, LockTypes, FleetTypes, WorkerTypes, ServerTypes, CommandTypes
<1>4. ASSUME ForwardApproval(m) PROVE TypeOK'
  <2>1. conn' \in [Members -> Worker]
    BY <1>0, <1>4 DEF ForwardApproval, TypeOK, WorkerTypes, Worker
  <2>2. modals' \in Seq(Members)
    BY <1>4 DEF ForwardApproval, TypeOK, WorkerTypes
  <2> QED BY <1>4, <2>1, <2>2
        DEF ForwardApproval, TypeOK, LockTypes, FleetTypes, WorkerTypes, ServerTypes, CommandTypes
<1>5. ASSUME TypeSecret(m) PROVE TypeOK'
  <2>1. Password(password[m]) \in Secrets /\ Code(codes[m]) \in Secrets
    BY SecretTypes DEF TypeOK, ServerTypes
  <2>2. WorkerTypes'
    BY <1>5, <2>1, ReplyType DEF TypeSecret
  <2>3. ServerTypes'
    BY <1>5 DEF TypeSecret, TypeOK, ServerTypes
  <2> QED BY <1>5, <2>2, <2>3 DEF TypeSecret, TypeOK, LockTypes, FleetTypes, CommandTypes
<1>6. ASSUME Mistype(m) PROVE TypeOK'
  <2>1. WorkerTypes'
    BY <1>6, SecretTypes, ReplyType DEF Mistype
  <2>2. CommandTypes'
    BY <1>6, UseType DEF Mistype, TypeOK
  <2> QED BY <1>6, <2>1, <2>2 DEF Mistype, TypeOK, LockTypes, FleetTypes, ServerTypes
<1>7. ASSUME AnswerApproval(m) PROVE TypeOK'
  <2>1. conn' \in [Members -> Worker]
    BY <1>0, <1>7 DEF AnswerApproval, TypeOK, WorkerTypes, Worker
  <2>2. modals' \in Seq(Members)
    BY <1>7 DEF AnswerApproval, TypeOK, WorkerTypes
  <2> QED BY <1>7, <2>1, <2>2
        DEF AnswerApproval, TypeOK, LockTypes, FleetTypes, WorkerTypes, ServerTypes, CommandTypes
<1> QED BY <1>1, <1>2, <1>3, <1>4, <1>5, <1>6, <1>7

(* The steps of the supervisor's cycle keep the types. *)
LEMMA CycleType ==
  ASSUME TypeOK, NEW m \in Members,
         \/ Check(m) \/ Unpark(m) \/ ServeEnds(m) \/ Redial(m) \/ LinkDrops(m)
         \/ RequestApproval(m) \/ OperatorBootstrap(m) \/ Rotate(m)
  PROVE  TypeOK'
<1> USE DEF lockVars, fleetVars, promptVars, serverVars
<1>0. conn[m] \in Worker /\ Committed(conn[m].cache) \in Caches
  BY CacheTypes, SecretTypes DEF TypeOK, WorkerTypes, Worker, Caches
<1>1. ASSUME Check(m) PROVE TypeOK'
  BY <1>1 DEF Check, TypeOK, LockTypes, FleetTypes, WorkerTypes, ServerTypes, CommandTypes
<1>2. ASSUME Unpark(m) PROVE TypeOK'
  <2>1. conn' \in [Members -> Worker]
    BY <1>0, <1>2 DEF Unpark, TypeOK, WorkerTypes, Worker
  <2> QED BY <1>2, <2>1
        DEF Unpark, TypeOK, LockTypes, FleetTypes, WorkerTypes, ServerTypes, CommandTypes
<1>3. ASSUME ServeEnds(m) PROVE TypeOK'
  <2>1. WorkerTypes'
    BY <1>0, <1>3, BackOffType DEF ServeEnds
  <2> QED BY <1>3, <2>1
        DEF ServeEnds, TypeOK, LockTypes, FleetTypes, ServerTypes, CommandTypes
<1>4. ASSUME Redial(m) PROVE TypeOK'
  BY <1>4 DEF Redial, TypeOK, LockTypes, FleetTypes, WorkerTypes, ServerTypes, CommandTypes
<1>5. ASSUME LinkDrops(m) PROVE TypeOK'
  <2>1. conn' \in [Members -> Worker]
    BY <1>0, <1>5 DEF LinkDrops, TypeOK, WorkerTypes, Worker
  <2>2. CommandTypes'
    BY <1>5, UseType DEF LinkDrops, DropOf, TypeOK
  <2> QED BY <1>5, <2>1, <2>2
        DEF LinkDrops, TypeOK, LockTypes, FleetTypes, WorkerTypes, ServerTypes
<1>6. ASSUME RequestApproval(m) PROVE TypeOK'
  <2>1. conn' \in [Members -> Worker]
    BY <1>0, <1>6 DEF RequestApproval, TypeOK, WorkerTypes, Worker
  <2>2. CommandTypes'
    BY <1>6, UseType DEF RequestApproval, TypeOK
  <2> QED BY <1>6, <2>1, <2>2
        DEF RequestApproval, TypeOK, LockTypes, FleetTypes, WorkerTypes, ServerTypes
<1>7. ASSUME OperatorBootstrap(m) PROVE TypeOK'
  <2>1. conn' \in [Members -> Worker]
    BY <1>0, <1>7 DEF OperatorBootstrap, TypeOK, WorkerTypes, Worker
  <2> QED BY <1>7, <2>1
        DEF OperatorBootstrap, TypeOK, LockTypes, FleetTypes, WorkerTypes, ServerTypes, CommandTypes
<1>8. ASSUME Rotate(m) PROVE TypeOK'
  <2>1. CommandTypes'
    BY <1>8, UseType DEF Rotate, TypeOK
  <2> QED BY <1>8, <2>1 DEF Rotate, TypeOK, LockTypes, FleetTypes, WorkerTypes, ServerTypes
<1> QED BY <1>1, <1>2, <1>3, <1>4, <1>5, <1>6, <1>7, <1>8

(* The commands.                                                           *)
LEMMA LeaveType ==
  ASSUME TypeOK, NEW c \in Commands, Leave(c), UNCHANGED used
  PROVE  LockTypes' /\ CommandTypes'
  BY DEF Leave, Idle, TypeOK, LockTypes, CommandTypes

Processes == [pc : {"idle", "dialing", "checking", "serving", "gaveUp",
                    "probing", "operating", "provisioning"},
              member : Members \cup {Nobody}]

Budgets == [{"drops", "mistakes", "rotations", "gates", "commands"} -> Nat]

(* A command line that moves on is still a process. *)
LEMMA BecomeType ==
  ASSUME TypeOK, NEW c \in Commands, NEW pc,
         pc \in {"idle", "dialing", "checking", "serving", "gaveUp",
                "probing", "operating", "provisioning"},
         Become(c, pc)
  PROVE  cli' \in [Commands -> Processes]
  BY DEF Become, TypeOK, CommandTypes, Processes

(* Using up one unit of a budget leaves budgets. *)
LEMMA UsedType ==
  ASSUME TypeOK, NEW what \in {"drops", "mistakes", "rotations", "gates", "commands"},
         Use(what)
  PROVE  used' \in Budgets
  BY DEF Use, TypeOK, CommandTypes, Budgets

(* The steps of a command line keep the types. *)
LEMMA CommandType ==
  ASSUME TypeOK, NEW c \in Commands,
         \/ CommandStep(c) \/ ServeDrops(c) \/ Reset(c) \/ CommandEnds(c)
         \/ \E m \in Targets : Serve(c, m) \/ Mutate(c, m)
  PROVE  TypeOK'
<1> USE DEF lockVars, fleetVars, promptVars, serverVars
<1>0. CommandTypes' <=> cli' \in [Commands -> Processes] /\ used' \in Budgets
  BY DEF CommandTypes, Processes, Budgets
<1>1. ASSUME NEW m \in Targets, Serve(c, m) PROVE TypeOK'
  <2>1. used' \in Budgets
    BY <1>1, UsedType DEF Serve
  <2>2. cli' \in [Commands -> Processes]
    BY <1>1, MembersAssumption DEF Serve, TypeOK, CommandTypes, Processes
  <2>3. LockTypes'
    BY <1>1 DEF Serve, Take, TypeOK, LockTypes
  <2> QED BY <1>0, <1>1, <2>1, <2>2, <2>3
        DEF Serve, TypeOK, FleetTypes, WorkerTypes, ServerTypes
<1>2. ASSUME NEW m \in Targets, Mutate(c, m) PROVE TypeOK'
  <2>1. used' \in Budgets
    BY <1>2, UsedType DEF Mutate
  <2>2. cli' \in [Commands -> Processes]
    BY <1>2, MembersAssumption DEF Mutate, TypeOK, CommandTypes, Processes
  <2>3. LockTypes'
    BY <1>2, MembersAssumption DEF Mutate, TypeOK, LockTypes
  <2> QED BY <1>0, <1>2, <2>1, <2>2, <2>3
        DEF Mutate, TypeOK, FleetTypes, WorkerTypes, ServerTypes
<1>3. ASSUME ServeConnects(c) PROVE TypeOK'
  <2>1. cli' \in [Commands -> Processes]
    BY <1>3, BecomeType DEF ServeConnects
  <2> QED BY <1>0, <1>3, <2>1
        DEF ServeConnects, TypeOK, LockTypes, FleetTypes, WorkerTypes, ServerTypes,
            CommandTypes, Budgets
<1>4. ASSUME ServeChecks(c) PROVE TypeOK'
  <2>1. PICK read \in BOOLEAN :
          /\ IF read THEN UNCHANGED used ELSE DropOf(cli[c].member, "checking")
          /\ Become(c, IF read /\ boot[cli[c].member] THEN "serving" ELSE "gaveUp")
    BY <1>4 DEF ServeChecks
  <2>2. used' \in Budgets
    BY <2>1, UsedType DEF DropOf, TypeOK, CommandTypes, Budgets
  <2>3. cli' \in [Commands -> Processes]
    BY <2>1, BecomeType
  <2> QED BY <1>0, <1>4, <2>2, <2>3
        DEF ServeChecks, TypeOK, LockTypes, FleetTypes, WorkerTypes, ServerTypes
<1>5. ASSUME ServeDrops(c) PROVE TypeOK'
  <2>1. used' \in Budgets
    BY <1>5, UsedType DEF ServeDrops, DropOf, TypeOK, CommandTypes, Budgets
  <2>2. cli' \in [Commands -> Processes]
    BY <1>5, BecomeType DEF ServeDrops
  <2> QED BY <1>0, <1>5, <2>1, <2>2
        DEF ServeDrops, TypeOK, LockTypes, FleetTypes, WorkerTypes, ServerTypes
<1>6. ASSUME ProbeHolder(c) PROVE TypeOK'
  <2>1. cli' \in [Commands -> Processes]
    BY <1>6, BecomeType DEF ProbeHolder
  <2>2. LockTypes'
    BY <1>6 DEF ProbeHolder, TypeOK, LockTypes
  <2> QED BY <1>0, <1>6, <2>1, <2>2
        DEF ProbeHolder, TypeOK, FleetTypes, WorkerTypes, ServerTypes, CommandTypes, Budgets
<1>7. ASSUME Reset(c) PROVE TypeOK'
  <2>1. cli' \in [Commands -> Processes]
    BY <1>7, BecomeType DEF Reset
  <2> QED BY <1>0, <1>7, <2>1
        DEF Reset, TypeOK, LockTypes, FleetTypes, WorkerTypes, ServerTypes, CommandTypes, Budgets
<1>8. ASSUME Provision(c) PROVE TypeOK'
  BY <1>8, LeaveType DEF Provision, TypeOK, FleetTypes, WorkerTypes, ServerTypes
<1>9. ASSUME CommandEnds(c) PROVE TypeOK'
  BY <1>9, LeaveType DEF CommandEnds, TypeOK, FleetTypes, WorkerTypes, ServerTypes
<1> QED
  BY <1>1, <1>2, <1>3, <1>4, <1>5, <1>6, <1>7, <1>8, <1>9 DEF CommandStep

(* The initial state has the types. *)
LEMMA TypeInit == Init => TypeOK
<1> SUFFICES ASSUME Init PROVE TypeOK
  OBVIOUS
<1>1. /\ conn \in [Members -> Worker]
      /\ pwReqs \in Seq(Members) /\ modals \in Seq(Members)
  <2>1. conn = [m \in Members |-> NewWorker(FALSE)] /\ pwReqs = <<>> /\ modals = <<>>
    BY DEF Init
  <2>2. conn \in [Members -> Worker]
    BY <2>1, NewWorkerType
  <2>3. <<>> \in Seq(Members)
    OBVIOUS
  <2> QED BY <2>1, <2>2, <2>3
<1>2. WorkerTypes
  BY <1>1 DEF Init, WorkerTypes
<1>3. LockTypes /\ FleetTypes /\ ServerTypes
  BY DEF Init, LockTypes, FleetTypes, ServerTypes
<1>4. CommandTypes
  BY DEF Init, Idle, CommandTypes
<1> QED BY <1>2, <1>3, <1>4 DEF TypeOK

(* Every step keeps the types. *)
LEMMA TypeNext == TypeOK /\ [Next]_vars => TypeOK'
<1> SUFFICES ASSUME TypeOK, [Next]_vars PROVE TypeOK'
  OBVIOUS
<1>1. CASE Next
  BY <1>1, FleetType, DialType, PromptType, CycleType, CommandType
  DEF Next, WorkerStep, OperatorStep
<1>2. CASE UNCHANGED vars
  BY <1>2 DEF vars, lockVars, fleetVars, promptVars, serverVars,
              TypeOK, LockTypes, FleetTypes, WorkerTypes, ServerTypes, CommandTypes
<1> QED BY <1>1, <1>2

(* The state of the controllers keeps its types, for every fleet and bound. *)
THEOREM TypeHolds == Spec => []TypeOK
  BY TypeInit, TypeNext, PTL DEF Spec

(***************************************************************************)
(* The locks. LockInv says, for each lock, which part of which process     *)
(* answers for it. OneServer alone is not inductive: a worker that dials   *)
(* must hold its lock already, and so must a start that is under way.      *)
(***************************************************************************)
Joining == joiner.pc \in {"dialing", "registering"}

Serves(c) == cli[c].pc \in {"dialing", "checking", "serving", "gaveUp"}

\* A worker's lock is the console's, from its first dial on.
WorkersLocked == \A m \in Members : sup[m] # "off" => serveLock[m] = Console

\* A serve command's lock is its own.
CommandsLocked ==
  \A c \in Commands :
    Serves(c) => cli[c].member \in Members /\ serveLock[cli[c].member] = c

\* What the cleanup releases is what the registered workers hold.
RegisteredLocked == locks = workers /\ \A m \in workers : serveLock[m] = Console

\* The member being started holds its lock and is not registered; nobody joins yet.
StartLocked ==
  /\ starting \in Members =>
       /\ phase = "starting" /\ starting \in todo
       /\ serveLock[starting] = Console /\ starting \notin workers
  /\ phase = "starting" => joiner.pc = "off"

\* So does the one being joined, which is another one.
JoinLocked ==
  Joining =>
    /\ serveLock[joiner.member] = Console
    /\ joiner.member \notin workers /\ joiner.member # starting

\* Nothing else holds a lock for the console.
LocksAccounted ==
  \A m \in Members :
    serveLock[m] = Console => m \in workers \/ m = starting \/ (Joining /\ m = joiner.member)

LockInv ==
  /\ WorkersLocked /\ CommandsLocked /\ RegisteredLocked
  /\ StartLocked /\ JoinLocked /\ LocksAccounted

(* Nobody holds a lock at the start. *)
LEMMA LockInit == Init => LockInv
  BY NobodyAssumption
  DEF Init, Idle, LockInv, WorkersLocked, CommandsLocked, RegisteredLocked, StartLocked,
      JoinLocked, LocksAccounted, Joining, Serves

(* A step that leaves the locks, the fleet and the commands alone keeps LockInv when
   it starts no worker. *)
LEMMA LockKept ==
  ASSUME LockInv, UNCHANGED <<serveLock, fleetVars, joiner, cli>>,
         \A m \in Members : sup'[m] # "off" => sup[m] # "off"
  PROVE  LockInv'
<1>1. UNCHANGED <<phase, todo, starting, workers, locks>>
  BY DEF fleetVars
<1> QED
  BY <1>1 DEF LockInv, WorkersLocked, CommandsLocked, RegisteredLocked, StartLocked,
              JoinLocked, LocksAccounted, Joining, Serves

(* The start of the console, the joins, its end. *)
LEMMA LockFleet ==
  ASSUME TypeOK, LockInv, MainStep \/ JoinerStep \/ Quit \/ Exit
  PROVE  LockInv'
<1> USE NobodyAssumption, ConsoleAssumption
<1> USE DEF LockInv, WorkersLocked, CommandsLocked, RegisteredLocked, StartLocked,
            JoinLocked, LocksAccounted, Joining, Serves,
            TypeOK, LockTypes, FleetTypes, lockVars, fleetVars
<1>0. sup \in [Members -> {"off", "dialing", "asking", "checking", "parked", "serving", "backoff"}]
  BY DEF WorkerTypes
<1>1. ASSUME NEW m \in Members, StartMember(m) PROVE LockInv'
  BY <1>0, <1>1 DEF StartMember, Free, Take, BeginDial
<1>2. ASSUME NEW m \in Members, MemberOwned(m) PROVE LockInv'
  BY <1>2 DEF MemberOwned
<1>3. ASSUME GoLive PROVE LockInv'
  BY <1>3 DEF GoLive
<1>4. ASSUME Cleanup PROVE LockInv'
  BY <1>4 DEF Cleanup, Stopped, Released
<1>5. ASSUME JoinTick PROVE LockInv'
  BY <1>5 DEF JoinTick
<1>6. ASSUME JoinStops PROVE LockInv'
  BY <1>6 DEF JoinStops
<1>7. ASSUME JoinRegister PROVE LockInv'
  BY <1>7 DEF JoinRegister
<1>8. ASSUME JoinRest PROVE LockInv'
  BY <1>8 DEF JoinRest
<1>9. ASSUME NEW m \in Members, JoinOwned(m) PROVE LockInv'
  BY <1>9 DEF JoinOwned
<1>10. ASSUME NEW m \in Members, JoinStart(m) PROVE LockInv'
  BY <1>0, <1>10 DEF JoinStart, Free, Take, BeginDial
<1>11. ASSUME Quit PROVE LockInv'
  BY <1>11 DEF Quit
<1>12. ASSUME Exit PROVE LockInv'
  BY <1>12 DEF Exit, Stopped, Released
<1> QED
  BY <1>1, <1>2, <1>3, <1>4, <1>5, <1>6, <1>7, <1>8, <1>9, <1>10, <1>11, <1>12
  DEF MainStep, JoinerStep

(* A first dial that ends registers the member or gives its lock back. *)
LEMMA LockStart ==
  ASSUME TypeOK, LockInv, NEW m \in Members, FirstDial(m), sup[m] # "off", UNCHANGED cli,
         \/ StartSucceeds(m) /\ sup' = [sup EXCEPT ![m] = "checking"]
         \/ StartFails(m)
  PROVE  LockInv'
<1> USE NobodyAssumption, ConsoleAssumption
<1> USE DEF LockInv, WorkersLocked, CommandsLocked, RegisteredLocked, StartLocked,
            JoinLocked, LocksAccounted, Joining, Serves, FirstDial, StartEnds
<1>0. /\ sup \in [Members -> {"off", "dialing", "asking", "checking", "parked", "serving", "backoff"}]
      /\ LockTypes /\ FleetTypes
  BY DEF TypeOK, WorkerTypes
<1>1. CASE StartSucceeds(m) /\ sup' = [sup EXCEPT ![m] = "checking"]
  <2>1. sup' \in [Members -> {"off", "dialing", "asking", "checking", "parked", "serving", "backoff"}]
    BY <1>0, <1>1
  <2>2. \A n \in Members : sup'[n] # "off" => sup[n] # "off"
    BY <1>0, <1>1
  <2>3. UNCHANGED <<serveLock, phase, cli>>
    BY <1>1 DEF StartSucceeds
  <2>4. WorkersLocked' /\ CommandsLocked'
    BY <1>0, <2>2, <2>3 DEF FleetTypes
  <2>5. CASE starting = m
    <3>1. /\ starting' = Nobody /\ todo' = todo \ {m} /\ UNCHANGED joiner
          /\ workers' = workers \cup {m} /\ locks' = locks \cup {m}
      BY <1>1, <2>5 DEF StartSucceeds
    <3>2. phase = "starting" /\ serveLock[m] = Console /\ joiner.pc = "off"
      BY <2>5
    <3>3. RegisteredLocked' /\ StartLocked' /\ JoinLocked'
      BY <2>3, <3>1, <3>2
    <3>4. LocksAccounted'
      BY <2>3, <2>5, <3>1, <3>2
    <3> QED BY <2>4, <3>3, <3>4
  <2>6. CASE starting # m
    <3>1. UNCHANGED <<todo, starting, workers, locks>>
      BY <1>1, <2>6 DEF StartSucceeds
    <3>2. joiner'.pc = "registering" /\ joiner'.member = joiner.member
      BY <1>0, <1>1, <2>6 DEF StartSucceeds, FleetTypes
    <3> QED BY <1>0, <2>3, <2>4, <2>6, <3>1, <3>2 DEF FleetTypes
  <2> QED BY <2>5, <2>6
<1>2. CASE StartFails(m)
  BY <1>0, <1>2 DEF StartFails, Drop, LockTypes, FleetTypes
<1> QED BY <1>1, <1>2

(* The steps of a worker, of its operator and of its link. *)
LEMMA LockWorker ==
  ASSUME TypeOK, LockInv, NEW m \in Members,
         \/ WorkerStep(m) \/ OperatorStep(m) \/ OperatorBootstrap(m)
         \/ Mistype(m) \/ Unreachable(m) \/ RequestApproval(m) \/ LinkDrops(m) \/ Rotate(m)
  PROVE  LockInv'
<1>0. sup \in [Members -> {"off", "dialing", "asking", "checking", "parked", "serving", "backoff"}]
  BY DEF TypeOK, WorkerTypes
<1>1. ASSUME Opened(m) PROVE LockInv'
  <2>1. CASE FirstDial(m)
    BY <1>1, <2>1, LockStart DEF Opened, Open
  <2>2. CASE ~FirstDial(m)
    BY <1>0, <1>1, <2>2, LockKept DEF Opened, Open
  <2> QED BY <2>1, <2>2
<1>2. ASSUME Rejected(m) \/ Unreachable(m) PROVE LockInv'
  <2>1. CASE FirstDial(m)
    BY <1>2, <2>1, LockStart DEF Rejected, Unreachable
  <2>2. CASE ~FirstDial(m)
    BY <1>0, <1>2, <2>2, LockKept DEF Rejected, Unreachable, BackOff
  <2> QED BY <2>1, <2>2
<1>3. ASSUME \/ AnswerSilently(m) \/ ForwardPassword(m) \/ ForwardApproval(m)
             \/ AnswerApproval(m) \/ OperatorBootstrap(m) \/ RequestApproval(m)
             \/ LinkDrops(m) \/ Rotate(m)
      PROVE  LockInv'
  BY <1>3, LockKept
  DEF AnswerSilently, ForwardPassword, ForwardApproval, AnswerApproval, OperatorBootstrap,
      RequestApproval, LinkDrops, Rotate, lockVars
<1>4. ASSUME \/ Ask(m) \/ Check(m) \/ Unpark(m) \/ ServeEnds(m) \/ Redial(m)
             \/ TypeSecret(m) \/ Mistype(m)
      PROVE  LockInv'
  BY <1>0, <1>4, LockKept
  DEF Ask, Check, Unpark, ServeEnds, BackOff, Redial, TypeSecret, Mistype, Reply, lockVars
<1> QED BY <1>1, <1>2, <1>3, <1>4 DEF WorkerStep, OperatorStep

(* The steps of a command: it takes a free lock and leaves with its own locks. *)
LEMMA LockCommand ==
  ASSUME TypeOK, LockInv, NEW c \in Commands,
         \/ CommandStep(c) \/ ServeDrops(c) \/ Reset(c) \/ CommandEnds(c)
         \/ \E m \in Targets : Serve(c, m) \/ Mutate(c, m)
  PROVE  LockInv'
<1> USE NobodyAssumption, ConsoleAssumption, MembersAssumption
<1> USE DEF LockInv, WorkersLocked, CommandsLocked, RegisteredLocked, StartLocked,
            JoinLocked, LocksAccounted, Joining, Serves, fleetVars, lockVars
<1>0. LockTypes /\ FleetTypes /\ CommandTypes
  BY DEF TypeOK
<1>1. ASSUME NEW m \in Targets, Serve(c, m) PROVE LockInv'
  BY <1>0, <1>1 DEF Serve, Free, Take, LockTypes, FleetTypes, CommandTypes
<1>2. ASSUME NEW m \in Targets, Mutate(c, m) PROVE LockInv'
  BY <1>0, <1>2 DEF Mutate, CommandTypes
<1>3. ASSUME ServeConnects(c) \/ ServeChecks(c) \/ ServeDrops(c) \/ ProbeHolder(c) \/ Reset(c)
      PROVE  LockInv'
  BY <1>0, <1>3
  DEF ServeConnects, ServeChecks, ServeDrops, ProbeHolder, Reset, Become, CommandTypes
<1>4. ASSUME Provision(c) \/ CommandEnds(c) PROVE LockInv'
  BY <1>0, <1>4 DEF Provision, CommandEnds, Leave, Idle, LockTypes, FleetTypes, CommandTypes
<1> QED BY <1>1, <1>2, <1>3, <1>4 DEF CommandStep

(* Every step keeps the locks' invariant. *)
LEMMA LockNext == TypeOK /\ LockInv /\ [Next]_vars => LockInv'
<1> SUFFICES ASSUME TypeOK, LockInv, [Next]_vars PROVE LockInv'
  OBVIOUS
<1>1. CASE Next
  BY <1>1, LockFleet, LockWorker, LockCommand DEF Next
<1>2. CASE UNCHANGED vars
  BY <1>2, LockKept DEF vars, lockVars
<1> QED BY <1>1, <1>2

(* The locks' invariant holds in every reachable state. *)
LEMMA LockHolds == Spec => []LockInv
<1>1. TypeOK /\ LockInv /\ [Next]_vars => LockInv'
  BY LockNext
<1> QED BY LockInit, <1>1, TypeHolds, PTL DEF Spec

(* A sandbox is served by the holder of its lock and by nobody else, whatever the
   fleet, the commands, the dials that fail and the processes that die. *)
THEOREM OneServerHolds == Spec => []OneServer
<1>1. LockInv => OneServer
  BY DEF LockInv, WorkersLocked, CommandsLocked, Serves, OneServer, ServersOf
<1> QED BY <1>1, LockHolds, PTL

(* While the console is up, each lock it holds has a worker or a join under way. *)
THEOREM NoStrandedLockHolds == Spec => []NoStrandedLock
<1>1. TypeOK /\ LockInv => NoStrandedLock
  BY NobodyAssumption
  DEF LockInv, LocksAccounted, StartLocked, NoStrandedLock, TypeOK, FleetTypes
<1> QED BY <1>1, LockHolds, TypeHolds, PTL

(***************************************************************************)
(* The cached secrets. A mistyped secret may stay pending after a dial     *)
(* that ended in a network error; CacheInv says why it is never committed: *)
(* while it is pending the cache is empty, so the question it answered is  *)
(* asked again before the next dial can end well.                          *)
(***************************************************************************)
DialStates == {"dialing", "asking", "backoff"}

\* The next of the questions chs goes to the operator.
Asking(w, chs) ==
  /\ ~w.refused /\ Len(w.answers) < Len(chs)
  /\ Cacheable(chs[Len(w.answers) + 1]) => w.cache.committed = NoSecret

\* A worker w in the state s, whose server asks chs.
Sound(w, s, chs) ==
  /\ w.cache.committed # Mistyped
  /\ w.cache.pending = Mistyped =>
       /\ w.cache.committed = NoSecret
       /\ s \in DialStates
       /\ \E i \in DOMAIN chs : Cacheable(chs[i])
       /\ w.refused \/ \E i \in DOMAIN chs : i > Len(w.answers) /\ Cacheable(chs[i])
  /\ s = "asking" => Asking(w, chs)

CacheInv == \A m \in Members : Sound(conn[m], sup[m], Challenges[m])

(* A new worker has cached nothing, so it is sound wherever nothing is asked. *)
LEMMA SoundNew ==
  ASSUME NEW ui, NEW s, s # "asking", NEW chs
  PROVE  Sound(NewWorker(ui), s, chs)
  BY DEF Sound, NewWorker, EmptyCache, NoSecret, Mistyped

(* A worker whose dial does not move stays sound in any state it may go to. *)
LEMMA SoundSame ==
  ASSUME NEW v, NEW w, NEW s, NEW t, NEW chs, Sound(v, s, chs),
         w.cache = v.cache, w.answers = v.answers, w.refused = v.refused,
         s \in DialStates => t \in DialStates,
         t = "asking" => s = "asking" \/ Asking(v, chs)
  PROVE  Sound(w, t, chs)
  BY DEF Sound, Asking, DialStates

(* Only the worker of m moves. *)
LEMMA SoundStep ==
  ASSUME CacheInv, NEW m \in Members,
         \A n \in Members \ {m} : conn'[n] = conn[n] /\ sup'[n] = sup[n],
         Sound(conn'[m], sup'[m], Challenges[m])
  PROVE  CacheInv'
  BY DEF CacheInv

(* The caches are empty at the start. *)
LEMMA CacheInit == Init => CacheInv
<1> SUFFICES ASSUME Init, NEW m \in Members PROVE Sound(conn[m], sup[m], Challenges[m])
  BY DEF CacheInv
<1>1. conn[m] = NewWorker(FALSE) /\ sup[m] = "off"
  BY DEF Init
<1> QED BY <1>1, SoundNew

(* The workers' variables are functions over the members. *)
LEMMA WorkerFunctions ==
  ASSUME TypeOK
  PROVE  /\ conn \in [Members -> Worker]
         /\ sup \in [Members -> {"off", "dialing", "asking", "checking", "parked", "serving", "backoff"}]
  BY DEF TypeOK, WorkerTypes

(* The start of the console, the joins, its end. *)
LEMMA CacheFleet ==
  ASSUME TypeOK, CacheInv, MainStep \/ JoinerStep \/ Quit \/ Exit
  PROVE  CacheInv'
<1>0. /\ conn \in [Members -> Worker]
      /\ sup \in [Members -> {"off", "dialing", "asking", "checking", "parked", "serving", "backoff"}]
  BY WorkerFunctions
<1>1. ASSUME NEW m \in Members, NEW ui, BeginDial(m, ui) PROVE CacheInv'
  <2>1. /\ \A n \in Members \ {m} : conn'[n] = conn[n] /\ sup'[n] = sup[n]
        /\ conn'[m] = NewWorker(ui) /\ sup'[m] = "dialing"
    BY <1>0, <1>1 DEF BeginDial
  <2>2. Sound(conn'[m], sup'[m], Challenges[m])
    BY <2>1, SoundNew
  <2> QED BY <2>1, <2>2, SoundStep
<1>2. ASSUME NEW ms, Stopped(ms) PROVE CacheInv'
  <2>1. SUFFICES ASSUME NEW m \in Members PROVE Sound(conn'[m], sup'[m], Challenges[m])
    BY DEF CacheInv
  <2>2. CASE m \in ms
    BY <1>2, <2>2, SoundNew DEF Stopped
  <2>3. CASE m \notin ms
    BY <1>2, <2>3 DEF Stopped, CacheInv
  <2> QED BY <2>2, <2>3
<1>3. ASSUME UNCHANGED <<sup, conn>> PROVE CacheInv'
  BY <1>3 DEF CacheInv
<1>4. CASE \E m \in Members : StartMember(m) \/ JoinStart(m)
  BY <1>1, <1>4 DEF StartMember, JoinStart
<1>5. CASE Cleanup \/ Exit
  BY <1>2, <1>5 DEF Cleanup, Exit
<1>6. CASE \/ GoLive \/ JoinTick \/ JoinStops \/ JoinRegister \/ JoinRest \/ Quit
           \/ \E m \in Members : MemberOwned(m) \/ JoinOwned(m)
  BY <1>3, <1>6
  DEF GoLive, JoinTick, JoinStops, JoinRegister, JoinRest, Quit, MemberOwned, JoinOwned
<1> QED BY <1>4, <1>5, <1>6 DEF MainStep, JoinerStep

(* The steps of a worker that leave its dial where it is. *)
LEMMA CacheIdle ==
  ASSUME TypeOK, CacheInv, NEW m \in Members,
         \/ Ask(m) \/ ForwardPassword(m) \/ ForwardApproval(m) \/ Check(m) \/ Unpark(m)
         \/ Redial(m) \/ AnswerApproval(m) \/ OperatorBootstrap(m) \/ RequestApproval(m)
         \/ LinkDrops(m) \/ Rotate(m)
  PROVE  CacheInv'
<1>0. /\ conn \in [Members -> Worker]
      /\ sup \in [Members -> {"off", "dialing", "asking", "checking", "parked", "serving", "backoff"}]
  BY WorkerFunctions
<1>1. SUFFICES
        /\ \A n \in Members \ {m} : conn'[n] = conn[n] /\ sup'[n] = sup[n]
        /\ /\ conn'[m].cache = conn[m].cache /\ conn'[m].answers = conn[m].answers
           /\ conn'[m].refused = conn[m].refused
        /\ sup[m] \in DialStates => sup'[m] \in DialStates
        /\ sup'[m] = "asking" => sup[m] = "asking" \/ Asking(conn[m], Challenges[m])
  <2>1. Sound(conn[m], sup[m], Challenges[m])
    BY DEF CacheInv
  <2> QED BY <2>1, SoundSame, SoundStep
<1>2. CASE Ask(m)
  BY <1>0, <1>2
  DEF Ask, Asked, Asking, Silent, HasCommit, Challenge, DialStates, Worker
<1>3. CASE Check(m) \/ Redial(m)
  BY <1>0, <1>3 DEF Check, Redial, DialStates
<1>4. CASE Unpark(m)
  BY <1>0, <1>4 DEF Unpark, DialStates, Worker
<1>5. CASE \/ ForwardPassword(m) \/ ForwardApproval(m) \/ AnswerApproval(m)
           \/ OperatorBootstrap(m) \/ RequestApproval(m) \/ LinkDrops(m) \/ Rotate(m)
  BY <1>0, <1>5
  DEF ForwardPassword, ForwardApproval, AnswerApproval, OperatorBootstrap, RequestApproval,
      LinkDrops, Rotate, Worker
<1> QED BY <1>2, <1>3, <1>4, <1>5

(* An answer of the cache, and one of the operator: a mistyped one is refused. *)
LEMMA CacheAnswer ==
  ASSUME TypeOK, CacheInv, NEW m \in Members,
         AnswerSilently(m) \/ TypeSecret(m) \/ Mistype(m)
  PROVE  CacheInv'
<1>0. /\ conn \in [Members -> Worker]
      /\ sup \in [Members -> {"off", "dialing", "asking", "checking", "parked", "serving", "backoff"}]
      /\ Sound(conn[m], sup[m], Challenges[m])
  BY WorkerFunctions DEF CacheInv
<1>1. Challenges[m] \in Seq(Kinds) /\ conn[m].answers \in Seq(Secrets)
  BY <1>0, ChallengesAssumption DEF Worker
<1>2. CASE AnswerSilently(m)
  <2>1. /\ conn[m].cache.committed # NoSecret
        /\ conn' = [conn EXCEPT ![m] = Answered(m, conn[m].cache.committed)]
        /\ sup[m] = "dialing" /\ UNCHANGED sup
    BY <1>2 DEF AnswerSilently, Silent, HasCommit
  <2>2. /\ \A n \in Members \ {m} : conn'[n] = conn[n] /\ sup'[n] = sup[n]
        /\ conn'[m].cache = conn[m].cache
    BY <1>0, <2>1 DEF Answered, Worker
  <2>3. Sound(conn'[m], sup'[m], Challenges[m])
    BY <1>0, <2>1, <2>2 DEF Sound
  <2> QED BY <2>2, <2>3, SoundStep
<1>3. ASSUME NEW secret, sup[m] = "asking", Reply(m, secret),
             secret = Mistyped =>
               ~Right(Challenge(m), secret, password[m], Seen(m))
      PROVE  CacheInv'
  <2>1. /\ \A n \in Members \ {m} : conn'[n] = conn[n] /\ sup'[n] = sup[n]
        /\ sup'[m] = "dialing"
        /\ conn'[m] = [Answered(m, secret) EXCEPT !.cache = Staged(@, Challenge(m), secret)]
    BY <1>0, <1>3 DEF Reply
  <2>2. /\ conn'[m].cache = Staged(conn[m].cache, Challenge(m), secret)
        /\ conn'[m].answers = Append(conn[m].answers, secret)
        /\ conn'[m].refused = ~Right(Challenge(m), secret, password[m], Seen(m))
    BY <1>0, <2>1 DEF Answered, Worker
  <2>3. /\ Len(conn'[m].answers) = Len(conn[m].answers) + 1
        /\ Asking(conn[m], Challenges[m])
    BY <1>0, <1>1, <1>3, <2>2 DEF Sound
  <2>4. \E i \in DOMAIN Challenges[m] : i = Len(conn[m].answers) + 1
    BY <1>1, <2>3 DEF Asking
  <2>5. Sound(conn'[m], "dialing", Challenges[m])
    <3>1. CASE Cacheable(Challenge(m))
      <4>1. /\ conn'[m].cache.committed = conn[m].cache.committed
            /\ conn'[m].cache.pending = secret
        BY <1>0, <2>2, <3>1 DEF Staged, Worker
      <4>2. conn[m].cache.committed = NoSecret
        BY <2>3, <3>1 DEF Asking, Challenge
      <4>3. secret = Mistyped => conn'[m].refused
        BY <1>3, <2>2
      <4>4. \E i \in DOMAIN Challenges[m] : Cacheable(Challenges[m][i])
        BY <2>4, <3>1 DEF Challenge
      <4> QED
        BY <4>1, <4>2, <4>3, <4>4 DEF Sound, DialStates, NoSecret, Mistyped
    <3>2. CASE ~Cacheable(Challenge(m))
      <4>1. conn'[m].cache = conn[m].cache
        BY <2>2, <3>2 DEF Staged
      <4>2. ASSUME NEW i \in DOMAIN Challenges[m], i > Len(conn[m].answers),
                   Cacheable(Challenges[m][i])
            PROVE  i > Len(conn'[m].answers)
        BY <1>1, <2>3, <3>2, <4>2 DEF Challenge
      <4>3. ~conn[m].refused
        BY <2>3 DEF Asking
      <4> QED BY <1>0, <4>1, <4>2, <4>3 DEF Sound, DialStates
    <3> QED BY <3>1, <3>2
  <2> QED BY <2>1, <2>5, SoundStep
<1>4. CASE TypeSecret(m)
  <2>1. PICK secret \in {Password(password[m]), Code(codes[m])} : Reply(m, secret)
    BY <1>4 DEF TypeSecret
  <2>2. secret # Mistyped
    BY DEF Password, Code, Mistyped
  <2> QED BY <1>3, <1>4, <2>1, <2>2 DEF TypeSecret
<1>5. CASE Mistype(m)
  <2>1. ~Right(Challenge(m), Mistyped, password[m], Seen(m))
    BY DEF Right, Mistyped, Password
  <2> QED BY <1>3, <1>5, <2>1 DEF Mistype
<1> QED BY <1>2, <1>4, <1>5

(* A dial that ends well has had every question answered, so nothing mistyped is
   pending; one that is rejected forgets; one that cannot be reached starts over. *)
LEMMA CacheDialEnds ==
  ASSUME TypeOK, CacheInv, NEW m \in Members,
         Opened(m) \/ Rejected(m) \/ Unreachable(m) \/ ServeEnds(m)
  PROVE  CacheInv'
<1>0. /\ conn \in [Members -> Worker]
      /\ sup \in [Members -> {"off", "dialing", "asking", "checking", "parked", "serving", "backoff"}]
      /\ Sound(conn[m], sup[m], Challenges[m])
  BY WorkerFunctions DEF CacheInv
<1>1. Challenges[m] \in Seq(Kinds) /\ conn[m].answers \in Seq(Secrets)
  BY <1>0, ChallengesAssumption DEF Worker
<1>2. ASSUME StartFails(m) PROVE CacheInv'
  <2>1. /\ \A n \in Members \ {m} : conn'[n] = conn[n] /\ sup'[n] = sup[n]
        /\ conn'[m] = NewWorker(FALSE) /\ sup'[m] = "off"
    BY <1>0, <1>2 DEF StartFails
  <2>2. Sound(conn'[m], sup'[m], Challenges[m])
    BY <2>1, SoundNew
  <2> QED BY <2>1, <2>2, SoundStep
<1>3. ASSUME NEW cache, Open(m, cache), cache.committed # Mistyped, cache.pending # Mistyped
      PROVE  CacheInv'
  <2>1. /\ \A n \in Members \ {m} : conn'[n] = conn[n] /\ sup'[n] = sup[n]
        /\ conn'[m].cache = cache /\ sup'[m] = "checking"
    BY <1>0, <1>3 DEF Open, Worker
  <2>2. Sound(conn'[m], sup'[m], Challenges[m])
    BY <1>3, <2>1 DEF Sound
  <2> QED BY <2>1, <2>2, SoundStep
<1>4. ASSUME NEW cache, BackOff(m, cache), cache.committed # Mistyped,
             cache.pending = Mistyped =>
               /\ cache.committed = NoSecret
               /\ \E i \in DOMAIN Challenges[m] : Cacheable(Challenges[m][i])
      PROVE  CacheInv'
  <2>1. /\ \A n \in Members \ {m} : conn'[n] = conn[n] /\ sup'[n] = sup[n]
        /\ conn'[m].cache = cache /\ conn'[m].answers = <<>> /\ sup'[m] = "backoff"
    BY <1>0, <1>4 DEF BackOff, Worker
  <2>2. \A i \in DOMAIN Challenges[m] : i > Len(conn'[m].answers)
    BY <1>1, <2>1
  <2>3. Sound(conn'[m], sup'[m], Challenges[m])
    BY <1>4, <2>1, <2>2 DEF Sound, DialStates
  <2> QED BY <2>1, <2>3, SoundStep
<1>5. ASSUME NEW cache, cache = conn[m].cache, cache.pending # Mistyped
      PROVE  Committed(cache).committed # Mistyped /\ Committed(cache).pending # Mistyped
  BY <1>0, <1>5 DEF Sound, Committed, NoSecret, Mistyped
<1>6. CASE Opened(m)
  <2>1. ~conn[m].refused /\ ~(Len(conn[m].answers) < Len(Challenges[m]))
    BY <1>6 DEF Opened, Asked
  <2>2. conn[m].cache.pending # Mistyped
    BY <1>0, <1>1, <2>1 DEF Sound
  <2>3. conn[m].cache.committed # Mistyped
    BY <1>0 DEF Sound
  <2> QED BY <1>3, <1>5, <1>6, <2>2, <2>3 DEF Opened
<1>7. CASE Rejected(m)
  <2>1. EmptyCache.committed # Mistyped /\ EmptyCache.pending # Mistyped
    BY DEF EmptyCache, NoSecret, Mistyped
  <2> QED BY <1>2, <1>4, <1>7, <2>1 DEF Rejected
<1>8. CASE Unreachable(m)
  BY <1>0, <1>2, <1>4, <1>8 DEF Unreachable, Sound
<1>9. CASE ServeEnds(m)
  <2>1. conn[m].cache.pending # Mistyped
    BY <1>0, <1>9 DEF ServeEnds, Sound, DialStates
  <2> QED BY <1>4, <1>5, <1>9, <2>1 DEF ServeEnds
<1> QED BY <1>6, <1>7, <1>8, <1>9

(* Every step keeps the caches' invariant. *)
LEMMA CacheNext == TypeOK /\ CacheInv /\ [Next]_vars => CacheInv'
<1> SUFFICES ASSUME TypeOK, CacheInv, [Next]_vars PROVE CacheInv'
  OBVIOUS
<1>1. ASSUME UNCHANGED <<sup, conn>> PROVE CacheInv'
  BY <1>1 DEF CacheInv
<1>2. CASE MainStep \/ JoinerStep \/ Quit \/ Exit
  BY <1>2, CacheFleet
<1>3. ASSUME NEW m \in Members,
             \/ WorkerStep(m) \/ OperatorStep(m) \/ OperatorBootstrap(m) \/ Mistype(m)
             \/ Unreachable(m) \/ RequestApproval(m) \/ LinkDrops(m) \/ Rotate(m)
      PROVE  CacheInv'
  BY <1>3, CacheIdle, CacheAnswer, CacheDialEnds DEF WorkerStep, OperatorStep
<1>4. ASSUME NEW c \in Commands,
             \/ CommandStep(c) \/ ServeDrops(c) \/ Reset(c) \/ CommandEnds(c)
             \/ \E m \in Targets : Serve(c, m) \/ Mutate(c, m)
      PROVE  CacheInv'
  BY <1>1, <1>4
  DEF CommandStep, ServeConnects, ServeChecks, ProbeHolder, Provision, ServeDrops, Reset,
      CommandEnds, Serve, Mutate
<1>5. CASE UNCHANGED vars
  BY <1>1, <1>5 DEF vars
<1> QED BY <1>2, <1>3, <1>4, <1>5 DEF Next

(* A password that has not authenticated is never sent again without asking, whatever
   the server asks and however dials fail. *)
THEOREM OnlyProvenReusedHolds == Spec => []OnlyProvenReused
<1>1. TypeOK /\ CacheInv /\ [Next]_vars => CacheInv'
  BY CacheNext
<1>2. CacheInv => OnlyProvenReused
  BY DEF CacheInv, Sound, OnlyProvenReused
<1> QED BY CacheInit, <1>1, <1>2, TypeHolds, PTL DEF Spec

(***************************************************************************)
(* The one-time codes. CodeInv says why none is sent twice: every code the *)
(* server has seen, or is being sent, was typed, and codes typed have      *)
(* numbers; the cache, which answers without the operator, holds none.     *)
(***************************************************************************)
\* Codes are asked for in forms; a single hidden question would be taken for a
\* password's and its code cached (auth.go:106-110).
CodesInForms == \A m \in Members : \A i \in DOMAIN Challenges[m] : Challenges[m][i] # "code"

NoCodeCached(cache) == cache.committed.kind # "code" /\ cache.pending.kind # "code"

Typed(secret, n) == secret.kind = "code" => secret.n < n

\* A worker's answers against those of the dials before, when n codes were typed.
Fresh(answers, seen, n) ==
  /\ \A s \in seen : Typed(s, n)
  /\ \A i \in DOMAIN answers :
       /\ Typed(answers[i], n)
       /\ answers[i].kind = "code" =>
            answers[i] \notin seen /\ \A j \in 1..(i - 1) : answers[j] # answers[i]

CodeInv ==
  \A m \in Members : NoCodeCached(conn[m].cache) /\ Fresh(conn[m].answers, spent[m], codes[m])

(* No code is cached at the start. *)
LEMMA CodeStart == Init => CodeInv
  BY DEF Init, CodeInv, NewWorker, EmptyCache, NoSecret, NoCodeCached, Fresh

(* Steps that answer nothing: a worker keeps its answers, or has new ones. *)
LEMMA CodeKept ==
  ASSUME CodeInv, UNCHANGED <<spent, codes>>,
         \A m \in Members :
           \/ conn'[m].cache = conn[m].cache /\ conn'[m].answers = conn[m].answers
           \/ \E ui \in BOOLEAN : conn'[m] = NewWorker(ui)
  PROVE  CodeInv'
<1> SUFFICES ASSUME NEW m \in Members
             PROVE  NoCodeCached(conn'[m].cache) /\ Fresh(conn'[m].answers, spent[m], codes[m])
  BY DEF CodeInv
<1>1. NoCodeCached(conn[m].cache) /\ Fresh(conn[m].answers, spent[m], codes[m])
  BY DEF CodeInv
<1>2. CASE conn'[m].cache = conn[m].cache /\ conn'[m].answers = conn[m].answers
  BY <1>1, <1>2
<1>3. ASSUME NEW ui \in BOOLEAN, conn'[m] = NewWorker(ui)
      PROVE  NoCodeCached(conn'[m].cache) /\ Fresh(conn'[m].answers, spent[m], codes[m])
  BY <1>1, <1>3 DEF NewWorker, EmptyCache, NoSecret, NoCodeCached, Fresh
<1> QED BY <1>2, <1>3

(* The console's own steps, and its end, keep codes out of the caches. *)
LEMMA CodeFleet ==
  ASSUME TypeOK, CodeInv, MainStep \/ JoinerStep \/ Quit \/ Exit
  PROVE  CodeInv'
<1>0. conn \in [Members -> Worker]
  BY WorkerFunctions
<1>1. UNCHANGED <<spent, codes>>
  BY DEF MainStep, JoinerStep, StartMember, MemberOwned, GoLive, Cleanup, JoinTick, JoinStops,
         JoinRegister, JoinRest, JoinOwned, JoinStart, Quit, Exit, serverVars
<1>2. ASSUME NEW m \in Members
      PROVE  conn'[m] = conn[m] \/ \E ui \in BOOLEAN : conn'[m] = NewWorker(ui)
  <2>1. CASE \E n \in Members : StartMember(n) \/ JoinStart(n)
    BY <1>0, <2>1 DEF StartMember, JoinStart, BeginDial
  <2>2. CASE Cleanup \/ Exit
    BY <2>2 DEF Cleanup, Exit, Stopped
  <2>3. CASE \/ GoLive \/ JoinTick \/ JoinStops \/ JoinRegister \/ JoinRest \/ Quit
             \/ \E n \in Members : MemberOwned(n) \/ JoinOwned(n)
    BY <2>3 DEF GoLive, JoinTick, JoinStops, JoinRegister, JoinRest, Quit, MemberOwned, JoinOwned
  <2> QED BY <2>1, <2>2, <2>3 DEF MainStep, JoinerStep
<1> QED BY <1>1, <1>2, CodeKept

(* The steps that answer nothing keep codes out of the caches. *)
LEMMA CodeIdle ==
  ASSUME TypeOK, CodeInv, NEW m \in Members,
         \/ Ask(m) \/ ForwardPassword(m) \/ ForwardApproval(m) \/ Check(m) \/ Unpark(m)
         \/ Redial(m) \/ AnswerApproval(m) \/ OperatorBootstrap(m) \/ RequestApproval(m)
         \/ LinkDrops(m) \/ Rotate(m)
  PROVE  CodeInv'
<1>0. conn \in [Members -> Worker]
  BY WorkerFunctions
<1>1. UNCHANGED <<spent, codes>>
  BY DEF Ask, ForwardPassword, ForwardApproval, Check, Unpark, Redial, AnswerApproval,
         OperatorBootstrap, RequestApproval, LinkDrops, Rotate, serverVars
<1>2. /\ \A n \in Members \ {m} : conn'[n] = conn[n]
      /\ conn'[m].cache = conn[m].cache /\ conn'[m].answers = conn[m].answers
  <2>1. CASE Ask(m)
    BY <1>0, <2>1 DEF Ask, Worker
  <2>2. CASE Check(m) \/ Redial(m) \/ Rotate(m)
    BY <2>2 DEF Check, Redial, Rotate
  <2>3. CASE Unpark(m)
    BY <1>0, <2>3 DEF Unpark, Worker
  <2>4. CASE \/ ForwardPassword(m) \/ ForwardApproval(m) \/ AnswerApproval(m)
             \/ OperatorBootstrap(m) \/ RequestApproval(m) \/ LinkDrops(m)
    BY <1>0, <2>4
    DEF ForwardPassword, ForwardApproval, AnswerApproval, OperatorBootstrap, RequestApproval,
        LinkDrops, Worker
  <2> QED BY <2>1, <2>2, <2>3, <2>4
<1>3. \A n \in Members : conn'[n].cache = conn[n].cache /\ conn'[n].answers = conn[n].answers
  BY <1>2
<1> QED BY <1>1, <1>3, CodeKept

(* Only the worker of m moves. *)
LEMMA CodeStep ==
  ASSUME CodeInv, NEW m \in Members,
         \A n \in Members \ {m} :
           conn'[n] = conn[n] /\ spent'[n] = spent[n] /\ codes'[n] = codes[n],
         NoCodeCached(conn'[m].cache), Fresh(conn'[m].answers, spent'[m], codes'[m])
  PROVE  CodeInv'
  BY DEF CodeInv

(* One more answer that is no code, or the code that was typed last.       *)
LEMMA FreshAppend ==
  ASSUME NEW answers \in Seq(Secrets), NEW seen, NEW n \in Nat, Fresh(answers, seen, n),
         \A s \in seen : s \in Secrets,
         NEW secret \in Secrets, NEW k \in {n, n + 1},
         secret.kind = "code" => secret = Code(n) /\ k = n + 1
  PROVE  Fresh(Append(answers, secret), seen, k)
<1> DEFINE more == Append(answers, secret)
<1>1. /\ DOMAIN more = 1..(Len(answers) + 1) /\ DOMAIN answers = 1..Len(answers)
      /\ more[Len(answers) + 1] = secret /\ Len(answers) \in Nat
      /\ \A i \in 1..Len(answers) : more[i] = answers[i]
  OBVIOUS
<1> HIDE DEF more
<1>2. \A s \in Secrets : Typed(s, n) => Typed(s, k)
  BY DEF Typed, Secrets
<1>3. ASSUME NEW i \in 1..Len(answers)
      PROVE  /\ Typed(more[i], k)
             /\ more[i].kind = "code" => more[i] \notin seen /\ \A j \in 1..(i - 1) : more[j] # more[i]
  <2>1. more[i] = answers[i] /\ answers[i] \in Secrets /\ \A j \in 1..(i - 1) : more[j] = answers[j]
    BY <1>1
  <2> QED BY <1>1, <1>2, <2>1 DEF Fresh
<1>4. ASSUME secret.kind = "code"
      PROVE  secret \notin seen /\ \A j \in 1..Len(answers) : more[j] # secret
  <2>1. secret = Code(n) /\ ~Typed(secret, n)
    BY <1>4 DEF Code, Typed
  <2> QED BY <1>1, <2>1 DEF Fresh
<1>5. Typed(secret, k)
  BY DEF Typed, Code
<1>6. \A s \in seen : Typed(s, k)
  BY <1>2 DEF Fresh
<1>7. ASSUME NEW i \in DOMAIN more
      PROVE  /\ Typed(more[i], k)
             /\ more[i].kind = "code" => more[i] \notin seen /\ \A j \in 1..(i - 1) : more[j] # more[i]
  <2>1. CASE i \in 1..Len(answers)
    BY <1>3, <2>1
  <2>2. CASE i = Len(answers) + 1
    BY <1>1, <1>4, <1>5, <2>2
  <2> QED BY <1>1, <2>1, <2>2
<1> QED BY <1>6, <1>7 DEF Fresh, more

(* The cache answers with a password; the operator types a code only in a  *)
(* form, which the cache does not see.                                     *)
LEMMA CodeAnswer ==
  ASSUME TypeOK, CacheInv, CodeInv, CodesInForms, NEW m \in Members,
         AnswerSilently(m) \/ TypeSecret(m) \/ Mistype(m)
  PROVE  CodeInv'
<1>0. /\ conn \in [Members -> Worker] /\ conn[m].answers \in Seq(Secrets)
      /\ conn[m].cache.committed \in Secrets /\ conn[m].cache.pending \in Secrets
      /\ password[m] \in Nat /\ codes[m] \in Nat /\ spent[m] \subseteq Secrets
      /\ codes \in [Members -> Nat]
  BY WorkerFunctions DEF Worker, TypeOK, ServerTypes
<1>1. NoCodeCached(conn[m].cache) /\ Fresh(conn[m].answers, spent[m], codes[m])
  BY DEF CodeInv
<1>2. CASE AnswerSilently(m)
  <2>1. /\ conn' = [conn EXCEPT ![m] = Answered(m, conn[m].cache.committed)]
        /\ UNCHANGED <<spent, codes>>
    BY <1>2 DEF AnswerSilently, serverVars
  <2>2. /\ \A n \in Members \ {m} : conn'[n] = conn[n]
        /\ conn'[m].cache = conn[m].cache
        /\ conn'[m].answers = Append(conn[m].answers, conn[m].cache.committed)
    BY <1>0, <2>1 DEF Answered, Worker
  <2>3. Fresh(conn'[m].answers, spent[m], codes[m])
    BY <1>0, <1>1, <2>2, FreshAppend DEF NoCodeCached
  <2> QED BY <1>1, <2>1, <2>2, <2>3, CodeStep
<1>3. ASSUME NEW secret \in Secrets, Reply(m, secret)
      PROVE  /\ \A n \in Members \ {m} : conn'[n] = conn[n]
             /\ conn'[m].cache = Staged(conn[m].cache, Challenge(m), secret)
             /\ conn'[m].answers = Append(conn[m].answers, secret)
  BY <1>0, <1>3 DEF Reply, Answered, Worker
<1>4. ASSUME NEW secret \in Secrets, secret.kind # "code", Reply(m, secret), UNCHANGED <<spent, codes>>
      PROVE  CodeInv'
  <2>1. NoCodeCached(conn'[m].cache)
    BY <1>0, <1>1, <1>3, <1>4, ZenonT(30) DEF NoCodeCached, Staged, Worker
  <2>2. Fresh(conn'[m].answers, spent[m], codes[m])
    BY <1>0, <1>1, <1>3, <1>4, FreshAppend
  <2> QED BY <1>3, <1>4, <2>1, <2>2, CodeStep
<1>5. CASE Mistype(m)
  BY <1>4, <1>5, SecretTypes DEF Mistype, Mistyped, serverVars
<1>6. CASE TypeSecret(m)
  <2>1. CASE Challenge(m) = "password"
    <3>1. Password(password[m]) \in Secrets /\ Password(password[m]).kind # "code"
      BY <1>0, SecretTypes DEF Password
    <3> QED BY <1>4, <1>6, <2>1, <3>1 DEF TypeSecret
  <2>2. CASE Challenge(m) # "password"
    <3>1. /\ Code(codes[m]) \in Secrets /\ Reply(m, Code(codes[m]))
          /\ codes' = [codes EXCEPT ![m] = @ + 1] /\ spent' = spent /\ sup[m] = "asking"
      BY <1>0, <1>6, <2>2, SecretTypes DEF TypeSecret
    <3>2. Asking(conn[m], Challenges[m])
      BY <3>1 DEF CacheInv, Sound
    <3>3. Len(conn[m].answers) + 1 \in DOMAIN Challenges[m]
      BY <1>0, <3>2, ChallengesAssumption DEF Asking
    <3>4. ~Cacheable(Challenge(m))
      BY <2>2, <3>3 DEF CodesInForms, Challenge, Cacheable
    <3>5. NoCodeCached(conn'[m].cache)
      BY <1>1, <1>3, <3>1, <3>4 DEF Staged
    <3>6. codes'[m] = codes[m] + 1
      BY <1>0, <3>1
    <3>7. Fresh(conn'[m].answers, spent[m], codes[m] + 1)
      BY <1>0, <1>1, <1>3, <3>1, FreshAppend
    <3> QED BY <1>0, <1>3, <3>1, <3>5, <3>6, <3>7, CodeStep
  <2> QED BY <2>1, <2>2
<1> QED BY <1>2, <1>5, <1>6

(* A dial that is over is remembered by the server; the next one starts    *)
(* with no answer.                                                         *)
LEMMA CodeDialEnds ==
  ASSUME TypeOK, CodeInv, NEW m \in Members,
         Opened(m) \/ Rejected(m) \/ Unreachable(m) \/ ServeEnds(m)
  PROVE  CodeInv'
<1>0. /\ conn \in [Members -> Worker] /\ conn[m].answers \in Seq(Secrets)
      /\ spent \in [Members -> SUBSET Secrets]
  BY WorkerFunctions DEF Worker, TypeOK, ServerTypes
<1>1. NoCodeCached(conn[m].cache) /\ Fresh(conn[m].answers, spent[m], codes[m])
  BY DEF CodeInv
<1>2. NoCodeCached(Committed(conn[m].cache)) /\ NoCodeCached(EmptyCache)
  BY <1>1 DEF NoCodeCached, Committed, EmptyCache, NoSecret
<1>3. codes' = codes
  BY DEF Opened, Rejected, Unreachable, ServeEnds, serverVars
<1>4. \A n \in Members \ {m} : spent'[n] = spent[n]
  BY <1>0 DEF Opened, Rejected, Unreachable, ServeEnds, Sent, serverVars
<1>5. \A s \in spent'[m] : Typed(s, codes[m])
  <2>1. \A s \in Seen(m) : Typed(s, codes[m])
    BY <1>1 DEF Seen, CodesIn, Fresh
  <2>2. spent'[m] = Seen(m) \/ spent'[m] = spent[m]
    BY <1>0 DEF Opened, Rejected, Unreachable, ServeEnds, Sent, serverVars
  <2> QED BY <1>1, <2>1, <2>2 DEF Fresh
<1>6. Fresh(<<>>, spent'[m], codes'[m])
  BY <1>3, <1>5 DEF Fresh
<1>7. ASSUME NEW cache, NoCodeCached(cache), Open(m, cache) \/ BackOff(m, cache) PROVE CodeInv'
  <2>1. /\ \A n \in Members \ {m} : conn'[n] = conn[n]
        /\ conn'[m].cache = cache /\ conn'[m].answers = <<>>
    BY <1>0, <1>7 DEF Open, BackOff, Worker
  <2> QED BY <1>3, <1>4, <1>6, <1>7, <2>1, CodeStep
<1>8. ASSUME StartFails(m) PROVE CodeInv'
  <2>1. (\A n \in Members \ {m} : conn'[n] = conn[n]) /\ conn'[m] = NewWorker(FALSE)
    BY <1>0, <1>8 DEF StartFails
  <2>2. conn'[m].cache = EmptyCache /\ conn'[m].answers = <<>>
    BY <2>1 DEF NewWorker
  <2> QED BY <1>2, <1>3, <1>4, <1>6, <2>1, <2>2, CodeStep
<1>9. CASE Opened(m)
  BY <1>1, <1>2, <1>7, <1>9 DEF Opened
<1>10. CASE Rejected(m) \/ Unreachable(m)
  BY <1>1, <1>2, <1>7, <1>8, <1>10 DEF Rejected, Unreachable
<1>11. CASE ServeEnds(m)
  BY <1>2, <1>7, <1>11 DEF ServeEnds
<1> QED BY <1>9, <1>10, <1>11

(* Every step keeps codes out of the caches, if a code is never the only hidden question
   of its form. *)
LEMMA CodeNext ==
  ASSUME CodesInForms, TypeOK, CacheInv, CodeInv, [Next]_vars PROVE CodeInv'
<1>1. ASSUME UNCHANGED <<conn, spent, codes>> PROVE CodeInv'
  BY <1>1 DEF CodeInv
<1>2. CASE MainStep \/ JoinerStep \/ Quit \/ Exit
  BY <1>2, CodeFleet
<1>3. ASSUME NEW m \in Members,
             \/ WorkerStep(m) \/ OperatorStep(m) \/ OperatorBootstrap(m) \/ Mistype(m)
             \/ Unreachable(m) \/ RequestApproval(m) \/ LinkDrops(m) \/ Rotate(m)
      PROVE  CodeInv'
  BY <1>3, CodeIdle, CodeAnswer, CodeDialEnds DEF WorkerStep, OperatorStep
<1>4. ASSUME NEW c \in Commands,
             \/ CommandStep(c) \/ ServeDrops(c) \/ Reset(c) \/ CommandEnds(c)
             \/ \E m \in Targets : Serve(c, m) \/ Mutate(c, m)
      PROVE  CodeInv'
  BY <1>1, <1>4
  DEF CommandStep, ServeConnects, ServeChecks, ProbeHolder, Provision, ServeDrops, Reset,
      CommandEnds, Serve, Mutate, serverVars
<1>5. CASE UNCHANGED vars
  BY <1>1, <1>5 DEF vars, serverVars
<1> QED BY <1>2, <1>3, <1>4, <1>5 DEF Next

(* A one-time code that is asked for in a form goes to the server once, over any number
   of dials, workers and joins: what answers a reconnect without the operator holds none. *)
THEOREM CodeNotReplayedHolds ==
  ASSUME CodesInForms PROVE Spec => []CodeNotReplayed
<1>1. TypeOK /\ CacheInv /\ CodeInv /\ [Next]_vars => CodeInv'
  BY CodeNext
<1>2. TypeOK /\ CacheInv /\ [Next]_vars => CacheInv'
  BY CacheNext
<1>3. CodeInv => CodeNotReplayed
  BY DEF CodeInv, Fresh, CodeNotReplayed
<1> QED BY CacheInit, CodeStart, <1>1, <1>2, <1>3, TypeHolds, PTL DEF Spec

=============================================================================
