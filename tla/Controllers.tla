---------------------------- MODULE Controllers ----------------------------
(***************************************************************************)
(* The processes on the operator's machine that share sandboxes: one fleet *)
(* console (src/internal/cli/fleetconsole.go) with a reconnecting worker   *)
(* per member (worker.go, supervise.go), and command-line processes that   *)
(* serve a sandbox (serve.go) or change it once (bootstrap.go), under the  *)
(* two flocks of each sandbox (lock.go).                                   *)
(*                                                                         *)
(* A worker's secrets and prompts are followed from the SSH challenge over *)
(* the worker's event channel to the console's queue of modals and back.   *)
(*                                                                         *)
(* Left out: what a served request does (Dispatch), the lengths of the     *)
(* backoff, the text in the lock files, and the host-key question.         *)
(***************************************************************************)
EXTENDS Credentials, FiniteSets

CONSTANTS
  Members,       \* the sandboxes of the fleet
  Commands,      \* command-line processes
  Console,       \* the process of the fleet console
  Nobody,
  Targets,       \* the members the command lines name
  Challenges,    \* what each member's server asks in a dial: a sequence of Kinds
  Provisioned,   \* the members bootstrapped at the start
  Flaky,         \* the states of a worker in which its member's link may drop
  MaxDrops,      \* bounds: dropped links,
  MaxMistakes,   \*   mistyped or cancelled prompts,
  MaxRotations,  \*   changes of a password on the server,
  MaxGates,      \*   operations that ask for approval,
  MaxCommands    \*   command lines started

ASSUME NobodyAssumption ==
  /\ Nobody \notin Members
  /\ Nobody \notin Commands
  /\ Nobody # Console
ASSUME ConsoleAssumption == Console \notin Commands
ASSUME MembersAssumption == Provisioned \subseteq Members /\ Targets \subseteq Members
ASSUME ChallengesAssumption == Challenges \in [Members -> Seq(Kinds)]

VARIABLES
  serveLock,  \* who holds serve.lock of a sandbox
  opsLock,    \* who holds ops.lock
  probing,    \* the commands whose shared probe of serve.lock is in place
  boot,       \* the sandbox is provisioned: skill/NANA.md is there
  phase,      \* the console: "starting" its members, "live", "quitting",
              \*   "stopped" after its cleanup, "exited"
  todo,       \* the members the console has still to start
  starting,   \* the member it is dialing now
  locked,     \* the members another process owns, to be joined later
  failed,     \* the members that could not be dialed at the start
  workers,    \* the members with a registered worker
  locks,      \* the members whose lock the console will release
  drained,    \* the members whose events reach the program
  joiner,     \* the goroutine that joins members live
  sup,        \* the state of a member's worker
  conn,       \* its session, dial and prompts
  pwReqs,     \* the console's queue of password modals
  modals,     \* the console's queue of approval modals
  password,   \* the number of the password the server accepts
  codes,      \* how many one-time codes were typed
  spent,      \* the codes earlier dials sent
  cli,        \* the command-line processes
  used        \* how much of each bound is used

lockVars == <<serveLock, opsLock, probing>>
fleetVars == <<phase, todo, starting, locked, failed, workers, locks, drained>>
promptVars == <<pwReqs, modals>>
serverVars == <<boot, password, codes, spent>>
vars == <<lockVars, fleetVars, joiner, sup, conn, promptVars, serverVars, cli, used>>

Idle == [pc |-> "idle", member |-> Nobody]

\* A worker before its first dial. ui says where its prompts go.
NewWorker(ui) ==
  [alive |-> FALSE, answers |-> <<>>, refused |-> FALSE, cache |-> EmptyCache, ui |-> ui,
   asked |-> "no", gate |-> "no", nudge |-> FALSE]

Init ==
  /\ serveLock = [m \in Members |-> Nobody]
  /\ opsLock = [m \in Members |-> Nobody]
  /\ probing = [m \in Members |-> {}]
  /\ boot = [m \in Members |-> m \in Provisioned]
  /\ phase = "starting"
  /\ todo = Members
  /\ starting = Nobody
  /\ locked = {} /\ failed = {}
  /\ workers = {} /\ locks = {} /\ drained = {}
  /\ joiner = [pc |-> "off", pending |-> {}, member |-> Nobody]
  /\ sup = [m \in Members |-> "off"]
  /\ conn = [m \in Members |-> NewWorker(FALSE)]
  /\ pwReqs = <<>> /\ modals = <<>>
  /\ password = [m \in Members |-> 0]
  /\ codes = [m \in Members |-> 0]
  /\ spent = [m \in Members |-> {}]
  /\ cli = [c \in Commands |-> Idle]
  /\ used = [drops |-> 0, mistakes |-> 0, rotations |-> 0, gates |-> 0, commands |-> 0]

Use(what) == used' = [used EXCEPT ![what] = @ + 1]

\* The link of m drops while its worker, or a command, is in the state st.
DropOf(m, st) == st \in Flaky[m] /\ used.drops < MaxDrops /\ Use("drops")

(***************************************************************************)
(* The locks. An exclusive flock is refused while anybody holds the file,  *)
(* a shared probe while somebody holds it exclusively.                     *)
(***************************************************************************)
(* Mutants: the lock is taken shared, as the probe does; an error path keeps it. *)
FreeShared(m) == TRUE
DropKept(m) == UNCHANGED serveLock

Free(m) == serveLock[m] = Nobody /\ probing[m] = {}

Take(m, who) == serveLock' = [serveLock EXCEPT ![m] = who]

Drop(m) == serveLock' = [serveLock EXCEPT ![m] = Nobody]

BeginDial(m, ui) ==
  /\ sup' = [sup EXCEPT ![m] = "dialing"]
  /\ conn' = [conn EXCEPT ![m] = NewWorker(ui)]

(***************************************************************************)
(* The console's start: one member after the other, on the terminal.       *)
(***************************************************************************)
StartMember(m) ==
  /\ phase = "starting" /\ starting = Nobody
  /\ m \in todo
  /\ Free(m)
  /\ Take(m, Console)
  /\ starting' = m
  /\ BeginDial(m, FALSE)
  /\ UNCHANGED <<opsLock, probing, phase, todo, locked, failed, workers, locks, drained,
                 joiner, promptVars, serverVars, cli, used>>

MemberOwned(m) ==
  /\ phase = "starting" /\ starting = Nobody
  /\ m \in todo
  /\ ~Free(m)
  /\ locked' = locked \cup {m}
  /\ todo' = todo \ {m}
  /\ UNCHANGED <<lockVars, phase, starting, failed, workers, locks, drained,
                 joiner, sup, conn, promptVars, serverVars, cli, used>>

\* The program comes up with what was started; without a member it returns.
GoLive ==
  /\ phase = "starting" /\ todo = {}
  /\ phase' = IF workers = {} /\ locked = {} THEN "exited" ELSE "live"
  /\ drained' = workers
  /\ joiner' = [joiner EXCEPT !.pc = IF locked = {} THEN "off" ELSE "waiting"]
  /\ UNCHANGED <<lockVars, todo, starting, locked, failed, workers, locks,
                 sup, conn, promptVars, serverVars, cli, used>>

(***************************************************************************)
(* The goroutine that joins members whose owner has gone.                  *)
(***************************************************************************)
JoinTick ==
  /\ joiner.pc = "waiting" /\ phase = "live"
  /\ locked # {}
  /\ joiner' = [joiner EXCEPT !.pc = "trying", !.pending = locked]
  /\ UNCHANGED <<lockVars, fleetVars, sup, conn, promptVars, serverVars, cli, used>>

JoinStops ==
  /\ joiner.pc = "waiting" /\ phase \in {"quitting", "stopped"}
  /\ joiner' = [joiner EXCEPT !.pc = "off"]
  /\ UNCHANGED <<lockVars, fleetVars, sup, conn, promptVars, serverVars, cli, used>>

JoinOwned(m) ==
  /\ joiner.pc = "trying" /\ m \in joiner.pending
  /\ ~Free(m)
  /\ joiner' = [joiner EXCEPT !.pending = @ \ {m}]
  /\ UNCHANGED <<lockVars, fleetVars, sup, conn, promptVars, serverVars, cli, used>>

\* It starts the worker itself and waits for the dial, prompts included.
JoinStart(m) ==
  /\ joiner.pc = "trying" /\ m \in joiner.pending
  /\ Free(m)
  /\ Take(m, Console)
  /\ joiner' = [joiner EXCEPT !.pc = "dialing", !.member = m]
  /\ BeginDial(m, TRUE)
  /\ UNCHANGED <<opsLock, probing, fleetVars, promptVars, serverVars, cli, used>>

\* Only a registered worker's events are forwarded to the program.
JoinRegister ==
  /\ joiner.pc = "registering"
  /\ workers' = workers \cup {joiner.member}
  /\ locks' = locks \cup {joiner.member}
  /\ drained' = drained \cup {joiner.member}
  /\ locked' = locked \ {joiner.member}
  /\ joiner' = [pc |-> "trying", pending |-> joiner.pending \ {joiner.member}, member |-> Nobody]
  /\ UNCHANGED <<lockVars, phase, todo, starting, failed, sup, conn, promptVars, serverVars, cli, used>>

(* Mutant: one pass over the locked members is all. *)
JoinRestReturns ==
  /\ joiner.pc = "trying" /\ joiner.pending = {}
  /\ joiner' = [joiner EXCEPT !.pc = "off"]
  /\ UNCHANGED <<lockVars, fleetVars, sup, conn, promptVars, serverVars, cli, used>>

JoinRest ==
  /\ joiner.pc = "trying" /\ joiner.pending = {}
  /\ joiner' = [joiner EXCEPT !.pc = "waiting"]
  /\ UNCHANGED <<lockVars, fleetVars, sup, conn, promptVars, serverVars, cli, used>>

(***************************************************************************)
(* A dial: challenges answered by the cache or by the operator.            *)
(***************************************************************************)
FirstDial(m) == starting = m \/ (joiner.pc = "dialing" /\ joiner.member = m)

\* The server asks on while the answers are right.
Asked(m) == ~conn[m].refused /\ Len(conn[m].answers) < Len(Challenges[m])
Challenge(m) == Challenges[m][Len(conn[m].answers) + 1]

CodesIn(answers) == {answers[i] : i \in {j \in DOMAIN answers : answers[j].kind = "code"}}

Seen(m) == spent[m] \cup CodesIn(conn[m].answers)

Answered(m, secret) ==
  [conn[m] EXCEPT !.answers = Append(@, secret),
                  !.refused = ~Right(Challenge(m), secret, password[m], Seen(m)),
                  !.asked = "no"]

AnswerSilently(m) ==
  /\ sup[m] = "dialing" /\ Asked(m)
  /\ Silent(conn[m].cache, Challenge(m))
  /\ conn' = [conn EXCEPT ![m] = Answered(m, @.cache.committed)]
  /\ UNCHANGED <<lockVars, fleetVars, joiner, sup, promptVars, serverVars, cli, used>>

\* The prompt goes to the terminal or into the worker's event channel.
Ask(m) ==
  /\ sup[m] = "dialing" /\ Asked(m)
  /\ ~Silent(conn[m].cache, Challenge(m))
  /\ sup' = [sup EXCEPT ![m] = "asking"]
  /\ conn' = [conn EXCEPT ![m].asked = IF conn[m].ui THEN "queued" ELSE "tty"]
  /\ UNCHANGED <<lockVars, fleetVars, joiner, promptVars, serverVars, cli, used>>

\* The drain goroutine moves a request from the channel to the console's queue.
ForwardPassword(m) ==
  /\ phase = "live" /\ m \in drained
  /\ conn[m].asked = "queued"
  /\ conn' = [conn EXCEPT ![m].asked = "modal"]
  /\ pwReqs' = Append(pwReqs, m)
  /\ UNCHANGED <<lockVars, fleetVars, joiner, sup, modals, serverVars, cli, used>>

ForwardApproval(m) ==
  /\ phase = "live" /\ m \in drained
  /\ conn[m].gate = "queued"
  /\ conn' = [conn EXCEPT ![m].gate = "modal"]
  /\ modals' = Append(modals, m)
  /\ UNCHANGED <<lockVars, fleetVars, joiner, sup, pwReqs, serverVars, cli, used>>

\* The operator sees the prompt: on the terminal, or as the first modal.
Shown(m) ==
  \/ conn[m].asked = "tty"
  \/ phase = "live" /\ pwReqs # <<>> /\ Head(pwReqs) = m

Reply(m, secret) ==
  /\ conn' = [conn EXCEPT ![m] = [Answered(m, secret) EXCEPT
                                    !.cache = Staged(@, Challenge(m), secret)]]
  /\ sup' = [sup EXCEPT ![m] = "dialing"]
  /\ pwReqs' = IF conn[m].asked = "tty" THEN pwReqs ELSE Tail(pwReqs)

TypeSecret(m) ==
  /\ sup[m] = "asking" /\ Shown(m)
  /\ IF Challenge(m) = "password"
     THEN Reply(m, Password(password[m])) /\ UNCHANGED codes
     ELSE Reply(m, Code(codes[m])) /\ codes' = [codes EXCEPT ![m] = @ + 1]
  /\ UNCHANGED <<lockVars, fleetVars, joiner, modals, boot, password, spent, cli, used>>

Mistype(m) ==
  /\ sup[m] = "asking" /\ Shown(m)
  /\ used.mistakes < MaxMistakes
  /\ Use("mistakes")
  /\ Reply(m, Mistyped)
  /\ UNCHANGED <<lockVars, fleetVars, joiner, modals, serverVars, cli>>

Sent(m) == spent' = [spent EXCEPT ![m] = Seen(m)]

(***************************************************************************)
(* How a dial ends. The first one is startSandboxWorker's: it commits the  *)
(* secret and starts the supervisor, or gives the lock back. Later ones    *)
(* are the supervisor's, which forgets a rejected secret.                  *)
(***************************************************************************)
StartEnds(m) ==
  IF starting = m
  THEN /\ starting' = Nobody /\ todo' = todo \ {m}
       /\ UNCHANGED <<phase, locked, drained>>
  ELSE UNCHANGED <<phase, todo, starting, locked, drained>>

StartSucceeds(m) ==
  /\ StartEnds(m)
  /\ UNCHANGED <<serveLock, failed>>
  /\ IF starting = m
     THEN workers' = workers \cup {m} /\ locks' = locks \cup {m} /\ UNCHANGED joiner
     ELSE joiner' = [joiner EXCEPT !.pc = "registering"] /\ UNCHANGED <<workers, locks>>

StartFails(m) ==
  /\ StartEnds(m)
  /\ Drop(m)
  /\ UNCHANGED <<workers, locks>>
  /\ sup' = [sup EXCEPT ![m] = "off"]
  /\ conn' = [conn EXCEPT ![m] = NewWorker(FALSE)]
  /\ IF starting = m
     THEN failed' = failed \cup {m} /\ UNCHANGED joiner
     ELSE /\ joiner' = [pc |-> "trying", pending |-> joiner.pending \ {m}, member |-> Nobody]
          /\ UNCHANGED failed

(* Mutant: the worker goes on to a state its supervisor does not know. *)
OpenConnected(m, cache) ==
  /\ sup' = [sup EXCEPT ![m] = "connected"]
  /\ conn' = [conn EXCEPT ![m].alive = TRUE, ![m].answers = <<>>, ![m].ui = TRUE,
                          ![m].cache = cache]

Open(m, cache) ==
  /\ sup' = [sup EXCEPT ![m] = "checking"]
  /\ conn' = [conn EXCEPT ![m].alive = TRUE, ![m].answers = <<>>, ![m].ui = TRUE,
                          ![m].cache = cache]

Opened(m) ==
  /\ sup[m] = "dialing" /\ ~Asked(m) /\ ~conn[m].refused
  /\ IF FirstDial(m)
     THEN StartSucceeds(m) /\ Open(m, Committed(conn[m].cache))
     ELSE Open(m, conn[m].cache) /\ UNCHANGED <<serveLock, fleetVars, joiner>>
  /\ Sent(m)
  /\ UNCHANGED <<opsLock, probing, promptVars, boot, password, codes, cli, used>>

BackOff(m, cache) ==
  /\ sup' = [sup EXCEPT ![m] = "backoff"]
  /\ conn' = [conn EXCEPT ![m].alive = FALSE, ![m].answers = <<>>, ![m].refused = FALSE,
                          ![m].cache = cache]

Rejected(m) ==
  /\ sup[m] = "dialing" /\ conn[m].refused
  /\ IF FirstDial(m)
     THEN StartFails(m)
     ELSE BackOff(m, EmptyCache) /\ UNCHANGED <<serveLock, fleetVars, joiner>>
  /\ Sent(m)
  /\ UNCHANGED <<opsLock, probing, promptVars, boot, password, codes, cli, used>>

\* The network fails during the dial: the cached secret is kept.
Unreachable(m) ==
  /\ sup[m] = "dialing"
  /\ DropOf(m, "dialing")
  /\ IF FirstDial(m)
     THEN StartFails(m)
     ELSE BackOff(m, conn[m].cache) /\ UNCHANGED <<serveLock, fleetVars, joiner>>
  /\ Sent(m)
  /\ UNCHANGED <<opsLock, probing, promptVars, boot, password, codes, cli>>

(***************************************************************************)
(* A worker's cycle: check, wait for a bootstrap, serve, reconnect.        *)
(***************************************************************************)
isBootstrapped(m) == boot[m] /\ conn[m].alive

Check(m) ==
  /\ sup[m] = "checking"
  /\ sup' = [sup EXCEPT ![m] = IF isBootstrapped(m) THEN "serving" ELSE "parked"]
  /\ UNCHANGED <<lockVars, fleetVars, joiner, conn, promptVars, serverVars, cli, used>>

\* awaitBootstrapped: only a nudge, or the end of the console, wakes it.
Unpark(m) ==
  /\ sup[m] = "parked" /\ conn[m].nudge
  /\ sup' = [sup EXCEPT ![m] = "checking"]
  /\ conn' = [conn EXCEPT ![m].nudge = FALSE]
  /\ UNCHANGED <<lockVars, fleetVars, joiner, promptVars, serverVars, cli, used>>

\* An operation needs approval; its handler waits for the modal's answer.
RequestApproval(m) ==
  /\ sup[m] = "serving" /\ conn[m].alive /\ conn[m].gate = "no"
  /\ used.gates < MaxGates
  /\ Use("gates")
  /\ conn' = [conn EXCEPT ![m].gate = "queued"]
  /\ UNCHANGED <<lockVars, fleetVars, joiner, sup, promptVars, serverVars, cli>>

\* A password modal has the keyboard before an approval.
AnswerApproval(m) ==
  /\ phase = "live" /\ pwReqs = <<>>
  /\ modals # <<>> /\ Head(modals) = m
  /\ modals' = Tail(modals)
  /\ conn' = [conn EXCEPT ![m].gate = "no"]
  /\ UNCHANGED <<lockVars, fleetVars, joiner, sup, pwReqs, serverVars, cli, used>>

\* Serve returns once its handlers are back; the supervisor commits the secret.
ServeEnds(m) ==
  /\ sup[m] = "serving" /\ conn[m].gate = "no"
  /\ ~isBootstrapped(m)
  /\ BackOff(m, Committed(conn[m].cache))
  /\ UNCHANGED <<lockVars, fleetVars, joiner, promptVars, serverVars, cli, used>>

(* Mutant: the supervisor returns when its cycle ended in an error. *)
RedialReturns(m) ==
  /\ sup[m] = "backoff"
  /\ sup' = [sup EXCEPT ![m] = "off"]
  /\ UNCHANGED <<lockVars, fleetVars, joiner, conn, promptVars, serverVars, cli, used>>

Redial(m) ==
  /\ sup[m] = "backoff"
  /\ sup' = [sup EXCEPT ![m] = "dialing"]
  /\ UNCHANGED <<lockVars, fleetVars, joiner, conn, promptVars, serverVars, cli, used>>

LinkDrops(m) ==
  /\ conn[m].alive
  /\ DropOf(m, sup[m])
  /\ conn' = [conn EXCEPT ![m].alive = FALSE]
  /\ UNCHANGED <<lockVars, fleetVars, joiner, sup, promptVars, serverVars, cli>>

\* The operator's bootstrap in the console: it works on the current session.
OperatorBootstrap(m) ==
  /\ phase = "live" /\ m \in workers
  /\ conn[m].alive
  /\ boot' = [boot EXCEPT ![m] = TRUE]
  /\ conn' = [conn EXCEPT ![m].nudge = TRUE]
  /\ UNCHANGED <<lockVars, fleetVars, joiner, sup, promptVars, password, codes, spent, cli, used>>

Rotate(m) ==
  /\ \E i \in DOMAIN Challenges[m] : Challenges[m][i] = "password"
  /\ used.rotations < MaxRotations
  /\ Use("rotations")
  /\ password' = [password EXCEPT ![m] = @ + 1]
  /\ UNCHANGED <<lockVars, fleetVars, joiner, sup, conn, promptVars, boot, codes, spent, cli>>

(***************************************************************************)
(* The console's end: it stops the registered workers and releases their   *)
(* locks; the exit of the process, or its death at any time, frees the     *)
(* rest.                                                                   *)
(***************************************************************************)
Quit ==
  /\ phase = "live"
  /\ phase' = "quitting"
  /\ UNCHANGED <<lockVars, todo, starting, locked, failed, workers, locks, drained,
                 joiner, sup, conn, promptVars, serverVars, cli, used>>

Stopped(ms) ==
  /\ sup' = [m \in Members |-> IF m \in ms THEN "off" ELSE sup[m]]
  /\ conn' = [m \in Members |-> IF m \in ms THEN NewWorker(FALSE) ELSE conn[m]]
  /\ pwReqs' = <<>> /\ modals' = <<>>

Released(ms) ==
  serveLock' = [m \in Members |-> IF m \in ms THEN Nobody ELSE serveLock[m]]

Cleanup ==
  /\ phase = "quitting"
  /\ phase' = "stopped"
  /\ Stopped(workers)
  /\ Released(locks)
  /\ workers' = {} /\ locks' = {}
  /\ UNCHANGED <<opsLock, probing, todo, starting, locked, failed, drained, joiner,
                 serverVars, cli, used>>

Exit ==
  /\ phase # "exited"
  /\ phase' = "exited"
  /\ Stopped(Members)
  /\ Released({m \in Members : serveLock[m] = Console})
  /\ joiner' = [pc |-> "off", pending |-> {}, member |-> Nobody]
  /\ starting' = Nobody
  /\ todo' = {} /\ locked' = {} /\ workers' = {} /\ locks' = {} /\ drained' = {}
  /\ UNCHANGED <<opsLock, probing, failed, serverVars, cli, used>>

(***************************************************************************)
(* serve on the command line: the same loop, without the wait.             *)
(***************************************************************************)
Become(c, pc) == cli' = [cli EXCEPT ![c].pc = pc]

Serve(c, m) ==
  /\ cli[c] = Idle /\ used.commands < MaxCommands
  /\ Use("commands")
  /\ Free(m)
  /\ Take(m, c)
  /\ cli' = [cli EXCEPT ![c] = [pc |-> "dialing", member |-> m]]
  /\ UNCHANGED <<opsLock, probing, fleetVars, joiner, sup, conn, promptVars, serverVars>>

ServeConnects(c) ==
  /\ cli[c].pc = "dialing"
  /\ Become(c, "checking")
  /\ UNCHANGED <<lockVars, fleetVars, joiner, sup, conn, promptVars, serverVars, used>>

\* A failed read of the marker counts as a missing one.
ServeChecks(c) ==
  /\ cli[c].pc = "checking"
  /\ \E read \in BOOLEAN :
       /\ IF read THEN UNCHANGED used ELSE DropOf(cli[c].member, "checking")
       /\ Become(c, IF read /\ boot[cli[c].member] THEN "serving" ELSE "gaveUp")
  /\ UNCHANGED <<lockVars, fleetVars, joiner, sup, conn, promptVars, serverVars>>

ServeDrops(c) ==
  /\ cli[c].pc = "serving"
  /\ \/ ~boot[cli[c].member] /\ UNCHANGED used
     \/ DropOf(cli[c].member, "serving")
  /\ Become(c, "dialing")
  /\ UNCHANGED <<lockVars, fleetVars, joiner, sup, conn, promptVars, serverVars>>

\* The command returns, is interrupted or dies; its locks go with it.
Leave(c) ==
  /\ cli' = [cli EXCEPT ![c] = Idle]
  /\ serveLock' = [m \in Members |-> IF serveLock[m] = c THEN Nobody ELSE serveLock[m]]
  /\ opsLock' = [m \in Members |-> IF opsLock[m] = c THEN Nobody ELSE opsLock[m]]
  /\ probing' = [m \in Members |-> probing[m] \ {c}]

CommandEnds(c) ==
  /\ cli[c].pc # "idle"
  /\ Leave(c)
  /\ UNCHANGED <<fleetVars, joiner, sup, conn, promptVars, serverVars, used>>

(***************************************************************************)
(* A command that changes a sandbox: it takes ops.lock, asks who serves,   *)
(* and goes on beside a serving process.                                   *)
(***************************************************************************)
Mutate(c, m) ==
  /\ cli[c] = Idle /\ used.commands < MaxCommands
  /\ Use("commands")
  /\ opsLock[m] = Nobody
  /\ opsLock' = [opsLock EXCEPT ![m] = c]
  /\ probing' = [probing EXCEPT ![m] = IF serveLock[m] = Nobody THEN @ \cup {c} ELSE @]
  /\ cli' = [cli EXCEPT ![c] = [pc |-> "probing", member |-> m]]
  /\ UNCHANGED <<serveLock, fleetVars, joiner, sup, conn, promptVars, serverVars>>

ProbeHolder(c) ==
  /\ cli[c].pc = "probing"
  /\ probing' = [m \in Members |-> probing[m] \ {c}]
  /\ Become(c, "operating")
  /\ UNCHANGED <<serveLock, opsLock, fleetVars, joiner, sup, conn, promptVars, serverVars, used>>

\* bootstrap --force removes the tree before it provisions it again.
Reset(c) ==
  /\ cli[c].pc = "operating"
  /\ boot' = [boot EXCEPT ![cli[c].member] = FALSE]
  /\ Become(c, "provisioning")
  /\ UNCHANGED <<lockVars, fleetVars, joiner, sup, conn, promptVars, password, codes, spent, used>>

Provision(c) ==
  /\ cli[c].pc \in {"operating", "provisioning"}
  /\ boot' = [boot EXCEPT ![cli[c].member] = TRUE]
  /\ Leave(c)
  /\ UNCHANGED <<fleetVars, joiner, sup, conn, promptVars, password, codes, spent, used>>

(***************************************************************************)
(* The system.                                                             *)
(***************************************************************************)
MainStep ==
  \/ \E m \in Members : StartMember(m) \/ MemberOwned(m)
  \/ GoLive
  \/ Cleanup

JoinerStep ==
  \/ JoinTick \/ JoinStops \/ JoinRegister \/ JoinRest
  \/ \E m \in Members : JoinOwned(m) \/ JoinStart(m)

WorkerStep(m) ==
  \/ AnswerSilently(m) \/ Ask(m)
  \/ ForwardPassword(m) \/ ForwardApproval(m)
  \/ Opened(m) \/ Rejected(m)
  \/ Check(m) \/ Unpark(m) \/ ServeEnds(m) \/ Redial(m)

OperatorStep(m) == TypeSecret(m) \/ AnswerApproval(m)

CommandStep(c) == ServeConnects(c) \/ ServeChecks(c) \/ ProbeHolder(c) \/ Provision(c)

Next ==
  \/ MainStep
  \/ JoinerStep
  \/ \E m \in Members :
       \/ WorkerStep(m) \/ OperatorStep(m) \/ OperatorBootstrap(m)
       \/ Mistype(m) \/ Unreachable(m) \/ RequestApproval(m) \/ LinkDrops(m) \/ Rotate(m)
  \/ Quit \/ Exit
  \/ \E c \in Commands :
       \/ CommandStep(c) \/ ServeDrops(c) \/ Reset(c) \/ CommandEnds(c)
       \/ \E m \in Targets : Serve(c, m) \/ Mutate(c, m)

Spec == Init /\ [][Next]_vars

\* Goroutines run, the operator answers what is shown and bootstraps a parked
\* sandbox, and commands that change a sandbox end. Nobody has to quit.
Fairness ==
  /\ WF_vars(MainStep)
  /\ WF_vars(JoinerStep)
  /\ WF_vars(phase = "stopped" /\ Exit)
  /\ \A m \in Members :
       /\ WF_vars(WorkerStep(m))
       /\ WF_vars(OperatorStep(m))
       /\ WF_vars(sup[m] = "parked" /\ OperatorBootstrap(m))
  /\ \A c \in Commands : WF_vars(CommandStep(c))

FairSpec == Spec /\ Fairness

(***************************************************************************)
(* Properties.                                                             *)
(***************************************************************************)
Secrets == [kind : {"none", "mistyped", "password", "code"}, n : Nat]

Worker ==
  [alive : BOOLEAN, answers : Seq(Secrets), refused : BOOLEAN,
   cache : [committed : Secrets, pending : Secrets], ui : BOOLEAN,
   asked : {"no", "tty", "queued", "modal"}, gate : {"no", "queued", "modal"}, nudge : BOOLEAN]

LockTypes ==
  /\ serveLock \in [Members -> Commands \cup {Console, Nobody}]
  /\ opsLock \in [Members -> Commands \cup {Nobody}]
  /\ probing \in [Members -> SUBSET Commands]

FleetTypes ==
  /\ phase \in {"starting", "live", "quitting", "stopped", "exited"}
  /\ starting \in Members \cup {Nobody}
  /\ todo \subseteq Members /\ locked \subseteq Members /\ failed \subseteq Members
  /\ workers \subseteq Members /\ locks \subseteq Members /\ drained \subseteq Members
  /\ joiner \in [pc : {"off", "waiting", "trying", "dialing", "registering"},
                 pending : SUBSET Members, member : Members \cup {Nobody}]
  /\ joiner.pc \in {"dialing", "registering"} => joiner.member \in Members

WorkerTypes ==
  /\ sup \in [Members -> {"off", "dialing", "asking", "checking", "parked", "serving", "backoff"}]
  /\ conn \in [Members -> Worker]
  /\ pwReqs \in Seq(Members) /\ modals \in Seq(Members)

ServerTypes ==
  /\ boot \in [Members -> BOOLEAN]
  /\ password \in [Members -> Nat] /\ codes \in [Members -> Nat]
  /\ spent \in [Members -> SUBSET Secrets]

CommandTypes ==
  /\ cli \in [Commands -> [pc : {"idle", "dialing", "checking", "serving", "gaveUp",
                                 "probing", "operating", "provisioning"},
                           member : Members \cup {Nobody}]]
  /\ used \in [{"drops", "mistakes", "rotations", "gates", "commands"} -> Nat]

\* Every variable has its type: what the code keeps in locks, maps, channels and
\* goroutines.
TypeOK == LockTypes /\ FleetTypes /\ WorkerTypes /\ ServerTypes /\ CommandTypes

ServersOf(m) ==
  {c \in Commands : cli[c].pc = "serving" /\ cli[c].member = m}
    \cup {p \in {Console} : sup[m] = "serving"}

\* A sandbox is served by the holder of its serve.lock and by nobody else, over the
\* console's start, live joins, its quit and the death of any process (lock.go:18-20).
OneServer == \A m \in Members : ServersOf(m) \subseteq {serveLock[m]}

\* While the console is up, a lock it holds has a worker or one being started: none
\* stays behind after a dial that failed (fleetconsole.go:137-142, 242-247).
NoStrandedLock ==
  phase = "live" =>
    \A m \in Members :
      serveLock[m] = Console => m \in workers \/ m = joiner.member

\* Only a password that authenticated is sent again without asking: a mistyped one
\* is never committed, over failed dials, drops and rotations (prompt.go:43-47).
OnlyProvenReused == \A m \in Members : conn[m].cache.committed # Mistyped

\* A one-time code is sent once, within a dial and over reconnects. It is about the
\* codes asked in a form: one asked alone looks like a password (auth.go:106-110).
CodeNotReplayed ==
  \A m \in Members : \A i \in DOMAIN conn[m].answers :
    LET answer == conn[m].answers[i]
    IN  answer.kind = "code" =>
          /\ answer \notin spent[m]
          /\ \A j \in 1..(i - 1) : conn[m].answers[j] # answer

\* A member whose owner has gone for good is joined live (fleetconsole.go:210-213).
Joins ==
  \A m \in Members :
    <>[](phase = "live" /\ serveLock[m] \notin Commands) => <>[](m \in workers \cup failed)

\* A worker whose link is gone gets a session again: over wrong and rotated
\* passwords, open approvals and other members' modals (worker.go:131-133).
Reconnects ==
  \A m \in Members :
    (m \in workers /\ ~conn[m].alive) ~> (conn[m].alive \/ phase # "live")

=============================================================================
