------------------------------ MODULE Dispatch ------------------------------
(***************************************************************************)
(* The maildir protocol between the agent's helper `popo` (the client, in  *)
(* the sandbox) and the dispatcher (the controller, on the operator's      *)
(* machine): internal/protocol/dispatch.go, maildir.go and cmd/popo.       *)
(*                                                                         *)
(* Directories are sets of request identities.  One goroutine runs Serve:  *)
(* it recovers outbox/cur, then repeats gc and drainNew; drainNew hands    *)
(* each request it picks up to a worker goroutine, at most one per token   *)
(* of Pool.  Every remote file operation is a step of its own, because the *)
(* clients act, the link drops and the process dies between any two.       *)
(***************************************************************************)
EXTENDS Naturals, FiniteSets

CONSTANTS
  Ids,         \* request identities; their order is the ULID order
  Verb,        \* Verb[id]: the request type
  Target,      \* Target[id]: the version, project, file or tool it names
  Pool,        \* the tokens of the semaphore: one per handler serviced at once
  Modes,       \* how the controller may be started: "serve", "once" (--once)
  Retention,   \* TRUE: responses uncollected past the window are reaped
  MaxFaults,   \* bound: crashes, lost links, failed operations in a run
  MaxResends   \* bound: requests delivered to outbox/new once more

NoName == 0
NoKey  == <<"", "">>

ASSUME DispatchAssumption ==
  /\ Ids \subseteq Nat \ {NoName}
  /\ Pool # {} /\ IsFiniteSet(Pool)
  /\ Modes \subseteq {"serve", "once"}
  /\ Retention \in BOOLEAN
  /\ MaxFaults \in Nat
  /\ MaxResends \in Nat

VARIABLES
  outNew, outCur,   \* outbox/new and outbox/cur: requests
  inNew, inCur,     \* inbox/new and inbox/cur: responses
  aged,             \* responses in inbox/new older than the retention window
  client,           \* client[id]: the popo process that owns the request
  resends,          \* how often a request was delivered again
  mode,             \* the entry point of this session: Serve, RunOnce, or none
  at, name, todo,   \* its goroutine: position, loop variable, rest of a listing
  submitted,        \* RunOnce: drainNew started a worker in this pass
  inflight, active, \* drainer: names owned by a worker, resource keys in use
  stage, job,       \* stage[t], job[t]: the worker that holds token t
  link,             \* FALSE: every remote operation of this session fails
  workCtx,          \* FALSE: the workers' context is cancelled
  faults,           \* how many faults have happened
  answers           \* answers[id]: how often a response was published (history)

mail    == <<outNew, outCur, inNew, inCur, aged, answers>>
clients == <<client, resends>>
entry   == <<mode, submitted>>
loop    == <<entry, at, name, todo>>
drainer == <<inflight, active, stage, job>>
session == <<link, workCtx, faults>>
vars    == <<mail, clients, loop, drainer, session>>

-----------------------------------------------------------------------------
(* Resource keys                                                           *)

runtimeFamily(verb) ==
  CASE verb \in {"python.install", "pip.install"} -> "python"
    [] verb \in {"node.install", "npm.install"} -> "node"
    [] verb \in {"java.install", "maven.install", "maven.build"} -> "java"
    [] verb = "conda.install" -> "conda"
    [] verb = "tool.install" -> "tool"
    [] OTHER -> ""

resourceKey(id) ==
  LET family == runtimeFamily(Verb[id])
  IN  IF family = "" THEN NoKey ELSE <<family, Target[id]>>

Keys == {resourceKey(id) : id \in Ids} \ {NoKey}

(* Mutant: the empty key is locked like any other. *)
KeySetOfAny(id) == {resourceKey(id)}

(* The keys a request occupies: none for an unkeyed one. *)
KeySet(id) == {resourceKey(id)} \ {NoKey}

-----------------------------------------------------------------------------
(* States of the processes                                                 *)

ClientStates == {"new", "waiting", "read", "quit", "done"}

Labels ==
  {"down", "closing", "idle",
   "stranded", "recover", "recoverNew", "recoverCur", "recoverRun",
   "gc", "gcCollected", "gcInCur", "gcUncollected", "gcReap", "gcReapCur",
   "drain", "drainNext", "drainNew", "drainCur", "drainClear", "reserve",
   "acquire", "pickup"}

(* Positions whose next step is a remote operation that returns its error. *)
FsLabels ==
  {"stranded", "recoverNew", "recoverCur", "drain", "drainNew", "drainCur", "drainClear", "reserve"}

GcLabels == {"gc", "gcCollected", "gcInCur", "gcUncollected", "gcReap", "gcReapCur"}

Free(t) == stage[t] = "free"

(* Names of the requests whose handler runs now. *)
Running ==
  {job[t] : t \in {u \in Pool : stage[u] = "run"}}
    \cup (IF at = "recoverRun" THEN {name} ELSE {})

Oldest(id, listing) == id \in listing /\ \A other \in listing : id <= other

Init ==
  /\ outNew = {} /\ outCur = {} /\ inNew = {} /\ inCur = {} /\ aged = {}
  /\ answers = [id \in Ids |-> 0]
  /\ client = [id \in Ids |-> "new"] /\ resends = 0
  /\ at = "down" /\ name = NoName /\ todo = {} /\ mode = "off" /\ submitted = FALSE
  /\ inflight = {} /\ active = {}
  /\ stage = [t \in Pool |-> "free"] /\ job = [t \in Pool |-> NoName]
  /\ link = FALSE /\ workCtx = FALSE /\ faults = 0

-----------------------------------------------------------------------------
(* The client: cmd/popo                                                    *)

Collected(id) ==
  /\ inNew' = inNew \ {id}
  /\ inCur' = IF id \in inNew THEN inCur \cup {id} ELSE inCur
  /\ aged' = aged \ {id}

(* Write outbox/tmp, rename into outbox/new, then poll. *)
Request(id) ==
  /\ client[id] = "new"
  /\ client' = [client EXCEPT ![id] = "waiting"]
  /\ outNew' = outNew \cup {id}
  /\ UNCHANGED <<outCur, inNew, inCur, aged, answers, resends, loop, drainer, session>>

(* The agent, still waiting, delivers the same file once more. *)
Resend(id) ==
  /\ client[id] = "waiting"
  /\ resends < MaxResends
  /\ resends' = resends + 1
  /\ outNew' = outNew \cup {id}
  /\ UNCHANGED <<outCur, inNew, inCur, aged, answers, client, loop, drainer, session>>

(* A poll finds the response. *)
Await(id) ==
  /\ client[id] = "waiting"
  /\ id \in inNew
  /\ client' = [client EXCEPT ![id] = "read"]
  /\ UNCHANGED <<mail, resends, loop, drainer, session>>

(* The client gives up on a stalled heartbeat, or is killed. *)
Quit(id) ==
  /\ client[id] \in {"waiting", "read"}
  /\ client' = [client EXCEPT ![id] = "quit"]
  /\ UNCHANGED <<mail, resends, loop, drainer, session>>

(* Mark the response collected: by await, best effort, or later by the     *)
(* idempotent `popo collect`.                                              *)
Collect(id) ==
  /\ \/ client[id] = "read"
     \/ client[id] = "quit" /\ id \in inNew
  /\ client' = [client EXCEPT ![id] = "done"]
  /\ Collected(id)
  /\ UNCHANGED <<outNew, outCur, answers, resends, loop, drainer, session>>

(* A response nobody waits for outlives the retention window.              *)
Expire(id) ==
  /\ Retention
  /\ id \in inNew \ aged
  /\ client[id] # "waiting"
  /\ aged' = aged \cup {id}
  /\ UNCHANGED <<outNew, outCur, inNew, inCur, answers, clients, loop, drainer, session>>

Client ==
  \E id \in Ids :
    Request(id) \/ Resend(id) \/ Await(id) \/ Quit(id) \/ Collect(id) \/ Expire(id)

-----------------------------------------------------------------------------
(* Steps shared by the parts of Serve                                      *)

Goto(label) == at' = label

(* The loop body is done with its request. *)
NextName(label) == Goto(label) /\ name' = NoName

(* Serve returns: the deferred cancel runs before wg.Wait.                 *)
ReturnErr ==
  /\ NextName("closing")
  /\ todo' = {}
  /\ workCtx' = FALSE

Publish(id) ==
  /\ inNew' = inNew \cup {id}
  /\ aged' = aged \ {id}
  /\ answers' = [answers EXCEPT ![id] = @ + 1]

NotPublished == UNCHANGED <<inNew, aged, answers>>

(* Deliver, by what its caller sees: the rename succeeded; the link or the *)
(* context was dead; the sandbox refused the write; or the rename took     *)
(* effect and the link dropped before its reply.                           *)
DeliverOK(id) ==
  link /\ Publish(id) /\ UNCHANGED <<link, faults>>

DeliverFails(id, ctx) ==
  \/ ~(link /\ ctx) /\ NotPublished /\ UNCHANGED <<link, faults>>
  \/ /\ link /\ ctx /\ faults < MaxFaults
     /\ faults' = faults + 1
     /\ \/ NotPublished /\ UNCHANGED link
        \/ Publish(id) /\ link' = FALSE

(* PickUp: outbox/new -> outbox/cur. *)
PickUp(id) ==
  /\ outNew' = outNew \ {id}
  /\ outCur' = outCur \cup {id}

(* Mutants: the listings in the other order; inbox/cur is never listed.    *)
InboxDirSwapped(nth) == IF nth = 1 THEN inCur ELSE inNew
InboxDirNew(nth) == inNew

(* responseExists lists inbox/new, then inbox/cur: two operations.         *)
InboxDir(nth) == IF nth = 1 THEN inNew ELSE inCur

ListInbox(from, nth, found, absent) ==
  /\ at = from
  /\ link
  /\ IF name \in InboxDir(nth) THEN found ELSE absent
  /\ UNCHANGED <<mail, clients, entry, todo, drainer, session>>

-----------------------------------------------------------------------------
(* recover: requests stranded in outbox/cur, one after the other           *)

(* Mutant: the sweep of outbox/cur is skipped. *)
StrandedNone == {}

Stranded == outCur

(* Serve recovers once and then repeats gc, drainNew; RunOnce runs gc,     *)
(* recover and then drainNew until a pass starts nothing.                  *)
AfterRecover == IF mode = "once" THEN "drain" ELSE "gc"
AfterGc      == IF mode = "once" THEN "stranded" ELSE "drain"

(* A new session: a fresh Dispatcher and drainer, Serve or RunOnce starts. *)
Connect ==
  /\ at = "down"
  /\ mode' \in Modes
  /\ Goto(IF mode' = "once" THEN "gc" ELSE "stranded")
  /\ link' = TRUE /\ workCtx' = TRUE
  /\ UNCHANGED <<mail, clients, submitted, name, todo, drainer, faults>>

RecoverList ==
  /\ at = "stranded" /\ link
  /\ todo' = Stranded
  /\ Goto("recover")
  /\ UNCHANGED <<mail, clients, entry, name, drainer, session>>

RecoverNext ==
  /\ at = "recover"
  /\ \/ todo = {} /\ Goto(AfterRecover) /\ UNCHANGED <<name, todo>>
     \/ \E id \in todo :
          /\ Oldest(id, todo)
          /\ name' = id /\ todo' = todo \ {id}
          /\ Goto("recoverNew")
  /\ UNCHANGED <<mail, clients, entry, drainer, session>>

RecoverListNew ==
  ListInbox("recoverNew", 1, NextName("recover"), Goto("recoverCur") /\ UNCHANGED name)

RecoverListCur ==
  ListInbox("recoverCur", 2, NextName("recover"), Goto("recoverRun") /\ UNCHANGED name)

(* serviceCur: the handler returns and its response is delivered.          *)
RecoverService ==
  /\ at = "recoverRun"
  /\ \/ DeliverOK(name) /\ NextName("recover") /\ UNCHANGED <<todo, workCtx>>
     \/ DeliverFails(name, TRUE) /\ ReturnErr
  /\ UNCHANGED <<outNew, outCur, inCur, clients, entry, drainer>>

-----------------------------------------------------------------------------
(* gc: collected pairs, then pairs past the retention window.  Its errors  *)
(* are swallowed: an operation that is refused is skipped (GcRefused), and *)
(* with the link down it falls through to drainNew (GcLinkDown).           *)

(* Mutants: gc lists the wrong maildir, or only whole pairs; the age test  *)
(* is inverted.                                                            *)
CollectedPickedUp == outCur
CollectedPairs == inCur \cap outCur
AbandonedRecent == inNew \ aged

CollectedMail == inCur
AbandonedMail == inNew \cap aged
RemoveAll(dir, id) == dir \ {id}

GcListCollected ==
  /\ at = "gc" /\ link
  /\ todo' = CollectedMail
  /\ Goto("gcCollected")
  /\ UNCHANGED <<mail, clients, entry, name, drainer, session>>

GcRemoveOutCur ==
  /\ at = "gcCollected" /\ link
  /\ \E id \in todo :
       /\ Oldest(id, todo)
       /\ outCur' = RemoveAll(outCur, id)
       /\ name' = id /\ todo' = todo \ {id}
  /\ Goto("gcInCur")
  /\ UNCHANGED <<outNew, inNew, inCur, aged, answers, clients, entry, drainer, session>>

GcRemoveInCur ==
  /\ at = "gcInCur" /\ link
  /\ inCur' = RemoveAll(inCur, name)
  /\ NextName("gcCollected")
  /\ UNCHANGED <<outNew, outCur, inNew, aged, answers, clients, entry, todo, drainer, session>>

GcListUncollected ==
  /\ at = "gcCollected" /\ link
  /\ todo = {}
  /\ IF Retention THEN todo' = inNew /\ Goto("gcUncollected")
                  ELSE Goto(AfterGc) /\ UNCHANGED todo
  /\ UNCHANGED <<mail, clients, entry, name, drainer, session>>

(* Read the response's CompletedAt; gone or recent means leave it.         *)
GcReadAge ==
  /\ at = "gcUncollected" /\ link
  /\ \/ todo = {} /\ Goto(AfterGc) /\ UNCHANGED <<name, todo>>
     \/ \E id \in todo :
          /\ Oldest(id, todo)
          /\ todo' = todo \ {id}
          /\ IF id \in AbandonedMail THEN name' = id /\ Goto("gcReap")
                                     ELSE UNCHANGED <<at, name>>
  /\ UNCHANGED <<mail, clients, entry, drainer, session>>

GcReapInNew ==
  /\ at = "gcReap" /\ link
  /\ inNew' = RemoveAll(inNew, name) /\ aged' = RemoveAll(aged, name)
  /\ Goto("gcReapCur")
  /\ UNCHANGED <<outNew, outCur, inCur, answers, clients, entry, name, todo, drainer, session>>

GcReapOutCur ==
  /\ at = "gcReapCur" /\ link
  /\ outCur' = RemoveAll(outCur, name)
  /\ NextName("gcUncollected")
  /\ UNCHANGED <<outNew, inNew, inCur, aged, answers, clients, entry, todo, drainer, session>>

(* The sandbox refuses one operation while the link is up: a listing, the  *)
(* read of a response, or one of the four deletes, whose errors the code   *)
(* discards; gc goes on as if it had been done.                            *)
GcRefused ==
  /\ at \in GcLabels /\ link
  /\ faults < MaxFaults /\ faults' = faults + 1
  /\ \/ at = "gc" /\ Goto("gcCollected") /\ todo' = {} /\ UNCHANGED name
     \/ /\ at = "gcCollected"
        /\ \E id \in todo :
             Oldest(id, todo) /\ name' = id /\ todo' = todo \ {id}
        /\ Goto("gcInCur")
     \/ at = "gcInCur" /\ NextName("gcCollected") /\ UNCHANGED todo
     \/ /\ at = "gcCollected" /\ todo = {} /\ Retention
        /\ Goto(AfterGc) /\ UNCHANGED <<name, todo>>
     \/ /\ at = "gcUncollected"
        /\ \E id \in todo : Oldest(id, todo) /\ todo' = todo \ {id}
        /\ UNCHANGED <<at, name>>
     \/ at = "gcReap" /\ Goto("gcReapCur") /\ UNCHANGED <<name, todo>>
     \/ at = "gcReapCur" /\ NextName("gcUncollected") /\ UNCHANGED todo
  /\ UNCHANGED <<mail, clients, entry, drainer, link, workCtx>>

GcLinkDown ==
  /\ at \in GcLabels /\ ~link
  /\ NextName(AfterGc)
  /\ todo' = {}
  /\ UNCHANGED <<mail, clients, entry, drainer, session>>

-----------------------------------------------------------------------------
(* drainNew                                                                *)

DrainList ==
  /\ at = "drain" /\ link
  /\ todo' = outNew
  /\ submitted' = FALSE
  /\ Goto("drainNext")
  /\ UNCHANGED <<mail, clients, mode, name, drainer, session>>

(* Mutants: the in-flight guard, the busy-key guard are missing.           *)
OwnedNever(id) == FALSE
KeyFree(id) == FALSE

Owned(id) == id \in inflight
KeyBusy(id) == resourceKey(id) \in active

(* Oldest first, past the names a worker owns. *)
DrainNext ==
  /\ at = "drainNext"
  /\ \/ todo = {} /\ Goto("idle") /\ UNCHANGED <<name, todo>>
     \/ \E id \in todo :
          /\ Oldest(id, todo)
          /\ todo' = todo \ {id}
          /\ IF Owned(id) THEN UNCHANGED <<at, name>>
                          ELSE name' = id /\ Goto("drainNew")
  /\ UNCHANGED <<mail, clients, entry, drainer, session>>

DrainListNew ==
  ListInbox("drainNew", 1, Goto("drainClear") /\ UNCHANGED name,
                           Goto("drainCur") /\ UNCHANGED name)

DrainListCur ==
  ListInbox("drainCur", 2, Goto("drainClear") /\ UNCHANGED name,
                           Goto("reserve") /\ UNCHANGED name)

(* Already answered: clear the request from outbox/new. *)
DrainClear ==
  /\ at = "drainClear" /\ link
  /\ PickUp(name)
  /\ NextName("drainNext")
  /\ UNCHANGED <<inNew, inCur, aged, answers, clients, entry, todo, drainer, session>>

(* Read the request and reserve its name and key, or leave it queued.      *)
Reserve ==
  /\ at = "reserve" /\ link
  /\ IF KeyBusy(name)
     THEN NextName("drainNext") /\ UNCHANGED <<inflight, active>>
     ELSE /\ inflight' = inflight \cup {name}
          /\ active' = active \cup KeySet(name)
          /\ Goto("acquire") /\ UNCHANGED name
  /\ UNCHANGED <<mail, clients, entry, todo, stage, job, session>>

Release(id) ==
  /\ inflight' = inflight \ {id}
  /\ active' = active \ KeySet(id)

(* Mutant: the token is not given back. *)
GiveBackNothing(t) == UNCHANGED <<stage, job>>

GiveBack(t) ==
  /\ stage' = [stage EXCEPT ![t] = "free"]
  /\ job' = [job EXCEPT ![t] = NoName]

(* Backpressure: a token of the pool, or the cancelled context.            *)
Acquire ==
  /\ at = "acquire"
  /\ \/ \E t \in Pool :
          /\ Free(t)
          /\ stage' = [stage EXCEPT ![t] = "held"]
          /\ job' = [job EXCEPT ![t] = name]
          /\ Goto("pickup")
          /\ UNCHANGED <<inflight, active, name, todo>>
     \/ /\ ~workCtx
        /\ Release(name)
        /\ NextName("idle") /\ todo' = {}
        /\ UNCHANGED <<stage, job>>
  /\ UNCHANGED <<mail, clients, entry, session>>

StartWorker ==
  /\ at = "pickup" /\ link
  /\ PickUp(name)
  /\ \E t \in Pool : stage[t] = "held" /\ stage' = [stage EXCEPT ![t] = "run"]
  /\ submitted' = (mode = "once")   \* Serve ignores the count
  /\ NextName("drainNext")
  /\ UNCHANGED <<inNew, inCur, aged, answers, clients, mode, todo, inflight, active, job, session>>

(* The pickup fails, or takes effect and its reply is lost.                *)
StartWorkerFails ==
  /\ at = "pickup"
  /\ \/ ~link /\ UNCHANGED <<outNew, outCur, link, faults>>
     \/ /\ link /\ faults < MaxFaults
        /\ faults' = faults + 1 /\ link' = FALSE
        /\ PickUp(name)
  /\ \E t \in Pool : stage[t] = "held" /\ GiveBack(t)
  /\ Release(name)
  /\ ReturnErr
  /\ UNCHANGED <<inNew, inCur, aged, answers, clients, entry>>

-----------------------------------------------------------------------------
(* Workers, Serve's select, and the end of a session                       *)

(* serviceCurData: the handler returns, the response is delivered; a       *)
(* failed delivery cancels every worker (drainer.fail).                    *)
WorkerService(t) ==
  /\ stage[t] = "run"
  /\ \/ workCtx /\ DeliverOK(job[t]) /\ UNCHANGED workCtx
     \/ DeliverFails(job[t], workCtx) /\ workCtx' = FALSE
  /\ stage' = [stage EXCEPT ![t] = "done"]
  /\ UNCHANGED <<outNew, outCur, inCur, clients, loop, inflight, active, job>>

(* The worker's deferred release, then its token. *)
WorkerRelease(t) ==
  /\ stage[t] = "done"
  /\ Release(job[t])
  /\ GiveBack(t)
  /\ UNCHANGED <<mail, clients, loop, session>>

Worker(t) == WorkerService(t) \/ WorkerRelease(t)

(* Mutants: nobody waits for the workers; RunOnce drains a single time.    *)
WorkersLeft == TRUE
AgainNever  == FALSE

WorkersDone == \A t \in Pool : Free(t)
Again       == submitted

(* Serve's select: the ticker fires, or a worker's error ends the session. *)
Tick ==
  /\ at = "idle" /\ mode = "serve"
  /\ IF workCtx THEN Goto("gc") ELSE Goto("closing")
  /\ UNCHANGED <<mail, clients, entry, name, todo, drainer, session>>

(* RunOnce's loop: wait for the batch; drain again unless nothing started; *)
(* return nil, or the first worker error.                                  *)
BatchDone ==
  /\ at = "idle" /\ mode = "once"
  /\ WorkersDone
  /\ IF Again THEN Goto("drain") ELSE Goto("closing")
  /\ UNCHANGED <<mail, clients, entry, name, todo, drainer, session>>

(* With the link down the operation fails.  One that is refused with the   *)
(* link up ends the session as well, as if the link had dropped before it. *)
OpFails ==
  /\ at \in FsLabels /\ ~link
  /\ ReturnErr
  /\ UNCHANGED <<mail, clients, entry, drainer, link, faults>>

(* wg.Wait: Serve returns only after its last worker.                      *)
Close ==
  /\ at = "closing"
  /\ WorkersDone
  /\ Goto("down")
  /\ mode' = "off" /\ submitted' = FALSE
  /\ link' = FALSE /\ workCtx' = FALSE
  /\ UNCHANGED <<mail, clients, name, todo, drainer, faults>>

(* The session's link drops, or its context is cancelled and the workers'  *)
(* with it: from now on every remote operation of the session fails.       *)
DropLink ==
  /\ link /\ faults < MaxFaults
  /\ faults' = faults + 1
  /\ link' = FALSE /\ workCtx' \in {workCtx, FALSE}
  /\ UNCHANGED <<mail, clients, loop, drainer>>

(* The controller process dies; the sandbox keeps its files.               *)
Crash ==
  /\ at # "down" /\ faults < MaxFaults
  /\ faults' = faults + 1
  /\ NextName("down") /\ todo' = {}
  /\ inflight' = {} /\ active' = {}
  /\ stage' = [t \in Pool |-> "free"] /\ job' = [t \in Pool |-> NoName]
  /\ mode' = "off" /\ submitted' = FALSE
  /\ link' = FALSE /\ workCtx' = FALSE
  /\ UNCHANGED <<mail, clients>>

-----------------------------------------------------------------------------

Recover == RecoverList \/ RecoverNext \/ RecoverListNew \/ RecoverListCur \/ RecoverService

Gc ==
  \/ GcListCollected \/ GcRemoveOutCur \/ GcRemoveInCur
  \/ GcListUncollected \/ GcReadAge \/ GcReapInNew \/ GcReapOutCur
  \/ GcRefused \/ GcLinkDown

Drain ==
  \/ DrainList \/ DrainNext \/ DrainListNew \/ DrainListCur \/ DrainClear
  \/ Reserve \/ Acquire \/ StartWorker \/ StartWorkerFails

Serve == Recover \/ Gc \/ Drain \/ Tick \/ BatchDone \/ OpFails \/ Close

Next ==
  \/ Client
  \/ Connect
  \/ Serve
  \/ \E t \in Pool : Worker(t)
  \/ DropLink
  \/ Crash

Spec == Init /\ [][Next]_vars

(* The supervisor reconnects, Serve's goroutine is scheduled, and every    *)
(* handler returns; nothing is assumed of the clients.                     *)
Fairness ==
  /\ WF_vars(Connect)
  /\ WF_vars(Serve)
  /\ \A t \in Pool : WF_vars(Worker(t))

FairSpec == Spec /\ Fairness

-----------------------------------------------------------------------------
(* Properties                                                              *)

TypeOK ==
  /\ outNew \subseteq Ids /\ outCur \subseteq Ids
  /\ inNew \subseteq Ids /\ inCur \subseteq Ids /\ aged \subseteq inNew
  /\ answers \in [Ids -> Nat]
  /\ client \in [Ids -> ClientStates] /\ resends \in 0..MaxResends
  /\ mode \in {"off", "serve", "once"} /\ submitted \in BOOLEAN
  /\ at \in Labels /\ name \in Ids \cup {NoName} /\ todo \subseteq Ids
  /\ inflight \subseteq Ids /\ active \subseteq Keys
  /\ stage \in [Pool -> {"free", "held", "run", "done"}]
  /\ job \in [Pool -> Ids \cup {NoName}]
  /\ link \in BOOLEAN /\ workCtx \in BOOLEAN /\ faults \in 0..MaxFaults

(* The handler of a request runs on one goroutine at a time: not on two    *)
(* workers, and not in recover beside a worker left over from the session  *)
(* before (dispatch.go, the in-flight guard and the deferred wg.Wait).     *)
ServicedByOne ==
  /\ \A t, u \in Pool :
       t # u /\ stage[t] = "run" /\ stage[u] = "run" => job[t] # job[u]
  /\ at = "recoverRun" => \A t \in Pool : stage[t] # "run"

(* Two handlers with one resource key never overlap, across workers,       *)
(* sessions and recovery ("so two installs can't corrupt one environment").*)
SameKeySerialized ==
  \A a, b \in Running :
    a # b /\ resourceKey(a) # NoKey => resourceKey(a) # resourceKey(b)

(* A published request is queued, picked up or answered; no crash, lost    *)
(* link, collection, retention sweep or duplicate drops it unanswered.     *)
NothingLost ==
  \A id \in Ids :
    client[id] # "new" => id \in outNew \cup outCur \/ answers[id] > 0

Starts(id) == id \in Running' \ Running

(* Dedup: a handler never starts for a request whose response is in the    *)
(* inbox, even as the client moves it from inbox/new to inbox/cur between  *)
(* the two listings.                                                       *)
DedupHolds == [][\A id \in Ids : Starts(id) => id \notin inNew \cup inCur]_vars

(* A response that is in the inbox is never replaced by a second one: what *)
(* the client reads is what it collects.                                   *)
ReplyStable ==
  [][\A id \in Ids : answers'[id] # answers[id] => id \notin inNew \cup inCur]_vars

(* gc's comment: "dedup/recover never re-execute a reaped pair": an        *)
(* answered request is never serviced again, even after gc has deleted its *)
(* response.                                                               *)
ReapedNeverRerun == [][\A id \in Ids : Starts(id) => answers[id] = 0]_vars

(* Every published request is answered, whatever crashed on the way.       *)
Answered == \A id \in Ids : client[id] = "waiting" ~> answers[id] > 0

(* A response past the retention window is eventually deleted. *)
AbandonedReaped == \A id \in Ids : id \in aged ~> id \notin inNew

(* Teardown never hangs: every token comes back and Serve returns. *)
TeardownEnds == at = "closing" ~> at = "down"
=============================================================================
