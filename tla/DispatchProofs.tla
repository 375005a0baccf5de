--------------------------- MODULE DispatchProofs ---------------------------
(***************************************************************************)
(* Mutual exclusion of the dispatcher, for every set of requests, pool and *)
(* number of faults: one goroutine per request, one per resource key; from *)
(* it, deduplication; then delivery: nothing is lost, what is answered is  *)
(* run again only when gc has deleted its response and left the request,   *)
(* and Dispatch implements EffectivelyOnce; and what RunOnce has answered  *)
(* when it returns.                                                        *)
(***************************************************************************)
EXTENDS DispatchHistory, FiniteSetTheorems, TLAPS

(* Positions at which the loop variable holds a request. *)
Named ==
  {"recoverNew", "recoverCur", "recoverRun", "gcInCur", "gcReap", "gcReapCur",
   "drainNew", "drainCur", "drainClear", "reserve", "acquire", "pickup"}

(* Positions that no worker of this session precedes. *)
Quiet ==
  \/ at \in {"down", "stranded", "recover", "recoverNew", "recoverCur", "recoverRun"}
  \/ at \in GcLabels /\ mode = "once"

Busy(t) == stage[t] # "free"

(* A busy token belongs to a request the drainer owns, with its key. *)
JobInv ==
  \A t \in Pool : Busy(t) =>
    /\ job[t] \in inflight
    /\ KeySet(job[t]) \subseteq active

(* Two busy tokens share neither request nor key. *)
OwnerInv ==
  \A t, u \in Pool :
    t # u /\ Busy(t) /\ Busy(u) =>
      /\ job[t] # job[u]
      /\ KeySet(job[t]) \cap KeySet(job[u]) = {}

(* The request drainNew is working on: not owned before reserve, owned by  *)
(* nobody else after it.                                                   *)
LoopInv ==
  /\ at \in Named => name \in Ids
  /\ at \in {"drainNew", "drainCur", "drainClear", "reserve"} => name \notin inflight
  /\ at = "acquire" =>
       /\ name \in inflight
       /\ KeySet(name) \subseteq active
       /\ \A t \in Pool : Busy(t) =>
            /\ job[t] # name
            /\ KeySet(job[t]) \cap KeySet(name) = {}

TokenInv ==
  /\ \A t \in Pool : stage[t] = "held" => at = "pickup" /\ job[t] = name
  /\ Quiet => \A t \in Pool : ~Busy(t)
  /\ at = "pickup" => \E t \in Pool : stage[t] = "held"

ExclusionInv == TypeOK /\ JobInv /\ OwnerInv /\ LoopInv /\ TokenInv

-----------------------------------------------------------------------------

(* A key a request occupies is one of the keys in use. *)
LEMMA KeySetType == \A id \in Ids : KeySet(id) \subseteq Keys
  BY DEF KeySet, Keys

(* No two workers, no reserved name and no key exist at the start. *)
THEOREM ExclusionInit == Init => ExclusionInv
<1> SUFFICES ASSUME Init PROVE ExclusionInv
  OBVIOUS
<1> USE DEF Init
<1>1. TypeOK
  <2>1. answers \in [Ids -> Nat] /\ client \in [Ids -> ClientStates]
    BY DEF ClientStates
  <2>2. stage \in [Pool -> {"free", "held", "run", "done"}] /\ job \in [Pool -> Ids \cup {NoName}]
    OBVIOUS
  <2>3. resends \in 0..MaxResends /\ faults \in 0..MaxFaults
    BY DispatchAssumption
  <2> QED BY <2>1, <2>2, <2>3 DEF TypeOK, Labels
<1>2. \A t \in Pool : ~Busy(t)
  BY DEF Busy
<1>3. JobInv /\ OwnerInv
  BY <1>2 DEF JobInv, OwnerInv
<1>4. LoopInv /\ TokenInv
  BY <1>2 DEF LoopInv, TokenInv, Named, Busy
<1> QED BY <1>1, <1>3, <1>4 DEF ExclusionInv

-----------------------------------------------------------------------------
(* TypeOK is preserved, part of the system by part.                        *)

(* A step of a client keeps the types. *)
LEMMA ClientType == ExclusionInv /\ Client => TypeOK'
<1> SUFFICES ASSUME ExclusionInv, Client PROVE TypeOK'
  OBVIOUS
<1> USE DispatchAssumption
    DEF ExclusionInv, TypeOK, ClientStates, loop, entry, drainer, session, mail, clients
<1>1. ASSUME NEW id \in Ids, Request(id) PROVE TypeOK'
  BY <1>1 DEF Request
<1>2. ASSUME NEW id \in Ids, Resend(id) PROVE TypeOK'
  BY <1>2 DEF Resend
<1>3. ASSUME NEW id \in Ids, Await(id) PROVE TypeOK'
  BY <1>3 DEF Await
<1>4. ASSUME NEW id \in Ids, Quit(id) PROVE TypeOK'
  BY <1>4 DEF Quit
<1>5. ASSUME NEW id \in Ids, Collect(id) PROVE TypeOK'
  BY <1>5 DEF Collect, Collected
<1>6. ASSUME NEW id \in Ids, Expire(id) PROVE TypeOK'
  BY <1>6 DEF Expire
<1> QED BY <1>1, <1>2, <1>3, <1>4, <1>5, <1>6 DEF Client

(* What Deliver may leave behind, whether it succeeds or fails. *)
LEMMA DeliverType ==
  ASSUME TypeOK, NEW id \in Ids, NEW ctx, DeliverOK(id) \/ DeliverFails(id, ctx)
  PROVE  /\ inNew' \subseteq Ids /\ aged' \subseteq inNew' /\ answers' \in [Ids -> Nat]
         /\ link' \in BOOLEAN /\ faults' \in 0..MaxFaults
<1>1. /\ Publish(id) \/ NotPublished
      /\ link' = link \/ link' = FALSE
      /\ faults' = faults \/ (faults < MaxFaults /\ faults' = faults + 1)
  BY DEF DeliverOK, DeliverFails
<1>2. inNew' \subseteq Ids /\ aged' \subseteq inNew' /\ answers' \in [Ids -> Nat]
  BY <1>1 DEF TypeOK, Publish, NotPublished
<1>3. link' \in BOOLEAN
  BY <1>1 DEF TypeOK
<1>4. faults' \in 0..MaxFaults
  BY <1>1, DispatchAssumption DEF TypeOK
<1> QED BY <1>2, <1>3, <1>4

(* A step of recover keeps the types. *)
LEMMA RecoverType == ExclusionInv /\ Recover => TypeOK'
<1> SUFFICES ASSUME ExclusionInv, Recover PROVE TypeOK'
  OBVIOUS
<1> USE DispatchAssumption
    DEF ExclusionInv, TypeOK, Labels, entry, drainer, session, mail, clients, Goto, NextName
<1>1. CASE RecoverList
  BY <1>1 DEF RecoverList, Stranded
<1>2. CASE RecoverNext
  BY <1>2 DEF RecoverNext, AfterRecover
<1>3. CASE RecoverListNew
  BY <1>3 DEF RecoverListNew, ListInbox
<1>4. CASE RecoverListCur
  BY <1>4 DEF RecoverListCur, ListInbox
<1>5. CASE RecoverService
  <2>1. name \in Ids
    BY <1>5 DEF RecoverService, LoopInv, Named
  <2>2. DeliverOK(name) \/ DeliverFails(name, TRUE)
    BY <1>5 DEF RecoverService
  <2>3. /\ inNew' \subseteq Ids /\ aged' \subseteq inNew' /\ answers' \in [Ids -> Nat]
        /\ link' \in BOOLEAN /\ faults' \in 0..MaxFaults
    BY <2>1, <2>2, DeliverType
  <2>4. workCtx' \in BOOLEAN /\ at' \in Labels /\ name' \in Ids \cup {NoName} /\ todo' \subseteq Ids
    BY <1>5 DEF RecoverService, ReturnErr
  <2> QED BY <1>5, <2>3, <2>4 DEF RecoverService
<1> QED BY <1>1, <1>2, <1>3, <1>4, <1>5 DEF Recover

(* A step of gc keeps the types. *)
LEMMA GcType == ExclusionInv /\ Gc => TypeOK'
<1> SUFFICES ASSUME ExclusionInv, Gc PROVE TypeOK'
  OBVIOUS
<1> USE DispatchAssumption
    DEF ExclusionInv, TypeOK, Labels, entry, drainer, session, mail, clients, Goto, NextName,
        RemoveAll, AfterGc
<1>1. CASE GcListCollected
  BY <1>1 DEF GcListCollected, CollectedMail
<1>2. CASE GcRemoveOutCur
  BY <1>2 DEF GcRemoveOutCur
<1>3. CASE GcRemoveInCur
  BY <1>3 DEF GcRemoveInCur
<1>4. CASE GcListUncollected
  BY <1>4 DEF GcListUncollected
<1>5. CASE GcReadAge
  BY <1>5 DEF GcReadAge
<1>6. CASE GcReapInNew
  BY <1>6 DEF GcReapInNew
<1>7. CASE GcReapOutCur
  BY <1>7 DEF GcReapOutCur
<1>8. CASE GcLinkDown
  BY <1>8 DEF GcLinkDown
<1>9. CASE GcRefused
  <2>1. faults' \in 0..MaxFaults
    BY <1>9 DEF GcRefused
  <2>2. at' \in Labels /\ name' \in Ids \cup {NoName} /\ todo' \subseteq Ids
    BY <1>9 DEF GcRefused, GcLabels
  <2>3. UNCHANGED <<mail, clients, entry, drainer, link, workCtx>>
    BY <1>9 DEF GcRefused
  <2> QED BY <2>1, <2>2, <2>3
<1> QED BY <1>1, <1>2, <1>3, <1>4, <1>5, <1>6, <1>7, <1>8, <1>9 DEF Gc

(* A step of drainNew keeps the types. *)
LEMMA DrainType == ExclusionInv /\ Drain => TypeOK'
<1> SUFFICES ASSUME ExclusionInv, Drain PROVE TypeOK'
  OBVIOUS
<1> USE DispatchAssumption
    DEF ExclusionInv, TypeOK, Labels, entry, session, mail, clients, Goto, NextName
<1>1. CASE DrainList
  BY <1>1 DEF DrainList, drainer
<1>2. CASE DrainNext
  BY <1>2 DEF DrainNext, drainer
<1>3. CASE DrainListNew
  BY <1>3 DEF DrainListNew, ListInbox, drainer
<1>4. CASE DrainListCur
  BY <1>4 DEF DrainListCur, ListInbox, drainer
<1>5. CASE DrainClear
  BY <1>5 DEF DrainClear, PickUp, LoopInv, Named, drainer
<1>6. CASE Reserve
  BY <1>6, KeySetType DEF Reserve, LoopInv, Named
<1>7. CASE Acquire
  <2>1. name \in Ids
    BY <1>7 DEF Acquire, LoopInv, Named
  <2>2. CASE \E t \in Pool : stage' = [stage EXCEPT ![t] = "held"] /\ job' = [job EXCEPT ![t] = name]
                            /\ at' = "pickup" /\ UNCHANGED <<inflight, active, name, todo>>
    BY <1>7, <2>1, <2>2 DEF Acquire
  <2>3. CASE Release(name) /\ at' = "idle" /\ name' = NoName /\ todo' = {} /\ UNCHANGED <<stage, job>>
    BY <1>7, <2>3 DEF Acquire, Release
  <2> QED BY <1>7, <2>2, <2>3 DEF Acquire
<1>8. CASE StartWorker
  BY <1>8 DEF StartWorker, PickUp, LoopInv, Named
<1>9. CASE StartWorkerFails
  <2>1. name \in Ids
    BY <1>9 DEF StartWorkerFails, LoopInv, Named
  <2>2. outNew' \subseteq Ids /\ outCur' \subseteq Ids
    BY <1>9, <2>1 DEF StartWorkerFails, PickUp
  <2>3. link' = link \/ link' = FALSE
    BY <1>9 DEF StartWorkerFails
  <2>4. faults' \in 0..MaxFaults
    BY <1>9 DEF StartWorkerFails
  <2>5. /\ stage' \in [Pool -> {"free", "held", "run", "done"}]
        /\ job' \in [Pool -> Ids \cup {NoName}]
    BY <1>9 DEF StartWorkerFails, GiveBack
  <2>6. inflight' \subseteq Ids /\ active' \subseteq Keys
    BY <1>9 DEF StartWorkerFails, Release
  <2>7. at' \in Labels /\ name' = NoName /\ todo' = {} /\ workCtx' = FALSE
    BY <1>9 DEF StartWorkerFails, ReturnErr
  <2> QED BY <1>9, <2>2, <2>3, <2>4, <2>5, <2>6, <2>7 DEF StartWorkerFails
<1> QED BY <1>1, <1>2, <1>3, <1>4, <1>5, <1>6, <1>7, <1>8, <1>9 DEF Drain

(* A step of a worker keeps the types. *)
LEMMA WorkerType == ASSUME ExclusionInv, NEW t \in Pool, Worker(t) PROVE TypeOK'
<1> USE DispatchAssumption
    DEF ExclusionInv, TypeOK, loop, entry, session, mail, clients
<1>1. CASE WorkerService(t)
  <2>1. job[t] \in Ids
    BY <1>1 DEF WorkerService, JobInv, Busy
  <2>2. stage' \in [Pool -> {"free", "held", "run", "done"}] /\ workCtx' \in BOOLEAN
    BY <1>1 DEF WorkerService
  <2>3. DeliverOK(job[t]) \/ DeliverFails(job[t], workCtx)
    BY <1>1 DEF WorkerService
  <2>4. /\ inNew' \subseteq Ids /\ aged' \subseteq inNew' /\ answers' \in [Ids -> Nat]
        /\ link' \in BOOLEAN /\ faults' \in 0..MaxFaults
    BY <2>1, <2>3, DeliverType
  <2> QED BY <1>1, <2>2, <2>4 DEF WorkerService
<1>2. CASE WorkerRelease(t)
  BY <1>2 DEF WorkerRelease, Release, GiveBack
<1> QED BY <1>1, <1>2 DEF Worker

(* Connecting, the select, returning, losing the link and dying keep the   *)
(* types.                                                                  *)
LEMMA SessionType ==
  ExclusionInv /\ (Connect \/ Tick \/ BatchDone \/ OpFails \/ Close \/ DropLink \/ Crash)
    => TypeOK'
<1> SUFFICES ASSUME ExclusionInv,
                    Connect \/ Tick \/ BatchDone \/ OpFails \/ Close \/ DropLink \/ Crash
             PROVE TypeOK'
  OBVIOUS
<1> USE DispatchAssumption
    DEF ExclusionInv, TypeOK, Labels, loop, entry, drainer, session, mail, clients, Goto, NextName
<1>1. CASE Connect
  BY <1>1 DEF Connect
<1>2. CASE Tick
  BY <1>2 DEF Tick
<1>3. CASE BatchDone
  BY <1>3 DEF BatchDone
<1>4. CASE OpFails
  BY <1>4 DEF OpFails, ReturnErr
<1>5. CASE Close
  BY <1>5 DEF Close
<1>6. CASE DropLink
  <2>1. faults < MaxFaults /\ faults' = faults + 1 /\ link' = FALSE
    BY <1>6 DEF DropLink
  <2>2. faults' \in 0..MaxFaults
    BY <2>1
  <2>3. workCtx' \in BOOLEAN /\ UNCHANGED <<mail, clients, loop, drainer>>
    BY <1>6 DEF DropLink
  <2> QED BY <2>1, <2>2, <2>3
<1>7. CASE Crash
  <2>1. faults' \in 0..MaxFaults
    BY <1>7 DEF Crash
  <2>2. stage' \in [Pool -> {"free", "held", "run", "done"}] /\ job' \in [Pool -> Ids \cup {NoName}]
    BY <1>7 DEF Crash
  <2> QED BY <1>7, <2>1, <2>2 DEF Crash
<1> QED BY <1>1, <1>2, <1>3, <1>4, <1>5, <1>6, <1>7

(* Every step keeps the types. *)
LEMMA TypeStep == ExclusionInv /\ [Next]_vars => TypeOK'
<1> SUFFICES ASSUME ExclusionInv, [Next]_vars PROVE TypeOK'
  OBVIOUS
<1>1. CASE UNCHANGED vars
  BY <1>1 DEF ExclusionInv, TypeOK, vars, mail, clients, loop, entry, drainer, session
<1>2. CASE Next
  BY <1>2, ClientType, RecoverType, GcType, DrainType, WorkerType, SessionType DEF Next, Serve
<1> QED BY <1>1, <1>2

-----------------------------------------------------------------------------
(* Exclusion is preserved.                                                 *)

Exclusion == JobInv /\ OwnerInv /\ LoopInv /\ TokenInv

(* A step that moves neither the drainer nor the loop keeps exclusion. *)
LEMMA Still ==
  ASSUME ExclusionInv, UNCHANGED <<inflight, active, stage, job, at, name, mode>>
  PROVE  Exclusion'
BY DEF Exclusion, ExclusionInv, JobInv, OwnerInv, LoopInv, TokenInv, Busy, Quiet

(* A step of the loop that leaves the drainer alone keeps exclusion when   *)
(* it loads a free name and does not become quiet.                         *)
LEMMA Moves ==
  ASSUME ExclusionInv,
         UNCHANGED drainer,
         at # "pickup", at' \notin {"acquire", "pickup"},
         at' \in Named => name' \in Ids,
         at' \in {"drainNew", "drainCur", "drainClear", "reserve"} => name' \notin inflight,
         Quiet' => Quiet
  PROVE  Exclusion'
<1>1. JobInv' /\ OwnerInv'
  BY DEF ExclusionInv, JobInv, OwnerInv, Busy, drainer
<1>2. LoopInv'
  BY DEF LoopInv, drainer
<1>3. TokenInv'
  BY DEF ExclusionInv, TokenInv, Busy, drainer
<1> QED BY <1>1, <1>2, <1>3 DEF Exclusion

(* Clients do not touch the dispatcher. *)
LEMMA ClientExclusion == ExclusionInv /\ Client => Exclusion'
BY Still DEF Client, Request, Resend, Await, Quit, Collect, Expire, loop, entry, drainer

(* recover services a request while no worker of its session exists. *)
LEMMA RecoverExclusion == ExclusionInv /\ Recover => Exclusion'
<1> SUFFICES ASSUME ExclusionInv, Recover PROVE Exclusion'
  OBVIOUS
<1> USE DEF Goto, NextName, Named, Quiet, GcLabels, entry
<1>1. CASE RecoverList
  BY <1>1, Moves DEF RecoverList
<1>2. CASE RecoverNext
  BY <1>2, Moves DEF RecoverNext, AfterRecover, ExclusionInv, TypeOK
<1>3. CASE RecoverListNew
  BY <1>3, Moves DEF RecoverListNew, ListInbox, ExclusionInv, LoopInv
<1>4. CASE RecoverListCur
  BY <1>4, Moves DEF RecoverListCur, ListInbox, ExclusionInv, LoopInv
<1>5. CASE RecoverService
  BY <1>5, Moves DEF RecoverService, ReturnErr
<1> QED BY <1>1, <1>2, <1>3, <1>4, <1>5 DEF Recover

(* gc runs beside the workers of Serve, and before any worker of RunOnce. *)
LEMMA GcExclusion == ExclusionInv /\ Gc => Exclusion'
<1> SUFFICES ASSUME ExclusionInv, Gc PROVE Exclusion'
  OBVIOUS
<1> USE DEF Goto, NextName, Named, Quiet, GcLabels, AfterGc, entry
<1>1. CASE GcListCollected
  BY <1>1, Moves DEF GcListCollected
<1>2. CASE GcRemoveOutCur
  BY <1>2, Moves DEF GcRemoveOutCur, ExclusionInv, TypeOK
<1>3. CASE GcRemoveInCur
  BY <1>3, Moves DEF GcRemoveInCur
<1>4. CASE GcListUncollected
  BY <1>4, Moves DEF GcListUncollected
<1>5. CASE GcReadAge
  BY <1>5, Moves DEF GcReadAge, ExclusionInv, TypeOK
<1>6. CASE GcReapInNew
  BY <1>6, Moves DEF GcReapInNew, ExclusionInv, LoopInv
<1>7. CASE GcReapOutCur
  BY <1>7, Moves DEF GcReapOutCur
<1>8. CASE GcLinkDown
  BY <1>8, Moves DEF GcLinkDown
<1>9. CASE GcRefused
  BY <1>9, Moves DEF GcRefused, ExclusionInv, TypeOK, LoopInv
<1> QED BY <1>1, <1>2, <1>3, <1>4, <1>5, <1>6, <1>7, <1>8, <1>9 DEF Gc

(* drainNew reserves a name and its key before it takes a token for it. *)
LEMMA DrainExclusion == ExclusionInv /\ Drain => Exclusion'
<1> SUFFICES ASSUME ExclusionInv, Drain PROVE Exclusion'
  OBVIOUS
<1> USE DEF Goto, NextName, Named, Quiet, GcLabels, entry
<1>1. CASE DrainList
  BY <1>1, Moves DEF DrainList
<1>2. CASE DrainNext
  BY <1>2, Moves DEF DrainNext, Owned, ExclusionInv, TypeOK
<1>3. CASE DrainListNew
  BY <1>3, Moves DEF DrainListNew, ListInbox, ExclusionInv, LoopInv
<1>4. CASE DrainListCur
  BY <1>4, Moves DEF DrainListCur, ListInbox, ExclusionInv, LoopInv
<1>5. CASE DrainClear
  BY <1>5, Moves DEF DrainClear
<1>6. CASE Reserve
  <2>1. CASE KeyBusy(name)
    BY <1>6, <2>1, Moves DEF Reserve, drainer
  <2>2. CASE ~KeyBusy(name)
    <3>1. /\ at = "reserve" /\ at' = "acquire" /\ name' = name
          /\ inflight' = inflight \cup {name} /\ active' = active \cup KeySet(name)
          /\ UNCHANGED <<stage, job, mode>>
      BY <1>6, <2>2 DEF Reserve
    <3>2. name \in Ids /\ name \notin inflight /\ KeySet(name) \cap active = {}
      BY <3>1, <2>2 DEF ExclusionInv, LoopInv, KeyBusy, KeySet
    <3>3. \A t \in Pool : Busy(t) => job[t] # name /\ KeySet(job[t]) \cap KeySet(name) = {}
      BY <3>2 DEF ExclusionInv, JobInv
    <3>4. JobInv' /\ OwnerInv'
      BY <3>1 DEF ExclusionInv, JobInv, OwnerInv, Busy
    <3>5. LoopInv'
      BY <3>1, <3>2, <3>3 DEF LoopInv, Busy
    <3>6. TokenInv'
      BY <3>1 DEF ExclusionInv, TokenInv, Busy
    <3> QED BY <3>4, <3>5, <3>6 DEF Exclusion
  <2> QED BY <2>1, <2>2
<1>7. CASE Acquire
  <2>1. at = "acquire" /\ mode' = mode
    BY <1>7 DEF Acquire
  <2>2. /\ name \in Ids /\ name \in inflight /\ KeySet(name) \subseteq active
        /\ \A t \in Pool : Busy(t) => job[t] # name /\ KeySet(job[t]) \cap KeySet(name) = {}
        /\ \A t \in Pool : stage[t] # "held"
    BY <2>1 DEF ExclusionInv, LoopInv, TokenInv
  <2>3. ASSUME NEW t \in Pool, Free(t),
               stage' = [stage EXCEPT ![t] = "held"], job' = [job EXCEPT ![t] = name],
               at' = "pickup", UNCHANGED <<inflight, active, name>>
        PROVE  Exclusion'
    <3>1. \A u \in Pool : u # t => stage'[u] = stage[u] /\ job'[u] = job[u]
      BY <2>3 DEF ExclusionInv, TypeOK
    <3>2. stage'[t] = "held" /\ job'[t] = name
      BY <2>3 DEF ExclusionInv, TypeOK
    <3>3. JobInv'
      BY <2>2, <2>3, <3>1, <3>2 DEF ExclusionInv, JobInv, Busy
    <3>4. OwnerInv'
      BY <2>2, <2>3, <3>1, <3>2 DEF ExclusionInv, OwnerInv, Busy
    <3>5. LoopInv'
      BY <2>2, <2>3 DEF LoopInv
    <3>6. TokenInv'
      BY <2>1, <2>2, <2>3, <3>1, <3>2 DEF TokenInv, Busy
    <3> QED BY <3>3, <3>4, <3>5, <3>6 DEF Exclusion
  <2>4. ASSUME Release(name), at' = "idle", UNCHANGED <<stage, job>>
        PROVE  Exclusion'
    <3>1. JobInv'
      BY <2>2, <2>4 DEF ExclusionInv, JobInv, Busy, Release
    <3>2. OwnerInv'
      BY <2>4 DEF ExclusionInv, OwnerInv, Busy
    <3>3. LoopInv'
      BY <2>4 DEF LoopInv
    <3>4. TokenInv'
      BY <2>2, <2>4 DEF ExclusionInv, TokenInv, Busy
    <3> QED BY <3>1, <3>2, <3>3, <3>4 DEF Exclusion
  <2> QED BY <1>7, <2>3, <2>4 DEF Acquire
<1>8. CASE StartWorker
  <2>1. PICK t \in Pool : stage[t] = "held" /\ stage' = [stage EXCEPT ![t] = "run"]
    BY <1>8 DEF StartWorker
  <2>2. at = "pickup" /\ at' = "drainNext" /\ UNCHANGED <<inflight, active, job>>
    BY <1>8 DEF StartWorker
  <2>3. stage'[t] = "run" /\ \A u \in Pool : u # t => stage'[u] = stage[u]
    BY <2>1 DEF ExclusionInv, TypeOK
  <2>4. \A u \in Pool : Busy(u)' <=> Busy(u)
    BY <2>1, <2>3 DEF Busy
  <2>5. JobInv' /\ OwnerInv'
    BY <2>2, <2>4 DEF ExclusionInv, JobInv, OwnerInv
  <2>6. LoopInv'
    BY <2>2 DEF LoopInv
  <2>7. \A u \in Pool : u # t => stage[u] # "held"
    BY <2>1 DEF ExclusionInv, OwnerInv, TokenInv, Busy
  <2>8. TokenInv'
    BY <2>2, <2>3, <2>7 DEF TokenInv
  <2> QED BY <2>5, <2>6, <2>8 DEF Exclusion
<1>9. CASE StartWorkerFails
  <2>1. PICK t \in Pool : stage[t] = "held" /\ GiveBack(t)
    BY <1>9 DEF StartWorkerFails
  <2>2. at = "pickup" /\ at' = "closing" /\ Release(name)
    BY <1>9 DEF StartWorkerFails, ReturnErr
  <2>3. job[t] = name
    BY <2>1 DEF ExclusionInv, TokenInv
  <2>4. ~Busy(t)' /\ \A u \in Pool : u # t => stage'[u] = stage[u] /\ job'[u] = job[u]
    BY <2>1 DEF ExclusionInv, TypeOK, GiveBack, Busy
  <2>5. \A u \in Pool : u # t /\ Busy(u)
          => job[u] # name /\ KeySet(job[u]) \cap KeySet(name) = {} /\ stage[u] # "held"
    BY <2>1, <2>3 DEF ExclusionInv, OwnerInv, TokenInv, Busy
  <2>6. JobInv'
    BY <2>2, <2>4, <2>5 DEF ExclusionInv, JobInv, Busy, Release
  <2>7. OwnerInv'
    BY <2>4 DEF ExclusionInv, OwnerInv, Busy
  <2>8. LoopInv'
    BY <2>2 DEF LoopInv
  <2>9. TokenInv'
    BY <2>2, <2>4, <2>5 DEF TokenInv, Busy
  <2> QED BY <2>6, <2>7, <2>8, <2>9 DEF Exclusion
<1> QED BY <1>1, <1>2, <1>3, <1>4, <1>5, <1>6, <1>7, <1>8, <1>9 DEF Drain

(* A worker gives up its request and key before its token, all its own. *)
LEMMA WorkerExclusion == ASSUME ExclusionInv, NEW t \in Pool, Worker(t) PROVE Exclusion'
<1>1. CASE WorkerService(t)
  <2>1. stage[t] = "run" /\ stage' = [stage EXCEPT ![t] = "done"]
        /\ UNCHANGED <<at, name, mode, inflight, active, job>>
    BY <1>1 DEF WorkerService, loop, entry
  <2>2. stage'[t] = "done" /\ \A u \in Pool : u # t => stage'[u] = stage[u]
    BY <2>1 DEF ExclusionInv, TypeOK
  <2>3. \A u \in Pool : Busy(u)' <=> Busy(u)
    BY <2>1, <2>2 DEF Busy
  <2>4. JobInv' /\ OwnerInv' /\ LoopInv'
    BY <2>1, <2>3 DEF ExclusionInv, JobInv, OwnerInv, LoopInv
  <2>5. TokenInv'
    BY <2>1, <2>2, <2>3 DEF ExclusionInv, TokenInv, Quiet
  <2> QED BY <2>4, <2>5 DEF Exclusion
<1>2. CASE WorkerRelease(t)
  <2>1. stage[t] = "done" /\ Release(job[t]) /\ GiveBack(t) /\ UNCHANGED <<at, name, mode>>
    BY <1>2 DEF WorkerRelease, loop, entry
  <2>2. ~Busy(t)' /\ \A u \in Pool : u # t => stage'[u] = stage[u] /\ job'[u] = job[u]
    BY <2>1 DEF ExclusionInv, TypeOK, GiveBack, Busy
  <2>3. \A u \in Pool : u # t /\ Busy(u)
          => job[u] # job[t] /\ KeySet(job[u]) \cap KeySet(job[t]) = {}
    BY <2>1 DEF ExclusionInv, OwnerInv, Busy
  <2>4. JobInv'
    BY <2>1, <2>2, <2>3 DEF ExclusionInv, JobInv, Busy, Release
  <2>5. OwnerInv'
    BY <2>2 DEF ExclusionInv, OwnerInv, Busy
  <2>6. at = "acquire" => job[t] # name /\ KeySet(job[t]) \cap KeySet(name) = {}
    BY <2>1 DEF ExclusionInv, LoopInv, Busy
  <2>7. \A u \in Pool : Busy(u)' => Busy(u) /\ job'[u] = job[u] /\ stage'[u] = stage[u]
    BY <2>2 DEF Busy
  <2>8. LoopInv'
    <3>1. at' = "acquire" => name' \in inflight' /\ KeySet(name') \subseteq active'
      BY <2>1, <2>6 DEF ExclusionInv, LoopInv, Release
    <3>2. inflight' \subseteq inflight
      BY <2>1 DEF Release
    <3> QED BY <2>1, <2>7, <3>1, <3>2 DEF ExclusionInv, LoopInv
  <2>9. TokenInv'
    <3>1. \A u \in Pool : stage[u] = "held" => stage'[u] = "held"
      BY <2>1, <2>2
    <3> QED BY <2>1, <2>7, <3>1 DEF ExclusionInv, TokenInv, Quiet, Busy
  <2> QED BY <2>4, <2>5, <2>8, <2>9 DEF Exclusion
<1> QED BY <1>1, <1>2 DEF Worker

(* A session starts without workers because the one before returned only   *)
(* after its last worker, or died with all of them.                        *)
LEMMA SessionExclusion ==
  ExclusionInv /\ (Connect \/ Tick \/ BatchDone \/ OpFails \/ Close \/ DropLink \/ Crash)
    => Exclusion'
<1> SUFFICES ASSUME ExclusionInv,
                    Connect \/ Tick \/ BatchDone \/ OpFails \/ Close \/ DropLink \/ Crash
             PROVE Exclusion'
  OBVIOUS
<1> USE DEF Goto, NextName, Named, Quiet, GcLabels, entry
<1>1. CASE Connect
  BY <1>1, Moves DEF Connect
<1>2. CASE Tick
  BY <1>2, Moves DEF Tick
<1>3. CASE BatchDone
  BY <1>3, Moves DEF BatchDone
<1>4. CASE OpFails
  BY <1>4, Moves DEF OpFails, FsLabels, ReturnErr
<1>5. CASE Close
  <2>1. \A t \in Pool : ~Busy(t)' /\ stage'[t] = stage[t]
    BY <1>5 DEF Close, WorkersDone, Free, Busy, drainer
  <2>2. at' = "down"
    BY <1>5 DEF Close
  <2>3. JobInv' /\ OwnerInv'
    BY <2>1 DEF JobInv, OwnerInv
  <2>4. LoopInv' /\ TokenInv'
    BY <2>1, <2>2 DEF LoopInv, TokenInv, Busy
  <2> QED BY <2>3, <2>4 DEF Exclusion
<1>6. CASE DropLink
  BY <1>6, Still DEF DropLink, loop, drainer
<1>7. CASE Crash
  <2>1. \A t \in Pool : ~Busy(t)'
    BY <1>7 DEF Crash, Busy
  <2>2. at' = "down"
    BY <1>7 DEF Crash
  <2>3. JobInv' /\ OwnerInv'
    BY <2>1 DEF JobInv, OwnerInv
  <2>4. LoopInv' /\ TokenInv'
    BY <2>1, <2>2 DEF LoopInv, TokenInv, Busy
  <2> QED BY <2>3, <2>4 DEF Exclusion
<1> QED BY <1>1, <1>2, <1>3, <1>4, <1>5, <1>6, <1>7

(* ExclusionInv is inductive. *)
THEOREM ExclusionStep == ExclusionInv /\ [Next]_vars => ExclusionInv'
<1> SUFFICES ASSUME ExclusionInv, [Next]_vars PROVE ExclusionInv'
  OBVIOUS
<1>1. TypeOK'
  BY TypeStep
<1>2. Exclusion'
  <2>1. CASE UNCHANGED vars
    BY <2>1, Still DEF vars, loop, entry, drainer
  <2>2. CASE Next
    BY <2>2, ClientExclusion, RecoverExclusion, GcExclusion, DrainExclusion,
       WorkerExclusion, SessionExclusion DEF Next, Serve
  <2> QED BY <2>1, <2>2
<1> QED BY <1>1, <1>2 DEF ExclusionInv, Exclusion

-----------------------------------------------------------------------------

(* The invariant holds in every reachable state. *)
THEOREM ExclusionHolds == Spec => []ExclusionInv
BY ExclusionInit, ExclusionStep, PTL DEF Spec

(* Every variable of the dispatcher keeps its type. *)
THEOREM TypeHolds == Spec => []TypeOK
<1>1. ExclusionInv => TypeOK
  BY DEF ExclusionInv
<1> QED BY <1>1, ExclusionHolds, PTL

(* One goroutine services a request at a time: no two workers, and no      *)
(* worker beside recover.                                                  *)
THEOREM ServicedByOneHolds == Spec => []ServicedByOne
<1>1. ExclusionInv => ServicedByOne
  BY DEF ExclusionInv, OwnerInv, TokenInv, Busy, Quiet, ServicedByOne
<1> QED BY <1>1, ExclusionHolds, PTL

(* Handlers that share a resource key never overlap. *)
THEOREM SameKeySerializedHolds == Spec => []SameKeySerialized
<1>1. ASSUME ExclusionInv PROVE SameKeySerialized
  <2>1. CASE at = "recoverRun"
    <3>1. Running = {name}
      BY <1>1, <2>1 DEF ExclusionInv, TokenInv, Quiet, Busy, Running
    <3> QED BY <3>1 DEF SameKeySerialized
  <2>2. CASE at # "recoverRun"
    <3>1. SUFFICES ASSUME NEW a \in Running, NEW b \in Running, a # b, resourceKey(a) # NoKey
                   PROVE  resourceKey(a) # resourceKey(b)
      BY DEF SameKeySerialized
    <3>2. PICK t \in Pool : stage[t] = "run" /\ job[t] = a
      BY <2>2 DEF Running
    <3>3. PICK u \in Pool : stage[u] = "run" /\ job[u] = b
      BY <2>2 DEF Running
    <3>4. KeySet(a) \cap KeySet(b) = {}
      BY <1>1, <3>1, <3>2, <3>3 DEF ExclusionInv, OwnerInv, Busy
    <3> QED BY <3>1, <3>4 DEF KeySet
  <2> QED BY <2>1, <2>2
<1> QED BY <1>1, ExclusionHolds, PTL
-----------------------------------------------------------------------------
(***************************************************************************)
(* Deduplication, for every instance: with repeated deliveries, retention  *)
(* and faults, no handler starts and no response is published for a        *)
(* request whose response is in the inbox.                                 *)
(***************************************************************************)

Inbox == inNew \cup inCur

(* What responseExists has established stays true: the client only moves   *)
(* responses, and nobody else may publish one for this request.            *)
InboxInv ==
  /\ at \in {"recoverCur", "drainCur"} => name \notin inNew
  /\ at \in {"recoverRun", "reserve", "acquire", "pickup"} => name \notin Inbox
  /\ \A t \in Pool : stage[t] = "run" => job[t] \notin Inbox

(* Positions at which InboxInv says something of the loop variable. *)
Checked == {"recoverCur", "drainCur", "recoverRun", "reserve", "acquire", "pickup"}

(* A step that adds no response, starts no handler and enters no checked   *)
(* position.                                                               *)
LEMMA InboxFrame ==
  ASSUME InboxInv, inNew' \subseteq inNew, Inbox' \subseteq Inbox,
         \A t \in Pool : stage'[t] = "run" => stage[t] = "run" /\ job'[t] = job[t],
         at' \in Checked => at' = at /\ name' = name
  PROVE  InboxInv'
BY DEF InboxInv, Checked

(* Collecting moves a response within the inbox. *)
LEMMA ClientInbox == ASSUME InboxInv, Client PROVE InboxInv'
<1>1. UNCHANGED <<at, name, stage, job>>
  BY DEF Client, Request, Resend, Await, Quit, Collect, Expire, loop, drainer
<1>2. inNew' \subseteq inNew /\ Inbox' \subseteq Inbox
  BY DEF Client, Request, Resend, Await, Quit, Collect, Collected, Expire, mail, Inbox
<1> QED BY <1>1, <1>2, InboxFrame

(* recover looks in both directories before it services a request. *)
LEMMA RecoverInbox == ASSUME ExclusionInv, InboxInv, Recover PROVE InboxInv'
<1> USE DEF mail, clients, drainer, Goto, NextName
<1>1. CASE RecoverList \/ RecoverNext
  BY <1>1, InboxFrame DEF RecoverList, RecoverNext, AfterRecover, Checked, Inbox
<1>2. CASE RecoverListNew
  BY <1>2 DEF RecoverListNew, ListInbox, InboxDir, InboxInv, Inbox
<1>3. CASE RecoverListCur
  BY <1>3 DEF RecoverListCur, ListInbox, InboxDir, InboxInv, Inbox
<1>4. CASE RecoverService
  <2>1. \A t \in Pool : stage'[t] # "run"
    BY <1>4 DEF RecoverService, ExclusionInv, TokenInv, Quiet, Busy
  <2>2. at' \notin Checked
    BY <1>4 DEF RecoverService, ReturnErr, Checked
  <2> QED BY <2>1, <2>2 DEF InboxInv, Checked
<1> QED BY <1>1, <1>2, <1>3, <1>4 DEF Recover

(* gc only deletes. *)
LEMMA GcInbox == ASSUME InboxInv, Gc PROVE InboxInv'
<1> USE DEF mail, clients, drainer, Goto, NextName, AfterGc, Checked
<1>1. UNCHANGED <<stage, job>>
  BY DEF Gc, GcListCollected, GcRemoveOutCur, GcRemoveInCur, GcListUncollected,
     GcReadAge, GcReapInNew, GcReapOutCur, GcRefused, GcLinkDown
<1>2. inNew' \subseteq inNew /\ Inbox' \subseteq Inbox
  BY DEF Gc, GcListCollected, GcRemoveOutCur, GcRemoveInCur, GcListUncollected,
     GcReadAge, GcReapInNew, GcReapOutCur, GcRefused, GcLinkDown, RemoveAll, Inbox
<1>3. at' \notin Checked
  BY DEF Gc, GcListCollected, GcRemoveOutCur, GcRemoveInCur, GcListUncollected,
     GcReadAge, GcReapInNew, GcReapOutCur, GcRefused, GcLinkDown
<1> QED BY <1>1, <1>2, <1>3, InboxFrame

(* drainNew looks in both directories before it reserves and picks up. *)
LEMMA DrainInbox == ASSUME ExclusionInv, InboxInv, Drain PROVE InboxInv'
<1> USE DEF mail, clients, Goto, NextName
<1>1. CASE DrainList \/ DrainNext \/ DrainClear
  BY <1>1, InboxFrame DEF DrainList, DrainNext, DrainClear, drainer, Checked, Inbox
<1>2. CASE DrainListNew
  BY <1>2 DEF DrainListNew, ListInbox, InboxDir, drainer, InboxInv, Inbox
<1>3. CASE DrainListCur
  BY <1>3 DEF DrainListCur, ListInbox, InboxDir, drainer, InboxInv, Inbox
<1>4. CASE Reserve
  BY <1>4 DEF Reserve, InboxInv, Inbox
<1>5. CASE Acquire
  <2>1. at = "acquire" /\ name \notin Inbox /\ Inbox' = Inbox
    BY <1>5 DEF Acquire, InboxInv, Inbox
  <2>2. at' = "idle" \/ (at' = "pickup" /\ name' = name)
    BY <1>5, Zenon DEF Acquire
  <2>3. \A t \in Pool : stage'[t] = "run" => stage[t] = "run" /\ job'[t] = job[t]
    <3>1. CASE UNCHANGED <<stage, job>>
      BY <3>1
    <3>2. ASSUME NEW t \in Pool, stage' = [stage EXCEPT ![t] = "held"], job' = [job EXCEPT ![t] = name]
          PROVE  \A u \in Pool : stage'[u] = "run" => stage[u] = "run" /\ job'[u] = job[u]
      BY <3>2 DEF ExclusionInv, TypeOK
    <3> QED BY <1>5, <3>1, <3>2 DEF Acquire
  <2> QED BY <2>1, <2>2, <2>3 DEF InboxInv
<1>6. CASE StartWorker
  <2>1. at = "pickup" /\ at' = "drainNext" /\ job' = job /\ Inbox' = Inbox
    BY <1>6 DEF StartWorker, Inbox
  <2>2. PICK t \in Pool : stage[t] = "held" /\ stage' = [stage EXCEPT ![t] = "run"]
    BY <1>6 DEF StartWorker
  <2>3. job[t] = name /\ name \notin Inbox
    BY <2>1, <2>2 DEF ExclusionInv, TokenInv, InboxInv
  <2> QED BY <2>1, <2>2, <2>3 DEF InboxInv, ExclusionInv, TypeOK
<1>7. CASE StartWorkerFails
  <2>1. at' \notin Checked /\ UNCHANGED <<inNew, inCur>>
    BY <1>7 DEF StartWorkerFails, ReturnErr, Checked
  <2>2. PICK t \in Pool : stage[t] = "held" /\ GiveBack(t)
    BY <1>7 DEF StartWorkerFails
  <2>3. \A u \in Pool : stage'[u] = "run" => stage[u] = "run" /\ job'[u] = job[u]
    BY <2>2 DEF GiveBack, ExclusionInv, TypeOK
  <2> QED BY <2>1, <2>3, InboxFrame DEF Inbox
<1> QED BY <1>1, <1>2, <1>3, <1>4, <1>5, <1>6, <1>7 DEF Drain

(* A worker publishes for its own request, which is neither another        *)
(* worker's nor the one drainNew works on.                                 *)
LEMMA WorkerInbox ==
  ASSUME ExclusionInv, InboxInv, NEW t \in Pool, Worker(t) PROVE InboxInv'
<1>1. CASE WorkerService(t)
  <2>1. stage[t] = "run" /\ stage' = [stage EXCEPT ![t] = "done"]
        /\ UNCHANGED <<inCur, job, at, name>>
    BY <1>1 DEF WorkerService, loop
  <2>2. inNew' = inNew \/ inNew' = inNew \cup {job[t]}
    BY <1>1 DEF WorkerService, DeliverOK, DeliverFails, Publish, NotPublished
  <2>3. \A u \in Pool : stage'[u] = "run" => stage[u] = "run" /\ job[u] # job[t]
    BY <2>1 DEF ExclusionInv, TypeOK, OwnerInv, Busy
  <2>4. at \in Checked => job[t] # name
    <3>1. CASE at \in {"recoverCur", "recoverRun"}
      BY <2>1, <3>1 DEF ExclusionInv, TokenInv, Quiet, Busy
    <3>2. CASE at \in {"drainCur", "reserve"}
      BY <2>1, <3>2 DEF ExclusionInv, JobInv, LoopInv, Busy
    <3>3. CASE at = "acquire"
      BY <2>1, <3>3 DEF ExclusionInv, LoopInv, Busy
    <3>4. CASE at = "pickup"
      <4>1. PICK u \in Pool : stage[u] = "held" /\ job[u] = name
        BY <3>4 DEF ExclusionInv, TokenInv
      <4> QED BY <2>1, <4>1 DEF ExclusionInv, OwnerInv, Busy
    <3> QED BY <3>1, <3>2, <3>3, <3>4 DEF Checked
  <2> QED BY <2>1, <2>2, <2>3, <2>4 DEF InboxInv, Inbox, Checked
<1>2. CASE WorkerRelease(t)
  <2>1. UNCHANGED <<inNew, inCur, at, name>>
    BY <1>2 DEF WorkerRelease, mail, loop
  <2>2. \A u \in Pool : stage'[u] = "run" => stage[u] = "run" /\ job'[u] = job[u]
    BY <1>2 DEF WorkerRelease, GiveBack, ExclusionInv, TypeOK
  <2> QED BY <2>1, <2>2, InboxFrame DEF Inbox
<1> QED BY <1>1, <1>2 DEF Worker

(* Sessions begin and end without touching the inbox. *)
LEMMA SessionInbox ==
  ASSUME InboxInv, Connect \/ Tick \/ BatchDone \/ OpFails \/ Close \/ DropLink \/ Crash
  PROVE  InboxInv'
<1> USE DEF mail, Goto, NextName, Checked, Inbox
<1>1. CASE Connect \/ Tick \/ BatchDone \/ OpFails \/ Close
  BY <1>1, InboxFrame DEF Connect, Tick, BatchDone, OpFails, ReturnErr, Close, drainer
<1>2. CASE DropLink
  BY <1>2, InboxFrame DEF DropLink, loop, drainer
<1>3. CASE Crash
  BY <1>3, InboxFrame DEF Crash
<1> QED BY <1>1, <1>2, <1>3

(* Every step keeps InboxInv. *)
LEMMA InboxStep == ExclusionInv /\ InboxInv /\ [Next]_vars => InboxInv'
<1> SUFFICES ASSUME ExclusionInv, InboxInv, [Next]_vars PROVE InboxInv'
  OBVIOUS
<1>1. CASE UNCHANGED vars
  BY <1>1, InboxFrame DEF vars, mail, loop, drainer, Inbox
<1>2. CASE Next
  BY <1>2, ClientInbox, RecoverInbox, GcInbox, DrainInbox, WorkerInbox, SessionInbox DEF Next, Serve
<1> QED BY <1>1, <1>2

(* What a handler works on has no response yet, in every reachable state. *)
THEOREM InboxHolds == Spec => []InboxInv
<1>1. Init => InboxInv
  BY DEF Init, InboxInv
<1> QED BY <1>1, InboxStep, ExclusionHolds, PTL DEF Spec

-----------------------------------------------------------------------------

(* Only the second listing of recover makes it service a request. *)
LEMMA RecoverBegins ==
  ASSUME Next, at' = "recoverRun", ~(at = "recoverRun" /\ name' = name)
  PROVE  RecoverListCur
BY DEF Next, Client, Request, Resend, Await, Quit, Collect, Expire, Connect, Serve,
  Recover, RecoverList, RecoverNext, RecoverListNew, ListInbox, AfterRecover, RecoverService,
  Gc, GcListCollected, GcRemoveOutCur, GcRemoveInCur, GcListUncollected, GcReadAge,
  GcReapInNew, GcReapOutCur, GcRefused, GcLinkDown, AfterGc,
  Drain, DrainList, DrainNext, DrainListNew, DrainListCur, DrainClear, Reserve, Acquire,
  StartWorker, StartWorkerFails, Tick, BatchDone, OpFails, Close,
  Worker, WorkerService, WorkerRelease, DropLink, Crash, ReturnErr, Goto, NextName, loop, session

(* Only the pickup makes a worker run a request. *)
LEMMA WorkerBegins ==
  ASSUME TypeOK, Next, NEW t \in Pool, stage'[t] = "run",
         ~(stage[t] = "run" /\ job[t] = job'[t])
  PROVE  StartWorker
<1>1. CASE UNCHANGED <<stage, job>>
  BY <1>1
<1>2. ASSUME Acquire PROVE FALSE
  <2>1. CASE UNCHANGED <<stage, job>>
    BY <2>1
  <2>2. ASSUME NEW u \in Pool, stage' = [stage EXCEPT ![u] = "held"], job' = [job EXCEPT ![u] = name]
        PROVE  FALSE
    BY <2>2 DEF TypeOK
  <2> QED BY <1>2, <2>1, <2>2 DEF Acquire
<1>3. ASSUME StartWorkerFails PROVE FALSE
  <2>1. PICK u \in Pool : stage[u] = "held" /\ GiveBack(u)
    BY <1>3 DEF StartWorkerFails
  <2> QED BY <2>1 DEF GiveBack, TypeOK
<1>4. ASSUME NEW u \in Pool, Worker(u) PROVE FALSE
  BY <1>4 DEF Worker, WorkerService, WorkerRelease, GiveBack, TypeOK
<1>5. ASSUME Crash PROVE FALSE
  BY <1>5 DEF Crash
<1>6. CASE Client \/ Connect \/ Recover \/ Gc \/ Tick \/ BatchDone \/ OpFails \/ Close \/ DropLink
  <2>1. UNCHANGED <<stage, job>>
    BY <1>6
       DEF Client, Request, Resend, Await, Quit, Collect, Expire, Connect,
           Recover, RecoverList, RecoverNext, RecoverListNew, RecoverListCur, ListInbox,
           RecoverService, Gc, GcListCollected, GcRemoveOutCur, GcRemoveInCur,
           GcListUncollected, GcReadAge, GcReapInNew, GcReapOutCur, GcRefused, GcLinkDown,
           Tick, BatchDone, OpFails, Close, DropLink, drainer
  <2> QED BY <1>1, <2>1
<1>7. CASE DrainList \/ DrainNext \/ DrainListNew \/ DrainListCur \/ DrainClear \/ Reserve
  <2>1. UNCHANGED <<stage, job>>
    BY <1>7 DEF DrainList, DrainNext, DrainListNew, DrainListCur, ListInbox, DrainClear, Reserve, drainer
  <2> QED BY <1>1, <2>1
<1> QED BY <1>2, <1>3, <1>4, <1>5, <1>6, <1>7 DEF Next, Serve, Drain

(* A handler never starts for a request whose response is in the inbox,    *)
(* though the client moves it between the two listings.                    *)
THEOREM DedupHoldsAlways == Spec => DedupHolds
<1>1. ASSUME ExclusionInv, InboxInv, [Next]_vars
      PROVE  [\A id \in Ids : Starts(id) => id \notin inNew \cup inCur]_vars
  <2> SUFFICES ASSUME Next, NEW id \in Ids, id \in Running', id \notin Running
               PROVE  id \notin Inbox
    BY <1>1 DEF Starts, Inbox, vars, mail, loop, drainer, Running
  <2>1. CASE at' = "recoverRun" /\ id = name'
    <3>1. ~(at = "recoverRun" /\ name' = name)
      BY <2>1 DEF Running
    <3>2. RecoverListCur
      BY <2>1, <3>1, RecoverBegins
    <3> QED BY <1>1, <2>1, <3>2
            DEF RecoverListCur, ListInbox, InboxDir, InboxInv, Inbox, Goto, NextName
  <2>2. CASE \E t \in Pool : stage'[t] = "run" /\ job'[t] = id
    <3>1. PICK t \in Pool : stage'[t] = "run" /\ job'[t] = id /\ ~(stage[t] = "run" /\ job[t] = id)
      BY <2>2 DEF Running
    <3>2. StartWorker
      BY <1>1, <3>1, WorkerBegins DEF ExclusionInv
    <3>3. /\ at = "pickup" /\ job' = job
          /\ \E u \in Pool : stage[u] = "held" /\ stage' = [stage EXCEPT ![u] = "run"]
      BY <3>2 DEF StartWorker
    <3>4. stage[t] = "held"
      BY <3>1, <3>3, <1>1 DEF ExclusionInv, TypeOK
    <3>5. id = name
      BY <1>1, <3>1, <3>3, <3>4 DEF ExclusionInv, TokenInv
    <3> QED BY <1>1, <3>3, <3>5 DEF InboxInv
  <2> QED BY <2>1, <2>2 DEF Running
<1> QED BY <1>1, ExclusionHolds, InboxHolds, PTL DEF Spec, DedupHolds

(* A response in the inbox is never replaced: what the client has read is  *)
(* what it collects.                                                       *)
THEOREM ReplyStableHolds == Spec => ReplyStable
<1>1. ASSUME ExclusionInv, InboxInv, [Next]_vars
      PROVE  [\A id \in Ids : answers'[id] # answers[id] => id \notin inNew \cup inCur]_vars
  <2> SUFFICES ASSUME Next, NEW id \in Ids, answers'[id] # answers[id]
               PROVE  id \notin Inbox
    BY <1>1 DEF Inbox, vars, mail
  <2>1. CASE RecoverService
    <3>1. at = "recoverRun" /\ (Publish(name) \/ NotPublished)
      BY <2>1 DEF RecoverService, DeliverOK, DeliverFails
    <3>2. id = name
      BY <1>1, <3>1 DEF Publish, NotPublished, ExclusionInv, TypeOK
    <3> QED BY <1>1, <3>1, <3>2 DEF InboxInv
  <2>2. ASSUME NEW t \in Pool, WorkerService(t) PROVE id \notin Inbox
    <3>1. stage[t] = "run" /\ (Publish(job[t]) \/ NotPublished)
      BY <2>2 DEF WorkerService, DeliverOK, DeliverFails
    <3>2. id = job[t]
      BY <1>1, <3>1 DEF Publish, NotPublished, ExclusionInv, TypeOK
    <3> QED BY <1>1, <3>1, <3>2 DEF InboxInv
  <2>3. ASSUME ~RecoverService, \A t \in Pool : ~WorkerService(t) PROVE FALSE
    BY <2>3
       DEF Next, Client, Request, Resend, Await, Quit, Collect, Expire, Connect, Serve,
           Recover, RecoverList, RecoverNext, RecoverListNew, RecoverListCur, ListInbox,
           Gc, GcListCollected, GcRemoveOutCur, GcRemoveInCur, GcListUncollected, GcReadAge,
           GcReapInNew, GcReapOutCur, GcRefused, GcLinkDown,
           Drain, DrainList, DrainNext, DrainListNew, DrainListCur, DrainClear, Reserve, Acquire,
           StartWorker, StartWorkerFails, Tick, BatchDone, OpFails, Close,
           Worker, WorkerRelease, DropLink, Crash, mail
  <2> QED BY <2>1, <2>2, <2>3
<1> QED BY <1>1, ExclusionHolds, InboxHolds, PTL DEF Spec, ReplyStable

-----------------------------------------------------------------------------
(* Nothing is lost.                                                        *)

(* Positions of gc between its listings. *)
Sweep == {"gcCollected", "gcInCur", "gcUncollected", "gcReap", "gcReapCur"}

(* Whatever gc may still delete a request for has been answered. *)
SweepInv ==
  /\ at \in Sweep => \A id \in todo : answers[id] > 0
  /\ at \in {"gcReap", "gcReapCur"} => name \in Ids /\ answers[name] > 0

MailInv == \A id \in inNew \cup inCur : answers[id] > 0

LossInv == MailInv /\ SweepInv /\ NothingLost

(* A step that leaves the maildir and the clients alone loses nothing when *)
(* gc lists nothing new by it.                                             *)
LEMMA LossFrame ==
  ASSUME LossInv, UNCHANGED <<outNew, outCur, inNew, inCur, answers, client>>,
         at' \in Sweep => at \in Sweep /\ todo' \subseteq todo,
         at' \in {"gcReap", "gcReapCur"} => name' \in Ids /\ answers[name'] > 0
  PROVE  LossInv'
BY DEF LossInv, MailInv, SweepInv, NothingLost

(* A client adds requests and moves responses. *)
LEMMA ClientLoss == TypeOK /\ LossInv /\ Client => LossInv'
<1> SUFFICES ASSUME TypeOK, LossInv, Client PROVE LossInv'
  OBVIOUS
<1> USE DEF TypeOK, LossInv, MailInv, SweepInv, NothingLost, mail, clients, loop
<1>1. ASSUME NEW id \in Ids, Request(id) PROVE LossInv'
  BY <1>1 DEF Request
<1>2. ASSUME NEW id \in Ids, Resend(id) PROVE LossInv'
  BY <1>2 DEF Resend
<1>3. ASSUME NEW id \in Ids, Await(id) PROVE LossInv'
  BY <1>3 DEF Await
<1>4. ASSUME NEW id \in Ids, Quit(id) PROVE LossInv'
  BY <1>4 DEF Quit
<1>5. ASSUME NEW id \in Ids, Collect(id) PROVE LossInv'
  BY <1>5 DEF Collect, Collected
<1>6. ASSUME NEW id \in Ids, Expire(id) PROVE LossInv'
  BY <1>6 DEF Expire
<1> QED BY <1>1, <1>2, <1>3, <1>4, <1>5, <1>6 DEF Client

(* A delivery, whatever its outcome, loses nothing. *)
LEMMA DeliverLoss ==
  ASSUME TypeOK, LossInv, NEW id \in Ids, Publish(id) \/ NotPublished,
         UNCHANGED <<outNew, outCur, inCur, client>>,
         at' \in Sweep => at \in Sweep /\ UNCHANGED <<at, name, todo>>
  PROVE  LossInv'
<1>1. answers \in [Ids -> Nat] /\ inNew \subseteq Ids /\ inCur \subseteq Ids
  BY DEF TypeOK
<1>2. \A i \in Ids : answers[i] > 0 => answers'[i] > 0
  BY <1>1 DEF Publish, NotPublished
<1>3. inNew' = inNew \/ (inNew' = inNew \cup {id} /\ answers'[id] > 0)
  BY <1>1 DEF Publish, NotPublished
<1>4. MailInv'
  BY <1>1, <1>2, <1>3 DEF LossInv, MailInv
<1>5. SweepInv'
  <2>1. CASE at' \notin Sweep
    BY <2>1 DEF SweepInv, Sweep
  <2>2. CASE at' \in Sweep /\ Publish(id)
    BY <1>2, <2>2 DEF LossInv, SweepInv, TypeOK
  <2>3. CASE at' \in Sweep /\ NotPublished
    BY <2>3 DEF LossInv, SweepInv, NotPublished
  <2> QED BY <2>1, <2>2, <2>3
<1>6. NothingLost'
  BY <1>2 DEF LossInv, NothingLost
<1> QED BY <1>4, <1>5, <1>6 DEF LossInv

(* recover deletes nothing. *)
LEMMA RecoverLoss == ExclusionInv /\ LossInv /\ Recover => LossInv'
<1> SUFFICES ASSUME ExclusionInv, LossInv, Recover PROVE LossInv'
  OBVIOUS
<1> USE DEF Sweep, mail, clients, Goto, NextName
<1>1. CASE RecoverList
  BY <1>1, LossFrame DEF RecoverList
<1>2. CASE RecoverNext
  BY <1>2, LossFrame DEF RecoverNext, AfterRecover
<1>3. CASE RecoverListNew
  BY <1>3, LossFrame DEF RecoverListNew, ListInbox
<1>4. CASE RecoverListCur
  BY <1>4, LossFrame DEF RecoverListCur, ListInbox
<1>5. CASE RecoverService
  <2>1. name \in Ids
    BY <1>5 DEF RecoverService, ExclusionInv, LoopInv, Named
  <2>2. Publish(name) \/ NotPublished
    BY <1>5 DEF RecoverService, DeliverOK, DeliverFails
  <2>3. at' \notin Sweep /\ UNCHANGED <<outNew, outCur, inCur, client>>
    BY <1>5 DEF RecoverService, ReturnErr
  <2> QED BY <2>1, <2>2, <2>3, DeliverLoss DEF ExclusionInv
<1> QED BY <1>1, <1>2, <1>3, <1>4, <1>5 DEF Recover

(* gc deletes the requests of answered pairs only. *)
LEMMA GcLoss == ExclusionInv /\ LossInv /\ Gc => LossInv'
<1> SUFFICES ASSUME ExclusionInv, LossInv, Gc PROVE LossInv'
  OBVIOUS
<1> USE DEF Sweep, GcLabels, mail, clients, Goto, NextName, RemoveAll, AfterGc
<1>1. CASE GcListCollected
  BY <1>1 DEF GcListCollected, CollectedMail, LossInv, MailInv, SweepInv, NothingLost
<1>2. CASE GcRemoveOutCur
  BY <1>2 DEF GcRemoveOutCur, LossInv, MailInv, SweepInv, NothingLost
<1>3. CASE GcRemoveInCur
  BY <1>3 DEF GcRemoveInCur, LossInv, MailInv, SweepInv, NothingLost
<1>4. CASE GcListUncollected
  BY <1>4 DEF GcListUncollected, LossInv, MailInv, SweepInv, NothingLost
<1>5. CASE GcReadAge
  BY <1>5 DEF GcReadAge, LossInv, MailInv, SweepInv, NothingLost, ExclusionInv, TypeOK
<1>6. CASE GcReapInNew
  BY <1>6 DEF GcReapInNew, LossInv, MailInv, SweepInv, NothingLost
<1>7. CASE GcReapOutCur
  BY <1>7 DEF GcReapOutCur, LossInv, MailInv, SweepInv, NothingLost
<1>8. CASE GcLinkDown
  BY <1>8, LossFrame DEF GcLinkDown
<1>9. CASE GcRefused
  <2>1. /\ UNCHANGED <<outNew, outCur, inNew, inCur, answers, client>>
        /\ at' \in Sweep => todo' = {} \/ (at \in Sweep /\ todo' \subseteq todo)
        /\ at' \in {"gcReap", "gcReapCur"} => at \in {"gcReap", "gcReapCur"} /\ name' = name
    BY <1>9 DEF GcRefused
  <2> QED BY <2>1 DEF LossInv, MailInv, SweepInv, NothingLost
<1> QED BY <1>1, <1>2, <1>3, <1>4, <1>5, <1>6, <1>7, <1>8, <1>9 DEF Gc

(* drainNew moves requests from outbox/new to outbox/cur. *)
LEMMA DrainLoss == ExclusionInv /\ LossInv /\ Drain => LossInv'
<1> SUFFICES ASSUME ExclusionInv, LossInv, Drain PROVE LossInv'
  OBVIOUS
<1> USE DEF Sweep, mail, clients, Goto, NextName
<1>1. CASE DrainList
  BY <1>1, LossFrame DEF DrainList
<1>2. CASE DrainNext
  BY <1>2, LossFrame DEF DrainNext
<1>3. CASE DrainListNew
  BY <1>3, LossFrame DEF DrainListNew, ListInbox
<1>4. CASE DrainListCur
  BY <1>4, LossFrame DEF DrainListCur, ListInbox
<1>5. CASE DrainClear
  BY <1>5 DEF DrainClear, PickUp, LossInv, MailInv, SweepInv, NothingLost
<1>6. CASE Reserve
  BY <1>6, LossFrame DEF Reserve
<1>7. CASE Acquire
  BY <1>7, LossFrame DEF Acquire
<1>8. CASE StartWorker
  BY <1>8 DEF StartWorker, PickUp, LossInv, MailInv, SweepInv, NothingLost
<1>9. CASE StartWorkerFails
  <2>1. at' \notin Sweep
    BY <1>9 DEF StartWorkerFails, ReturnErr
  <2>2. PickUp(name) \/ UNCHANGED <<outNew, outCur>>
    BY <1>9 DEF StartWorkerFails
  <2>3. UNCHANGED <<inNew, inCur, answers, client>>
    BY <1>9 DEF StartWorkerFails
  <2> QED BY <2>1, <2>2, <2>3 DEF PickUp, LossInv, MailInv, SweepInv, NothingLost
<1> QED BY <1>1, <1>2, <1>3, <1>4, <1>5, <1>6, <1>7, <1>8, <1>9 DEF Drain

(* A worker publishes its response or nothing. *)
LEMMA WorkerLoss == ASSUME ExclusionInv, LossInv, NEW t \in Pool, Worker(t) PROVE LossInv'
<1>1. CASE WorkerService(t)
  <2>1. job[t] \in Ids
    BY <1>1 DEF WorkerService, ExclusionInv, TypeOK, JobInv, Busy
  <2>2. Publish(job[t]) \/ NotPublished
    BY <1>1 DEF WorkerService, DeliverOK, DeliverFails
  <2>3. UNCHANGED <<outNew, outCur, inCur, client, at, name, todo>>
    BY <1>1 DEF WorkerService, clients, loop
  <2> QED BY <2>1, <2>2, <2>3, DeliverLoss DEF ExclusionInv
<1>2. CASE WorkerRelease(t)
  BY <1>2, LossFrame DEF WorkerRelease, mail, clients, loop, LossInv, SweepInv
<1> QED BY <1>1, <1>2 DEF Worker

(* Neither a new session nor the end of one touches the maildir. *)
LEMMA SessionLoss ==
  LossInv /\ (Connect \/ Tick \/ BatchDone \/ OpFails \/ Close \/ DropLink \/ Crash)
    => LossInv'
<1> SUFFICES ASSUME LossInv, Connect \/ Tick \/ BatchDone \/ OpFails \/ Close \/ DropLink \/ Crash
             PROVE  LossInv'
  OBVIOUS
<1> USE DEF Sweep, mail, clients, Goto, NextName
<1>1. CASE Connect
  BY <1>1, LossFrame DEF Connect
<1>2. CASE Tick
  BY <1>2, LossFrame DEF Tick
<1>3. CASE BatchDone
  BY <1>3, LossFrame DEF BatchDone
<1>4. CASE OpFails
  BY <1>4, LossFrame DEF OpFails, ReturnErr
<1>5. CASE Close
  BY <1>5, LossFrame DEF Close
<1>6. CASE DropLink
  BY <1>6, LossFrame DEF DropLink, loop, LossInv, SweepInv
<1>7. CASE Crash
  BY <1>7, LossFrame DEF Crash
<1> QED BY <1>1, <1>2, <1>3, <1>4, <1>5, <1>6, <1>7

(* Every step keeps LossInv. *)
LEMMA LossStep == ExclusionInv /\ LossInv /\ [Next]_vars => LossInv'
<1> SUFFICES ASSUME ExclusionInv, LossInv, [Next]_vars PROVE LossInv'
  OBVIOUS
<1>1. CASE UNCHANGED vars
  BY <1>1, LossFrame DEF vars, mail, clients, loop, LossInv, SweepInv
<1>2. CASE Next
  BY <1>2, ClientLoss, RecoverLoss, GcLoss, DrainLoss, WorkerLoss, SessionLoss
     DEF Next, Serve, ExclusionInv
<1> QED BY <1>1, <1>2

(* A published request is queued, picked up or answered, whatever faults,  *)
(* collections, sweeps and repeated deliveries the run has seen.           *)
THEOREM NothingLostHolds == Spec => []NothingLost
<1>1. Init => LossInv
  BY DEF Init, LossInv, MailInv, SweepInv, Sweep, NothingLost
<1>2. LossInv => NothingLost
  BY DEF LossInv
<1> QED BY <1>1, <1>2, LossStep, ExclusionHolds, PTL DEF Spec

-----------------------------------------------------------------------------
(* Effectively once: an answered request is begun again only when gc has   *)
(* orphaned it.                                                            *)

InRecover == {"recover", "recoverNew", "recoverCur", "recoverRun"}
InDrain == {"drainNew", "drainCur", "drainClear", "reserve", "acquire", "pickup"}

(* What the dispatcher knows of was requested by a client. *)
SeenInv ==
  /\ \A id \in outNew \cup outCur \cup inflight : client[id] # "new"
  /\ \A id \in Ids : answers[id] > 0 => client[id] # "new"

(* gc deletes no response that a client still waits for. *)
WaitInv ==
  /\ \A id \in Ids : client[id] = "waiting" /\ answers[id] > 0 => id \in inNew
  /\ \A id \in aged : client[id] # "waiting"
  /\ at \in {"gcReap", "gcReapCur"} => client[name] # "waiting"

(* An answered request is in the maildir with its response, or it has been *)
(* orphaned, or gc is between the two deletes of the retention sweep.      *)
KeptInv ==
  \A id \in outNew \cup outCur : answers[id] > 0 =>
    id \in Inbox \/ id \in orphaned \/ (at = "gcReapCur" /\ id = name)

(* Where the request that the loop variables name is. *)
PassInv ==
  /\ at \in InRecover => todo \subseteq outCur
  /\ at \in InRecover \ {"recover"} => name \in outCur
  /\ at \in InDrain \cup {"drainNext"} => todo \subseteq outNew
  /\ at \in InDrain => name \in outNew \ todo

OnceInv == SeenInv /\ WaitInv /\ KeptInv /\ PassInv

Begun == {job[t] : t \in {u \in Pool : stage[u] = "run"}}

(* Only clients add requests to the outbox. *)
LEMMA Requested ==
  ASSUME Next, NEW id \in Ids, id \in outNew' \cup outCur', id \notin outNew \cup outCur,
         PassInv
  PROVE  Request(id) \/ Resend(id)
<1> USE DEF mail, clients, loop, entry, drainer, session
<1>1. CASE Client
  BY <1>1 DEF Client, Request, Resend, Await, Quit, Collect, Expire
<1>2. CASE Recover \/ Gc \/ Connect \/ Tick \/ BatchDone \/ OpFails \/ Close \/ DropLink \/ Crash
  BY <1>2
     DEF Recover, RecoverList, RecoverNext, RecoverListNew, RecoverListCur, ListInbox, RecoverService,
         Gc, GcListCollected, GcRemoveOutCur, GcRemoveInCur, GcListUncollected, GcReadAge,
         GcReapInNew, GcReapOutCur, GcRefused, GcLinkDown, RemoveAll,
         Connect, Tick, BatchDone, OpFails, Close, DropLink, Crash
<1>3. CASE Drain
  <2>1. \/ UNCHANGED <<outNew, outCur>>
        \/ at \in {"drainClear", "pickup"} /\ PickUp(name)
    BY <1>3
       DEF Drain, DrainList, DrainNext, DrainListNew, DrainListCur, ListInbox, DrainClear, Reserve,
           Acquire, StartWorker, StartWorkerFails
  <2> QED BY <2>1 DEF PickUp, PassInv, InDrain
<1>4. ASSUME NEW t \in Pool, Worker(t) PROVE FALSE
  BY <1>4 DEF Worker, WorkerService, WorkerRelease
<1> QED BY <1>1, <1>2, <1>3, <1>4 DEF Next, Serve

(* Only a handler answers, and its response is in inbox/new. *)
LEMMA Answers ==
  ASSUME TypeOK, Next, NEW id \in Ids, answers'[id] # answers[id]
  PROVE  /\ id \in inNew' /\ answers'[id] = answers[id] + 1
         /\ \/ at = "recoverRun" /\ id = name
            \/ \E t \in Pool : stage[t] = "run" /\ job[t] = id
<1> USE DEF mail, TypeOK
<1>1. CASE RecoverService
  <2>1. at = "recoverRun" /\ (Publish(name) \/ NotPublished)
    BY <1>1 DEF RecoverService, DeliverOK, DeliverFails
  <2> QED BY <2>1 DEF Publish, NotPublished
<1>2. ASSUME NEW t \in Pool, WorkerService(t)
      PROVE  /\ id \in inNew' /\ answers'[id] = answers[id] + 1
             /\ stage[t] = "run" /\ job[t] = id
  <2>1. stage[t] = "run" /\ (Publish(job[t]) \/ NotPublished)
    BY <1>2 DEF WorkerService, DeliverOK, DeliverFails
  <2> QED BY <2>1 DEF Publish, NotPublished
<1>3. ASSUME ~RecoverService, \A t \in Pool : ~WorkerService(t) PROVE FALSE
  BY <1>3
     DEF Next, Client, Request, Resend, Await, Quit, Collect, Expire, Connect, Serve,
         Recover, RecoverList, RecoverNext, RecoverListNew, RecoverListCur, ListInbox,
         Gc, GcListCollected, GcRemoveOutCur, GcRemoveInCur, GcListUncollected, GcReadAge,
         GcReapInNew, GcReapOutCur, GcRefused, GcLinkDown,
         Drain, DrainList, DrainNext, DrainListNew, DrainListCur, DrainClear, Reserve, Acquire,
         StartWorker, StartWorkerFails, Tick, BatchDone, OpFails, Close,
         Worker, WorkerRelease, DropLink, Crash
<1> QED BY <1>1, <1>2, <1>3

(* Only gc's deletes make a response vanish from the inbox. *)
LEMMA Deletes ==
  ASSUME Next, NEW id, id \in Inbox, id \notin Inbox'
  PROVE  /\ id = name /\ UNCHANGED <<answers, client>>
         /\ \/ at = "gcInCur" /\ at' = "gcCollected"
            \/ at = "gcReap" /\ at' = "gcReapCur" /\ name' = name
<1> USE DEF mail, clients, Inbox
<1>1. CASE GcRemoveInCur \/ GcReapInNew
  BY <1>1 DEF GcRemoveInCur, GcReapInNew, RemoveAll, Goto, NextName
<1>2. CASE RecoverService
  BY <1>2 DEF RecoverService, DeliverOK, DeliverFails, Publish, NotPublished
<1>3. ASSUME NEW t \in Pool, Worker(t) PROVE FALSE
  BY <1>3 DEF Worker, WorkerService, WorkerRelease, DeliverOK, DeliverFails, Publish, NotPublished
<1>4. CASE Client
  BY <1>4 DEF Client, Request, Resend, Await, Quit, Collect, Collected, Expire
<1>5. ASSUME ~(GcRemoveInCur \/ GcReapInNew \/ RecoverService \/ Client), \A t \in Pool : ~Worker(t)
      PROVE  FALSE
  BY <1>5
     DEF Next, Connect, Serve,
         Recover, RecoverList, RecoverNext, RecoverListNew, RecoverListCur, ListInbox,
         Gc, GcListCollected, GcRemoveOutCur, GcListUncollected, GcReadAge,
         GcReapOutCur, GcRefused, GcLinkDown,
         Drain, DrainList, DrainNext, DrainListNew, DrainListCur, DrainClear, Reserve, Acquire,
         StartWorker, StartWorkerFails, Tick, BatchDone, OpFails, Close, DropLink, Crash
<1> QED BY <1>1, <1>2, <1>3, <1>4, <1>5

(* A response leaves inbox/new when it is collected or reaped. *)
LEMMA TakenNew ==
  ASSUME Next, NEW id, id \in inNew, id \notin inNew'
  PROVE  Collect(id) \/ (at = "gcReap" /\ id = name)
<1> USE DEF mail
<1>1. CASE GcReapInNew \/ RecoverService
  BY <1>1 DEF GcReapInNew, RemoveAll, RecoverService, DeliverOK, DeliverFails, Publish, NotPublished
<1>2. ASSUME NEW t \in Pool, Worker(t) PROVE FALSE
  BY <1>2 DEF Worker, WorkerService, WorkerRelease, DeliverOK, DeliverFails, Publish, NotPublished
<1>3. CASE Client
  BY <1>3 DEF Client, Request, Resend, Await, Quit, Collect, Collected, Expire
<1>4. ASSUME ~(GcReapInNew \/ RecoverService \/ Client), \A t \in Pool : ~Worker(t) PROVE FALSE
  BY <1>4
     DEF Next, Connect, Serve,
         Recover, RecoverList, RecoverNext, RecoverListNew, RecoverListCur, ListInbox,
         Gc, GcListCollected, GcRemoveOutCur, GcRemoveInCur, GcListUncollected, GcReadAge,
         GcReapOutCur, GcRefused, GcLinkDown,
         Drain, DrainList, DrainNext, DrainListNew, DrainListCur, DrainClear, Reserve, Acquire,
         StartWorker, StartWorkerFails, Tick, BatchDone, OpFails, Close, DropLink, Crash
<1> QED BY <1>1, <1>2, <1>3, <1>4

(* A client that waits has waited before, or requests now; none is new     *)
(* again.                                                                  *)
LEMMA Clients ==
  ASSUME TypeOK, Next, NEW id \in Ids
  PROVE  /\ client'[id] = "new" => client[id] = "new"
         /\ client'[id] = "waiting" => client[id] = "waiting" \/ Request(id)
<1> USE DEF clients, TypeOK
<1>1. CASE Client
  <2>1. ASSUME NEW i \in Ids, Request(i) \/ Resend(i) \/ Await(i) \/ Quit(i) \/ Collect(i) \/ Expire(i)
        PROVE  /\ client'[id] = "new" => client[id] = "new"
               /\ client'[id] = "waiting" => client[id] = "waiting" \/ Request(id)
    BY <2>1 DEF Request, Resend, Await, Quit, Collect, Expire
  <2> QED BY <1>1, <2>1 DEF Client
<1>2. CASE ~Client
  <2>1. client' = client
    BY <1>2
       DEF Next, Connect, Serve,
           Recover, RecoverList, RecoverNext, RecoverListNew, RecoverListCur, ListInbox, RecoverService,
           Gc, GcListCollected, GcRemoveOutCur, GcRemoveInCur, GcListUncollected, GcReadAge,
           GcReapInNew, GcReapOutCur, GcRefused, GcLinkDown,
           Drain, DrainList, DrainNext, DrainListNew, DrainListCur, DrainClear, Reserve, Acquire,
           StartWorker, StartWorkerFails, Tick, BatchDone, OpFails, Close,
           Worker, WorkerService, WorkerRelease, DropLink, Crash
  <2> QED BY <2>1
<1> QED BY <1>1, <1>2

(* A client adds to outbox/new and touches no loop variable. *)
LEMMA ClientPass ==
  ASSUME Client
  PROVE  /\ UNCHANGED <<at, name, todo, outCur, inflight>>
         /\ outNew \subseteq outNew'
BY DEF Client, Request, Resend, Await, Quit, Collect, Expire, mail, loop, drainer

(* The loop variables name requests that are where the loop found them. *)
LEMMA PassStep ==
  ASSUME ExclusionInv, PassInv, [Next]_vars PROVE PassInv'
<1> USE DEF InRecover, InDrain, mail, clients, drainer, Goto, NextName
<1>1. CASE UNCHANGED vars
  BY <1>1 DEF vars, loop, PassInv
<1>2. CASE Client
  BY <1>2, ClientPass DEF PassInv
<1>3. CASE RecoverList \/ RecoverNext \/ RecoverListNew \/ RecoverListCur
  BY <1>3 DEF RecoverList, Stranded, RecoverNext, RecoverListNew, RecoverListCur, ListInbox,
              AfterRecover, PassInv
<1>4. CASE RecoverService
  BY <1>4 DEF RecoverService, ReturnErr, PassInv
<1>5. CASE Gc
  <2>1. at' \notin InRecover \cup InDrain \cup {"drainNext"}
    BY <1>5
       DEF Gc, GcListCollected, GcRemoveOutCur, GcRemoveInCur, GcListUncollected, GcReadAge,
           GcReapInNew, GcReapOutCur, GcRefused, GcLinkDown, GcLabels, AfterGc
  <2> QED BY <2>1 DEF PassInv
<1>6. CASE DrainList \/ DrainNext \/ DrainListNew \/ DrainListCur \/ Reserve \/ Acquire
  BY <1>6 DEF DrainList, DrainNext, DrainListNew, DrainListCur, ListInbox, Reserve, Acquire, PassInv
<1>7. CASE DrainClear \/ StartWorker
  BY <1>7 DEF DrainClear, StartWorker, PickUp, PassInv
<1>8. CASE StartWorkerFails \/ OpFails
  BY <1>8 DEF StartWorkerFails, OpFails, ReturnErr, PassInv
<1>9. ASSUME NEW t \in Pool, Worker(t) PROVE PassInv'
  BY <1>9 DEF Worker, WorkerService, WorkerRelease, loop, PassInv
<1>10. CASE Connect \/ Tick \/ BatchDone \/ Close \/ Crash
  BY <1>10 DEF Connect, Tick, BatchDone, Close, Crash, PassInv
<1>11. CASE DropLink
  BY <1>11 DEF DropLink, loop, PassInv
<1> QED BY <1>1, <1>2, <1>3, <1>4, <1>5, <1>6, <1>7, <1>8, <1>9, <1>10, <1>11
        DEF Next, Serve, Recover, Drain

(* Only reserve makes the drainer own a request. *)
LEMMA Reserves ==
  ASSUME Next, NEW id, id \in inflight', id \notin inflight
  PROVE  at = "reserve" /\ id = name
<1> USE DEF drainer, Release
<1>1. CASE Reserve
  BY <1>1 DEF Reserve
<1>2. CASE Acquire \/ StartWorkerFails \/ Crash
  BY <1>2 DEF Acquire, StartWorkerFails, Crash
<1>3. ASSUME NEW t \in Pool, Worker(t) PROVE FALSE
  BY <1>3 DEF Worker, WorkerService, WorkerRelease
<1>4. CASE Client \/ Connect \/ Recover \/ Gc \/ Tick \/ BatchDone \/ OpFails \/ Close \/ DropLink
  BY <1>4
     DEF Client, Request, Resend, Await, Quit, Collect, Expire, Connect,
         Recover, RecoverList, RecoverNext, RecoverListNew, RecoverListCur, ListInbox, RecoverService,
         Gc, GcListCollected, GcRemoveOutCur, GcRemoveInCur, GcListUncollected, GcReadAge,
         GcReapInNew, GcReapOutCur, GcRefused, GcLinkDown,
         Tick, BatchDone, OpFails, Close, DropLink
<1>5. CASE DrainList \/ DrainNext \/ DrainListNew \/ DrainListCur \/ DrainClear \/ StartWorker
  BY <1>5 DEF DrainList, DrainNext, DrainListNew, DrainListCur, ListInbox, DrainClear, StartWorker
<1> QED BY <1>1, <1>2, <1>3, <1>4, <1>5 DEF Next, Serve, Drain

(* Every request the dispatcher comes to know of was known or is requested *)
(* in that step.                                                           *)
LEMMA SeenStep ==
  ASSUME ExclusionInv, SeenInv, PassInv, [Next]_vars PROVE SeenInv'
<1>1. CASE UNCHANGED vars
  BY <1>1 DEF vars, mail, clients, drainer, SeenInv
<1>2. CASE Next
  <2> USE <1>2
  <2>0. TypeOK /\ outNew' \cup outCur' \cup inflight' \subseteq Ids
    BY TypeStep DEF ExclusionInv, TypeOK
  <2>1. ASSUME NEW id \in Ids, client'[id] = "new" PROVE client[id] = "new"
    BY <2>0, <2>1, Clients
  <2>2. ASSUME NEW id \in outNew' \cup outCur' PROVE client'[id] # "new"
    <3>1. CASE id \in outNew \cup outCur
      BY <2>0, <2>1, <2>2, <3>1 DEF SeenInv
    <3>2. CASE id \notin outNew \cup outCur
      <4>1. Request(id) \/ Resend(id)
        BY <2>0, <2>2, <3>2, Requested
      <4> QED BY <2>0, <2>2, <4>1 DEF Request, Resend, TypeOK
    <3> QED BY <3>1, <3>2
  <2>3. ASSUME NEW id \in inflight' PROVE client'[id] # "new"
    <3>1. CASE id \in inflight
      BY <2>0, <2>1, <2>3, <3>1 DEF SeenInv
    <3>2. CASE id \notin inflight
      <4>1. id = name /\ name \in outNew
        BY <2>3, <3>2, Reserves DEF PassInv, InDrain
      <4> QED BY <2>0, <2>1, <2>3, <4>1 DEF SeenInv
    <3> QED BY <3>1, <3>2
  <2>4. ASSUME NEW id \in Ids, answers'[id] > 0 PROVE client'[id] # "new"
    <3>1. CASE answers'[id] = answers[id]
      BY <2>1, <2>4, <3>1 DEF SeenInv
    <3>2. CASE answers'[id] # answers[id]
      <4>1. id \in outCur \cup inflight
        BY <2>0, <3>2, Answers DEF PassInv, InRecover, ExclusionInv, JobInv, Busy
      <4> QED BY <2>1, <2>4, <4>1 DEF SeenInv
    <3> QED BY <3>1, <3>2
  <2> QED BY <2>2, <2>3, <2>4 DEF SeenInv
<1> QED BY <1>1, <1>2

(* Only gc's reading of an age leads to the two deletes of the sweep. *)
LEMMA Sweeps ==
  ASSUME Next, at' \in {"gcReap", "gcReapCur"}
  PROVE  \/ at \in {"gcReap", "gcReapCur"} /\ name' = name
         \/ at = "gcUncollected" /\ name' \in aged /\ UNCHANGED <<client, aged>>
<1> USE DEF mail, clients, Goto, NextName
<1>1. CASE Client \/ DropLink
  BY <1>1 DEF Client, Request, Resend, Await, Quit, Collect, Expire, DropLink, loop
<1>2. CASE Gc
  BY <1>2
     DEF Gc, GcListCollected, GcRemoveOutCur, GcRemoveInCur, GcListUncollected, GcReadAge,
         GcReapInNew, GcReapOutCur, GcRefused, GcLinkDown, AfterGc, AbandonedMail
<1>3. ASSUME NEW t \in Pool, Worker(t) PROVE at' = at /\ name' = name
  BY <1>3 DEF Worker, WorkerService, WorkerRelease, loop
<1>4. CASE Connect \/ Recover \/ Drain \/ Tick \/ BatchDone \/ OpFails \/ Close \/ Crash
  BY <1>4
     DEF Connect, Recover, RecoverList, RecoverNext, RecoverListNew, RecoverListCur, ListInbox,
         RecoverService, AfterRecover, ReturnErr,
         Drain, DrainList, DrainNext, DrainListNew, DrainListCur, DrainClear, Reserve, Acquire,
         StartWorker, StartWorkerFails, Tick, BatchDone, OpFails, Close, Crash
<1> QED BY <1>1, <1>2, <1>3, <1>4 DEF Next, Serve

(* A response only ages once nobody waits for it. *)
LEMMA Ages ==
  ASSUME Next, NEW id, id \in aged', id \notin aged PROVE Expire(id) /\ id \in Ids
<1>1. CASE Client
  BY <1>1 DEF Client, Request, Resend, Await, Quit, Collect, Collected, Expire, mail
<1>2. CASE ~Client
  BY <1>2
     DEF Next, mail, Connect, Serve, Publish, NotPublished, DeliverOK, DeliverFails, RemoveAll,
         Recover, RecoverList, RecoverNext, RecoverListNew, RecoverListCur, ListInbox, RecoverService,
         Gc, GcListCollected, GcRemoveOutCur, GcRemoveInCur, GcListUncollected, GcReadAge,
         GcReapInNew, GcReapOutCur, GcRefused, GcLinkDown,
         Drain, DrainList, DrainNext, DrainListNew, DrainListCur, DrainClear, Reserve, Acquire,
         StartWorker, StartWorkerFails, Tick, BatchDone, OpFails, Close,
         Worker, WorkerService, WorkerRelease, DropLink, Crash
<1> QED BY <1>1, <1>2

(* The response of a client that waits stays in inbox/new until it is read *)
(* from there.                                                             *)
LEMMA WaitStep ==
  ASSUME ExclusionInv, LossInv, SeenInv, WaitInv, [Next]_vars PROVE WaitInv'
<1>1. CASE UNCHANGED vars
  BY <1>1 DEF vars, mail, clients, loop, WaitInv
<1>2. CASE Next
  <2> USE <1>2
  <2>0. TypeOK /\ TypeOK' /\ LossInv'
    BY TypeStep, LossStep DEF ExclusionInv
  <2>1. ASSUME NEW id \in Ids, answers[id] > 0, client'[id] = "waiting" PROVE client[id] = "waiting"
    BY <2>0, <2>1, Clients DEF SeenInv, Request
  <2>2. ASSUME NEW id \in Ids, client'[id] = "waiting", answers'[id] > 0 PROVE id \in inNew'
    <3>1. CASE answers'[id] # answers[id]
      BY <2>0, <3>1, Answers
    <3>2. CASE answers'[id] = answers[id]
      <4>1. client[id] = "waiting" /\ id \in inNew
        BY <2>1, <2>2, <3>2 DEF WaitInv
      <4>2. ~Collect(id)
        BY <2>0, <2>2 DEF Collect, TypeOK
      <4>3. ~(at = "gcReap" /\ id = name)
        BY <4>1 DEF WaitInv
      <4> QED BY <4>1, <4>2, <4>3, TakenNew
    <3> QED BY <3>1, <3>2
  <2>3. ASSUME NEW id \in aged' PROVE client'[id] # "waiting"
    <3>1. id \in Ids /\ answers'[id] > 0
      BY <2>0, <2>3 DEF TypeOK, LossInv, MailInv
    <3>2. CASE id \in aged
      <4>1. answers[id] > 0
        BY <2>0, <3>2 DEF TypeOK, LossInv, MailInv
      <4> QED BY <2>1, <3>1, <3>2, <4>1 DEF WaitInv
    <3>3. CASE id \notin aged
      BY <2>3, <3>3, Ages DEF Expire, clients
    <3> QED BY <3>2, <3>3
  <2>4. ASSUME at' \in {"gcReap", "gcReapCur"} PROVE client'[name'] # "waiting"
    <3>1. CASE at \in {"gcReap", "gcReapCur"} /\ name' = name
      <4>1. name \in Ids /\ answers[name] > 0
        BY <3>1 DEF LossInv, SweepInv
      <4> QED BY <2>1, <3>1, <4>1 DEF WaitInv
    <3>2. CASE name' \in aged /\ UNCHANGED <<client, aged>>
      BY <3>2 DEF WaitInv
    <3> QED BY <2>4, <3>1, <3>2, Sweeps
  <2> QED BY <2>2, <2>3, <2>4 DEF WaitInv
<1> QED BY <1>1, <1>2

(* A step that answers nothing forgets no orphan, and one beside gc's      *)
(* deletes makes none.                                                     *)
LEMMA Orphans ==
  ASSUME [HistoryNext]_historyVars
  PROVE  /\ \A id \in orphaned : answers'[id] = answers[id] => id \in orphaned'
         /\ at' = at \/ at \notin {"gcInCur", "gcReapCur"} =>
              \A id : id \in orphaned' => id \in orphaned /\ answers'[id] = answers[id]
BY DEF HistoryNext, historyVars, vars, mail, Halved

(* Between its two deletes the retention sweep keeps its request in hand. *)
LEMMA SweepStays ==
  ASSUME Next, at = "gcReapCur", at' = "gcReapCur" PROVE name' = name
BY Sweeps

(* An answered request loses its response only to gc, and is an orphan     *)
(* when gc leaves it.                                                      *)
LEMMA KeptStep ==
  ASSUME ExclusionInv, SeenInv, WaitInv, KeptInv, PassInv, [HistoryNext]_historyVars PROVE KeptInv'
<1>1. CASE UNCHANGED historyVars
  BY <1>1 DEF historyVars, vars, mail, loop, KeptInv, Inbox
<1>2. CASE HistoryNext
  <2>0. Next /\ TypeOK /\ TypeOK'
    BY <1>2, TypeStep DEF HistoryNext, ExclusionInv
  <2> SUFFICES ASSUME NEW id \in outNew' \cup outCur', answers'[id] > 0, id \notin Inbox', id \notin orphaned'
               PROVE  at' = "gcReapCur" /\ id = name'
    BY DEF KeptInv
  <2>1. id \in Ids /\ answers'[id] = answers[id]
    BY <2>0, Answers DEF Inbox, TypeOK
  <2>2. id \notin orphaned
    BY <2>1, Orphans
  <2>3. CASE id \notin outNew \cup outCur
    <3>1. Request(id) \/ Resend(id)
      BY <2>0, <2>1, <2>3, Requested
    <3>2. client[id] = "waiting" /\ inNew' = inNew
      BY <2>1, <3>1 DEF Request, Resend, SeenInv
    <3> QED BY <2>1, <3>2 DEF WaitInv, Inbox
  <2>4. CASE id \in outNew \cup outCur /\ id \in Inbox
    <3>1. /\ id = name
          /\ \/ at = "gcInCur" /\ at' = "gcCollected"
             \/ at = "gcReap" /\ at' = "gcReapCur" /\ name' = name
      BY <2>0, <2>4, Deletes
    <3>2. CASE at = "gcInCur" /\ at' = "gcCollected"
      <4>1. Halved(id)
        BY <3>1, <3>2 DEF Halved, Inbox
      <4> QED BY <1>2, <2>1, <4>1 DEF HistoryNext
    <3> QED BY <3>1, <3>2
  <2>5. CASE id \in outNew \cup outCur /\ id \notin Inbox
    <3>1. at = "gcReapCur" /\ id = name
      BY <2>1, <2>2, <2>5 DEF KeptInv
    <3>2. CASE at' # at
      <4>1. Halved(id)
        BY <3>1, <3>2 DEF Halved, Inbox
      <4> QED BY <1>2, <2>1, <4>1 DEF HistoryNext
    <3> QED BY <2>0, <3>1, <3>2, SweepStays
  <2> QED BY <2>3, <2>4, <2>5
<1> QED BY <1>1, <1>2

(* The history variables do not constrain the dispatcher. *)
LEMMA HistoryIsSpec == HistorySpec => Spec
<1>1. HistoryInit => Init
  BY DEF HistoryInit
<1>2. [HistoryNext]_historyVars => [Next]_vars
  BY DEF HistoryNext, historyVars
<1> QED BY <1>1, <1>2, PTL DEF HistorySpec, Spec

(* What has been answered is with its response or an orphan, in every      *)
(* reachable state of every instance.                                      *)
THEOREM OnceHolds == HistorySpec => []OnceInv
<1>1. HistoryInit => OnceInv /\ LossInv
  BY DEF HistoryInit, Init, OnceInv, SeenInv, WaitInv, KeptInv, PassInv, InRecover, InDrain,
         LossInv, MailInv, SweepInv, Sweep, NothingLost
<1>2. ExclusionInv /\ LossInv /\ OnceInv /\ [HistoryNext]_historyVars => LossInv' /\ OnceInv'
  <2> SUFFICES ASSUME ExclusionInv, LossInv, OnceInv, [HistoryNext]_historyVars PROVE LossInv' /\ OnceInv'
    OBVIOUS
  <2>1. [Next]_vars
    BY DEF HistoryNext, historyVars
  <2> QED BY <2>1, LossStep, SeenStep, WaitStep, KeptStep, PassStep DEF OnceInv
<1> QED BY <1>1, <1>2, HistoryIsSpec, ExclusionHolds, PTL DEF HistorySpec

-----------------------------------------------------------------------------
(* Dispatch implements EffectivelyOnce.                                    *)

AbstractStep == [Abstract!Next]_(Abstract!vars)

(* Handlers that only end, some perhaps without an answer, and answers     *)
(* that are forgotten: a step of the abstract Mishap, or a stutter.        *)
LEMMA MishapRefines ==
  ASSUME Running' \subseteq Running,
         \A id \in Ids : \/ Status(id)' = Status(id)
                         \/ Status(id) = "answered" /\ Status(id)' = "forgotten"
  PROVE  AbstractStep
<1>1. [id \in Ids |-> Status(id)]' \in [Ids -> Abstract!Statuses]
  BY DEF Status, Abstract!Statuses
<1>2. Abstract!Mishap
  BY <1>1 DEF Abstract!Mishap
<1> QED BY <1>2 DEF AbstractStep, Abstract!Next

(* A step beside gc that answers nothing leaves every status as it is, if  *)
(* it publishes no request.                                                *)
LEMMA StatusKept ==
  ASSUME [HistoryNext]_historyVars, UNCHANGED <<answers, client>>,
         at' = at \/ at \notin {"gcInCur", "gcReapCur"}
  PROVE  \A id \in Ids : Status(id)' = Status(id)
<1>1. \A id \in Ids : id \in orphaned' <=> id \in orphaned
  BY Orphans
<1> QED BY <1>1 DEF Status

(* The handler of a request that is unanswered, or an orphan, starts. *)
LEMMA BeginRefines ==
  ASSUME [HistoryNext]_historyVars,
         NEW id \in Ids, client[id] # "new", answers[id] > 0 => id \in orphaned, id \notin Running,
         Running \subseteq Ids,
         \A other \in Running : KeySet(other) \cap KeySet(id) = {},
         Cardinality(Running) < Cardinality(Pool),
         Running' = Running \cup {id}, UNCHANGED <<answers, client>>,
         TypeOK, at' = at \/ at \notin {"gcInCur", "gcReapCur"}
  PROVE  AbstractStep
<1>1. Status(id) \in {"pending", "forgotten"} /\ \A i \in Ids : Status(i)' = Status(i)
  BY StatusKept DEF Status, TypeOK
<1>2. \A other \in Running : resourceKey(id) = NoKey \/ resourceKey(other) # resourceKey(id)
  BY DEF KeySet
<1>3. Abstract!Begin(id)
  <2>1. [i \in Ids |-> Status(i)]' = [i \in Ids |-> Status(i)]
    BY <1>1
  <2>2. \A other \in Running :
          \/ [i \in Ids |-> resourceKey(i)][id] = NoKey
          \/ [i \in Ids |-> resourceKey(i)][other] # [i \in Ids |-> resourceKey(i)][id]
    BY <1>2
  <2>3. Abstract!Cardinality(Running) = Cardinality(Running)
    BY DEF Abstract!Cardinality, Cardinality
  <2> QED BY <1>1, <2>1, <2>2, <2>3 DEF Abstract!Begin
<1> QED BY <1>3 DEF AbstractStep, Abstract!Next

(* A delivery ends a handler, with the answer or without. *)
LEMMA DeliverRefines ==
  ASSUME [HistoryNext]_historyVars, at' = at \/ at \notin {"gcInCur", "gcReapCur"},
         TypeOK, NEW id \in Ids, client[id] # "new", id \in Running,
         Running' = Running \ {id}, UNCHANGED client, Publish(id) \/ NotPublished
  PROVE  AbstractStep
<1>1. CASE NotPublished
  BY <1>1, StatusKept, MishapRefines DEF NotPublished
<1>2. CASE Publish(id)
  <2>1. answers'[id] = answers[id] + 1 /\ answers[id] \in Nat /\ \A i \in Ids : i # id => answers'[i] = answers[i]
    BY <1>2 DEF TypeOK, Publish
  <2>2. id \notin orphaned' /\ \A i \in Ids : i # id => (i \in orphaned' <=> i \in orphaned)
    BY <2>1, Orphans
  <2>3. Status(id)' = "answered" /\ \A i \in Ids : i # id => Status(i)' = Status(i)
    BY <2>1, <2>2 DEF Status
  <2>4. Abstract!Answer(id)
    BY <2>3 DEF Abstract!Answer
  <2> QED BY <2>4 DEF AbstractStep, Abstract!Next
<1> QED BY <1>1, <1>2

(* Besides recover, Running is what the workers have begun. *)
LEMMA RunningBegun ==
  ASSUME ExclusionInv
  PROVE  /\ at # "recoverRun" => Running = Begun
         /\ at \in InRecover => Begun = {}
         /\ at = "recoverRun" => Running = {name}
         /\ Begun \subseteq Ids
<1>1. at \in InRecover => Begun = {}
  BY DEF InRecover, ExclusionInv, TokenInv, Quiet, Busy, Begun
<1>2. Begun \subseteq Ids
  BY DEF Begun, ExclusionInv, JobInv, TypeOK, Busy
<1> QED BY <1>1, <1>2 DEF Running, Begun, InRecover

(* A token the drain goroutine holds is not one of a running handler. *)
LEMMA RoomForOne ==
  ASSUME TypeOK, NEW t \in Pool, stage[t] = "held"
  PROVE  Cardinality(Begun) < Cardinality(Pool)
<1> DEFINE R == {u \in Pool : stage[u] = "run"}
           f == [u \in R |-> job[u]]
<1>1. IsFiniteSet(Pool \ {t}) /\ Cardinality(Pool \ {t}) = Cardinality(Pool) - 1
  BY DispatchAssumption, FS_RemoveElement
<1>2. R \in SUBSET (Pool \ {t})
  OBVIOUS
<1>3. IsFiniteSet(R) /\ Cardinality(R) <= Cardinality(Pool \ {t})
  <2> HIDE DEF R
  <2> QED BY <1>1, <1>2, FS_Subset
<1>4. f \in Surjection(R, Begun)
  BY DEF Surjection, Begun
<1>5. IsFiniteSet(Begun) /\ Cardinality(Begun) <= Cardinality(R)
  <2> HIDE DEF R, f
  <2> QED BY <1>3, <1>4, FS_Surjection
<1>6. Cardinality(Begun) \in Nat /\ Cardinality(R) \in Nat /\ Cardinality(Pool) \in Nat
  <2> HIDE DEF R
  <2> QED BY <1>3, <1>5, DispatchAssumption, FS_CardinalityType
<1> HIDE DEF R, f
<1> QED BY <1>1, <1>3, <1>5, <1>6

(* A step that starts no handler and publishes nothing. *)
LEMMA QuietRefines ==
  ASSUME [HistoryNext]_historyVars, Begun' \subseteq Begun, UNCHANGED <<answers, client>>,
         at' = "recoverRun" => at = "recoverRun" /\ name' = name
  PROVE  AbstractStep
<1>1. Running' \subseteq Running
  BY DEF Running, Begun
<1>2. \A id \in Ids : id \in orphaned => id \in orphaned'
  BY Orphans
<1>3. \A id \in Ids : \/ Status(id)' = Status(id)
                      \/ Status(id) = "answered" /\ Status(id)' = "forgotten"
  BY <1>2 DEF Status
<1> QED BY <1>1, <1>3, MishapRefines

(* Publishing a request is the abstract Submit; the rest of a client's     *)
(* steps are invisible.                                                    *)
LEMMA ClientRefines ==
  ASSUME [HistoryNext]_historyVars, TypeOK, OnceInv, Client PROVE AbstractStep
<1>1. ASSUME NEW id \in Ids, Request(id) PROVE AbstractStep
  <2>1. client[id] = "new" /\ client'[id] = "waiting" /\ UNCHANGED <<answers, at, name, stage, job>>
    BY <1>1 DEF Request, TypeOK, loop, drainer
  <2>2. \A i \in Ids : i # id => client'[i] = client[i]
    BY <1>1 DEF Request, TypeOK
  <2>3. answers[id] = 0
    BY <2>1 DEF OnceInv, SeenInv, TypeOK
  <2>7. \A i \in Ids : i \in orphaned' <=> i \in orphaned
    BY <2>1, Orphans
  <2>4. Status(id) = "new" /\ Status(id)' = "pending" /\ \A i \in Ids : i # id => Status(i)' = Status(i)
    BY <2>1, <2>2, <2>3, <2>7 DEF Status
  <2>5. Running' = Running
    BY <2>1 DEF Running
  <2>6. Abstract!Submit(id)
    BY <2>4, <2>5 DEF Abstract!Submit
  <2> QED BY <2>6 DEF AbstractStep, Abstract!Next
<1>2. ASSUME NEW id \in Ids, Resend(id) \/ Await(id) \/ Quit(id) \/ Collect(id) \/ Expire(id)
      PROVE  AbstractStep
  <2>1. UNCHANGED <<answers, at, name, stage, job>>
    BY <1>2 DEF Resend, Await, Quit, Collect, Expire, mail, loop, drainer
  <2>2. \A i \in Ids : client'[i] = "new" <=> client[i] = "new"
    BY <1>2 DEF Resend, Await, Quit, Collect, Expire, clients, TypeOK
  <2>3. \A i \in Ids : i \in orphaned' <=> i \in orphaned
    BY <2>1, Orphans
  <2>4. Running' = Running /\ \A i \in Ids : Status(i)' = Status(i)
    BY <2>1, <2>2, <2>3 DEF Running, Status
  <2> QED BY <2>4, MishapRefines
<1> QED BY <1>1, <1>2 DEF Client

(* recover begins a request that it found in neither listing.              *)
LEMMA RecoverRefines ==
  ASSUME [HistoryNext]_historyVars, ExclusionInv, InboxInv, OnceInv, Recover PROVE AbstractStep
<1> USE DEF mail, clients, drainer, Goto, NextName
<1>1. CASE RecoverList \/ RecoverNext \/ RecoverListNew
  BY <1>1, QuietRefines DEF RecoverList, RecoverNext, RecoverListNew, ListInbox, AfterRecover, Begun
<1>2. CASE RecoverListCur /\ at' # "recoverRun"
  BY <1>2, QuietRefines DEF RecoverListCur, ListInbox, Begun
<1>3. CASE RecoverListCur /\ at' = "recoverRun"
  <2>1. /\ at = "recoverCur" /\ name' = name /\ name \notin inCur
        /\ UNCHANGED <<answers, client, stage, job>>
    BY <1>3 DEF RecoverListCur, ListInbox, InboxDir
  <2>2. name \in Ids /\ name \in outCur
    BY <2>1 DEF ExclusionInv, LoopInv, Named, OnceInv, PassInv, InRecover
  <2>3. client[name] # "new" /\ (answers[name] > 0 => name \in orphaned)
    BY <2>1, <2>2 DEF OnceInv, SeenInv, KeptInv, InboxInv, Inbox
  <2>4. Running = {} /\ Running' = {name}
    BY <2>1, RunningBegun, <1>3 DEF InRecover, Running, Begun
  <2>5. Cardinality(Running) < Cardinality(Pool)
    <3>1. Cardinality({}) = 0 /\ Cardinality(Pool) # 0 /\ Cardinality(Pool) \in Nat
      BY DispatchAssumption, FS_EmptySet, FS_CardinalityType
    <3> QED BY <2>4, <3>1
  <2> QED BY <2>1, <2>2, <2>3, <2>4, <2>5, BeginRefines DEF ExclusionInv
<1>4. CASE RecoverService
  <2>1. at = "recoverRun" /\ name \in Ids /\ name \in outCur
    BY <1>4 DEF RecoverService, ExclusionInv, LoopInv, Named, OnceInv, PassInv, InRecover
  <2>2. Publish(name) \/ NotPublished
    BY <1>4 DEF RecoverService, DeliverOK, DeliverFails
  <2>3. client[name] # "new"
    BY <2>1 DEF OnceInv, SeenInv
  <2>4. Running = {name} /\ Begun = {}
    BY <2>1, RunningBegun DEF InRecover
  <2>5. at' # "recoverRun" /\ UNCHANGED <<client, stage, job>>
    BY <1>4 DEF RecoverService, ReturnErr
  <2>6. Running' = {}
    BY <2>4, <2>5 DEF Running, Begun
  <2> QED BY <2>1, <2>2, <2>3, <2>4, <2>5, <2>6, DeliverRefines DEF ExclusionInv
<1> QED BY <1>1, <1>2, <1>3, <1>4 DEF Recover

(* gc is invisible, unless it forgets an answer. *)
LEMMA GcRefines == ASSUME [HistoryNext]_historyVars, Gc PROVE AbstractStep
BY QuietRefines DEF Gc, GcListCollected, GcRemoveOutCur, GcRemoveInCur, GcListUncollected,
  GcReadAge, GcReapInNew, GcReapOutCur, GcRefused, GcLinkDown, GcLabels, AfterGc, Begun,
  mail, clients, drainer, Goto, NextName

(* Starting a worker is the abstract Begin. *)
LEMMA DrainRefines ==
  ASSUME [HistoryNext]_historyVars, ExclusionInv, InboxInv, OnceInv, Drain PROVE AbstractStep
<1> USE DEF mail, clients, Goto, NextName
<1>1. CASE DrainList \/ DrainNext \/ DrainListNew \/ DrainListCur \/ DrainClear \/ Reserve
  BY <1>1, QuietRefines
     DEF DrainList, DrainNext, DrainListNew, DrainListCur, ListInbox, DrainClear, Reserve, drainer, Begun
<1>2. CASE Acquire
  <2>1. UNCHANGED <<answers, client>> /\ at' # "recoverRun"
    BY <1>2 DEF Acquire
  <2>2. Begun' \subseteq Begun
    <3>1. CASE UNCHANGED <<stage, job>>
      BY <3>1 DEF Begun
    <3>2. ASSUME NEW t \in Pool, stage' = [stage EXCEPT ![t] = "held"], job' = [job EXCEPT ![t] = name]
          PROVE  Begun' \subseteq Begun
      BY <3>2 DEF Begun, ExclusionInv, TypeOK
    <3> QED BY <1>2, <3>1, <3>2 DEF Acquire
  <2> QED BY <2>1, <2>2, QuietRefines
<1>3. CASE StartWorker
  <2>1. at = "pickup" /\ at' = "drainNext" /\ UNCHANGED <<answers, client, job>>
    BY <1>3 DEF StartWorker
  <2>2. name \in Ids /\ name \in outNew
    BY <2>1 DEF ExclusionInv, LoopInv, Named, OnceInv, PassInv, InDrain
  <2>3. client[name] # "new" /\ (answers[name] > 0 => name \in orphaned)
    BY <2>1, <2>2 DEF OnceInv, SeenInv, KeptInv, InboxInv
  <2>4. PICK t \in Pool : stage[t] = "held" /\ stage' = [stage EXCEPT ![t] = "run"]
    BY <1>3 DEF StartWorker
  <2>5. job[t] = name
    BY <2>4 DEF ExclusionInv, TokenInv
  <2>6. Running = Begun /\ Begun \subseteq Ids
    BY <2>1, RunningBegun
  <2>7. Running' = Running \cup {name}
    <3>1. Running' = Begun'
      BY <2>1 DEF Running, Begun
    <3>2. Begun' = Begun \cup {name}
      BY <2>1, <2>4, <2>5 DEF Begun, ExclusionInv, TypeOK
    <3> QED BY <2>6, <3>1, <3>2
  <2>8. \A other \in Begun : KeySet(other) \cap KeySet(name) = {}
    BY <2>4, <2>5 DEF Begun, ExclusionInv, OwnerInv, Busy
  <2>9. name \notin Begun
    BY <2>4, <2>5 DEF Begun, ExclusionInv, OwnerInv, Busy
  <2>10. Cardinality(Begun) < Cardinality(Pool)
    BY <2>4, RoomForOne DEF ExclusionInv
  <2> QED BY <2>1, <2>2, <2>3, <2>6, <2>7, <2>8, <2>9, <2>10, BeginRefines DEF ExclusionInv
<1>4. CASE StartWorkerFails
  <2>1. UNCHANGED <<answers, client>> /\ at' # "recoverRun"
    BY <1>4 DEF StartWorkerFails, ReturnErr
  <2>2. PICK t \in Pool : stage[t] = "held" /\ GiveBack(t)
    BY <1>4 DEF StartWorkerFails
  <2>3. Begun' \subseteq Begun
    BY <2>2 DEF GiveBack, Begun, ExclusionInv, TypeOK
  <2> QED BY <2>1, <2>3, QuietRefines
<1> QED BY <1>1, <1>2, <1>3, <1>4 DEF Drain

(* A worker's delivery is the abstract Answer, or abandons its request. *)
LEMMA WorkerRefines ==
  ASSUME [HistoryNext]_historyVars, ExclusionInv, OnceInv, NEW t \in Pool, Worker(t) PROVE AbstractStep
<1>1. CASE WorkerService(t)
  <2>1. stage[t] = "run" /\ stage' = [stage EXCEPT ![t] = "done"] /\ UNCHANGED <<client, job, at, name>>
    BY <1>1 DEF WorkerService, clients, loop
  <2>2. job[t] \in Ids /\ at # "recoverRun"
    BY <2>1 DEF ExclusionInv, TypeOK, JobInv, TokenInv, Quiet, Busy
  <2>3. Publish(job[t]) \/ NotPublished
    BY <1>1 DEF WorkerService, DeliverOK, DeliverFails
  <2>4. client[job[t]] # "new"
    BY <2>1 DEF OnceInv, SeenInv, ExclusionInv, JobInv, Busy
  <2>5. job[t] \in Begun /\ Running = Begun /\ Running' = Begun'
    BY <2>1, <2>2 DEF Begun, Running
  <2>6. \A u \in Pool : u # t /\ stage[u] = "run" => job[u] # job[t]
    BY <2>1 DEF ExclusionInv, OwnerInv, Busy
  <2>7. Begun' = Begun \ {job[t]}
    BY <2>1, <2>6 DEF Begun, ExclusionInv, TypeOK
  <2> QED BY <2>1, <2>2, <2>3, <2>4, <2>5, <2>7, DeliverRefines DEF ExclusionInv
<1>2. CASE WorkerRelease(t)
  <2>1. UNCHANGED <<answers, client, at, name>>
    BY <1>2 DEF WorkerRelease, mail, clients, loop
  <2>2. Begun' \subseteq Begun
    BY <1>2 DEF WorkerRelease, GiveBack, Begun, ExclusionInv, TypeOK
  <2> QED BY <2>1, <2>2, QuietRefines
<1> QED BY <1>1, <1>2 DEF Worker

(* The end of a session abandons what runs; the rest is invisible. *)
LEMMA SessionRefines ==
  ASSUME [HistoryNext]_historyVars, Connect \/ Tick \/ BatchDone \/ OpFails \/ Close \/ DropLink \/ Crash
  PROVE  AbstractStep
<1> USE DEF mail, clients, Goto, NextName, Begun
<1>1. CASE Connect \/ Tick \/ BatchDone \/ OpFails \/ Close
  BY <1>1, QuietRefines DEF Connect, Tick, BatchDone, OpFails, ReturnErr, Close, drainer
<1>2. CASE DropLink
  BY <1>2, QuietRefines DEF DropLink, loop, drainer
<1>3. CASE Crash
  BY <1>3, QuietRefines DEF Crash
<1> QED BY <1>1, <1>2, <1>3

(* Every step of the dispatcher is a step of the promise or a stutter. *)
LEMMA StepRefines ==
  ASSUME ExclusionInv, InboxInv, OnceInv, [HistoryNext]_historyVars PROVE AbstractStep
<1>1. CASE UNCHANGED historyVars
  BY <1>1, QuietRefines DEF historyVars, vars, mail, clients, loop, drainer, Begun
<1>2. CASE HistoryNext
  BY <1>2, ClientRefines, RecoverRefines, GcRefines, DrainRefines, WorkerRefines, SessionRefines
     DEF HistoryNext, Next, Serve, ExclusionInv
<1> QED BY <1>1, <1>2

(* The dispatcher implements the effectively-once protocol, whatever the   *)
(* faults, repeated deliveries and retention sweeps.                       *)
THEOREM RefinesHolds == HistorySpec => Refines
<1>1. HistoryInit => Abstract!Init
  BY DEF HistoryInit, Init, Abstract!Init, Status, Running
<1>2. ExclusionInv /\ InboxInv /\ OnceInv /\ [HistoryNext]_historyVars => [Abstract!Next]_(Abstract!vars)
  BY StepRefines DEF AbstractStep
<1> QED BY <1>1, <1>2, HistoryIsSpec, ExclusionHolds, InboxHolds, OnceHolds, PTL
        DEF HistorySpec, Refines, Abstract!Spec

(* An answered request is serviced again only as an orphan: the promise    *)
(* begins no other.                                                        *)
THEOREM AnsweredNeverRerunHolds == HistorySpec => AnsweredNeverRerun
<1>1. ASSUME ExclusionInv, InboxInv, OnceInv, [HistoryNext]_historyVars
      PROVE  [\A id \in Ids : Starts(id) => answers[id] = 0 \/ id \in orphaned]_historyVars
  <2> SUFFICES ASSUME NEW id \in Ids, id \in Running' \ Running
               PROVE  answers[id] = 0 \/ id \in orphaned
    BY DEF Starts
  <2>1. ~(Running' \subseteq Running)
    OBVIOUS
  <2>2. Abstract!Next
    BY <1>1, <2>1, StepRefines DEF AbstractStep, Abstract!vars
  <2>3. ~Abstract!Mishap
    BY <2>1 DEF Abstract!Mishap
  <2>4. PICK other \in Ids : Abstract!Submit(other) \/ Abstract!Begin(other) \/ Abstract!Answer(other)
    BY <2>2, <2>3 DEF Abstract!Next
  <2>5. Abstract!Begin(other) /\ other = id
    BY <2>1, <2>4 DEF Abstract!Submit, Abstract!Begin, Abstract!Answer
  <2> QED BY <2>5 DEF Abstract!Begin, Status
<1> QED BY <1>1, HistoryIsSpec, ExclusionHolds, InboxHolds, OnceHolds, PTL DEF HistorySpec, AnsweredNeverRerun

-----------------------------------------------------------------------------
(* `serve --once` returns when everything it found is answered.            *)

InPass == InDrain \cup {"drainNext", "idle"}

\* What the drainer owns, a worker or the loop has, and no key is in use beside.
OwnedInv ==
  /\ \A id \in inflight : \/ at = "acquire" /\ id = name
                          \/ \E t \in Pool : Busy(t) /\ job[t] = id
  /\ active \subseteq UNION {KeySet(id) : id \in inflight}

(* What recover has passed is answered; after it, what is in outbox/cur is *)
(* answered or with a worker, unless the workers' context is cancelled.    *)
RecoveredInv ==
  /\ at \in InRecover =>
       \A id \in outCur : id \in todo \/ (id = name /\ at # "recover") \/ answers[id] > 0
  /\ at = "drainClear" => answers[name] > 0
  /\ mode = "once" /\ at \in InPass \cup {"drain"} /\ workCtx =>
       \A id \in outCur : answers[id] > 0 \/ \E t \in Pool : stage[t] = "run" /\ job[t] = id

\* RunOnce drains after its last batch, and until it starts a worker there is none.
BatchInv ==
  /\ mode = "once" /\ at = "drain" => \A t \in Pool : ~Busy(t)
  /\ mode = "once" /\ at \in InPass /\ ~submitted => \A t \in Pool : Busy(t) => stage[t] = "held"
  /\ at = "idle" => todo = {}

\* A pass that has started nothing has cleared what it has passed.
ListedInv ==
  mode = "once" /\ at \in InPass /\ workCtx /\ ~submitted =>
    \A id \in listing : answers[id] > 0 \/ id \in todo \/ (id = name /\ at \in InDrain)

(* A step that leaves the drainer alone leaves what it owns.               *)
LEMMA OwnedFrame ==
  ASSUME OwnedInv, UNCHANGED <<inflight, active, stage, job>>,
         at = "acquire" => at' = "acquire" /\ name' = name
  PROVE  OwnedInv'
<1>1. \A t : Busy(t)' = Busy(t)
  BY DEF Busy
<1>2. \A id \in inflight' : (at' = "acquire" /\ id = name') \/ \E t \in Pool : Busy(t)' /\ job'[t] = id
  BY <1>1 DEF OwnedInv
<1> QED BY <1>2 DEF OwnedInv

(* Giving up a request gives up its keys, and no other request's.          *)
LEMMA ReleasedKeys ==
  ASSUME NEW id, active \subseteq UNION {KeySet(i) : i \in inflight}, Release(id)
  PROVE  active' \subseteq UNION {KeySet(i) : i \in inflight'}
<1> SUFFICES ASSUME NEW k \in active' PROVE \E i \in inflight' : k \in KeySet(i)
  OBVIOUS
<1>1. k \in active /\ k \notin KeySet(id)
  BY DEF Release
<1>2. PICK i \in inflight : k \in KeySet(i)
  BY <1>1
<1> QED BY <1>1, <1>2 DEF Release

(* Every step keeps what the drainer owns with a worker or the loop.       *)
LEMMA OwnedStep ==
  ASSUME ExclusionInv, OwnedInv, [Next]_vars PROVE OwnedInv'
<1> USE DEF mail, clients, loop, entry, drainer, session, Goto, NextName
<1>1. CASE UNCHANGED vars
  BY <1>1, OwnedFrame DEF vars
<1>2. CASE Client \/ DropLink
  BY <1>2, OwnedFrame DEF Client, Request, Resend, Await, Quit, Collect, Expire, DropLink
<1>3. CASE Recover
  BY <1>3, OwnedFrame DEF Recover, RecoverList, RecoverNext, RecoverListNew, RecoverListCur,
     RecoverService, ListInbox
<1>4. CASE Gc
  BY <1>4, OwnedFrame DEF Gc, GcListCollected, GcRemoveOutCur, GcRemoveInCur, GcListUncollected,
     GcReadAge, GcReapInNew, GcReapOutCur, GcRefused, GcLinkDown, GcLabels
<1>5. CASE Connect \/ Tick \/ BatchDone \/ OpFails \/ Close
  BY <1>5, OwnedFrame DEF Connect, Tick, BatchDone, OpFails, FsLabels, Close
<1>6. CASE DrainList \/ DrainNext \/ DrainListNew \/ DrainListCur \/ DrainClear
  BY <1>6, OwnedFrame DEF DrainList, DrainNext, DrainListNew, DrainListCur, DrainClear, ListInbox
<1>7. CASE Reserve
  <2>1. CASE KeyBusy(name)
    BY <1>7, <2>1, OwnedFrame DEF Reserve
  <2>2. CASE ~KeyBusy(name)
    <3>1. /\ inflight' = inflight \cup {name} /\ active' = active \cup KeySet(name)
          /\ at = "reserve" /\ at' = "acquire" /\ name' = name /\ UNCHANGED <<stage, job>>
      BY <1>7, <2>2 DEF Reserve
    <3>2. \A t : Busy(t)' = Busy(t)
      BY <3>1 DEF Busy
    <3>3. \A id \in inflight' : (at' = "acquire" /\ id = name') \/ \E t \in Pool : Busy(t)' /\ job'[t] = id
      BY <3>1, <3>2 DEF OwnedInv
    <3>4. active' \subseteq UNION {KeySet(id) : id \in inflight'}
      BY <3>1 DEF OwnedInv
    <3> QED BY <3>3, <3>4 DEF OwnedInv
  <2> QED BY <2>1, <2>2
<1>8. CASE Acquire
  <2>1. stage \in [Pool -> {"free", "held", "run", "done"}] /\ job \in [Pool -> Ids \cup {NoName}] /\ at = "acquire"
    BY <1>8 DEF ExclusionInv, TypeOK, Acquire
  <2>2. ASSUME NEW t \in Pool, Free(t), stage' = [stage EXCEPT ![t] = "held"], job' = [job EXCEPT ![t] = name],
               UNCHANGED <<inflight, active>>
        PROVE  OwnedInv'
    <3>1. ASSUME NEW id \in inflight PROVE \E u \in Pool : Busy(u)' /\ job'[u] = id
      <4>1. CASE id = name
        BY <2>1, <2>2, <4>1 DEF Busy
      <4>2. CASE id # name
        <5>1. PICK u \in Pool : Busy(u) /\ job[u] = id
          BY <4>2 DEF OwnedInv
        <5>2. u # t
          BY <2>2, <5>1 DEF Busy, Free
        <5> QED BY <2>1, <2>2, <5>1, <5>2 DEF Busy
      <4> QED BY <4>1, <4>2
    <3> QED BY <2>2, <3>1 DEF OwnedInv
  <2>3. CASE Release(name) /\ UNCHANGED <<stage, job>>
    <3>1. \A t : Busy(t)' = Busy(t)
      BY <2>3 DEF Busy
    <3>2. \A id \in inflight' : \E t \in Pool : Busy(t)' /\ job'[t] = id
      BY <2>3, <3>1 DEF OwnedInv, Release
    <3> QED BY <2>3, <3>2, ReleasedKeys DEF OwnedInv
  <2> QED BY <1>8, <2>2, <2>3 DEF Acquire
<1>9. CASE StartWorker
  <2>1. PICK t \in Pool : stage[t] = "held" /\ stage' = [stage EXCEPT ![t] = "run"]
    BY <1>9 DEF StartWorker
  <2>2. UNCHANGED <<inflight, active, job>> /\ at = "pickup"
    BY <1>9 DEF StartWorker
  <2>3. \A u \in Pool : Busy(u) => Busy(u)'
    BY <2>1 DEF Busy, ExclusionInv, TypeOK
  <2>4. \A id \in inflight' : \E u \in Pool : Busy(u)' /\ job'[u] = id
    BY <2>2, <2>3 DEF OwnedInv
  <2> QED BY <2>2, <2>4 DEF OwnedInv
<1>10. ASSUME NEW t \in Pool, Busy(t), at # "acquire" \/ (at' = "acquire" /\ name' = name),
              GiveBack(t), Release(job[t])
       PROVE  OwnedInv'
  <2>1. stage \in [Pool -> {"free", "held", "run", "done"}] /\ job \in [Pool -> Ids \cup {NoName}]
    BY DEF ExclusionInv, TypeOK
  <2>2. ASSUME NEW id \in inflight'
        PROVE  (at' = "acquire" /\ id = name') \/ \E u \in Pool : Busy(u)' /\ job'[u] = id
    <3>1. id \in inflight /\ id # job[t]
      BY <1>10 DEF Release
    <3>2. CASE at = "acquire" /\ id = name
      BY <1>10, <3>2
    <3>3. CASE ~(at = "acquire" /\ id = name)
      <4>1. PICK u \in Pool : Busy(u) /\ job[u] = id
        BY <3>1, <3>3 DEF OwnedInv
      <4>2. u # t
        BY <3>1, <4>1
      <4> QED BY <1>10, <2>1, <4>1, <4>2 DEF Busy, GiveBack
    <3> QED BY <3>2, <3>3
  <2> QED BY <1>10, <2>2, ReleasedKeys DEF OwnedInv
<1>11. CASE StartWorkerFails
  <2>1. PICK t \in Pool : stage[t] = "held" /\ GiveBack(t)
    BY <1>11 DEF StartWorkerFails
  <2>2. Busy(t) /\ job[t] = name /\ Release(name) /\ at = "pickup"
    BY <1>11, <2>1 DEF StartWorkerFails, ExclusionInv, TokenInv, Busy
  <2>3. Release(job[t])
    BY <2>2 DEF Release
  <2> QED BY <1>10, <2>1, <2>2, <2>3
<1>12. ASSUME NEW t \in Pool, Worker(t) PROVE OwnedInv'
  <2>1. CASE WorkerService(t)
    <3>1. stage[t] = "run" /\ stage' = [stage EXCEPT ![t] = "done"] /\ UNCHANGED <<inflight, active, job, at, name>>
      BY <2>1 DEF WorkerService
    <3>2. \A u \in Pool : Busy(u) => Busy(u)'
      BY <3>1 DEF Busy, ExclusionInv, TypeOK
    <3>3. \A id \in inflight' : (at' = "acquire" /\ id = name') \/ \E u \in Pool : Busy(u)' /\ job'[u] = id
      BY <3>1, <3>2 DEF OwnedInv
    <3> QED BY <3>1, <3>3 DEF OwnedInv
  <2>2. CASE WorkerRelease(t)
    BY <1>10, <2>2 DEF WorkerRelease, Busy
  <2> QED BY <1>12, <2>1, <2>2 DEF Worker
<1>13. CASE Crash
  BY <1>13 DEF Crash, OwnedInv
<1> QED BY <1>1, <1>2, <1>3, <1>4, <1>5, <1>6, <1>7, <1>8, <1>9, <1>11, <1>12, <1>13 DEF Next, Serve, Drain

(* A step that takes nothing into outbox/cur and ends no handler without   *)
(* an answer leaves recover's work done.                                   *)
LEMMA RecoveredFrame ==
  ASSUME TypeOK, RecoveredInv, outCur' \subseteq outCur,
         \A id \in Ids : answers[id] > 0 => answers'[id] > 0,
         at' \in InRecover => UNCHANGED <<at, name, todo>>,
         at' = "drainClear" => answers'[name'] > 0,
         mode' = "once" /\ at' \in InPass \cup {"drain"} /\ workCtx' =>
           /\ mode = "once" /\ at \in InPass \cup {"drain"} /\ workCtx
           /\ \A t \in Pool : stage[t] = "run" =>
                (stage'[t] = "run" /\ job'[t] = job[t]) \/ answers'[job[t]] > 0
  PROVE  RecoveredInv'
<1>0. outCur \subseteq Ids
  BY DEF TypeOK
<1>1. ASSUME at' \in InRecover, NEW id \in outCur'
      PROVE  id \in todo' \/ (id = name' /\ at' # "recover") \/ answers'[id] > 0
  BY <1>0, <1>1 DEF RecoveredInv
<1>2. ASSUME mode' = "once", at' \in InPass \cup {"drain"}, workCtx', NEW id \in outCur'
      PROVE  answers'[id] > 0 \/ \E t \in Pool : stage'[t] = "run" /\ job'[t] = id
  BY <1>0, <1>2 DEF RecoveredInv
<1> QED BY <1>1, <1>2 DEF RecoveredInv

(* A delivery adds answers only.                                           *)
LEMMA AnswersGrow ==
  ASSUME TypeOK, NEW id \in Ids, Publish(id) \/ NotPublished
  PROVE  /\ \A i \in Ids : answers[i] > 0 => answers'[i] > 0
         /\ Publish(id) => answers'[id] > 0
  BY DEF TypeOK, Publish, NotPublished

(* Every step keeps what is in outbox/cur answered or with a worker.       *)
LEMMA RecoveredStep ==
  ASSUME ExclusionInv, LossInv, RecoveredInv, [Next]_vars PROVE RecoveredInv'
<1> USE DEF mail, clients, loop, entry, drainer, session, Goto, NextName
<1>0. TypeOK /\ outCur \subseteq Ids
  BY DEF ExclusionInv, TypeOK
<1> DEFINE Same == /\ outCur' = outCur /\ UNCHANGED <<stage, job>>
                   /\ \A id \in Ids : answers[id] > 0 => answers'[id] > 0
<1>1. CASE UNCHANGED vars
  BY <1>0, <1>1, RecoveredFrame DEF vars, RecoveredInv
<1>2. CASE Client \/ DropLink
  <2>1. UNCHANGED <<outCur, answers, at, name, todo, mode, stage, job>> /\ workCtx' \in {workCtx, FALSE}
    BY <1>2 DEF Client, Request, Resend, Await, Quit, Collect, Expire, DropLink
  <2>2. workCtx' => workCtx
    BY <2>1
  <2> QED BY <1>0, <2>1, <2>2, RecoveredFrame DEF RecoveredInv
<1>3. CASE RecoverList
  BY <1>3 DEF RecoverList, Stranded, RecoveredInv, InPass, InDrain, InRecover
<1>4. CASE RecoverNext
  <2>1. at = "recover" /\ UNCHANGED <<outCur, answers>>
    BY <1>4 DEF RecoverNext
  <2>2. CASE todo = {} /\ at' = AfterRecover
    <3>1. \A id \in outCur : answers[id] > 0
      BY <2>1, <2>2 DEF RecoveredInv, InRecover
    <3> QED BY <2>1, <2>2, <3>1 DEF RecoveredInv, InRecover, AfterRecover
  <2>3. ASSUME NEW id \in todo, name' = id, todo' = todo \ {id}, at' = "recoverNew" PROVE RecoveredInv'
    <3>1. \A i \in outCur : i \in todo \/ answers[i] > 0
      BY <2>1 DEF RecoveredInv, InRecover
    <3> QED BY <2>1, <2>3, <3>1 DEF RecoveredInv, InPass, InDrain, InRecover
  <2> QED BY <1>4, <2>2, <2>3 DEF RecoverNext
<1>5. CASE RecoverListNew \/ RecoverListCur
  <2>1. /\ UNCHANGED <<outCur, answers, todo>> /\ at \in {"recoverNew", "recoverCur"}
        /\ \/ at' = "recover" /\ name \in inNew \cup inCur
           \/ at' \in {"recoverCur", "recoverRun"} /\ name' = name
    BY <1>5 DEF RecoverListNew, RecoverListCur, ListInbox, InboxDir
  <2>2. \A i \in outCur : i \in todo \/ i = name \/ answers[i] > 0
    BY <2>1 DEF RecoveredInv, InRecover
  <2>3. name \in inNew \cup inCur => answers[name] > 0
    BY DEF LossInv, MailInv
  <2> QED BY <2>1, <2>2, <2>3 DEF RecoveredInv, InPass, InDrain, InRecover
<1>6. CASE RecoverService
  <2>1. at = "recoverRun" /\ name \in Ids /\ outCur' = outCur
    BY <1>6 DEF RecoverService, ExclusionInv, LoopInv, Named
  <2>2. \A i \in outCur : i \in todo \/ i = name \/ answers[i] > 0
    BY <2>1 DEF RecoveredInv, InRecover
  <2>3. CASE DeliverOK(name) /\ at' = "recover" /\ todo' = todo
    <3>1. Publish(name)
      BY <2>3 DEF DeliverOK
    <3>2. \A i \in outCur : i \in todo \/ answers'[i] > 0
      BY <1>0, <2>1, <2>2, <3>1, AnswersGrow
    <3> QED BY <2>1, <2>3, <3>2 DEF RecoveredInv, InPass, InDrain
  <2>4. CASE at' = "closing"
    BY <2>4 DEF RecoveredInv, InPass, InDrain, InRecover
  <2> QED BY <1>6, <2>3, <2>4 DEF RecoverService, ReturnErr
<1>7. CASE Gc
  <2>1. /\ at' \notin InRecover /\ at' # "drainClear" /\ (at' \in InPass \cup {"drain"} => mode' # "once")
    BY <1>7 DEF Gc, GcListCollected, GcRemoveOutCur, GcRemoveInCur, GcListUncollected,
       GcReadAge, GcReapInNew, GcReapOutCur, GcRefused, GcLinkDown, GcLabels, AfterGc, InPass, InDrain, InRecover
  <2> QED BY <2>1 DEF RecoveredInv
<1>8. CASE Connect \/ OpFails \/ Close \/ Crash
  <2>1. at' \in {"gc", "stranded", "closing", "down"}
    BY <1>8 DEF Connect, OpFails, ReturnErr, Close, Crash
  <2> QED BY <2>1 DEF RecoveredInv, InPass, InDrain, InRecover
<1>9. CASE Tick \/ BatchDone
  <2>1. UNCHANGED <<outCur, answers, stage, job, mode, workCtx>> /\ at' \in {"gc", "closing", "drain"}
          /\ at = "idle" /\ (mode' = "once" => mode = "once")
    BY <1>9 DEF Tick, BatchDone
  <2> QED BY <1>0, <2>1, RecoveredFrame DEF InPass, InDrain, InRecover
<1>10. CASE DrainList \/ DrainNext \/ DrainListNew \/ DrainListCur \/ Reserve
  <2>1. UNCHANGED <<outCur, answers, mode, workCtx, stage, job>> /\ at \in InPass \cup {"drain"}
          /\ at' \in InPass
    BY <1>10 DEF DrainList, DrainNext, DrainListNew, DrainListCur, Reserve, ListInbox, InPass, InDrain
  <2>2. at' = "drainClear" => name' = name /\ name \in inNew \cup inCur
    BY <1>10 DEF DrainList, DrainNext, DrainListNew, DrainListCur, Reserve, ListInbox, InboxDir
  <2>3. at' = "drainClear" => answers'[name'] > 0
    BY <2>1, <2>2 DEF LossInv, MailInv
  <2> QED BY <1>0, <2>1, <2>3, RecoveredFrame DEF InPass, InDrain, InRecover
<1>11. CASE DrainClear
  <2>1. /\ outCur' = outCur \cup {name} /\ UNCHANGED <<answers, mode, workCtx, stage, job>>
        /\ at = "drainClear" /\ at' = "drainNext"
    BY <1>11 DEF DrainClear, PickUp
  <2>2. answers[name] > 0
    BY <2>1 DEF RecoveredInv
  <2> QED BY <2>1, <2>2 DEF RecoveredInv, InPass, InDrain, InRecover
<1>12. CASE Acquire
  <2>0. at = "acquire" /\ UNCHANGED <<outCur, answers, mode, workCtx>> /\ at' \in {"pickup", "idle"}
    BY <1>12 DEF Acquire
  <2>1. \A t \in Pool : stage[t] = "run" => stage'[t] = "run" /\ job'[t] = job[t]
    BY <1>0, <1>12 DEF Acquire, Free, TypeOK
  <2> QED BY <1>0, <2>0, <2>1, RecoveredFrame DEF InPass, InDrain, InRecover
<1>13. CASE StartWorker
  <2>1. PICK t \in Pool : stage[t] = "held" /\ stage' = [stage EXCEPT ![t] = "run"]
    BY <1>13 DEF StartWorker
  <2>2. job[t] = name /\ job' = job /\ outCur' = outCur \cup {name} /\ at' = "drainNext" /\ at = "pickup"
          /\ UNCHANGED <<answers, mode, workCtx>>
    BY <1>13, <2>1 DEF StartWorker, PickUp, ExclusionInv, TokenInv
  <2>3. stage'[t] = "run" /\ \A u \in Pool : stage[u] = "run" => stage'[u] = "run"
    BY <1>0, <2>1 DEF TypeOK
  <2> QED BY <2>2, <2>3 DEF RecoveredInv, InPass, InDrain, InRecover
<1>14. CASE StartWorkerFails
  BY <1>14 DEF StartWorkerFails, ReturnErr, RecoveredInv, InPass, InDrain, InRecover
<1>15. ASSUME NEW t \in Pool, Worker(t) PROVE RecoveredInv'
  <2>1. CASE WorkerService(t)
    <3>1. /\ stage[t] = "run" /\ stage' = [stage EXCEPT ![t] = "done"] /\ UNCHANGED <<outCur, job, at, name, todo, mode>>
          /\ (workCtx /\ DeliverOK(job[t])) \/ workCtx' = FALSE
          /\ Publish(job[t]) \/ NotPublished
      BY <2>1 DEF WorkerService, DeliverOK, DeliverFails
    <3>2. job[t] \in Ids
      BY <3>1 DEF ExclusionInv, TypeOK, JobInv, Busy
    <3>3. \A i \in Ids : answers[i] > 0 => answers'[i] > 0
      BY <1>0, <3>1, <3>2, AnswersGrow
    <3>4. workCtx' => workCtx /\ answers'[job[t]] > 0
      BY <1>0, <3>1, <3>2, AnswersGrow DEF DeliverOK
    <3>5. at' = "drainClear" => answers'[name'] > 0
      <4>1. at = "drainClear" => name \in Ids
        BY DEF ExclusionInv, LoopInv, Named
      <4> QED BY <3>1, <3>3, <4>1 DEF RecoveredInv
    <3>6. \A u \in Pool : u # t => stage'[u] = stage[u]
      BY <1>0, <3>1 DEF TypeOK
    <3> QED BY <1>0, <3>1, <3>3, <3>4, <3>5, <3>6, RecoveredFrame
  <2>2. CASE WorkerRelease(t)
    <3>1. /\ stage[t] = "done" /\ UNCHANGED <<outCur, answers, at, name, todo, mode, workCtx>>
          /\ stage' = [stage EXCEPT ![t] = "free"] /\ job' = [job EXCEPT ![t] = NoName]
      BY <2>2 DEF WorkerRelease, GiveBack
    <3>2. \A u \in Pool : u # t => stage'[u] = stage[u] /\ job'[u] = job[u]
      BY <1>0, <3>1 DEF TypeOK
    <3> QED BY <1>0, <3>1, <3>2, RecoveredFrame DEF RecoveredInv
  <2> QED BY <1>15, <2>1, <2>2 DEF Worker
<1> QED BY <1>1, <1>2, <1>3, <1>4, <1>5, <1>6, <1>7, <1>8, <1>9, <1>10, <1>11, <1>12, <1>13, <1>14, <1>15
        DEF Next, Serve, Drain, Recover

(* A step that starts no worker and leaves the position where it is, or    *)
(* keeps it within a pass, leaves the batch as it was.                     *)
LEMMA BatchFrame ==
  ASSUME BatchInv, stage' = stage,
         mode' = "once" => mode = "once" /\ submitted' = submitted,
         at' = "drain" => at = "drain",
         at' \in InPass => at \in InPass,
         at' = "idle" => todo' = {}
  PROVE  BatchInv'
<1>1. \A t : Busy(t)' = Busy(t)
  BY DEF Busy
<1>2. mode' = "once" /\ at' = "drain" => \A t \in Pool : ~Busy(t)'
  BY <1>1 DEF BatchInv
<1>3. mode' = "once" /\ at' \in InPass /\ ~submitted' => \A t \in Pool : Busy(t)' => stage'[t] = "held"
  BY <1>1 DEF BatchInv
<1> QED BY <1>2, <1>3 DEF BatchInv

(* Every step of RunOnce keeps its batches apart: no worker outlives the   *)
(* wait between two of them.                                               *)
LEMMA BatchStep ==
  ASSUME ExclusionInv, BatchInv, [Next]_vars PROVE BatchInv'
<1> USE DEF mail, clients, loop, entry, drainer, session, Goto, NextName
<1>1. CASE UNCHANGED vars
  BY <1>1, BatchFrame DEF vars, BatchInv
<1>2. CASE Client \/ DropLink
  <2>1. UNCHANGED <<stage, mode, submitted, at, todo>>
    BY <1>2 DEF Client, Request, Resend, Await, Quit, Collect, Expire, DropLink
  <2> QED BY <2>1, BatchFrame DEF BatchInv
<1>3. CASE RecoverNext
  <2>1. at = "recover" /\ stage' = stage /\ at' \in {"drain", "gc", "recoverNew"}
    BY <1>3 DEF RecoverNext, AfterRecover
  <2>2. \A t \in Pool : ~Busy(t)
    BY <2>1 DEF ExclusionInv, TokenInv, Quiet
  <2>3. \A t \in Pool : ~Busy(t)'
    BY <2>1, <2>2 DEF Busy
  <2> QED BY <2>1, <2>3 DEF BatchInv, InPass, InDrain
<1>4. CASE RecoverList \/ RecoverListNew \/ RecoverListCur \/ RecoverService
  <2>1. at' \notin InPass /\ at' # "drain"
    BY <1>4 DEF RecoverList, RecoverListNew, RecoverListCur, RecoverService, ReturnErr, ListInbox,
       InPass, InDrain
  <2> QED BY <2>1 DEF BatchInv, InPass
<1>5. CASE Gc
  <2>1. at' \notin InPass /\ (at' = "drain" => mode' # "once")
    BY <1>5 DEF Gc, GcListCollected, GcRemoveOutCur, GcRemoveInCur, GcListUncollected,
       GcReadAge, GcReapInNew, GcReapOutCur, GcRefused, GcLinkDown, GcLabels, AfterGc, InPass, InDrain
  <2> QED BY <2>1 DEF BatchInv, InPass
<1>6. CASE Connect \/ Tick \/ OpFails \/ Close \/ Crash
  <2>1. at' \in {"gc", "stranded", "closing", "down"}
    BY <1>6 DEF Connect, Tick, OpFails, ReturnErr, Close, Crash
  <2> QED BY <2>1 DEF BatchInv, InPass, InDrain
<1>7. CASE BatchDone
  <2>1. at' \in {"drain", "closing"} /\ stage' = stage /\ \A t \in Pool : Free(t)
    BY <1>7 DEF BatchDone, WorkersDone
  <2>2. \A t \in Pool : ~Busy(t)'
    BY <2>1 DEF Busy, Free
  <2> QED BY <2>1, <2>2 DEF BatchInv, InPass, InDrain
<1>8. CASE DrainList
  <2>1. at = "drain" /\ at' = "drainNext" /\ UNCHANGED <<mode, stage>>
    BY <1>8 DEF DrainList
  <2>2. mode' = "once" => \A t \in Pool : ~Busy(t)'
    BY <2>1 DEF BatchInv, Busy
  <2> QED BY <2>1, <2>2 DEF BatchInv, InPass
<1>9. CASE DrainNext \/ DrainListNew \/ DrainListCur \/ DrainClear \/ Reserve
  <2>1. UNCHANGED <<stage, mode, submitted>> /\ at \in InPass /\ at' # "drain" /\ (at' = "idle" => todo' = {})
    BY <1>9 DEF DrainNext, DrainListNew, DrainListCur, DrainClear, Reserve, ListInbox, InPass, InDrain
  <2> QED BY <2>1, BatchFrame
<1>10. CASE Acquire
  <2>1. UNCHANGED <<mode, submitted>> /\ at = "acquire" /\ at' \in {"pickup", "idle"} /\ (at' = "idle" => todo' = {})
    BY <1>10 DEF Acquire
  <2>2. \A t \in Pool : stage'[t] # stage[t] => stage'[t] = "held"
    BY <1>10 DEF Acquire, ExclusionInv, TypeOK
  <2>3. mode = "once" /\ ~submitted => \A t \in Pool : Busy(t) => stage[t] = "held"
    BY <2>1 DEF BatchInv, InPass, InDrain
  <2>4. mode' = "once" /\ ~submitted' => \A t \in Pool : Busy(t)' => stage'[t] = "held"
    BY <2>1, <2>2, <2>3 DEF Busy
  <2> QED BY <2>1, <2>4 DEF BatchInv
<1>11. CASE StartWorker
  <2>1. at' = "drainNext" /\ mode' = mode /\ submitted' = (mode = "once")
    BY <1>11 DEF StartWorker
  <2> QED BY <2>1 DEF BatchInv
<1>12. CASE StartWorkerFails
  BY <1>12 DEF StartWorkerFails, ReturnErr, BatchInv, InPass, InDrain
<1>13. ASSUME NEW t \in Pool, Worker(t) PROVE BatchInv'
  <2>1. stage[t] \in {"run", "done"} /\ UNCHANGED <<mode, submitted, at, todo>>
    BY <1>13 DEF Worker, WorkerService, WorkerRelease
  <2>2. ~(mode = "once" /\ at = "drain") /\ ~(mode = "once" /\ at \in InPass /\ ~submitted)
    BY <2>1 DEF BatchInv, Busy
  <2> QED BY <2>1, <2>2 DEF BatchInv
<1> QED BY <1>1, <1>2, <1>3, <1>4, <1>5, <1>6, <1>7, <1>8, <1>9, <1>10, <1>11, <1>12, <1>13
        DEF Next, Serve, Drain, Recover

(* While a pass of RunOnce has started nothing, the drainer owns at most   *)
(* the request at hand: nothing is skipped as owned or as busy.            *)
LEMMA NothingOwned ==
  ASSUME ExclusionInv, OwnedInv, BatchInv, mode = "once", at \in InPass, ~submitted,
         at \notin {"acquire", "pickup"}
  PROVE  inflight = {} /\ active = {}
<1>1. \A t \in Pool : ~Busy(t)
  BY DEF BatchInv, ExclusionInv, TokenInv
<1>2. inflight = {}
  BY <1>1 DEF OwnedInv
<1> QED BY <1>2 DEF OwnedInv

(* A pass that still waits for its first worker leaves a listed request    *)
(* behind only when it is answered.                                        *)
LEMMA ListedFrame ==
  ASSUME ListedInv, listing \subseteq Ids, listing' \subseteq listing,
         \A id \in Ids : answers[id] > 0 => answers'[id] > 0,
         mode' = "once" /\ at' \in InPass /\ workCtx' /\ ~submitted' =>
           /\ mode = "once" /\ at \in InPass /\ workCtx /\ ~submitted
           /\ \A id \in Ids : id \in todo \/ (id = name /\ at \in InDrain) =>
                answers'[id] > 0 \/ id \in todo' \/ (id = name' /\ at' \in InDrain)
  PROVE  ListedInv'
<1> SUFFICES ASSUME mode' = "once", at' \in InPass, workCtx', ~submitted', NEW id \in listing'
             PROVE  answers'[id] > 0 \/ id \in todo' \/ (id = name' /\ at' \in InDrain)
  BY DEF ListedInv
<1>1. id \in Ids /\ id \in listing
  OBVIOUS
<1>2. answers[id] > 0 \/ id \in todo \/ (id = name /\ at \in InDrain)
  BY <1>1 DEF ListedInv
<1> QED BY <1>1, <1>2

(* What the history variable remembers are requests, and only the listing  *)
(* of drainNew adds to it.                                                 *)
LEMMA ListingGrows ==
  ASSUME TypeOK, listing \subseteq Ids, [HistoryNext]_historyVars
  PROVE  /\ listing' \subseteq Ids
         /\ listing' \subseteq listing \/ (DrainList /\ mode' = "once" /\ listing' = outNew)
<1> USE DEF mail, clients, loop, entry, drainer, session, Goto, NextName
<1>1. CASE UNCHANGED historyVars
  BY <1>1 DEF historyVars
<1>2. CASE HistoryNext
  <2>1. at = "drain" /\ at' = "drainNext" => DrainList
    <3> SUFFICES ASSUME at = "drain", at' = "drainNext" PROVE DrainList
      OBVIOUS
    <3>1. ~(Client \/ DropLink)
      BY DEF Client, Request, Resend, Await, Quit, Collect, Expire, DropLink
    <3>2. ~(Recover \/ Gc)
      BY DEF Recover, RecoverList, RecoverNext, RecoverListNew, RecoverListCur, RecoverService, ListInbox,
         Gc, GcListCollected, GcRemoveOutCur, GcRemoveInCur, GcListUncollected,
         GcReadAge, GcReapInNew, GcReapOutCur, GcRefused, GcLinkDown, GcLabels
    <3>3. ~(Connect \/ Tick \/ BatchDone \/ OpFails \/ Close \/ Crash)
      BY DEF Connect, Tick, BatchDone, OpFails, ReturnErr, Close, Crash
    <3>4. ~(DrainNext \/ DrainListNew \/ DrainListCur \/ DrainClear \/ Reserve \/ Acquire
              \/ StartWorker \/ StartWorkerFails)
      BY DEF DrainNext, DrainListNew, DrainListCur, DrainClear, Reserve, Acquire, StartWorker,
         StartWorkerFails, ListInbox
    <3>5. \A t \in Pool : ~Worker(t)
      BY DEF Worker, WorkerService, WorkerRelease
    <3> QED BY <1>2, <3>1, <3>2, <3>3, <3>4, <3>5 DEF HistoryNext, Next, Serve, Drain
  <2>2. DrainList => todo' = outNew
    BY DEF DrainList
  <2>3. \/ listing' = {}
        \/ mode' = "once" /\ DrainList /\ listing' = todo'
        \/ listing' = listing
    BY <1>2, <2>1 DEF HistoryNext
  <2>4. outNew \subseteq Ids
    BY DEF TypeOK
  <2> QED BY <2>2, <2>3, <2>4
<1> QED BY <1>1, <1>2

(* Every step keeps a listed request in sight until it is answered, or the *)
(* pass has started a worker.                                              *)
LEMMA ListedStep ==
  ASSUME ExclusionInv, OwnedInv, BatchInv, RecoveredInv, ListedInv, listing \subseteq Ids,
         [HistoryNext]_historyVars
  PROVE  ListedInv'
<1> USE DEF mail, clients, loop, entry, drainer, session, Goto, NextName
<1>0. TypeOK
  BY DEF ExclusionInv
<1>1. CASE UNCHANGED historyVars
  BY <1>0, <1>1, ListedFrame DEF vars, historyVars
<1>2. CASE HistoryNext
  <2>1. CASE DrainList /\ mode' = "once" /\ listing' = outNew
    <3>1. todo' = outNew
      BY <2>1 DEF DrainList
    <3> QED BY <2>1, <3>1 DEF ListedInv
  <2>2. CASE listing' \subseteq listing
    <3>0. ASSUME answers' = answers PROVE \A id \in Ids : answers[id] > 0 => answers'[id] > 0
      BY <3>0
    <3>1. CASE Client \/ DropLink
      <4>1. UNCHANGED <<mode, at, submitted, todo, name, answers>> /\ workCtx' \in {workCtx, FALSE}
        BY <3>1 DEF Client, Request, Resend, Await, Quit, Collect, Expire, DropLink
      <4>2. workCtx' => workCtx
        BY <4>1
      <4> QED BY <2>2, <3>0, <4>1, <4>2, ListedFrame
    <3>2. ASSUME mode' = "once" => at' \notin InPass PROVE ListedInv'
      BY <3>2 DEF ListedInv
    <3>3. CASE Recover \/ Gc
      <4>1. at' \notin InPass
        BY <3>3 DEF Recover, RecoverList, RecoverNext, RecoverListNew, RecoverListCur, RecoverService,
           ReturnErr, AfterRecover, ListInbox, Gc, GcListCollected, GcRemoveOutCur, GcRemoveInCur,
           GcListUncollected, GcReadAge, GcReapInNew, GcReapOutCur, GcRefused, GcLinkDown, GcLabels, AfterGc,
           InPass, InDrain
      <4> QED BY <3>2, <4>1
    <3>4. CASE Connect \/ Tick \/ BatchDone \/ OpFails \/ Close \/ Crash \/ StartWorkerFails
      <4>1. at' \in {"gc", "stranded", "closing", "down", "drain"}
        BY <3>4 DEF Connect, Tick, BatchDone, OpFails, ReturnErr, Close, Crash, StartWorkerFails
      <4> QED BY <3>2, <4>1 DEF InPass, InDrain
    <3>5. CASE DrainList
      <4>1. todo' = outNew /\ at = "drain" /\ at' = "drainNext"
        BY <3>5 DEF DrainList
      <4>2. mode' = "once" => listing' = todo'
        BY <1>2, <4>1 DEF HistoryNext
      <4> QED BY <4>2 DEF ListedInv
    <3>6. CASE DrainNext
      <4>1. /\ UNCHANGED <<answers, mode, workCtx, submitted>> /\ at = "drainNext"
            /\ \/ todo = {} /\ todo' = todo
               \/ \E id \in todo : /\ todo' = todo \ {id}
                                   /\ IF Owned(id) THEN UNCHANGED <<at, name>>
                                                   ELSE name' = id /\ at' = "drainNew"
        BY <3>6 DEF DrainNext
      <4>2. mode = "once" /\ ~submitted => \A id : ~Owned(id)
        BY <4>1, NothingOwned DEF Owned, InPass
      <4>3. mode = "once" /\ ~submitted =>
              \A id \in Ids : id \in todo \/ (id = name /\ at \in InDrain) =>
                              id \in todo' \/ (id = name' /\ at' \in InDrain)
        BY <4>1, <4>2 DEF InDrain
      <4>4. mode' = "once" /\ at' \in InPass /\ workCtx' /\ ~submitted' =>
              /\ mode = "once" /\ at \in InPass /\ workCtx /\ ~submitted
              /\ \A id \in Ids : id \in todo \/ (id = name /\ at \in InDrain) =>
                   answers'[id] > 0 \/ id \in todo' \/ (id = name' /\ at' \in InDrain)
        BY <4>1, <4>3 DEF InPass
      <4> QED BY <2>2, <3>0, <4>1, <4>4, ListedFrame
    <3>7. CASE DrainListNew \/ DrainListCur
      <4>1. UNCHANGED <<answers, mode, workCtx, submitted, todo, name>> /\ at \in InDrain /\ at' \in InDrain
        BY <3>7 DEF DrainListNew, DrainListCur, ListInbox, InDrain
      <4> QED BY <2>2, <3>0, <4>1, ListedFrame DEF InPass
    <3>8. CASE DrainClear
      <4>1. UNCHANGED <<answers, mode, workCtx, submitted, todo>> /\ at = "drainClear"
        BY <3>8 DEF DrainClear
      <4>2. answers[name] > 0
        BY <4>1 DEF RecoveredInv
      <4>3. at \in InPass
        BY <4>1 DEF InPass, InDrain
      <4> QED BY <2>2, <3>0, <4>1, <4>2, <4>3, ListedFrame
    <3>9. CASE Reserve
      <4>1. /\ UNCHANGED <<answers, mode, workCtx, submitted, todo>> /\ at = "reserve"
            /\ KeyBusy(name) \/ (at' = "acquire" /\ name' = name)
        BY <3>9 DEF Reserve
      <4>2. mode = "once" /\ ~submitted => ~KeyBusy(name)
        BY <4>1, NothingOwned DEF KeyBusy, InPass, InDrain
      <4>3. at \in InPass /\ "acquire" \in InDrain
        BY <4>1 DEF InDrain, InPass
      <4> QED BY <2>2, <3>0, <4>1, <4>2, <4>3, ListedFrame
    <3>10. CASE Acquire
      <4>1. /\ UNCHANGED <<answers, mode, workCtx, submitted>> /\ at = "acquire"
            /\ ~workCtx \/ (at' = "pickup" /\ UNCHANGED <<name, todo>>)
        BY <3>10 DEF Acquire
      <4>2. at \in InPass /\ "pickup" \in InDrain
        BY <4>1 DEF InPass, InDrain
      <4> QED BY <2>2, <3>0, <4>1, <4>2, ListedFrame
    <3>11. CASE StartWorker
      <4>1. mode' = mode /\ submitted' = (mode = "once")
        BY <3>11 DEF StartWorker
      <4> QED BY <4>1 DEF ListedInv
    <3>12. ASSUME NEW t \in Pool, Worker(t) PROVE ListedInv'
      <4>1. stage[t] \in {"run", "done"} /\ UNCHANGED <<mode, submitted, at>>
        BY <3>12 DEF Worker, WorkerService, WorkerRelease
      <4>2. ~(mode = "once" /\ at \in InPass /\ ~submitted)
        BY <4>1 DEF BatchInv, Busy
      <4> QED BY <4>1, <4>2 DEF ListedInv
    <3> QED BY <1>2, <3>1, <3>3, <3>4, <3>5, <3>6, <3>7, <3>8, <3>9, <3>10, <3>11, <3>12
            DEF HistoryNext, Next, Serve, Drain
  <2> QED BY <1>0, <1>2, <2>1, <2>2, ListingGrows
<1> QED BY <1>1, <1>2

(* `serve --once` returns nil only when every request it listed last is    *)
(* answered and so is every one in outbox/cur: RunOnce's last pass skipped *)
(* nothing, and no worker is left.                                         *)
THEOREM OnceCompleteHolds == HistorySpec => OnceComplete
<1> DEFINE Inv == ExclusionInv /\ LossInv /\ OwnedInv /\ RecoveredInv /\ BatchInv /\ ListedInv
                  /\ listing \subseteq Ids
<1>1. HistoryInit => Inv
  <2> SUFFICES ASSUME HistoryInit PROVE Inv
    OBVIOUS
  <2>1. Init /\ listing = {}
    BY DEF HistoryInit
  <2>2. ExclusionInv
    BY <2>1, ExclusionInit
  <2>3. LossInv
    BY <2>1 DEF Init, LossInv, MailInv, SweepInv, NothingLost, Sweep
  <2>4. OwnedInv /\ RecoveredInv /\ BatchInv /\ ListedInv
    BY <2>1 DEF Init, OwnedInv, RecoveredInv, BatchInv, ListedInv, InPass, InDrain, InRecover
  <2> QED BY <2>1, <2>2, <2>3, <2>4
<1>2. Inv /\ [HistoryNext]_historyVars => Inv'
  <2> SUFFICES ASSUME Inv, [HistoryNext]_historyVars PROVE Inv'
    OBVIOUS
  <2>1. [Next]_vars
    BY DEF HistoryNext, historyVars
  <2>2. TypeOK
    BY DEF ExclusionInv
  <2> QED BY <2>1, <2>2, ExclusionStep, LossStep, OwnedStep, RecoveredStep, BatchStep, ListedStep, ListingGrows
<1>3. Inv /\ [HistoryNext]_historyVars =>
        [at = "idle" /\ mode = "once" /\ workCtx /\ at' = "closing"
         => \A id \in listing \cup outCur : answers[id] > 0]_historyVars
  <2> SUFFICES ASSUME Inv, [Next]_vars, at = "idle", mode = "once", workCtx, at' = "closing"
               PROVE  \A id \in listing \cup outCur : answers[id] > 0
    BY DEF HistoryNext, historyVars
  <2> USE DEF mail, clients, loop, entry, drainer, session, Goto, NextName
  <2>1. BatchDone
    <3>1. ~(UNCHANGED vars \/ Client \/ DropLink)
      BY DEF vars, Client, Request, Resend, Await, Quit, Collect, Expire, DropLink
    <3>2. ~(Recover \/ Gc \/ Drain)
      BY DEF Recover, RecoverList, RecoverNext, RecoverListNew, RecoverListCur, RecoverService, ListInbox,
         Gc, GcListCollected, GcRemoveOutCur, GcRemoveInCur, GcListUncollected,
         GcReadAge, GcReapInNew, GcReapOutCur, GcRefused, GcLinkDown, GcLabels, Drain, DrainList, DrainNext,
         DrainListNew, DrainListCur, DrainClear, Reserve, Acquire, StartWorker, StartWorkerFails
    <3>3. ~(Connect \/ Tick \/ OpFails \/ Close \/ Crash)
      BY DEF Connect, Tick, OpFails, FsLabels, Close, Crash
    <3>4. \A t \in Pool : ~Worker(t)
      BY DEF Worker, WorkerService, WorkerRelease
    <3> QED BY <3>1, <3>2, <3>3, <3>4 DEF Next, Serve
  <2>2. ~submitted /\ \A t \in Pool : Free(t)
    BY <2>1 DEF BatchDone, Again, WorkersDone
  <2>3. \A id \in listing : answers[id] > 0
    BY <2>2 DEF ListedInv, BatchInv, InPass, InDrain
  <2>4. \A id \in outCur : answers[id] > 0
    BY <2>2 DEF RecoveredInv, InPass, Free
  <2> QED BY <2>3, <2>4
<1> QED BY <1>1, <1>2, <1>3, PTL DEF HistorySpec, OnceComplete

=============================================================================
