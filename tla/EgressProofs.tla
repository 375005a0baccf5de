---------------------------- MODULE EgressProofs ----------------------------
(***************************************************************************)
(* The files of RuleStore under concurrent writers, the single prompt, and *)
(* what the operator is asked and a deny rule keeps from the network, for  *)
(* every set of agents, URLs, hosts, rules and every number of faults; and *)
(* that the calls on the files implement AtomicStore.                      *)
(***************************************************************************)
EXTENDS EgressProxy, TLAPS

(* A call that has read its file holds the file's lock, and what it read   *)
(* is what the file still contains; only commands remove.                  *)
Holding(c) == step[c] \in {"load", "write"}

ShapeInv ==
  /\ files = [f \in Files |-> files[f]]
  /\ holder = [f \in Files |-> holder[f]]
  /\ step \in [Clients -> Steps]
  /\ call = [c \in Clients |-> call[c]]
  /\ seen = [c \in Clients |-> seen[c]]
  /\ \A c \in Clients :
       call[c] = <<File(c), Kind(c), Item(c)>> /\ File(c) \in Files /\ Kind(c) \in Calls

LockInv == \A c \in Clients : Holding(c) => holder[File(c)] = c

FreshInv == \A c \in Clients : step[c] = "write" => seen[c] = files[File(c)]

RemoverInv == \A c \in Clients : Kind(c) = "remove" => c \in Commands

(* A held request about to be written is still missing from the queue.     *)
NewInv ==
  \A c \in Clients :
    step[c] = "write" /\ File(c) = "pending" /\ Kind(c) = "add" =>
      ~Duplicate(files["pending"], Item(c))

StoreInv == ShapeInv /\ LockInv /\ FreshInv /\ RemoverInv /\ NewInv /\ HeldOnce

(* What any step of the system does to the files and the calls.            *)
Starts(c) ==
  \E f \in Files, kind \in Calls : \E item :
    (kind = "remove" => c \in Commands) /\ Invoke(c, f, kind, item)

StoreChange ==
  \/ UNCHANGED store
  \/ \E c \in Clients : Starts(c) \/ Consume(c) \/ StoreCall(c) \/ Abandon(c)
  \/ \E f \in Files : Break(f) \/ Mend(f)

-----------------------------------------------------------------------------

(* Agents that change the files are clients.                               *)
LEMMA AreClients == Fetches \subseteq Clients /\ Commands \subseteq Clients /\ Conns \subseteq Clients
  BY EgressAssumption, ProxyAssumption

(* A fetch starts a call, takes its result, or leaves the store alone.     *)
LEMMA FetchStore == ASSUME NEW f \in Fetches, FetchNext(f) PROVE StoreChange
<1> USE AreClients DEF StoreChange
<1>1. ASSUME NEW u \in URLs, Submit(f, u) PROVE StoreChange
  BY <1>1 DEF Submit
<1>2. ASSUME Judge(f) PROVE StoreChange
  <2>1. UNCHANGED store \/ Invoke(f, "pending", "add", <<f, url[f]>>)
    BY <1>2 DEF Judge
  <2>2. ASSUME Invoke(f, "pending", "add", <<f, url[f]>>) PROVE Starts(f)
    BY <2>2 DEF Starts, Files, Calls
  <2> QED BY <2>1, <2>2
<1>3. ASSUME Held(f) \/ FetchRuled(f) PROVE StoreChange
  BY <1>3 DEF Held, FetchRuled, Resume
<1>4. ASSUME FetchAsk(f) \/ Fetch(f) \/ FetchEnds(f) PROVE StoreChange
  BY <1>4 DEF FetchAsk, Fetch, FetchEnds
<1>5. ASSUME NEW choice \in Choices, FetchAnswered(f, choice) PROVE StoreChange
  <2>1. \/ UNCHANGED store
        \/ \E rule : Invoke(f, "approvals", "add", rule)
    BY <1>5 DEF FetchAnswered, Choices
  <2>2. ASSUME NEW rule, Invoke(f, "approvals", "add", rule) PROVE Starts(f)
    BY <2>2 DEF Starts, Files, Calls
  <2> QED BY <2>1, <2>2
<1>6. ASSUME NEW hop \in URLs, Redirect(f, hop) PROVE StoreChange
  BY <1>6 DEF Redirect
<1> QED BY <1>1, <1>2, <1>3, <1>4, <1>5, <1>6 DEF FetchNext, FetchStep

(* So does a gated worker, which leaves it alone.                          *)
LEMMA GatedStore == ASSUME NEW g \in Gated, GatedNext(g) PROVE StoreChange
<1>1. UNCHANGED store
  BY DEF GatedNext, GatedStep, Gate, GateAsk, GateSettled, GateAnswered
<1> QED BY <1>1 DEF StoreChange

(* A command, and only a command, starts the removal of an entry.          *)
LEMMA CommandStore == ASSUME NEW c \in Commands, CommandNext(c) PROVE StoreChange
<1> USE AreClients DEF StoreChange
<1>1. ASSUME NEW f \in Fetches, NEW kind \in {"allow", "deny"}, NEW p \in Patterns,
             Settle(c, f, kind, p)
      PROVE  StoreChange
  <2>1. Invoke(c, "pending", "remove", <<f, url[f]>>)
    BY <1>1 DEF Settle
  <2>2. Starts(c)
    BY <2>1 DEF Starts, Files, Calls
  <2> QED BY <2>2
<1>2. ASSUME NEW rule \in {"allow", "deny"} \X Patterns, Forget(c, rule) PROVE StoreChange
  <2>1. Invoke(c, "approvals", "remove", rule)
    BY <1>2 DEF Forget
  <2>2. Starts(c)
    BY <2>1 DEF Starts, Files, Calls
  <2> QED BY <2>2
<1>3. ASSUME SettleRule(c) PROVE StoreChange
  <2>1. Consume(c) \/ Invoke(c, "approvals", "add", <<wants[c][2], wants[c][3]>>)
    BY <1>3 DEF SettleRule
  <2>2. ASSUME Invoke(c, "approvals", "add", <<wants[c][2], wants[c][3]>>) PROVE Starts(c)
    BY <2>2 DEF Starts, Files, Calls
  <2> QED BY <2>1, <2>2
<1>4. ASSUME CommandEnds(c) PROVE StoreChange
  BY <1>4 DEF CommandEnds, Resume
<1>5. ASSUME Kill(c) PROVE StoreChange
  BY <1>5 DEF Kill
<1> QED BY <1>1, <1>2, <1>3, <1>4, <1>5 DEF CommandNext, CommandStep

(* A connection adds the operator's remembered answer, or nothing.         *)
LEMMA ConnStore == ASSUME NEW k \in Conns, ConnNext(k) PROVE StoreChange
<1> USE AreClients DEF StoreChange
<1>1. ASSUME NEW h \in Hosts, Arrive(k, h) PROVE StoreChange
  BY <1>1 DEF Arrive
<1>2. ASSUME NEW u \in URLs, Request(k, u) PROVE StoreChange
  BY <1>2 DEF Request
<1>3. ASSUME NEW choice \in Choices, ProxyAnswered(k, choice) PROVE StoreChange
  <2>1. \/ UNCHANGED store
        \/ \E rule : Invoke(k, "approvals", "add", rule)
    BY <1>3 DEF ProxyAnswered, Choices
  <2>2. ASSUME NEW rule, Invoke(k, "approvals", "add", rule) PROVE Starts(k)
    BY <2>2 DEF Starts, Files, Calls
  <2> QED BY <2>1, <2>2
<1>4. ASSUME ProxyRuled(k) PROVE StoreChange
  BY <1>4 DEF ProxyRuled
<1>5. ASSUME \/ Recall(k) \/ Evaluate(k) \/ Screen(k) \/ Weigh(k) \/ ProxyAsk(k)
             \/ PathDeny(k) \/ ArtifactDeny(k) \/ Forward(k) \/ recordIndex(k)
             \/ Deliver(k) \/ Hangup(k)
      PROVE  UNCHANGED store
  BY <1>5 DEF Recall, Evaluate, Screen, Weigh, ProxyAsk, PathDeny, ArtifactDeny, Forward,
              recordIndex, Deliver, Hangup
<1> QED BY <1>1, <1>2, <1>3, <1>4, <1>5 DEF ConnNext, ConnStep

(* Every step of the system is one of these for the store.                 *)
LEMMA StoreSteps == [Next]_vars => StoreChange
<1> SUFFICES ASSUME [Next]_vars PROVE StoreChange
  OBVIOUS
<1>1. ASSUME NEW c \in Clients, ProxyStore(c) PROVE StoreChange
  BY <1>1 DEF ProxyStore, StoreStep, StoreChange
<1>2. ASSUME NEW i \in Indexes, seedDeniedArtifacts(i) PROVE StoreChange
  BY <1>2 DEF seedDeniedArtifacts, StoreChange
<1>3. ASSUME HandEdit PROVE StoreChange
  BY <1>3 DEF HandEdit, StoreChange
<1>4. ASSUME Quiet \/ UNCHANGED vars PROVE StoreChange
  BY <1>4 DEF Quiet, StoreChange, vars
<1> QED BY <1>1, <1>2, <1>3, <1>4, FetchStore, GatedStore, CommandStore, ConnStore DEF Next

-----------------------------------------------------------------------------

(* No call is under way at the start and the queue is empty.               *)
LEMMA StoreInvInit == Init => StoreInv
<1> SUFFICES ASSUME Init PROVE StoreInv
  OBVIOUS
<1>1. ShapeInv
  BY DEF Init, StoreInit, ShapeInv, Steps, NoCall, File, Kind, Item, Files, Calls
<1>2. \A c \in Clients : step[c] = "idle" /\ Kind(c) = "add"
  BY DEF Init, StoreInit, NoCall, Kind
<1>3. HeldOnce
  BY DEF Init, HeldOnce, Files
<1> QED BY <1>1, <1>2, <1>3 DEF StoreInv, LockInv, FreshInv, RemoverInv, NewInv, Holding

(* The start of a call, and the return of its result, leave the others be. *)
LEMMA StartsKeeps == ASSUME StoreInv, NEW c \in Clients, Starts(c) PROVE StoreInv'
<1>1. PICK f \in Files, kind \in Calls : \E item :
        (kind = "remove" => c \in Commands) /\ Invoke(c, f, kind, item)
  BY DEF Starts
<1>2. PICK item : (kind = "remove" => c \in Commands) /\ Invoke(c, f, kind, item)
  BY <1>1
<1>3. /\ step' = [step EXCEPT ![c] = "lock"]
      /\ call' = [call EXCEPT ![c] = <<f, kind, item>>]
      /\ UNCHANGED <<files, holder, seen>>
  BY <1>2 DEF Invoke, onDisk
<1>4. File(c)' = f /\ Kind(c)' = kind /\ Item(c)' = item /\ call'[c] = <<f, kind, item>>
  BY <1>3 DEF StoreInv, ShapeInv, File, Kind, Item
<1>5. \A d \in Clients \ {c} : call'[d] = call[d] /\ step'[d] = step[d]
  BY <1>3 DEF StoreInv, ShapeInv
<1>6. \A d \in Clients \ {c} : File(d)' = File(d) /\ Kind(d)' = Kind(d) /\ Item(d)' = Item(d)
  BY <1>5 DEF File, Kind, Item
<1>7. step'[c] = "lock"
  BY <1>3 DEF StoreInv, ShapeInv
<1>8. ShapeInv'
  BY <1>3, <1>4, <1>5, <1>6 DEF StoreInv, ShapeInv, Steps
<1> QED BY <1>2, <1>3, <1>4, <1>5, <1>6, <1>7, <1>8
        DEF StoreInv, LockInv, FreshInv, RemoverInv, NewInv, Holding, HeldOnce, Duplicate

(* A call that ends, with its result or with its process, gives its lock   *)
(* up and no other.                                                        *)
LEMMA EndKeeps ==
  ASSUME StoreInv, NEW c \in Clients,
         files' = files,
         holder' = holder \/ (holder' = Unlocked(c)),
         step' = [step EXCEPT ![c] = "idle"] \/ step' = [step EXCEPT ![c] = "back"],
         call' = call \/ call' = [call EXCEPT ![c] = NoCall],
         seen' = seen \/ seen' = [seen EXCEPT ![c] = {}]
  PROVE  StoreInv'
<1>1. \A d \in Clients \ {c} :
        step'[d] = step[d] /\ call'[d] = call[d] /\ seen'[d] = seen[d]
  BY DEF StoreInv, ShapeInv
<1>2. \A d \in Clients \ {c} : File(d)' = File(d) /\ Kind(d)' = Kind(d) /\ Item(d)' = Item(d)
  BY <1>1 DEF File, Kind, Item
<1>3. step'[c] \in {"idle", "back"}
  BY DEF StoreInv, ShapeInv
<1>4. call'[c] = call[c] \/ call'[c] = NoCall
  BY DEF StoreInv, ShapeInv
<1>5. /\ call'[c] = <<File(c)', Kind(c)', Item(c)'>>
      /\ File(c)' \in Files /\ Kind(c)' \in Calls
      /\ Kind(c)' = "remove" => Kind(c) = "remove"
  BY <1>4 DEF File, Kind, Item, NoCall, Files, Calls, StoreInv, ShapeInv
<1>6. ShapeInv'
  <2>1. holder' = [f \in Files |-> holder'[f]]
    BY DEF StoreInv, ShapeInv, Unlocked
  <2> QED BY <1>1, <1>2, <1>5, <2>1 DEF StoreInv, ShapeInv, Steps
<1>7. \A d \in Clients \ {c} : Holding(d) => holder'[File(d)] = d
  BY DEF StoreInv, ShapeInv, LockInv, Holding, Unlocked
<1>8. LockInv'
  BY <1>1, <1>2, <1>3, <1>7 DEF LockInv, Holding
<1> QED BY <1>1, <1>2, <1>3, <1>5, <1>6, <1>8
        DEF StoreInv, FreshInv, RemoverInv, NewInv, HeldOnce, Duplicate

(* The lock is taken by one call at a time.                                *)
LEMMA LockKeeps == ASSUME StoreInv, NEW c \in Clients, Lock(c) PROVE StoreInv'
<1>1. /\ step' = [step EXCEPT ![c] = "load"]
      /\ holder' = [holder EXCEPT ![File(c)] = c]
      /\ holder[File(c)] = Nobody
      /\ UNCHANGED <<files, call, seen>>
  BY DEF Lock, Lockable
<1>2. \A d \in Clients : File(d)' = File(d) /\ Kind(d)' = Kind(d) /\ Item(d)' = Item(d)
  BY <1>1 DEF File, Kind, Item
<1>3. \A d \in Clients \ {c} : step'[d] = step[d]
  BY <1>1 DEF StoreInv, ShapeInv
<1>4. step'[c] = "load"
  BY <1>1 DEF StoreInv, ShapeInv
<1>5. ShapeInv'
  BY <1>1, <1>2 DEF StoreInv, ShapeInv, Steps
<1>6. LockInv'
  <2> SUFFICES ASSUME NEW d \in Clients, Holding(d)' PROVE holder'[File(d)] = d
    BY <1>2 DEF LockInv
  <2>1. CASE d = c
    BY <1>1, <2>1 DEF StoreInv, ShapeInv
  <2>2. CASE d # c
    <3>1. holder[File(d)] = d
      BY <1>3, <2>2 DEF StoreInv, LockInv, Holding
    <3>2. File(d) # File(c)
      BY <1>1, <3>1, StoreAssumption
    <3> QED BY <1>1, <3>1, <3>2 DEF StoreInv, ShapeInv
  <2> QED BY <2>1, <2>2
<1> QED BY <1>1, <1>2, <1>3, <1>4, <1>5, <1>6
        DEF StoreInv, FreshInv, RemoverInv, NewInv, HeldOnce, Duplicate

(* What is read is what the file contains, and it allows the write.        *)
LEMMA LoadKeeps == ASSUME StoreInv, NEW c \in Clients, Load(c) PROVE StoreInv'
<1>1. /\ step' = [step EXCEPT ![c] = "write"]
      /\ seen' = [seen EXCEPT ![c] = Loaded(c)]
      /\ step[c] = "load"
      /\ Refusal(c) = "none"
      /\ UNCHANGED <<files, holder, call>>
  BY DEF Load, onDisk
<1>2. \A d \in Clients : File(d)' = File(d) /\ Kind(d)' = Kind(d) /\ Item(d)' = Item(d)
  BY <1>1 DEF File, Kind, Item
<1>3. \A d \in Clients \ {c} : step'[d] = step[d] /\ seen'[d] = seen[d]
  BY <1>1 DEF StoreInv, ShapeInv
<1>4. legible[File(c)]
  BY <1>1 DEF Refusal
<1>5. File(c) = "pending" /\ Kind(c) = "add" => ~Duplicate(files["pending"], Item(c))
  BY <1>1, <1>4 DEF Refusal
<1>6. step'[c] = "write" /\ seen'[c] = files[File(c)]
  BY <1>1, <1>4 DEF StoreInv, ShapeInv, Loaded
<1>7. ShapeInv'
  BY <1>1, <1>2 DEF StoreInv, ShapeInv, Steps
<1>8. LockInv'
  BY <1>1, <1>2, <1>3 DEF StoreInv, LockInv, Holding
<1>9. FreshInv'
  BY <1>1, <1>2, <1>3, <1>6 DEF StoreInv, FreshInv
<1>10. NewInv'
  BY <1>1, <1>2, <1>3, <1>5 DEF StoreInv, NewInv, Duplicate
<1> QED BY <1>1, <1>2, <1>7, <1>8, <1>9, <1>10 DEF StoreInv, RemoverInv, HeldOnce

(* The write changes what the file contains by one entry: the lock kept    *)
(* every other call from reading it since.                                 *)
LEMMA WriteKeeps ==
  ASSUME StoreInv, NEW c \in Clients, Write(c)
  PROVE  /\ StoreInv'
         /\ files' = [files EXCEPT ![File(c)] =
                        IF Kind(c) = "add" THEN @ \cup {Item(c)} ELSE @ \ {Item(c)}]
<1>1. /\ step[c] = "write" /\ step' = [step EXCEPT ![c] = "back"]
      /\ files' = [files EXCEPT ![File(c)] = Updated(c)]
      /\ seen' = [seen EXCEPT ![c] = {}]
      /\ holder' = Unlocked(c)
      /\ UNCHANGED call
  BY DEF Write, Return
<1>2. \A d \in Clients : File(d)' = File(d) /\ Kind(d)' = Kind(d) /\ Item(d)' = Item(d)
  BY <1>1 DEF File, Kind, Item
<1>3. \A d \in Clients \ {c} : step'[d] = step[d] /\ seen'[d] = seen[d]
  BY <1>1 DEF StoreInv, ShapeInv
<1>4. step'[c] = "back"
  BY <1>1 DEF StoreInv, ShapeInv
<1>5. Updated(c) = IF Kind(c) = "add" THEN files[File(c)] \cup {Item(c)}
                                      ELSE files[File(c)] \ {Item(c)}
  BY <1>1 DEF Updated, StoreInv, FreshInv
<1>6. ShapeInv'
  <2>1. holder' = [f \in Files |-> holder'[f]]
    BY <1>1 DEF Unlocked
  <2> QED BY <1>1, <1>2, <2>1 DEF StoreInv, ShapeInv, Steps
<1>7. LockInv'
  <2> SUFFICES ASSUME NEW d \in Clients, Holding(d)' PROVE holder'[File(d)] = d
    BY <1>2 DEF LockInv
  <2>1. d # c /\ holder[File(d)] = d
    BY <1>3, <1>4 DEF Holding, StoreInv, LockInv
  <2> QED BY <1>1, <2>1 DEF Unlocked, StoreInv, ShapeInv
<1>8. \A d \in Clients \ {c} : step[d] = "write" => File(d) # File(c)
  BY <1>1 DEF StoreInv, LockInv, Holding
<1>9. \A d \in Clients \ {c} : step[d] = "write" => files'[File(d)] = files[File(d)]
  BY <1>1, <1>8 DEF StoreInv, ShapeInv
<1>10. FreshInv'
  BY <1>2, <1>3, <1>4, <1>9 DEF StoreInv, FreshInv
<1>11. NewInv'
  <2> SUFFICES ASSUME NEW d \in Clients, step'[d] = "write", File(d) = "pending", Kind(d) = "add"
               PROVE  ~Duplicate(files'["pending"], Item(d))
    BY <1>2 DEF NewInv
  <2>1. d # c /\ step[d] = "write"
    BY <1>3, <1>4
  <2> QED BY <1>9, <2>1 DEF StoreInv, NewInv
<1>12. HeldOnce'
  <2>1. CASE File(c) # "pending"
    <3>1. files'["pending"] = files["pending"]
      BY <1>1, <2>1 DEF StoreInv, ShapeInv, Files
    <3> QED BY <3>1 DEF HeldOnce, StoreInv
  <2>2. CASE File(c) = "pending" /\ Kind(c) = "add"
    <3>1. files'["pending"] = files["pending"] \cup {Item(c)}
      BY <1>1, <1>5, <2>2 DEF StoreInv, ShapeInv, Files
    <3>2. \A e \in files["pending"] : e[2] # Item(c)[2]
      BY <1>1, <2>2 DEF StoreInv, NewInv, Duplicate
    <3> QED BY <3>1, <3>2 DEF HeldOnce, StoreInv
  <2>3. CASE File(c) = "pending" /\ Kind(c) # "add"
    <3>1. files'["pending"] = files["pending"] \ {Item(c)}
      BY <1>1, <1>5, <2>3 DEF StoreInv, ShapeInv, Files
    <3> QED BY <3>1 DEF HeldOnce, StoreInv
  <2> QED BY <2>1, <2>2, <2>3
<1>13. RemoverInv'
  BY <1>2 DEF StoreInv, RemoverInv
<1> QED BY <1>1, <1>5, <1>6, <1>7, <1>10, <1>11, <1>12, <1>13 DEF StoreInv

(* Every change of the store keeps the invariant, and takes an entry out   *)
(* of a file only as the write of a removal of that entry.                 *)
LEMMA StoreKeeps ==
  ASSUME StoreInv, StoreChange
  PROVE  /\ StoreInv'
         /\ \A f \in Files : \A e \in files[f] \ files'[f] :
              \E c \in Commands : call[c] = <<f, "remove", e>> /\ step[c] = "write"
<1> DEFINE Kept == \A f \in Files : \A e \in files[f] \ files'[f] :
                     \E c \in Commands : call[c] = <<f, "remove", e>> /\ step[c] = "write"
<1>1. ASSUME UNCHANGED store PROVE StoreInv' /\ Kept
  BY <1>1 DEF store, onDisk, calls, StoreInv, ShapeInv, LockInv, FreshInv, RemoverInv, NewInv,
              HeldOnce, Holding, File, Kind, Item, Duplicate
<1>2. ASSUME NEW c \in Clients, Starts(c) PROVE StoreInv' /\ Kept
  BY <1>2, StartsKeeps DEF Starts, Invoke, onDisk
<1>3. ASSUME NEW c \in Clients, Consume(c) PROVE StoreInv' /\ Kept
  BY <1>3, EndKeeps DEF Consume, onDisk
<1>4. ASSUME NEW c \in Clients, Abandon(c) PROVE StoreInv' /\ Kept
  BY <1>4, EndKeeps DEF Abandon
<1>5. ASSUME NEW c \in Clients, StoreCall(c) PROVE StoreInv' /\ Kept
  <2>1. ASSUME Lock(c) PROVE StoreInv' /\ Kept
    BY <2>1, LockKeeps DEF Lock
  <2>2. ASSUME Load(c) PROVE StoreInv' /\ Kept
    BY <2>2, LoadKeeps DEF Load, onDisk
  <2>3. ASSUME Refuse(c) PROVE StoreInv' /\ Kept
    BY <2>3, EndKeeps DEF Refuse, Return
  <2>4. ASSUME CallFails(c) PROVE StoreInv' /\ Kept
    BY <2>4, EndKeeps DEF CallFails, Return
  <2>5. ASSUME Write(c) PROVE StoreInv' /\ Kept
    <3>1. StoreInv'
      BY <2>5, WriteKeeps
    <3>2. files' = [files EXCEPT ![File(c)] =
                      IF Kind(c) = "add" THEN @ \cup {Item(c)} ELSE @ \ {Item(c)}]
      BY <2>5, WriteKeeps
    <3>3. ASSUME NEW f \in Files, NEW e \in files[f] \ files'[f]
          PROVE  \E d \in Commands : call[d] = <<f, "remove", e>> /\ step[d] = "write"
      <4>1. File(c) = f /\ Kind(c) # "add" /\ Item(c) = e
        BY <3>2, <3>3 DEF StoreInv, ShapeInv
      <4>2. Kind(c) = "remove" /\ c \in Commands
        BY <4>1 DEF StoreInv, ShapeInv, RemoverInv, Calls
      <4>3. step[c] = "write"
        BY <2>5 DEF Write
      <4>4. call[c] = <<f, "remove", e>>
        BY <4>1, <4>2 DEF File, Kind, Item, StoreInv, ShapeInv
      <4> QED BY <4>2, <4>3, <4>4
    <3> QED BY <3>1, <3>3
  <2> QED BY <1>5, <2>1, <2>2, <2>3, <2>4, <2>5 DEF StoreCall
<1>6. ASSUME NEW f \in Files, Break(f) \/ Mend(f) PROVE StoreInv' /\ Kept
  <2>1. UNCHANGED <<files, holder, step, call, seen>>
    BY <1>6 DEF Break, Mend, calls
  <2> QED BY <2>1 DEF StoreInv, ShapeInv, LockInv, FreshInv, RemoverInv, NewInv,
                      HeldOnce, Holding, File, Kind, Item, Duplicate
<1> QED BY <1>1, <1>2, <1>3, <1>4, <1>5, <1>6 DEF StoreChange

-----------------------------------------------------------------------------

(* The inductive invariant of the files: a call that has read its file     *)
(* holds the lock and knows what the file contains.                        *)
THEOREM StoreHolds == Spec => []StoreInv
<1>1. StoreInv /\ [Next]_vars => StoreInv'
  BY StoreSteps, StoreKeeps
<1> QED BY <1>1, StoreInvInit, PTL DEF Spec

(* One entry per URL is held, however many handlers hold it at once.       *)
THEOREM HeldOnceHolds == Spec => []HeldOnce
<1>1. StoreInv => HeldOnce
  BY DEF StoreInv
<1> QED BY <1>1, StoreHolds, PTL

(* No rule and no held fetch is lost to a concurrent writer, a failed call *)
(* or a file that did not parse.                                           *)
THEOREM NothingForgottenHolds == Spec => NothingForgotten
<1> DEFINE Kept == \A f \in Files : \A e \in files[f] \ files'[f] :
                     \E c \in Commands : call[c] = <<f, "remove", e>> /\ step[c] = "write"
<1>1. StoreInv /\ [Next]_vars => [Kept]_vars
  BY StoreSteps, StoreKeeps
<1> QED BY <1>1, StoreHolds, PTL DEF Spec, NothingForgotten

-----------------------------------------------------------------------------
(***************************************************************************)
(* What the operator is asked, and what a deny rule keeps from the network *)
(* for every set of agents, URLs, hosts and rules.                         *)
(***************************************************************************)

PcInv == pc \in [Agents -> Labels]

(* Whoever waits for the operator holds the prompt.                        *)
PromptInv == PcInv /\ \A a \in Agents : pc[a] = "asking" => promptMu = a

(* The only ways agent a moves, and what becomes of the prompt.            *)
Moves(a) ==
  \/ UNCHANGED <<pc, promptMu>>
  \/ \E l \in Labels \ {"asking"} : Goto(a, l) /\ pc[a] # "asking" /\ promptMu' = promptMu
  \/ Goto(a, "asking") /\ promptMu = Nobody /\ promptMu' = a
  \/ \E l \in Labels \ {"asking"} : Goto(a, l) /\ pc[a] = "asking" /\ promptMu' = Nobody

Stays(a) == pc'[a] = pc[a]

-----------------------------------------------------------------------------

(* The agents of different kinds are different.                            *)
LEMMA Kinds ==
  /\ Fetches \subseteq Agents /\ Gated \subseteq Agents
  /\ Commands \subseteq Agents /\ Conns \subseteq Agents
  /\ Fetches \cap Gated = {} /\ Fetches \cap Commands = {} /\ Fetches \cap Conns = {}
  /\ Gated \cap Commands = {} /\ Gated \cap Conns = {} /\ Commands \cap Conns = {}
  /\ Nobody \notin Agents
  BY StoreAssumption, EgressAssumption, ProxyAssumption DEF Agents

(* A fetch moves as Moves says.                                            *)
LEMMA FetchMoves == ASSUME NEW f \in Fetches, FetchNext(f) PROVE Moves(f)
<1> USE DEF Moves, Labels
<1>1. ASSUME NEW u \in URLs, Submit(f, u) PROVE Moves(f)
  BY <1>1 DEF Submit, approver
<1>2. ASSUME Judge(f) PROVE Moves(f)
  BY <1>2 DEF Judge, approver
<1>3. ASSUME Held(f) PROVE Moves(f)
  BY <1>3 DEF Held, Resume, approver
<1>4. ASSUME FetchAsk(f) PROVE Moves(f)
  BY <1>4 DEF FetchAsk, Present, PromptFree
<1>5. ASSUME NEW choice \in Choices, FetchAnswered(f, choice) PROVE Moves(f)
  BY <1>5 DEF FetchAnswered, Answered, Choices
<1>6. ASSUME FetchRuled(f) PROVE Moves(f)
  BY <1>6 DEF FetchRuled, Resume, approver
<1>7. ASSUME Fetch(f) PROVE Moves(f)
  BY <1>7 DEF Fetch, approver
<1>8. ASSUME NEW hop \in URLs, Redirect(f, hop) PROVE Moves(f)
  BY <1>8 DEF Redirect, Answer, approver
<1>9. ASSUME FetchEnds(f) PROVE Moves(f)
  BY <1>9 DEF FetchEnds, Answer, approver
<1> QED BY <1>1, <1>2, <1>3, <1>4, <1>5, <1>6, <1>7, <1>8, <1>9 DEF FetchNext, FetchStep

(* So does a gated worker.                                                 *)
LEMMA GatedMoves == ASSUME NEW g \in Gated, GatedNext(g) PROVE Moves(g)
<1> USE DEF Moves, Labels
<1>1. ASSUME Gate(g) PROVE Moves(g)
  BY <1>1 DEF Gate, Remembered, approver
<1>2. ASSUME GateAsk(g) PROVE Moves(g)
  BY <1>2 DEF GateAsk, Present, PromptFree
<1>3. ASSUME GateSettled(g) PROVE Moves(g)
  BY <1>3 DEF GateSettled, UnderLock, Remembered, approver
<1>4. ASSUME NEW choice \in Choices, GateAnswered(g, choice) PROVE Moves(g)
  BY <1>4 DEF GateAnswered, Answered
<1> QED BY <1>1, <1>2, <1>3, <1>4 DEF GatedNext, GatedStep

(* So does a command, which never prompts.                                 *)
LEMMA CommandMoves == ASSUME NEW c \in Commands, CommandNext(c) PROVE Moves(c)
<1> USE DEF Moves, Labels
<1>1. ASSUME NEW f \in Fetches, NEW kind \in {"allow", "deny"}, NEW p \in Patterns,
             Settle(c, f, kind, p)
      PROVE  Moves(c)
  BY <1>1 DEF Settle, approver
<1>2. ASSUME NEW rule \in {"allow", "deny"} \X Patterns, Forget(c, rule) PROVE Moves(c)
  BY <1>2 DEF Forget, approver
<1>3. ASSUME SettleRule(c) PROVE Moves(c)
  BY <1>3 DEF SettleRule, approver
<1>4. ASSUME CommandEnds(c) PROVE Moves(c)
  BY <1>4 DEF CommandEnds, Resume, approver
<1>5. ASSUME Kill(c) PROVE Moves(c)
  BY <1>5 DEF Kill, approver
<1> QED BY <1>1, <1>2, <1>3, <1>4, <1>5 DEF CommandNext, CommandStep

(* So does a connection.                                                   *)
LEMMA ConnMoves == ASSUME NEW k \in Conns, ConnNext(k) PROVE Moves(k)
<1> USE DEF Moves, Labels, Admitted, Verdict, Respond, Proceed
<1>1. ASSUME NEW h \in Hosts, Arrive(k, h) PROVE Moves(k)
  BY <1>1 DEF Arrive, approver
<1>2. ASSUME NEW u \in URLs, Request(k, u) PROVE Moves(k)
  BY <1>2 DEF Request, approver
<1>3. ASSUME NEW choice \in Choices, ProxyAnswered(k, choice) PROVE Moves(k)
  BY <1>3 DEF ProxyAnswered, Answered, Choices
<1>4. ASSUME Recall(k) \/ Evaluate(k) PROVE Moves(k)
  BY <1>4 DEF Recall, Evaluate, approver
<1>5. ASSUME Screen(k) \/ Weigh(k) PROVE Moves(k)
  BY <1>5 DEF Screen, Weigh, approver
<1>6. ASSUME ProxyAsk(k) PROVE Moves(k)
  BY <1>6 DEF ProxyAsk, Present, PromptFree
<1>7. ASSUME ProxyRuled(k) PROVE Moves(k)
  BY <1>7 DEF ProxyRuled, approver
<1>8. ASSUME PathDeny(k) \/ ArtifactDeny(k) PROVE Moves(k)
  BY <1>8 DEF PathDeny, ArtifactDeny, approver
<1>9. ASSUME Forward(k) PROVE Moves(k)
  BY <1>9 DEF Forward, AfterResponse, approver
<1>10. ASSUME recordIndex(k) \/ Deliver(k) \/ Hangup(k) PROVE Moves(k)
  BY <1>10 DEF recordIndex, Deliver, Hangup, approver
<1> QED BY <1>1, <1>2, <1>3, <1>4, <1>5, <1>6, <1>7, <1>8, <1>9, <1>10 DEF ConnNext, ConnStep

(* The steps of nobody: of the store, of the operator's editor, of the     *)
(* goroutine that seeds denied artifacts, and none.                        *)
Aside ==
  \/ \E c \in Clients : ProxyStore(c)
  \/ \E i \in Indexes : seedDeniedArtifacts(i)
  \/ HandEdit \/ Quiet \/ UNCHANGED vars

(* A step is a step of one agent, of the operator or of a file's writer.   *)
LEMMA NextCases ==
  ASSUME [Next]_vars
  PROVE  \/ \E f \in Fetches : FetchNext(f)
         \/ \E g \in Gated : GatedNext(g)
         \/ \E c \in Commands : CommandNext(c)
         \/ \E k \in Conns : ConnNext(k)
         \/ Aside
  BY DEF Next, Aside

(* They move no agent and leave the approver alone.                        *)
LEMMA AsideStill == ASSUME Aside PROVE UNCHANGED <<pc, approver>>
  BY DEF Aside, ProxyStore, StoreStep, seedDeniedArtifacts, HandEdit, Quiet, vars, egress

(* A move keeps the prompt with the one who asks.                          *)
LEMMA MovesKeep ==
  ASSUME PromptInv, NEW a \in Agents, Moves(a)
  PROVE  PromptInv' /\ \A b \in Agents \ {a} : Stays(b)
<1>1. PcInv'
  BY DEF Moves, PromptInv, PcInv, Goto, Labels
<1>2. \A b \in Agents \ {a} : Stays(b)
  BY DEF Moves, PromptInv, PcInv, Goto, Stays
<1>3. \A b \in Agents : pc'[b] = "asking" => promptMu' = b
  BY <1>2, Kinds DEF Moves, PromptInv, PcInv, Goto, Stays
<1> QED BY <1>1, <1>2, <1>3 DEF PromptInv

(* Nobody asks at the start.                                               *)
LEMMA PromptInit == Init => PromptInv
  BY DEF Init, EgressInit, PromptInv, PcInv, Labels

(* One prompt at a time is an invariant of every step.                     *)
LEMMA PromptKeeps == PromptInv /\ [Next]_vars => PromptInv'
<1> SUFFICES ASSUME PromptInv, [Next]_vars PROVE PromptInv'
  OBVIOUS
<1>1. ASSUME Aside PROVE PromptInv'
  BY <1>1, AsideStill DEF PromptInv, PcInv, approver
<1> QED BY <1>1, NextCases, Kinds, FetchMoves, GatedMoves, CommandMoves, ConnMoves, MovesKeep

(* The inductive invariant of the prompt's lock.                           *)
THEOREM PromptHolds == Spec => []PromptInv
  BY PromptInit, PromptKeeps, PTL DEF Spec

(* The console never has two prompts to show, of whatever kind.            *)
THEOREM OnePromptHolds == Spec => []OnePrompt
<1>1. PromptInv => OnePrompt
  BY DEF PromptInv, OnePrompt
<1> QED BY <1>1, PromptHolds, PTL

-----------------------------------------------------------------------------

(* A worker comes to ask about a verb only when nothing is remembered.     *)
LEMMA GateAsks ==
  ASSUME PromptInv, NEW g \in Gated, GatedNext(g), pc[g] # "asking", pc'[g] = "asking"
  PROVE  Verb[g] \notin allowAll \cup denyAll
<1> USE DEF PromptInv, PcInv, Goto
<1>1. g \in Agents
  BY Kinds
<1>2. \A verb : Remembered(verb) \in {"refused", "granted", "none"}
  BY DEF Remembered
<1>3. ASSUME Gate(g) PROVE FALSE
  BY <1>1, <1>2, <1>3 DEF Gate
<1>4. ASSUME GateSettled(g) PROVE FALSE
  BY <1>1, <1>2, <1>4 DEF GateSettled, UnderLock
<1>5. ASSUME NEW choice \in Choices, GateAnswered(g, choice) PROVE FALSE
  BY <1>1, <1>5 DEF GateAnswered, Answered
<1>6. ASSUME GateAsk(g) PROVE Verb[g] \notin allowAll \cup denyAll
  BY <1>6 DEF GateAsk, UnderLock, Remembered
<1> QED BY <1>3, <1>4, <1>5, <1>6 DEF GatedNext, GatedStep

(* The operator is not asked about a verb decided for the session.         *)
THEOREM VerbAskedHolds == Spec => VerbAskedUntilDecided
<1> DEFINE Fair == \A g \in Gated : pc[g] # "asking" /\ pc'[g] = "asking" =>
                     Verb[g] \notin allowAll \cup denyAll
<1>1. PromptInv /\ [Next]_vars => [Fair]_vars
  <2> SUFFICES ASSUME PromptInv, [Next]_vars,
                      NEW g \in Gated, pc[g] # "asking", pc'[g] = "asking"
               PROVE  Verb[g] \notin allowAll \cup denyAll
    OBVIOUS
  <2>1. \A a \in Agents \ {g} : ~Moves(a)
    BY MovesKeep, Kinds DEF Stays
  <2>2. ~Aside
    BY AsideStill
  <2>3. GatedNext(g)
    BY <2>1, <2>2, NextCases, Kinds, FetchMoves, GatedMoves, CommandMoves, ConnMoves
  <2> QED BY <2>3, GateAsks
<1> QED BY <1>1, PromptHolds, PTL DEF Spec, VerbAskedUntilDecided

-----------------------------------------------------------------------------
(* Deny rules and fetches                                                  *)

(* Positions past the decision on the URL.                                 *)
Past == {"queue", "asking", "remember", "fetch", "follow"}

(* The history is of standing rules; past the decision there are none.     *)
BarInv ==
  /\ url = [f \in Fetches |-> url[f]]
  /\ reached = [f \in Fetches |-> reached[f]]
  /\ barred = [f \in Fetches |-> barred[f]]
  /\ \A f \in Fetches :
       /\ barred[f] \subseteq Denying(url[f])
       /\ pc[f] \in Past => barred[f] = {}
       /\ reached[f] # {} => pc[f] = "follow"

DenyInv == PromptInv /\ BarInv

(* No fetch is under way at the start.                                     *)
LEMMA DenyInit == Init => DenyInv
  BY PromptInit, Kinds DEF Init, EgressInit, DenyInv, BarInv, Past

(* A step that moves no fetch and keeps the rules keeps the invariant.     *)
LEMMA BarSame ==
  ASSUME BarInv, UNCHANGED <<files, fetching>>, \A f \in Fetches : Stays(f)
  PROVE  BarInv'
  BY DEF BarInv, Stays, fetching, Denying

(* The decision is "deny" while a rule stands against the URL.             *)
LEMMA DecideDenies == ASSUME NEW u, Decide(u) # "deny" PROVE Denying(u) = {}
  BY DEF Decide, StoreDenied

(* The invariant goes with a fetch through its steps.                      *)
LEMMA FetchBar == ASSUME DenyInv, NEW f \in Fetches, FetchNext(f) PROVE BarInv'
<1> USE DEF DenyInv, BarInv, PromptInv, PcInv, Past, Goto, Stays
<1>1. /\ f \in Agents
      /\ \A g \in Fetches \ {f} : g \in Agents /\ pc'[g] = pc[g]
  BY Kinds, FetchMoves, MovesKeep
<1>2. ASSUME NEW u \in URLs, Submit(f, u) PROVE BarInv'
  <2>1. UNCHANGED <<files, reached>>
    BY <1>2 DEF Submit, store, onDisk
  <2>2. /\ url' = [url EXCEPT ![f] = u] /\ barred' = [barred EXCEPT ![f] = Denying(u)]
        /\ pc[f] = "idle" /\ pc'[f] = "decide"
    BY <1>1, <1>2 DEF Submit
  <2> QED BY <1>1, <2>1, <2>2 DEF Denying
<1>3. ASSUME Judge(f) PROVE BarInv'
  <2>1. UNCHANGED <<files, url, reached, barred>>
    BY <1>3 DEF Judge, fetching, store, onDisk, Invoke
  <2>2. pc[f] = "decide" /\ (Decide(url[f]) # "deny" \/ pc'[f] = "denied")
    BY <1>1, <1>3 DEF Judge
  <2>3. pc'[f] \in Past => Denying(url[f]) = {}
    BY <2>2, DecideDenies
  <2> QED BY <1>1, <2>1, <2>2, <2>3 DEF Denying
<1>4. ASSUME Held(f) \/ FetchRuled(f) PROVE BarInv'
  <2>1. UNCHANGED <<files, url, reached, barred>>
    BY <1>4 DEF Held, FetchRuled, Resume, Consume, fetching, onDisk
  <2>2. pc[f] \in {"hold", "remember", "bar"} /\ (pc[f] \in Past \/ pc'[f] \notin Past)
    BY <1>1, <1>4 DEF Held, FetchRuled, Resume
  <2> QED BY <1>1, <2>1, <2>2 DEF Denying
<1>5. ASSUME FetchAsk(f) PROVE BarInv'
  <2>1. UNCHANGED <<files, url, reached, barred>>
    BY <1>5 DEF FetchAsk, fetching, store, onDisk
  <2>2. pc[f] = "queue"
    BY <1>5 DEF FetchAsk
  <2> QED BY <1>1, <2>1, <2>2 DEF Denying
<1>6. ASSUME NEW choice \in Choices, FetchAnswered(f, choice) PROVE BarInv'
  <2>1. UNCHANGED <<files, url, reached, barred>>
    BY <1>6 DEF FetchAnswered, fetching, store, onDisk, Invoke, Choices
  <2>2. pc[f] = "asking"
    BY <1>6 DEF FetchAnswered, Answered
  <2> QED BY <1>1, <2>1, <2>2 DEF Denying
<1>7. ASSUME Fetch(f) PROVE BarInv'
  <2>1. UNCHANGED <<files, url, barred>>
    BY <1>7 DEF Fetch, store, onDisk
  <2>2. reached' = [reached EXCEPT ![f] = {url[f]}] /\ pc[f] = "fetch" /\ pc'[f] = "follow"
    BY <1>1, <1>7 DEF Fetch
  <2> QED BY <1>1, <2>1, <2>2 DEF Denying
<1>8. ASSUME NEW label, label \notin Past, Answer(f, label), UNCHANGED <<files, url>> PROVE BarInv'
  <2>1. /\ reached' = [reached EXCEPT ![f] = {}] /\ barred' = [barred EXCEPT ![f] = {}]
        /\ pc'[f] = label
    BY <1>1, <1>8 DEF Answer
  <2> QED BY <1>1, <1>8, <2>1 DEF Denying
<1>9. ASSUME NEW hop \in URLs, Redirect(f, hop) PROVE BarInv'
  <2>1. UNCHANGED <<files, url>>
    BY <1>9 DEF Redirect, store, onDisk
  <2>2. CASE Answer(f, "failed")
    BY <1>8, <2>1, <2>2
  <2>3. CASE UNCHANGED <<pc, barred>> /\ reached' = [reached EXCEPT ![f] = @ \cup {hop}]
    <3>1. pc[f] = "follow"
      BY <1>9 DEF Redirect
    <3> QED BY <1>1, <2>1, <2>3, <3>1 DEF Denying
  <2> QED BY <1>9, <2>2, <2>3 DEF Redirect
<1>10. ASSUME FetchEnds(f) PROVE BarInv'
  <2>1. UNCHANGED <<files, url>>
    BY <1>10 DEF FetchEnds, store, onDisk
  <2> QED BY <1>8, <1>10, <2>1 DEF FetchEnds
<1> QED BY <1>2, <1>3, <1>4, <1>5, <1>6, <1>7, <1>9, <1>10 DEF FetchNext, FetchStep

(* Agents of the other kinds write no file themselves.                     *)
LEMMA GatedFrame == ASSUME NEW g \in Gated, GatedNext(g) PROVE UNCHANGED <<files, fetching>>
  BY DEF GatedNext, GatedStep, Gate, GateAsk, GateSettled, GateAnswered, store, onDisk

(* A command changes the files by calls of the store only.                 *)
LEMMA CommandFrame == ASSUME NEW c \in Commands, CommandNext(c) PROVE UNCHANGED <<files, fetching>>
  BY DEF CommandNext, CommandStep, Settle, Forget, SettleRule, CommandEnds, Kill, Resume,
         Consume, Invoke, Abandon, onDisk

(* So does a connection.                                                   *)
LEMMA ConnFrame == ASSUME NEW k \in Conns, ConnNext(k) PROVE UNCHANGED <<files, fetching>>
<1> USE DEF store, onDisk, Invoke, Consume
<1>1. ASSUME NEW h \in Hosts, Arrive(k, h) PROVE UNCHANGED <<files, fetching>>
  BY <1>1 DEF Arrive
<1>2. ASSUME NEW u \in URLs, Request(k, u) PROVE UNCHANGED <<files, fetching>>
  BY <1>2 DEF Request
<1>3. ASSUME NEW choice \in Choices, ProxyAnswered(k, choice) PROVE UNCHANGED <<files, fetching>>
  BY <1>3 DEF ProxyAnswered, Choices
<1>4. ASSUME ProxyRuled(k) PROVE UNCHANGED <<files, fetching>>
  BY <1>4 DEF ProxyRuled
<1>5. ASSUME \/ Recall(k) \/ Evaluate(k) \/ Screen(k) \/ Weigh(k) \/ ProxyAsk(k)
             \/ PathDeny(k) \/ ArtifactDeny(k) \/ Forward(k) \/ recordIndex(k)
             \/ Deliver(k) \/ Hangup(k)
      PROVE  UNCHANGED <<files, fetching>>
  BY <1>5 DEF Recall, Evaluate, Screen, Weigh, ProxyAsk, PathDeny, ArtifactDeny, Forward,
              recordIndex, Deliver, Hangup
<1> QED BY <1>1, <1>2, <1>3, <1>4, <1>5 DEF ConnNext, ConnStep

(* A write of the files takes the rules it removes out of the history.     *)
LEMMA AsideBar == ASSUME DenyInv, Aside PROVE BarInv'
<1> USE DEF DenyInv
<1>1. ASSUME NEW c \in Clients, ProxyStore(c) PROVE BarInv'
  <2>1. /\ barred' = [f \in Fetches |-> Standing(barred[f])]
        /\ UNCHANGED <<pc, url, reached>>
    BY <1>1 DEF ProxyStore, StoreStep
  <2>2. ASSUME NEW f \in Fetches
        PROVE  barred'[f] \subseteq Denying(url[f])' /\ (barred[f] = {} => barred'[f] = {})
    BY <2>1 DEF Standing, BarInv, Denying
  <2> QED BY <2>1, <2>2 DEF BarInv
<1>2. ASSUME NEW i \in Indexes, seedDeniedArtifacts(i) PROVE BarInv'
  BY <1>2, BarSame DEF seedDeniedArtifacts, egress, store, onDisk, Stays
<1>3. ASSUME HandEdit PROVE BarInv'
  BY <1>3, BarSame DEF HandEdit, Break, Mend, egress, Stays
<1>4. ASSUME Quiet \/ UNCHANGED vars PROVE BarInv'
  BY <1>4, BarSame DEF Quiet, vars, egress, store, onDisk, Stays
<1> QED BY <1>1, <1>2, <1>3, <1>4 DEF Aside

(* Every step keeps the rules that barred each fetch on record.            *)
LEMMA DenyKeeps == DenyInv /\ [Next]_vars => DenyInv'
<1> SUFFICES ASSUME DenyInv, [Next]_vars PROVE BarInv'
  BY PromptKeeps DEF DenyInv
<1> USE DEF DenyInv
<1>1. ASSUME NEW a \in Agents \ Fetches, Moves(a) PROVE \A f \in Fetches : Stays(f)
  BY <1>1, MovesKeep, Kinds
<1>2. ASSUME NEW g \in Gated, GatedNext(g) PROVE BarInv'
  BY <1>1, <1>2, GatedMoves, GatedFrame, BarSame, Kinds
<1>3. ASSUME NEW c \in Commands, CommandNext(c) PROVE BarInv'
  BY <1>1, <1>3, CommandMoves, CommandFrame, BarSame, Kinds
<1>4. ASSUME NEW k \in Conns, ConnNext(k) PROVE BarInv'
  BY <1>1, <1>4, ConnMoves, ConnFrame, BarSame, Kinds
<1> QED BY <1>2, <1>3, <1>4, NextCases, FetchBar, AsideBar

(* The inductive invariant of deny rules and fetches.                      *)
THEOREM DenyHolds == Spec => []DenyInv
  BY DenyInit, DenyKeeps, PTL DEF Spec

(* A rule that stands against a fetch all along keeps it from the network, *)
(* whatever is approved, remembered or redirected meanwhile.               *)
THEOREM DenySticksHolds == Spec => []DenySticks
<1>1. DenyInv => DenySticks
  BY DEF DenyInv, BarInv, DenySticks, Past
<1> QED BY <1>1, DenyHolds, PTL

-----------------------------------------------------------------------------
(* The proxy: one prompt per host                                          *)

Unasked  == {"screen", "weigh", "queue"}
Asked    == {"asking", "remember", "bar"}

(* The connection that decides holds the lock; a host without a verdict    *)
(* has been asked about only if it is being decided.                       *)
AskInv ==
  /\ target = [k \in Conns |-> target[k]]
  /\ cache = [h \in Hosts |-> cache[h]]
  /\ asks \in [Hosts -> Nat]
  /\ \A k \in Conns :
       /\ pc[k] \in {"connect"} \cup Unasked \cup Asked => target[k] \in Hosts
       /\ pc[k] \in Unasked \cup Asked => ppMu = k /\ cache[target[k]] = "none"
       /\ pc[k] \in Unasked => asks[target[k]] = 0
  /\ \A h \in Hosts :
       /\ asks[h] <= 1
       /\ cache[h] = "none" /\ asks[h] # 0 => \E k \in Conns : pc[k] \in Asked /\ target[k] = h

HostInv == PromptInv /\ AskInv

(* What the steps of everybody else leave alone.                           *)
askVars == <<target, cache, asks, ppMu>>

(* Nobody has been asked about a host at the start.                        *)
LEMMA HostInit == Init => HostInv
  BY PromptInit, Kinds DEF Init, EgressInit, HostInv, AskInv, Unasked, Asked

(* A step that moves no connection and leaves verdicts, prompts and lock   *)
(* alone keeps the invariant.                                              *)
LEMMA AskSame ==
  ASSUME AskInv, UNCHANGED askVars, \A k \in Conns : Stays(k)
  PROVE  AskInv'
  BY DEF AskInv, askVars, Stays

(* A step that moves k within Unasked or within Asked.                     *)
LEMMA AskMove ==
  ASSUME AskInv, NEW k \in Conns, \A j \in Conns \ {k} : Stays(j), UNCHANGED askVars,
         \/ pc[k] \in Unasked /\ pc'[k] \in Unasked
         \/ pc[k] \in Asked /\ pc'[k] \in Asked
         \/ pc[k] \notin Unasked \cup Asked /\ pc'[k] \notin {"connect"} \cup Unasked \cup Asked
  PROVE  AskInv'
<1> USE DEF AskInv, askVars, Stays, Unasked, Asked
<1>1. ASSUME NEW h \in Hosts, NEW j \in Conns, pc[j] \in Asked, target[j] = h
      PROVE  pc'[j] \in Asked /\ target'[j] = h
  BY <1>1
<1>2. \A h \in Hosts : cache'[h] = "none" /\ asks'[h] # 0 =>
        \E j \in Conns : pc'[j] \in Asked /\ target'[j] = h
  BY <1>1
<1>3. \A j \in Conns :
       /\ pc'[j] \in {"connect"} \cup Unasked \cup Asked => target'[j] \in Hosts
       /\ pc'[j] \in Unasked \cup Asked => ppMu' = j /\ cache'[target'[j]] = "none"
       /\ pc'[j] \in Unasked => asks'[target'[j]] = 0
  OBVIOUS
<1> QED BY <1>2, <1>3

(* A verdict ends the deciding of its host.                                *)
LEMMA AskVerdict ==
  ASSUME HostInv, NEW k \in Conns, pc[k] \in Unasked \cup Asked,
         NEW v \in {"allow", "deny"}, Verdict(k, v), UNCHANGED <<target, asks>>
  PROVE  AskInv'
<1> USE DEF HostInv, AskInv, Stays, Unasked, Asked, PromptInv, PcInv, Goto
<1>1. /\ cache' = [cache EXCEPT ![target[k]] = v] /\ ppMu' = Nobody
      /\ pc' = [pc EXCEPT ![k] = IF v = "allow" THEN "open" ELSE "refused"]
  BY DEF Verdict, Relinquished, Admitted
<1>2. k \in Agents /\ Conns \subseteq Agents
  BY Kinds
<1>3. pc'[k] \in {"open", "refused"} /\ \A j \in Conns \ {k} : pc'[j] = pc[j]
  BY <1>1, <1>2
<1>4. \A j \in Conns \ {k} : pc[j] \notin Unasked \cup Asked
  OBVIOUS
<1>5. target[k] \in Hosts /\ cache'[target[k]] = v
      /\ \A h \in Hosts \ {target[k]} : cache'[h] = cache[h]
  BY <1>1
<1>6. \A h \in Hosts : ~(cache'[h] = "none" /\ asks'[h] # 0)
  BY <1>4, <1>5
<1>7. cache' = [h \in Hosts |-> cache'[h]]
  BY <1>1
<1> QED BY <1>3, <1>4, <1>6, <1>7

(* The deciding of a host, step by step.                                   *)
LEMMA ConnAsk == ASSUME HostInv, NEW k \in Conns, ConnNext(k) PROVE AskInv'
<1> USE DEF HostInv
<1>1. /\ k \in Agents /\ k # Nobody
      /\ \A j \in Conns \ {k} : j \in Agents /\ Stays(j)
  BY Kinds, ConnMoves, MovesKeep
<1>2. \A l : Goto(k, l) => pc'[k] = l
  BY <1>1 DEF Goto, PromptInv, PcInv
<1>3. ASSUME NEW h \in Hosts, Arrive(k, h) PROVE AskInv'
  <2>1. /\ target' = [target EXCEPT ![k] = h] /\ UNCHANGED <<cache, asks, ppMu>>
        /\ pc[k] = "idle" /\ pc'[k] = "connect"
    BY <1>2, <1>3 DEF Arrive, policy
  <2>2. \A j \in Conns \ {k} : target'[j] = target[j] /\ pc'[j] = pc[j]
    BY <1>1, <2>1 DEF AskInv, Stays
  <2>3. target'[k] = h
    BY <2>1 DEF AskInv
  <2>4. \A g \in Hosts : cache'[g] = "none" /\ asks'[g] # 0 =>
          \E j \in Conns : pc'[j] \in Asked /\ target'[j] = g
    BY <2>1, <2>2 DEF AskInv, Asked
  <2> QED BY <2>1, <2>2, <2>3, <2>4 DEF AskInv, Unasked, Asked
<1>4. ASSUME Evaluate(k) PROVE AskInv'
  <2>1. /\ ppMu = Nobody /\ ppMu' = k /\ UNCHANGED <<target, cache, asks>>
        /\ pc[k] = "connect" /\ pc'[k] = "screen" /\ cache[target[k]] = "none"
    BY <1>2, <1>4 DEF Evaluate, PolicyFree, Cached, traffic
  <2>2. \A j \in Conns : pc[j] \notin Unasked \cup Asked
    BY <2>1, Kinds DEF AskInv
  <2>3. target[k] \in Hosts /\ asks[target[k]] = 0
    BY <2>1, <2>2 DEF AskInv
  <2> QED BY <1>1, <2>1, <2>2, <2>3 DEF AskInv, Stays, Unasked, Asked
<1>5. ASSUME Screen(k) PROVE AskInv'
  <2>1. pc[k] = "screen" /\ UNCHANGED <<target, asks>>
    BY <1>5 DEF Screen, traffic
  <2>2. \/ Verdict(k, "deny") \/ Verdict(k, "allow")
        \/ pc'[k] = "weigh" /\ UNCHANGED policy
    BY <1>2, <1>5 DEF Screen
  <2> QED BY <1>1, <2>1, <2>2, AskVerdict, AskMove DEF Unasked, askVars, policy
<1>6. ASSUME Weigh(k) PROVE AskInv'
  <2>1. pc[k] = "weigh" /\ UNCHANGED <<target, asks>>
    BY <1>6 DEF Weigh, traffic
  <2>2. Decide(Resolved(k)) \in {"allow", "deny", "hold"}
    BY DEF Decide
  <2>3. \/ Verdict(k, "deny") \/ Verdict(k, "allow")
        \/ pc'[k] = "queue" /\ UNCHANGED policy
    BY <1>2, <1>6, <2>2 DEF Weigh
  <2> QED BY <1>1, <2>1, <2>3, AskVerdict, AskMove DEF Unasked, askVars, policy
<1>7. ASSUME ProxyAsk(k) PROVE AskInv'
  <2>1. /\ asks' = [asks EXCEPT ![target[k]] = @ + 1] /\ UNCHANGED <<target, cache, ppMu>>
        /\ pc[k] = "queue" /\ pc'[k] = "asking"
    BY <1>2, <1>7 DEF ProxyAsk, Present, policy
  <2>2. target[k] \in Hosts /\ asks[target[k]] = 0
    BY <2>1 DEF AskInv, Unasked
  <2>3. asks' \in [Hosts -> Nat] /\ asks'[target[k]] = 1
        /\ \A h \in Hosts \ {target[k]} : asks'[h] = asks[h]
    BY <2>1, <2>2 DEF AskInv
  <2>4. \A j \in Conns \ {k} : pc[j] \notin Unasked \cup Asked /\ pc'[j] = pc[j]
    BY <1>1, <2>1 DEF AskInv, Unasked, Stays
  <2>5. \A h \in Hosts : cache'[h] = "none" /\ asks'[h] # 0 => h = target[k]
    BY <2>1, <2>3, <2>4 DEF AskInv, Asked
  <2>6. \A h \in Hosts : asks'[h] <= 1
    BY <2>3 DEF AskInv
  <2> QED BY <2>1, <2>2, <2>3, <2>4, <2>5, <2>6 DEF AskInv, Unasked, Asked
<1>8. ASSUME NEW choice \in Choices, ProxyAnswered(k, choice) PROVE AskInv'
  <2>1. pc[k] = "asking" /\ UNCHANGED <<target, asks>>
    BY <1>8 DEF ProxyAnswered, Answered, traffic
  <2>2. \/ Verdict(k, "deny") \/ Verdict(k, "allow")
        \/ pc'[k] \in {"remember", "bar"} /\ UNCHANGED policy
    BY <1>2, <1>8 DEF ProxyAnswered, Choices
  <2> QED BY <1>1, <2>1, <2>2, AskVerdict, AskMove DEF Asked, askVars, policy
<1>9. ASSUME ProxyRuled(k) PROVE AskInv'
  <2>1. pc[k] \in Asked /\ UNCHANGED <<target, asks>>
    BY <1>9 DEF ProxyRuled, traffic, Asked
  <2>2. Verdict(k, "deny") \/ Verdict(k, "allow")
    BY <1>9 DEF ProxyRuled
  <2> QED BY <2>1, <2>2, AskVerdict
<1>10. ASSUME (\E u \in URLs : Request(k, u)) \/ Recall(k) \/ Hangup(k) PROVE AskInv'
  <2>1. UNCHANGED askVars
    BY <1>10 DEF Request, Recall, Hangup, proxyVars, policy, traffic, askVars
  <2>2. /\ pc[k] \in {"open", "connect"}
        /\ pc'[k] \in {"path", "closed", "open", "refused"}
    BY <1>2, <1>10 DEF Request, Recall, Hangup, Admitted
  <2> QED BY <1>1, <2>1, <2>2, AskMove DEF Unasked, Asked
<1>11. ASSUME PathDeny(k) \/ ArtifactDeny(k) \/ Forward(k) \/ recordIndex(k) \/ Deliver(k)
       PROVE  AskInv'
  <2>1. UNCHANGED askVars
    BY <1>11 DEF PathDeny, ArtifactDeny, Forward, recordIndex, Deliver, policy, traffic, askVars
  <2>2. /\ pc[k] \in {"path", "artifact", "forward", "observe", "deliver"}
        /\ pc'[k] \in {"open", "artifact", "forward", "observe", "deliver", "closed"}
    BY <1>2, <1>11 DEF PathDeny, ArtifactDeny, Forward, recordIndex, Deliver, Respond, Proceed,
                       AfterResponse
  <2> QED BY <1>1, <2>1, <2>2, AskMove DEF Unasked, Asked
<1> QED BY <1>3, <1>4, <1>5, <1>6, <1>7, <1>8, <1>9, <1>10, <1>11 DEF ConnNext, ConnStep

(* Nobody else touches the policy's lock, the verdicts or the prompts      *)
(* counted.                                                                *)
LEMMA OthersAsk ==
  ASSUME HostInv, [Next]_vars, ~\E k \in Conns : ConnNext(k)
  PROVE  UNCHANGED askVars /\ \A k \in Conns : Stays(k)
<1> USE DEF HostInv, askVars, proxyVars, policy, traffic
<1>1. ASSUME NEW a \in Agents \ Conns, Moves(a) PROVE \A k \in Conns : Stays(k)
  BY <1>1, MovesKeep, Kinds
<1>2. ASSUME NEW f \in Fetches, FetchNext(f) PROVE UNCHANGED askVars /\ \A k \in Conns : Stays(k)
  BY <1>1, <1>2, FetchMoves, Kinds DEF FetchNext
<1>3. ASSUME NEW g \in Gated, GatedNext(g) PROVE UNCHANGED askVars /\ \A k \in Conns : Stays(k)
  BY <1>1, <1>3, GatedMoves, Kinds DEF GatedNext
<1>4. ASSUME NEW c \in Commands, CommandNext(c)
      PROVE  UNCHANGED askVars /\ \A k \in Conns : Stays(k)
  BY <1>1, <1>4, CommandMoves, Kinds DEF CommandNext
<1>5. ASSUME Aside PROVE UNCHANGED askVars /\ \A k \in Conns : Stays(k)
  <2>1. \A k \in Conns : Stays(k)
    BY <1>5, AsideStill DEF Stays
  <2>2. UNCHANGED askVars
    BY <1>5 DEF Aside, ProxyStore, seedDeniedArtifacts, HandEdit, Quiet, vars
  <2> QED BY <2>1, <2>2
<1> QED BY <1>2, <1>3, <1>4, <1>5, NextCases

(* The inductive invariant of the proxy's verdicts and prompts.            *)
THEOREM HostHolds == Spec => []HostInv
<1>1. HostInv /\ [Next]_vars => HostInv'
  <2> SUFFICES ASSUME HostInv, [Next]_vars PROVE AskInv'
    BY PromptKeeps DEF HostInv
  <2>1. CASE \E k \in Conns : ConnNext(k)
    BY <2>1, ConnAsk
  <2>2. CASE ~\E k \in Conns : ConnNext(k)
    BY <2>2, OthersAsk, AskSame DEF HostInv
  <2> QED BY <2>1, <2>2
<1> QED BY <1>1, HostInit, PTL DEF Spec

(* A host is asked about once, however many connections want it.           *)
THEOREM HostAskedOnceHolds == Spec => []HostAskedOnce
<1>1. HostInv => HostAskedOnce
  BY DEF HostInv, AskInv, HostAskedOnce
<1> QED BY <1>1, HostHolds, PTL

-----------------------------------------------------------------------------
(* Denied packages                                                         *)

(* No artifact belongs to two packages.                                    *)
Disjoint == \A i, j \in Indexes : i # j => Artifacts[i] \cap Artifacts[j] = {}

(* The indexes whose artifacts are all known for theirs.                   *)
Learned == {i \in Indexes : \A u \in Artifacts[i] : learned[u] = i}

(* Rules against the package known to list u.                              *)
Listed(u) == {p \in Patterns : u \in URLs /\ learned[u] # Nobody /\ p \in Denying(learned[u])}

LearnedInv ==
  /\ learned = [u \in URLs |-> learned[u]]
  /\ \A u \in URLs : learned[u] # Nobody => learned[u] \in Indexes /\ u \in Artifacts[learned[u]]

(* What is known of an artifact is not replaced.                           *)
Kept == \A u \in URLs : learned[u] # Nobody => learned'[u] = learned[u]

(* An index is learned before it is delivered; each check of a request     *)
(* leaves fewer rules that may have stood against it all along.            *)
PackageInv ==
  /\ req = [k \in Conns |-> req[k]]
  /\ rebarred = [k \in Conns |-> rebarred[k]]
  /\ LearnedInv
  /\ delivered \cap Indexes \subseteq Learned
  /\ \A k \in Conns :
       /\ pc[k] = "path" => rebarred[k] \subseteq Denying(req[k]) \cup Listed(req[k])
       /\ pc[k] = "artifact" => rebarred[k] \subseteq Listed(req[k])
       /\ pc[k] \in {"forward", "observe", "deliver"} => rebarred[k] = {}
       /\ pc[k] = "observe" => req[k] \in Indexes
       /\ pc[k] = "deliver" /\ req[k] \in Indexes => req[k] \in Learned

DeniedInv == PromptInv /\ PackageInv

(* No request is under way at the start.                                   *)
LEMMA DeniedInit == Init => DeniedInv
  BY PromptInit, Kinds DEF Init, EgressInit, DeniedInv, PackageInv, LearnedInv

(* A step that leaves the requests, the rules and the index alone keeps    *)
(* the invariant.                                                          *)
LEMMA PackageSame ==
  ASSUME PackageInv, UNCHANGED <<files, req, rebarred, delivered, learned>>,
         \A k \in Conns : Stays(k)
  PROVE  PackageInv'
  BY DEF PackageInv, LearnedInv, Learned, Stays, Listed, Denying

(* A step of one connection that leaves its request alone, or ends it.     *)
LEMMA PackageMove ==
  ASSUME PackageInv, NEW k \in Conns, \A j \in Conns \ {k} : Stays(j),
         files' = files, Kept, LearnedInv', delivered' \cap Indexes \subseteq Learned',
         req' = req \/ req' = [req EXCEPT ![k] = Nobody],
         rebarred' = rebarred \/ rebarred' = [rebarred EXCEPT ![k] = {}],
         pc'[k] = "artifact" => rebarred'[k] \subseteq Listed(req'[k]),
         pc'[k] \in {"forward", "observe", "deliver"} => rebarred'[k] = {},
         pc'[k] = "observe" => req'[k] \in Indexes,
         pc'[k] = "deliver" => (req'[k] \in Indexes => req'[k] \in Learned'),
         pc'[k] # "path"
  PROVE  PackageInv'
<1> USE DEF PackageInv, Stays
<1>1. \A u : Denying(u)' = Denying(u)
  BY DEF Denying
<1>2. (\A u : Listed(u) \subseteq Listed(u)') /\ Learned \subseteq Learned'
  BY <1>1, ProxyAssumption DEF Listed, Learned, Kept
<1>3. \A j \in Conns \ {k} : req'[j] = req[j] /\ rebarred'[j] = rebarred[j]
  OBVIOUS
<1>4. /\ req' = [j \in Conns |-> req'[j]]
      /\ rebarred' = [j \in Conns |-> rebarred'[j]]
  OBVIOUS
<1>5. pc'[k] = "artifact" => rebarred'[k] \subseteq Listed(req[k])' \/ rebarred'[k] = {}
  BY <1>2
<1> QED BY <1>1, <1>2, <1>3, <1>4

(* A connection's request, check by check.                                 *)
LEMMA ConnPackage == ASSUME Disjoint, DeniedInv, NEW k \in Conns, ConnNext(k) PROVE PackageInv'
<1> USE DEF DeniedInv
<1>1. k \in Agents /\ \A j \in Conns \ {k} : Stays(j)
  BY Kinds, ConnMoves, MovesKeep
<1>2. \A l : Goto(k, l) => pc'[k] = l
  BY <1>1 DEF Goto, PromptInv, PcInv
<1>3. files' = files
  BY ConnFrame
<1>4. LearnedInv /\ delivered \cap Indexes \subseteq Learned
  BY DEF PackageInv
<1>0. ASSUME UNCHANGED learned PROVE Kept /\ LearnedInv' /\ Learned' = Learned
  BY <1>0, <1>4 DEF Kept, LearnedInv, Learned
<1>5. ASSUME NEW u \in URLs, Request(k, u) PROVE PackageInv'
  <2>1. /\ req' = [req EXCEPT ![k] = u] /\ rebarred' = [rebarred EXCEPT ![k] = Against(u)]
        /\ pc'[k] = "path" /\ UNCHANGED <<delivered, learned>>
    BY <1>2, <1>5 DEF Request, policy
  <2>2. Against(u) \subseteq Denying(u) \cup Listed(u)
    BY <1>4, ProxyAssumption DEF Against, Listed, Learned, Denying
  <2>3. (\A v : Denying(v)' = Denying(v)) /\ (\A v : Listed(v)' = Listed(v))
    BY <1>3, <2>1 DEF Denying, Listed
  <2>4. req'[k] = u /\ rebarred'[k] = Against(u)
        /\ \A j \in Conns \ {k} : req'[j] = req[j] /\ rebarred'[j] = rebarred[j] /\ pc'[j] = pc[j]
    BY <1>1, <2>1 DEF PackageInv, Stays
  <2> QED BY <1>0, <1>4, <2>1, <2>2, <2>3, <2>4 DEF PackageInv
<1>6. ASSUME PathDeny(k) PROVE PackageInv'
  <2>1. pc[k] = "path" /\ UNCHANGED <<delivered, learned>>
    BY <1>6 DEF PathDeny, policy
  <2>2. CASE StoreDenied(req[k])
    <3>1. /\ pc'[k] = "open" /\ req' = [req EXCEPT ![k] = Nobody]
          /\ rebarred' = [rebarred EXCEPT ![k] = {}]
      BY <1>2, <1>6, <2>2 DEF PathDeny, Respond
    <3> QED BY <1>0, <1>1, <1>3, <1>4, <2>1, <3>1, PackageMove
  <2>3. CASE ~StoreDenied(req[k])
    <3>1. pc'[k] = "artifact" /\ UNCHANGED <<req, rebarred>>
      BY <1>2, <1>6, <2>3 DEF PathDeny, Proceed
    <3>2. rebarred[k] \subseteq Listed(req[k])
      BY <2>1, <2>3 DEF PackageInv, StoreDenied
    <3> QED BY <1>0, <1>1, <1>3, <1>4, <2>1, <3>1, <3>2, PackageMove
  <2> QED BY <2>2, <2>3
<1>7. ASSUME ArtifactDeny(k) PROVE PackageInv'
  <2>1. pc[k] = "artifact" /\ UNCHANGED <<delivered, learned>>
    BY <1>7 DEF ArtifactDeny, policy
  <2>2. CASE artifactDenied(req[k])
    <3>1. /\ pc'[k] = "open" /\ req' = [req EXCEPT ![k] = Nobody]
          /\ rebarred' = [rebarred EXCEPT ![k] = {}]
      BY <1>2, <1>7, <2>2 DEF ArtifactDeny, Respond
    <3> QED BY <1>0, <1>1, <1>3, <1>4, <2>1, <3>1, PackageMove
  <2>3. CASE ~artifactDenied(req[k])
    <3>1. pc'[k] = "forward" /\ UNCHANGED <<req, rebarred>>
      BY <1>2, <1>7, <2>3 DEF ArtifactDeny, Proceed
    <3>2. Listed(req[k]) = {}
      BY <2>3 DEF artifactDenied, StoreDenied, Listed
    <3>3. rebarred[k] = {}
      BY <2>1, <3>2 DEF PackageInv
    <3> QED BY <1>0, <1>1, <1>3, <1>4, <2>1, <3>1, <3>3, PackageMove
  <2> QED BY <2>2, <2>3
<1>8. ASSUME Forward(k) PROVE PackageInv'
  <2>1. pc[k] = "forward" /\ rebarred[k] = {} /\ UNCHANGED <<delivered, learned>>
    BY <1>8 DEF Forward, policy, PackageInv
  <2>2. CASE Respond(k, "closed")
    <3>1. /\ pc'[k] = "closed" /\ req' = [req EXCEPT ![k] = Nobody]
          /\ rebarred' = [rebarred EXCEPT ![k] = {}]
      BY <1>2, <2>2 DEF Respond
    <3> QED BY <1>0, <1>1, <1>3, <1>4, <2>1, <3>1, PackageMove
  <2>3. CASE Proceed(k, AfterResponse(req[k]))
    <3>1. /\ pc'[k] = IF req[k] \in Indexes THEN "observe" ELSE "deliver"
          /\ UNCHANGED <<req, rebarred>>
      BY <1>2, <2>3 DEF Proceed, AfterResponse
    <3> QED BY <1>0, <1>1, <1>3, <1>4, <2>1, <3>1, PackageMove
  <2> QED BY <1>8, <2>2, <2>3 DEF Forward
<1>9. ASSUME recordIndex(k) PROVE PackageInv'
  <2>1. /\ pc'[k] = "deliver" /\ req[k] \in Indexes
        /\ learned' = [u \in URLs |-> IF u \in Artifacts[req[k]] THEN req[k] ELSE learned[u]]
        /\ rebarred[k] = {} /\ UNCHANGED <<req, rebarred, delivered>>
    BY <1>2, <1>9 DEF recordIndex, traffic, PackageInv
  <2>2. Kept
    BY <1>4, <2>1 DEF Kept, LearnedInv, Disjoint
  <2>3. LearnedInv'
    BY <1>4, <2>1 DEF LearnedInv
  <2>4. Learned \subseteq Learned' /\ req[k] \in Learned'
    BY <1>4, <2>1, <2>2, ProxyAssumption DEF Kept, Learned
  <2> QED BY <1>1, <1>3, <1>4, <2>1, <2>2, <2>3, <2>4, PackageMove
<1>10. ASSUME Deliver(k) PROVE PackageInv'
  <2>1. /\ pc[k] = "deliver" /\ pc'[k] = "open" /\ delivered' = delivered \cup {req[k]}
        /\ req' = [req EXCEPT ![k] = Nobody] /\ rebarred' = [rebarred EXCEPT ![k] = {}]
        /\ UNCHANGED learned
    BY <1>2, <1>10 DEF Deliver, Respond, policy
  <2>2. delivered' \cap Indexes \subseteq Learned'
    BY <1>0, <1>4, <2>1 DEF PackageInv
  <2> QED BY <1>0, <1>1, <1>3, <2>1, <2>2, PackageMove
<1>11. ASSUME UNCHANGED <<req, rebarred, delivered, learned>>,
              pc'[k] \notin {"path", "artifact", "forward", "observe", "deliver"}
       PROVE  PackageInv'
  BY <1>0, <1>1, <1>3, <1>4, <1>11, PackageMove
<1>12. ASSUME \/ \E h \in Hosts : Arrive(k, h)
              \/ Recall(k) \/ Evaluate(k) \/ ProxyAsk(k) \/ Hangup(k)
       PROVE  PackageInv'
  <2>1. UNCHANGED <<req, rebarred, delivered, learned>>
    BY <1>12 DEF Arrive, Recall, Evaluate, ProxyAsk, Hangup, proxyVars, policy, traffic
  <2>2. pc'[k] \in {"connect", "closed", "open", "refused", "screen", "asking"}
    BY <1>2, <1>12 DEF Arrive, Recall, Evaluate, ProxyAsk, Hangup, Admitted, Present
  <2> QED BY <1>11, <2>1, <2>2
<1>13. ASSUME \/ Screen(k) \/ Weigh(k) \/ ProxyRuled(k)
              \/ \E choice \in Choices : ProxyAnswered(k, choice)
       PROVE  PackageInv'
  <2>1. UNCHANGED <<req, rebarred, delivered>>
    BY <1>13 DEF Screen, Weigh, ProxyRuled, ProxyAnswered, traffic
  <2>2. UNCHANGED learned
    BY <1>13 DEF Screen, Weigh, ProxyRuled, ProxyAnswered, Verdict, policy, Choices
  <2>3. pc'[k] \in {"open", "refused", "weigh", "queue", "remember", "bar"}
    BY <1>2, <1>13 DEF Screen, Weigh, ProxyRuled, ProxyAnswered, Verdict, Admitted, Choices
  <2> QED BY <1>11, <2>1, <2>2, <2>3
<1> QED BY <1>5, <1>6, <1>7, <1>8, <1>9, <1>10, <1>12, <1>13 DEF ConnNext, ConnStep

(* A write of the files takes the rules it removes out of the history.     *)
LEMMA StorePackage == ASSUME DeniedInv, NEW c \in Clients, ProxyStore(c) PROVE PackageInv'
<1>1. /\ rebarred' = [k \in Conns |-> Standing(rebarred[k])]
      /\ UNCHANGED <<pc, req, delivered, learned>>
  BY DEF ProxyStore, StoreStep, policy
<1>2. ASSUME NEW u, NEW p \in Denying(u), <<"deny", p>> \in files'["approvals"]
      PROVE  p \in Denying(u)'
  BY <1>2 DEF Denying
<1>3. ASSUME NEW k \in Conns, NEW p \in rebarred'[k]
      PROVE  /\ p \in rebarred[k]
             /\ p \in Denying(req[k]) => p \in Denying(req[k])'
             /\ p \in Listed(req[k]) => p \in Listed(req[k])'
  <2>1. p \in rebarred[k] /\ <<"deny", p>> \in files'["approvals"]
    BY <1>1, <1>3 DEF Standing
  <2>2. ASSUME p \in Listed(req[k]) PROVE p \in Listed(req[k])'
    BY <1>1, <1>2, <2>1, <2>2 DEF Listed
  <2> QED BY <1>1, <1>2, <2>1, <2>2
<1>4. UNCHANGED <<learned, Learned>>
  BY <1>1 DEF Learned
<1> QED BY <1>1, <1>3, <1>4 DEF DeniedInv, PackageInv, LearnedInv

(* A fetch changes the files by calls of the store only.                   *)
LEMMA FetchFiles == ASSUME NEW f \in Fetches, FetchNext(f) PROVE UNCHANGED files
<1> USE DEF store, onDisk, Invoke, Consume
<1>1. ASSUME NEW u \in URLs, Submit(f, u) PROVE UNCHANGED files
  BY <1>1 DEF Submit
<1>2. ASSUME NEW choice \in Choices, FetchAnswered(f, choice) PROVE UNCHANGED files
  BY <1>2 DEF FetchAnswered, Choices
<1>3. ASSUME Judge(f) \/ Held(f) \/ FetchAsk(f) \/ FetchRuled(f) \/ Fetch(f) \/ FetchEnds(f)
      PROVE  UNCHANGED files
  BY <1>3 DEF Judge, Held, FetchAsk, FetchRuled, Fetch, FetchEnds, Resume
<1>4. ASSUME NEW hop \in URLs, Redirect(f, hop) PROVE UNCHANGED files
  BY <1>4 DEF Redirect
<1> QED BY <1>1, <1>2, <1>3, <1>4 DEF FetchNext, FetchStep

(* Every step keeps the rules that barred each request on record.          *)
LEMMA DeniedKeeps == Disjoint /\ DeniedInv /\ [Next]_vars => DeniedInv'
<1> SUFFICES ASSUME Disjoint, DeniedInv, [Next]_vars PROVE PackageInv'
  BY PromptKeeps DEF DeniedInv
<1> USE DEF DeniedInv, proxyVars, policy, traffic
<1>1. ASSUME NEW a \in Agents \ Conns, Moves(a) PROVE \A k \in Conns : Stays(k)
  BY <1>1, MovesKeep, Kinds
<1>2. ASSUME NEW f \in Fetches, FetchNext(f) PROVE PackageInv'
  BY <1>1, <1>2, FetchMoves, FetchFiles, PackageSame, Kinds DEF FetchNext
<1>3. ASSUME NEW g \in Gated, GatedNext(g) PROVE PackageInv'
  BY <1>1, <1>3, GatedMoves, GatedFrame, PackageSame, Kinds DEF GatedNext
<1>4. ASSUME NEW c \in Commands, CommandNext(c) PROVE PackageInv'
  BY <1>1, <1>4, CommandMoves, CommandFrame, PackageSame, Kinds DEF CommandNext
<1>5. ASSUME NEW i \in Indexes, seedDeniedArtifacts(i) PROVE PackageInv'
  BY <1>5, PackageSame DEF seedDeniedArtifacts, store, onDisk, egress, Stays
<1>6. ASSUME HandEdit PROVE PackageInv'
  BY <1>6, PackageSame DEF HandEdit, Break, Mend, egress, Stays
<1>7. ASSUME Quiet \/ UNCHANGED vars PROVE PackageInv'
  BY <1>7, PackageSame DEF Quiet, vars, store, onDisk, egress, Stays
<1> QED BY <1>2, <1>3, <1>4, <1>5, <1>6, <1>7, NextCases, ConnPackage, StorePackage DEF Aside

(* The inductive invariant of denied packages.                             *)
THEOREM DeniedHolds == ASSUME Disjoint PROVE Spec => []DeniedInv
  BY DeniedInit, DeniedKeeps, PTL DEF Spec

(* A request against which a rule has stood all along, by its own URL or   *)
(* by the package that lists it, is not forwarded, if no two packages list *)
(* one artifact.                                                           *)
THEOREM PackageDeniedHolds == ASSUME Disjoint PROVE Spec => []PackageDenied
<1>1. DeniedInv => PackageDenied
  BY DEF DeniedInv, PackageInv, PackageDenied
<1> QED BY <1>1, DeniedHolds, PTL


-----------------------------------------------------------------------------
(***************************************************************************)
(* The calls of all agents implement AtomicStore.                          *)
(***************************************************************************)

(* Where an agent waits for its call to return.                            *)
Calling == {"hold", "remember", "bar", "remove", "settle", "forget"}

(* An agent has one call, while it waits for it, of an entry of the files. *)
CallsInv ==
  \A c \in Clients :
    /\ step[c] # "idle" <=> pc[c] \in Calling
    /\ step[c] # "idle" => Item(c) \in RuleEntries

(* What calls are made of.                                                 *)
UrlInv == \A f \in Fetches : pc[f] # "idle" => url[f] \in URLs
TargetInv == \A k \in Conns : pc[k] # "idle" => target[k] \in Hosts
WantInv == \A c \in Commands : pc[c] = "remove" => <<wants[c][2], wants[c][3]>> \in RuleEntries

CallersInv ==
  /\ url = [f \in Fetches |-> url[f]] /\ target = [k \in Conns |-> target[k]]
  /\ wants = [c \in Commands |-> wants[c]]
  /\ PcInv /\ UrlInv /\ TargetInv /\ WantInv /\ CallsInv

(* What an agent does with the files: nothing, a call, the end of one, or  *)
(* its own.                                                                *)
Asks(c) ==
  /\ pc[c] \notin Calling \/ Returned(c)
  /\ pc'[c] \in Calling
  /\ \E f \in Files, kind \in Calls, item \in RuleEntries : Invoke(c, f, kind, item)

Uses(a) ==
  \/ UNCHANGED store /\ pc[a] \notin Calling /\ pc'[a] \notin Calling
  \/ Asks(a)
  \/ Returned(a) /\ Consume(a) /\ pc'[a] \notin Calling
  \/ pc[a] \in Calling /\ Abandon(a) /\ pc'[a] \notin Calling

(* A fetch holds its URL, or writes the rule that it was answered with.    *)
LEMMA FetchUses ==
  ASSUME CallersInv, NEW f \in Fetches, FetchNext(f)
  PROVE  Uses(f) /\ UrlInv' /\ UNCHANGED <<target, wants>> /\ url' = [g \in Fetches |-> url'[g]]
<1> USE DEF Uses, Calling
<1>0. /\ UNCHANGED <<target, wants>> /\ f \in Agents
      /\ url = [g \in Fetches |-> url[g]] /\ pc \in [Agents -> Labels]
      /\ \A g \in Fetches : g \in Agents /\ (pc[g] # "idle" => url[g] \in URLs)
  BY Kinds DEF FetchNext, FetchStep, proxyVars, traffic, Submit, Judge, Held, FetchAsk, FetchRuled, Fetch, FetchEnds,
     FetchAnswered, Redirect, CallersInv, PcInv, UrlInv
<1>1. ASSUME NEW u \in URLs, Submit(f, u)
      PROVE  Uses(f) /\ UrlInv' /\ url' = [g \in Fetches |-> url'[g]]
  <2>1. pc'[f] = "decide" /\ pc[f] = "idle" /\ \A g \in Fetches \ {f} : pc'[g] = pc[g] /\ url'[g] = url[g]
    BY <1>0, <1>1 DEF Submit, Goto
  <2>2. url' = [url EXCEPT ![f] = u] /\ UNCHANGED store
    BY <1>1 DEF Submit
  <2> QED BY <1>0, <2>1, <2>2 DEF UrlInv
<1>2. ASSUME FetchStep(f), UNCHANGED url, pc[f] # "idle" PROVE UrlInv' /\ url' = [g \in Fetches |-> url'[g]]
  <2>1. \A g \in Fetches \ {f} : pc'[g] = pc[g]
    BY <1>0, <1>2 DEF FetchStep, Judge, Held, FetchAsk, FetchRuled, Fetch, FetchEnds,
       FetchAnswered, Redirect, Goto, Resume, Present, Answer, Choices
  <2> QED BY <1>0, <1>2, <2>1 DEF UrlInv
<1>3. ASSUME Judge(f) PROVE Uses(f)
  <2>1. CASE Decide(url[f]) = "hold" /\ ~supervised
    <3>1. pc'[f] = "hold" /\ pc[f] = "decide" /\ Invoke(f, "pending", "add", <<f, url[f]>>)
      BY <1>0, <1>3, <2>1 DEF Judge, Goto
    <3>2. <<f, url[f]>> \in RuleEntries
      BY <1>0, <3>1 DEF RuleEntries
    <3> QED BY <3>1, <3>2 DEF Asks, Files, Calls
  <2>2. CASE ~(Decide(url[f]) = "hold" /\ ~supervised)
    BY <1>0, <1>3, <2>2 DEF Judge, Goto
  <2> QED BY <2>1, <2>2
<1>4. ASSUME Held(f) \/ FetchRuled(f) PROVE Uses(f)
  BY <1>0, <1>4 DEF Held, FetchRuled, Resume, Goto
<1>5. ASSUME FetchAsk(f) \/ Fetch(f) \/ FetchEnds(f) PROVE Uses(f)
  BY <1>0, <1>5 DEF FetchAsk, Fetch, FetchEnds, Present, Answer, Goto
<1>6. ASSUME NEW choice \in Choices, FetchAnswered(f, choice) PROVE Uses(f)
  <2>1. pc[f] = "asking" /\ HostGlob[url[f]] \in Patterns
    BY <1>0, <1>6, EgressAssumption DEF FetchAnswered, Answered
  <2>2. CASE choice \in {"approve", "deny"}
    BY <1>0, <1>6, <2>1, <2>2 DEF FetchAnswered, Goto
  <2>3. CASE choice = "approveAll"
    <3>1. pc'[f] = "remember" /\ Invoke(f, "approvals", "add", <<"allow", HostGlob[url[f]]>>)
      BY <1>0, <1>6, <2>3 DEF FetchAnswered, Goto
    <3>2. <<"allow", HostGlob[url[f]]>> \in RuleEntries
      BY <2>1 DEF RuleEntries
    <3> QED BY <2>1, <3>1, <3>2 DEF Asks, Files, Calls
  <2>4. CASE choice = "denyAll"
    <3>1. pc'[f] = "bar" /\ Invoke(f, "approvals", "add", <<"deny", HostGlob[url[f]]>>)
      BY <1>0, <1>6, <2>4 DEF FetchAnswered, Goto
    <3>2. <<"deny", HostGlob[url[f]]>> \in RuleEntries
      BY <2>1 DEF RuleEntries
    <3> QED BY <2>1, <3>1, <3>2 DEF Asks, Files, Calls
  <2> QED BY <2>2, <2>3, <2>4 DEF Choices
<1>7. ASSUME NEW hop \in URLs, Redirect(f, hop) PROVE Uses(f)
  BY <1>0, <1>7 DEF Redirect, Answer, Goto
<1>8. FetchStep(f) => UNCHANGED url /\ pc[f] # "idle"
  BY DEF FetchStep, Judge, Held, FetchAsk, FetchRuled, Fetch, FetchEnds, FetchAnswered, Answered, Redirect, fetching
<1> QED BY <1>0, <1>1, <1>2, <1>3, <1>4, <1>5, <1>6, <1>7, <1>8 DEF FetchNext, FetchStep

(* A gated worker has nothing to do with the files.                        *)
LEMMA GatedUses ==
  ASSUME NEW g \in Gated, GatedNext(g)
  PROVE  UNCHANGED <<store, url, target, wants>>
  BY DEF GatedNext, GatedStep, Gate, GateAsk, GateSettled, GateAnswered, proxyVars, traffic, fetching

(* A command removes what its operator named, and then writes the rule.    *)
LEMMA CommandUses ==
  ASSUME CallersInv, NEW c \in Commands, CommandNext(c)
  PROVE  Uses(c) /\ WantInv' /\ UNCHANGED <<url, target>> /\ wants' = [d \in Commands |-> wants'[d]]
<1> USE DEF Uses, Calling
<1>0. /\ c \in Agents /\ wants = [d \in Commands |-> wants[d]] /\ pc \in [Agents -> Labels]
      /\ \A d \in Commands : d \in Agents /\ (pc[d] = "remove" => <<wants[d][2], wants[d][3]>> \in RuleEntries)
  BY Kinds DEF CallersInv, PcInv, WantInv
<1>1. UNCHANGED <<url, target>>
  BY DEF CommandNext, CommandStep, Settle, Forget, SettleRule, CommandEnds, Kill, proxyVars, traffic, fetching
<1>2. ASSUME NEW f \in Fetches, NEW kind \in {"allow", "deny"}, NEW p \in Patterns, Settle(c, f, kind, p)
      PROVE  Uses(c) /\ WantInv' /\ wants' = [d \in Commands |-> wants'[d]]
  <2>1. pc[f] = "held" /\ f \in Agents
    BY <1>2, Kinds DEF Settle
  <2>2. <<f, url[f]>> \in RuleEntries
    BY <2>1 DEF CallersInv, UrlInv, RuleEntries
  <2>3. pc[c] = "idle" /\ pc'[c] = "remove" /\ Invoke(c, "pending", "remove", <<f, url[f]>>)
    BY <1>0, <1>2 DEF Settle, Goto
  <2>4. Uses(c)
    BY <2>2, <2>3 DEF Asks, Files, Calls
  <2>5. wants' = [wants EXCEPT ![c] = <<f, kind, p>>] /\ \A d \in Commands \ {c} : pc'[d] = pc[d]
    BY <1>0, <1>2 DEF Settle, Goto
  <2>6. <<kind, p>> \in RuleEntries
    BY DEF RuleEntries
  <2>7. \A d \in Commands \ {c} : wants'[d] = wants[d]
    BY <1>0, <2>5
  <2>8. wants'[c] = <<f, kind, p>> /\ wants' = [d \in Commands |-> wants'[d]]
    BY <1>0, <2>5
  <2>9. <<wants'[c][2], wants'[c][3]>> = <<kind, p>>
    BY <2>8
  <2>10. WantInv'
    BY <1>0, <2>5, <2>6, <2>7, <2>9 DEF WantInv
  <2> QED BY <2>4, <2>8, <2>10
<1>3. ASSUME UNCHANGED wants, pc'[c] # "remove", \A d \in Commands \ {c} : pc'[d] = pc[d]
      PROVE  WantInv' /\ wants' = [d \in Commands |-> wants'[d]]
  BY <1>0, <1>3 DEF WantInv
<1>4. ASSUME NEW rule \in {"allow", "deny"} \X Patterns, Forget(c, rule)
      PROVE  Uses(c) /\ WantInv' /\ wants' = [d \in Commands |-> wants'[d]]
  <2>1. /\ pc[c] = "idle" /\ pc'[c] = "forget" /\ UNCHANGED wants
        /\ \A d \in Commands \ {c} : pc'[d] = pc[d]
    BY <1>0, <1>4 DEF Forget, Goto
  <2>2. rule \in RuleEntries /\ Invoke(c, "approvals", "remove", rule)
    BY <1>4 DEF Forget, RuleEntries
  <2> QED BY <1>3, <2>1, <2>2 DEF Asks, Files, Calls
<1>5. ASSUME SettleRule(c) PROVE Uses(c) /\ WantInv' /\ wants' = [d \in Commands |-> wants'[d]]
  <2>1. /\ pc[c] = "remove" /\ Returned(c) /\ UNCHANGED wants /\ pc'[c] \in {"settle", "failed"}
        /\ \A d \in Commands \ {c} : pc'[d] = pc[d]
    BY <1>0, <1>5 DEF SettleRule, Goto
  <2>2. \/ pc'[c] = "settle" /\ Invoke(c, "approvals", "add", <<wants[c][2], wants[c][3]>>)
        \/ pc'[c] = "failed" /\ Consume(c)
    BY <1>0, <1>5 DEF SettleRule, Goto
  <2>3. <<wants[c][2], wants[c][3]>> \in RuleEntries
    BY <1>0, <2>1
  <2> QED BY <1>3, <2>1, <2>2, <2>3 DEF Asks, Files, Calls
<1>6. ASSUME CommandEnds(c) PROVE Uses(c) /\ WantInv' /\ wants' = [d \in Commands |-> wants'[d]]
  <2>1. /\ pc[c] \in Calling /\ Returned(c) /\ Consume(c) /\ UNCHANGED wants /\ pc'[c] \in {"done", "failed"}
        /\ \A d \in Commands \ {c} : pc'[d] = pc[d]
    BY <1>0, <1>6 DEF CommandEnds, Resume, Goto
  <2> QED BY <1>3, <2>1
<1>7. ASSUME Kill(c) PROVE Uses(c) /\ WantInv' /\ wants' = [d \in Commands |-> wants'[d]]
  <2>1. /\ pc[c] \in Calling /\ Abandon(c) /\ UNCHANGED wants /\ pc'[c] = "killed"
        /\ \A d \in Commands \ {c} : pc'[d] = pc[d]
    BY <1>0, <1>7 DEF Kill, Goto
  <2> QED BY <1>3, <2>1
<1> QED BY <1>1, <1>2, <1>4, <1>5, <1>6, <1>7 DEF CommandNext, CommandStep

(* A connection writes the rule that it was answered with.                 *)
LEMMA ConnUses ==
  ASSUME CallersInv, NEW k \in Conns, ConnNext(k)
  PROVE  Uses(k) /\ TargetInv' /\ UNCHANGED <<url, wants>> /\ target' = [j \in Conns |-> target'[j]]
<1> USE DEF Uses, Calling
<1>0. /\ k \in Agents /\ target = [j \in Conns |-> target[j]] /\ pc \in [Agents -> Labels]
      /\ \A j \in Conns : j \in Agents /\ (pc[j] # "idle" => target[j] \in Hosts)
  BY Kinds DEF CallersInv, PcInv, TargetInv
<1>1. UNCHANGED <<url, wants>>
  BY DEF ConnNext, ConnStep, Arrive, Request, Recall, Evaluate, Screen, Weigh, ProxyAsk, ProxyAnswered,
     ProxyRuled, PathDeny, ArtifactDeny, Forward, recordIndex, Deliver, Hangup, fetching
<1>2. ASSUME NEW h \in Hosts, Arrive(k, h)
      PROVE  Uses(k) /\ TargetInv' /\ target' = [j \in Conns |-> target'[j]]
  <2>1. /\ pc[k] = "idle" /\ pc'[k] = "connect" /\ UNCHANGED store
        /\ target' = [target EXCEPT ![k] = h] /\ \A j \in Conns \ {k} : pc'[j] = pc[j]
    BY <1>0, <1>2 DEF Arrive, Goto
  <2> QED BY <1>0, <2>1 DEF TargetInv
<1>3. ASSUME UNCHANGED target, pc[k] # "idle", \A j \in Conns \ {k} : pc'[j] = pc[j]
      PROVE  TargetInv' /\ target' = [j \in Conns |-> target'[j]]
  BY <1>0, <1>3 DEF TargetInv
<1>4. ASSUME NEW u \in URLs, Request(k, u)
      PROVE  Uses(k) /\ TargetInv' /\ target' = [j \in Conns |-> target'[j]]
  <2>1. /\ pc[k] = "open" /\ pc'[k] = "path" /\ UNCHANGED <<store, target>>
        /\ \A j \in Conns \ {k} : pc'[j] = pc[j]
    BY <1>0, <1>4 DEF Request, Goto
  <2> QED BY <1>3, <2>1
<1>5. ASSUME NEW choice \in Choices, ProxyAnswered(k, choice)
      PROVE  Uses(k) /\ TargetInv' /\ target' = [j \in Conns |-> target'[j]]
  <2>1. /\ pc[k] = "asking" /\ UNCHANGED target /\ \A j \in Conns \ {k} : pc'[j] = pc[j]
    BY <1>0, <1>5 DEF ProxyAnswered, Answered, traffic, Goto, Verdict, Admitted, Choices
  <2>2. HostGlob[Resolved(k)] \in Patterns
    BY <1>0, <2>1, EgressAssumption, ProxyAssumption DEF Resolved
  <2>3. CASE choice \in {"approve", "deny"}
    BY <1>0, <1>3, <1>5, <2>1, <2>3 DEF ProxyAnswered, Verdict, Admitted, Goto
  <2>4. CASE choice = "approveAll"
    <3>1. pc'[k] = "remember" /\ Invoke(k, "approvals", "add", <<"allow", HostGlob[Resolved(k)]>>)
      BY <1>0, <1>5, <2>4 DEF ProxyAnswered, Goto
    <3>2. <<"allow", HostGlob[Resolved(k)]>> \in RuleEntries
      BY <2>2 DEF RuleEntries
    <3> QED BY <1>3, <2>1, <3>1, <3>2 DEF Asks, Files, Calls
  <2>5. CASE choice = "denyAll"
    <3>1. pc'[k] = "bar" /\ Invoke(k, "approvals", "add", <<"deny", HostGlob[Resolved(k)]>>)
      BY <1>0, <1>5, <2>5 DEF ProxyAnswered, Goto
    <3>2. <<"deny", HostGlob[Resolved(k)]>> \in RuleEntries
      BY <2>2 DEF RuleEntries
    <3> QED BY <1>3, <2>1, <3>1, <3>2 DEF Asks, Files, Calls
  <2> QED BY <2>3, <2>4, <2>5 DEF Choices
<1>6. ASSUME ProxyRuled(k) PROVE Uses(k) /\ TargetInv' /\ target' = [j \in Conns |-> target'[j]]
  <2>1. /\ pc[k] \in {"remember", "bar"} /\ Returned(k) /\ Consume(k) /\ UNCHANGED target
        /\ pc'[k] \in {"open", "refused"} /\ \A j \in Conns \ {k} : pc'[j] = pc[j]
    BY <1>0, <1>6 DEF ProxyRuled, Verdict, Admitted, Goto, traffic
  <2> QED BY <1>3, <2>1
<1>7. ASSUME \/ Recall(k) \/ Evaluate(k) \/ Screen(k) \/ Weigh(k) \/ ProxyAsk(k)
             \/ PathDeny(k) \/ ArtifactDeny(k) \/ Forward(k) \/ recordIndex(k) \/ Deliver(k) \/ Hangup(k)
      PROVE  Uses(k) /\ TargetInv' /\ target' = [j \in Conns |-> target'[j]]
  <2>1. UNCHANGED <<store, target>>
    BY <1>7 DEF Recall, Evaluate, Screen, Weigh, ProxyAsk, PathDeny, ArtifactDeny, Forward, recordIndex,
       Deliver, Hangup, traffic, proxyVars
  <2>2. pc[k] \notin Calling \cup {"idle"}
    BY <1>7 DEF Recall, Evaluate, Screen, Weigh, ProxyAsk, PathDeny, ArtifactDeny, Forward, recordIndex,
       Deliver, Hangup
  <2>3. \E l \in Labels \ Calling : Goto(k, l)
    <3>1. CASE Recall(k) \/ Evaluate(k) \/ ProxyAsk(k) \/ Screen(k) \/ Weigh(k)
      BY <3>1 DEF Recall, Evaluate, Screen, Weigh, ProxyAsk, Present, Verdict, Admitted, Labels
    <3>2. CASE PathDeny(k) \/ ArtifactDeny(k) \/ Forward(k) \/ recordIndex(k) \/ Deliver(k) \/ Hangup(k)
      BY <3>2 DEF PathDeny, ArtifactDeny, Forward, recordIndex, Deliver, Hangup, AfterResponse, Respond,
         Proceed, Labels
    <3> QED BY <1>7, <3>1, <3>2
  <2>4. pc'[k] \notin Calling /\ \A j \in Conns \ {k} : pc'[j] = pc[j]
    BY <1>0, <2>3 DEF Goto
  <2> QED BY <1>3, <2>1, <2>2, <2>4
<1> QED BY <1>1, <1>2, <1>4, <1>5, <1>6, <1>7 DEF ConnNext, ConnStep

(* Nobody has called at the start.                                         *)
LEMMA CallersInit == Init => CallersInv
<1> SUFFICES ASSUME Init PROVE CallersInv
  OBVIOUS
<1>1. PcInv /\ UrlInv /\ TargetInv /\ WantInv
  BY Kinds DEF Init, EgressInit, PcInv, Labels, UrlInv, TargetInv, WantInv
<1>2. CallsInv
  BY Kinds DEF Init, EgressInit, StoreInit, CallsInv, Calling, Agents
<1> QED BY <1>1, <1>2 DEF Init, EgressInit, CallersInv

(* The calls of the other agents are where they were.                      *)
LEMMA UsesKeep ==
  ASSUME StoreInv, CallersInv, NEW a \in Clients, Uses(a), \A b \in Clients \ {a} : Stays(b)
  PROVE  CallsInv'
<1> USE DEF CallersInv, CallsInv, StoreInv, ShapeInv, Stays
<1>1. ASSUME UNCHANGED store, pc[a] \notin Calling, pc'[a] \notin Calling PROVE CallsInv'
  BY <1>1 DEF store, calls, Item
<1>2. ASSUME Asks(a) PROVE CallsInv'
  <2>1. PICK f \in Files, kind \in Calls, item \in RuleEntries : Invoke(a, f, kind, item)
    BY <1>2 DEF Asks
  <2>2. /\ step' = [step EXCEPT ![a] = "lock"] /\ call' = [call EXCEPT ![a] = <<f, kind, item>>]
        /\ pc'[a] \in Calling
    BY <1>2, <2>1 DEF Asks, Invoke
  <2>3. step'[a] = "lock" /\ call'[a] = <<f, kind, item>>
    BY <2>2
  <2>4. \A b \in Clients \ {a} : step'[b] = step[b] /\ call'[b] = call[b]
    BY <2>2
  <2>5. Item(a)' = item /\ \A b \in Clients \ {a} : Item(b)' = Item(b)
    BY <2>3, <2>4 DEF Item
  <2> QED BY <2>2, <2>3, <2>4, <2>5
<1>3. ASSUME Consume(a) \/ Abandon(a), pc'[a] \notin Calling PROVE CallsInv'
  <2>1. step' = [step EXCEPT ![a] = "idle"] /\ call' = [call EXCEPT ![a] = NoCall]
    BY <1>3 DEF Consume, Abandon
  <2>2. step'[a] = "idle" /\ \A b \in Clients \ {a} : step'[b] = step[b] /\ call'[b] = call[b]
    BY <2>1
  <2>3. \A b \in Clients \ {a} : Item(b)' = Item(b)
    BY <2>2 DEF Item
  <2> QED BY <1>3, <2>2, <2>3
<1> QED BY <1>1, <1>2, <1>3 DEF Uses

(* The steps of nobody leave every call with the agent that waits for it.  *)
LEMMA AsideCallers == ASSUME StoreInv, CallersInv, Aside PROVE CallersInv'
<1>1. UNCHANGED <<pc, url, target, wants>>
  BY DEF Aside, ProxyStore, StoreStep, seedDeniedArtifacts, HandEdit, Quiet, vars, egress, fetching,
     proxyVars, traffic
<1>2. CallsInv'
  <2>1. ASSUME NEW c \in Clients, ProxyStore(c) PROVE CallsInv'
    <3>1. /\ step[c] # "idle" /\ UNCHANGED call
          /\ \E s \in {"load", "write", "back"} : step' = [step EXCEPT ![c] = s]
      BY <2>1 DEF ProxyStore, StoreStep, StoreCall, Lock, Load, Refuse, Write, CallFails, Return
    <3>2. step'[c] # "idle" /\ \A b \in Clients \ {c} : step'[b] = step[b]
      BY <3>1 DEF StoreInv, ShapeInv
    <3>3. \A b \in Clients : Item(b)' = Item(b)
      BY <3>1 DEF Item
    <3> QED BY <1>1, <3>1, <3>2, <3>3 DEF CallersInv, CallsInv
  <2>2. ASSUME UNCHANGED <<step, call>> PROVE CallsInv'
    BY <1>1, <2>2 DEF CallersInv, CallsInv, Item
  <2>3. \/ \E c \in Clients : ProxyStore(c)
        \/ UNCHANGED <<step, call>>
    BY DEF Aside, seedDeniedArtifacts, HandEdit, Break, Mend, Quiet, vars, store, calls
  <2> QED BY <2>1, <2>2, <2>3
<1> QED BY <1>1, <1>2 DEF CallersInv, PcInv, UrlInv, TargetInv, WantInv

(* Every agent's call is the one it waits for, of an entry of the files.   *)
LEMMA CallersKeep ==
  ASSUME StoreInv, PromptInv, CallersInv, [Next]_vars
  PROVE  /\ CallersInv'
         /\ \/ UNCHANGED store
            \/ \E c \in Clients : Uses(c) \/ StoreCall(c)
            \/ \E f \in Files : Break(f) \/ Mend(f)
<1> DEFINE Store ==
      \/ UNCHANGED store
      \/ \E c \in Clients : Uses(c) \/ StoreCall(c)
      \/ \E f \in Files : Break(f) \/ Mend(f)
<1> USE DEF CallersInv
<1>0. PcInv'
  BY PromptKeeps DEF PromptInv
<1>1. ASSUME NEW f \in Fetches, FetchNext(f) PROVE CallersInv' /\ Store
  <2>1. \A b \in Agents \ {f} : Stays(b)
    BY <1>1, FetchMoves, MovesKeep, Kinds
  <2>2. Uses(f) /\ UrlInv' /\ UNCHANGED <<target, wants>> /\ url' = [g \in Fetches |-> url'[g]]
    BY <1>1, FetchUses
  <2>3. CallsInv'
    BY <2>1, <2>2, UsesKeep, AreClients DEF Agents
  <2>4. TargetInv' /\ WantInv'
    BY <2>1, <2>2, Kinds DEF TargetInv, WantInv, Stays
  <2> QED BY <1>0, <2>2, <2>3, <2>4, AreClients
<1>2. ASSUME NEW g \in Gated, GatedNext(g) PROVE CallersInv' /\ Store
  <2>1. \A b \in Agents \ {g} : Stays(b)
    BY <1>2, GatedMoves, MovesKeep, Kinds
  <2>2. UNCHANGED <<store, url, target, wants>>
    BY <1>2, GatedUses
  <2>3. \A b \in Clients : Stays(b)
    BY <2>1, EgressAssumption DEF Agents
  <2>4. CallsInv'
    BY <2>2, <2>3 DEF CallsInv, store, calls, Item, Stays
  <2>5. UrlInv' /\ TargetInv' /\ WantInv'
    BY <2>2, <2>3, AreClients DEF UrlInv, TargetInv, WantInv, Stays
  <2> QED BY <1>0, <2>2, <2>4, <2>5
<1>3. ASSUME NEW c \in Commands, CommandNext(c) PROVE CallersInv' /\ Store
  <2>1. \A b \in Agents \ {c} : Stays(b)
    BY <1>3, CommandMoves, MovesKeep, Kinds
  <2>2. Uses(c) /\ WantInv' /\ UNCHANGED <<url, target>> /\ wants' = [d \in Commands |-> wants'[d]]
    BY <1>3, CommandUses
  <2>3. CallsInv'
    BY <2>1, <2>2, UsesKeep, AreClients DEF Agents
  <2>4. TargetInv' /\ UrlInv'
    BY <2>1, <2>2, Kinds DEF TargetInv, UrlInv, Stays
  <2> QED BY <1>0, <2>2, <2>3, <2>4, AreClients
<1>4. ASSUME NEW k \in Conns, ConnNext(k) PROVE CallersInv' /\ Store
  <2>1. \A b \in Agents \ {k} : Stays(b)
    BY <1>4, ConnMoves, MovesKeep, Kinds
  <2>2. Uses(k) /\ TargetInv' /\ UNCHANGED <<url, wants>> /\ target' = [j \in Conns |-> target'[j]]
    BY <1>4, ConnUses
  <2>3. CallsInv'
    BY <2>1, <2>2, UsesKeep, AreClients DEF Agents
  <2>4. UrlInv' /\ WantInv'
    BY <2>1, <2>2, Kinds DEF UrlInv, WantInv, Stays
  <2> QED BY <1>0, <2>2, <2>3, <2>4, AreClients
<1>5. ASSUME Aside PROVE CallersInv' /\ Store
  <2>1. Store
    BY <1>5 DEF Aside, ProxyStore, StoreStep, seedDeniedArtifacts, HandEdit, Quiet, vars
  <2> QED BY <1>5, <2>1, AsideCallers
<1> QED BY <1>1, <1>2, <1>3, <1>4, <1>5, NextCases

-----------------------------------------------------------------------------

(* What is in the files was put there by a call, or was there before.      *)
EntriesInv == files \in [Files -> SUBSET RuleEntries] /\ legible \in [Files -> BOOLEAN]

(* A call has no outcome before it returns.                                *)
OutcomeInv ==
  /\ outcome = [c \in Clients |-> outcome[c]]
  /\ \A c \in Clients : step[c] # "back" => outcome[c] = "none"

(* A call about to write was not to be refused when it read, and is not    *)
(* now.                                                                    *)
AcceptInv ==
  \A c \in Clients : step[c] = "write" =>
    /\ ~(File(c) = "approvals" /\ Kind(c) = "add" /\ Item(c)[2] \in Malformed)
    /\ ~(File(c) = "pending" /\ Kind(c) = "remove" /\ Item(c) \notin files["pending"])

ImplInv == StoreInv /\ PromptInv /\ CallersInv /\ EntriesInv /\ OutcomeInv /\ AcceptInv

(* The calls as AtomicStore has them: who may make one, and who may leave. *)
Begins(c) ==
  /\ step[c] \in {"idle", "back"}
  /\ \E f \in Files, kind \in Calls, item \in RuleEntries : Invoke(c, f, kind, item)

Leaves(c) == step[c] # "idle" /\ ((Consume(c) /\ step[c] = "back") \/ Abandon(c))

StoreMove ==
  \/ UNCHANGED store
  \/ \E c \in Clients : Begins(c) \/ Leaves(c) \/ StoreCall(c)
  \/ \E f \in Files : Break(f) \/ Mend(f)

(* Every step is one of these, or leaves the store alone.                  *)
LEMMA StoreMoves ==
  ASSUME StoreInv, PromptInv, CallersInv, [Next]_vars
  PROVE  StoreMove /\ CallersInv'
<1>1. ASSUME NEW c \in Clients, Uses(c) PROVE StoreMove
  <2>1. step[c] # "idle" <=> pc[c] \in Calling
    BY DEF CallersInv, CallsInv
  <2>2. CASE Asks(c)
    <3>1. Begins(c)
      BY <2>1, <2>2 DEF Asks, Begins, Returned
    <3> QED BY <3>1 DEF StoreMove
  <2>3. CASE Returned(c) /\ Consume(c)
    BY <2>3 DEF Returned, StoreMove, Leaves
  <2>4. CASE pc[c] \in Calling /\ Abandon(c)
    BY <2>1, <2>4 DEF StoreMove, Leaves
  <2> QED BY <1>1, <2>2, <2>3, <2>4 DEF Uses, StoreMove
<1> QED BY <1>1, CallersKeep DEF StoreMove

(* The rules that a cycle starts with are entries; no call is under way.   *)
LEMMA ImplInit == Init => ImplInv
<1> SUFFICES ASSUME Init PROVE ImplInv
  OBVIOUS
<1>1. EntriesInv
  <2>1. PICK approvals \in Standings[cast] : files = [f \in Files |-> IF f = "approvals" THEN approvals ELSE {}]
    BY DEF Init
  <2>2. approvals \subseteq {"allow", "deny"} \X Patterns
    BY ProxyAssumption DEF Init, EgressInit
  <2>3. approvals \subseteq RuleEntries
    BY <2>2 DEF RuleEntries
  <2> QED BY <2>1, <2>3 DEF EntriesInv, Init, StoreInit
<1>2. OutcomeInv /\ AcceptInv
  BY DEF Init, StoreInit, OutcomeInv, AcceptInv
<1> QED BY <1>1, <1>2, StoreInvInit, PromptInit, CallersInit DEF ImplInv

(* A write puts its own entry into its file, or takes it out.              *)
LEMMA EntriesKeep == ASSUME ImplInv, StoreMove PROVE EntriesInv'
<1> USE DEF ImplInv, EntriesInv
<1>1. ASSUME NEW c \in Clients, Write(c) PROVE EntriesInv'
  <2>1. files' = [files EXCEPT ![File(c)] = IF Kind(c) = "add" THEN @ \cup {Item(c)} ELSE @ \ {Item(c)}]
    BY <1>1, WriteKeeps
  <2>2. legible' = [legible EXCEPT ![File(c)] = TRUE] /\ step[c] = "write"
    BY <1>1 DEF Write
  <2>3. Item(c) \in RuleEntries /\ File(c) \in Files
    BY <2>2 DEF CallersInv, CallsInv, StoreInv, ShapeInv
  <2> QED BY <2>1, <2>2, <2>3
<1>2. ASSUME NEW c \in Clients, Begins(c) \/ Leaves(c) \/ Lock(c) \/ Load(c) \/ Refuse(c) \/ CallFails(c)
      PROVE  UNCHANGED <<files, legible>>
  BY <1>2 DEF Begins, Leaves, Invoke, Consume, Abandon, Lock, Load, Refuse, CallFails, onDisk
<1>3. ASSUME NEW f \in Files, Break(f) \/ Mend(f) PROVE EntriesInv'
  BY <1>3 DEF Break, Mend
<1>4. ASSUME UNCHANGED store PROVE EntriesInv'
  BY <1>4 DEF store, onDisk
<1> QED BY <1>1, <1>2, <1>3, <1>4 DEF StoreMove, StoreCall

(* An outcome is set by the return and cleared by whoever takes it.        *)
LEMMA OutcomeKeeps == ASSUME ImplInv, StoreMove PROVE OutcomeInv'
<1> USE DEF ImplInv, OutcomeInv
<1>0. step \in [Clients -> Steps]
  BY DEF StoreInv, ShapeInv
<1>1. ASSUME NEW c \in Clients, NEW s \in Steps \ {"back"},
             step' = [step EXCEPT ![c] = s], outcome' = [outcome EXCEPT ![c] = "none"]
      PROVE  OutcomeInv'
  BY <1>0, <1>1
<1>2. ASSUME NEW c \in Clients, NEW result, Return(c, result) PROVE OutcomeInv'
  BY <1>0, <1>2 DEF Return
<1>3. ASSUME NEW c \in Clients, Begins(c) \/ Leaves(c) PROVE OutcomeInv'
  <2>1. \E s \in Steps \ {"back"} : step' = [step EXCEPT ![c] = s] /\ outcome' = [outcome EXCEPT ![c] = "none"]
    BY <1>3 DEF Begins, Leaves, Invoke, Consume, Abandon, Steps
  <2> QED BY <1>1, <2>1
<1>4. ASSUME NEW c \in Clients, Lock(c) \/ Load(c) PROVE OutcomeInv'
  BY <1>0, <1>4 DEF Lock, Load
<1>5. ASSUME NEW c \in Clients, Refuse(c) \/ Write(c) \/ CallFails(c) PROVE OutcomeInv'
  <2>1. \E result : Return(c, result)
    BY <1>5 DEF Refuse, Write, CallFails
  <2> QED BY <1>2, <2>1
<1>6. ASSUME UNCHANGED <<step, outcome>> PROVE OutcomeInv'
  BY <1>6
<1>7. ASSUME NEW f \in Files, Break(f) \/ Mend(f) PROVE OutcomeInv'
  BY <1>6, <1>7 DEF Break, Mend, calls
<1>8. ASSUME UNCHANGED store PROVE OutcomeInv'
  BY <1>6, <1>8 DEF store, calls
<1> QED BY <1>3, <1>4, <1>5, <1>7, <1>8 DEF StoreMove, StoreCall

(* The lock keeps what a call has read, and so what allowed its write.     *)
LEMMA AcceptKeeps == ASSUME ImplInv, StoreMove PROVE AcceptInv'
<1> DEFINE Accepted(c) ==
      /\ ~(File(c) = "approvals" /\ Kind(c) = "add" /\ Item(c)[2] \in Malformed)
      /\ ~(File(c) = "pending" /\ Kind(c) = "remove" /\ Item(c) \notin files["pending"])
<1> USE DEF ImplInv, AcceptInv
<1>0. step \in [Clients -> Steps] /\ call = [c \in Clients |-> call[c]] /\ files = [f \in Files |-> files[f]]
  BY DEF StoreInv, ShapeInv
<1>1. ASSUME NEW c \in Clients, step'[c] # "write", UNCHANGED files,
             \A d \in Clients \ {c} : step'[d] = step[d] /\ call'[d] = call[d]
      PROVE  AcceptInv'
  BY <1>1 DEF File, Kind, Item
<1>2. ASSUME NEW c \in Clients, Begins(c) \/ Leaves(c) PROVE AcceptInv'
  <2>1. \E s \in {"lock", "idle"} : \E entry : step' = [step EXCEPT ![c] = s] /\ call' = [call EXCEPT ![c] = entry]
    BY <1>2 DEF Begins, Leaves, Invoke, Consume, Abandon
  <2>2. UNCHANGED files
    BY <1>2 DEF Begins, Leaves, Invoke, Consume, Abandon, onDisk
  <2> QED BY <1>0, <1>1, <2>1, <2>2
<1>3. ASSUME NEW c \in Clients, Lock(c) \/ Refuse(c) \/ CallFails(c) PROVE AcceptInv'
  <2>1. UNCHANGED <<files, call>> /\ \E s \in {"load", "back"} : step' = [step EXCEPT ![c] = s]
    BY <1>3 DEF Lock, Refuse, CallFails, Return
  <2> QED BY <1>0, <1>1, <2>1
<1>4. ASSUME NEW c \in Clients, Load(c) PROVE AcceptInv'
  <2>1. UNCHANGED <<files, call>> /\ step' = [step EXCEPT ![c] = "write"] /\ Refusal(c) = "none"
    BY <1>4 DEF Load, onDisk
  <2>2. Accepted(c)
    <3>1. legible[File(c)]
      BY <2>1 DEF Refusal
    <3> QED BY <2>1, <3>1 DEF Refusal
  <2>3. \A d \in Clients : d # c => step'[d] = step[d]
    BY <1>0, <2>1
  <2> QED BY <2>1, <2>2, <2>3 DEF File, Kind, Item
<1>5. ASSUME NEW c \in Clients, Write(c) PROVE AcceptInv'
  <2>1. UNCHANGED call /\ step' = [step EXCEPT ![c] = "back"] /\ step[c] = "write"
    BY <1>5 DEF Write, Return
  <2>2. files' = [files EXCEPT ![File(c)] = IF Kind(c) = "add" THEN @ \cup {Item(c)} ELSE @ \ {Item(c)}]
    BY <1>5, WriteKeeps
  <2>3. \A d \in Clients : step'[d] = "write" => d # c /\ step[d] = "write"
    BY <1>0, <2>1
  <2>4. ASSUME NEW d \in Clients, step'[d] = "write", File(d) = "pending"
        PROVE  files'["pending"] = files["pending"]
    <3>1. d # c /\ holder[File(d)] = d /\ holder[File(c)] = c
      BY <2>1, <2>3, <2>4 DEF StoreInv, LockInv, Holding
    <3>2. File(c) # "pending"
      BY <2>4, <3>1
    <3> QED BY <1>0, <2>2, <3>2 DEF Files
  <2> QED BY <2>1, <2>3, <2>4 DEF File, Kind, Item
<1>6. ASSUME UNCHANGED <<step, call, files>> PROVE AcceptInv'
  BY <1>6 DEF File, Kind, Item
<1>7. ASSUME NEW f \in Files, Break(f) \/ Mend(f) PROVE AcceptInv'
  BY <1>6, <1>7 DEF Break, Mend, calls
<1>8. ASSUME UNCHANGED store PROVE AcceptInv'
  BY <1>6, <1>8 DEF store, calls, onDisk
<1> QED BY <1>2, <1>3, <1>4, <1>5, <1>7, <1>8 DEF StoreMove, StoreCall

(* The inductive invariant of the refinement.                              *)
THEOREM ImplHolds == Spec => []ImplInv
<1>1. ImplInv /\ [Next]_vars => ImplInv'
  BY StoreSteps, StoreKeeps, PromptKeeps, StoreMoves, EntriesKeep, OutcomeKeeps, AcceptKeeps DEF ImplInv
<1> QED BY <1>1, ImplInit, PTL DEF Spec

-----------------------------------------------------------------------------

StageOf(s) == IF s \in {"lock", "load"} THEN "open" ELSE IF s = "write" THEN "parsed" ELSE s

(* Where AtomicStore has a call that is at step s.                         *)
LEMMA StageIs == \A c \in Clients : Stage[c] = StageOf(step[c])
  BY DEF Stage, StageOf

(* One call moves at a time, there as here.                                *)
LEMMA StageMoves ==
  ASSUME step \in [Clients -> Steps], NEW c \in Clients, NEW s, step' = [step EXCEPT ![c] = s]
  PROVE  Stage' = [Stage EXCEPT ![c] = StageOf(s)]
<1>1. step'[c] = s /\ \A d \in Clients \ {c} : step'[d] = step[d]
  OBVIOUS
<1> QED BY <1>1 DEF Stage, StageOf

(* The store starts as the abstract one does.                              *)
LEMMA AtomicInit == Init => Atomic!Init
<1> SUFFICES ASSUME Init PROVE Atomic!Init
  OBVIOUS
<1>1. files \in [Files -> SUBSET RuleEntries]
  BY ImplInit DEF ImplInv, EntriesInv
<1> QED BY <1>1 DEF Atomic!Init, Atomic!Files, Atomic!NoCall, Files, NoCall, Stage, Init, StoreInit

(* A call begins where the caller has none or has taken the last result.   *)
LEMMA BeginsAtomic == ASSUME ImplInv, NEW c \in Clients, Begins(c) PROVE Atomic!Invoke(c)
<1>1. PICK f \in Files, kind \in Calls, item \in RuleEntries : Invoke(c, f, kind, item)
  BY DEF Begins
<1>2. step \in [Clients -> Steps]
  BY DEF ImplInv, StoreInv, ShapeInv
<1>3. Stage' = [Stage EXCEPT ![c] = "open"]
  BY <1>1, <1>2, StageMoves DEF Invoke, StageOf
<1>4. Stage[c] \in {"idle", "back"}
  BY StageIs DEF Begins, StageOf
<1> QED BY <1>1, <1>3, <1>4 DEF Invoke, onDisk, Atomic!Invoke, Atomic!Becomes, Atomic!Files, Atomic!Calls, Files, Calls

(* A call that is over, or whose process dies, is gone.                    *)
LEMMA LeavesAtomic == ASSUME ImplInv, NEW c \in Clients, Leaves(c) PROVE Atomic!Leave(c)
<1>1. step \in [Clients -> Steps] /\ step[c] # "idle"
  BY DEF ImplInv, StoreInv, ShapeInv, Leaves
<1>2. /\ step' = [step EXCEPT ![c] = "idle"] /\ call' = [call EXCEPT ![c] = NoCall]
      /\ outcome' = [outcome EXCEPT ![c] = "none"] /\ UNCHANGED <<files, legible>>
  BY DEF Leaves, Consume, Abandon, onDisk
<1>3. Stage' = [Stage EXCEPT ![c] = "idle"]
  BY <1>1, <1>2, StageMoves DEF StageOf
<1>4. Stage[c] # "idle"
  BY <1>1, StageIs DEF StageOf, Steps
<1> QED BY <1>2, <1>3, <1>4 DEF Atomic!Leave, Atomic!Becomes, Atomic!NoCall, NoCall

(* To take the lock is nothing; to read a file that will do is to parse it.*)
LEMMA LockAtomic == ASSUME ImplInv, NEW c \in Clients, Lock(c) PROVE UNCHANGED Atomic!vars
<1>1. step \in [Clients -> Steps] /\ step[c] = "lock" /\ step' = [step EXCEPT ![c] = "load"]
  BY DEF ImplInv, StoreInv, ShapeInv, Lock
<1>2. Stage' = [Stage EXCEPT ![c] = "open"] /\ Stage[c] = "open"
  BY <1>1, StageMoves, StageIs DEF StageOf
<1>3. Stage' = Stage
  BY <1>2 DEF Stage
<1> QED BY <1>3 DEF Atomic!vars, Lock

(* A call that reads a file which parses has been begun there, and no more. *)
LEMMA LoadAtomic == ASSUME ImplInv, NEW c \in Clients, Load(c) PROVE Atomic!Parse(c)
<1>1. /\ step \in [Clients -> Steps] /\ step[c] = "load" /\ step' = [step EXCEPT ![c] = "write"]
      /\ Refusal(c) = "none" /\ UNCHANGED <<files, legible, call, outcome>>
  BY DEF ImplInv, StoreInv, ShapeInv, Load, onDisk
<1>2. Stage' = [Stage EXCEPT ![c] = "parsed"] /\ Stage[c] = "open"
  BY <1>1, StageMoves, StageIs DEF StageOf
<1>3. legible[File(c)]
  BY <1>1 DEF Refusal
<1>4. outcome' = [outcome EXCEPT ![c] = "none"]
  BY <1>1 DEF ImplInv, OutcomeInv
<1> QED BY <1>1, <1>2, <1>3, <1>4 DEF Atomic!Parse, Atomic!Becomes, Atomic!File, File

(* A call is refused for the reasons that the abstract store declines for. *)
LEMMA RefuseAtomic == ASSUME ImplInv, NEW c \in Clients, Refuse(c) PROVE Atomic!Decline(c)
<1> USE DEF Atomic!File, Atomic!Kind, Atomic!Item, Atomic!Refused, Atomic!Known, Atomic!Missing, File, Kind, Item
<1>1. /\ step \in [Clients -> Steps] /\ step[c] = "load" /\ step' = [step EXCEPT ![c] = "back"]
      /\ outcome' = [outcome EXCEPT ![c] = Refusal(c)]
      /\ Refusal(c) # "none" /\ UNCHANGED <<files, legible, call>>
  BY DEF ImplInv, StoreInv, ShapeInv, Refuse, Return
<1>2. Stage' = [Stage EXCEPT ![c] = "back"] /\ Stage[c] = "open"
  BY <1>1, StageMoves, StageIs DEF StageOf
<1>3. \/ (~legible[File(c)] \/ Atomic!Refused(c)) /\ Refusal(c) = "err"
      \/ legible[File(c)] /\ Atomic!Known(c) /\ Refusal(c) = "ok"
      \/ legible[File(c)] /\ Atomic!Missing(c) /\ Refusal(c) = "absent"
  <2>1. CASE ~legible[File(c)]
    <3>1. Refusal(c) = "err"
      BY <2>1 DEF Refusal
    <3> QED BY <2>1, <3>1
  <2>2. CASE legible[File(c)]
    BY <1>1, <2>2 DEF Refusal, Duplicate
  <2> QED BY <2>1, <2>2
<1> QED BY <1>1, <1>2, <1>3 DEF Atomic!Decline, Atomic!Becomes

(* The write of a copy is the update of what is in the file.               *)
LEMMA WriteAtomic == ASSUME ImplInv, NEW c \in Clients, Write(c) PROVE Atomic!Update(c)
<1> USE DEF Atomic!File, Atomic!Kind, Atomic!Item, File, Kind, Item
<1>1. /\ step \in [Clients -> Steps] /\ step[c] = "write" /\ step' = [step EXCEPT ![c] = "back"]
      /\ outcome' = [outcome EXCEPT ![c] = "ok"] /\ legible' = [legible EXCEPT ![File(c)] = TRUE]
      /\ UNCHANGED call
  BY DEF ImplInv, StoreInv, ShapeInv, Write, Return
<1>2. Stage' = [Stage EXCEPT ![c] = "back"] /\ Stage[c] = "parsed"
  BY <1>1, StageMoves, StageIs DEF StageOf
<1>3. ~Atomic!Refused(c) /\ ~Atomic!Missing(c)
  BY <1>1 DEF ImplInv, AcceptInv, Atomic!Refused, Atomic!Missing
<1>4. ~Atomic!Known(c)
  BY <1>1 DEF ImplInv, StoreInv, NewInv, Duplicate, Atomic!Known
<1>5. files' = [files EXCEPT ![File(c)] = IF Kind(c) = "add" THEN @ \cup {Item(c)} ELSE @ \ {Item(c)}]
  BY WriteKeeps DEF ImplInv
<1> QED BY <1>1, <1>2, <1>3, <1>4, <1>5 DEF Atomic!Update, Atomic!Becomes

(* A call that fails halfway changes nothing, there as here.               *)
LEMMA FailsAtomic == ASSUME ImplInv, NEW c \in Clients, CallFails(c) PROVE Atomic!Fail(c)
<1>1. /\ step \in [Clients -> Steps] /\ step[c] \in {"lock", "load", "write"}
      /\ step' = [step EXCEPT ![c] = "back"]
      /\ outcome' = [outcome EXCEPT ![c] = "err"] /\ UNCHANGED <<files, legible, call>>
  BY DEF ImplInv, StoreInv, ShapeInv, CallFails, Return
<1>2. Stage' = [Stage EXCEPT ![c] = "back"] /\ Stage[c] \in {"open", "parsed"}
  BY <1>1, StageMoves, StageIs DEF StageOf
<1> QED BY <1>1, <1>2 DEF Atomic!Fail, Atomic!Becomes

(* The operator's editor, likewise.                                        *)
LEMMA EditAtomic == ASSUME ImplInv, NEW f \in Files, Break(f) \/ Mend(f) PROVE Atomic!Edit(f)
<1>1. legible' = [legible EXCEPT ![f] = ~legible[f]] /\ UNCHANGED <<files, step, call, outcome>>
  <2>1. legible[f] \in BOOLEAN
    BY DEF ImplInv, EntriesInv
  <2> QED BY <2>1 DEF Break, Mend, calls
<1> QED BY <1>1 DEF Atomic!Edit, Stage

(* Every step is a step of the abstract store, or none.                    *)
LEMMA StoreSimulates == ImplInv /\ [Next]_vars => [Atomic!Next]_(Atomic!vars)
<1> SUFFICES ASSUME ImplInv, [Next]_vars PROVE [Atomic!Next]_(Atomic!vars)
  OBVIOUS
<1>1. StoreMove
  BY StoreMoves DEF ImplInv
<1>2. ASSUME NEW c \in Clients, Begins(c) \/ Leaves(c) PROVE Atomic!Next
  BY <1>2, BeginsAtomic, LeavesAtomic DEF Atomic!Next
<1>3. ASSUME NEW c \in Clients, StoreCall(c) PROVE [Atomic!Next]_(Atomic!vars)
  BY <1>3, LockAtomic, LoadAtomic, RefuseAtomic, WriteAtomic, FailsAtomic DEF StoreCall, Atomic!Next
<1>4. ASSUME NEW f \in Files, Break(f) \/ Mend(f) PROVE Atomic!Next
  BY <1>4, EditAtomic DEF Atomic!Next, Atomic!Files, Files
<1>5. ASSUME UNCHANGED store PROVE UNCHANGED Atomic!vars
  BY <1>5 DEF store, onDisk, calls, Atomic!vars, Stage
<1> QED BY <1>1, <1>2, <1>3, <1>4, <1>5 DEF StoreMove

(* The calls of every number of handlers, connections and commands, with   *)
(* every interleaving, failure, death and edit of a file by hand, take     *)
(* effect at once on what is in the file.                                  *)
THEOREM StoreRefinesHolds == Spec => StoreRefines
<1>1. Init => Atomic!Init
  BY AtomicInit
<1>2. ImplInv /\ [Next]_vars => [Atomic!Next]_(Atomic!vars)
  BY StoreSimulates
<1> QED BY <1>1, <1>2, ImplHolds, PTL DEF Spec, StoreRefines, Atomic!Spec

=============================================================================
