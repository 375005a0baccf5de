------------------------------ MODULE RuleStore -----------------------------
(***************************************************************************)
(* The operator's egress rules and the queue of held fetches:              *)
(* internal/egress/store.go.                                               *)
(*                                                                         *)
(* Two JSON files are shared by the goroutines of a serving controller and *)
(* by `iceclimber approve`, `deny` and `egress rules forget`, which are    *)
(* processes of their own.  A change is a read-modify-write under an       *)
(* advisory lock on the file; readers take no lock.  A file is the set of  *)
(* its entries: <<"allow", pattern>> and <<"deny", pattern>> in approvals, *)
(* <<id, url>> in pending.  Store.mu is subsumed by the lock on the file,  *)
(* which each call opens anew.                                             *)
(***************************************************************************)
EXTENDS Naturals

CONSTANTS
  Clients,    \* the goroutines and processes that may change the files
  Patterns,   \* URL globs
  Malformed,  \* those ValidateURLGlob refuses
  URLs,       \* canonical URLs
  Matches,    \* Matches[p]: the URLs that glob p matches
  Nobody,     \* no client
  MaxFaults   \* bound: failed operations, killed commands, broken files

Files == {"approvals", "pending"}
Calls == {"add", "remove"}

ASSUME StoreAssumption ==
  /\ Malformed \subseteq Patterns
  /\ Matches \in [Patterns -> SUBSET URLs]
  /\ Nobody \notin Clients
  /\ MaxFaults \in Nat

VARIABLES
  files,      \* files[f]: the entries of the file
  legible,    \* legible[f]: FALSE when it does not parse
  holder,     \* holder[f]: the client that holds its lock
  step,       \* step[c]: how far the call of client c has come
  call,       \* call[c]: the file, what to do, and the entry
  seen,       \* seen[c]: the entries the call has loaded
  outcome,    \* outcome[c]: what the call returned
  faults      \* how many faults have happened

onDisk == <<files, legible, holder>>
calls  == <<step, call, seen, outcome>>
store  == <<onDisk, calls, faults>>

Steps == {"idle", "lock", "load", "write", "back"}
Outcomes == {"none", "ok", "absent", "err"}

NoCall == <<"approvals", "add", <<>>>>
File(c) == call[c][1]
Kind(c) == call[c][2]
Item(c) == call[c][3]

StoreInit ==
  /\ legible = [f \in Files |-> TRUE]
  /\ holder = [f \in Files |-> Nobody]
  /\ step = [c \in Clients |-> "idle"]
  /\ call = [c \in Clients |-> NoCall]
  /\ seen = [c \in Clients |-> {}]
  /\ outcome = [c \in Clients |-> "none"]
  /\ faults = 0

-----------------------------------------------------------------------------
(* What a reader sees                                                      *)

Denying(u)  == {p \in Patterns : <<"deny", p>> \in files["approvals"] /\ u \in Matches[p]}
Allowing(u) == {p \in Patterns : <<"allow", p>> \in files["approvals"] /\ u \in Matches[p]}

(* An unreadable file denies.                                              *)
StoreDenied(u) == ~legible["approvals"] \/ Denying(u) # {}

-----------------------------------------------------------------------------
(* One call: AddAllow, AddDeny, RemoveAllow, RemoveDeny, AddPending or     *)
(* RemovePending                                                           *)

Invoke(c, f, kind, item) ==
  /\ step' = [step EXCEPT ![c] = "lock"]
  /\ call' = [call EXCEPT ![c] = <<f, kind, item>>]
  /\ outcome' = [outcome EXCEPT ![c] = "none"]
  /\ UNCHANGED <<onDisk, seen, faults>>

(* The caller takes the result of its call.                                *)
Returned(c) == step[c] = "back"

Consume(c) ==
  /\ step' = [step EXCEPT ![c] = "idle"]
  /\ call' = [call EXCEPT ![c] = NoCall]
  /\ outcome' = [outcome EXCEPT ![c] = "none"]
  /\ UNCHANGED <<onDisk, seen, faults>>

(* Mutant: once per request id.                                            *)
DuplicateId(content, item) == \E e \in content : e[1] = item[1]

(* A held request is recorded once per URL.                                *)
Duplicate(content, item) == \E e \in content : e[2] = item[2]

(* Mutant: the advisory lock is not waited for.                            *)
LockableAlways(f) == TRUE

Lockable(f) == holder[f] = Nobody

(* Mutant: a file that does not parse is taken for an empty one.           *)
RefusalUnparsed(c) ==
  CASE File(c) = "approvals" /\ Kind(c) = "add" /\ Item(c)[2] \in Malformed -> "err"
    [] File(c) = "pending" /\ Kind(c) = "add" /\ legible["pending"] /\ Duplicate(files["pending"], Item(c)) -> "ok"
    [] File(c) = "pending" /\ Kind(c) = "remove" /\ Item(c) \notin files["pending"] -> "absent"
    [] OTHER -> "none"

(* Why a call ends without writing, "none" when it goes on.                *)
Refusal(c) ==
  IF ~legible[File(c)] THEN "err" ELSE
  CASE File(c) = "approvals" /\ Kind(c) = "add" /\ Item(c)[2] \in Malformed -> "err"
    [] File(c) = "pending" /\ Kind(c) = "add" /\ Duplicate(files["pending"], Item(c)) -> "ok"
    [] File(c) = "pending" /\ Kind(c) = "remove" /\ Item(c) \notin files["pending"] -> "absent"
    [] OTHER -> "none"

Loaded(c) == IF legible[File(c)] THEN files[File(c)] ELSE {}

Updated(c) == IF Kind(c) = "add" THEN seen[c] \cup {Item(c)} ELSE seen[c] \ {Item(c)}

Unlocked(c) == [f \in Files |-> IF holder[f] = c THEN Nobody ELSE holder[f]]

Return(c, result) ==
  /\ step' = [step EXCEPT ![c] = "back"]
  /\ outcome' = [outcome EXCEPT ![c] = result]
  /\ holder' = Unlocked(c)
  /\ UNCHANGED call

Lock(c) ==
  /\ step[c] = "lock"
  /\ Lockable(File(c))
  /\ holder' = [holder EXCEPT ![File(c)] = c]
  /\ step' = [step EXCEPT ![c] = "load"]
  /\ UNCHANGED <<files, legible, call, seen, outcome, faults>>

Load(c) ==
  /\ step[c] = "load"
  /\ Refusal(c) = "none"
  /\ seen' = [seen EXCEPT ![c] = Loaded(c)]
  /\ step' = [step EXCEPT ![c] = "write"]
  /\ UNCHANGED <<onDisk, call, outcome, faults>>

Refuse(c) ==
  /\ step[c] = "load"
  /\ Refusal(c) # "none"
  /\ Return(c, Refusal(c))
  /\ UNCHANGED <<files, legible, seen, faults>>

(* A rename replaces the whole file: a later reader parses it.             *)
Write(c) ==
  /\ step[c] = "write"
  /\ files' = [files EXCEPT ![File(c)] = Updated(c)]
  /\ legible' = [legible EXCEPT ![File(c)] = TRUE]
  /\ seen' = [seen EXCEPT ![c] = {}]
  /\ Return(c, "ok")
  /\ UNCHANGED faults

(* The lock, the read or the write fails; the file keeps its entries.      *)
CallFails(c) ==
  /\ step[c] \in {"lock", "load", "write"}
  /\ faults < MaxFaults
  /\ faults' = faults + 1
  /\ seen' = [seen EXCEPT ![c] = {}]
  /\ Return(c, "err")
  /\ UNCHANGED <<files, legible>>

(* The process dies: the kernel releases its lock.                         *)
Abandon(c) ==
  /\ step' = [step EXCEPT ![c] = "idle"]
  /\ call' = [call EXCEPT ![c] = NoCall]
  /\ outcome' = [outcome EXCEPT ![c] = "none"]
  /\ seen' = [seen EXCEPT ![c] = {}]
  /\ holder' = Unlocked(c)
  /\ UNCHANGED <<files, legible>>

(* The operator edits a file by hand and leaves it unparseable, and later  *)
(* mends it.                                                               *)
Break(f) ==
  /\ legible[f]
  /\ faults < MaxFaults
  /\ faults' = faults + 1
  /\ legible' = [legible EXCEPT ![f] = FALSE]
  /\ UNCHANGED <<files, holder, calls>>

Mend(f) ==
  /\ ~legible[f]
  /\ legible' = [legible EXCEPT ![f] = TRUE]
  /\ UNCHANGED <<files, holder, calls, faults>>

StoreCall(c) == Lock(c) \/ Load(c) \/ Refuse(c) \/ Write(c) \/ CallFails(c)

=============================================================================
