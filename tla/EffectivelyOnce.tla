--------------------------- MODULE EffectivelyOnce ---------------------------
(***************************************************************************)
(* What the request/response protocol promises to the agent in the         *)
(* sandbox: "at-least-once, deduped to effectively-once".  A request that  *)
(* was submitted may be started, given up and started again (a crash, a    *)
(* dropped link), but once it has been answered it is never started again, *)
(* unless its answer is forgotten; two requests with one resource key      *)
(* never run together, and never more than Capacity run at once.           *)
(*                                                                         *)
(* Dispatch implements this module (DispatchHistory!Refines), where an     *)
(* answer is forgotten when gc deletes the response and not the request.   *)
(***************************************************************************)
EXTENDS Naturals, FiniteSets

CONSTANTS
  Ids,       \* request identities
  Key,       \* Key[id]: the resource the request touches, or NoKey
  NoKey,     \* the key of a request that shares no resource
  Capacity   \* how many requests run at once

VARIABLES
  status,    \* status[id]: what the agent knows of the request
  running    \* the requests whose handler runs now

vars == <<status, running>>

Statuses == {"new", "pending", "answered", "forgotten"}

-----------------------------------------------------------------------------

Init ==
  /\ status = [id \in Ids |-> "new"]
  /\ running = {}

(* The agent publishes a request. *)
Submit(id) ==
  /\ status[id] = "new"
  /\ status' = [status EXCEPT ![id] = "pending"]
  /\ UNCHANGED running

(* The handler starts, for a request that has no answer any more or yet. *)
Begin(id) ==
  /\ status[id] \in {"pending", "forgotten"}
  /\ id \notin running
  /\ \A other \in running : Key[id] = NoKey \/ Key[other] # Key[id]
  /\ Cardinality(running) < Capacity
  /\ running' = running \cup {id}
  /\ UNCHANGED status

(* The answer becomes visible to the agent. *)
Answer(id) ==
  /\ id \in running
  /\ status' = [status EXCEPT ![id] = "answered"]
  /\ running' = running \ {id}

(* A mishap: a crash or a lost link ends handlers without an answer, and   *)
(* one of them, or a delete that is refused, makes answers be forgotten.   *)
Mishap ==
  /\ running' \in SUBSET running
  /\ status' \in [Ids -> Statuses]
  /\ \A id \in Ids :
       \/ status'[id] = status[id]
       \/ status[id] = "answered" /\ status'[id] = "forgotten"

Next ==
  \/ \E id \in Ids : Submit(id) \/ Begin(id) \/ Answer(id)
  \/ Mishap

Spec == Init /\ [][Next]_vars
=============================================================================
