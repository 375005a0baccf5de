--------------------------- MODULE DispatchHistory ---------------------------
(***************************************************************************)
(* Dispatch with history variables (internal/protocol/dispatch.go): what   *)
(* the drain of RunOnce listed last, and which requests gc has orphaned.   *)
(***************************************************************************)
EXTENDS Dispatch

VARIABLES
  listing,    \* the last listing of outbox/new by RunOnce
  orphaned    \* requests left without their response by gc

historyVars == <<vars, listing, orphaned>>

(* gc is done with a pair, or dies at it, and has deleted the response and *)
(* not the request: the delete of the request was refused, the link        *)
(* dropped or the process died between the two, or the client delivered    *)
(* the request again before the response was collected.                    *)
Halved(id) ==
  /\ at \in {"gcInCur", "gcReapCur"} /\ at' # at
  /\ id = name
  /\ id \in outNew' \cup outCur' /\ id \notin inNew' \cup inCur'

HistoryInit == Init /\ listing = {} /\ orphaned = {}
HistoryNext ==
  /\ Next
  /\ listing' = IF mode' # "once" THEN {}
                ELSE IF at = "drain" /\ at' = "drainNext" THEN todo'
                ELSE listing
  /\ orphaned' =
       {id \in orphaned \cup {other \in Ids : Halved(other)} : answers'[id] = answers[id]}

HistorySpec == HistoryInit /\ [][HistoryNext]_historyVars

HistoryFairSpec == HistorySpec /\ Fairness

-----------------------------------------------------------------------------
(* Properties                                                              *)

(* `serve --once` returns nil only when everything it found is answered:   *)
(* the requests of its last listing, those it picked up, and those it      *)
(* found stranded ("expect all work done on return").                      *)
OnceComplete ==
  [][/\ at = "idle" /\ mode = "once" /\ workCtx
     /\ at' = "closing"
     => \A id \in listing \cup outCur : answers[id] > 0]_historyVars

(* Effectively once: an answered request is serviced again only when gc    *)
(* deleted its response and left the request, and once at that: until it   *)
(* is answered again.                                                      *)
AnsweredNeverRerun ==
  [][\A id \in Ids : Starts(id) => answers[id] = 0 \/ id \in orphaned]_historyVars

Status(id) ==
  IF client[id] = "new" THEN "new"
  ELSE IF answers[id] = 0 THEN "pending"
  ELSE IF id \in orphaned THEN "forgotten" ELSE "answered"

Abstract == INSTANCE EffectivelyOnce WITH
  Key      <- [id \in Ids |-> resourceKey(id)],
  Capacity <- Cardinality(Pool),
  status   <- [id \in Ids |-> Status(id)],
  running  <- Running

(* The dispatcher implements the effectively-once protocol, in which an    *)
(* answer is forgotten when its request is orphaned.                       *)
Refines == Abstract!Spec

(* A collected pair is eventually deleted on both sides; only a request    *)
(* that gc could not delete stays, and it is not counted as pruned.        *)
CollectedPruned ==
  \A id \in Ids : id \in inCur ~> id \notin inCur /\ (id \in outCur => id \in orphaned)

=============================================================================
