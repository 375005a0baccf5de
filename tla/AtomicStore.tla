----------------------------- MODULE AtomicStore ----------------------------
(***************************************************************************)
(* What the rule files promise to their callers, goroutines and processes  *)
(* of their own: a call takes effect at one moment, on the entries that    *)
(* the file has at that moment, and only if the file has parsed since the  *)
(* call began; or it changes nothing, and says why, or its process dies.   *)
(* There is no lock and nobody has a copy.                                 *)
(*                                                                         *)
(* The calls of RuleStore, as its callers make them, implement this module *)
(* (EgressProxy!StoreRefines).                                             *)
(***************************************************************************)
CONSTANTS
  Clients,    \* who may change the files
  Entries,    \* what may be in a file
  Malformed   \* the patterns that are no URL glob

Files == {"approvals", "pending"}
Calls == {"add", "remove"}

VARIABLES
  files,      \* files[f]: the entries of the file
  legible,    \* legible[f]: FALSE when it does not parse
  stage,      \* stage[c]: "idle", "open", "parsed" or "back"
  call,       \* call[c]: the file, what to do, and the entry
  outcome     \* outcome[c]: what the call returned

vars == <<files, legible, stage, call, outcome>>

NoCall == <<"approvals", "add", <<>>>>
File(c) == call[c][1]
Kind(c) == call[c][2]
Item(c) == call[c][3]

Init ==
  /\ files \in [Files -> SUBSET Entries]
  /\ legible = [f \in Files |-> TRUE]
  /\ stage = [c \in Clients |-> "idle"]
  /\ call = [c \in Clients |-> NoCall]
  /\ outcome = [c \in Clients |-> "none"]

-----------------------------------------------------------------------------

Becomes(c, at, result) ==
  /\ stage' = [stage EXCEPT ![c] = at]
  /\ outcome' = [outcome EXCEPT ![c] = result]

(* A caller has one call at a time. *)
Invoke(c) ==
  /\ stage[c] \in {"idle", "back"} /\ Becomes(c, "open", "none")
  /\ \E f \in Files, kind \in Calls, item \in Entries : call' = [call EXCEPT ![c] = <<f, kind, item>>]
  /\ UNCHANGED <<files, legible>>

Parse(c) ==
  /\ stage[c] = "open" /\ legible[File(c)]
  /\ Becomes(c, "parsed", "none")
  /\ UNCHANGED <<files, legible, call>>

(* No glob; held already, by whatever request; not held any more.          *)
Refused(c) == File(c) = "approvals" /\ Kind(c) = "add" /\ Item(c)[2] \in Malformed
Known(c) == File(c) = "pending" /\ Kind(c) = "add" /\ \E e \in files["pending"] : e[2] = Item(c)[2]
Missing(c) == File(c) = "pending" /\ Kind(c) = "remove" /\ Item(c) \notin files["pending"]

Decline(c) ==
  /\ stage[c] = "open"
  /\ \/ (~legible[File(c)] \/ Refused(c)) /\ Becomes(c, "back", "err")
     \/ legible[File(c)] /\ Known(c) /\ Becomes(c, "back", "ok")
     \/ legible[File(c)] /\ Missing(c) /\ Becomes(c, "back", "absent")
  /\ UNCHANGED <<files, legible, call>>

(* The effect, on what is there now. The file parses afterwards.           *)
Update(c) ==
  /\ stage[c] = "parsed" /\ ~Refused(c) /\ ~Known(c) /\ ~Missing(c)
  /\ files' = [files EXCEPT ![File(c)] = IF Kind(c) = "add" THEN @ \cup {Item(c)} ELSE @ \ {Item(c)}]
  /\ legible' = [legible EXCEPT ![File(c)] = TRUE]
  /\ Becomes(c, "back", "ok")
  /\ UNCHANGED call

Fail(c) ==
  /\ stage[c] \in {"open", "parsed"}
  /\ Becomes(c, "back", "err")
  /\ UNCHANGED <<files, legible, call>>

(* The caller takes the result, or dies before or after the effect.        *)
Leave(c) ==
  /\ stage[c] # "idle"
  /\ call' = [call EXCEPT ![c] = NoCall]
  /\ Becomes(c, "idle", "none")
  /\ UNCHANGED <<files, legible>>

(* The operator's editor leaves a file unparseable, and mends it.          *)
Edit(f) ==
  /\ legible' = [legible EXCEPT ![f] = ~@]
  /\ UNCHANGED <<files, stage, call, outcome>>

Next ==
  \/ \E c \in Clients :
       Invoke(c) \/ Parse(c) \/ Decline(c) \/ Update(c) \/ Fail(c) \/ Leave(c)
  \/ \E f \in Files : Edit(f)

Spec == Init /\ [][Next]_vars
=============================================================================
