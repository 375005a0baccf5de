------------------------------- MODULE Egress -------------------------------
(***************************************************************************)
(* Operator approval: the prompts of internal/cli/approver.go, web.fetch's *)
(* gate in internal/webfetch/handler.go and the commands that settle held  *)
(* fetches, internal/cli/approve.go, over the files of RuleStore.          *)
(*                                                                         *)
(* Fetches are handlers of web.fetch whose URL goes out from the           *)
(* controller's network; Gated are dispatcher workers whose verb needs the *)
(* operator's consent; Commands are processes of their own.  All of one    *)
(* serve cycle: a reconnect builds a new approver that remembers nothing.  *)
(***************************************************************************)
EXTENDS RuleStore, FiniteSets

CONSTANTS
  Fetches, Gated, Commands,
  Verb,         \* Verb[g]: the request type of gated worker g
  Host,         \* Host[u]: the host of a URL
  HostGlob,     \* HostGlob[u]: the pattern of all URLs of u's host
  Unlisted,     \* unlisted_domain_policy: "gate" or "deny"
  Wanted,       \* bound: Wanted[f]: the URLs fetch f may be for
  Custom,       \* bound: the globs given to approve --remember
  MaxHops,      \* bound: URLs one fetch reaches, redirects included
  Casts         \* bound: the agents that take part in one behaviour

Agents == Clients \cup Gated
Verbs == {Verb[g] : g \in Gated}

ASSUME EgressAssumption ==
  /\ Fetches \subseteq Clients /\ Commands \subseteq Clients
  /\ Fetches \cap Commands = {} /\ Gated \cap Clients = {}
  /\ Nobody \notin Gated
  /\ HostGlob \in [URLs -> Patterns]
  /\ \A u \in URLs : u \in Matches[HostGlob[u]]
  /\ Unlisted \in {"gate", "deny"}
  /\ Wanted \in [Fetches -> SUBSET URLs]
  /\ Custom \subseteq Patterns
  /\ MaxHops \in Nat
  /\ Casts \subseteq SUBSET Agents

VARIABLES
  supervised,         \* an operator answers prompts in this controller
  cast,               \* the agents of this behaviour
  pc,                 \* pc[a]: the position of each agent
  promptMu,           \* approver.promptMu: the agent that holds it
  allowAll, denyAll,  \* verbs decided for the rest of the session
  url,                \* url[f]: the fetch's URL after rewriting
  reached,            \* reached[f]: the URLs it has requested
  wants,              \* wants[c]: the fetch a command settles, and by which rule
  barred              \* barred[f]: rules that deny url[f] since f began (history)

setting  == <<supervised, cast>>
approver == <<promptMu, allowAll, denyAll>>
fetching == <<url, reached, barred>>
egress   == <<setting, pc, approver, fetching, wants>>

Labels ==
  {"idle", "done", "failed",
   "decide", "queue", "asking", "remember", "bar", "fetch", "follow", "hold", "held", "denied",
   "gate", "granted", "refused",
   "remove", "settle", "forget", "killed",
   "connect", "screen", "weigh", "open", "path", "artifact", "forward", "observe", "deliver",
   "closed"}

Choices == {"approve", "approveAll", "deny", "denyAll"}

EgressInit ==
  /\ supervised \in BOOLEAN
  /\ cast \in Casts
  /\ pc = [a \in Agents |-> "idle"]
  /\ promptMu = Nobody
  /\ allowAll = {} /\ denyAll = {}
  /\ url = [f \in Fetches |-> Nobody]
  /\ reached = [f \in Fetches |-> {}]
  /\ barred = [f \in Fetches |-> {}]
  /\ wants = [c \in Commands |-> <<Nobody, "allow", Nobody>>]

-----------------------------------------------------------------------------
(* The gate: deny rules, then allow rules, then the unlisted policy        *)

(* Mutant: allow rules before deny rules.                                  *)
DecideAllowFirst(u) ==
  CASE ~legible["approvals"] -> "deny"
    [] legible["approvals"] /\ Allowing(u) # {} -> "allow"
    [] OTHER -> IF StoreDenied(u) \/ Unlisted = "deny" THEN "deny" ELSE "hold"

(* Mutant: rules that do not parse are an answer of their own.             *)
DecideError(u) ==
  CASE ~legible["approvals"] -> "error"
    [] legible["approvals"] /\ Denying(u) # {} -> "deny"
    [] legible["approvals"] /\ Denying(u) = {} /\ Allowing(u) # {} -> "allow"
    [] OTHER -> IF Unlisted = "deny" THEN "deny" ELSE "hold"

Decide(u) ==
  CASE StoreDenied(u) -> "deny"
    [] ~StoreDenied(u) /\ Allowing(u) # {} -> "allow"
    [] OTHER -> IF Unlisted = "deny" THEN "deny" ELSE "hold"

Goto(a, label) == pc' = [pc EXCEPT ![a] = label]

(* The call a has made returns, and a goes on.                             *)
Resume(a, label) ==
  /\ Returned(a)
  /\ Consume(a)
  /\ Goto(a, label)

-----------------------------------------------------------------------------
(* The approver                                                            *)

PromptFree == promptMu = Nobody

(* A queued agent takes the single prompt, which waits for the operator.   *)
Present(a) ==
  /\ PromptFree
  /\ promptMu' = a
  /\ Goto(a, "asking")
  /\ UNCHANGED <<allowAll, denyAll>>

Answered(a) == pc[a] = "asking" /\ promptMu' = Nobody

(* The operator's verdict on a verb, if given for the whole session.       *)
Remembered(verb) ==
  CASE verb \in denyAll -> "refused"
    [] verb \in allowAll \ denyAll -> "granted"
    [] OTHER -> "none"

(* An unattended controller sets no gate.                                  *)
Gate(g) ==
  /\ g \in cast /\ pc[g] = "idle"
  /\ Goto(g, IF ~supervised THEN "granted"
             ELSE IF Remembered(Verb[g]) = "none" THEN "gate" ELSE Remembered(Verb[g]))
  /\ UNCHANGED <<approver, fetching, wants, setting, store>>

(* Mutant: what a sibling was told while we queued is not looked up.       *)
UnderLockNot(verb) == "none"

(* The same look, again, once the prompt is ours.                          *)
UnderLock(verb) == Remembered(verb)

GateAsk(g) ==
  /\ pc[g] = "gate"
  /\ UnderLock(Verb[g]) = "none"
  /\ Present(g)
  /\ UNCHANGED <<fetching, wants, setting, store>>

GateSettled(g) ==
  /\ pc[g] = "gate"
  /\ PromptFree
  /\ UnderLock(Verb[g]) # "none"
  /\ Goto(g, UnderLock(Verb[g]))
  /\ UNCHANGED <<approver, fetching, wants, setting, store>>

GateAnswered(g, choice) ==
  /\ Answered(g)
  /\ allowAll' = IF choice = "approveAll" THEN allowAll \cup {Verb[g]} ELSE allowAll
  /\ denyAll' = IF choice = "denyAll" THEN denyAll \cup {Verb[g]} ELSE denyAll
  /\ Goto(g, IF choice \in {"approve", "approveAll"} THEN "granted" ELSE "refused")
  /\ UNCHANGED <<fetching, wants, setting, store>>

GatedStep(g) ==
  \/ Gate(g) \/ GateAsk(g) \/ GateSettled(g)
  \/ \E choice \in Choices : GateAnswered(g, choice)

-----------------------------------------------------------------------------
(* web.fetch                                                               *)

Submit(f, u) ==
  /\ f \in cast /\ pc[f] = "idle"
  /\ u \in Wanted[f]
  /\ url' = [url EXCEPT ![f] = u]
  /\ barred' = [barred EXCEPT ![f] = Denying(u)]
  /\ Goto(f, "decide")
  /\ UNCHANGED <<reached, approver, wants, setting, store>>

Judge(f) ==
  /\ pc[f] = "decide"
  /\ \/ /\ Decide(url[f]) = "deny"
        /\ Goto(f, "denied") /\ UNCHANGED store
     \/ /\ Decide(url[f]) = "allow"
        /\ Goto(f, "fetch") /\ UNCHANGED store
     \/ /\ Decide(url[f]) = "hold" /\ supervised
        /\ Goto(f, "queue") /\ UNCHANGED store
     \/ /\ Decide(url[f]) = "hold" /\ ~supervised
        /\ Goto(f, "hold") /\ Invoke(f, "pending", "add", <<f, url[f]>>)
  /\ UNCHANGED <<fetching, approver, wants, setting>>

(* It is answered needs_clarification, whatever the call returned.         *)
Held(f) ==
  /\ pc[f] = "hold"
  /\ Resume(f, "held")
  /\ UNCHANGED <<fetching, approver, wants, setting>>

FetchAsk(f) ==
  /\ pc[f] = "queue"
  /\ Present(f)
  /\ UNCHANGED <<fetching, wants, setting, store>>

FetchAnswered(f, choice) ==
  /\ Answered(f)
  /\ CASE choice = "approve" -> Goto(f, "fetch") /\ UNCHANGED store
       [] choice = "approveAll" ->
            Goto(f, "remember") /\ Invoke(f, "approvals", "add", <<"allow", HostGlob[url[f]]>>)
       [] choice = "denyAll" ->
            Goto(f, "bar") /\ Invoke(f, "approvals", "add", <<"deny", HostGlob[url[f]]>>)
       [] choice = "deny" -> Goto(f, "denied") /\ UNCHANGED store
  /\ UNCHANGED <<fetching, wants, allowAll, denyAll, setting>>

(* The rule's error is ignored; the verdict stands for this fetch.         *)
FetchRuled(f) ==
  /\ \/ pc[f] = "remember" /\ Resume(f, "fetch")
     \/ pc[f] = "bar" /\ Resume(f, "denied")
  /\ UNCHANGED <<fetching, approver, wants, setting>>

Fetch(f) ==
  /\ pc[f] = "fetch"
  /\ reached' = [reached EXCEPT ![f] = {url[f]}]
  /\ Goto(f, "follow")
  /\ UNCHANGED <<url, barred, approver, wants, setting, store>>

(* The response is returned: what it went through is of no more use.       *)
Answer(f, label) ==
  /\ Goto(f, label)
  /\ reached' = [reached EXCEPT ![f] = {}]
  /\ barred' = [barred EXCEPT ![f] = {}]

(* A redirect: to a page of the same host, or to a host the rules allow.   *)
regateRedirect(f, hop) == Host[hop] = Host[url[f]] \/ Decide(hop) = "allow"

Redirect(f, hop) ==
  /\ pc[f] = "follow"
  /\ hop \notin reached[f]
  /\ Cardinality(reached[f]) < MaxHops
  /\ IF regateRedirect(f, hop)
       THEN /\ reached' = [reached EXCEPT ![f] = @ \cup {hop}]
            /\ UNCHANGED <<pc, barred>>
       ELSE Answer(f, "failed")
  /\ UNCHANGED <<url, approver, wants, setting, store>>

FetchEnds(f) ==
  /\ pc[f] = "follow"
  /\ Answer(f, "done") \/ Answer(f, "failed")
  /\ UNCHANGED <<url, approver, wants, setting, store>>

FetchStep(f) ==
  \/ Judge(f) \/ Held(f) \/ FetchAsk(f) \/ FetchRuled(f) \/ Fetch(f) \/ FetchEnds(f)
  \/ \E choice \in Choices : FetchAnswered(f, choice)
  \/ \E hop \in URLs : Redirect(f, hop)

-----------------------------------------------------------------------------
(* approve, deny, egress rules forget                                      *)

(* The operator settles a held fetch by the id its question named; approve *)
(* --remember takes a glob, otherwise the rule covers the host.            *)
Settle(c, f, kind, pattern) ==
  /\ c \in cast /\ pc[c] = "idle"
  /\ pc[f] = "held"
  /\ pattern = HostGlob[url[f]] \/ (kind = "allow" /\ pattern \in Custom)
  /\ wants' = [wants EXCEPT ![c] = <<f, kind, pattern>>]
  /\ Goto(c, "remove")
  /\ Invoke(c, "pending", "remove", <<f, url[f]>>)
  /\ UNCHANGED <<fetching, approver, setting>>

(* The entry is gone from the queue before its rule is written.            *)
SettleRule(c) ==
  /\ pc[c] = "remove"
  /\ Returned(c)
  /\ IF outcome[c] = "ok"
       THEN Goto(c, "settle") /\ Invoke(c, "approvals", "add", <<wants[c][2], wants[c][3]>>)
       ELSE Goto(c, "failed") /\ Consume(c)
  /\ UNCHANGED <<fetching, approver, wants, setting>>

(* A rule is forgotten if it was on file when the command looked.          *)
Forget(c, rule) ==
  /\ c \in cast /\ pc[c] = "idle"
  /\ legible["approvals"]
  /\ rule \in files["approvals"]
  /\ Goto(c, "forget")
  /\ Invoke(c, "approvals", "remove", rule)
  /\ UNCHANGED <<fetching, approver, wants, setting>>

CommandEnds(c) ==
  /\ pc[c] \in {"settle", "forget"}
  /\ Resume(c, IF outcome[c] = "ok" THEN "done" ELSE "failed")
  /\ UNCHANGED <<fetching, approver, wants, setting>>

Kill(c) ==
  /\ pc[c] \in {"remove", "settle", "forget"}
  /\ faults < MaxFaults
  /\ faults' = faults + 1
  /\ Goto(c, "killed")
  /\ Abandon(c)
  /\ UNCHANGED <<fetching, approver, wants, setting>>

CommandStep(c) == SettleRule(c) \/ CommandEnds(c)

-----------------------------------------------------------------------------
(* Steps of the store keep the history: a rule bars as long as it stands.  *)

Standing(rules) == {p \in rules : <<"deny", p>> \in files'["approvals"]}

StoreStep(c) ==
  /\ StoreCall(c)
  /\ barred' = [f \in Fetches |-> Standing(barred[f])]
  /\ UNCHANGED <<setting, pc, approver, url, reached, wants>>

=============================================================================
