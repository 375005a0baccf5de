----------------------------- MODULE EgressProxy ----------------------------
(***************************************************************************)
(* The egress proxy of one serve cycle, internal/cli/egress_proxy.go and   *)
(* internal/proxy/proxy.go, beside the fetches, gated workers and commands *)
(* of Egress with which it shares the rules and the operator's prompt.     *)
(*                                                                         *)
(* A connection is judged once, when it asks for its host, under the lock  *)
(* of the policy; each request on it is checked again, against the deny    *)
(* rules and against the artifacts of denied packages.                     *)
(***************************************************************************)
EXTENDS Egress

CONSTANTS
  Conns,          \* connections of the sandbox to the proxy
  Root,           \* Root[h]: the URL a CONNECT to host h is judged by
  Rewrite,        \* Rewrite[u]: u after the rewrite table
  ConfigAllowed,  \* hosts of allowed_domains
  Passthrough,    \* hosts tunneled without interception
  Artifacts,      \* Artifacts[i]: the URLs package index i lists
  IndexOf,        \* IndexOf[p]: the package index glob p denies, or Nobody
  MaxRequests,    \* bound: requests on one connection
  Standings       \* Standings[who]: approvals the agents in who may start with

Hosts   == DOMAIN Root
Indexes == DOMAIN Artifacts

ASSUME ProxyAssumption ==
  /\ Conns \subseteq Clients /\ Conns \cap (Fetches \cup Commands) = {}
  /\ Root \in [Hosts -> URLs]
  /\ Host \in [URLs -> Hosts]
  /\ Rewrite \in [URLs -> URLs]
  /\ Indexes \subseteq URLs
  /\ Artifacts \in [Indexes -> SUBSET URLs]
  /\ Nobody \notin Indexes
  /\ Standings \in [Casts -> SUBSET SUBSET ({"allow", "deny"} \X Patterns)]

VARIABLES
  ppMu,             \* proxyPolicy.mu: the connection that holds it
  cache,            \* cache[h]: the verdict on host h, "none" before the first
  target,           \* target[k]: the host connection k asked for
  req,              \* req[k]: its current request
  served,           \* served[k]: how many requests it has made
  learned,          \* learned[u]: the index last fetched that lists artifact u
  deniedArtifacts,  \* artifacts of packages denied when the cycle began
  seeding,          \* indexes still to be resolved for them
  delivered,        \* URLs whose body reached the sandbox (history)
  asks,             \* asks[h]: prompts shown for connections to h (history)
  rebarred          \* rebarred[k]: rules against req[k] since it began (history)

policy    == <<ppMu, cache, learned, deniedArtifacts, seeding>>
traffic   == <<target, req, served, delivered, asks, rebarred>>
proxyVars == <<policy, traffic>>
vars      == <<store, egress, proxyVars>>

Init ==
  /\ StoreInit
  /\ EgressInit
  /\ \E approvals \in Standings[cast] :
       files = [f \in Files |-> IF f = "approvals" THEN approvals ELSE {}]
  /\ ppMu = Nobody
  /\ cache = [h \in Hosts |-> "none"]
  /\ target = [k \in Conns |-> Nobody]
  /\ req = [k \in Conns |-> Nobody]
  /\ served = [k \in Conns |-> 0]
  /\ learned = [u \in URLs |-> Nobody]
  /\ deniedArtifacts = {}
  /\ seeding = {IndexOf[p] : p \in {q \in Patterns : <<"deny", q>> \in files["approvals"]}} \ {Nobody}
  /\ delivered = {}
  /\ asks = [h \in Hosts |-> 0]
  /\ rebarred = [k \in Conns |-> {}]

-----------------------------------------------------------------------------
(* decide: one verdict per host, under the lock                            *)

PolicyFree == ppMu = Nobody

(* Mutant: the lock is kept.                                               *)
RelinquishedNot(k) == k

(* What the lock holds after a verdict.                                    *)
Relinquished(k) == Nobody

Arrive(k, h) ==
  /\ k \in cast /\ pc[k] = "idle"
  /\ target' = [target EXCEPT ![k] = h]
  /\ Goto(k, "connect")
  /\ UNCHANGED <<store, setting, approver, fetching, wants, policy,
                 req, served, delivered, asks, rebarred>>

Admitted(k, verdict) == Goto(k, IF verdict = "allow" THEN "open" ELSE "refused")

(* Mutant: only an allowing verdict is looked up.                          *)
CachedAllow(h) == IF cache[h] = "allow" THEN "allow" ELSE "none"

(* The verdict on h, "none" before the first.                              *)
Cached(h) == cache[h]

Recall(k) ==
  /\ pc[k] = "connect"
  /\ PolicyFree
  /\ IF target[k] \in Passthrough
       THEN Goto(k, "closed")
       ELSE Cached(target[k]) # "none" /\ Admitted(k, Cached(target[k]))
  /\ UNCHANGED <<store, setting, approver, fetching, wants, proxyVars>>

Evaluate(k) ==
  /\ pc[k] = "connect"
  /\ PolicyFree
  /\ target[k] \notin Passthrough
  /\ Cached(target[k]) = "none"
  /\ ppMu' = k
  /\ Goto(k, "screen")
  /\ UNCHANGED <<store, setting, approver, fetching, wants,
                 cache, learned, deniedArtifacts, seeding, traffic>>

Resolved(k) == Rewrite[Root[target[k]]]

Verdict(k, verdict) ==
  /\ cache' = [cache EXCEPT ![target[k]] = verdict]
  /\ ppMu' = Relinquished(k)
  /\ Admitted(k, verdict)
  /\ UNCHANGED <<learned, deniedArtifacts, seeding>>

(* The deny rules are read first, then again with the rest of the rules.   *)
Screen(k) ==
  /\ pc[k] = "screen"
  /\ \/ StoreDenied(Resolved(k)) /\ Verdict(k, "deny")
     \/ /\ ~StoreDenied(Resolved(k)) /\ Host[Resolved(k)] \in ConfigAllowed
        /\ Verdict(k, "allow")
     \/ /\ ~StoreDenied(Resolved(k)) /\ Host[Resolved(k)] \notin ConfigAllowed
        /\ Goto(k, "weigh") /\ UNCHANGED policy
  /\ UNCHANGED <<store, setting, approver, fetching, wants, traffic>>

(* Without an operator a held connection is refused: it cannot wait.       *)
Weigh(k) ==
  /\ pc[k] = "weigh"
  /\ \/ Decide(Resolved(k)) = "hold" /\ supervised /\ Goto(k, "queue") /\ UNCHANGED policy
     \/ Decide(Resolved(k)) = "hold" /\ ~supervised /\ Verdict(k, "deny")
     \/ Decide(Resolved(k)) # "hold" /\ Verdict(k, Decide(Resolved(k)))
  /\ UNCHANGED <<store, setting, approver, fetching, wants, traffic>>

ProxyAsk(k) ==
  /\ pc[k] = "queue"
  /\ Present(k)
  /\ asks' = [asks EXCEPT ![target[k]] = @ + 1]
  /\ UNCHANGED <<store, setting, fetching, wants, policy,
                 target, req, served, delivered, rebarred>>

ProxyAnswered(k, choice) ==
  /\ Answered(k)
  /\ CASE choice = "approve" -> Verdict(k, "allow") /\ UNCHANGED store
       [] choice = "deny" -> Verdict(k, "deny") /\ UNCHANGED store
       [] choice = "approveAll" ->
            /\ Goto(k, "remember") /\ UNCHANGED policy
            /\ Invoke(k, "approvals", "add", <<"allow", HostGlob[Resolved(k)]>>)
       [] choice = "denyAll" ->
            /\ Goto(k, "bar") /\ UNCHANGED policy
            /\ Invoke(k, "approvals", "add", <<"deny", HostGlob[Resolved(k)]>>)
  /\ UNCHANGED <<setting, allowAll, denyAll, fetching, wants, traffic>>

ProxyRuled(k) ==
  /\ Returned(k)
  /\ Consume(k)
  /\ \/ pc[k] = "remember" /\ Verdict(k, "allow")
     \/ pc[k] = "bar" /\ Verdict(k, "deny")
  /\ UNCHANGED <<setting, approver, fetching, wants, traffic>>

-----------------------------------------------------------------------------
(* forward: each request on an admitted connection                         *)

(* Rules that deny u, or a package whose index, fetched in this cycle,     *)
(* lists u.                                                                *)
Against(u) ==
  Denying(u) \cup
    UNION {Denying(i) : i \in {j \in Indexes \cap delivered : u \in Artifacts[j]}}

Request(k, u) ==
  /\ pc[k] = "open"
  /\ Host[u] = target[k]
  /\ served[k] < MaxRequests
  /\ served' = [served EXCEPT ![k] = @ + 1]
  /\ req' = [req EXCEPT ![k] = u]
  /\ rebarred' = [rebarred EXCEPT ![k] = Against(u)]
  /\ Goto(k, "path")
  /\ UNCHANGED <<store, setting, approver, fetching, wants, policy, target, delivered, asks>>

(* The request is answered; a refused one leaves the connection open.      *)
Respond(k, label) ==
  /\ Goto(k, label)
  /\ req' = [req EXCEPT ![k] = Nobody]
  /\ rebarred' = [rebarred EXCEPT ![k] = {}]

Proceed(k, label) == Goto(k, label) /\ UNCHANGED <<req, rebarred>>

PathDeny(k) ==
  /\ pc[k] = "path"
  /\ IF StoreDenied(req[k]) THEN Respond(k, "open") ELSE Proceed(k, "artifact")
  /\ UNCHANGED <<store, setting, approver, fetching, wants, policy, target, served, delivered, asks>>

artifactDenied(u) ==
  \/ u \in deniedArtifacts
  \/ learned[u] # Nobody /\ StoreDenied(learned[u])

ArtifactDeny(k) ==
  /\ pc[k] = "artifact"
  /\ PolicyFree
  /\ IF artifactDenied(req[k]) THEN Respond(k, "open") ELSE Proceed(k, "forward")
  /\ UNCHANGED <<store, setting, approver, fetching, wants, policy, target, served, delivered, asks>>

(* Mutant: an index of unknown length is passed on unread.                 *)
AfterResponseUnread(u) == "deliver"

(* What follows a response: an index is learned before it is passed on.    *)
AfterResponse(u) == IF u \in Indexes THEN "observe" ELSE "deliver"

Forward(k) ==
  /\ pc[k] = "forward"
  /\ Proceed(k, AfterResponse(req[k])) \/ Respond(k, "closed")
  /\ UNCHANGED <<store, setting, approver, fetching, wants, policy, target, served, delivered, asks>>

recordIndex(k) ==
  /\ pc[k] = "observe"
  /\ PolicyFree
  /\ learned' = [u \in URLs |-> IF u \in Artifacts[req[k]] THEN req[k] ELSE learned[u]]
  /\ Goto(k, "deliver")
  /\ UNCHANGED <<store, setting, approver, fetching, wants,
                 ppMu, cache, deniedArtifacts, seeding, traffic>>

Deliver(k) ==
  /\ pc[k] = "deliver"
  /\ delivered' = delivered \cup {req[k]}
  /\ Respond(k, "open")
  /\ UNCHANGED <<store, setting, approver, fetching, wants, policy, target, served, asks>>

Hangup(k) ==
  /\ pc[k] = "open"
  /\ Goto(k, "closed")
  /\ UNCHANGED <<store, setting, approver, fetching, wants, proxyVars>>

(* The artifacts of a package denied when the cycle began, if its index    *)
(* can be fetched.                                                         *)
seedDeniedArtifacts(i) ==
  /\ i \in seeding
  /\ seeding' = seeding \ {i}
  /\ \/ PolicyFree /\ deniedArtifacts' = deniedArtifacts \cup Artifacts[i]
     \/ UNCHANGED deniedArtifacts
  /\ UNCHANGED <<store, egress, ppMu, cache, learned, traffic>>

ConnStep(k) ==
  \/ Recall(k) \/ Evaluate(k) \/ Screen(k) \/ Weigh(k) \/ ProxyAsk(k) \/ ProxyRuled(k)
  \/ PathDeny(k) \/ ArtifactDeny(k) \/ Forward(k) \/ recordIndex(k) \/ Deliver(k) \/ Hangup(k)
  \/ \E choice \in Choices : ProxyAnswered(k, choice)

-----------------------------------------------------------------------------
ProxyStore(c) ==
  /\ StoreStep(c)
  /\ rebarred' = [k \in Conns |-> Standing(rebarred[k])]
  /\ UNCHANGED <<policy, target, req, served, delivered, asks>>

HandEdit == \E f \in Files : (Break(f) \/ Mend(f)) /\ UNCHANGED <<egress, proxyVars>>

FetchNext(f) == (FetchStep(f) \/ \E u \in URLs : Submit(f, u)) /\ UNCHANGED proxyVars

GatedNext(g) == GatedStep(g) /\ UNCHANGED proxyVars

CommandNext(c) ==
  /\ \/ CommandStep(c) \/ Kill(c)
     \/ \E f \in Fetches, kind \in {"allow", "deny"}, p \in Patterns : Settle(c, f, kind, p)
     \/ \E rule \in {"allow", "deny"} \X Patterns : Forget(c, rule)
  /\ UNCHANGED proxyVars

ConnNext(k) ==
  \/ ConnStep(k)
  \/ \E h \in Hosts : Arrive(k, h)
  \/ \E u \in URLs : Request(k, u)

(* Everybody has been answered: the cycle goes on with nothing to do.      *)
Ends == {"done", "failed", "held", "denied", "granted", "refused", "killed", "closed"}

Quiet ==
  /\ \A a \in cast : pc[a] \in Ends \/ (a \in Commands /\ pc[a] = "idle")
  /\ UNCHANGED vars

Next ==
  \/ \E f \in Fetches : FetchNext(f)
  \/ \E g \in Gated : GatedNext(g)
  \/ \E c \in Commands : CommandNext(c)
  \/ \E k \in Conns : ConnNext(k)
  \/ \E c \in Clients : ProxyStore(c)
  \/ \E i \in Indexes : seedDeniedArtifacts(i)
  \/ HandEdit
  \/ Quiet

(* Goroutines and processes are scheduled, the operator answers a prompt,  *)
(* and an idle connection runs into its read deadline.                     *)
Fairness ==
  /\ \A c \in Clients : WF_vars(ProxyStore(c))
  /\ \A f \in Fetches : WF_vars(FetchStep(f) /\ UNCHANGED proxyVars)
  /\ \A g \in Gated : WF_vars(GatedNext(g))
  /\ \A c \in Commands : WF_vars(CommandStep(c) /\ UNCHANGED proxyVars)
  /\ \A k \in Conns : WF_vars(ConnStep(k))

Spec == Init /\ [][Next]_vars

FairSpec == Spec /\ Fairness

-----------------------------------------------------------------------------
(* Properties                                                              *)

TypeOK ==
  /\ files \in [Files -> SUBSET (({"allow", "deny"} \X Patterns) \cup (Fetches \X URLs))]
  /\ legible \in [Files -> BOOLEAN]
  /\ holder \in [Files -> Clients \cup {Nobody}]
  /\ step \in [Clients -> Steps]
  /\ outcome \in [Clients -> Outcomes]
  /\ faults \in 0..MaxFaults
  /\ pc \in [Agents -> Labels]
  /\ promptMu \in Agents \cup {Nobody}
  /\ allowAll \subseteq Verbs /\ denyAll \subseteq Verbs
  /\ url \in [Fetches -> URLs \cup {Nobody}]
  /\ reached \in [Fetches -> SUBSET URLs]
  /\ ppMu \in Conns \cup {Nobody}
  /\ cache \in [Hosts -> {"none", "allow", "deny"}]
  /\ req \in [Conns -> URLs \cup {Nobody}]
  /\ learned \in [URLs -> Indexes \cup {Nobody}] /\ deniedArtifacts \subseteq URLs

(* No rule and no held fetch disappears but by a command that removes it:  *)
(* two writers never overwrite each other's entry, and a file that does    *)
(* not parse is never written over as if it were empty.                    *)
NothingForgotten ==
  [][\A f \in Files : \A e \in files[f] \ files'[f] :
       \E c \in Commands : call[c] = <<f, "remove", e>> /\ step[c] = "write"]_vars

RuleEntries == ({"allow", "deny"} \X Patterns) \cup (Fetches \X URLs)

Stage == [c \in Clients |->
  IF step[c] \in {"lock", "load"} THEN "open" ELSE IF step[c] = "write" THEN "parsed" ELSE step[c]]

Atomic == INSTANCE AtomicStore WITH Entries <- RuleEntries, stage <- Stage

(* However the calls of handlers, connections and commands interleave, and *)
(* fail, and die, each takes effect at once, or not at all: the lock on a  *)
(* file makes a read-modify-write of a copy (egress/store.go) an update of *)
(* what is there.                                                          *)
StoreRefines == Atomic!Spec

(* The queue of held fetches has one entry per URL, however many handlers  *)
(* find it missing at once.                                                *)
HeldOnce == \A d, e \in files["pending"] : d[2] = e[2] => d = e

(* A rule that denies a fetch from its start to its verdict keeps it from  *)
(* the network, whatever allow rules and prompts there are.                *)
DenySticks == \A f \in Fetches : reached[f] # {} => barred[f] = {}

(* One prompt is outstanding at a time, of the gate, of web.fetch and of   *)
(* the proxy together: the console shows a single modal.                   *)
OnePrompt == \A a, b \in Agents : pc[a] = "asking" /\ pc[b] = "asking" => a = b

(* Once the operator has decided a verb for the session no worker prompts  *)
(* for it, not even one that was queued behind that very prompt.           *)
VerbAskedUntilDecided ==
  [][\A g \in Gated : pc[g] # "asking" /\ pc'[g] = "asking" =>
       Verb[g] \notin allowAll \cup denyAll]_vars

(* The operator is prompted at most once for a host the sandbox connects   *)
(* to, however many connections ask for it at once, whatever the answer.   *)
HostAskedOnce == \A h \in Hosts : asks[h] <= 1

(* A request is forwarded only if no deny rule has stood against it, or    *)
(* against the package whose index led the sandbox to it, since it began,  *)
(* when no two indexes list one artifact.                                  *)
PackageDenied == \A k \in Conns : pc[k] = "forward" => rebarred[k] = {}

(* Every fetch, gated request, connection and command gets its answer,     *)
(* through the prompt, the policy's lock and the locks on the files.       *)
Served == \A a \in Agents : pc[a] # "idle" ~> pc[a] \in Ends \cup {"open"}

=============================================================================
