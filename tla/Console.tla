------------------------------ MODULE Console ------------------------------
(***************************************************************************)
(* The console of one sandbox: the screen (src/internal/tui/console.go),   *)
(* the worker behind it that serves and reconnects (cli/worker.go,         *)
(* supervise.go), the prompts of its approver (cli/approver.go) and the    *)
(* actions the operator starts from a form (cli/console.go), of which      *)
(* bootstrap runs a second dispatcher (cli/bootstrap.go) on the maildir    *)
(* the first one serves (protocol/dispatch.go).                            *)
(*                                                                         *)
(* Everything reaches the screen over one bounded channel: a prompt waits  *)
(* for room in it, any other message is dropped when it is full.           *)
(*                                                                         *)
(* Left out: the panes and their lines, the spinner, the progress meters   *)
(* and the heartbeat they take no decision from, the resource keys and the *)
(* redelivery of requests (Dispatch), the operator's egress panel (Egress).*)
(***************************************************************************)
EXTENDS Naturals, Sequences, FiniteSets

CONSTANTS
  Requests,   \* the agent's requests, of one type the gate asks about
  Pings,      \* the synthetic requests of bootstrap's smoke test, one a run
  Serve,      \* the dispatcher of the serve cycle
  Smoke,      \* the dispatcher of the smoke test
  Fetch,      \* a connection of the egress proxy that asks for approval
  Dial,       \* a reconnect that asks for a password
  Nobody,
  Pool,       \* the workers of the serve cycle's dispatcher
  Cap,        \* the room in the channel to the screen
  Casts       \* bounds: what may happen in a behaviour, see Init

Dispatchers == {Serve, Smoke}
Names == Requests \cup Pings
Askers == Requests \cup {Fetch, Dial}

ASSUME RoomAssumption == Cap \in Nat \ {0} /\ Pool \in Nat \ {0}
ASSUME DistinctAssumption ==
  /\ Serve # Smoke /\ Fetch # Dial
  /\ Requests \cap (Pings \cup {Fetch, Dial}) = {}
  /\ Nobody \notin Names

VARIABLES
  ready,     \* the sandbox has its tree, with skill/NANA.md in it
  mail,      \* where a request is: "unsent", in outbox "new" or "cur", "gone"
  answered,  \* the requests with a response in the inbox
  session,   \* the number of the current session, and whether its link is up
  phase,     \* what a dispatcher, or the cycle around it, is doing
  pass,      \* the names of its last listing it has still to look at
  again,     \* its drain submitted something in this pass
  job,       \* the stage of a request in a dispatcher
  verdict,   \* what the approver of the cycle remembers: "ask", "allow", "deny"
  ask,       \* an asker: "no", "queued" for the prompt lock, "sending", "asking"
  old,       \* the proxied connection belongs to a cycle that has ended
  op,        \* the operator's action
  nudge,     \* the channel that wakes a parked worker holds a nudge
  events,    \* the channel to the screen
  modals,    \* the screen: its approval prompts, oldest first,
  pwReqs,    \*   its password prompts,
  form,      \*   the form that is open, or "",
  running,   \*   the label of the action under way, or "",
  shown,     \*   the requests in the serving banner,
  header,    \*   the link state it shows
  quit,      \* the program has returned and the worker's context is cancelled
  left,      \* the cast: whether the sandbox is bootstrapped, what the agent
             \*   asks, the actions to start, and how many drops, passwords,
             \*   proxied connections and quits are still to come
  unsaid,    \* history: the requests whose end was never announced
  stale      \* history: the last link state was never announced

mailVars == <<ready, mail, answered>>
workVars == <<phase, pass, again, job>>
promptVars == <<verdict, ask, old>>
screenVars == <<modals, pwReqs, form, running, shown, header>>
historyVars == <<unsaid, stale>>
vars == <<mailVars, session, workVars, promptVars, op, nudge, events, screenVars,
          quit, left, historyVars>>

Kinds == {"install", "agent", "bootstrap", "reset"}
Provisions == {"bootstrap", "reset"}

NoAction == [kind |-> "none", pc |-> "idle", session |-> 0, ping |-> Nobody, round |-> 0]

Init ==
  /\ mail = [n \in Names |-> "unsent"] /\ answered = {}
  /\ session = [n |-> 1, up |-> TRUE]
  /\ phase = [d \in Dispatchers |-> IF d = Serve THEN "checking" ELSE "off"]
  /\ pass = [d \in Dispatchers |-> {}] /\ again = [d \in Dispatchers |-> FALSE]
  /\ job = [d \in Dispatchers |-> [n \in Names |-> "no"]]
  /\ verdict = "ask" /\ ask = [a \in Askers |-> "no"] /\ old = FALSE
  /\ op = NoAction /\ nudge = FALSE
  /\ events = <<>>
  /\ modals = <<>> /\ pwReqs = <<>> /\ form = "" /\ running = ""
  /\ shown = {} /\ header = "up"
  /\ quit = FALSE
  /\ left \in Casts /\ ready = left.ready
  /\ unsaid = {} /\ stale = FALSE

Use(what) == left[what] > 0 /\ left' = [left EXCEPT ![what] = @ - 1]

(***************************************************************************)
(* The channel. Offer is the select with a default branch.                 *)
(***************************************************************************)
Message(what, of) == [what |-> what, of |-> of]
Room == Len(events) < Cap
Offer(m) == events' = IF Room THEN Append(events, m) ELSE events

Announce(state) == Offer(Message(state, Nobody)) /\ stale' = ~Room

\* A session works while it is the current one and its link is up.
Live(n) == session.up /\ n = session.n
Works(d) == Live(IF d = Serve THEN session.n ELSE op.session)
Idle(d) == \A n \in Names : job[d][n] = "no"
Busy(d) == {n \in Names : job[d][n] # "no"}

Go(d, to) == phase' = [phase EXCEPT ![d] = to]
\* A transport error ends the serve cycle, or fails the smoke test.
Fail(d) == Go(d, IF d = Serve THEN "ending" ELSE "failed")
Set(d, n, to) == job' = [job EXCEPT ![d][n] = to]

(***************************************************************************)
(* A dispatcher on the maildir. It is at most once in each phase: recover  *)
(* services what is in cur one by one, a drain hands what is in new to its *)
(* workers. The smoke test's has one worker, no gate and no observers.     *)
(***************************************************************************)
Workers(d) == IF d = Serve THEN Pool ELSE 1

ListCur(d) ==
  /\ phase[d] = "list cur"
  /\ IF Works(d) /\ ready
     THEN Go(d, "recover") /\ pass' = [pass EXCEPT ![d] = {n \in Names : mail[n] = "cur"}]
     ELSE Fail(d) /\ UNCHANGED pass
  /\ UNCHANGED <<mailVars, session, again, job, promptVars, op, nudge, events, screenVars,
                 quit, left, historyVars>>

\* The handler of n starts. Only the serve cycle announces it and asks.
Begin(d, n) ==
  /\ Set(d, n, IF d = Serve /\ n \in Requests THEN "gate" ELSE "running")
  /\ IF d = Serve
     THEN Offer(Message("started", n)) /\ unsaid' = unsaid \ {n}
     ELSE UNCHANGED <<events, unsaid>>

RecoverOne(d, n) ==
  /\ phase[d] = "recover" /\ Idle(d) /\ n \in pass[d]
  /\ pass' = [pass EXCEPT ![d] = @ \ {n}]
  /\ \/ /\ Works(d) /\ ready /\ n \in answered
        /\ UNCHANGED <<phase, job, events, unsaid>>
     \/ /\ Works(d) /\ ready /\ n \notin answered /\ mail[n] = "cur"
        /\ Begin(d, n)
        /\ UNCHANGED phase
     \/ /\ ~(Works(d) /\ ready /\ (n \in answered \/ mail[n] = "cur"))
        /\ Fail(d)
        /\ UNCHANGED <<job, events, unsaid>>
  /\ UNCHANGED <<mailVars, session, again, promptVars, op, nudge, screenVars, quit, left,
                 stale>>

\* The next listing of new, once the last one is worked off. Serve lists on a
\* ticker; here, when there is something to find.
ListNew(d) ==
  LET new == {n \in Names : mail[n] = "new"} IN
  /\ pass[d] = {}
  /\ \/ phase[d] = "recover" /\ Idle(d)
     \/ /\ phase[d] = "drain"
        /\ d = Serve => new \ Busy(d) # {} \/ ~(Works(d) /\ ready)
        /\ d = Smoke => Idle(d) /\ again[d]
  /\ again' = [again EXCEPT ![d] = FALSE]
  /\ IF Works(d) /\ ready
     THEN Go(d, "drain") /\ pass' = [pass EXCEPT ![d] = new]
     ELSE Fail(d) /\ UNCHANGED pass
  /\ UNCHANGED <<mailVars, session, job, promptVars, op, nudge, events, screenVars, quit,
                 left, historyVars>>

\* One name of the listing. A name that has left new by now is an error.
DrainOne(d, n) ==
  /\ phase[d] = "drain" /\ n \in pass[d]
  /\ pass' = [pass EXCEPT ![d] = @ \ {n}]
  /\ \/ /\ job[d][n] # "no"
        /\ UNCHANGED <<phase, again, job, mail, events, unsaid>>
     \/ /\ job[d][n] = "no" /\ Works(d) /\ ready /\ mail[n] = "new"
        /\ mail' = [mail EXCEPT ![n] = "cur"]
        /\ IF n \in answered
           THEN UNCHANGED <<again, job, events, unsaid>>
           ELSE /\ Cardinality(Busy(d)) < Workers(d)
                /\ Begin(d, n)
                /\ again' = [again EXCEPT ![d] = TRUE]
        /\ UNCHANGED phase
     \/ /\ job[d][n] = "no" /\ ~(Works(d) /\ ready /\ mail[n] = "new")
        /\ Fail(d)
        /\ UNCHANGED <<again, job, mail, events, unsaid>>
  /\ UNCHANGED <<ready, answered, session, promptVars, op, nudge, screenVars, quit, left,
                 stale>>

\* RunOnce repeats until a pass submits nothing and its worker is done.
RanOnce ==
  /\ phase[Smoke] = "drain" /\ pass[Smoke] = {} /\ Idle(Smoke) /\ ~again[Smoke]
  /\ Go(Smoke, "done")
  /\ UNCHANGED <<mailVars, session, pass, again, job, promptVars, op, nudge, events,
                 screenVars, quit, left, historyVars>>

\* The handler, or the refusal, becomes a response; the observer tells the
\* screen, which counts a denied request apart from a serviced one.
Deliver(d, n) ==
  /\ job[d][n] \in {"running", "denied"}
  /\ Set(d, n, "no")
  /\ \/ /\ Works(d) /\ ready
        /\ answered' = answered \cup {n}
        /\ IF d = Serve
           THEN /\ Offer(Message(IF job[d][n] = "denied" THEN "clear" ELSE "serviced", n))
                /\ unsaid' = IF Room THEN unsaid ELSE unsaid \cup {n}
           ELSE UNCHANGED <<events, unsaid>>
        /\ UNCHANGED phase
     \/ /\ ~(Works(d) /\ ready) \/ phase[d] = "ending"
        /\ Fail(d)
        /\ unsaid' = IF d = Serve THEN unsaid \cup {n} ELSE unsaid
        /\ UNCHANGED <<answered, events>>
  /\ UNCHANGED <<ready, mail, session, pass, again, promptVars, op, nudge, screenVars, quit,
                 left, stale>>

(***************************************************************************)
(* The approver of the serve cycle. One lock serializes its prompts; what  *)
(* it remembers is looked at before and again under the lock.              *)
(***************************************************************************)
\* The asker a holds the lock of the current cycle's approver.
Prompting(a) == ask[a] \in {"sending", "asking"} /\ ~(a = Fetch /\ old)
LockFree(a) == (a = Fetch /\ old) \/ \A b \in Requests \cup {Fetch} : ~Prompting(b)

Settle(r, allowed) == Set(Serve, r, IF allowed THEN "running" ELSE "denied")

Gate(r) ==
  /\ job[Serve][r] = "gate" /\ ask[r] = "no"
  /\ IF verdict = "ask"
     THEN ask' = [ask EXCEPT ![r] = "queued"] /\ UNCHANGED job
     ELSE /\ Settle(r, verdict = "allow")
          /\ UNCHANGED ask
  /\ UNCHANGED <<mailVars, session, phase, pass, again, verdict, old, op, nudge, events,
                 screenVars, quit, left, unsaid, stale>>

Lock(a) ==
  /\ ask[a] = "queued" /\ LockFree(a)
  /\ IF a \in Requests /\ verdict # "ask"
     THEN /\ ask' = [ask EXCEPT ![a] = "no"]
          /\ Settle(a, verdict = "allow")
     ELSE ask' = [ask EXCEPT ![a] = "sending"] /\ UNCHANGED job
  /\ UNCHANGED <<mailVars, session, phase, pass, again, verdict, old, op, nudge, events,
                 screenVars, quit, left, unsaid, stale>>

\* Mutant: the prompt is offered as any other message, and its answer awaited.
PromptOffered(a) ==
  /\ ask[a] = "sending" /\ ~quit
  /\ Offer(Message("prompt", a))
  /\ ask' = [ask EXCEPT ![a] = "asking"]
  /\ UNCHANGED <<mailVars, session, workVars, verdict, old, op, nudge, screenVars, quit, left,
                 historyVars>>

\* The blocking send of a prompt.
Prompt(a) ==
  /\ ask[a] = "sending" /\ Room /\ ~quit
  /\ events' = Append(events, Message("prompt", a))
  /\ ask' = [ask EXCEPT ![a] = "asking"]
  /\ UNCHANGED <<mailVars, session, workVars, verdict, old, op, nudge, screenVars, quit, left,
                 historyVars>>

\* The context ends first: an approval fails safe, a dial is given up.
Abandon(a) ==
  /\ ask[a] \in {"sending", "asking"} /\ quit
  /\ ask' = [ask EXCEPT ![a] = "no"]
  /\ IF a \in Requests THEN Settle(a, FALSE) ELSE UNCHANGED job
  /\ UNCHANGED <<mailVars, session, phase, pass, again, verdict, old, op, nudge, events,
                 screenVars, quit, left, historyVars>>

\* A tool in the sandbox asks for a host the policy does not know.
StartFetch ==
  /\ phase[Serve] \in {"recover", "drain"} /\ ask[Fetch] = "no"
  /\ Use("fetches")
  /\ ask' = [ask EXCEPT ![Fetch] = "queued"]
  /\ old' = FALSE
  /\ UNCHANGED <<mailVars, session, workVars, verdict, op, nudge, events, screenVars, quit,
                 historyVars>>

(***************************************************************************)
(* The worker's cycle.                                                     *)
(***************************************************************************)
\* A transport error is read as "not bootstrapped".
Check ==
  /\ phase[Serve] = "checking"
  /\ Go(Serve, IF Works(Serve) /\ ready THEN "list cur" ELSE "parked")
  /\ verdict' = "ask"
  /\ UNCHANGED <<mailVars, session, pass, again, job, ask, old, op, nudge, events, screenVars,
                 quit, left, historyVars>>

Unpark ==
  /\ phase[Serve] = "parked" /\ nudge
  /\ nudge' = FALSE
  /\ Go(Serve, "checking")
  /\ UNCHANGED <<mailVars, session, pass, again, job, promptVars, op, events, screenVars,
                 quit, left, historyVars>>

\* Serve waits for its handlers, those in a prompt included; what asks through
\* the proxy stays behind.
CycleEnds ==
  /\ phase[Serve] = "ending" /\ Idle(Serve)
  /\ old' = (ask[Fetch] # "no")
  /\ session' = [session EXCEPT !.up = FALSE]
  /\ IF quit
     THEN Go(Serve, "off") /\ UNCHANGED <<events, stale>>
     ELSE Go(Serve, "dialing") /\ Announce("down")
  /\ UNCHANGED <<mailVars, pass, again, job, verdict, ask, op, nudge, screenVars, quit, left,
                 unsaid>>

\* The server wants a password the cache does not have.
AskPassword ==
  /\ phase[Serve] = "dialing" /\ ask[Dial] = "no" /\ ~quit
  /\ Use("asks")
  /\ ask' = [ask EXCEPT ![Dial] = "sending"]
  /\ UNCHANGED <<mailVars, session, workVars, verdict, old, op, nudge, events, screenVars,
                 quit, historyVars>>

Connect ==
  /\ phase[Serve] = "dialing" /\ ask[Dial] = "no" /\ ~quit
  /\ session' = [n |-> session.n + 1, up |-> TRUE]
  /\ Go(Serve, "checking")
  /\ Announce("up")
  /\ UNCHANGED <<mailVars, pass, again, job, promptVars, op, nudge, screenVars, quit, left,
                 unsaid>>

\* The cancelled context ends the cycle wherever it waits.
Cancel ==
  /\ quit
  /\ \/ phase[Serve] \in {"list cur", "recover", "drain"} /\ Go(Serve, "ending")
     \/ /\ \/ phase[Serve] \in {"checking", "parked"}
           \/ phase[Serve] = "dialing" /\ ask[Dial] = "no"
        /\ Go(Serve, "off")
  /\ UNCHANGED <<mailVars, session, pass, again, job, promptVars, op, nudge, events,
                 screenVars, quit, left, historyVars>>

DropLink ==
  /\ session.up
  /\ Use("drops")
  /\ session' = [session EXCEPT !.up = FALSE]
  /\ UNCHANGED <<mailVars, workVars, promptVars, op, nudge, events, screenVars, quit,
                 historyVars>>

(***************************************************************************)
(* The operator's action, on its own goroutine. It reads the session when  *)
(* it starts; an install reads it again for each step.                     *)
(***************************************************************************)
Session == IF op.pc = "start" THEN session.n ELSE op.session
Step(to) == op' = [op EXCEPT !.pc = to, !.session = Session]

\* The runtime, located or installed; a system runtime needs no link.
Ensure ==
  /\ op.kind = "install" /\ op.pc = "start"
  /\ \E to \in {"packages", "done", "failed"} : Step(to)
  /\ UNCHANGED <<mailVars, session, workVars, promptVars, nudge, events, screenVars, quit,
                 left, historyVars>>

Packages ==
  /\ op.pc = "packages"
  /\ \/ session.up /\ Step("done")
     \/ Step("failed")
  /\ UNCHANGED <<mailVars, session, workVars, promptVars, nudge, events, screenVars, quit,
                 left, historyVars>>

InstallAgent ==
  /\ op.kind = "agent" /\ op.pc = "start"
  /\ \/ session.up /\ Step("done")
     \/ Step("failed")
  /\ UNCHANGED <<mailVars, session, workVars, promptVars, nudge, events, screenVars, quit,
                 left, historyVars>>

\* A reset removes the tree with every request and answer in it.
Wipe ==
  /\ op.kind = "reset" /\ op.pc = "start"
  /\ IF Live(Session)
     THEN /\ Step("provision")
          /\ ready' = FALSE
          /\ mail' = [n \in Names |-> IF mail[n] = "unsent" THEN "unsent" ELSE "gone"]
          /\ answered' = {}
     ELSE Step("failed") /\ UNCHANGED mailVars
  /\ UNCHANGED <<session, workVars, promptVars, nudge, events, screenVars, quit, left,
                 historyVars>>

\* The tree, NANA.md and the rest of what a sandbox needs.
Provision ==
  /\ \/ op.pc = "provision"
     \/ op.kind = "bootstrap" /\ op.pc = "start"
  /\ IF Live(Session)
     THEN Step("ping") /\ ready' = TRUE
     ELSE Step("failed") /\ UNCHANGED ready
  /\ UNCHANGED <<mail, answered, session, workVars, promptVars, nudge, events, screenVars,
                 quit, left, historyVars>>

\* The smoke test delivers a ping and runs a dispatcher of its own.
Ping ==
  /\ op.pc = "ping"
  /\ IF Live(op.session) /\ ready
     THEN \E p \in Pings :
            /\ mail[p] = "unsent"
            /\ mail' = [mail EXCEPT ![p] = "new"]
            /\ op' = [op EXCEPT !.pc = "smoke", !.ping = p, !.round = 1]
            /\ Go(Smoke, "list cur")
     ELSE Step("failed") /\ UNCHANGED <<mail, phase>>
  /\ UNCHANGED <<ready, answered, session, pass, again, job, promptVars, nudge, events,
                 screenVars, quit, left, historyVars>>

\* It reads the pong, collects it and runs once more to prune the pair.
ReadPong ==
  /\ op.pc = "smoke" /\ phase[Smoke] \in {"done", "failed"} /\ Idle(Smoke)
  /\ \/ /\ op.round = 1 /\ phase[Smoke] = "done" /\ Live(op.session) /\ op.ping \in answered
        /\ op' = [op EXCEPT !.round = 2]
        /\ mail' = [mail EXCEPT ![op.ping] = "gone"]
        /\ answered' = answered \ {op.ping}
        /\ Go(Smoke, "list cur")
     \/ /\ op.round = 1 /\ ~(phase[Smoke] = "done" /\ Live(op.session) /\ op.ping \in answered)
        /\ Step("failed") /\ Go(Smoke, "off")
        /\ UNCHANGED <<mail, answered>>
     \/ /\ op.round = 2
        /\ Step("done") /\ Go(Smoke, "off")
        /\ UNCHANGED <<mail, answered>>
  /\ UNCHANGED <<ready, session, pass, again, job, promptVars, nudge, events, screenVars, quit,
                 left, historyVars>>

\* Mutant: the worker is not told.
RecordSilent ==
  /\ op.pc \in {"done", "failed"}
  /\ Step("result")
  /\ Offer(Message("line", Nobody))
  /\ UNCHANGED <<mailVars, session, workVars, promptVars, nudge, screenVars, quit, left,
                 historyVars>>

\* Its line goes to the log and the screen; success wakes a parked worker.
Record ==
  /\ op.pc \in {"done", "failed"}
  /\ Step("result")
  /\ Offer(Message("line", Nobody))
  /\ nudge' = (nudge \/ (op.pc = "done" /\ op.kind \in Provisions))
  /\ UNCHANGED <<mailVars, session, workVars, promptVars, screenVars, quit, left, historyVars>>

(***************************************************************************)
(* The screen: one message or one key at a time.                           *)
(***************************************************************************)
\* Mutant: a denied request stays in the banner.
EndedServiced == {"serviced"}

Ended == {"serviced", "clear"}


Take ==
  LET m == Head(events) IN
  /\ events # <<>> /\ ~quit
  /\ events' = Tail(events)
  /\ modals' = IF m.what = "prompt" /\ m.of # Dial THEN Append(modals, m.of) ELSE modals
  /\ pwReqs' = IF m.what = "prompt" /\ m.of = Dial THEN Append(pwReqs, m.of) ELSE pwReqs
  /\ shown' = CASE m.what = "started" -> shown \cup {m.of}
                [] m.what \in Ended -> shown \ {m.of}
                [] OTHER -> shown
  /\ header' = IF m.what \in {"up", "down"} THEN m.what ELSE header
  /\ UNCHANGED <<mailVars, session, workVars, promptVars, op, nudge, form, running, quit,
                 left, historyVars>>

\* y, a, n and d answer the oldest approval, whatever form is under it.
Choices == [allow : BOOLEAN, all : BOOLEAN]

AnswerModal(c) ==
  LET a == Head(modals) IN
  /\ modals # <<>> /\ pwReqs = <<>> /\ ~quit
  /\ modals' = Tail(modals)
  /\ ask' = [ask EXCEPT ![a] = "no"]
  /\ IF a = Fetch
     THEN UNCHANGED <<job, verdict>>
     ELSE /\ Settle(a, c.allow)
          /\ verdict' = IF c.all THEN IF c.allow THEN "allow" ELSE "deny" ELSE verdict
  /\ UNCHANGED <<mailVars, session, phase, pass, again, old, op, nudge, events, pwReqs, form,
                 running, shown, header, quit, left, unsaid, stale>>

\* enter sends what was typed, esc an empty password, with which the dial fails.
AnswerPassword(accepted) ==
  /\ pwReqs # <<>> /\ ~quit
  /\ pwReqs' = Tail(pwReqs)
  /\ ask' = [ask EXCEPT ![Head(pwReqs)] = "no"]
  /\ IF accepted
     THEN /\ session' = [n |-> session.n + 1, up |-> TRUE]
          /\ Go(Serve, "checking")
          /\ Announce("up")
     ELSE UNCHANGED <<session, phase>> /\ Announce("down")
  /\ UNCHANGED <<mailVars, pass, again, job, verdict, old, op, nudge, modals, form, running,
                 shown, header, quit, left, unsaid>>

\* No prompt is up: the keys go to what has the form.
Free == modals = <<>> /\ pwReqs = <<>> /\ ~quit

\* One key opens a form; r in the bootstrap form is the reset.
Open(kind) ==
  /\ Free /\ form = "" /\ running = ""
  /\ kind \in left.actions
  /\ form' = kind
  /\ left' = [left EXCEPT !.actions = @ \ {kind}]
  /\ UNCHANGED <<mailVars, session, workVars, promptVars, op, nudge, events, modals, pwReqs,
                 running, shown, header, quit, historyVars>>

\* The form is completed and confirmed, or left with esc.
Submit ==
  /\ Free /\ form # ""
  /\ form' = ""
  /\ \/ /\ running' = form
        /\ op' = [NoAction EXCEPT !.kind = form, !.pc = "start"]
     \/ UNCHANGED <<running, op>>
  /\ UNCHANGED <<mailVars, session, workVars, promptVars, nudge, events, modals, pwReqs, shown,
                 header, quit, left, historyVars>>

\* The result of the action comes past the channel.
Result ==
  /\ op.pc = "result" /\ ~quit
  /\ op' = NoAction /\ running' = ""
  /\ UNCHANGED <<mailVars, session, workVars, promptVars, nudge, events, modals, pwReqs, form,
                 shown, header, quit, left, historyVars>>

\* q, while no form has the keys; then the worker is stopped.
Quit ==
  /\ Free /\ form = ""
  /\ Use("quits")
  /\ quit' = TRUE
  /\ session' = [session EXCEPT !.up = FALSE]
  /\ UNCHANGED <<mailVars, workVars, promptVars, op, nudge, events, screenVars,
                 historyVars>>

\* The agent's side of the maildir.
Send(r) ==
  /\ ready /\ r \in left.requests /\ mail[r] = "unsent"
  /\ mail' = [mail EXCEPT ![r] = "new"]
  /\ UNCHANGED <<ready, answered, session, workVars, promptVars, op, nudge, events, screenVars,
                 quit, left, historyVars>>

Dispatch ==
  \/ RanOnce
  \/ \E d \in Dispatchers :
    \/ ListCur(d) \/ ListNew(d)
    \/ \E n \in Names : RecoverOne(d, n) \/ DrainOne(d, n) \/ Deliver(d, n)

Approver ==
  \/ \E r \in Requests : Gate(r)
  \/ \E a \in Askers : Lock(a) \/ Prompt(a) \/ Abandon(a)

Worker == Check \/ Unpark \/ CycleEnds \/ Connect \/ Cancel

Action == Ensure \/ Packages \/ InstallAgent \/ Wipe \/ Provision \/ Ping \/ ReadPong \/ Record

Operator ==
  \/ \E c \in Choices : AnswerModal(c)
  \/ \E accepted \in BOOLEAN : AnswerPassword(accepted)
  \/ \E kind \in Kinds : Open(kind)
  \/ Submit
  \/ Quit

Environment == DropLink \/ StartFetch \/ AskPassword \/ \E r \in Requests : Send(r)

System == Dispatch \/ Approver \/ Worker \/ Action \/ Take \/ Result

Next == System \/ Operator \/ Environment

Spec == Init /\ [][Next]_vars
FairSpec == Spec /\ WF_vars(System)

-----------------------------------------------------------------------------
TypeOK ==
  /\ ready \in BOOLEAN /\ nudge \in BOOLEAN /\ old \in BOOLEAN /\ quit \in BOOLEAN
  /\ mail \in [Names -> {"unsent", "new", "cur", "gone"}]
  /\ answered \subseteq Names
  /\ session \in [n : Nat, up : BOOLEAN]
  /\ phase \in [Dispatchers -> {"off", "checking", "parked", "list cur", "recover",
                                "drain", "done", "failed", "ending", "dialing"}]
  /\ pass \in [Dispatchers -> SUBSET Names] /\ again \in [Dispatchers -> BOOLEAN]
  /\ job \in [Dispatchers -> [Names -> {"no", "gate", "running", "denied"}]]
  /\ verdict \in {"ask", "allow", "deny"}
  /\ ask \in [Askers -> {"no", "queued", "sending", "asking"}]
  /\ op \in [kind : Kinds \cup {"none"}, session : Nat, ping : Pings \cup {Nobody},
             round : 0..2,
             pc : {"idle", "start", "packages", "provision", "ping", "smoke", "done", "failed",
                   "result"}]
  /\ Len(events) <= Cap
  /\ Len(modals) <= Cardinality(Askers) /\ Len(pwReqs) <= 1
  /\ form \in Kinds \cup {""}
  /\ running \in Kinds \cup {""}
  /\ shown \subseteq Names /\ header \in {"up", "down"}
  /\ unsaid \subseteq Names /\ stale \in BOOLEAN

Positions(s, x) == {i \in DOMAIN s : s[i] = x}

\* Where a prompt of a is: sent, or in one of the screen's two queues.
Places(a) ==
  ({"sent"} \X Positions(events, Message("prompt", a)))
    \cup ({"approval"} \X Positions(modals, a))
    \cup ({"password"} \X Positions(pwReqs, a))

OnScreen(a) == Positions(modals, a) # {} \/ Positions(pwReqs, a) # {}

(***************************************************************************)
(* The channel, the screen's two queues and the askers agree (console.go   *)
(* of cli and tui): whoever waits for an answer has exactly one prompt,    *)
(* sent or on the screen, and no prompt is left, after a dropped link or a *)
(* new approver, whose asker has gone; an answer is never given to nobody, *)
(* and never to the next request of the same asker.                        *)
(***************************************************************************)
PromptsHaveWaiters ==
  \A a \in Askers :
    ~quit => Cardinality(Places(a)) = (IF ask[a] = "asking" THEN 1 ELSE 0)

\* An end of n is on its way to the screen.
Ending(n) == \E i \in DOMAIN events : events[i].of = n /\ events[i].what \in {"serviced", "clear"}

LinkNews == {i \in DOMAIN events : events[i].what \in {"up", "down"}}

\* The link state the screen will show, once it has taken what is in the channel.
WillShow(state) ==
  \/ LinkNews = {} /\ header = state
  \/ \E i \in LinkNews : events[i].what = state /\ \A j \in LinkNews : j <= i

(***************************************************************************)
(* The screen is behind the worker, and never wrong about it: a request in *)
(* the serving banner (tui/console.go applyEvent) is in service, or its    *)
(* end is in the channel; the header's link state, followed by what is in  *)
(* the channel, is the worker's. The exceptions are the messages the       *)
(* channel had no room for, and requests cut off by the link.              *)
(***************************************************************************)
ScreenFollows ==
  ~quit =>
    /\ \A n \in shown : job[Serve][n] # "no" \/ Ending(n) \/ n \in unsaid
    /\ stale \/ WillShow(IF phase[Serve] = "dialing" THEN "down" ELSE "up")

(***************************************************************************)
(* Nobody is stuck, while the goroutines run: a prompt that is sent gets   *)
(* to the screen; once the operator quits, every prompt is given up and    *)
(* the cycle ends (tuiAsker.ask, Serve's wait for its handlers); and a     *)
(* bootstrap that succeeds wakes a worker parked on a sandbox without a    *)
(* tree (awaitBootstrapped).                                               *)
(***************************************************************************)
NobodyStuck ==
  /\ \A a \in Askers : (ask[a] = "sending") ~> (OnScreen(a) \/ quit)
  /\ quit ~> (phase[Serve] = "off" /\ \A a \in Askers : ask[a] = "no")
  /\ (phase[Serve] = "parked" /\ op.pc = "done" /\ op.kind \in Provisions)
       ~> (phase[Serve] # "parked")

(***************************************************************************)
(* README.md:10 has the operator approve each operation, and the screen    *)
(* holds one until it is answered (tui/console.go:412): an operation whose *)
(* prompt is out has neither run nor been answered. Bootstrap's smoke test *)
(* breaks it: its dispatcher has no gate and takes what is in cur.         *)
(***************************************************************************)
HeldWhileAsked ==
  \A r \in Requests : ask[r] # "no" => job[Smoke][r] = "no" /\ r \notin answered

=============================================================================
