----------------------------- MODULE Heartbeat -----------------------------
(***************************************************************************)
(* How the agent's popo learns whether anybody serves it: the heartbeat    *)
(* file that a serve cycle's goroutine writes (heartbeatLoop, seedSeq and  *)
(* WriteHeartbeat in src/internal/protocol/dispatch.go), a bootstrap that  *)
(* writes it too (cli/bootstrap.go), and the client that waits for its     *)
(* response and gives up when the sequence stands still (await in          *)
(* src/cmd/popo/main.go), beside the console, its worker and its operator. *)
(*                                                                         *)
(* A tick of the clock is one interval of the heartbeat. A remote          *)
(* operation takes less than a tick; a prompt, a dial or a handler takes   *)
(* any number. Sequence numbers are only compared for equality, so they    *)
(* are counted round.                                                      *)
(***************************************************************************)
EXTENDS Console

CONSTANTS
  Patience,   \* the ticks of await's two minutes
  Gap,        \* at most so many ticks lie between two polls of a client
  Wrap        \* bound: the sequence is counted from 1 to Wrap and again

\* Polls are 30 seconds apart at most.
ASSUME PatienceAssumption == Patience \in Nat /\ Gap \in Nat \ {0} /\ Patience >= 3 * Gap
\* A sequence does not come round to what a client saw last while it is patient.
ASSUME WrapAssumption == Wrap \in Nat /\ Wrap > Patience + Gap + 1

VARIABLES
  beat,      \* state/heartbeat: its sequence number, 0 without the file
  writers,   \* the goroutines that write it
  wait,      \* a client: "no", "waiting", "answered" or "gave up"
  seen,      \* the sequence number it saw last, 0 for none
  silent,    \* the ticks since it saw another one
  since,     \* the ticks since it looked
  steady     \* history: the ticks for which requests have been served

clientVars == <<wait, seen, silent, since>>
beatVars == <<beat, writers, clientVars, steady>>
allVars == <<vars, beatVars>>

Waiting == {r \in Requests : wait[r] = "waiting"}

\* A bootstrap has written the first one.
BeatInit ==
  /\ Init
  /\ beat = (IF ready THEN 1 ELSE 0) /\ writers = {}
  /\ wait = [r \in Requests |-> "no"] /\ seen = [r \in Requests |-> 0]
  /\ silent = [r \in Requests |-> 0] /\ since = [r \in Requests |-> 0]
  /\ steady = 0

Serving == phase[Serve] = "drain" /\ Works(Serve) /\ ready

(***************************************************************************)
(* The goroutines that write: the loop of each serve cycle, from the end   *)
(* of its recovery until Serve returns. What a loop was writing when it    *)
(* was told to stop may still be on its way ("late"). Only behaviours in   *)
(* which a client waits follow them.                                       *)
(***************************************************************************)
Begun ==
  IF left.watch # {} /\ phase[Serve] = "recover" /\ phase'[Serve] = "drain"
  THEN {[session |-> session.n, at |-> "seed", seq |-> 0]} ELSE {}

Remaining ==
  IF phase[Serve] = "ending" /\ phase'[Serve] # "ending"
  THEN {[w EXCEPT !.at = "late"] : w \in {v \in writers : v.at \in {"write", "late"}}}
  ELSE writers

\* A request is published, and its sender waits for the response.
SentBy(r) == r \in left.watch /\ mail[r] = "unsent" /\ mail'[r] = "new"

\* provision writes a first heartbeat, and a reset removes the file.
ConsoleStep ==
  /\ Next
  /\ beat' = (IF ~ready' THEN 0 ELSE IF op.pc # "ping" /\ op'.pc = "ping" THEN 1 ELSE beat)
  /\ writers' = Remaining \cup Begun
  /\ wait' = [r \in Requests |-> IF SentBy(r) THEN "waiting" ELSE wait[r]]
  /\ steady' = IF Serving' THEN steady ELSE 0
  /\ UNCHANGED <<seen, silent, since>>

Reaches(w) == Live(w.session) /\ ready
Count(n) == (n % Wrap) + 1

Becomes(w, to) == writers' = (writers \ {w}) \cup to

\* seedSeq: the sequence of the file is continued, if it can be read.
Seed(w) ==
  /\ w.at = "seed"
  /\ Becomes(w, {[w EXCEPT !.at = "write", !.seq = IF Reaches(w) THEN beat ELSE 0]})
  /\ UNCHANGED <<vars, beat, clientVars, steady>>

Counted(w) == [w EXCEPT !.at = "sleep", !.seq = Count(@)]

\* WriteHeartbeat. A failure is left to the next tick.
WriteHeartbeat(w) ==
  /\ w.at = "write"
  /\ Becomes(w, {Counted(w)})
  /\ beat' = IF Reaches(w) THEN Count(w.seq) ELSE beat
  /\ UNCHANGED <<vars, clientVars, steady>>

\* All write to one temporary name: w publishes what v has just written there,
\* and v finds nothing to rename.
Crossed(w, v) ==
  /\ w.at = "write" /\ v.at \in {"write", "late"} /\ v # w /\ Reaches(w)
  /\ beat' = Count(v.seq)
  /\ writers' = (writers \ {w, v}) \cup {Counted(w)} \cup (IF v.at = "late" THEN {} ELSE {Counted(v)})
  /\ UNCHANGED <<vars, clientVars, steady>>

\* The write of a loop that was stopped is lost, or arrives after all.
Late(w) ==
  /\ w.at = "late"
  /\ Becomes(w, {})
  /\ \/ UNCHANGED beat
     \/ ready /\ beat' = Count(w.seq)
  /\ UNCHANGED <<vars, clientVars, steady>>

\* Of a bootstrap from the command line, its heartbeat: a dispatcher of its own
\* counts from 1.
OtherBootstrap ==
  /\ ready /\ left.watch # {} /\ Use("boots")
  /\ beat' = 1
  /\ UNCHANGED <<mailVars, session, workVars, promptVars, op, nudge, events, screenVars, quit,
                 historyVars, writers, clientVars, steady>>

\* Mutant: the heartbeat is written between requests.
DueIdle(w) == w.at \in {"seed", "write"} /\ Idle(Serve)

\* Its goroutine writes whatever the handlers do.
Due(w) == w.at \in {"seed", "write"}

Beat(w) ==
  \/ Late(w)
  \/ Due(w) /\ (Seed(w) \/ WriteHeartbeat(w) \/ \E v \in writers : Crossed(w, v))

(***************************************************************************)
(* Time, while a client waits. The next tick comes after what takes less.  *)
(***************************************************************************)
Quick ==
  \/ RanOnce
  \/ \E d \in Dispatchers :
       \/ ListCur(d) \/ ListNew(d)
       \/ \E n \in Names : RecoverOne(d, n) \/ DrainOne(d, n) \/ (job[d][n] = "denied" /\ Deliver(d, n))
  \/ Approver \/ Check \/ Unpark \/ CycleEnds \/ Cancel
  \/ Wipe \/ Provision \/ Ping \/ ReadPong \/ Record \/ Take \/ Result

Passed(n, most) == IF n < most THEN n + 1 ELSE most

Tick ==
  /\ Waiting # {}
  /\ \A w \in writers : ~Due(w)
  /\ \A r \in Waiting : since[r] < Gap
  /\ ~ENABLED Quick
  /\ writers' = {IF w.at = "sleep" THEN [w EXCEPT !.at = "write"] ELSE w : w \in writers}
  /\ silent' = [r \in Requests |-> IF r \in Waiting THEN Passed(silent[r], Patience + Gap + 1) ELSE 0]
  /\ since' = [r \in Requests |-> IF r \in Waiting THEN since[r] + 1 ELSE 0]
  /\ steady' = IF Serving THEN Passed(steady, Patience) ELSE 0
  /\ UNCHANGED <<vars, beat, wait, seen>>

\* One round of await.
Poll(r) ==
  LET news == beat # 0 /\ beat # seen[r] IN
  /\ wait[r] = "waiting"
  /\ wait' = [wait EXCEPT ![r] = IF r \in answered THEN "answered"
                                 ELSE IF ~news /\ silent[r] > Patience THEN "gave up" ELSE @]
  /\ seen' = [seen EXCEPT ![r] = IF news THEN beat ELSE @]
  /\ silent' = [silent EXCEPT ![r] = IF news THEN 0 ELSE @]
  /\ since' = [since EXCEPT ![r] = 0]
  /\ UNCHANGED <<vars, beat, writers, steady>>

BeatNext ==
  \/ ConsoleStep
  \/ OtherBootstrap
  \/ \E w \in writers : Beat(w)
  \/ Tick
  \/ \E r \in Requests : Poll(r)

BeatSpec == BeatInit /\ [][BeatNext]_allVars /\ WF_vars(System)

-----------------------------------------------------------------------------
BeatTypeOK ==
  /\ TypeOK
  /\ beat \in 0..Wrap
  /\ writers \subseteq [session : Nat, seq : 0..Wrap, at : {"seed", "write", "late", "sleep"}]
  /\ wait \in [Requests -> {"no", "waiting", "answered", "gave up"}]
  /\ seen \in [Requests -> 0..Wrap]
  /\ silent \in [Requests -> 0..(Patience + Gap + 1)] /\ since \in [Requests -> 0..Gap]
  /\ steady \in 0..Patience

(***************************************************************************)
(* A cast beside which a client's patience suffices. A client waits where  *)
(* the operator starts no action, and each dropped link (the last write of *)
(* its loop) and each other bootstrap may put into the file once what the  *)
(* client saw last, as the loop itself does where it comes by that number. *)
(***************************************************************************)
CastType ==
  [ready : BOOLEAN, requests : SUBSET Requests, actions : SUBSET Kinds, drops : Nat, asks : Nat,
   fetches : Nat, quits : Nat, watch : SUBSET Requests, boots : Nat]

Patient(c) ==
  /\ c \in CastType
  /\ c.watch # {} => c.actions = {} /\ 1 + (c.drops + c.boots + 1) * (Gap + 1) <= Patience

(***************************************************************************)
(* "Popo appears down" is the truth (main.go await, dispatch.go Serve). A  *)
(* client is not told so while requests have been served for all of its    *)
(* patience, though a handler is running or waits for the operator, a      *)
(* bootstrap starts a sequence of its own in the same file, and the last   *)
(* write of a lost connection arrives late; and a client that is not told  *)
(* so has seen the heartbeat go on within its patience and one poll.       *)
(***************************************************************************)
DownIsTrue ==
  [][\A r \in Requests :
       /\ wait[r] # "gave up" /\ wait'[r] = "gave up" => steady < Patience
       /\ wait'[r] = "waiting" => silent'[r] <= Patience + Gap]_allVars

=============================================================================
