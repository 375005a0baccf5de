---------------------------- MODULE ConsoleProofs ----------------------------

(***************************************************************************)
(* The console of one sandbox and its worker, for every set of requests    *)
(* and pings, every pool and room of the channel and every cast: who waits *)
(* for the operator has one prompt, the screen follows the worker, and a   *)
(* client that gives up has not been served for all of its patience.       *)
(***************************************************************************)
EXTENDS Heartbeat, FiniteSetTheorems, TLAPS

(* What is told to the screen without waiting for room.                    *)
News == [what : {"started", "serviced", "clear", "up", "down", "line"}, of : Names \cup {Nobody}]
Prompts == [what : {"prompt"}, of : Askers]

Phases == {"off", "checking", "parked", "list cur", "recover", "drain", "done", "failed",
           "ending", "dialing"}
Stages == {"no", "gate", "running", "denied"}

Types ==
  /\ phase \in [Dispatchers -> Phases]
  /\ job \in [Dispatchers -> [Names -> Stages]]
  /\ ask \in [Askers -> {"no", "queued", "sending", "asking"}]
  /\ events \in Seq(News \cup Prompts)
  /\ modals \in Seq(Askers \ {Dial}) /\ pwReqs \in Seq({Dial})
  /\ header \in {"up", "down"} /\ stale \in BOOLEAN

(* Who waits for the gate is held there; a dispatcher has work only in the *)
(* phases that end with it; a password is asked for between two sessions.  *)
GateInv ==
  /\ \A r \in Requests : ask[r] # "no" => job[Serve][r] = "gate"
  /\ ~Idle(Serve) => phase[Serve] \in {"recover", "drain", "ending"}
  /\ ask[Dial] # "no" => phase[Serve] = "dialing"

Empty(X) == X = {}
Single(X) == \E i : X = {i}

(* An asker that waits has one place, the others none.                     *)
Placed(a) ==
  LET s == Positions(events, Message("prompt", a))
      m == Positions(modals, a)
      p == Positions(pwReqs, a)
  IN IF ask[a] = "asking"
     THEN \/ Single(s) /\ Empty(m) /\ Empty(p)
          \/ Empty(s) /\ Single(m) /\ Empty(p)
          \/ Empty(s) /\ Empty(m) /\ Single(p)
     ELSE Empty(s) /\ Empty(m) /\ Empty(p)

WaitInv == ~quit => \A a \in Askers : Placed(a)

(* After a request's start in the channel, its end is there too, or was    *)
(* never announced, unless it is in service.                               *)
IsStart(m, n) == m.of = n /\ m.what = "started"
IsEnd(m, n) == m.of = n /\ m.what \in {"serviced", "clear"}

EndOpen(n) == job[Serve][n] # "no" \/ n \in unsaid
EndsAfter(i, n) == \E j \in DOMAIN events : i < j /\ IsEnd(events[j], n)

StartInv ==
  \A i \in DOMAIN events : \A n :
    IsStart(events[i], n) => n \in Names /\ (EndOpen(n) \/ EndsAfter(i, n))

ShownInv == \A n \in shown : n \in Names /\ (EndOpen(n) \/ Ending(n))

Expected == IF phase[Serve] = "dialing" THEN "down" ELSE "up"
LinkInv == ~quit => stale \/ WillShow(Expected)

ConsoleInv == Types /\ GateInv /\ WaitInv /\ StartInv /\ ShownInv /\ LinkInv

-----------------------------------------------------------------------------

(* Where an element is after another is appended.                          *)
LEMMA PositionsAppend ==
  ASSUME NEW T, NEW s \in Seq(T), NEW y \in T, NEW x
  PROVE  Positions(Append(s, y), x) = Positions(s, x) \cup (IF y = x THEN {Len(s) + 1} ELSE {})
<1>1. Len(s) \in Nat /\ DOMAIN s = 1..Len(s)
  OBVIOUS
<1>2. DOMAIN Append(s, y) = 1..(Len(s) + 1)
  OBVIOUS
<1>3. \A i \in 1..Len(s) : Append(s, y)[i] = s[i]
  OBVIOUS
<1>4. Append(s, y)[Len(s) + 1] = y
  OBVIOUS
<1> QED BY <1>1, <1>2, <1>3, <1>4 DEF Positions

(* Where an element is after the first one is taken.                       *)
LEMMA PositionsTail ==
  ASSUME NEW T, NEW s \in Seq(T), s # <<>>, NEW x
  PROVE  Positions(Tail(s), x) = {i - 1 : i \in Positions(s, x) \ {1}}
<1>1. Len(s) \in Nat \ {0} /\ DOMAIN s = 1..Len(s)
  OBVIOUS
<1>2. DOMAIN Tail(s) = 1..(Len(s) - 1) /\ \A i \in 1..(Len(s) - 1) : Tail(s)[i] = s[i + 1]
  OBVIOUS
<1>3. \A i \in Positions(Tail(s), x) : i + 1 \in Positions(s, x) \ {1} /\ i = (i + 1) - 1
  BY <1>1, <1>2 DEF Positions
<1>4. \A i \in Positions(s, x) \ {1} : i - 1 \in Positions(Tail(s), x)
  BY <1>1, <1>2 DEF Positions
<1> QED BY <1>3, <1>4

(* Of the elements that occur nowhere or once, the first one taken is gone *)
(* and the others are where they were.                                     *)
LEMMA TailTaken ==
  ASSUME NEW T, NEW s \in Seq(T), s # <<>>, NEW x
  PROVE  /\ Empty(Positions(s, x)) => Empty(Positions(Tail(s), x))
         /\ Single(Positions(s, x)) /\ Head(s) = x => Empty(Positions(Tail(s), x))
         /\ Single(Positions(s, x)) /\ Head(s) # x => Single(Positions(Tail(s), x))
         /\ Head(s) = x => ~Empty(Positions(s, x))
<1>1. Positions(Tail(s), x) = {i - 1 : i \in Positions(s, x) \ {1}}
  BY PositionsTail
<1>2. Head(s) = s[1] /\ 1 \in DOMAIN s
  OBVIOUS
<1>3. Head(s) = x <=> 1 \in Positions(s, x)
  BY <1>2 DEF Positions
<1>4. Empty(Positions(s, x)) => Empty(Positions(Tail(s), x))
  BY <1>1 DEF Empty
<1>5. ASSUME Single(Positions(s, x)), Head(s) = x PROVE Empty(Positions(Tail(s), x))
  <2>1. Positions(s, x) \ {1} = {}
    BY <1>3, <1>5 DEF Single
  <2> QED BY <1>1, <2>1 DEF Empty
<1>6. ASSUME Single(Positions(s, x)), Head(s) # x PROVE Single(Positions(Tail(s), x))
  <2>1. PICK k : Positions(s, x) = {k}
    BY <1>6 DEF Single
  <2>2. Positions(s, x) \ {1} = {k}
    BY <1>3, <1>6, <2>1
  <2>3. Positions(Tail(s), x) = {k - 1}
    BY <1>1, <2>2
  <2> QED BY <2>3 DEF Single
<1>7. Head(s) = x => ~Empty(Positions(s, x))
  BY <1>3 DEF Empty
<1> QED BY <1>4, <1>5, <1>6, <1>7

-----------------------------------------------------------------------------

(* The two dispatchers, and who asks.                                      *)
LEMMA CastFacts ==
  /\ Serve \in Dispatchers /\ Smoke \in Dispatchers /\ Serve # Smoke
  /\ Requests \subseteq Askers /\ Fetch \in Askers /\ Dial \in Askers
  /\ Fetch # Dial /\ Dial \notin Requests /\ Fetch \notin Requests
  /\ Requests \subseteq Names /\ Pings \subseteq Names
BY DistinctAssumption DEF Dispatchers, Askers, Names

(* What most steps leave of the queues and of those that wait.             *)
ScreenKept ==
  /\ UNCHANGED <<modals, pwReqs>>
  /\ events' = events \/ \E m \in News : events' = Append(events, m)

AskingKept == \A a \in Askers : ask'[a] = "asking" <=> ask[a] = "asking"

(* An offered message is appended, or dropped.                             *)
LEMMA Offered ==
  ASSUME NEW w \in {"started", "serviced", "clear", "up", "down", "line"}, NEW x \in Names \cup {Nobody},
         Offer(Message(w, x)), UNCHANGED <<modals, pwReqs>>
  PROVE  ScreenKept
<1>1. Message(w, x) \in News
  BY DEF Message, News
<1> QED BY <1>1 DEF Offer, ScreenKept

(* A dispatcher tells of starts and ends, and asks nobody.                 *)
LEMMA DispatchKeeps == ASSUME Types, Dispatch PROVE ScreenKept /\ ask' = ask
<1> USE DEF promptVars, screenVars
<1>1. CASE RanOnce
  BY <1>1 DEF RanOnce, ScreenKept
<1>2. ASSUME NEW d \in Dispatchers, ListCur(d) \/ ListNew(d) PROVE ScreenKept /\ ask' = ask
  BY <1>2 DEF ListCur, ListNew, ScreenKept
<1>3. ASSUME NEW d \in Dispatchers, NEW n \in Names, RecoverOne(d, n) PROVE ScreenKept /\ ask' = ask
  <2>1. UNCHANGED <<modals, pwReqs, ask>> /\ (events' = events \/ Offer(Message("started", n)))
    BY <1>3 DEF RecoverOne, Begin
  <2> QED BY <2>1, Offered DEF ScreenKept
<1>4. ASSUME NEW d \in Dispatchers, NEW n \in Names, DrainOne(d, n) PROVE ScreenKept /\ ask' = ask
  <2>1. UNCHANGED <<modals, pwReqs, ask>> /\ (events' = events \/ Offer(Message("started", n)))
    BY <1>4 DEF DrainOne, Begin
  <2> QED BY <2>1, Offered DEF ScreenKept
<1>5. ASSUME NEW d \in Dispatchers, NEW n \in Names, Deliver(d, n) PROVE ScreenKept /\ ask' = ask
  <2>1. /\ UNCHANGED <<modals, pwReqs, ask>>
        /\ \/ events' = events
           \/ \E w \in {"clear", "serviced"} : Offer(Message(w, n))
    BY <1>5 DEF Deliver
  <2> QED BY <2>1, Offered DEF ScreenKept
<1> QED BY <1>1, <1>2, <1>3, <1>4, <1>5 DEF Dispatch

(* So do the worker, the operator's action, the environment and the keys   *)
(* that answer no prompt.                                                  *)
LEMMA WorkerKeeps == ASSUME Types, Worker PROVE ScreenKept /\ ask' = ask
<1> USE DEF promptVars, screenVars
<1>1. CASE Check \/ Unpark \/ Cancel
  BY <1>1 DEF Check, Unpark, Cancel, ScreenKept
<1>2. CASE CycleEnds
  BY <1>2, Offered DEF CycleEnds, Announce, ScreenKept
<1>3. CASE Connect
  BY <1>3, Offered DEF Connect, Announce, ScreenKept
<1> QED BY <1>1, <1>2, <1>3 DEF Worker

(* The operator's keys other than answers touch neither what waits for the screen nor who
   asks. *)
LEMMA ActionKeeps == ASSUME Types, Action PROVE ScreenKept /\ ask' = ask
<1> USE DEF promptVars, screenVars
<1>1. CASE Ensure \/ Packages \/ InstallAgent \/ Wipe \/ Provision \/ Ping \/ ReadPong
  BY <1>1 DEF Ensure, Packages, InstallAgent, Wipe, Provision, Ping, ReadPong, ScreenKept
<1>2. CASE Record
  BY <1>2, Offered DEF Record, ScreenKept
<1> QED BY <1>1, <1>2 DEF Action

(* The steps of the environment, of handlers and of gates leave the screen's queues and
   the askers alone. *)
LEMMA OthersKeep ==
  ASSUME Types, Environment \/ Result \/ Submit \/ (\E k \in Kinds : Open(k))
                  \/ (\E r \in Requests : Gate(r)) \/ (\E a \in Askers : Lock(a))
  PROVE  ScreenKept /\ AskingKept
<1> USE DEF promptVars, screenVars
<1>1. CASE DropLink \/ Result \/ Submit \/ (\E r \in Requests : Send(r)) \/ (\E k \in Kinds : Open(k))
  <2>1. UNCHANGED <<modals, pwReqs, events, ask>>
    BY <1>1 DEF DropLink, Result, Submit, Send, Open
  <2> QED BY <2>1 DEF ScreenKept, AskingKept
<1>2. CASE StartFetch \/ AskPassword
  BY <1>2, CastFacts DEF StartFetch, AskPassword, Types, ScreenKept, AskingKept
<1>3. ASSUME NEW r \in Requests, Gate(r) PROVE ScreenKept /\ AskingKept
  BY <1>3, CastFacts DEF Gate, Types, ScreenKept, AskingKept
<1>4. ASSUME NEW a \in Askers, Lock(a) PROVE ScreenKept /\ AskingKept
  BY <1>4, CastFacts DEF Lock, Types, ScreenKept, AskingKept
<1> QED BY <1>1, <1>2, <1>3, <1>4 DEF Environment

-----------------------------------------------------------------------------

(* A queue that grows, and one whose first element is taken.               *)
LEMMA Appended ==
  ASSUME NEW T, NEW s \in Seq(T), NEW y \in T PROVE Append(s, y) \in Seq(T)
OBVIOUS

(* What is left of a queue, and what was taken from it, keep their types. *)
LEMMA Taken ==
  ASSUME NEW T, NEW s \in Seq(T), s # <<>> PROVE Tail(s) \in Seq(T) /\ Head(s) \in T
OBVIOUS

(* A step that keeps the screen's queues, or appends a message to them, keeps their
   types. *)
LEMMA ScreenKeptTypes ==
  ASSUME Types, ScreenKept
  PROVE  /\ events' \in Seq(News \cup Prompts)
         /\ modals' \in Seq(Askers \ {Dial}) /\ pwReqs' \in Seq({Dial})
<1>1. CASE events' = events
  BY <1>1 DEF Types, ScreenKept
<1>2. ASSUME NEW m \in News, events' = Append(events, m) PROVE events' \in Seq(News \cup Prompts)
  <2>1. m \in News \cup Prompts /\ events \in Seq(News \cup Prompts)
    BY DEF Types
  <2> QED BY <1>2, <2>1, Appended
<1> QED BY <1>1, <1>2 DEF Types, ScreenKept

(* What a dispatcher does to its phase and its jobs.                       *)
LEMMA DispatchTypes == ASSUME Types, Dispatch PROVE Types'
<1> USE DEF promptVars, screenVars, historyVars, mailVars
<1>0. ScreenKept /\ ask' = ask
  BY DispatchKeeps
<1>2. UNCHANGED <<header, stale>>
  <2>1. ASSUME NEW d \in Dispatchers, NEW n \in Names, RecoverOne(d, n) \/ DrainOne(d, n) \/ Deliver(d, n)
        PROVE  UNCHANGED <<header, stale>>
    BY <2>1 DEF RecoverOne, DrainOne, Deliver
  <2>2. ASSUME NEW d \in Dispatchers, ListCur(d) \/ ListNew(d) PROVE UNCHANGED <<header, stale>>
    BY <2>2 DEF ListCur, ListNew
  <2>3. CASE RanOnce
    BY <2>3 DEF RanOnce
  <2> QED BY <2>1, <2>2, <2>3 DEF Dispatch
<1> DEFINE Sound == phase' \in [Dispatchers -> Phases] /\ job' \in [Dispatchers -> [Names -> Stages]]
<1>1. Sound
  <2> USE DEF Types, Phases, Stages, Go, Fail, Set
  <2>1. CASE RanOnce
    BY <2>1 DEF RanOnce
  <2>2. ASSUME NEW d \in Dispatchers, ListCur(d) \/ ListNew(d) PROVE Sound
    BY <2>2 DEF ListCur, ListNew
  <2>3. ASSUME NEW d \in Dispatchers, NEW n \in Names, RecoverOne(d, n) \/ DrainOne(d, n) PROVE Sound
    <3>1. phase' = phase \/ Fail(d)
      BY <2>3 DEF RecoverOne, DrainOne
    <3>2. job' = job \/ \E to \in Stages : Set(d, n, to)
      BY <2>3 DEF RecoverOne, DrainOne, Begin
    <3>3. phase' \in [Dispatchers -> Phases]
      BY <3>1
    <3>4. job' \in [Dispatchers -> [Names -> Stages]]
      <4>1. CASE job' = job
        BY <4>1
      <4>2. ASSUME NEW to \in Stages, Set(d, n, to) PROVE job' \in [Dispatchers -> [Names -> Stages]]
        BY <4>2
      <4> QED BY <3>2, <4>1, <4>2
    <3> QED BY <3>3, <3>4
  <2>4. ASSUME NEW d \in Dispatchers, NEW n \in Names, Deliver(d, n) PROVE Sound
    BY <2>4 DEF Deliver
  <2> QED BY <2>1, <2>2, <2>3, <2>4 DEF Dispatch
<1> QED BY <1>0, <1>1, <1>2, ScreenKeptTypes DEF Types

(* The worker's steps keep the types. *)
LEMMA WorkerTypes == ASSUME Types, Worker PROVE Types'
<1> USE DEF promptVars, screenVars, historyVars, mailVars
<1>0. ScreenKept /\ ask' = ask /\ UNCHANGED <<header, job>>
  BY WorkerKeeps DEF Worker, Check, Unpark, CycleEnds, Connect, Cancel
<1>1. phase' \in [Dispatchers -> Phases]
  BY DEF Worker, Check, Unpark, CycleEnds, Connect, Cancel, Go, Types, Phases
<1>2. stale' \in BOOLEAN
  BY DEF Worker, Check, Unpark, CycleEnds, Connect, Cancel, Announce, Types, Room
<1> QED BY <1>0, <1>1, <1>2, ScreenKeptTypes DEF Types

(* The operator's actions keep the types. *)
LEMMA ActionTypes == ASSUME Types, Action PROVE Types'
<1> USE DEF promptVars, screenVars, historyVars, mailVars, workVars
<1>0. ScreenKept /\ ask' = ask /\ UNCHANGED <<header, job, stale>>
  BY ActionKeeps
     DEF Action, Ensure, Packages, InstallAgent, Wipe, Provision, Ping, ReadPong, Record
<1>1. phase' \in [Dispatchers -> Phases]
  BY DEF Action, Ensure, Packages, InstallAgent, Wipe, Provision, Ping, ReadPong, Record, Go, Types,
         Phases
<1> QED BY <1>0, <1>1, ScreenKeptTypes DEF Types

(* The asker of a verb it is held for: what is settled is a stage.         *)
LEMMA SettleTypes ==
  ASSUME Types, NEW r \in Requests, NEW allowed \in BOOLEAN, Settle(r, allowed)
  PROVE  job' \in [Dispatchers -> [Names -> Stages]]
BY CastFacts DEF Settle, Set, Types, Stages

(* The steps of the environment, handlers and gates keep the types. *)
LEMMA OthersTypes ==
  ASSUME Types, Environment \/ Result \/ Submit \/ (\E k \in Kinds : Open(k))
                  \/ (\E r \in Requests : Gate(r)) \/ (\E a \in Askers : Lock(a))
  PROVE  Types'
<1> USE DEF promptVars, screenVars, historyVars, mailVars, workVars
<1>0. ScreenKept
  BY OthersKeep
<1>1. CASE Environment \/ Result \/ Submit \/ (\E k \in Kinds : Open(k))
  <2>1. UNCHANGED <<phase, job, header, stale>>
    BY <1>1 DEF Environment, DropLink, StartFetch, AskPassword, Send, Result, Submit, Open
  <2>2. ask' \in [Askers -> {"no", "queued", "sending", "asking"}]
    BY <1>1, CastFacts DEF Environment, DropLink, StartFetch, AskPassword, Send, Result, Submit, Open, Types
  <2> QED BY <1>0, <2>1, <2>2, ScreenKeptTypes DEF Types
<1>2. ASSUME NEW r \in Requests, Gate(r) PROVE Types'
  <2>1. UNCHANGED <<phase, header, stale>>
    BY <1>2 DEF Gate
  <2>2. ask' \in [Askers -> {"no", "queued", "sending", "asking"}]
    BY <1>2 DEF Gate, Types
  <2>3. job' \in [Dispatchers -> [Names -> Stages]]
    BY <1>2, SettleTypes DEF Gate, Types
  <2> QED BY <1>0, <2>1, <2>2, <2>3, ScreenKeptTypes DEF Types
<1>3. ASSUME NEW a \in Askers, Lock(a) PROVE Types'
  <2>1. UNCHANGED <<phase, header, stale>>
    BY <1>3 DEF Lock
  <2>2. ask' \in [Askers -> {"no", "queued", "sending", "asking"}]
    BY <1>3 DEF Lock, Types
  <2>3. job' \in [Dispatchers -> [Names -> Stages]]
    BY <1>3, SettleTypes DEF Lock, Types
  <2> QED BY <1>0, <2>1, <2>2, <2>3, ScreenKeptTypes DEF Types
<1> QED BY <1>1, <1>2, <1>3

(* The prompts themselves, their answers, and the screen's next message.   *)
LEMMA PromptTypes ==
  ASSUME Types, \E a \in Askers : Prompt(a) \/ Abandon(a) PROVE Types'
<1> USE DEF promptVars, screenVars, historyVars, mailVars, workVars
<1>1. ASSUME NEW a \in Askers, Prompt(a) PROVE Types'
  <2>1. UNCHANGED <<phase, job, header, stale, modals, pwReqs>>
    BY <1>1 DEF Prompt
  <2>2. Message("prompt", a) \in News \cup Prompts
    BY DEF Message, Prompts
  <2>3. events' \in Seq(News \cup Prompts)
    BY <1>1, <2>2, Appended DEF Prompt, Types
  <2>4. ask' \in [Askers -> {"no", "queued", "sending", "asking"}]
    BY <1>1 DEF Prompt, Types
  <2> QED BY <2>1, <2>3, <2>4 DEF Types
<1>2. ASSUME NEW a \in Askers, Abandon(a) PROVE Types'
  <2>1. UNCHANGED <<phase, header, stale, modals, pwReqs, events>>
    BY <1>2 DEF Abandon
  <2>2. ask' \in [Askers -> {"no", "queued", "sending", "asking"}]
    BY <1>2 DEF Abandon, Types
  <2>3. job' \in [Dispatchers -> [Names -> Stages]]
    BY <1>2, SettleTypes DEF Abandon, Types
  <2> QED BY <2>1, <2>2, <2>3 DEF Types
<1> QED BY <1>1, <1>2

(* An answer to a modal keeps the types. *)
LEMMA AnswerModalTypes == ASSUME Types, NEW c \in Choices, AnswerModal(c) PROVE Types'
<1> USE DEF promptVars, screenVars, historyVars, mailVars, workVars
<1>1. Head(modals) \in Askers \ {Dial} /\ Tail(modals) \in Seq(Askers \ {Dial})
  BY Taken DEF AnswerModal, Types
<1>2. UNCHANGED <<phase, header, stale, pwReqs, events>> /\ modals' = Tail(modals)
  BY DEF AnswerModal
<1>3. ask' \in [Askers -> {"no", "queued", "sending", "asking"}]
  BY DEF AnswerModal, Types
<1>4. job' \in [Dispatchers -> [Names -> Stages]]
  <2>1. CASE Head(modals) = Fetch
    BY <2>1 DEF AnswerModal, Types
  <2>2. CASE Head(modals) # Fetch
    <3>1. Head(modals) \in Requests
      BY <1>1, <2>2 DEF Askers
    <3>2. c.allow \in BOOLEAN
      BY DEF Choices
    <3>3. Settle(Head(modals), c.allow)
      BY <2>2 DEF AnswerModal
    <3> QED BY <3>1, <3>2, <3>3, SettleTypes
  <2> QED BY <2>1, <2>2
<1> QED BY <1>1, <1>2, <1>3, <1>4 DEF Types

(* An answer to a password form keeps the types, and the form was the dial's. *)
LEMMA AnswerPasswordTypes ==
  ASSUME Types, NEW accepted \in BOOLEAN, AnswerPassword(accepted)
  PROVE  Types' /\ Head(pwReqs) = Dial
<1> USE DEF promptVars, screenVars, historyVars, mailVars, workVars
<1>1. Head(pwReqs) = Dial /\ Tail(pwReqs) \in Seq({Dial})
  BY Taken DEF AnswerPassword, Types
<1>2. UNCHANGED <<job, header, modals>> /\ pwReqs' = Tail(pwReqs)
  BY DEF AnswerPassword
<1>3. ask' \in [Askers -> {"no", "queued", "sending", "asking"}]
  BY DEF AnswerPassword, Types
<1>4. phase' \in [Dispatchers -> Phases]
  BY DEF AnswerPassword, Go, Types, Phases
<1>5. events' = events \/ \E m \in News : events' = Append(events, m)
  BY DEF AnswerPassword, Announce, Offer, News, Message
<1>6. events' \in Seq(News \cup Prompts)
  BY <1>5, Appended, ZenonT(30) DEF Types
<1>7. stale' \in BOOLEAN
  BY DEF AnswerPassword, Announce, Room
<1> QED BY <1>1, <1>2, <1>3, <1>4, <1>6, <1>7 DEF Types

(* Taking a message off the channel keeps the types. *)
LEMMA TakeTypes == ASSUME Types, Take PROVE Types'
<1> USE DEF promptVars, screenVars, historyVars, mailVars, workVars
<1> DEFINE m == Head(events)
<1>1. m \in News \cup Prompts /\ Tail(events) \in Seq(News \cup Prompts)
  BY Taken DEF Take, Types
<1>2. UNCHANGED <<phase, job, ask, stale>> /\ events' = Tail(events)
  BY DEF Take
<1>3. header' \in {"up", "down"}
  BY DEF Take, Types
<1>4. m.what = "prompt" => m.of \in Askers
  BY <1>1 DEF News, Prompts
<1>5. modals' \in Seq(Askers \ {Dial})
  <2>1. CASE m.what = "prompt" /\ m.of # Dial
    <3>1. modals' = Append(modals, m.of)
      BY <2>1 DEF Take
    <3> HIDE DEF m
    <3> QED BY <1>4, <2>1, <3>1, Appended DEF Types
  <2>2. CASE ~(m.what = "prompt" /\ m.of # Dial)
    BY <2>2 DEF Take, Types
  <2> QED BY <2>1, <2>2
<1>6. pwReqs' \in Seq({Dial})
  <2>1. CASE m.what = "prompt" /\ m.of = Dial
    <3>1. pwReqs' = Append(pwReqs, Dial)
      BY <2>1 DEF Take
    <3> HIDE DEF m
    <3> QED BY <3>1, Appended DEF Types
  <2>2. CASE ~(m.what = "prompt" /\ m.of = Dial)
    BY <2>2 DEF Take, Types
  <2> QED BY <2>1, <2>2
<1> QED BY <1>1, <1>2, <1>3, <1>5, <1>6 DEF Types

-----------------------------------------------------------------------------

(* The phases in which the serve cycle's dispatcher may have work.         *)
Working == {"recover", "drain", "ending"}

(* A step that asks nobody, leaves who is held at the gate there, and      *)
(* neither ends a dial nor leaves work behind.                             *)
LEMMA GateFrame ==
  ASSUME Types, GateInv, ask' = ask,
         \A r \in Requests : job[Serve][r] = "gate" => job'[Serve][r] = "gate",
         \/ phase'[Serve] = phase[Serve]
         \/ phase[Serve] # "dialing" /\ phase'[Serve] \in Working
         \/ phase[Serve] # "dialing" /\ Idle(Serve),
         job'[Serve] = job[Serve] \/ phase'[Serve] \in Working
  PROVE  GateInv'
<1>1. ask'[Dial] # "no" => phase'[Serve] = "dialing"
  BY DEF GateInv
<1>2. \A r \in Requests : ask'[r] # "no" => job'[Serve][r] = "gate"
  BY DEF GateInv
<1>3. ~Idle(Serve)' => phase'[Serve] \in {"recover", "drain", "ending"}
  BY DEF GateInv, Working, Idle
<1> QED BY <1>1, <1>2, <1>3 DEF GateInv

(* What a dispatcher's step does to the jobs and the phase of the cycle's. *)
Moves ==
  /\ \A r \in Requests : job[Serve][r] = "gate" => job'[Serve][r] = "gate"
  /\ \/ phase'[Serve] = phase[Serve]
     \/ phase[Serve] # "dialing" /\ phase'[Serve] \in Working
  /\ job'[Serve] = job[Serve] \/ phase'[Serve] \in Working

(* A step of a dispatcher leaves gated requests gated, and starts work only where the
   link is not being dialed. *)
LEMMA DispatchMoves == ASSUME Types, GateInv, Dispatch PROVE Moves
<1> USE CastFacts
<1>1. CASE RanOnce
  <2>1. job' = job /\ phase'[Serve] = phase[Serve]
    BY <1>1 DEF RanOnce, Go, workVars, Types
  <2> QED BY <2>1 DEF Moves
<1>2. ASSUME NEW d \in Dispatchers, ListCur(d) PROVE Moves
  <2>1. job' = job /\ (phase'[Serve] = phase[Serve] \/ (phase[Serve] # "dialing" /\ phase'[Serve] \in Working))
    BY <1>2 DEF ListCur, Go, Fail, Types, Working
  <2> QED BY <2>1 DEF Moves
<1>3. ASSUME NEW d \in Dispatchers, ListNew(d) PROVE Moves
  <2>1. job' = job /\ (phase'[Serve] = phase[Serve] \/ (phase[Serve] # "dialing" /\ phase'[Serve] \in Working))
    BY <1>3 DEF ListNew, Go, Fail, Types, Working
  <2> QED BY <2>1 DEF Moves
<1>4. ASSUME NEW d \in Dispatchers, NEW n \in Names, RecoverOne(d, n) \/ DrainOne(d, n) PROVE Moves
  <2>1. phase[d] \in {"recover", "drain"}
    BY <1>4 DEF RecoverOne, DrainOne
  <2>2. phase' = phase \/ Fail(d)
    BY <1>4 DEF RecoverOne, DrainOne
  <2>3. phase'[Serve] = phase[Serve] \/ (phase[Serve] # "dialing" /\ phase'[Serve] \in Working)
    BY <2>1, <2>2 DEF Fail, Go, Working, Types
  <2>4. job' = job \/ (phase' = phase /\ job[d][n] = "no" /\ \E to \in Stages : Set(d, n, to))
    BY <1>4 DEF RecoverOne, DrainOne, Begin, Idle, Stages
  <2>5. job'[Serve] = job[Serve] \/ phase'[Serve] \in Working
    BY <2>1, <2>4 DEF Set, Types, Working
  <2>6. \A r \in Requests : job[Serve][r] = "gate" => job'[Serve][r] = "gate"
    <3>1. CASE job' = job
      BY <3>1
    <3>2. ASSUME NEW to \in Stages, job[d][n] = "no", Set(d, n, to)
          PROVE  \A r \in Requests : job[Serve][r] = "gate" => job'[Serve][r] = "gate"
      BY <3>2 DEF Set, Types
    <3> QED BY <2>4, <3>1, <3>2
  <2> QED BY <2>3, <2>5, <2>6 DEF Moves
<1>5. ASSUME NEW d \in Dispatchers, NEW n \in Names, Deliver(d, n) PROVE Moves
  <2>1. job[d][n] \in {"running", "denied"} /\ Set(d, n, "no") /\ (phase' = phase \/ Fail(d))
    BY <1>5 DEF Deliver
  <2>2. d = Serve => phase[Serve] \in Working
    BY <2>1 DEF GateInv, Idle, Working
  <2>3. phase'[Serve] = phase[Serve] \/ (phase[Serve] # "dialing" /\ phase'[Serve] \in Working)
    BY <2>1, <2>2 DEF Fail, Go, Working, Types
  <2>4. job'[Serve] = job[Serve] \/ phase'[Serve] \in Working
    BY <2>1, <2>2, <2>3 DEF Set, Types, Working
  <2>5. \A r \in Requests : job[Serve][r] = "gate" => job'[Serve][r] = "gate"
    BY <2>1 DEF Set, Types
  <2> QED BY <2>3, <2>4, <2>5 DEF Moves
<1> QED BY <1>1, <1>2, <1>3, <1>4, <1>5 DEF Dispatch

(* A step of a dispatcher keeps the gate's invariant. *)
LEMMA DispatchGate == ASSUME Types, GateInv, Dispatch PROVE GateInv'
<1>1. ask' = ask /\ Moves
  BY DispatchKeeps, DispatchMoves
<1> QED BY <1>1, GateFrame DEF Moves

(* A step of the worker keeps the gate's invariant. *)
LEMMA WorkerGate == ASSUME Types, GateInv, Worker PROVE GateInv'
<1> USE CastFacts
<1>0. job' = job /\ ask' = ask
  BY WorkerKeeps DEF Worker, Check, Unpark, CycleEnds, Connect, Cancel, workVars
<1>1. CASE Check \/ Unpark
  <2>1. phase[Serve] \in {"checking", "parked"}
    BY <1>1 DEF Check, Unpark
  <2>2. phase[Serve] # "dialing" /\ Idle(Serve)
    BY <2>1 DEF GateInv
  <2> QED BY <1>0, <2>2, GateFrame
<1>2. CASE CycleEnds
  <2>1. phase[Serve] # "dialing" /\ Idle(Serve)
    BY <1>2 DEF CycleEnds
  <2> QED BY <1>0, <2>1, GateFrame
<1>3. CASE Connect \/ (Cancel /\ phase[Serve] = "dialing")
  <2>1. phase[Serve] = "dialing" /\ ask[Dial] = "no"
    BY <1>3 DEF Connect, Cancel
  <2>2. Idle(Serve)
    BY <2>1 DEF GateInv
  <2> QED BY <1>0, <2>1, <2>2 DEF GateInv, Idle
<1>4. CASE Cancel /\ phase[Serve] # "dialing"
  <2>1. CASE phase[Serve] \in {"list cur", "recover", "drain"}
    <3>1. phase'[Serve] = "ending"
      BY <1>4, <2>1 DEF Cancel, Go, Types
    <3> QED BY <1>0, <1>4, <3>1, GateFrame DEF Working
  <2>2. CASE phase[Serve] \in {"checking", "parked"}
    <3>1. Idle(Serve)
      BY <2>2 DEF GateInv
    <3> QED BY <1>0, <1>4, <3>1, GateFrame
  <2> QED BY <1>4, <2>1, <2>2 DEF Cancel
<1> QED BY <1>1, <1>2, <1>3, <1>4 DEF Worker

(* An action of the operator keeps the gate's invariant. *)
LEMMA ActionGate == ASSUME Types, GateInv, Action PROVE GateInv'
<1> USE CastFacts
<1>0. job' = job /\ ask' = ask
  BY ActionKeeps
     DEF Action, Ensure, Packages, InstallAgent, Wipe, Provision, Ping, ReadPong, Record, workVars
<1>1. phase'[Serve] = phase[Serve]
  BY DEF Action, Ensure, Packages, InstallAgent, Wipe, Provision, Ping, ReadPong, Record, workVars,
         Go, Types
<1> QED BY <1>0, <1>1, GateFrame

(* Held at the gate, settled when the answer is known.                     *)
LEMMA SettledGate ==
  ASSUME Types, GateInv, NEW r \in Requests, NEW allowed \in BOOLEAN, Settle(r, allowed),
         ask' = [ask EXCEPT ![r] = "no"], phase' = phase, job[Serve][r] = "gate"
  PROVE  GateInv'
<1> USE CastFacts
<1>1. \A n \in Names : n # r => job'[Serve][n] = job[Serve][n]
  BY DEF Settle, Set, Types
<1>2. phase[Serve] \in {"recover", "drain", "ending"}
  BY DEF GateInv, Idle
<1>3. \A q \in Requests : ask'[q] # "no" => q # r /\ ask[q] # "no"
  BY DEF Types
<1>4. ask'[Dial] = ask[Dial]
  BY DEF Types
<1> QED BY <1>1, <1>2, <1>3, <1>4 DEF GateInv, Idle

(* The steps of the environment, handlers and gates keep the gate's invariant. *)
LEMMA OthersGate ==
  ASSUME Types, GateInv,
         Environment \/ Result \/ Submit \/ (\E k \in Kinds : Open(k))
           \/ (\E r \in Requests : Gate(r)) \/ (\E a \in Askers : Lock(a))
  PROVE  GateInv'
<1> USE CastFacts
<1>1. CASE DropLink \/ Result \/ Submit \/ (\E r \in Requests : Send(r)) \/ (\E k \in Kinds : Open(k))
  <2>1. UNCHANGED <<phase, job, ask>>
    BY <1>1 DEF DropLink, Result, Submit, Send, Open, workVars, promptVars
  <2> QED BY <2>1, GateFrame
<1>2. CASE StartFetch
  <2>1. UNCHANGED <<phase, job>> /\ ask' = [ask EXCEPT ![Fetch] = "queued"]
    BY <1>2 DEF StartFetch, workVars
  <2> QED BY <2>1 DEF GateInv, Idle, Types
<1>3. CASE AskPassword
  <2>1. UNCHANGED <<phase, job>> /\ ask' = [ask EXCEPT ![Dial] = "sending"] /\ phase[Serve] = "dialing"
    BY <1>3 DEF AskPassword, workVars
  <2> QED BY <2>1 DEF GateInv, Idle, Types
<1>4. ASSUME NEW r \in Requests, Gate(r) PROVE GateInv'
  <2>1. phase' = phase /\ job[Serve][r] = "gate" /\ ask[r] = "no"
    BY <1>4 DEF Gate
  <2>2. CASE verdict = "ask"
    <3>1. ask' = [ask EXCEPT ![r] = "queued"] /\ job' = job
      BY <1>4, <2>2 DEF Gate
    <3> QED BY <2>1, <3>1 DEF GateInv, Idle, Types
  <2>3. CASE verdict # "ask"
    <3>1. ask' = ask /\ Settle(r, verdict = "allow")
      BY <1>4, <2>3 DEF Gate
    <3>2. ask' = [ask EXCEPT ![r] = "no"]
      BY <2>1, <3>1 DEF Types
    <3> QED BY <2>1, <3>1, <3>2, SettledGate
  <2> QED BY <2>2, <2>3
<1>5. ASSUME NEW a \in Askers, Lock(a) PROVE GateInv'
  <2>1. phase' = phase /\ ask[a] = "queued"
    BY <1>5 DEF Lock
  <2>2. CASE a \in Requests /\ verdict # "ask"
    <3>1. ask' = [ask EXCEPT ![a] = "no"] /\ Settle(a, verdict = "allow")
      BY <1>5, <2>2 DEF Lock
    <3> QED BY <2>1, <2>2, <3>1, SettledGate DEF GateInv
  <2>3. CASE ~(a \in Requests /\ verdict # "ask")
    <3>1. ask' = [ask EXCEPT ![a] = "sending"] /\ job' = job
      BY <1>5, <2>3 DEF Lock
    <3> QED BY <2>1, <3>1 DEF GateInv, Idle, Types
  <2> QED BY <2>2, <2>3
<1> QED BY <1>1, <1>2, <1>3, <1>4, <1>5 DEF Environment

(* Sending a prompt or giving it up keeps the gate's invariant. *)
LEMMA PromptGate ==
  ASSUME Types, GateInv, NEW a \in Askers, Prompt(a) \/ Abandon(a) PROVE GateInv'
<1> USE CastFacts
<1>1. phase' = phase
  BY DEF Prompt, Abandon, workVars
<1>2. CASE Prompt(a)
  <2>1. ask[a] = "sending" /\ ask' = [ask EXCEPT ![a] = "asking"] /\ job' = job
    BY <1>2 DEF Prompt, workVars
  <2> QED BY <1>1, <2>1 DEF GateInv, Idle, Types
<1>3. CASE Abandon(a)
  <2>1. ask[a] # "no" /\ ask' = [ask EXCEPT ![a] = "no"]
    BY <1>3 DEF Abandon
  <2>2. CASE a \in Requests
    BY <1>1, <1>3, <2>1, <2>2, SettledGate DEF Abandon, GateInv
  <2>3. CASE a \notin Requests
    <3>1. job' = job
      BY <1>3, <2>3 DEF Abandon
    <3> QED BY <1>1, <2>1, <3>1 DEF GateInv, Idle, Types
  <2> QED BY <2>2, <2>3
<1> QED BY <1>2, <1>3

(* Who is on the screen waits for the answer.                              *)
LEMMA OnScreenAsks ==
  ASSUME Types, WaitInv, ~quit, NEW a \in Askers, ~Empty(Positions(modals, a)) \/ ~Empty(Positions(pwReqs, a))
  PROVE  ask[a] = "asking"
BY DEF WaitInv, Placed

(* The head of a queue stands somewhere in it. *)
LEMMA HeadPlaced ==
  ASSUME NEW T, NEW s \in Seq(T), s # <<>> PROVE ~Empty(Positions(s, Head(s)))
BY TailTaken

(* Whoever the modal on top is for is still asking. *)
LEMMA ModalAsks ==
  ASSUME Types, WaitInv, ~quit, modals # <<>>
  PROVE  Head(modals) \in Askers \ {Dial} /\ ask[Head(modals)] = "asking"
<1>1. Head(modals) \in Askers \ {Dial} /\ ~Empty(Positions(modals, Head(modals)))
  BY Taken, HeadPlaced DEF Types
<1> QED BY <1>1, OnScreenAsks

(* The password form on top is the dial's, and the dial is still asking. *)
LEMMA PasswordAsks ==
  ASSUME Types, WaitInv, ~quit, pwReqs # <<>>
  PROVE  Head(pwReqs) = Dial /\ ask[Dial] = "asking"
<1>1. Head(pwReqs) = Dial /\ ~Empty(Positions(pwReqs, Head(pwReqs)))
  BY Taken, HeadPlaced DEF Types
<1> QED BY <1>1, CastFacts, OnScreenAsks

(* An answer of the operator keeps the gate's invariant. *)
LEMMA AnswerGate ==
  ASSUME Types, GateInv, WaitInv,
         (\E c \in Choices : AnswerModal(c)) \/ (\E b \in BOOLEAN : AnswerPassword(b))
  PROVE  GateInv'
<1> USE CastFacts
<1>1. ASSUME NEW c \in Choices, AnswerModal(c) PROVE GateInv'
  <2> DEFINE a == Head(modals)
  <2>1. a \in Askers \ {Dial} /\ ask[a] = "asking"
    BY <1>1, ModalAsks DEF AnswerModal
  <2>2. phase' = phase /\ ask' = [ask EXCEPT ![a] = "no"]
    BY <1>1 DEF AnswerModal
  <2>3. CASE a = Fetch
    <3>1. job' = job
      BY <1>1, <2>3 DEF AnswerModal
    <3> HIDE DEF a
    <3> QED BY <2>1, <2>2, <3>1 DEF GateInv, Idle, Types
  <2>4. CASE a # Fetch
    <3>1. a \in Requests /\ Settle(a, c.allow) /\ c.allow \in BOOLEAN
      BY <1>1, <2>1, <2>4 DEF AnswerModal, Askers, Choices
    <3>2. job[Serve][a] = "gate"
      BY <2>1, <3>1 DEF GateInv
    <3> HIDE DEF a
    <3> QED BY <2>2, <3>1, <3>2, SettledGate
  <2> QED BY <2>3, <2>4
<1>2. ASSUME NEW b \in BOOLEAN, AnswerPassword(b) PROVE GateInv'
  <2>1. Head(pwReqs) = Dial /\ ask[Dial] = "asking"
    BY <1>2, PasswordAsks DEF AnswerPassword
  <2>2. job' = job /\ ask' = [ask EXCEPT ![Dial] = "no"]
    BY <1>2, <2>1 DEF AnswerPassword
  <2>3. Idle(Serve)
    BY <2>1 DEF GateInv
  <2> QED BY <2>2, <2>3 DEF GateInv, Idle, Types
<1> QED BY <1>1, <1>2

-----------------------------------------------------------------------------

(* Nothing but a prompt adds to the places of an asker.                    *)
LEMMA NewsPlaced ==
  ASSUME Types, NEW a \in Askers, NEW m \in News
  PROVE  Positions(Append(events, m), Message("prompt", a)) = Positions(events, Message("prompt", a))
<1> DEFINE x == Message("prompt", a)
<1>1. m # x
  BY DEF News, Message
<1>2. m \in News \cup Prompts /\ events \in Seq(News \cup Prompts)
  BY DEF Types
<1> HIDE DEF x
<1>3. Positions(Append(events, m), x) = Positions(events, x) \cup (IF m = x THEN {Len(events) + 1} ELSE {})
  BY <1>2, PositionsAppend
<1>4. Positions(Append(events, m), x) = Positions(events, x)
  BY <1>1, <1>3
<1> QED BY <1>4 DEF x

(* So the other messages leave every place as it was.                      *)
LEMMA NewsIsNoPrompt ==
  ASSUME Types, ScreenKept, NEW a \in Askers
  PROVE  /\ Positions(events, Message("prompt", a))' = Positions(events, Message("prompt", a))
         /\ Positions(modals, a)' = Positions(modals, a)
         /\ Positions(pwReqs, a)' = Positions(pwReqs, a)
<1> DEFINE x == Message("prompt", a)
<1>1. Positions(events', x) = Positions(events, x)
  <2>1. CASE events' = events
    BY <2>1
  <2>2. ASSUME NEW m \in News, events' = Append(events, m) PROVE Positions(events', x) = Positions(events, x)
    BY <2>2, NewsPlaced
  <2> QED BY <2>1, <2>2 DEF ScreenKept
<1>2. UNCHANGED <<modals, pwReqs>>
  BY DEF ScreenKept
<1> QED BY <1>1, <1>2 DEF Positions, Message

(* A step that moves no asker and sends the screen at most news keeps the waiting
   invariant. *)
LEMMA WaitFrame ==
  ASSUME Types, WaitInv, ScreenKept, AskingKept, quit' = quit PROVE WaitInv'
<1> SUFFICES ASSUME ~quit, NEW a \in Askers PROVE Placed(a)'
  BY DEF WaitInv
<1>1. Placed(a) /\ (ask'[a] = "asking" <=> ask[a] = "asking")
  BY DEF WaitInv, AskingKept
<1>2. /\ Positions(events, Message("prompt", a))' = Positions(events, Message("prompt", a))
      /\ Positions(modals, a)' = Positions(modals, a)
      /\ Positions(pwReqs, a)' = Positions(pwReqs, a)
  BY NewsIsNoPrompt
<1> QED BY <1>1, <1>2 DEF Placed

(* A prompt is the one place of its asker, which had none.                 *)
LEMMA PromptPlaced == ASSUME Types, WaitInv, NEW a \in Askers, Prompt(a) PROVE WaitInv'
<1> DEFINE x(b) == Message("prompt", b)
<1>1. /\ ~quit /\ ask[a] = "sending" /\ ask' = [ask EXCEPT ![a] = "asking"]
      /\ events' = Append(events, x(a)) /\ UNCHANGED <<modals, pwReqs>>
  BY DEF Prompt, screenVars
<1>2. \A b \in Askers : x(b) \in News \cup Prompts /\ (x(b) = x(a) <=> b = a)
  BY DEF Message, Prompts
<1> SUFFICES ASSUME NEW b \in Askers PROVE Placed(b)'
  BY DEF WaitInv
<1>3. Positions(modals, b)' = Positions(modals, b) /\ Positions(pwReqs, b)' = Positions(pwReqs, b)
  BY <1>1 DEF Positions
<1>4. Positions(events', x(b)) = Positions(events, x(b)) \cup (IF b = a THEN {Len(events) + 1} ELSE {})
  <2>1. events \in Seq(News \cup Prompts)
    BY DEF Types
  <2> HIDE DEF x
  <2> QED BY <1>1, <1>2, <2>1, PositionsAppend
<1>5. Placed(b)
  BY <1>1 DEF WaitInv
<1>6. CASE b = a
  <2>1. ask'[b] = "asking"
    BY <1>1, <1>6 DEF Types
  <2>2. Empty(Positions(events, x(b))) /\ Empty(Positions(modals, b)) /\ Empty(Positions(pwReqs, b))
    BY <1>1, <1>5, <1>6 DEF Placed
  <2>3. Single(Positions(events', x(b)))
    BY <1>4, <1>6, <2>2 DEF Single, Empty
  <2> QED BY <1>3, <2>1, <2>2, <2>3 DEF Placed, Message
<1>7. CASE b # a
  <2>1. ask'[b] = ask[b]
    BY <1>1, <1>7 DEF Types
  <2>2. Positions(events', x(b)) = Positions(events, x(b))
    BY <1>4, <1>7
  <2> QED BY <1>3, <1>5, <2>1, <2>2 DEF Placed, Message
<1> QED BY <1>6, <1>7

(* The prompt taken from the channel is put in one of the queues.          *)
LEMMA TakePlaced == ASSUME Types, WaitInv, Take PROVE WaitInv'
<1> DEFINE x(b) == Message("prompt", b)  m == Head(events)
<1>1. /\ ~quit /\ events # <<>> /\ events' = Tail(events) /\ ask' = ask
      /\ modals' = IF m.what = "prompt" /\ m.of # Dial THEN Append(modals, m.of) ELSE modals
      /\ pwReqs' = IF m.what = "prompt" /\ m.of = Dial THEN Append(pwReqs, m.of) ELSE pwReqs
  BY DEF Take, promptVars
<1>2. m \in News \cup Prompts /\ events \in Seq(News \cup Prompts)
  BY <1>1, Taken DEF Types
<1> SUFFICES ASSUME NEW b \in Askers PROVE Placed(b)'
  BY DEF WaitInv
<1>3. Placed(b)
  BY <1>1 DEF WaitInv
<1>4. m = x(b) <=> (m.what = "prompt" /\ m.of = b)
  BY <1>2 DEF News, Prompts, Message
<1>5. /\ Empty(Positions(events, x(b))) => Empty(Positions(events', x(b)))
      /\ Single(Positions(events, x(b))) /\ m = x(b) => Empty(Positions(events', x(b)))
      /\ Single(Positions(events, x(b))) /\ m # x(b) => Single(Positions(events', x(b)))
      /\ m = x(b) => ~Empty(Positions(events, x(b)))
  BY <1>1, <1>2, TailTaken
<1>6. m.what = "prompt" => m.of \in Askers
  BY <1>2 DEF News, Prompts
<1>7. Positions(modals', b) = Positions(modals, b) \cup (IF m = x(b) /\ b # Dial THEN {Len(modals) + 1} ELSE {})
  <2>1. CASE m.what = "prompt" /\ m.of # Dial
    <3>1. modals' = Append(modals, m.of) /\ m.of \in Askers \ {Dial} /\ modals \in Seq(Askers \ {Dial})
      BY <1>1, <1>6, <2>1 DEF Types
    <3> HIDE DEF m, x
    <3>2. Positions(modals', b) = Positions(modals, b) \cup (IF m.of = b THEN {Len(modals) + 1} ELSE {})
      BY <3>1, PositionsAppend
    <3> QED BY <1>4, <2>1, <3>2
  <2>2. CASE ~(m.what = "prompt" /\ m.of # Dial)
    <3>1. modals' = modals /\ ~(m = x(b) /\ b # Dial)
      BY <1>1, <1>4, <2>2
    <3> QED BY <3>1
  <2> QED BY <2>1, <2>2
<1>8. Positions(pwReqs', b) = Positions(pwReqs, b) \cup (IF m = x(b) /\ b = Dial THEN {Len(pwReqs) + 1} ELSE {})
  <2>1. CASE m.what = "prompt" /\ m.of = Dial
    <3>1. pwReqs' = Append(pwReqs, m.of) /\ m.of \in {Dial} /\ pwReqs \in Seq({Dial})
      BY <1>1, <2>1 DEF Types
    <3> HIDE DEF m, x
    <3>2. Positions(pwReqs', b) = Positions(pwReqs, b) \cup (IF m.of = b THEN {Len(pwReqs) + 1} ELSE {})
      BY <3>1, PositionsAppend
    <3> QED BY <1>4, <2>1, <3>2
  <2>2. CASE ~(m.what = "prompt" /\ m.of = Dial)
    <3>1. pwReqs' = pwReqs /\ ~(m = x(b) /\ b = Dial)
      BY <1>1, <1>4, <2>2
    <3> QED BY <3>1
  <2> QED BY <2>1, <2>2
<1> DEFINE E == Positions(events, x(b))   E1 == Positions(events', x(b))
           M == Positions(modals, b)      M1 == Positions(modals', b)
           P == Positions(pwReqs, b)      P1 == Positions(pwReqs', b)
           Some(e, k, p) == \/ Single(e) /\ Empty(k) /\ Empty(p)
                            \/ Empty(e) /\ Single(k) /\ Empty(p)
                            \/ Empty(e) /\ Empty(k) /\ Single(p)
           None(e, k, p) == Empty(e) /\ Empty(k) /\ Empty(p)
<1>9. IF ask[b] = "asking" THEN Some(E, M, P) ELSE None(E, M, P)
  BY <1>3 DEF Placed
<1>10. IF ask[b] = "asking" THEN Some(E1, M1, P1) ELSE None(E1, M1, P1)
  <2>1. CASE m # x(b)
    <3>1. M1 = M /\ P1 = P
      BY <1>7, <1>8, <2>1
    <3> HIDE DEF E, E1, M, M1, P, P1, m, x
    <3>2. (Single(E) => Single(E1)) /\ (Empty(E) => Empty(E1))
      BY <1>5, <2>1 DEF E, E1
    <3> QED BY <1>9, <3>1, <3>2
  <2>2. CASE m = x(b)
    <3>1. ~Empty(E)
      BY <1>5, <2>2
    <3>2. ask[b] = "asking" /\ Single(E) /\ Empty(M) /\ Empty(P)
      BY <1>9, <3>1
    <3>3. Empty(E1)
      BY <1>5, <2>2, <3>2
    <3>4. \/ Single(M1) /\ Empty(P1)
          \/ Empty(M1) /\ Single(P1)
      BY <1>7, <1>8, <2>2, <3>2 DEF Empty, Single
    <3> QED BY <3>2, <3>3, <3>4
  <2> QED BY <2>1, <2>2
<1> QED BY <1>1, <1>10 DEF Placed, Message

(* Who is answered has no place left; nobody else's is touched.            *)
LEMMA ModalPlaced == ASSUME Types, WaitInv, NEW c \in Choices, AnswerModal(c) PROVE WaitInv'
<1> DEFINE h == Head(modals)
<1>1. /\ ~quit /\ modals # <<>> /\ modals' = Tail(modals) /\ ask' = [ask EXCEPT ![h] = "no"]
      /\ UNCHANGED <<events, pwReqs>>
  BY DEF AnswerModal
<1>2. h \in Askers \ {Dial} /\ ask[h] = "asking"
  BY <1>1, ModalAsks
<1> SUFFICES ASSUME NEW b \in Askers PROVE Placed(b)'
  BY DEF WaitInv
<1>3. Placed(b)
  BY <1>1 DEF WaitInv
<1>4. /\ Empty(Positions(modals, b)) => Empty(Positions(modals', b))
      /\ Single(Positions(modals, b)) /\ h = b => Empty(Positions(modals', b))
      /\ Single(Positions(modals, b)) /\ h # b => Single(Positions(modals', b))
      /\ h = b => ~Empty(Positions(modals, b))
  <2>1. modals \in Seq(Askers \ {Dial})
    BY DEF Types
  <2> QED BY <1>1, <2>1, TailTaken
<1>5. /\ Positions(events, Message("prompt", b))' = Positions(events, Message("prompt", b))
      /\ Positions(pwReqs, b)' = Positions(pwReqs, b)
  BY <1>1 DEF Positions, Message
<1> HIDE DEF h
<1>6. CASE b = h
  <2>1. ask'[b] = "no"
    BY <1>1, <1>6 DEF Types
  <2> QED BY <1>2, <1>3, <1>4, <1>5, <1>6, <2>1 DEF Placed
<1>7. CASE b # h
  <2>1. ask'[b] = ask[b]
    BY <1>1, <1>7 DEF Types
  <2> QED BY <1>3, <1>4, <1>5, <1>7, <2>1 DEF Placed
<1> QED BY <1>6, <1>7

(* An answered password form leaves its queue with its asker, so the rest still have
   theirs. *)
LEMMA PasswordPlaced ==
  ASSUME Types, WaitInv, NEW accepted \in BOOLEAN, AnswerPassword(accepted) PROVE WaitInv'
<1>1. /\ ~quit /\ pwReqs # <<>> /\ pwReqs' = Tail(pwReqs) /\ modals' = modals
      /\ ask' = [ask EXCEPT ![Head(pwReqs)] = "no"]
      /\ events' = events \/ \E m \in News : events' = Append(events, m)
  BY DEF AnswerPassword, Announce, Offer, News, Message
<1>2. Head(pwReqs) = Dial /\ ask[Dial] = "asking" /\ Dial \in Askers
  BY <1>1, PasswordAsks, CastFacts
<1> SUFFICES ASSUME NEW b \in Askers PROVE Placed(b)'
  BY DEF WaitInv
<1>3. Placed(b)
  BY <1>1 DEF WaitInv
<1>4. /\ Empty(Positions(pwReqs, b)) => Empty(Positions(pwReqs', b))
      /\ Single(Positions(pwReqs, b)) /\ Dial = b => Empty(Positions(pwReqs', b))
      /\ Single(Positions(pwReqs, b)) /\ Dial # b => Single(Positions(pwReqs', b))
      /\ Dial = b => ~Empty(Positions(pwReqs, b))
  <2>1. pwReqs \in Seq({Dial})
    BY DEF Types
  <2> QED BY <1>1, <1>2, <2>1, TailTaken
<1>5. Positions(events', Message("prompt", b)) = Positions(events, Message("prompt", b))
  <2> DEFINE x == Message("prompt", b)
  <2>1. CASE events' = events
    BY <2>1
  <2>2. ASSUME NEW m \in News, events' = Append(events, m) PROVE Positions(events', x) = Positions(events, x)
    BY <2>2, NewsPlaced
  <2> QED BY <1>1, <2>1, <2>2
<1>6. Positions(modals', b) = Positions(modals, b)
  BY <1>1
<1>7. CASE b = Dial
  <2>1. ask'[b] = "no"
    BY <1>1, <1>2, <1>7 DEF Types
  <2> QED BY <1>2, <1>3, <1>4, <1>5, <1>6, <1>7, <2>1 DEF Placed, Message
<1>8. CASE b # Dial
  <2>1. ask'[b] = ask[b]
    BY <1>1, <1>2, <1>8 DEF Types
  <2> QED BY <1>3, <1>4, <1>5, <1>6, <1>8, <2>1 DEF Placed, Message
<1> QED BY <1>7, <1>8

-----------------------------------------------------------------------------

(* An element appended comes after all others.                             *)
LEMMA AppendedLast ==
  ASSUME NEW T, NEW s \in Seq(T), NEW y \in T
  PROVE  /\ Len(s) \in Nat /\ DOMAIN s = 1..Len(s) /\ DOMAIN Append(s, y) = 1..(Len(s) + 1)
         /\ \A i \in 1..Len(s) : Append(s, y)[i] = s[i]
         /\ Append(s, y)[Len(s) + 1] = y
OBVIOUS

(* The rest moves up by one.                                               *)
LEMMA TailShifts ==
  ASSUME NEW T, NEW s \in Seq(T), s # <<>>
  PROVE  /\ Len(s) \in Nat \ {0} /\ DOMAIN s = 1..Len(s) /\ DOMAIN Tail(s) = 1..(Len(s) - 1)
         /\ \A i \in 1..(Len(s) - 1) : Tail(s)[i] = s[i + 1]
         /\ Head(s) = s[1]
OBVIOUS

(* A step of the worker: what had to be told of a request still has, or    *)
(* is told now, and a start is told of a request in service.               *)
LEMMA ServiceSaid ==
  ASSUME Types, StartInv, ShownInv, shown' = shown,
         NEW m \in News \cup Prompts, events' = Append(events, m),
         \A n : IsStart(m, n) => n \in Names /\ EndOpen(n)',
         \A n \in Names : EndOpen(n) => EndOpen(n)' \/ IsEnd(m, n)
  PROVE  StartInv' /\ ShownInv'
<1> DEFINE k == Len(events)
<1>1. /\ k \in Nat /\ DOMAIN events = 1..k /\ DOMAIN events' = 1..(k + 1)
      /\ \A i \in 1..k : events'[i] = events[i]
      /\ events'[k + 1] = m
  BY AppendedLast DEF Types
<1> HIDE DEF k
<1>2. ASSUME NEW i \in DOMAIN events', NEW n, IsStart(events'[i], n)
      PROVE  n \in Names /\ (EndOpen(n)' \/ EndsAfter(i, n)')
  <2>1. CASE i = k + 1
    BY <1>1, <1>2, <2>1
  <2>2. CASE i # k + 1
    <3>1. i \in 1..k /\ events'[i] = events[i]
      BY <1>1, <2>2
    <3>2. n \in Names /\ (EndOpen(n) \/ EndsAfter(i, n))
      BY <1>1, <1>2, <3>1 DEF StartInv
    <3>3. CASE EndsAfter(i, n)
      BY <1>1, <3>1, <3>2, <3>3 DEF EndsAfter
    <3>4. CASE IsEnd(m, n)
      BY <1>1, <3>1, <3>2, <3>4 DEF EndsAfter
    <3> QED BY <3>1, <3>2, <3>3, <3>4
  <2> QED BY <2>1, <2>2
<1>3. ASSUME NEW n \in shown PROVE n \in Names /\ (EndOpen(n)' \/ Ending(n)')
  <2>1. n \in Names /\ (EndOpen(n) \/ Ending(n))
    BY DEF ShownInv
  <2>2. CASE Ending(n)
    BY <1>1, <2>1, <2>2 DEF Ending
  <2>3. CASE IsEnd(m, n)
    BY <1>1, <2>1, <2>3 DEF Ending, IsEnd
  <2> QED BY <2>1, <2>2, <2>3
<1>4. StartInv'
  BY <1>2 DEF StartInv, EndOpen, EndsAfter
<1>5. ShownInv'
  BY <1>3 DEF ShownInv, EndOpen, Ending
<1> QED BY <1>4, <1>5

(* A step that shows and sends nothing, and closes no end still to come, keeps what the
   screen was told. *)
LEMMA ServiceUnsaid ==
  ASSUME StartInv, ShownInv, shown' = shown, events' = events,
         \A n \in Names : EndOpen(n) => EndOpen(n)'
  PROVE  StartInv' /\ ShownInv'
<1>1. StartInv'
  <2>1. \A i, n : EndsAfter(i, n)' <=> EndsAfter(i, n)
    BY DEF EndsAfter
  <2>2. ASSUME NEW i \in DOMAIN events', NEW n, IsStart(events'[i], n)
        PROVE  n \in Names /\ (EndOpen(n)' \/ EndsAfter(i, n)')
    BY <2>1, <2>2 DEF StartInv
  <2> QED BY <2>2 DEF StartInv, EndOpen, EndsAfter
<1>2. ShownInv'
  <2>1. \A n : Ending(n)' <=> Ending(n)
    BY DEF Ending
  <2>2. \A n \in shown : n \in Names /\ (EndOpen(n)' \/ Ending(n)')
    BY <2>1 DEF ShownInv
  <2> QED BY <2>2 DEF ShownInv, EndOpen, Ending
<1> QED BY <1>1, <1>2

(* Neither starts nor ends: nothing is owed that was not.                  *)
LEMMA ServiceFrame ==
  ASSUME Types, StartInv, ShownInv, shown' = shown, unsaid' = unsaid,
         \/ events' = events
         \/ \E m \in News \cup Prompts : m.what # "started" /\ events' = Append(events, m),
         \A n \in Names : job[Serve][n] # "no" => job'[Serve][n] # "no"
  PROVE  StartInv' /\ ShownInv'
<1>1. \A n \in Names : EndOpen(n) => EndOpen(n)'
  BY DEF EndOpen
<1>2. \A m, n : m.what # "started" => ~IsStart(m, n)
  BY DEF IsStart
<1> QED BY <1>1, <1>2, ServiceSaid, ServiceUnsaid

(* A handler starts: of the serve cycle or of the smoke test.              *)
LEMMA BeginSaid ==
  ASSUME Types, StartInv, ShownInv, NEW d \in Dispatchers, NEW n \in Names, Begin(d, n), shown' = shown
  PROVE  StartInv' /\ ShownInv'
<1> USE CastFacts
<1>1. CASE d # Serve
  <2>1. job'[Serve] = job[Serve] /\ UNCHANGED <<events, unsaid>>
    BY <1>1 DEF Begin, Set, Types
  <2> QED BY <2>1, ServiceFrame
<1>2. CASE d = Serve
  <2>1. /\ job'[Serve][n] # "no" /\ \A q \in Names : q # n => job'[Serve][q] = job[Serve][q]
        /\ unsaid' = unsaid \ {n} /\ Offer(Message("started", n))
    BY <1>2 DEF Begin, Set, Types
  <2>2. EndOpen(n)' /\ \A q \in Names : EndOpen(q) => EndOpen(q)'
    BY <2>1 DEF EndOpen
  <2>3. CASE events' = events
    BY <2>2, <2>3, ServiceUnsaid
  <2>4. CASE events' = Append(events, Message("started", n))
    <3>1. Message("started", n) \in News \cup Prompts /\ \A q : IsStart(Message("started", n), q) => q = n
      BY DEF Message, News, IsStart
    <3> QED BY <2>2, <2>4, <3>1, ServiceSaid
  <2> QED BY <2>1, <2>3, <2>4 DEF Offer
<1> QED BY <1>1, <1>2

(* Delivering a response offers its message, or notes that it was dropped. *)
LEMMA DeliverSaid ==
  ASSUME Types, StartInv, ShownInv, NEW d \in Dispatchers, NEW n \in Names, Deliver(d, n)
  PROVE  StartInv' /\ ShownInv'
<1> USE CastFacts
<1>0. shown' = shown /\ Set(d, n, "no")
  BY DEF Deliver, screenVars
<1>1. CASE d # Serve
  <2>1. job'[Serve] = job[Serve]
    BY <1>0, <1>1 DEF Set, Types
  <2>2. UNCHANGED <<events, unsaid>>
    BY <1>1 DEF Deliver
  <2> QED BY <1>0, <2>1, <2>2, ServiceFrame
<1>2. CASE d = Serve
  <2>1. \A q \in Names : q # n => job'[Serve][q] = job[Serve][q]
    BY <1>0, <1>2 DEF Set, Types
  <2>2. \/ events' = events /\ unsaid' = unsaid \cup {n}
        \/ \E w \in {"serviced", "clear"} : events' = Append(events, Message(w, n)) /\ unsaid' = unsaid
    BY <1>2 DEF Deliver, Offer
  <2>3. CASE events' = events /\ unsaid' = unsaid \cup {n}
    <3>1. \A q \in Names : EndOpen(q) => EndOpen(q)'
      BY <2>1, <2>3 DEF EndOpen
    <3> QED BY <1>0, <2>3, <3>1, ServiceUnsaid
  <2>4. ASSUME NEW w \in {"serviced", "clear"}, events' = Append(events, Message(w, n)), unsaid' = unsaid
        PROVE  StartInv' /\ ShownInv'
    <3>1. /\ Message(w, n) \in News \cup Prompts /\ IsEnd(Message(w, n), n)
          /\ \A q : ~IsStart(Message(w, n), q)
      BY DEF Message, News, IsEnd, IsStart
    <3>2. \A q \in Names : EndOpen(q) => EndOpen(q)' \/ IsEnd(Message(w, n), q)
      BY <2>1, <2>4, <3>1 DEF EndOpen
    <3> QED BY <1>0, <2>4, <3>1, <3>2, ServiceSaid
  <2> QED BY <2>2, <2>3, <2>4
<1> QED BY <1>1, <1>2

(* A step of a dispatcher keeps what the screen was told of requests. *)
LEMMA DispatchSaid == ASSUME Types, StartInv, ShownInv, Dispatch PROVE StartInv' /\ ShownInv'
<1> USE DEF screenVars, historyVars, workVars
<1>1. CASE RanOnce
  <2>1. UNCHANGED <<job, events, unsaid, shown>>
    BY <1>1 DEF RanOnce
  <2> QED BY <2>1, ServiceFrame
<1>2. ASSUME NEW d \in Dispatchers, ListCur(d) \/ ListNew(d) PROVE StartInv' /\ ShownInv'
  <2>1. UNCHANGED <<job, events, unsaid, shown>>
    BY <1>2 DEF ListCur, ListNew
  <2> QED BY <2>1, ServiceFrame
<1>3. ASSUME NEW d \in Dispatchers, NEW n \in Names, RecoverOne(d, n) \/ DrainOne(d, n)
      PROVE  StartInv' /\ ShownInv'
  <2>1. shown' = shown /\ (Begin(d, n) \/ UNCHANGED <<job, events, unsaid>>)
    BY <1>3 DEF RecoverOne, DrainOne
  <2> QED BY <2>1, BeginSaid, ServiceFrame
<1> QED BY <1>1, <1>2, <1>3, DeliverSaid DEF Dispatch

(* The messages are taken in the order they were sent.                     *)
LEMMA TakeSaid == ASSUME Types, StartInv, ShownInv, Take PROVE StartInv' /\ ShownInv'
<1> DEFINE m == Head(events)  k == Len(events)
<1>1. /\ events # <<>> /\ events' = Tail(events) /\ UNCHANGED <<job, unsaid>>
      /\ shown' = CASE m.what = "started" -> shown \cup {m.of}
                    [] m.what \in Ended -> shown \ {m.of}
                    [] OTHER -> shown
  BY DEF Take, workVars, historyVars
<1>2. /\ k \in Nat \ {0} /\ DOMAIN events = 1..k /\ DOMAIN events' = 1..(k - 1)
      /\ \A i \in 1..(k - 1) : events'[i] = events[i + 1]
      /\ m = events[1]
  BY <1>1, TailShifts DEF Types
<1> HIDE DEF m, k
<1>3. \A n : EndOpen(n)' <=> EndOpen(n)
  BY <1>1 DEF EndOpen
<1>4. \A j \in DOMAIN events : j > 1 => j - 1 \in DOMAIN events' /\ events'[j - 1] = events[j]
  BY <1>2
<1>5. ASSUME NEW i \in DOMAIN events', NEW n, IsStart(events'[i], n)
      PROVE  n \in Names /\ (EndOpen(n)' \/ EndsAfter(i, n)')
  <2>1. i + 1 \in DOMAIN events /\ events'[i] = events[i + 1] /\ i \in Nat
    BY <1>2
  <2>2. n \in Names /\ (EndOpen(n) \/ EndsAfter(i + 1, n))
    BY <1>5, <2>1 DEF StartInv
  <2>3. CASE EndsAfter(i + 1, n)
    <3>1. PICK j \in DOMAIN events : i + 1 < j /\ IsEnd(events[j], n)
      BY <2>3 DEF EndsAfter
    <3>2. j - 1 \in DOMAIN events' /\ events'[j - 1] = events[j] /\ i < j - 1
      BY <1>2, <1>4, <2>1, <3>1
    <3> QED BY <2>2, <3>1, <3>2 DEF EndsAfter
  <2> QED BY <1>3, <2>1, <2>2, <2>3
<1>6. ASSUME NEW n \in shown' PROVE n \in Names /\ (EndOpen(n)' \/ Ending(n)')
  <2>1. CASE m.what = "started" /\ n = m.of
    <3>1. 1 \in DOMAIN events
      BY <1>2
    <3>2. n \in Names /\ (EndOpen(n) \/ EndsAfter(1, n))
      BY <1>2, <2>1, <3>1 DEF StartInv, IsStart
    <3>3. CASE EndsAfter(1, n)
      <4>1. PICK j \in DOMAIN events : 1 < j /\ IsEnd(events[j], n)
        BY <3>3 DEF EndsAfter
      <4>2. j - 1 \in DOMAIN events' /\ events'[j - 1] = events[j]
        BY <1>2, <1>4, <4>1
      <4> QED BY <3>2, <4>1, <4>2 DEF Ending, IsEnd
    <3> QED BY <1>3, <3>2, <3>3
  <2>2. CASE ~(m.what = "started" /\ n = m.of)
    <3>1. n \in shown /\ ~IsEnd(m, n)
      BY <1>1, <1>6, <2>2 DEF Ended, IsEnd
    <3>2. n \in Names /\ (EndOpen(n) \/ Ending(n))
      BY <3>1 DEF ShownInv
    <3>3. CASE Ending(n)
      <4>1. PICK j \in DOMAIN events : IsEnd(events[j], n)
        BY <3>3 DEF Ending, IsEnd
      <4>2. j > 1
        BY <1>2, <3>1, <4>1
      <4>3. j - 1 \in DOMAIN events' /\ events'[j - 1] = events[j]
        BY <1>4, <4>2
      <4> QED BY <3>2, <4>1, <4>3 DEF Ending, IsEnd
    <3> QED BY <1>3, <3>2, <3>3
  <2> QED BY <2>1, <2>2
<1>7. StartInv'
  BY <1>5 DEF StartInv, EndOpen, EndsAfter
<1>8. ShownInv'
  BY <1>6 DEF ShownInv, EndOpen, Ending
<1> QED BY <1>7, <1>8

-----------------------------------------------------------------------------

(* Neither the link nor the cycle's phase, nor news of them.               *)
LEMMA LinkFrame ==
  ASSUME Types, LinkInv, ~quit, header' = header, stale' = stale,
         phase'[Serve] = "dialing" <=> phase[Serve] = "dialing",
         \/ events' = events
         \/ \E m \in News \cup Prompts : m.what \notin {"up", "down"} /\ events' = Append(events, m)
  PROVE  LinkInv'
<1>1. stale \/ WillShow(Expected)
  BY DEF LinkInv
<1>2. Expected' = Expected
  BY DEF Expected
<1>3. ASSUME WillShow(Expected), NEW m \in News \cup Prompts, m.what \notin {"up", "down"},
             events' = Append(events, m)
      PROVE  WillShow(Expected)'
  <2> DEFINE k == Len(events)
  <2>1. /\ k \in Nat /\ DOMAIN events = 1..k /\ DOMAIN events' = 1..(k + 1)
        /\ \A i \in 1..k : events'[i] = events[i]
        /\ events'[k + 1] = m
    BY <1>3, AppendedLast DEF Types
  <2> HIDE DEF k
  <2>2. LinkNews' = LinkNews
    BY <1>3, <2>1 DEF LinkNews
  <2>3. \A i \in LinkNews : events'[i] = events[i]
    BY <2>1 DEF LinkNews
  <2> QED BY <1>2, <1>3, <2>2, <2>3 DEF WillShow
<1>4. CASE events' = events
  <2>1. LinkNews' = LinkNews
    BY <1>4 DEF LinkNews
  <2> QED BY <1>1, <1>2, <1>4, <2>1 DEF LinkInv, WillShow
<1> QED BY <1>1, <1>3, <1>4 DEF LinkInv

(* What is announced is the newest, unless there was no room for it.       *)
LEMMA LinkAnnounced ==
  ASSUME Types, NEW state \in {"up", "down"}, Announce(state), Expected' = state
  PROVE  LinkInv'
<1>1. CASE ~Room
  BY <1>1 DEF Announce, LinkInv
<1>2. CASE Room
  <2> DEFINE k == Len(events)  m == Message(state, Nobody)
  <2>1. events' = Append(events, m) /\ m \in News \cup Prompts
    BY <1>2 DEF Announce, Offer, News, Message
  <2>2. /\ k \in Nat /\ DOMAIN events' = 1..(k + 1)
        /\ events'[k + 1] = m
    BY <2>1, AppendedLast DEF Types
  <2>3. m.what = state
    BY DEF Message
  <2> HIDE DEF k, m
  <2>4. k + 1 \in LinkNews' /\ \A j \in LinkNews' : j <= k + 1
    BY <2>2, <2>3 DEF LinkNews
  <2>5. WillShow(Expected)'
    BY <2>2, <2>3, <2>4 DEF WillShow
  <2> QED BY <2>5 DEF LinkInv
<1> QED BY <1>1, <1>2

(* Taking a message off the channel keeps the link's invariant. *)
LEMMA TakeLink == ASSUME Types, LinkInv, Take PROVE LinkInv'
<1> DEFINE m == Head(events)  k == Len(events)
<1>1. /\ ~quit /\ events # <<>> /\ events' = Tail(events) /\ UNCHANGED <<phase, stale>>
      /\ header' = IF m.what \in {"up", "down"} THEN m.what ELSE header
  BY DEF Take, workVars, historyVars
<1>2. /\ k \in Nat \ {0} /\ DOMAIN events = 1..k /\ DOMAIN events' = 1..(k - 1)
      /\ \A i \in 1..(k - 1) : events'[i] = events[i + 1]
      /\ m = events[1]
  BY <1>1, TailShifts DEF Types
<1> HIDE DEF m, k
<1>3. Expected' = Expected
  BY <1>1 DEF Expected
<1>4. \A i : i \in LinkNews' => i + 1 \in LinkNews /\ i \in Nat \ {0} /\ events'[i] = events[i + 1]
  BY <1>2 DEF LinkNews
<1>5. \A i \in LinkNews : i \in Nat /\ (i # 1 => i - 1 \in LinkNews' /\ events'[i - 1] = events[i])
  BY <1>2 DEF LinkNews
<1>6. ASSUME NEW state, LinkNews = {}, header = state PROVE WillShow(state)'
  <2>1. LinkNews' = {}
    BY <1>4, <1>6
  <2>2. m.what \notin {"up", "down"}
    BY <1>2, <1>6 DEF LinkNews
  <2> QED BY <1>1, <1>6, <2>1, <2>2 DEF WillShow
<1>7. ASSUME NEW state, NEW i \in LinkNews, events[i].what = state, \A j \in LinkNews : j <= i
      PROVE  WillShow(state)'
  <2>1. CASE i = 1
    <3>1. LinkNews' = {}
      <4>1. ASSUME NEW j \in LinkNews' PROVE FALSE
        BY <1>4, <1>7, <2>1, <4>1
      <4> QED BY <4>1
    <3>2. header' = state
      BY <1>1, <1>2, <1>7, <2>1 DEF LinkNews
    <3> QED BY <3>1, <3>2 DEF WillShow
  <2>2. CASE i # 1
    <3>1. i - 1 \in LinkNews' /\ events'[i - 1] = events[i]
      BY <1>5, <2>2
    <3>2. \A j \in LinkNews' : j <= i - 1
      <4>1. ASSUME NEW j \in LinkNews' PROVE j <= i - 1
        <5>1. j \in Nat /\ i \in Nat /\ j + 1 <= i
          BY <1>4, <1>5, <1>7
        <5> QED BY <5>1
      <4> QED BY <4>1
    <3> QED BY <1>7, <3>1, <3>2 DEF WillShow
  <2> QED BY <2>1, <2>2
<1>8. stale \/ WillShow(Expected)
  BY <1>1 DEF LinkInv
<1> QED BY <1>1, <1>3, <1>6, <1>7, <1>8 DEF LinkInv, WillShow, Expected

-----------------------------------------------------------------------------

(* What the groups of steps say in the channel.                            *)
Tells(but) ==
  \/ events' = events
  \/ \E m \in News \cup Prompts : m.what \notin but /\ events' = Append(events, m)

(* Offering a message of another kind than those excepted tells the screen nothing of
   them. *)
LEMMA OfferTells ==
  ASSUME NEW w \in {"started", "serviced", "clear", "up", "down", "line"}, NEW x \in Names \cup {Nobody},
         NEW but, Offer(Message(w, x)), w \notin but
  PROVE  Tells(but)
<1>1. Message(w, x) \in News \cup Prompts /\ Message(w, x).what = w
  BY DEF Message, News
<1>2. events' = events \/ events' = Append(events, Message(w, x))
  BY DEF Offer
<1> QED BY <1>1, <1>2 DEF Tells

(* A step of a dispatcher says nothing of the link. *)
LEMMA DispatchLink == ASSUME Types, GateInv, LinkInv, Dispatch PROVE LinkInv' /\ quit' = quit
<1> USE DEF screenVars, historyVars
<1>1. UNCHANGED <<header, stale, quit>> /\ Tells({"up", "down"})
  <2>1. CASE RanOnce
    BY <2>1 DEF RanOnce, Tells
  <2>2. ASSUME NEW d \in Dispatchers, ListCur(d) \/ ListNew(d)
        PROVE  UNCHANGED <<header, stale, quit>> /\ Tells({"up", "down"})
    BY <2>2 DEF ListCur, ListNew, Tells
  <2>3. ASSUME NEW d \in Dispatchers, NEW n \in Names, RecoverOne(d, n) \/ DrainOne(d, n)
        PROVE  UNCHANGED <<header, stale, quit>> /\ Tells({"up", "down"})
    <3>1. UNCHANGED <<header, stale, quit>> /\ (events' = events \/ Offer(Message("started", n)))
      BY <2>3 DEF RecoverOne, DrainOne, Begin
    <3> QED BY <3>1, OfferTells DEF Tells
  <2>4. ASSUME NEW d \in Dispatchers, NEW n \in Names, Deliver(d, n)
        PROVE  UNCHANGED <<header, stale, quit>> /\ Tells({"up", "down"})
    <3>1. UNCHANGED <<header, stale, quit>>
      BY <2>4 DEF Deliver
    <3>2. events' = events \/ Offer(Message("clear", n)) \/ Offer(Message("serviced", n))
      BY <2>4 DEF Deliver
    <3>3. Tells({"up", "down"})
      BY <3>2, OfferTells DEF Tells
    <3> QED BY <3>1, <3>3
  <2> QED BY <2>1, <2>2, <2>3, <2>4 DEF Dispatch
<1>2. phase'[Serve] = "dialing" <=> phase[Serve] = "dialing"
  BY DispatchMoves DEF Moves, Working
<1>3. CASE quit
  BY <1>1, <1>3 DEF LinkInv
<1>4. CASE ~quit
  BY <1>1, <1>2, <1>4, LinkFrame DEF Tells
<1> QED BY <1>1, <1>3, <1>4

(* A step of a dispatcher keeps the console's invariant. *)
LEMMA DispatchStep == ASSUME ConsoleInv, Dispatch PROVE ConsoleInv'
<1>1. Types' /\ GateInv' /\ StartInv' /\ ShownInv'
  BY DispatchTypes, DispatchGate, DispatchSaid DEF ConsoleInv
<1>2. LinkInv' /\ quit' = quit
  BY DispatchLink DEF ConsoleInv
<1>3. ScreenKept /\ AskingKept
  BY DispatchKeeps DEF ConsoleInv, AskingKept
<1>4. WaitInv'
  BY <1>2, <1>3, WaitFrame DEF ConsoleInv
<1> QED BY <1>1, <1>2, <1>4 DEF ConsoleInv

(* The worker announces every end and every beginning of a session.        *)
LEMMA WorkerStep == ASSUME ConsoleInv, Worker PROVE ConsoleInv'
<1> USE CastFacts DEF screenVars, historyVars
<1>0. Types /\ GateInv /\ WaitInv /\ StartInv /\ ShownInv /\ LinkInv
  BY DEF ConsoleInv
<1>1. Types' /\ GateInv'
  BY <1>0, WorkerTypes, WorkerGate
<1>2. UNCHANGED <<job, shown, unsaid, quit, header>>
  BY DEF Worker, Check, Unpark, CycleEnds, Connect, Cancel, workVars
<1>3. ScreenKept /\ AskingKept
  BY <1>0, WorkerKeeps DEF AskingKept
<1>4. WaitInv'
  BY <1>0, <1>2, <1>3, WaitFrame
<1>5. Tells({"started"})
  BY OfferTells DEF Worker, Check, Unpark, CycleEnds, Connect, Cancel, Announce, Tells
<1>6. StartInv' /\ ShownInv'
  BY <1>0, <1>2, <1>5, ServiceFrame DEF Tells
<1>7. LinkInv'
  <2>1. CASE quit
    BY <1>2, <2>1 DEF LinkInv
  <2>2. CASE ~quit /\ (Check \/ Unpark)
    <3>1. UNCHANGED <<events, header, stale>> /\ phase[Serve] # "dialing" /\ phase'[Serve] # "dialing"
      BY <1>0, <2>2 DEF Check, Unpark, Go, Types
    <3> QED BY <1>0, <2>2, <3>1, LinkFrame
  <2>3. CASE ~quit /\ CycleEnds
    <3>1. Announce("down") /\ phase'[Serve] = "dialing"
      BY <1>0, <2>3 DEF CycleEnds, Go, Types
    <3>2. Expected' = "down"
      BY <3>1 DEF Expected
    <3> QED BY <1>0, <3>1, <3>2, LinkAnnounced
  <2>4. CASE ~quit /\ Connect
    <3>1. Announce("up") /\ phase'[Serve] = "checking"
      BY <1>0, <2>4 DEF Connect, Go, Types
    <3>2. Expected' = "up"
      BY <3>1 DEF Expected
    <3> QED BY <1>0, <3>1, <3>2, LinkAnnounced
  <2> QED BY <2>1, <2>2, <2>3, <2>4 DEF Worker, Cancel
<1> QED BY <1>1, <1>4, <1>6, <1>7 DEF ConsoleInv

(* An action of the operator keeps the console's invariant. *)
LEMMA ActionStep == ASSUME ConsoleInv, Action PROVE ConsoleInv'
<1> USE CastFacts DEF screenVars, historyVars
<1>0. Types /\ GateInv /\ WaitInv /\ StartInv /\ ShownInv /\ LinkInv
  BY DEF ConsoleInv
<1>1. Types' /\ GateInv'
  BY <1>0, ActionTypes, ActionGate
<1>2. UNCHANGED <<job, shown, unsaid, quit, header, stale>>
  BY DEF Action, Ensure, Packages, InstallAgent, Wipe, Provision, Ping, ReadPong, Record, workVars
<1>3. phase'[Serve] = phase[Serve]
  BY <1>0 DEF Action, Ensure, Packages, InstallAgent, Wipe, Provision, Ping, ReadPong, Record, workVars,
         Go, Types
<1>4. ScreenKept /\ AskingKept
  BY <1>0, ActionKeeps DEF AskingKept
<1>5. WaitInv'
  BY <1>0, <1>2, <1>4, WaitFrame
<1>6. Tells({"started", "up", "down"})
  BY OfferTells
     DEF Action, Ensure, Packages, InstallAgent, Wipe, Provision, Ping, ReadPong, Record, Tells
<1>7. StartInv' /\ ShownInv'
  BY <1>0, <1>2, <1>6, ServiceFrame DEF Tells
<1>8. LinkInv'
  <2>1. CASE quit
    BY <1>2, <2>1 DEF LinkInv
  <2>2. CASE ~quit
    BY <1>0, <1>2, <1>3, <1>6, <2>2, LinkFrame DEF Tells
  <2> QED BY <2>1, <2>2
<1> QED BY <1>1, <1>5, <1>7, <1>8 DEF ConsoleInv

(* A step that neither says nor takes anything, and settles at most who    *)
(* is held at the gate.                                                    *)
LEMMA SilentStep ==
  ASSUME Types, StartInv, ShownInv, LinkInv,
         UNCHANGED <<events, shown, unsaid, header, stale, phase>>, quit' = quit,
         \A n \in Names : job[Serve][n] # "no" => job'[Serve][n] # "no"
  PROVE  StartInv' /\ ShownInv' /\ LinkInv'
<1>1. StartInv' /\ ShownInv'
  BY ServiceFrame
<1>2. LinkInv'
  <2>1. CASE quit
    BY <2>1 DEF LinkInv
  <2>2. CASE ~quit
    BY <2>2, LinkFrame
  <2> QED BY <2>1, <2>2
<1> QED BY <1>1, <1>2

(* A settled gate takes no job of the serving dispatcher back to not begun. *)
LEMMA SettleKeeps ==
  ASSUME Types, NEW r \in Requests, NEW allowed \in BOOLEAN, Settle(r, allowed)
  PROVE  \A n \in Names : job[Serve][n] # "no" => job'[Serve][n] # "no"
BY CastFacts DEF Settle, Set, Types

(* The steps of the environment, handlers and gates keep the console's invariant. *)
LEMMA OthersStep ==
  ASSUME ConsoleInv,
         Environment \/ Result \/ Submit \/ (\E k \in Kinds : Open(k))
           \/ (\E r \in Requests : Gate(r)) \/ (\E a \in Askers : Lock(a))
  PROVE  ConsoleInv'
<1> USE DEF screenVars, historyVars, workVars
<1>0. Types /\ GateInv /\ WaitInv /\ StartInv /\ ShownInv /\ LinkInv
  BY DEF ConsoleInv
<1>1. Types' /\ GateInv' /\ ScreenKept /\ AskingKept
  BY <1>0, OthersTypes, OthersGate, OthersKeep
<1>2. UNCHANGED <<events, shown, unsaid, header, stale, phase, quit>>
  BY DEF Environment, DropLink, StartFetch, AskPassword, Send, Result, Submit, Open, Gate, Lock
<1>3. WaitInv'
  BY <1>0, <1>1, <1>2, WaitFrame
<1>4. \A n \in Names : job[Serve][n] # "no" => job'[Serve][n] # "no"
  <2>1. CASE Environment \/ Result \/ Submit \/ (\E k \in Kinds : Open(k))
    BY <2>1 DEF Environment, DropLink, StartFetch, AskPassword, Send, Result, Submit, Open
  <2>2. ASSUME NEW r \in Requests, Gate(r) PROVE job' = job \/ Settle(r, verdict = "allow")
    BY <2>2 DEF Gate
  <2>3. ASSUME NEW a \in Askers, Lock(a)
        PROVE  job' = job \/ (a \in Requests /\ Settle(a, verdict = "allow"))
    BY <2>3 DEF Lock
  <2> QED BY <1>0, <2>1, <2>2, <2>3, SettleKeeps
<1> QED BY <1>0, <1>1, <1>2, <1>3, <1>4, SilentStep DEF ConsoleInv

(* Sending a prompt or giving it up keeps the console's invariant. *)
LEMMA PromptStep == ASSUME ConsoleInv, NEW a \in Askers, Prompt(a) \/ Abandon(a) PROVE ConsoleInv'
<1> USE DEF screenVars, historyVars, workVars
<1>0. Types /\ GateInv /\ WaitInv /\ StartInv /\ ShownInv /\ LinkInv
  BY DEF ConsoleInv
<1>1. Types' /\ GateInv'
  BY <1>0, PromptTypes, PromptGate
<1>2. CASE Prompt(a)
  <2>1. UNCHANGED <<shown, unsaid, header, stale, phase, job, quit>> /\ ~quit
    BY <1>2 DEF Prompt
  <2>2. Tells({"started", "up", "down"})
    <3>1. Message("prompt", a) \in News \cup Prompts /\ Message("prompt", a).what = "prompt"
      BY DEF Message, Prompts
    <3> QED BY <1>2, <3>1 DEF Prompt, Tells
  <2>3. StartInv' /\ ShownInv'
    BY <1>0, <2>1, <2>2, ServiceFrame DEF Tells
  <2>4. LinkInv'
    BY <1>0, <2>1, <2>2, LinkFrame DEF Tells
  <2>5. WaitInv'
    BY <1>0, <1>2, PromptPlaced
  <2> QED BY <1>1, <2>3, <2>4, <2>5 DEF ConsoleInv
<1>3. CASE Abandon(a)
  <2>1. UNCHANGED <<events, shown, unsaid, header, stale, phase, quit>> /\ quit
    BY <1>3 DEF Abandon
  <2>2. job' = job \/ (a \in Requests /\ Settle(a, FALSE))
    BY <1>3 DEF Abandon
  <2>3. \A n \in Names : job[Serve][n] # "no" => job'[Serve][n] # "no"
    BY <1>0, <2>2, SettleKeeps
  <2>4. StartInv' /\ ShownInv' /\ LinkInv'
    BY <1>0, <2>1, <2>3, SilentStep
  <2>5. WaitInv'
    BY <2>1 DEF WaitInv
  <2> QED BY <1>1, <2>4, <2>5 DEF ConsoleInv
<1> QED BY <1>2, <1>3

(* Taking a message off the channel keeps the console's invariant. *)
LEMMA TakeStep == ASSUME ConsoleInv, Take PROVE ConsoleInv'
<1>0. Types /\ GateInv /\ WaitInv /\ StartInv /\ ShownInv /\ LinkInv
  BY DEF ConsoleInv
<1>1. UNCHANGED <<phase, job, ask>>
  BY DEF Take, workVars, promptVars
<1>2. GateInv'
  BY <1>0, <1>1, GateFrame
<1> QED BY <1>0, <1>2, TakeTypes, TakePlaced, TakeSaid, TakeLink DEF ConsoleInv

(* An answer to a modal keeps the console's invariant. *)
LEMMA AnswerModalStep == ASSUME ConsoleInv, NEW c \in Choices, AnswerModal(c) PROVE ConsoleInv'
<1>0. Types /\ GateInv /\ WaitInv /\ StartInv /\ ShownInv /\ LinkInv
  BY DEF ConsoleInv
<1>1. Types' /\ GateInv' /\ WaitInv'
  BY <1>0, AnswerModalTypes, AnswerGate, ModalPlaced
<1>2. UNCHANGED <<events, shown, unsaid, header, stale, phase, quit>>
  BY DEF AnswerModal
<1>3. \A n \in Names : job[Serve][n] # "no" => job'[Serve][n] # "no"
  <2>1. Head(modals) \in Askers \ {Dial}
    BY <1>0, Taken DEF AnswerModal, Types
  <2>2. job' = job \/ (Head(modals) \in Requests /\ Settle(Head(modals), c.allow))
    BY <2>1 DEF AnswerModal, Askers
  <2>3. c.allow \in BOOLEAN
    BY DEF Choices
  <2> QED BY <1>0, <2>2, <2>3, SettleKeeps
<1> QED BY <1>0, <1>1, <1>2, <1>3, SilentStep DEF ConsoleInv

(* An answer to a password form keeps the console's invariant. *)
LEMMA AnswerPasswordStep ==
  ASSUME ConsoleInv, NEW accepted \in BOOLEAN, AnswerPassword(accepted) PROVE ConsoleInv'
<1>0. Types /\ GateInv /\ WaitInv /\ StartInv /\ ShownInv /\ LinkInv
  BY DEF ConsoleInv
<1>1. Types' /\ GateInv' /\ WaitInv'
  BY <1>0, AnswerPasswordTypes, AnswerGate, PasswordPlaced
<1>2. UNCHANGED <<job, shown, unsaid>> /\ \E state \in {"up", "down"} : Announce(state)
  BY DEF AnswerPassword
<1>3. Tells({"started"})
  BY <1>2, OfferTells DEF Announce
<1>4. StartInv' /\ ShownInv'
  BY <1>0, <1>2, <1>3, ServiceFrame DEF Tells
<1>5. phase[Serve] = "dialing"
  BY <1>0, PasswordAsks DEF AnswerPassword, GateInv
<1>6. LinkInv'
  <2>1. CASE accepted
    <3>1. Announce("up") /\ Expected' = "up"
      BY <1>0, <2>1, CastFacts DEF AnswerPassword, Go, Expected, Types
    <3> QED BY <1>0, <3>1, LinkAnnounced
  <2>2. CASE ~accepted
    <3>1. Announce("down") /\ Expected' = "down"
      BY <1>5, <2>2 DEF AnswerPassword, Expected
    <3> QED BY <1>0, <3>1, LinkAnnounced
  <2> QED BY <2>1, <2>2
<1> QED BY <1>1, <1>4, <1>6 DEF ConsoleInv

(* After quit there is nothing to wait for and nothing to show.            *)
LEMMA QuitStep == ASSUME ConsoleInv, Quit PROVE ConsoleInv'
<1>0. Types /\ GateInv /\ WaitInv /\ StartInv /\ ShownInv /\ LinkInv
  BY DEF ConsoleInv
<1>1. quit' = TRUE /\ UNCHANGED <<phase, job, ask, events, modals, pwReqs, header, stale, shown, unsaid>>
  BY DEF Quit, workVars, promptVars, screenVars, historyVars
<1>2. Types'
  BY <1>0, <1>1 DEF Types
<1>3. GateInv'
  BY <1>0, <1>1, GateFrame
<1>4. StartInv' /\ ShownInv'
  BY <1>0, <1>1, ServiceFrame
<1>5. WaitInv' /\ LinkInv'
  BY <1>1 DEF WaitInv, LinkInv
<1> QED BY <1>2, <1>3, <1>4, <1>5 DEF ConsoleInv

(* A step that moves none of what the invariant is about keeps it. *)
LEMMA IdleStep == ASSUME ConsoleInv, quit' = quit,
    UNCHANGED <<phase, job, ask, events, modals, pwReqs, header, stale, shown, unsaid>> PROVE ConsoleInv'
<1>0. Types /\ GateInv /\ WaitInv /\ StartInv /\ ShownInv /\ LinkInv
  BY DEF ConsoleInv
<1>1. Types'
  BY <1>0 DEF Types
<1>2. GateInv'
  BY <1>0, GateFrame
<1>3. StartInv' /\ ShownInv' /\ LinkInv'
  BY <1>0, SilentStep
<1>4. WaitInv'
  BY <1>0, WaitFrame DEF ScreenKept, AskingKept
<1> QED BY <1>1, <1>2, <1>3, <1>4 DEF ConsoleInv

(* Every step keeps the console's invariant. *)
LEMMA ConsoleNext == ASSUME ConsoleInv, [Next]_vars PROVE ConsoleInv'
<1>1. CASE UNCHANGED vars
  <2>1. UNCHANGED <<quit, phase, job, ask, events, modals, pwReqs, header, stale, shown, unsaid>>
    BY <1>1 DEF vars, workVars, promptVars, screenVars, historyVars
  <2> QED BY <2>1, IdleStep
<1>2. CASE System
  <2>1. CASE Approver
    BY <2>1, OthersStep, PromptStep DEF Approver
  <2> QED BY <1>2, <2>1, DispatchStep, WorkerStep, ActionStep, TakeStep, OthersStep DEF System
<1>3. CASE Operator
  BY <1>3, AnswerModalStep, AnswerPasswordStep, OthersStep, QuitStep DEF Operator
<1>4. CASE Environment
  BY <1>4, OthersStep
<1> QED BY <1>1, <1>2, <1>3, <1>4 DEF Next

(* A console begins with its invariant. *)
LEMMA ConsoleInit == Init => ConsoleInv
<1> SUFFICES ASSUME Init PROVE ConsoleInv
  OBVIOUS
<1> USE CastFacts
<1>1. /\ events = <<>> /\ modals = <<>> /\ pwReqs = <<>> /\ shown = {} /\ header = "up" /\ stale = FALSE
      /\ ask = [a \in Askers |-> "no"] /\ job = [d \in Dispatchers |-> [n \in Names |-> "no"]]
      /\ phase = [d \in Dispatchers |-> IF d = Serve THEN "checking" ELSE "off"]
  BY DEF Init
<1>2. DOMAIN events = {} /\ DOMAIN modals = {} /\ DOMAIN pwReqs = {}
  BY <1>1
<1>3. Types
  <2>1. events \in Seq(News \cup Prompts) /\ modals \in Seq(Askers \ {Dial}) /\ pwReqs \in Seq({Dial})
    BY <1>1
  <2> QED BY <1>1, <2>1 DEF Types, Phases, Stages
<1>4. GateInv
  BY <1>1 DEF GateInv, Idle
<1>5. WaitInv
  BY <1>1, <1>2 DEF WaitInv, Placed, Positions, Empty
<1>6. StartInv /\ ShownInv
  BY <1>1, <1>2 DEF StartInv, ShownInv
<1>7. LinkInv
  <2>1. LinkNews = {} /\ Expected = "up"
    BY <1>1, <1>2 DEF LinkNews, Expected
  <2> QED BY <1>1, <2>1 DEF LinkInv, WillShow
<1> QED BY <1>3, <1>4, <1>5, <1>6, <1>7 DEF ConsoleInv

-----------------------------------------------------------------------------

(* The heartbeat's steps beside it are the console's, or leave its state.  *)
LEMMA BeatConsole ==
  BeatNext => \/ Next
              \/ quit' = quit /\ UNCHANGED <<phase, job, ask, events, modals, pwReqs, header, stale, shown, unsaid>>
<1> SUFFICES ASSUME BeatNext
             PROVE  \/ Next
                    \/ UNCHANGED <<quit, phase, job, ask, events, modals, pwReqs, header, stale, shown, unsaid>>
  OBVIOUS
<1> USE DEF vars, workVars, promptVars, screenVars, historyVars
<1>1. CASE ConsoleStep
  BY <1>1 DEF ConsoleStep
<1>2. CASE OtherBootstrap
  BY <1>2 DEF OtherBootstrap
<1>3. ASSUME NEW w \in writers, Beat(w) PROVE UNCHANGED vars
  BY <1>3 DEF Beat, Late, Seed, WriteHeartbeat, Crossed
<1>4. CASE Tick
  BY <1>4 DEF Tick
<1>5. ASSUME NEW r \in Requests, Poll(r) PROVE UNCHANGED vars
  BY <1>5 DEF Poll
<1> QED BY <1>1, <1>2, <1>3, <1>4, <1>5 DEF BeatNext

(* The invariant of the console, with the heartbeat and its clients.       *)
LEMMA ConsoleInvariant == BeatSpec => []ConsoleInv
<1>1. BeatInit => ConsoleInv
  BY ConsoleInit DEF BeatInit
<1>2. ConsoleInv /\ [BeatNext]_allVars => ConsoleInv'
  <2> SUFFICES ASSUME ConsoleInv, [BeatNext]_allVars PROVE ConsoleInv'
    OBVIOUS
  <2>1. CASE BeatNext
    BY <2>1, BeatConsole, ConsoleNext, IdleStep
  <2>2. CASE UNCHANGED allVars
    BY <2>2, ConsoleNext DEF allVars
  <2> QED BY <2>1, <2>2
<1> QED BY <1>1, <1>2, PTL DEF BeatSpec

(* An asker has one place if it waits, and none otherwise.                 *)
LEMMA PlacedOnce ==
  ASSUME NEW a \in Askers, Placed(a)
  PROVE  Cardinality(Places(a)) = (IF ask[a] = "asking" THEN 1 ELSE 0)
<1> DEFINE E == Positions(events, Message("prompt", a))
           M == Positions(modals, a)
           P == Positions(pwReqs, a)
<1>1. Places(a) = ({"sent"} \X E) \cup ({"approval"} \X M) \cup ({"password"} \X P)
  BY DEF Places
<1>2. IF ask[a] = "asking"
      THEN \/ Single(E) /\ M = {} /\ P = {}
           \/ E = {} /\ Single(M) /\ P = {}
           \/ E = {} /\ M = {} /\ Single(P)
      ELSE E = {} /\ M = {} /\ P = {}
  BY DEF Placed, Empty
<1> HIDE DEF E, M, P
<1>3. CASE ask[a] # "asking"
  <2>1. Places(a) = {}
    BY <1>1, <1>2, <1>3
  <2> QED BY <1>3, <2>1, FS_EmptySet
<1>4. CASE ask[a] = "asking"
  <2>1. \E p : Places(a) = {p}
    <3>1. ASSUME NEW i, E = {i}, M = {}, P = {} PROVE Places(a) = {<<"sent", i>>}
      BY <1>1, <3>1
    <3>2. ASSUME NEW i, E = {}, M = {i}, P = {} PROVE Places(a) = {<<"approval", i>>}
      BY <1>1, <3>2
    <3>3. ASSUME NEW i, E = {}, M = {}, P = {i} PROVE Places(a) = {<<"password", i>>}
      BY <1>1, <3>3
    <3> QED BY <1>2, <1>4, <3>1, <3>2, <3>3 DEF Single
  <2> QED BY <1>4, <2>1, FS_Singleton
<1> QED BY <1>3, <1>4

(***************************************************************************)
(* Whoever waits for the operator has exactly one prompt, in the channel   *)
(* or on the screen, and nobody else has one: for any number of requests,  *)
(* dropped links, passwords, proxied connections and quits, and whatever   *)
(* the room in the channel (PromptsHaveWaiters of Console).                *)
(***************************************************************************)
THEOREM ConsolePrompts == BeatSpec => []PromptsHaveWaiters
<1>1. ConsoleInv => PromptsHaveWaiters
  BY PlacedOnce DEF ConsoleInv, WaitInv, PromptsHaveWaiters
<1> QED BY <1>1, ConsoleInvariant, PTL

(***************************************************************************)
(* The serving banner and the link state follow the worker, but for what   *)
(* the channel had no room for and what the link cut off (ScreenFollows of *)
(* Console), in every instance.                                            *)
(***************************************************************************)
THEOREM ConsoleScreen == BeatSpec => []ScreenFollows
<1>1. ConsoleInv => ScreenFollows
  BY DEF ConsoleInv, ShownInv, EndOpen, LinkInv, Expected, ScreenFollows
<1> QED BY <1>1, ConsoleInvariant, PTL

-----------------------------------------------------------------------------

(***************************************************************************)
(* The heartbeat, and a client's patience. A number that a client saw last *)
(* and that is written again hides the heartbeat until the loop's next     *)
(* write and the client's next look. How often that may happen is counted, *)
(* and what is left of the patience is for that many times enough.         *)
(***************************************************************************)

(* Where a client waits, nothing but the serve cycle runs.                 *)
AloneInv ==
  /\ op = NoAction /\ form = "" /\ left.actions = {}
  /\ phase[Smoke] = "off" /\ Idle(Smoke)
  /\ session \in [n : Nat, up : BOOLEAN]
  /\ mail \in [Names -> {"unsent", "new", "cur", "gone"}]
  /\ pass \in [Dispatchers -> SUBSET Names]
  /\ quit \in BOOLEAN /\ (quit => ~session.up)

(* Only a lost link ends a cycle: nobody else moves what it has listed.    *)
(* Without a tree there is none.                                           *)
PassInv ==
  /\ ~ready => phase[Serve] \in {"checking", "parked", "off"}
  /\ phase[Serve] = "recover" => pass[Serve] \subseteq {n \in Names : mail[n] = "cur"}
  /\ phase[Serve] = "drain" => pass[Serve] \subseteq {n \in Names : mail[n] = "new"}
  /\ phase[Serve] = "ending" => ~session.up

(* What a cast still allows only shrinks, and not on the console's account *)
(* where it is the heartbeat's.                                            *)
CastKept == left' \in CastType /\ left'.watch = left.watch /\ left'.boots = left.boots

(* Using up what the cast allows leaves the rest of it.                    *)
LEMMA Used ==
  ASSUME left \in CastType, NEW what \in {"drops", "asks", "fetches", "quits"}, Use(what)
  PROVE  /\ CastKept /\ left'.actions = left.actions
         /\ what # "drops" => left'.drops = left.drops
         /\ what = "drops" => left.drops > 0 /\ left'.drops = left.drops - 1
BY DEF Use, CastType, CastKept

(* Every step of the console keeps the cast.                               *)
LEMMA CastKeeps == ASSUME left \in CastType, Next PROVE CastKept
<1>0. left' = left => CastKept
  BY DEF CastKept
<1>1. CASE System
  <2>1. left' = left
    <3>1. CASE Dispatch
      BY <3>1, ZenonT(30) DEF Dispatch, RanOnce, ListCur, ListNew, RecoverOne, DrainOne, Deliver
    <3>2. CASE Approver
      BY <3>2 DEF Approver, Gate, Lock, Prompt, Abandon
    <3>3. CASE Worker
      BY <3>3 DEF Worker, Check, Unpark, CycleEnds, Connect, Cancel
    <3>4. CASE Action
      BY <3>4 DEF Action, Ensure, Packages, InstallAgent, Wipe, Provision, Ping, ReadPong, Record
    <3>5. CASE Take \/ Result
      BY <3>5 DEF Take, Result
    <3> QED BY <1>1, <3>1, <3>2, <3>3, <3>4, <3>5 DEF System
  <2> QED BY <1>0, <2>1
<1>2. CASE Operator
  <2>1. CASE (\E c \in Choices : AnswerModal(c)) \/ (\E accepted \in BOOLEAN : AnswerPassword(accepted)) \/ Submit
    <3>1. left' = left
      BY <2>1 DEF AnswerModal, AnswerPassword, Submit
    <3> QED BY <1>0, <3>1
  <2>2. ASSUME NEW kind \in Kinds, Open(kind) PROVE CastKept
    <3>1. left' = [left EXCEPT !.actions = @ \ {kind}]
      BY <2>2 DEF Open
    <3> QED BY <3>1 DEF CastType, CastKept
  <2>3. CASE Quit
    BY <2>3, Used DEF Quit
  <2> QED BY <1>2, <2>1, <2>2, <2>3 DEF Operator
<1>3. CASE Environment
  <2>1. ASSUME NEW r \in Requests, Send(r) PROVE CastKept
    BY <1>0, <2>1 DEF Send
  <2> QED BY <1>3, <2>1, Used DEF Environment, DropLink, StartFetch, AskPassword
<1> QED BY <1>1, <1>2, <1>3 DEF Next

LinkSame == session' = session /\ quit' = quit /\ left'.drops = left.drops
Down == session' = [session EXCEPT !.up = FALSE]

(* What happens to the cycle and its link.                                 *)
Cycle ==
  LET p == phase[Serve] q == phase'[Serve] IN
  \/ q = p /\ LinkSame
  \/ q = p /\ session.up /\ Down /\ quit' = quit /\ left.drops > 0 /\ left'.drops = left.drops - 1
  \/ q = p /\ Down /\ quit' /\ left'.drops = left.drops
  \/ p = "list cur" /\ q = "recover" /\ LinkSame
  \/ p = "recover" /\ q = "drain" /\ LinkSame
  \/ p \in {"list cur", "recover", "drain"} /\ q = "ending" /\ ~session.up /\ LinkSame
  \/ p = "ending" /\ q \in {"dialing", "off"} /\ Down /\ quit' = quit /\ left'.drops = left.drops
  \/ /\ p = "dialing" /\ q = "checking" /\ ~quit /\ quit' = quit /\ left'.drops = left.drops
     /\ session' = [n |-> session.n + 1, up |-> TRUE]
  \/ p \in {"checking", "parked"} /\ q \in {"checking", "parked", "list cur", "off"} /\ LinkSame
  \/ p = "dialing" /\ q = "off" /\ LinkSame

(* The dispatchers' steps are those of the serve cycle's.                  *)
LEMMA DispatchAlone ==
  ASSUME Types, AloneInv, Dispatch
  PROVE  /\ \/ ListCur(Serve) \/ ListNew(Serve)
            \/ \E n \in Names : RecoverOne(Serve, n) \/ DrainOne(Serve, n) \/ Deliver(Serve, n)
         /\ AloneInv' /\ UNCHANGED <<ready, left, session, quit>>
<1> USE CastFacts
<1>1. ~RanOnce
  BY DEF AloneInv, RanOnce
<1>2. ~ListCur(Smoke) /\ ~ListNew(Smoke)
  BY DEF AloneInv, ListCur, ListNew
<1>3. \A n \in Names : ~RecoverOne(Smoke, n) /\ ~DrainOne(Smoke, n) /\ ~Deliver(Smoke, n)
  BY DEF AloneInv, Idle, RecoverOne, DrainOne, Deliver
<1>4. \/ ListCur(Serve) \/ ListNew(Serve)
      \/ \E n \in Names : RecoverOne(Serve, n) \/ DrainOne(Serve, n) \/ Deliver(Serve, n)
  BY <1>1, <1>2, <1>3 DEF Dispatch, Dispatchers
<1>5. CASE ListCur(Serve) \/ ListNew(Serve)
  <2>1. UNCHANGED <<ready, mail, job, op, form, left, session, quit>>
    BY <1>5 DEF ListCur, ListNew, mailVars, screenVars
  <2>2. phase'[Smoke] = phase[Smoke]
    BY <1>5 DEF ListCur, ListNew, Go, Fail, Types
  <2>3. pass' = pass \/ \E X \in SUBSET Names : pass' = [pass EXCEPT ![Serve] = X]
    <3>1. \A s : {n \in Names : mail[n] = s} \in SUBSET Names
      OBVIOUS
    <3> QED BY <1>5, <3>1 DEF ListCur, ListNew
  <2>4. pass' \in [Dispatchers -> SUBSET Names]
    BY <2>3 DEF AloneInv
  <2> QED BY <1>4, <2>1, <2>2, <2>4 DEF AloneInv, Idle
<1>6. ASSUME NEW n \in Names, RecoverOne(Serve, n) \/ DrainOne(Serve, n) \/ Deliver(Serve, n)
      PROVE  AloneInv' /\ UNCHANGED <<ready, left, session, quit>>
  <2>1. /\ UNCHANGED <<ready, op, form, left, session, quit>>
        /\ phase'[Smoke] = phase[Smoke] /\ job'[Smoke] = job[Smoke]
    BY <1>6 DEF RecoverOne, DrainOne, Deliver, Begin, Go, Fail, Set, Types, mailVars, screenVars
  <2>2. pass' \in [Dispatchers -> SUBSET Names] /\ mail' \in [Names -> {"unsent", "new", "cur", "gone"}]
    BY <1>6 DEF RecoverOne, DrainOne, Deliver, AloneInv, mailVars
  <2> QED BY <2>1, <2>2 DEF AloneInv, Idle
<1> QED BY <1>4, <1>5, <1>6

(* While the link is up a cycle goes on.                                   *)
LEMMA DispatchCycle ==
  ASSUME Types, GateInv, AloneInv, PassInv, Dispatch PROVE Cycle /\ PassInv'
<1> USE CastFacts
<1>0. Works(Serve) = session.up
  BY DEF Works, Live, AloneInv
<1>7. ready
  <2>1. phase[Serve] \in {"list cur", "recover", "drain"} \/ ~Idle(Serve)
    BY DispatchAlone DEF ListCur, ListNew, RecoverOne, DrainOne, Deliver, Idle
  <2> QED BY <2>1 DEF GateInv, PassInv
<1>1. UNCHANGED <<ready, left, session, quit>> /\ LinkSame
  BY DispatchAlone DEF LinkSame
<1>2. CASE ListCur(Serve)
  <2>1. /\ mail' = mail /\ phase[Serve] = "list cur"
        /\ \/ phase'[Serve] = "recover" /\ pass'[Serve] = {n \in Names : mail[n] = "cur"}
           \/ phase'[Serve] = "ending" /\ ~session.up
    BY <1>0, <1>2, <1>7 DEF ListCur, Go, Fail, Types, AloneInv, mailVars
  <2> QED BY <1>1, <2>1 DEF Cycle, PassInv
<1>3. CASE ListNew(Serve)
  <2>1. /\ mail' = mail /\ phase[Serve] \in {"recover", "drain"}
        /\ \/ phase'[Serve] = "drain" /\ pass'[Serve] = {n \in Names : mail[n] = "new"}
           \/ phase'[Serve] = "ending" /\ ~session.up
    BY <1>0, <1>3, <1>7 DEF ListNew, Go, Fail, Types, AloneInv, mailVars
  <2> QED BY <1>1, <2>1 DEF Cycle, PassInv
<1>4. ASSUME NEW n \in Names, RecoverOne(Serve, n) PROVE Cycle /\ PassInv'
  <2>1. /\ phase[Serve] = "recover" /\ n \in pass[Serve] /\ mail' = mail
        /\ pass'[Serve] = pass[Serve] \ {n}
        /\ phase' = phase \/ Go(Serve, "ending")
    BY <1>4 DEF RecoverOne, Fail, AloneInv, mailVars
  <2>2. mail[n] = "cur"
    BY <2>1 DEF PassInv
  <2>3. phase' = phase \/ ~session.up
    BY <1>0, <1>4, <1>7, <2>2 DEF RecoverOne
  <2>4. phase'[Serve] = "recover" \/ (phase'[Serve] = "ending" /\ ~session.up)
    BY <2>1, <2>3 DEF Go, Types
  <2> QED BY <1>1, <2>1, <2>4 DEF Cycle, PassInv
<1>5. ASSUME NEW n \in Names, DrainOne(Serve, n) PROVE Cycle /\ PassInv'
  <2>1. /\ phase[Serve] = "drain" /\ n \in pass[Serve]
        /\ mail' = mail \/ mail' = [mail EXCEPT ![n] = "cur"]
        /\ pass'[Serve] = pass[Serve] \ {n}
        /\ phase' = phase \/ Go(Serve, "ending")
    BY <1>5 DEF DrainOne, Fail, AloneInv
  <2>2. mail[n] = "new"
    BY <2>1 DEF PassInv
  <2>3. phase' = phase \/ ~session.up
    BY <1>0, <1>5, <1>7, <2>2 DEF DrainOne
  <2>4. phase'[Serve] = "drain" \/ (phase'[Serve] = "ending" /\ ~session.up)
    BY <2>1, <2>3 DEF Go, Types
  <2>5. \A m \in pass'[Serve] : m \in Names /\ mail[m] = "new" /\ mail'[m] = mail[m]
    BY <2>1 DEF PassInv, AloneInv
  <2> QED BY <1>1, <2>1, <2>4, <2>5 DEF Cycle, PassInv
<1>6. ASSUME NEW n \in Names, Deliver(Serve, n) PROVE Cycle /\ PassInv'
  <2>1. UNCHANGED <<mail, pass>> /\ (phase' = phase \/ Go(Serve, "ending"))
    BY <1>6 DEF Deliver, Fail
  <2>2. phase'[Serve] = phase[Serve] \/ (phase'[Serve] = "ending" /\ ~session.up /\ ~Idle(Serve))
    BY <1>0, <1>6, <1>7, <2>1 DEF Deliver, Go, Types, PassInv, Idle
  <2>3. CASE phase'[Serve] = phase[Serve]
    BY <1>1, <2>1, <2>3 DEF Cycle, PassInv
  <2>4. phase[Serve] \in {"recover", "drain", "ending"} \/ Idle(Serve)
    BY DEF GateInv
  <2> QED BY <1>1, <2>1, <2>2, <2>3, <2>4 DEF Cycle, PassInv
<1> QED BY <1>2, <1>3, <1>4, <1>5, <1>6, DispatchAlone

(* The approver moves jobs of the serve cycle only.                        *)
LEMMA ApproverAlone ==
  ASSUME Types, AloneInv, Approver
  PROVE  AloneInv' /\ UNCHANGED <<ready, left, session, quit, phase, pass, mail>>
<1> USE CastFacts
<1>1. /\ UNCHANGED <<ready, left, session, quit, phase, pass, mail, op, form>>
      /\ job' = job \/ \E r \in Requests, allowed \in BOOLEAN : Settle(r, allowed)
  <2>1. ASSUME NEW r \in Requests, Gate(r)
        PROVE  /\ UNCHANGED <<ready, left, session, quit, phase, pass, mail, op, form>>
               /\ job' = job \/ \E allowed \in BOOLEAN : Settle(r, allowed)
    BY <2>1 DEF Gate, mailVars, screenVars
  <2>2. ASSUME NEW a \in Askers, Lock(a) \/ Prompt(a) \/ Abandon(a)
        PROVE  /\ UNCHANGED <<ready, left, session, quit, phase, pass, mail, op, form>>
               /\ job' = job \/ (a \in Requests /\ \E allowed \in BOOLEAN : Settle(a, allowed))
    BY <2>2 DEF Lock, Prompt, Abandon, mailVars, screenVars, workVars
  <2> QED BY <2>1, <2>2 DEF Approver
<1>2. job'[Smoke] = job[Smoke]
  BY <1>1 DEF Settle, Set, Types
<1> QED BY <1>1, <1>2 DEF AloneInv, Idle

(* The worker's steps are the cycle's.                                     *)
LEMMA WorkerAlone ==
  ASSUME Types, AloneInv, Worker
  PROVE  AloneInv' /\ UNCHANGED <<ready, left, quit, pass, mail>>
<1> USE CastFacts
<1>1. UNCHANGED <<ready, left, quit, pass, mail, op, form, job>> /\ phase'[Smoke] = phase[Smoke]
  <2>1. UNCHANGED <<ready, left, quit, pass, mail, op, form, job>>
    BY DEF Worker, Check, Unpark, CycleEnds, Connect, Cancel, mailVars, screenVars
  <2>2. phase' = phase \/ \E to : Go(Serve, to)
    BY DEF Worker, Check, Unpark, CycleEnds, Connect, Cancel
  <2> QED BY <2>1, <2>2 DEF Go, Types
<1>2. session' \in [n : Nat, up : BOOLEAN] /\ (quit => ~session'.up)
  <2>1. CASE Check \/ Unpark \/ Cancel
    BY <2>1 DEF Check, Unpark, Cancel, AloneInv
  <2>2. CASE CycleEnds
    BY <2>2 DEF CycleEnds, AloneInv
  <2>3. CASE Connect
    <3>1. session.n \in Nat /\ ~quit /\ session' = [n |-> session.n + 1, up |-> TRUE]
      BY <2>3 DEF Connect, AloneInv
    <3> QED BY <3>1
  <2> QED BY <2>1, <2>2, <2>3 DEF Worker
<1> QED BY <1>1, <1>2 DEF AloneInv, Idle

(* They end a cycle whose link is lost, and begin one with a new link.     *)
LEMMA WorkerCycle ==
  ASSUME Types, AloneInv, PassInv, Worker PROVE Cycle /\ PassInv'
<1> USE CastFacts
<1>1. UNCHANGED <<left, quit, pass, mail>>
  BY WorkerAlone
<1>6. ready' = ready
  BY WorkerAlone
<1>2. CASE Check \/ Unpark
  <2>1. /\ phase[Serve] \in {"checking", "parked"} /\ phase'[Serve] \in {"checking", "parked", "list cur"}
        /\ session' = session /\ ready' = ready /\ (~ready => phase'[Serve] # "list cur")
    BY <1>2 DEF Check, Unpark, Go, Types, mailVars
  <2>2. Cycle
    BY <1>1, <2>1 DEF Cycle, LinkSame
  <2>3. PassInv'
    BY <1>1, <2>1 DEF PassInv
  <2> QED BY <2>2, <2>3
<1>3. CASE CycleEnds
  <2>1. phase[Serve] = "ending" /\ phase'[Serve] \in {"dialing", "off"} /\ Down
    BY <1>3 DEF CycleEnds, Go, Types, Down
  <2> QED BY <1>1, <1>6, <2>1 DEF Cycle, PassInv
<1>4. CASE Connect
  <2>1. /\ phase[Serve] = "dialing" /\ phase'[Serve] = "checking" /\ ~quit
        /\ session' = [n |-> session.n + 1, up |-> TRUE]
    BY <1>4 DEF Connect, Go, Types
  <2> QED BY <1>1, <1>6, <2>1 DEF Cycle, PassInv
<1>5. CASE Cancel
  <2>1. /\ ~session.up /\ session' = session
        /\ \/ phase[Serve] \in {"list cur", "recover", "drain"} /\ phase'[Serve] = "ending"
           \/ phase[Serve] \in {"checking", "parked", "dialing"} /\ phase'[Serve] = "off"
    BY <1>5 DEF Cancel, Go, Types, AloneInv
  <2> QED BY <1>1, <1>6, <2>1 DEF Cycle, LinkSame, PassInv
<1> QED BY <1>2, <1>3, <1>4, <1>5 DEF Worker

(* No action is under way, or starts.                                      *)
LEMMA ActionAlone == ASSUME AloneInv PROVE ~Action /\ ~Result /\ ~Submit /\ \A k \in Kinds : ~Open(k)
BY DEF AloneInv, NoAction, Action, Ensure, Packages, InstallAgent, Wipe, Provision, Ping, ReadPong, Record,
       Result, Submit, Open

(* Nor does the screen start one.                                          *)
LEMMA ScreenAlone ==
  ASSUME ConsoleInv, AloneInv, PassInv, left \in CastType, Take \/ Operator
  PROVE  AloneInv' /\ ready' = ready /\ Cycle /\ PassInv'
<1> USE CastFacts
<1>0. Types /\ GateInv /\ WaitInv
  BY DEF ConsoleInv
<1>1. CASE Take
  <2>1. UNCHANGED <<ready, left, session, quit, phase, pass, mail, op, form, job>>
    BY <1>1 DEF Take, mailVars, workVars
  <2> QED BY <2>1 DEF AloneInv, Idle, Cycle, LinkSame, PassInv
<1>2. ASSUME NEW c \in Choices, AnswerModal(c) PROVE AloneInv' /\ ready' = ready /\ Cycle /\ PassInv'
  <2>1. /\ UNCHANGED <<ready, left, session, quit, phase, pass, mail, op, form>>
        /\ job' = job \/ Settle(Head(modals), c.allow)
    BY <1>2 DEF AnswerModal, mailVars
  <2>2. job'[Smoke] = job[Smoke]
    BY <1>0, <2>1 DEF Settle, Set, Types
  <2> QED BY <2>1, <2>2 DEF AloneInv, Idle, Cycle, LinkSame, PassInv
<1>3. ASSUME NEW accepted \in BOOLEAN, AnswerPassword(accepted) PROVE AloneInv' /\ ready' = ready /\ Cycle /\ PassInv'
  <2>1. UNCHANGED <<ready, left, quit, pass, mail, op, form, job>> /\ ~quit
    BY <1>3 DEF AnswerPassword, mailVars
  <2>2. phase[Serve] = "dialing"
    BY <1>0, <1>3, PasswordAsks DEF AnswerPassword, GateInv
  <2>3. CASE accepted
    <3>1. phase' = [phase EXCEPT ![Serve] = "checking"] /\ session' = [n |-> session.n + 1, up |-> TRUE]
      BY <1>3, <2>3 DEF AnswerPassword, Go
    <3>2. phase'[Serve] = "checking" /\ phase'[Smoke] = phase[Smoke]
      BY <1>0, <3>1 DEF Types
    <3>3. session' \in [n : Nat, up : BOOLEAN]
      <4>1. session.n \in Nat
        BY DEF AloneInv
      <4> QED BY <3>1, <4>1
    <3> QED BY <2>1, <2>2, <3>1, <3>2, <3>3 DEF AloneInv, Idle, Cycle, PassInv
  <2>4. CASE ~accepted
    <3>1. UNCHANGED <<phase, session>>
      BY <1>3, <2>4 DEF AnswerPassword
    <3> QED BY <2>1, <3>1 DEF AloneInv, Idle, Cycle, LinkSame, PassInv
  <2> QED BY <2>3, <2>4
<1>4. CASE Quit
  <2>1. UNCHANGED <<ready, phase, pass, mail, op, form, job>> /\ quit' /\ quit' = TRUE /\ Down /\ Use("quits")
    BY <1>4 DEF Quit, mailVars, workVars, screenVars, Down
  <2>2. left'.actions = left.actions /\ left'.drops = left.drops
    BY <2>1, Used
  <2>3. session' \in [n : Nat, up : BOOLEAN] /\ ~session'.up
    BY <2>1 DEF Down, AloneInv
  <2> QED BY <2>1, <2>2, <2>3 DEF AloneInv, Idle, Cycle, PassInv
<1> QED BY <1>1, <1>2, <1>3, <1>4, ActionAlone DEF Operator

(* The link is dropped, or a request sent.                                 *)
LEMMA EnvironmentAlone ==
  ASSUME AloneInv, PassInv, left \in CastType, Environment
  PROVE  AloneInv' /\ ready' = ready /\ Cycle /\ PassInv'
<1>1. CASE DropLink
  <2>1. UNCHANGED <<ready, phase, pass, mail, op, form, job, quit>> /\ session.up /\ Down /\ Use("drops")
    BY <1>1 DEF DropLink, mailVars, workVars, screenVars, Down
  <2>2. left'.actions = left.actions /\ left'.drops = left.drops - 1 /\ left.drops > 0
    BY <2>1, Used
  <2>3. session' \in [n : Nat, up : BOOLEAN] /\ ~session'.up
    BY <2>1 DEF Down, AloneInv
  <2> QED BY <2>1, <2>2, <2>3 DEF AloneInv, Idle, Cycle, PassInv
<1>2. CASE StartFetch \/ AskPassword
  <2>1. UNCHANGED <<ready, session, phase, pass, mail, op, form, job, quit>>
    BY <1>2 DEF StartFetch, AskPassword, mailVars, workVars, screenVars
  <2>2. left'.actions = left.actions /\ left'.drops = left.drops
    BY <1>2, Used DEF StartFetch, AskPassword
  <2> QED BY <2>1, <2>2 DEF AloneInv, Idle, Cycle, LinkSame, PassInv
<1>3. ASSUME NEW r \in Requests, Send(r) PROVE AloneInv' /\ ready' = ready /\ Cycle /\ PassInv'
  <2>1. /\ UNCHANGED <<ready, left, session, phase, pass, op, form, job, quit>>
        /\ mail[r] = "unsent" /\ mail' = [mail EXCEPT ![r] = "new"]
    BY <1>3 DEF Send, workVars, screenVars
  <2>2. mail' \in [Names -> {"unsent", "new", "cur", "gone"}]
    BY <2>1 DEF AloneInv
  <2>3. \A n \in Names : mail[n] \in {"cur", "new"} => mail'[n] = mail[n]
    BY <2>1 DEF AloneInv
  <2> QED BY <2>1, <2>2, <2>3 DEF AloneInv, Idle, Cycle, LinkSame, PassInv
<1> QED BY <1>1, <1>2, <1>3 DEF Environment

(* Together: what a step of the console does where a client waits.         *)
LEMMA AloneNext ==
  ASSUME ConsoleInv, AloneInv, PassInv, left \in CastType, Next
  PROVE  AloneInv' /\ ready' = ready /\ Cycle /\ PassInv'
<1> USE DEF ConsoleInv
<1>1. CASE Dispatch
  BY <1>1, DispatchAlone, DispatchCycle
<1>2. CASE Approver
  <2>1. AloneInv' /\ UNCHANGED <<ready, left, session, quit, phase, pass, mail>>
    BY <1>2, ApproverAlone
  <2> QED BY <2>1 DEF Cycle, LinkSame, PassInv
<1>3. CASE Worker
  BY <1>3, WorkerAlone, WorkerCycle
<1> QED BY <1>1, <1>2, <1>3, ActionAlone, ScreenAlone, EnvironmentAlone DEF Next, System

(* What has been sent stays sent.                                          *)
LEMMA SentStays ==
  ASSUME AloneInv, Next, NEW r \in Names, mail[r] # "unsent" PROVE mail'[r] # "unsent"
<1>1. mail \in [Names -> {"unsent", "new", "cur", "gone"}]
  BY DEF AloneInv
<1>2. CASE Dispatch
  <2>1. mail' = mail \/ \E n \in Names : mail' = [mail EXCEPT ![n] = "cur"]
    <3>1. ASSUME NEW d \in Dispatchers, NEW n \in Names, DrainOne(d, n)
          PROVE  mail' = mail \/ mail' = [mail EXCEPT ![n] = "cur"]
      BY <3>1 DEF DrainOne
    <3>2. ASSUME NEW d \in Dispatchers, NEW n \in Names, RecoverOne(d, n) \/ Deliver(d, n)
          PROVE  mail' = mail
      BY <3>2 DEF RecoverOne, Deliver, mailVars
    <3>3. ASSUME NEW d \in Dispatchers, ListCur(d) \/ ListNew(d) PROVE mail' = mail
      BY <3>3 DEF ListCur, ListNew, mailVars
    <3> QED BY <1>2, <3>1, <3>2, <3>3 DEF Dispatch, RanOnce, mailVars
  <2> QED BY <1>1, <2>1
<1>3. CASE Environment
  <2>1. mail' = mail \/ \E n \in Requests : mail' = [mail EXCEPT ![n] = "new"]
    BY <1>3 DEF Environment, DropLink, StartFetch, AskPassword, Send, mailVars
  <2> QED BY <1>1, <2>1
<1>4. CASE Approver \/ Worker \/ Take \/ Operator
  <2>1. CASE Approver
    BY <2>1 DEF Approver, Gate, Lock, Prompt, Abandon, mailVars
  <2>2. CASE Worker
    BY <2>2 DEF Worker, Check, Unpark, CycleEnds, Connect, Cancel, mailVars
  <2>3. CASE Take \/ Operator
    BY <2>3, ActionAlone DEF Take, Operator, AnswerModal, AnswerPassword, Quit, mailVars
  <2> QED BY <1>4, <2>1, <2>2, <2>3
<1> QED BY <1>2, <1>3, <1>4, ActionAlone DEF Next, System

-----------------------------------------------------------------------------

\* The clock, the file and who writes it.
ClockInv ==
  /\ beat \in 0..Wrap /\ (ready => beat # 0)
  /\ writers \subseteq [session : Nat, seq : 0..Wrap, at : {"seed", "write", "late", "sleep"}]
  /\ IsFiniteSet(writers)
  /\ seen \in [Requests -> 0..Wrap]
  /\ silent \in [Requests -> 0..(Patience + Gap + 1)] /\ since \in [Requests -> 0..Gap]
  /\ wait \in [Requests -> {"no", "waiting", "answered", "gave up"}]
  /\ steady \in 0..Patience /\ (~Serving => steady = 0)

Stopped(w) == w.at = "late"

(* One loop writes, that of the cycle, from its drain to its end.          *)
LoopInv ==
  /\ \A v, w \in writers : ~Stopped(v) /\ ~Stopped(w) => v = w
  /\ \A w \in writers : ~Stopped(w) => phase[Serve] \in {"drain", "ending"} /\ w.session = session.n
  /\ phase[Serve] = "drain" => \E w \in writers : ~Stopped(w)

(* Who waits has sent, and has looked in time.                             *)
ClientsInv ==
  \A r \in Requests :
    /\ wait[r] = "waiting" => silent[r] <= Patience + since[r]
    /\ wait[r] = "no" => silent[r] = 0 /\ since[r] = 0 /\ seen[r] = 0
    /\ wait[r] # "no" => mail[r] # "unsent"

Stops == {w \in writers : Stopped(w)}
Cut == IF ~session.up /\ phase[Serve] \notin {"dialing", "off"} THEN 1 ELSE 0

(* What may still put an old number into the file: a stopped loop, a link  *)
(* lost or to be lost, another bootstrap.                                  *)
Mishaps == Cardinality(Stops) + left.drops + left.boots + Cut

\* The ticks for which n numbers seen before may keep a client in the dark.
Dark(n) == n * (Gap + 1)

SpareInv == ~quit => 1 + Dark(Mishaps + 1) <= Patience

(* How long r has seen no news while requests were served, or a tick more; *)
(* in how many writes the loop comes to what r saw last, if in time.       *)
Quiet(r) == IF silent[r] <= steady THEN silent[r] ELSE steady + 1
Ahead(w, r) == IF seen[r] > w.seq THEN seen[r] - w.seq ELSE (seen[r] + Wrap) - w.seq
Horizon(r) == IF Quiet(r) <= Patience THEN (Patience + Gap + 1) - Quiet(r) ELSE Gap - since[r]
Coming(w, r) == w.at = "seed" \/ Ahead(w, r) <= Horizon(r) + (IF w.at = "write" THEN 1 ELSE 0)
Chances(w, r) == Mishaps + (IF Coming(w, r) THEN 1 ELSE 0)

(* What the file hides from r it hides until the loop's next write and the *)
(* client's next look.                                                     *)
Spent(w, r) ==
  Quiet(r) + Dark(Chances(w, r))
    + (IF beat = seen[r] THEN since[r] + (IF w.at = "sleep" THEN 1 ELSE 0) ELSE 0)

PatienceInv ==
  ~quit /\ Serving =>
    \A r \in Waiting : \A w \in writers : ~Stopped(w) => Spent(w, r) <= Patience + since[r]

(* More numbers seen before, more ticks in the dark.                       *)
LEMMA DarkFacts ==
  /\ \A n \in Nat : Dark(n) \in Nat /\ Dark(n + 1) = Dark(n) + Gap + 1
  /\ \A m, n \in Nat : m <= n => Dark(m) <= Dark(n)
<1>1. Gap \in Nat
  BY PatienceAssumption
<1>2. \A n \in Nat : Dark(n) \in Nat
  BY <1>1 DEF Dark
<1>3. \A n \in Nat : Dark(n + 1) = Dark(n) + Gap + 1
  BY <1>1 DEF Dark
<1>4. ASSUME NEW m \in Nat, NEW n \in Nat, m <= n PROVE Dark(m) <= Dark(n)
  <2>1. PICK k \in Nat : n = m + k
    <3>1. n - m \in Nat /\ n = m + (n - m)
      BY <1>4
    <3> QED BY <3>1
  <2>2. n * (Gap + 1) = m * (Gap + 1) + k * (Gap + 1) /\ k * (Gap + 1) \in Nat /\ m * (Gap + 1) \in Nat
    BY <1>1, <2>1
  <2> QED BY <2>2 DEF Dark
<1> QED BY <1>2, <1>3, <1>4

(* The sequence is counted round.                                          *)
LEMMA CountIs == ASSUME NEW a \in 0..Wrap PROVE Count(a) = IF a = Wrap THEN 1 ELSE a + 1
<1>1. Wrap \in Nat \ {0}
  BY PatienceAssumption, WrapAssumption
<1>2. CASE a = Wrap
  <2>1. Wrap % Wrap = 0
    BY <1>1
  <2> QED BY <1>2, <2>1 DEF Count
<1>3. CASE a # Wrap
  <2>1. a \in Nat /\ a < Wrap
    BY <1>1, <1>3
  <2>2. a % Wrap = a
    BY <1>1, <2>1
  <2> QED BY <1>3, <2>2 DEF Count
<1> QED BY <1>2, <1>3

\* How many writes after a the number s comes.
Distance(a, s) == IF s > a THEN s - a ELSE (s + Wrap) - a

(* A write brings the loop one nearer to what a client saw, until it has   *)
(* come there, and then it is a whole round away.                          *)
LEMMA Nearer ==
  ASSUME NEW a \in 0..Wrap, NEW s \in 0..Wrap
  PROVE  /\ Count(a) \in 1..Wrap /\ Distance(a, s) \in Nat
         /\ Count(a) = s => Distance(a, s) = 1 /\ Distance(Count(a), s) = Wrap
         /\ Count(a) # s => Distance(a, s) = 0 \/ Distance(Count(a), s) = Distance(a, s) - 1
<1>1. Wrap \in Nat /\ Wrap > 1
  BY PatienceAssumption, WrapAssumption
<1> QED BY <1>1, CountIs DEF Distance

(* The stopped loops are finitely many, and so are the mishaps.            *)
LEMMA MishapsType ==
  ASSUME ClockInv, left \in CastType
  PROVE  /\ IsFiniteSet(Stops) /\ Cardinality(Stops) \in Nat /\ Cut \in {0, 1} /\ Mishaps \in Nat
         /\ left.drops \in Nat /\ left.boots \in Nat
<1>1. IsFiniteSet(Stops)
  BY FS_Subset DEF ClockInv, Stops
<1>2. Cardinality(Stops) \in Nat
  BY <1>1, FS_CardinalityType
<1>3. Cut \in {0, 1} /\ left.drops \in Nat /\ left.boots \in Nat
  BY DEF Cut, CastType
<1> QED BY <1>1, <1>2, <1>3 DEF Mishaps

(* When a cycle ends, at most one loop more is stopped in its write.       *)
LEMMA EndStops ==
  ASSUME ClockInv, LoopInv, phase[Serve] = "ending", phase'[Serve] # "ending", writers' = Remaining
  PROVE  /\ \A w \in writers' : Stopped(w)
         /\ writers' \subseteq [session : Nat, seq : 0..Wrap, at : {"seed", "write", "late", "sleep"}]
         /\ IsFiniteSet(writers') /\ Cardinality(Stops') <= Cardinality(Stops) + 1
<1> DEFINE Told(w) == [w EXCEPT !.at = "late"]
           Loops == [session : Nat, seq : 0..Wrap, at : {"seed", "write", "late", "sleep"}]
<1>1. writers' = {Told(w) : w \in {v \in writers : v.at \in {"write", "late"}}}
  BY DEF Remaining
<1>2. \A w \in Loops : Told(w) \in Loops /\ Told(w).at = "late"
  OBVIOUS
<1>3. \A w \in Loops : w.at = "late" => Told(w) = w
  OBVIOUS
<1>4. writers \subseteq Loops
  BY DEF ClockInv
<1>5. (\A w \in writers' : Stopped(w)) /\ writers' \subseteq Loops
  BY <1>1, <1>2, <1>4 DEF Stopped
<1>6. Stops' = writers'
  BY <1>5 DEF Stops
<1>7. IsFiniteSet(Stops) /\ Cardinality(Stops) \in Nat
  BY FS_Subset, FS_CardinalityType DEF ClockInv, Stops
<1> HIDE DEF Told
<1>8. writers' = Stops \/ \E x : writers' = Stops \cup {x}
  <2>1. CASE \A w \in writers : w.at # "write"
    <3>1. writers' = Stops
      BY <1>1, <1>3, <1>4, <2>1 DEF Stops, Stopped
    <3> QED BY <3>1
  <2>2. ASSUME NEW u \in writers, u.at = "write" PROVE \E x : writers' = Stops \cup {x}
    <3>1. \A w \in writers : w.at = "write" => w = u
      BY <2>2 DEF LoopInv, Stopped
    <3>2. writers' = Stops \cup {Told(u)}
      BY <1>1, <1>3, <1>4, <2>2, <3>1 DEF Stops, Stopped
    <3> QED BY <3>2
  <2> QED BY <2>1, <2>2
<1>9. IsFiniteSet(writers') /\ Cardinality(writers') <= Cardinality(Stops) + 1
  <2>1. CASE writers' = Stops
    BY <1>7, <2>1
  <2>2. ASSUME NEW x, writers' = Stops \cup {x}
        PROVE  IsFiniteSet(writers') /\ Cardinality(writers') <= Cardinality(Stops) + 1
    <3>1. /\ IsFiniteSet(Stops \cup {x})
          /\ Cardinality(Stops \cup {x}) = IF x \in Stops THEN Cardinality(Stops) ELSE Cardinality(Stops) + 1
      BY <1>7, FS_AddElement
    <3> QED BY <1>7, <2>2, <3>1
  <2> QED BY <1>8, <2>1, <2>2
<1> QED BY <1>5, <1>6, <1>9

(* The console starts a loop with a drain and stops it with the cycle; a   *)
(* link that is lost is one mishap, before and after.                      *)
LEMMA ConsoleLoops ==
  ASSUME Types, AloneInv, PassInv, Cycle, ClockInv, LoopInv, left \in CastType, CastKept, left.watch # {},
         writers' = Remaining \cup Begun
  PROVE  /\ writers' \subseteq [session : Nat, seq : 0..Wrap, at : {"seed", "write", "late", "sleep"}]
         /\ IsFiniteSet(writers') /\ LoopInv'
         /\ ~quit' => Mishaps' <= Mishaps
         /\ phase[Serve] = "drain" /\ phase'[Serve] = "drain" => writers' = writers
<1> USE CastFacts
<1> DEFINE Loops == [session : Nat, seq : 0..Wrap, at : {"seed", "write", "late", "sleep"}]
<1>0. /\ Cardinality(Stops) \in Nat /\ left.drops \in Nat /\ left.boots \in Nat
      /\ left'.drops \in Nat /\ left'.boots = left.boots
      /\ session \in [n : Nat, up : BOOLEAN] /\ writers \subseteq Loops
  BY MishapsType DEF CastKept, CastType, AloneInv, ClockInv
<1>1. CASE phase[Serve] = "ending" /\ phase'[Serve] # "ending"
  <2>1. Begun = {}
    BY <1>1 DEF Begun
  <2>2. writers' = Remaining
    BY <2>1
  <2>3. /\ \A w \in writers' : Stopped(w)
        /\ writers' \subseteq Loops
        /\ IsFiniteSet(writers') /\ Cardinality(Stops') <= Cardinality(Stops) + 1
    BY <1>1, <2>2, EndStops
  <2>4. phase'[Serve] \in {"dialing", "off"} /\ left'.drops = left.drops
    BY <1>1 DEF Cycle
  <2>5. LoopInv'
    BY <2>3, <2>4 DEF LoopInv
  <2>6. Cut' = 0
    BY <2>4 DEF Cut
  <2>7. Cut = 1
    BY <1>1 DEF Cut, PassInv
  <2>8. Cardinality(Stops') \in Nat
    <3>1. Stops' \subseteq writers'
      BY DEF Stops
    <3> QED BY <2>3, <3>1, FS_Subset, FS_CardinalityType
  <2>9. Mishaps' <= Mishaps
    BY <1>0, <2>3, <2>4, <2>6, <2>7, <2>8 DEF Mishaps
  <2> QED BY <1>1, <2>3, <2>5, <2>9
<1>2. CASE ~(phase[Serve] = "ending" /\ phase'[Serve] # "ending")
  <2>1. Remaining = writers
    BY <1>2 DEF Remaining
  <2>2. ~quit' => Cut' + left'.drops <= Cut + left.drops
    <3>1. Cut \in {0, 1} /\ Cut' \in {0, 1}
      BY DEF Cut
    <3>2. CASE LinkSame
      <4>1. phase[Serve] \in {"dialing", "off"} => phase'[Serve] \in {"dialing", "off"} \/ session'.up
        <5>1. phase[Serve] = "dialing" /\ phase'[Serve] = "checking" => session'.up
          BY DEF Cycle
        <5> QED BY <5>1 DEF Cycle
      <4>2. Cut' <= Cut
        BY <3>1, <3>2, <4>1 DEF Cut, LinkSame
      <4> QED BY <1>0, <3>1, <3>2, <4>2 DEF LinkSame
    <3>3. CASE session.up /\ left'.drops = left.drops - 1
      <4>1. Cut = 0
        BY <3>3 DEF Cut
      <4> QED BY <1>0, <3>1, <3>3, <4>1
    <3>4. CASE session'.up /\ left'.drops = left.drops
      <4>1. Cut' = 0
        BY <3>4 DEF Cut
      <4> QED BY <1>0, <3>1, <3>4, <4>1
    <3>5. ~quit' => \/ LinkSame
                    \/ session.up /\ left'.drops = left.drops - 1
                    \/ session'.up /\ left'.drops = left.drops
      <4>1. session' = [n |-> session.n + 1, up |-> TRUE] => session'.up
        OBVIOUS
      <4> QED BY <1>2, <4>1 DEF Cycle
    <3> QED BY <3>2, <3>3, <3>4, <3>5
  <2>3. Stops' = Stops => (~quit' => Mishaps' <= Mishaps)
    <3>1. Cut \in {0, 1} /\ Cut' \in {0, 1}
      BY DEF Cut
    <3> QED BY <1>0, <2>2, <3>1 DEF Mishaps
  <2>4. CASE phase[Serve] = "recover" /\ phase'[Serve] = "drain"
    <3> DEFINE fresh == [session |-> session.n, at |-> "seed", seq |-> 0]
    <3>1. writers' = writers \cup {fresh}
      BY <2>1, <2>4 DEF Begun
    <3>2. fresh \in Loops /\ ~Stopped(fresh) /\ fresh.session = session.n
      <4>1. session.n \in Nat /\ 0 \in 0..Wrap
        BY <1>0, PatienceAssumption, WrapAssumption
      <4> QED BY <4>1 DEF Stopped
    <3>3. session' = session
      BY <2>4 DEF Cycle, LinkSame
    <3>4. \A w \in writers : Stopped(w)
      BY <2>4 DEF LoopInv
    <3> HIDE DEF fresh
    <3>5. Stops' = Stops
      BY <3>1, <3>2 DEF Stops
    <3>6. LoopInv'
      BY <2>4, <3>1, <3>2, <3>3, <3>4 DEF LoopInv
    <3>7. IsFiniteSet(writers') /\ writers' \subseteq Loops
      <4>1. IsFiniteSet(writers) => IsFiniteSet(writers \cup {fresh})
        BY FS_AddElement
      <4> QED BY <1>0, <3>1, <3>2, <4>1 DEF ClockInv
    <3> QED BY <2>3, <2>4, <3>5, <3>6, <3>7
  <2>5. CASE ~(phase[Serve] = "recover" /\ phase'[Serve] = "drain")
    <3>1. writers' = writers
      BY <2>1, <2>5 DEF Begun
    <3>2. Stops' = Stops
      BY <3>1 DEF Stops
    <3>3. phase[Serve] \in {"drain", "ending"} => phase'[Serve] \in {"drain", "ending"} /\ session'.n = session.n
      BY <1>0, <1>2 DEF Cycle, LinkSame, Down
    <3>4. phase'[Serve] = "drain" => phase[Serve] = "drain"
      BY <2>5 DEF Cycle
    <3>5. LoopInv'
      BY <3>1, <3>3, <3>4 DEF LoopInv
    <3> QED BY <1>0, <2>3, <3>1, <3>2, <3>5 DEF ClockInv
  <2> QED BY <2>4, <2>5
<1> QED BY <1>1, <1>2

(* The numbers of the clock, in this state.                                *)
LEMMA ClockNumbers ==
  ASSUME ClockInv
  PROVE  /\ \A r \in Requests : silent[r] \in Nat /\ since[r] \in Nat /\ since[r] <= Gap
                               /\ silent[r] <= Patience + Gap + 1
         /\ steady \in Nat /\ steady <= Patience /\ (~Serving => steady = 0)
         /\ Patience \in Nat /\ Gap \in Nat /\ Gap > 0 /\ Wrap \in Nat /\ Wrap > Patience + Gap + 1
<1>1. Patience \in Nat /\ Gap \in Nat /\ Gap > 0 /\ Wrap \in Nat /\ Wrap > Patience + Gap + 1
  BY PatienceAssumption, WrapAssumption
<1>2. \A r \in Requests : silent[r] \in 0..(Patience + Gap + 1) /\ since[r] \in 0..Gap
  BY DEF ClockInv
<1>3. steady \in 0..Patience /\ (~Serving => steady = 0)
  BY DEF ClockInv
<1> QED BY <1>1, <1>2, <1>3

(* And in the next.                                                        *)
LEMMA NumbersNext ==
  ASSUME ClockInv'
  PROVE  /\ \A r \in Requests : silent'[r] \in Nat /\ since'[r] \in Nat /\ since'[r] <= Gap
         /\ steady' \in Nat /\ steady' <= Patience
<1>1. Patience \in Nat /\ Gap \in Nat
  BY PatienceAssumption
<1>2. \A r \in Requests : silent'[r] \in 0..(Patience + Gap + 1) /\ since'[r] \in 0..Gap
  BY DEF ClockInv
<1>3. steady' \in 0..Patience
  BY DEF ClockInv
<1> QED BY <1>1, <1>2, <1>3

(* The same of the next state.                                             *)
LEMMA MishapsNext ==
  ASSUME ClockInv', left' \in CastType
  PROVE  /\ IsFiniteSet(Stops') /\ Cardinality(Stops') \in Nat /\ Cut' \in {0, 1} /\ Mishaps' \in Nat
         /\ left'.drops \in Nat /\ left'.boots \in Nat
<1>1. IsFiniteSet(Stops') /\ Cardinality(Stops') \in Nat
  <2>1. Stops' \subseteq writers' /\ IsFiniteSet(writers')
    BY DEF ClockInv, Stops
  <2> QED BY <2>1, FS_Subset, FS_CardinalityType
<1>2. Cut' \in {0, 1} /\ left'.drops \in Nat /\ left'.boots \in Nat
  BY DEF Cut, CastType
<1> QED BY <1>1, <1>2 DEF Mishaps

(* Who has just had news, or is served from now on, has its patience yet.  *)
LEMMA FreshPatience ==
  ASSUME ClockInv', left' \in CastType, SpareInv', ~quit', NEW r \in Requests, NEW w \in writers',
         Quiet(r)' = 0 \/ (Quiet(r)' = 1 /\ w.at # "sleep")
  PROVE  Spent(w, r)' <= Patience + since'[r]
<1>1. Mishaps' \in Nat /\ since'[r] \in Nat /\ Patience \in Nat
  BY MishapsNext, NumbersNext, PatienceAssumption
<1>2. Chances(w, r)' \in {Mishaps', Mishaps' + 1}
  <2>1. Chances(w, r)' = Mishaps' + (IF Coming(w, r)' THEN 1 ELSE 0)
    BY DEF Chances
  <2>2. \A n \in Nat : n + 0 = n
    OBVIOUS
  <2>3. CASE Coming(w, r)'
    <3>1. Chances(w, r)' = Mishaps' + 1
      BY <2>1, <2>3, Zenon
    <3> QED BY <3>1, Zenon
  <2>4. CASE ~Coming(w, r)'
    <3>1. Chances(w, r)' = Mishaps' + 0
      BY <2>1, <2>4, Zenon
    <3> QED BY <1>1, <2>2, <3>1, Zenon
  <2> QED BY <2>3, <2>4
<1>3. Dark(Chances(w, r)') <= Dark(Mishaps' + 1) /\ Dark(Chances(w, r)') \in Nat /\ Dark(Mishaps' + 1) \in Nat
  BY <1>1, <1>2, DarkFacts
<1>4. 1 + Dark(Mishaps' + 1) <= Patience
  BY DEF SpareInv
<1>5. Dark(Chances(w, r))' = Dark(Chances(w, r)')
  BY DEF Dark
<1> DEFINE d == Dark(Chances(w, r)')
           e == Dark(Mishaps' + 1)
           s == since'[r]
           q == Quiet(r)'
<1>6. Spent(w, r)' = q + d + (IF beat' = seen'[r] THEN s + (IF w.at = "sleep" THEN 1 ELSE 0) ELSE 0)
  BY <1>5 DEF Spent
<1>7. /\ d \in Nat /\ e \in Nat /\ s \in Nat /\ d <= e /\ 1 + e <= Patience
      /\ q = 0 \/ (q = 1 /\ w.at # "sleep")
  BY <1>1, <1>3, <1>4
<1> HIDE DEF d, e, s, q
<1>8. Spent(w, r)' <= Patience + s
  BY <1>1, <1>6, <1>7
<1> QED BY <1>8 DEF s

(* With no more mishaps ahead, patience suffices as before.                *)
LEMMA SpareKept ==
  ASSUME SpareInv, Mishaps \in Nat, Mishaps' \in Nat, ~quit' => ~quit /\ Mishaps' <= Mishaps
  PROVE  SpareInv'
<1> SUFFICES ASSUME ~quit' PROVE (1 + Dark(Mishaps + 1) <= Patience)'
  BY DEF SpareInv
<1>1. 1 + Dark(Mishaps + 1) <= Patience
  BY DEF SpareInv
<1>2. Dark(Mishaps' + 1) <= Dark(Mishaps + 1) /\ Dark(Mishaps' + 1) \in Nat /\ Dark(Mishaps + 1) \in Nat
  <2>1. \A m, n \in Nat : m <= n => Dark(m + 1) <= Dark(n + 1) /\ Dark(m + 1) \in Nat /\ Dark(n + 1) \in Nat
    <3>1. \A m, n \in Nat : m <= n => m + 1 \in Nat /\ n + 1 \in Nat /\ m + 1 <= n + 1
      OBVIOUS
    <3> QED BY <3>1, DarkFacts
  <2> QED BY <2>1, Zenon
<1>3. 1 + Dark(Mishaps' + 1) <= Patience
  BY <1>1, <1>2, PatienceAssumption
<1> QED BY <1>3 DEF Dark

(* A step of the console: the clients' part.                               *)
LEMMA ConsoleClients ==
  ASSUME AloneInv, ClockInv, ClientsInv, ConsoleStep PROVE ClientsInv'
<1>1. Next /\ UNCHANGED <<silent, since, seen>>
  BY DEF ConsoleStep
<1>2. \A r \in Requests : wait'[r] = IF SentBy(r) THEN "waiting" ELSE wait[r]
  BY DEF ConsoleStep
<1>3. \A r \in Requests : mail[r] # "unsent" => mail'[r] # "unsent"
  BY <1>1, SentStays, CastFacts
<1>4. \A r \in Requests : SentBy(r) => wait[r] = "no" /\ mail'[r] # "unsent"
  BY DEF SentBy, ClientsInv, ClockInv
<1>5. \A r \in Requests : since[r] \in Nat /\ Patience \in Nat
  BY ClockNumbers
<1> QED BY <1>1, <1>2, <1>3, <1>4, <1>5 DEF ClientsInv

\* All of it, for casts in which a client waits.
BeatInv == AloneInv /\ PassInv /\ ClockInv /\ LoopInv /\ ClientsInv /\ SpareInv /\ PatienceInv

(* Its types.                                                              *)
LEMMA ConsoleClock ==
  ASSUME ConsoleInv, left \in CastType, left.watch # {}, BeatInv, ConsoleStep
  PROVE  /\ AloneInv' /\ PassInv' /\ ClockInv' /\ LoopInv' /\ ClientsInv' /\ SpareInv'
         /\ CastKept /\ ready' = ready /\ Cycle
         /\ ~quit' => Mishaps' <= Mishaps
         /\ phase[Serve] = "drain" /\ phase'[Serve] = "drain" => writers' = writers
<1>0. AloneInv /\ PassInv /\ ClockInv /\ LoopInv /\ ClientsInv /\ SpareInv /\ Next /\ Types
  BY DEF BeatInv, ConsoleStep, ConsoleInv
<1>1. CastKept
  BY <1>0, CastKeeps
<1>2. AloneInv' /\ ready' = ready /\ Cycle /\ PassInv'
  BY <1>0, AloneNext
<1>3. writers' = Remaining \cup Begun
  BY DEF ConsoleStep
<1>4. /\ writers' \subseteq [session : Nat, seq : 0..Wrap, at : {"seed", "write", "late", "sleep"}]
      /\ IsFiniteSet(writers') /\ LoopInv'
      /\ ~quit' => Mishaps' <= Mishaps
      /\ phase[Serve] = "drain" /\ phase'[Serve] = "drain" => writers' = writers
  BY <1>0, <1>1, <1>2, <1>3, ConsoleLoops
<1>5. ClockInv'
  <2>1. beat' \in 0..Wrap /\ (ready' => beat' # 0)
    <3>1. op' = op
      BY <1>0, <1>2 DEF AloneInv
    <3>2. beat' = IF ~ready' THEN 0 ELSE beat
      BY <3>1 DEF ConsoleStep
    <3>3. beat \in 0..Wrap /\ (ready => beat # 0)
      BY <1>0 DEF ClockInv
    <3>4. 0 \in 0..Wrap
      BY <1>0, ClockNumbers
    <3> QED BY <1>2, <3>2, <3>3, <3>4
  <2>2. steady' \in 0..Patience /\ (~Serving' => steady' = 0)
    <3>1. steady' = IF Serving' THEN steady ELSE 0
      BY DEF ConsoleStep
    <3>2. steady \in 0..Patience /\ 0 \in 0..Patience
      BY <1>0, ClockNumbers
    <3> QED BY <3>1, <3>2
  <2>3. wait' \in [Requests -> {"no", "waiting", "answered", "gave up"}]
    BY <1>0 DEF ConsoleStep, ClockInv
  <2>4. UNCHANGED <<seen, silent, since>>
    BY DEF ConsoleStep
  <2> QED BY <1>0, <1>4, <2>1, <2>2, <2>3, <2>4 DEF ClockInv
<1>6. ClientsInv'
  BY <1>0, ConsoleClients
<1>7. SpareInv'
  <2>1. ~quit' => ~quit
    BY <1>2 DEF Cycle, LinkSame
  <2>2. Mishaps \in Nat /\ Mishaps' \in Nat
    BY <1>0, <1>1, <1>5, MishapsType, MishapsNext DEF CastKept
  <2> QED BY <1>0, <1>4, <2>1, <2>2, SpareKept
<1> QED BY <1>1, <1>2, <1>4, <1>5, <1>6, <1>7

(* Requests are served anew: by a cycle whose loop has just begun.         *)
LEMMA NewLoop ==
  ASSUME AloneInv, LoopInv, Cycle, ready' = ready, writers' = Remaining \cup Begun, ~Serving, Serving',
         NEW w \in writers', ~Stopped(w)
  PROVE  w.at = "seed"
<1>1. phase'[Serve] = "drain" /\ session'.up /\ ready
  BY DEF Serving, Works, Live
<1>2. ~(phase[Serve] = "drain" /\ session.up)
  BY <1>1 DEF Serving, Works, Live, AloneInv
<1>3. Down => ~session'.up
  BY DEF Down, AloneInv
<1>4. phase[Serve] = "recover"
  BY <1>1, <1>2, <1>3 DEF Cycle, LinkSame
<1>5. \A v \in writers : Stopped(v)
  BY <1>4 DEF LoopInv
<1>6. w \in writers \/ w = [session |-> session.n, at |-> "seed", seq |-> 0]
  BY <1>4 DEF Remaining, Begun
<1> QED BY <1>5, <1>6

(* While requests are served the console leaves the clock to itself.       *)
LEMMA ConsolePatience ==
  ASSUME ConsoleInv, left \in CastType, left.watch # {}, BeatInv, ConsoleStep
  PROVE  BeatInv' /\ CastKept
<1>0. /\ AloneInv' /\ PassInv' /\ ClockInv' /\ LoopInv' /\ ClientsInv' /\ SpareInv'
      /\ CastKept /\ ready' = ready /\ Cycle
      /\ ~quit' => Mishaps' <= Mishaps
      /\ phase[Serve] = "drain" /\ phase'[Serve] = "drain" => writers' = writers
  BY ConsoleClock
<1>1. ClockInv /\ AloneInv /\ PatienceInv /\ ClientsInv /\ left' \in CastType
  BY <1>0 DEF BeatInv, CastKept
<1>2. ASSUME ~quit', Serving', NEW r \in Waiting', NEW w \in writers', ~Stopped(w)
      PROVE  Spent(w, r)' <= Patience + since'[r]
  <2>1. r \in Requests /\ wait'[r] = "waiting"
    BY <1>2 DEF Waiting
  <2>2. UNCHANGED <<silent, since, seen>> /\ steady' = steady
    BY <1>2 DEF ConsoleStep
  <2>3. CASE ~Serving \/ wait[r] # "waiting"
    <3>1. steady = 0 \/ silent[r] = 0
      <4>1. ~Serving => steady = 0
        BY <1>1 DEF ClockInv
      <4>2. wait[r] # "waiting" => wait[r] = "no"
        <5>1. wait[r] # "waiting" => SentBy(r)
          BY <2>1 DEF ConsoleStep
        <5> QED BY <1>1, <2>1, <5>1 DEF SentBy, ClientsInv, ClockInv
      <4> QED BY <1>1, <2>1, <2>3, <4>1, <4>2 DEF ClientsInv
    <3>2. silent[r] = 0 => Quiet(r)' = 0
      <4>1. steady \in Nat
        BY <1>1, ClockNumbers
      <4> QED BY <2>2, <4>1 DEF Quiet
    <3>3. silent[r] # 0 => Quiet(r)' = 1 /\ w.at # "sleep"
      <4>1. silent[r] # 0 => ~Serving /\ steady = 0
        <5>1. wait[r] # "waiting" => silent[r] = 0
          BY <1>1, <2>1 DEF ConsoleStep, SentBy, ClientsInv, ClockInv
        <5> QED BY <1>1, <2>3, <5>1 DEF ClockInv
      <4>2. silent[r] # 0 => Quiet(r)' = 1
        <5>1. silent[r] \in Nat
          BY <1>1, <2>1, ClockNumbers
        <5> QED BY <2>2, <4>1, <5>1 DEF Quiet
      <4>3. ~Serving => w.at = "seed"
        <5>1. AloneInv /\ LoopInv
          BY DEF BeatInv
        <5>2. writers' = Remaining \cup Begun
          BY DEF ConsoleStep
        <5>3. Cycle /\ ready' = ready
          BY <1>0
        <5>4. ASSUME ~Serving PROVE w.at = "seed"
          BY <1>2, <5>1, <5>2, <5>3, <5>4, NewLoop
        <5> QED BY <5>4
      <4> QED BY <4>1, <4>2, <4>3
    <3> QED BY <1>0, <1>1, <1>2, <2>1, <3>2, <3>3, FreshPatience
  <2>4. CASE Serving /\ wait[r] = "waiting"
    <3>1. phase[Serve] = "drain" /\ phase'[Serve] = "drain" /\ session.up /\ session'.up
      BY <1>2, <2>4 DEF Serving, Works, Live
    <3>2. session' = session /\ left'.drops = left.drops /\ quit' = quit
      <4>1. Down => ~session'.up
        BY <1>1 DEF Down, AloneInv
      <4> QED BY <1>0, <3>1, <4>1 DEF Cycle, LinkSame
    <3>3. writers' = writers /\ beat' = beat
      <4>1. op' = op /\ ready' = ready /\ ready
        BY <1>0, <1>1, <2>4 DEF AloneInv, Serving
      <4> QED BY <1>0, <3>1, <4>1 DEF ConsoleStep
    <3>4. Mishaps' = Mishaps
      BY <1>0, <3>1, <3>2, <3>3 DEF Mishaps, Stops, Cut, CastKept
    <3>5. Spent(w, r)' = Spent(w, r)
      BY <2>2, <3>3, <3>4 DEF Spent, Quiet, Dark, Chances, Coming, Ahead, Horizon
    <3>6. Spent(w, r) <= Patience + since[r]
      BY <1>1, <1>2, <2>1, <2>4, <3>2, <3>3 DEF PatienceInv, Waiting
    <3> QED BY <2>2, <3>5, <3>6
  <2> QED BY <2>3, <2>4
<1>3. PatienceInv'
  BY <1>2 DEF PatienceInv
<1> QED BY <1>0, <1>3 DEF BeatInv

-----------------------------------------------------------------------------

\* Spent, of numbers: q ticks of quiet, c chances, s ticks since the last look.
Cost(q, c, hidden, s, asleep) ==
  q + Dark(c) + (IF hidden THEN s + (IF asleep THEN 1 ELSE 0) ELSE 0)

(* What is hidden at the price of a chance costs no more; nor does what is *)
(* shown; a tick costs what it adds to the time since the last look.       *)
LEMMA CostFacts ==
  ASSUME NEW q \in Nat, NEW c \in Nat, NEW d \in Nat, NEW s \in Nat, s <= Gap,
         NEW h \in BOOLEAN, NEW i \in BOOLEAN, NEW a \in BOOLEAN, NEW b \in BOOLEAN
  PROVE  /\ Cost(q, c, h, s, a) \in Nat
         /\ d < c => Cost(q, d, i, s, b) <= Cost(q, c, h, s, a)
         /\ d <= c /\ ~i => Cost(q, d, i, s, b) <= Cost(q, c, h, s, a)
         /\ d <= c /\ (b => a) => Cost(q, d, h, s, b) <= Cost(q, c, h, s, a)
         /\ d <= c /\ a /\ ~b => \A p \in Nat : p <= q + 1 => Cost(p, d, h, s + 1, b) <= Cost(q, c, h, s, a) + 1
<1>1. Gap \in Nat
  BY PatienceAssumption
<1>2. Dark(c) \in Nat /\ Dark(d) \in Nat /\ (d <= c => Dark(d) <= Dark(c))
  BY DarkFacts
<1>3. d < c => Dark(d) + Gap + 1 <= Dark(c)
  <2>1. d < c => d + 1 <= c /\ d + 1 \in Nat
    OBVIOUS
  <2>2. d + 1 \in Nat /\ d + 1 <= c => Dark(d + 1) <= Dark(c)
    BY DarkFacts
  <2>3. Dark(d + 1) = Dark(d) + Gap + 1
    BY DarkFacts
  <2> QED BY <2>1, <2>2, <2>3
<1> QED BY <1>1, <1>2, <1>3 DEF Cost

(* What is spent is such a cost.                                           *)
LEMMA SpentIs ==
  \A w, r : Spent(w, r) = Cost(Quiet(r), Chances(w, r), beat = seen[r], since[r], w.at = "sleep")
BY DEF Spent, Cost

(* The numbers in it.                                                      *)
LEMMA SpentNumbers ==
  ASSUME ClockInv, left \in CastType, NEW r \in Requests, NEW w
  PROVE  /\ Quiet(r) \in Nat /\ Quiet(r) <= Patience + 1
         /\ Chances(w, r) \in Nat /\ since[r] \in Nat /\ since[r] <= Gap
         /\ Chances(w, r) = Mishaps + (IF Coming(w, r) THEN 1 ELSE 0)
         /\ Horizon(r) \in Nat /\ Horizon(r) <= Patience + Gap + 1
<1>1. /\ silent[r] \in Nat /\ since[r] \in Nat /\ since[r] <= Gap /\ steady \in Nat /\ steady <= Patience
      /\ Patience \in Nat /\ Gap \in Nat
  BY ClockNumbers
<1>2. Mishaps \in Nat
  BY MishapsType
<1>3. Quiet(r) \in Nat /\ Quiet(r) <= Patience + 1
  BY <1>1 DEF Quiet
<1>4. Chances(w, r) \in Nat
  BY <1>2 DEF Chances
<1>5. Horizon(r) \in Nat /\ Horizon(r) <= Patience + Gap + 1
  BY <1>1, <1>3 DEF Horizon
<1> QED BY <1>1, <1>3, <1>4, <1>5 DEF Chances

(* A write of the loop: where it comes to what the client saw it was about *)
(* to, and is not any more; otherwise it is no nearer in time.             *)
LEMMA WriteComes ==
  ASSUME ClockInv, left \in CastType, NEW r \in Requests, NEW w \in writers, w.at = "write"
  PROVE  /\ Count(w.seq) = seen[r] => Coming(w, r) /\ ~Coming(Counted(w), r)
         /\ Coming(Counted(w), r) => Coming(w, r)
<1>1. /\ w \in [session : Nat, seq : 0..Wrap, at : {"seed", "write", "late", "sleep"}] /\ seen[r] \in 0..Wrap
  BY DEF ClockInv
<1>2. w.seq \in 0..Wrap /\ Counted(w).at = "sleep" /\ Counted(w).seq = Count(w.seq)
  BY <1>1 DEF Counted
<1>3. /\ Count(w.seq) \in 1..Wrap /\ Distance(w.seq, seen[r]) \in Nat
      /\ Count(w.seq) = seen[r] => Distance(w.seq, seen[r]) = 1 /\ Distance(Count(w.seq), seen[r]) = Wrap
      /\ Count(w.seq) # seen[r] => \/ Distance(w.seq, seen[r]) = 0
                                   \/ Distance(Count(w.seq), seen[r]) = Distance(w.seq, seen[r]) - 1
  BY <1>1, <1>2, Nearer
<1>4. Horizon(r) \in Nat /\ Horizon(r) <= Patience + Gap + 1
  BY SpentNumbers
<1>5. Patience \in Nat /\ Gap \in Nat /\ Wrap \in Nat /\ Wrap > Patience + Gap + 1
  BY ClockNumbers
<1>6. Coming(w, r) <=> Distance(w.seq, seen[r]) <= Horizon(r) + 1
  BY DEF Coming, Ahead, Distance
<1>7. Coming(Counted(w), r) <=> Distance(Count(w.seq), seen[r]) <= Horizon(r) + 0
  BY <1>2 DEF Coming, Ahead, Distance
<1> QED BY <1>3, <1>4, <1>5, <1>6, <1>7

-----------------------------------------------------------------------------

\* A step of the heartbeat beside the console.
Aside ==
  UNCHANGED <<ready, mail, session, phase, pass, job, op, form, quit>> /\ left'.actions = left.actions

(* It leaves the console as it is.                                         *)
LEMMA AsideKeeps ==
  ASSUME AloneInv, PassInv, Aside
  PROVE  AloneInv' /\ PassInv' /\ Cut' = Cut /\ (Serving' <=> Serving)
<1>1. AloneInv' /\ PassInv'
  BY DEF Aside, AloneInv, PassInv, Idle
<1>2. Cut' = Cut
  BY DEF Aside, Cut
<1>3. Serving' <=> Serving
  BY DEF Aside, Serving, Works, Live
<1> QED BY <1>1, <1>2, <1>3

(* The loop takes a step, and stopped loops may be gone.                   *)
LEMMA LoopMoves ==
  ASSUME ClockInv, LoopInv, UNCHANGED <<phase, session>>, NEW w \in writers, ~Stopped(w),
         NEW u \in [session : Nat, seq : 0..Wrap, at : {"seed", "write", "late", "sleep"}],
         ~Stopped(u), u.session = w.session, NEW S \in SUBSET Stops,
         writers' = (writers \ ({w} \cup S)) \cup {u}
  PROVE  /\ LoopInv' /\ IsFiniteSet(writers') /\ Stops' = Stops \ S
         /\ writers' \subseteq [session : Nat, seq : 0..Wrap, at : {"seed", "write", "late", "sleep"}]
         /\ \A v \in writers' : ~Stopped(v) => v = u
<1>1. \A v \in writers : ~Stopped(v) => v = w
  BY DEF LoopInv
<1>2. \A v \in writers' : ~Stopped(v) => v = u
  BY <1>1
<1>3. LoopInv'
  BY <1>2 DEF LoopInv
<1>4. Stops' = Stops \ S
  BY DEF Stops
<1>5. IsFiniteSet(writers')
  <2> DEFINE Rest == writers \ ({w} \cup S)
  <2>1. IsFiniteSet(Rest)
    BY FS_Subset DEF ClockInv
  <2>2. IsFiniteSet(Rest \cup {u})
    BY <2>1, FS_AddElement
  <2> QED BY <2>2
<1> QED BY <1>2, <1>3, <1>4, <1>5 DEF ClockInv

(* A stopped loop is gone.                                                 *)
LEMMA StopGone ==
  ASSUME ClockInv, LoopInv, UNCHANGED <<phase, session>>, NEW v \in Stops, writers' = writers \ {v}
  PROVE  /\ LoopInv' /\ IsFiniteSet(writers') /\ Stops' = Stops \ {v}
         /\ writers' \subseteq [session : Nat, seq : 0..Wrap, at : {"seed", "write", "late", "sleep"}]
<1>1. v \in writers /\ Stopped(v)
  BY DEF Stops
<1>2. LoopInv'
  BY <1>1 DEF LoopInv
<1>3. Stops' = Stops \ {v}
  BY DEF Stops
<1>4. IsFiniteSet(writers')
  BY FS_Subset DEF ClockInv
<1> QED BY <1>2, <1>3, <1>4 DEF ClockInv

(* One mishap less.                                                        *)
LEMMA OneStopLess ==
  ASSUME ClockInv, left \in CastType, left' = left, Cut' = Cut, NEW v \in Stops, Stops' = Stops \ {v}
  PROVE  Mishaps' = Mishaps - 1 /\ Mishaps' \in Nat
<1>1. IsFiniteSet(Stops) /\ Cardinality(Stops) \in Nat /\ Cut \in {0, 1} /\ left.drops \in Nat /\ left.boots \in Nat
  BY MishapsType
<1>2. Cardinality(Stops \ {v}) = Cardinality(Stops) - 1
  BY <1>1, FS_RemoveElement
<1>3. Cardinality(Stops) >= 1
  BY <1>1, FS_EmptySet, <1>2, FS_CardinalityType, FS_RemoveElement
<1>4. Mishaps' = Cardinality(Stops \ {v}) + left.drops + left.boots + Cut
  BY DEF Mishaps
<1> QED BY <1>1, <1>2, <1>3, <1>4 DEF Mishaps

(* The clock stands still; what the client sees, and how many chances are  *)
(* left, is what changes.                                                  *)
LEMMA StillClock ==
  ASSUME UNCHANGED <<clientVars, steady>>, NEW r \in Requests, NEW u
  PROVE  Quiet(r)' = Quiet(r) /\ since'[r] = since[r] /\ (Coming(u, r)' <=> Coming(u, r))
BY DEF clientVars, Quiet, Coming, Ahead, Horizon

(* A step beside the console and the clock, given what it does to the file *)
(* and the writers, and that every client that waits has its patience yet. *)
LEMMA AsideBeat ==
  ASSUME left \in CastType, left' \in CastType, BeatInv, Aside, UNCHANGED <<clientVars, steady>>,
         beat' \in 0..Wrap, ready => beat' # 0,
         writers' \subseteq [session : Nat, seq : 0..Wrap, at : {"seed", "write", "late", "sleep"}],
         IsFiniteSet(writers'), LoopInv', Mishaps' \in Nat, Mishaps' <= Mishaps,
         ~quit /\ Serving =>
           \A r \in Waiting : \A u \in writers' : ~Stopped(u) => Spent(u, r)' <= Patience + since[r]
  PROVE  BeatInv'
<1>0. AloneInv /\ PassInv /\ ClockInv /\ LoopInv /\ ClientsInv /\ SpareInv /\ PatienceInv
  BY DEF BeatInv
<1>1. AloneInv' /\ PassInv' /\ (Serving' <=> Serving) /\ quit' = quit
  BY <1>0, AsideKeeps DEF Aside
<1>2. ClockInv'
  <2>1. UNCHANGED <<seen, silent, since, wait, steady, ready>>
    BY DEF Aside, clientVars
  <2> QED BY <1>0, <1>1, <2>1 DEF ClockInv
<1>3. ClientsInv'
  BY <1>0 DEF Aside, clientVars, ClientsInv
<1>4. SpareInv'
  BY <1>0, <1>1, SpareKept, MishapsType
<1>5. PatienceInv'
  BY <1>1 DEF PatienceInv, Waiting, clientVars
<1> QED BY <1>1, <1>2, <1>3, <1>4, <1>5 DEF BeatInv

(* A chance is used up: whatever the file hides now is paid for.           *)
LEMMA ChanceUsed ==
  ASSUME ClockInv, left \in CastType, UNCHANGED <<clientVars, steady>>, NEW r \in Requests, NEW w, NEW u,
         Chances(u, r)' \in Nat, Chances(u, r)' < Chances(w, r), Spent(w, r) <= Patience + since[r]
  PROVE  Spent(u, r)' <= Patience + since[r]
<1>1. Quiet(r)' = Quiet(r) /\ since'[r] = since[r]
  BY StillClock
<1>2. /\ Quiet(r) \in Nat /\ Chances(w, r) \in Nat /\ since[r] \in Nat /\ since[r] <= Gap
      /\ Patience \in Nat
  BY SpentNumbers, ClockNumbers
<1>3. Spent(w, r) = Cost(Quiet(r), Chances(w, r), beat = seen[r], since[r], w.at = "sleep")
  BY SpentIs
<1>4. Spent(u, r)' = Cost(Quiet(r), Chances(u, r)', beat' = seen'[r], since[r], u.at = "sleep")
  BY <1>1 DEF Spent, Cost, Dark
<1>5. /\ Cost(Quiet(r), Chances(u, r)', beat' = seen'[r], since[r], u.at = "sleep")
           <= Cost(Quiet(r), Chances(w, r), beat = seen[r], since[r], w.at = "sleep")
      /\ Cost(Quiet(r), Chances(w, r), beat = seen[r], since[r], w.at = "sleep") \in Nat
      /\ Cost(Quiet(r), Chances(u, r)', beat' = seen'[r], since[r], u.at = "sleep") \in Nat
  BY <1>2, CostFacts
<1> QED BY <1>2, <1>3, <1>4, <1>5

(* Nor does the file hide more where it stands, or shows something else.   *)
LEMMA NoChanceUsed ==
  ASSUME ClockInv, left \in CastType, UNCHANGED <<clientVars, steady>>, NEW r \in Requests, NEW w, NEW u,
         Chances(u, r)' \in Nat, Chances(u, r)' <= Chances(w, r), Spent(w, r) <= Patience + since[r],
         beat' # seen[r] \/ (beat' = beat /\ (u.at = "sleep" => w.at = "sleep"))
  PROVE  Spent(u, r)' <= Patience + since[r]
<1>1. Quiet(r)' = Quiet(r) /\ since'[r] = since[r] /\ seen' = seen
  BY StillClock DEF clientVars
<1>2. /\ Quiet(r) \in Nat /\ Chances(w, r) \in Nat /\ since[r] \in Nat /\ since[r] <= Gap
      /\ Patience \in Nat
  BY SpentNumbers, ClockNumbers
<1>3. Spent(w, r) = Cost(Quiet(r), Chances(w, r), beat = seen[r], since[r], w.at = "sleep")
  BY SpentIs
<1>4. Spent(u, r)' = Cost(Quiet(r), Chances(u, r)', beat' = seen'[r], since[r], u.at = "sleep")
  BY <1>1 DEF Spent, Cost, Dark
<1>5. CASE beat' = beat /\ (u.at = "sleep" => w.at = "sleep")
  <2>1. Spent(u, r)' = Cost(Quiet(r), Chances(u, r)', beat = seen[r], since[r], u.at = "sleep")
    BY <1>1, <1>4, <1>5
  <2>2. /\ Cost(Quiet(r), Chances(u, r)', beat = seen[r], since[r], u.at = "sleep")
             <= Cost(Quiet(r), Chances(w, r), beat = seen[r], since[r], w.at = "sleep")
        /\ Cost(Quiet(r), Chances(w, r), beat = seen[r], since[r], w.at = "sleep") \in Nat
        /\ Cost(Quiet(r), Chances(u, r)', beat = seen[r], since[r], u.at = "sleep") \in Nat
    BY <1>2, <1>5, CostFacts
  <2> QED BY <1>2, <1>3, <2>1, <2>2
<1>6. CASE beat' # seen[r]
  <2>1. ~(beat' = seen'[r])
    BY <1>1, <1>6
  <2>2. /\ Cost(Quiet(r), Chances(u, r)', beat' = seen'[r], since[r], u.at = "sleep")
             <= Cost(Quiet(r), Chances(w, r), beat = seen[r], since[r], w.at = "sleep")
        /\ Cost(Quiet(r), Chances(w, r), beat = seen[r], since[r], w.at = "sleep") \in Nat
        /\ Cost(Quiet(r), Chances(u, r)', beat' = seen'[r], since[r], u.at = "sleep") \in Nat
    BY <1>2, <2>1, CostFacts
  <2> QED BY <1>2, <1>3, <1>4, <2>2
<1> QED BY <1>5, <1>6

(* The chances after a step: the mishaps, and one if the loop comes by.    *)
LEMMA ChancesNext ==
  ASSUME NEW m \in Nat, Mishaps' = m, NEW u, NEW r
  PROVE  /\ Chances(u, r)' \in Nat
         /\ Coming(u, r)' => Chances(u, r)' = m + 1
         /\ ~Coming(u, r)' => Chances(u, r)' = m
<1>1. Chances(u, r)' = m + (IF Coming(u, r)' THEN 1 ELSE 0)
  BY DEF Chances
<1>2. m + 1 \in Nat /\ m + 0 = m
  OBVIOUS
<1>3. CASE Coming(u, r)'
  <2>1. Chances(u, r)' = m + 1
    BY <1>1, <1>3, Zenon
  <2> QED BY <1>2, <1>3, <2>1, Zenon
<1>4. CASE ~Coming(u, r)'
  <2>1. Chances(u, r)' = m + 0
    BY <1>1, <1>4, Zenon
  <2> QED BY <1>2, <1>4, <2>1, Zenon
<1> QED BY <1>3, <1>4

(* A loop seeds its sequence from the file.                                *)
LEMMA SeedBeat ==
  ASSUME left \in CastType, BeatInv, NEW w \in writers, Seed(w), Aside, left' = left
  PROVE  BeatInv'
<1> DEFINE Loops == [session : Nat, seq : 0..Wrap, at : {"seed", "write", "late", "sleep"}]
<1>a. PICK u : u = [w EXCEPT !.at = "write", !.seq = IF Reaches(w) THEN beat ELSE 0]
  OBVIOUS
<1>0. ClockInv /\ LoopInv /\ PatienceInv /\ AloneInv /\ PassInv /\ UNCHANGED <<phase, session>>
  BY DEF BeatInv, Aside
<1>1. /\ w.at = "seed" /\ writers' = (writers \ {w}) \cup {u}
      /\ beat' = beat /\ UNCHANGED <<clientVars, steady>>
  BY <1>a DEF Seed, Becomes
<1>2. w \in Loops /\ ~Stopped(w) /\ beat \in 0..Wrap /\ 0 \in 0..Wrap
  <2>1. w \in Loops /\ beat \in 0..Wrap
    BY <1>0 DEF ClockInv
  <2>2. 0 \in 0..Wrap
    BY <1>0, ClockNumbers
  <2> QED BY <1>1, <2>1, <2>2 DEF Stopped
<1>3. u \in Loops /\ ~Stopped(u) /\ u.session = w.session /\ u.at = "write"
  BY <1>a, <1>2 DEF Stopped
<1>4. /\ LoopInv' /\ IsFiniteSet(writers') /\ Stops' = Stops
      /\ writers' \subseteq Loops /\ \A v \in writers' : ~Stopped(v) => v = u
  <2>1. {} \in SUBSET Stops /\ writers' = (writers \ ({w} \cup {})) \cup {u}
    BY <1>1
  <2>2. /\ LoopInv' /\ IsFiniteSet(writers') /\ Stops' = Stops \ {}
        /\ writers' \subseteq Loops /\ \A v \in writers' : ~Stopped(v) => v = u
    BY <1>0, <1>2, <1>3, <2>1, LoopMoves
  <2> QED BY <2>2
<1>5. Mishaps' = Mishaps /\ Mishaps \in Nat
  BY <1>0, <1>4, AsideKeeps, MishapsType DEF Mishaps
<1>6. ASSUME ~quit, Serving, NEW r \in Waiting PROVE Spent(u, r)' <= Patience + since[r]
  <2>1. r \in Requests /\ Spent(w, r) <= Patience + since[r]
    BY <1>0, <1>2, <1>6 DEF PatienceInv, Waiting
  <2>2. Chances(w, r) = Mishaps + 1
    BY <1>1 DEF Chances, Coming
  <2>3. /\ Chances(u, r)' \in Nat
        /\ Coming(u, r)' => Chances(u, r)' = Mishaps + 1
        /\ ~Coming(u, r)' => Chances(u, r)' = Mishaps
    BY <1>5, ChancesNext
  <2>4. Chances(u, r)' <= Chances(w, r)
    BY <1>5, <2>2, <2>3
  <2>5. beat' # seen[r] \/ (beat' = beat /\ (u.at = "sleep" => w.at = "sleep"))
    BY <1>1, <1>3
  <2>6. UNCHANGED <<clientVars, steady>>
    BY <1>1
  <2>7. ClockInv /\ r \in Requests /\ Chances(u, r)' \in Nat /\ Spent(w, r) <= Patience + since[r]
    BY <1>0, <2>1, <2>3
  <2> QED BY <2>4, <2>5, <2>6, <2>7, NoChanceUsed
<1>7. beat' \in 0..Wrap /\ (ready => beat' # 0)
  BY <1>0, <1>1 DEF ClockInv
<1>8. Mishaps' \in Nat /\ Mishaps' <= Mishaps
  BY <1>5
<1>9. left' \in CastType
  OBVIOUS
<1>10. ~quit /\ Serving =>
         \A r \in Waiting : \A v \in writers' : ~Stopped(v) => Spent(v, r)' <= Patience + since[r]
  BY <1>4, <1>6
<1> QED BY <1>1, <1>4, <1>7, <1>8, <1>9, <1>10, AsideBeat

(* The loop of a cycle that serves reaches the file.                       *)
LEMMA LoopReaches ==
  ASSUME AloneInv, LoopInv, Serving, NEW w \in writers, ~Stopped(w) PROVE Reaches(w)
BY DEF AloneInv, LoopInv, Serving, Works, Live, Reaches

(* The loop writes the next number, or, crossed by a stopped one, another. *)
LEMMA WriteBeat ==
  ASSUME left \in CastType, BeatInv, NEW w \in writers, w.at = "write", Aside, left' = left,
         UNCHANGED <<clientVars, steady>>, NEW S \in SUBSET Stops,
         writers' = (writers \ ({w} \cup S)) \cup {Counted(w)},
         beat' \in 0..Wrap, ready => beat' # 0, NEW m \in Nat, Mishaps' = m,
         \/ S = {} /\ (Reaches(w) => beat' = Count(w.seq))
         \/ m = Mishaps - 1
  PROVE  BeatInv'
<1> DEFINE u == Counted(w)
           Loops == [session : Nat, seq : 0..Wrap, at : {"seed", "write", "late", "sleep"}]
<1>0. ClockInv /\ LoopInv /\ PatienceInv /\ AloneInv /\ PassInv /\ UNCHANGED <<phase, session>>
  BY DEF BeatInv, Aside
<1>1. w \in Loops /\ ~Stopped(w) /\ Count(w.seq) \in 0..Wrap
  <2>1. w \in Loops /\ ~Stopped(w)
    BY <1>0 DEF ClockInv, Stopped
  <2>2. Count(w.seq) \in 1..Wrap
    <3>1. w.seq \in 0..Wrap /\ 0 \in 0..Wrap
      BY <1>0, <2>1, ClockNumbers
    <3> QED BY <3>1, Nearer
  <2> QED BY <2>1, <2>2
<1>2. u \in Loops /\ ~Stopped(u) /\ u.session = w.session /\ u.at = "sleep"
  BY <1>1 DEF Stopped, Counted
<1> HIDE DEF u
<1>3. /\ LoopInv' /\ IsFiniteSet(writers') /\ Stops' = Stops \ S
      /\ writers' \subseteq Loops /\ \A v \in writers' : ~Stopped(v) => v = u
  BY <1>0, <1>1, <1>2, LoopMoves DEF u
<1>4. Mishaps \in Nat /\ m <= Mishaps
  <2>1. Mishaps \in Nat
    BY <1>0, MishapsType
  <2>2. S = {} => Mishaps' = Mishaps
    BY <1>0, <1>3, AsideKeeps DEF Mishaps
  <2> QED BY <2>1, <2>2
<1>5. ASSUME ~quit, Serving, NEW r \in Waiting PROVE Spent(u, r)' <= Patience + since[r]
  <2>1. r \in Requests /\ Spent(w, r) <= Patience + since[r]
    BY <1>0, <1>1, <1>5 DEF PatienceInv, Waiting
  <2>2. Chances(w, r) = Mishaps + (IF Coming(w, r) THEN 1 ELSE 0)
    BY DEF Chances
  <2>3. /\ Count(w.seq) = seen[r] => Coming(w, r) /\ ~Coming(u, r)
        /\ Coming(u, r) => Coming(w, r)
    BY <1>0, <2>1, WriteComes DEF u
  <2>4. Coming(u, r)' <=> Coming(u, r)
    BY <2>1, StillClock
  <2>5. /\ Chances(u, r)' \in Nat
        /\ Coming(u, r)' => Chances(u, r)' = m + 1
        /\ ~Coming(u, r)' => Chances(u, r)' = m
    BY ChancesNext
  <2>6. CASE m = Mishaps - 1 \/ Count(w.seq) = seen[r]
    <3>1. Chances(u, r)' < Chances(w, r)
      BY <1>4, <2>2, <2>3, <2>4, <2>5, <2>6
    <3> QED BY <1>0, <2>1, <2>5, <3>1, ChanceUsed
  <2>7. CASE beat' = Count(w.seq) /\ Count(w.seq) # seen[r]
    <3>1. Chances(u, r)' <= Chances(w, r)
      BY <1>4, <2>2, <2>3, <2>4, <2>5
    <3>2. beat' # seen[r]
      BY <2>7
    <3> QED BY <1>0, <2>1, <2>5, <3>1, <3>2, NoChanceUsed
  <2>8. Reaches(w)
    BY <1>0, <1>1, <1>5, LoopReaches
  <2> QED BY <2>6, <2>7, <2>8
<1>6. left' \in CastType /\ Mishaps' \in Nat /\ Mishaps' <= Mishaps
  BY <1>4
<1>7. ~quit /\ Serving =>
        \A r \in Waiting : \A v \in writers' : ~Stopped(v) => Spent(v, r)' <= Patience + since[r]
  BY <1>3, <1>5
<1> QED BY <1>3, <1>6, <1>7, AsideBeat

(* The loop writes, as the code has it.                                    *)
LEMMA LoopBeat ==
  ASSUME left \in CastType, BeatInv, NEW w \in writers, NEW v \in writers,
         WriteHeartbeat(w) \/ Crossed(w, v)
  PROVE  BeatInv'
<1>0. ClockInv /\ LoopInv /\ AloneInv /\ PassInv
  BY DEF BeatInv
<1>1. /\ w.at = "write" /\ left' = left /\ Aside /\ UNCHANGED <<clientVars, steady>> /\ ready' = ready
      /\ Cut' = Cut
  BY DEF WriteHeartbeat, Crossed, Aside, vars, mailVars, workVars, screenVars, Cut
<1>2. /\ v \in [session : Nat, seq : 0..Wrap, at : {"seed", "write", "late", "sleep"}]
      /\ w \in [session : Nat, seq : 0..Wrap, at : {"seed", "write", "late", "sleep"}]
      /\ beat \in 0..Wrap /\ (ready => beat # 0)
  BY <1>0 DEF ClockInv
<1>3. Count(v.seq) \in 1..Wrap /\ Count(w.seq) \in 1..Wrap
  <2>1. v.seq \in 0..Wrap /\ w.seq \in 0..Wrap /\ 0 \in 0..Wrap
    BY <1>0, <1>2, ClockNumbers
  <2> QED BY <2>1, Nearer
<1>4. 1..Wrap \subseteq 0..Wrap \ {0}
  OBVIOUS
<1>5. ~Stopped(w) /\ ~Stopped(Counted(w))
  BY <1>1, <1>2 DEF Stopped, Counted
<1>6. CASE WriteHeartbeat(w)
  <2>1. {} \in SUBSET Stops /\ writers' = (writers \ ({w} \cup {})) \cup {Counted(w)}
    BY <1>6 DEF WriteHeartbeat, Becomes
  <2>2. beat' \in 0..Wrap /\ (ready => beat' # 0) /\ (Reaches(w) => beat' = Count(w.seq))
    BY <1>2, <1>3, <1>4, <1>6 DEF WriteHeartbeat
  <2>3. Stops' = Stops
    BY <1>5, <2>1 DEF Stops
  <2>4. Mishaps' = Mishaps /\ Mishaps \in Nat
    BY <1>0, <1>1, <2>3, MishapsType DEF Mishaps
  <2> QED BY <1>1, <2>1, <2>2, <2>4, WriteBeat
<1>7. CASE Crossed(w, v)
  <2>1. v # w /\ v.at \in {"write", "late"} /\ beat' = Count(v.seq)
    BY <1>7 DEF Crossed
  <2>2. v.at = "late" /\ v \in Stops
    BY <1>0, <1>5, <2>1 DEF LoopInv, Stopped, Stops
  <2>3. {v} \in SUBSET Stops /\ writers' = (writers \ ({w} \cup {v})) \cup {Counted(w)}
    BY <1>7, <2>2 DEF Crossed
  <2>4. Stops' = Stops \ {v}
    BY <1>5, <2>1, <2>2, <2>3 DEF Stops
  <2>5. Mishaps' = Mishaps - 1 /\ Mishaps - 1 \in Nat
    <3>1. Mishaps' = Mishaps - 1 /\ Mishaps' \in Nat
      BY <1>0, <1>1, <2>2, <2>4, OneStopLess
    <3> QED BY <3>1
  <2>6. beat' \in 0..Wrap /\ (ready => beat' # 0)
    BY <1>3, <1>4, <2>1
  <2> QED BY <1>1, <2>3, <2>5, <2>6, WriteBeat
<1> QED BY <1>6, <1>7

(* A stopped loop's write is lost or arrives, or another bootstrap writes: *)
(* one mishap less.                                                        *)
LEMMA MishapBeat ==
  ASSUME left \in CastType, left' \in CastType, BeatInv, Aside, UNCHANGED <<clientVars, steady>>,
         beat' \in 0..Wrap, ready => beat' # 0, LoopInv', IsFiniteSet(writers'),
         writers' \subseteq [session : Nat, seq : 0..Wrap, at : {"seed", "write", "late", "sleep"}],
         \A u \in writers' : ~Stopped(u) => u \in writers,
         NEW m \in Nat, Mishaps' = m, m = Mishaps - 1
  PROVE  BeatInv'
<1>0. ClockInv /\ PatienceInv
  BY DEF BeatInv
<1>1. Mishaps \in Nat
  BY <1>0, MishapsType
<1>2. ASSUME ~quit, Serving, NEW r \in Waiting, NEW u \in writers', ~Stopped(u)
      PROVE  Spent(u, r)' <= Patience + since[r]
  <2>1. r \in Requests /\ Spent(u, r) <= Patience + since[r]
    BY <1>0, <1>2 DEF PatienceInv, Waiting
  <2>2. Chances(u, r) = Mishaps + (IF Coming(u, r) THEN 1 ELSE 0)
    BY DEF Chances
  <2>3. Coming(u, r)' <=> Coming(u, r)
    BY <2>1, StillClock
  <2>4. /\ Chances(u, r)' \in Nat
        /\ Coming(u, r)' => Chances(u, r)' = m + 1
        /\ ~Coming(u, r)' => Chances(u, r)' = m
    BY ChancesNext
  <2>5. Chances(u, r)' < Chances(u, r)
    BY <1>1, <2>2, <2>3, <2>4
  <2> QED BY <1>0, <2>1, <2>4, <2>5, ChanceUsed
<1>3. Mishaps' \in Nat /\ Mishaps' <= Mishaps
  BY <1>1
<1>4. ~quit /\ Serving =>
        \A r \in Waiting : \A u \in writers' : ~Stopped(u) => Spent(u, r)' <= Patience + since[r]
  BY <1>2
<1> QED BY <1>3, <1>4, AsideBeat

(* The steps of the goroutines that write.                                 *)
LEMMA WritersBeat ==
  ASSUME left \in CastType, BeatInv, NEW w \in writers, Beat(w) PROVE BeatInv' /\ left' = left
<1>0. ClockInv /\ LoopInv /\ AloneInv /\ PassInv
  BY DEF BeatInv
<1>1. left' = left /\ UNCHANGED <<phase, session>> /\ Aside /\ Cut' = Cut
  BY DEF Beat, Late, Seed, WriteHeartbeat, Crossed, Aside, vars, mailVars, workVars, screenVars, Cut
<1>2. CASE Late(w)
  <2>1. w \in Stops /\ writers' = writers \ {w} /\ UNCHANGED <<clientVars, steady>>
    BY <1>2 DEF Late, Becomes, Stops, Stopped
  <2>2. /\ LoopInv' /\ IsFiniteSet(writers') /\ Stops' = Stops \ {w}
        /\ writers' \subseteq [session : Nat, seq : 0..Wrap, at : {"seed", "write", "late", "sleep"}]
    BY <1>0, <1>1, <2>1, StopGone
  <2>3. Mishaps' = Mishaps - 1 /\ Mishaps - 1 \in Nat
    <3>1. Mishaps' = Mishaps - 1 /\ Mishaps' \in Nat
      BY <1>0, <1>1, <2>1, <2>2, OneStopLess
    <3> QED BY <3>1
  <2>4. beat' \in 0..Wrap /\ (ready => beat' # 0)
    <3>1. beat \in 0..Wrap /\ (ready => beat # 0) /\ w.seq \in 0..Wrap /\ 0 \in 0..Wrap
      <4>1. beat \in 0..Wrap /\ (ready => beat # 0) /\ w.seq \in 0..Wrap
        BY <1>0 DEF ClockInv
      <4> QED BY <1>0, <4>1, ClockNumbers
    <3>2. Count(w.seq) \in 1..Wrap
      BY <3>1, Nearer
    <3>3. 1..Wrap \subseteq 0..Wrap \ {0}
      OBVIOUS
    <3> QED BY <1>2, <3>1, <3>2, <3>3 DEF Late
  <2>5. (\A u \in writers' : ~Stopped(u) => u \in writers) /\ left' \in CastType
    BY <1>1, <2>1
  <2>6. BeatInv'
    BY <1>1, <2>1, <2>2, <2>3, <2>4, <2>5, MishapBeat
  <2> QED BY <1>1, <2>6
<1>3. CASE Seed(w)
  BY <1>1, <1>3, SeedBeat
<1>4. CASE WriteHeartbeat(w) \/ \E v \in writers : Crossed(w, v)
  BY <1>1, <1>4, LoopBeat
<1> QED BY <1>2, <1>3, <1>4 DEF Beat

(* Another bootstrap writes a first heartbeat.                             *)
LEMMA BootstrapBeat ==
  ASSUME left \in CastType, BeatInv, OtherBootstrap
  PROVE  BeatInv' /\ left' \in CastType /\ left'.watch = left.watch
<1>0. ClockInv /\ LoopInv
  BY DEF BeatInv
<1>1. /\ left.boots > 0 /\ left' = [left EXCEPT !.boots = @ - 1] /\ left.boots \in Nat
      /\ UNCHANGED <<ready, mail, session, phase, pass, job, op, form, quit, writers, clientVars, steady>>
      /\ beat' = 1
  BY DEF OtherBootstrap, Use, CastType, mailVars, workVars, screenVars
<1>2. /\ left' \in CastType /\ left'.watch = left.watch /\ left'.boots = left.boots - 1
      /\ left'.drops = left.drops /\ left'.actions = left.actions
  BY <1>1 DEF CastType
<1>3. Aside /\ LoopInv' /\ Cut' = Cut /\ Stops' = Stops
  BY <1>0, <1>1, <1>2 DEF Aside, LoopInv, Cut, Stops
<1>4. Mishaps' = Mishaps - 1 /\ Mishaps - 1 \in Nat
  <2>1. /\ Cardinality(Stops) \in Nat /\ Cut \in {0, 1} /\ left.drops \in Nat /\ left.boots \in Nat
    BY <1>0, MishapsType
  <2>2. Mishaps' = Cardinality(Stops) + left.drops + (left.boots - 1) + Cut
    BY <1>2, <1>3 DEF Mishaps
  <2> QED BY <1>1, <2>1, <2>2 DEF Mishaps
<1>5. beat' \in 0..Wrap /\ beat' # 0
  <2>1. Wrap \in Nat /\ Wrap > 0
    BY <1>0, ClockNumbers
  <2> QED BY <1>1, <2>1
<1>6. /\ IsFiniteSet(writers')
      /\ writers' \subseteq [session : Nat, seq : 0..Wrap, at : {"seed", "write", "late", "sleep"}]
      /\ \A u \in writers' : ~Stopped(u) => u \in writers
  BY <1>0, <1>1 DEF ClockInv
<1> QED BY <1>1, <1>2, <1>3, <1>4, <1>5, <1>6, MishapBeat

(* What a tick does to the writers: it wakes the loop.                     *)
LEMMA TickWakes ==
  ASSUME ClockInv, LoopInv, Tick
  PROVE  /\ LoopInv' /\ IsFiniteSet(writers') /\ Stops' = Stops
         /\ writers' \subseteq [session : Nat, seq : 0..Wrap, at : {"seed", "write", "late", "sleep"}]
         /\ \A u \in writers' : ~Stopped(u) =>
              u.at = "write" /\ \E w \in writers : ~Stopped(w) /\ w.at = "sleep" /\ u.seq = w.seq
<1> DEFINE Wake(w) == IF w.at = "sleep" THEN [w EXCEPT !.at = "write"] ELSE w
           Loops == [session : Nat, seq : 0..Wrap, at : {"seed", "write", "late", "sleep"}]
<1>1. writers' = {Wake(w) : w \in writers} /\ UNCHANGED <<phase, session>>
  BY DEF Tick, vars, workVars
<1>2. writers \subseteq Loops /\ IsFiniteSet(writers)
  BY DEF ClockInv
<1>3. \A w \in writers : w.at \in {"late", "sleep"}
  BY <1>2 DEF Tick, Due
<1>4. \A w \in writers : /\ Wake(w) \in Loops /\ Wake(w).session = w.session /\ Wake(w).seq = w.seq
                         /\ Stopped(Wake(w)) <=> Stopped(w)
                         /\ Stopped(w) => Wake(w) = w
                         /\ ~Stopped(w) => w.at = "sleep" /\ Wake(w).at = "write"
  BY <1>2, <1>3 DEF Stopped
<1> HIDE DEF Wake
<1>5. Stops' = Stops
  BY <1>1, <1>4 DEF Stops
<1>6. LoopInv'
  <2>1. \A v, w \in writers : ~Stopped(Wake(v)) /\ ~Stopped(Wake(w)) => Wake(v) = Wake(w)
    BY <1>4 DEF LoopInv
  <2>2. \A v, w \in writers' : ~Stopped(v) /\ ~Stopped(w) => v = w
    BY <1>1, <2>1
  <2>3. \A w \in writers' : ~Stopped(w) => phase'[Serve] \in {"drain", "ending"} /\ w.session = session'.n
    BY <1>1, <1>4 DEF LoopInv
  <2>4. phase'[Serve] = "drain" => \E w \in writers' : ~Stopped(w)
    BY <1>1, <1>4 DEF LoopInv
  <2> QED BY <2>2, <2>3, <2>4 DEF LoopInv
<1>7. IsFiniteSet(writers')
  <2>1. IsFiniteSet(Stops)
    BY <1>2, FS_Subset DEF Stops
  <2>2. CASE \A w \in writers : Stopped(w)
    <3>1. writers' = Stops
      BY <1>1, <1>4, <2>2 DEF Stops
    <3> QED BY <2>1, <3>1
  <2>3. ASSUME NEW u \in writers, ~Stopped(u) PROVE IsFiniteSet(writers')
    <3>1. \A w \in writers : Stopped(w) \/ w = u
      BY <2>3 DEF LoopInv
    <3>2. writers' = Stops \cup {Wake(u)}
      BY <1>1, <1>4, <2>3, <3>1 DEF Stops
    <3>3. IsFiniteSet(Stops \cup {Wake(u)})
      BY <2>1, FS_AddElement
    <3> QED BY <3>2, <3>3
  <2> QED BY <2>2, <2>3
<1> QED BY <1>1, <1>4, <1>5, <1>6, <1>7

(* A tick costs a client that waits a tick, and brings the end of its      *)
(* patience a tick nearer.                                                 *)
LEMMA TickQuiet ==
  ASSUME ClockInv, Serving, Tick, NEW r \in Waiting
  PROVE  /\ since'[r] = since[r] + 1 /\ since[r] < Gap
         /\ Quiet(r)' \in Nat /\ Quiet(r)' <= Quiet(r) + 1 /\ Quiet(r) \in Nat
         /\ Horizon(r)' \in Int /\ Horizon(r) \in Int /\ Horizon(r)' + 1 <= Horizon(r)
<1>1. r \in Requests
  BY DEF Waiting
<1>2. /\ silent[r] \in Nat /\ since[r] \in Nat /\ steady \in Nat /\ steady <= Patience
      /\ silent[r] <= Patience + Gap + 1 /\ Patience \in Nat /\ Gap \in Nat /\ Gap > 0
  BY <1>1, ClockNumbers
<1>3. /\ silent'[r] = Passed(silent[r], Patience + Gap + 1) /\ since'[r] = since[r] + 1
      /\ steady' = Passed(steady, Patience) /\ since[r] < Gap
  BY <1>1 DEF Tick
<1>4. /\ silent'[r] \in Nat /\ steady' \in Nat /\ steady' <= Patience
      /\ silent[r] <= Patience + Gap => silent'[r] = silent[r] + 1
      /\ silent[r] = Patience + Gap + 1 => silent'[r] = Patience + Gap + 1
      /\ steady < Patience => steady' = steady + 1
      /\ steady = Patience => steady' = Patience
  <2>1. CASE silent[r] <= Patience + Gap
    <3>1. silent'[r] = silent[r] + 1
      BY <1>2, <1>3, <2>1 DEF Passed
    <3>2. steady < Patience => steady' = steady + 1
      BY <1>2, <1>3 DEF Passed
    <3>3. steady = Patience => steady' = Patience
      BY <1>2, <1>3 DEF Passed
    <3> QED BY <1>2, <2>1, <3>1, <3>2, <3>3
  <2>2. CASE silent[r] = Patience + Gap + 1
    <3>1. silent'[r] = Patience + Gap + 1
      BY <1>2, <1>3, <2>2 DEF Passed
    <3>2. steady < Patience => steady' = steady + 1
      BY <1>2, <1>3 DEF Passed
    <3>3. steady = Patience => steady' = Patience
      BY <1>2, <1>3 DEF Passed
    <3> QED BY <1>2, <2>2, <3>1, <3>2, <3>3
  <2> QED BY <1>2, <2>1, <2>2
<1>5. PICK a \in Nat, b \in Nat : a = silent'[r] /\ b = steady'
  BY <1>4
<1>6. Quiet(r)' = (IF a <= b THEN a ELSE b + 1)
  BY <1>5 DEF Quiet
<1>7. PICK q \in Nat : q = Quiet(r)'
  BY <1>6
<1>8. Quiet(r) = (IF silent[r] <= steady THEN silent[r] ELSE steady + 1)
  BY DEF Quiet
<1>9. /\ Quiet(r) \in Nat /\ Quiet(r) <= Patience + 1
      /\ Quiet(r) <= Patience => q = Quiet(r) + 1
      /\ Quiet(r) = Patience + 1 => q = Patience + 1
  BY <1>2, <1>4, <1>5, <1>6, <1>7, <1>8
<1>10. Horizon(r)' = (IF q <= Patience THEN (Patience + Gap + 1) - q ELSE Gap - (since[r] + 1))
  BY <1>3, <1>7 DEF Horizon
<1>11. PICK h : h = Horizon(r)'
  OBVIOUS
<1>12. /\ h \in Int /\ Horizon(r) \in Int /\ h + 1 <= Horizon(r)
  <2>1. h = (IF q <= Patience THEN (Patience + Gap + 1) - q ELSE Gap - (since[r] + 1))
    BY <1>10, <1>11
  <2>2. Horizon(r) = (IF Quiet(r) <= Patience THEN (Patience + Gap + 1) - Quiet(r) ELSE Gap - since[r])
    BY DEF Horizon
  <2>3. CASE Quiet(r) <= Patience /\ q <= Patience
    <3>1. h = (Patience + Gap + 1) - q /\ Horizon(r) = (Patience + Gap + 1) - Quiet(r) /\ q = Quiet(r) + 1
      BY <1>9, <2>1, <2>2, <2>3
    <3> QED BY <1>2, <1>9, <3>1
  <2>4. CASE Quiet(r) <= Patience /\ ~(q <= Patience)
    <3>1. h = Gap - (since[r] + 1) /\ Horizon(r) = (Patience + Gap + 1) - Quiet(r)
      BY <2>1, <2>2, <2>4
    <3> QED BY <1>2, <1>9, <2>4, <3>1
  <2>5. CASE ~(Quiet(r) <= Patience)
    <3>1. q = Patience + 1 /\ ~(q <= Patience)
      BY <1>2, <1>9, <2>5
    <3>2. h = Gap - (since[r] + 1) /\ Horizon(r) = Gap - since[r]
      BY <2>1, <2>2, <2>5, <3>1
    <3> QED BY <1>2, <3>2
  <2> QED BY <2>3, <2>4, <2>5
<1>13. q <= Quiet(r) + 1
  BY <1>2, <1>9
<1> QED BY <1>3, <1>7, <1>9, <1>11, <1>12, <1>13

(* A tick keeps the patience of who waits.                                 *)
LEMMA TickPatience ==
  ASSUME left \in CastType, ClockInv, LoopInv, PatienceInv, Tick, Mishaps' = Mishaps,
         ~quit, Serving, NEW r \in Waiting, NEW u \in writers', ~Stopped(u)
  PROVE  Spent(u, r)' <= Patience + since'[r]
<1>1. r \in Requests
  BY DEF Waiting
<1>2. PICK w \in writers : u.at = "write" /\ ~Stopped(w) /\ w.at = "sleep" /\ u.seq = w.seq
  BY TickWakes
<1>3. Spent(w, r) <= Patience + since[r]
  BY <1>2 DEF PatienceInv
<1>4. /\ since'[r] = since[r] + 1 /\ since[r] < Gap
      /\ Quiet(r)' \in Nat /\ Quiet(r)' <= Quiet(r) + 1 /\ Quiet(r) \in Nat
      /\ Horizon(r)' \in Int /\ Horizon(r) \in Int /\ Horizon(r)' + 1 <= Horizon(r)
  BY TickQuiet
<1>5. seen' = seen /\ beat' = beat
  BY DEF Tick
<1>6. Coming(u, r)' => Coming(w, r)
  <2>1. PICK h \in Int : h = Horizon(r)'
    BY <1>4
  <2>2. Ahead(u, r)' = Ahead(w, r)
    BY <1>2, <1>5 DEF Ahead
  <2>3. Coming(u, r)' <=> Ahead(w, r) <= h + 1
    BY <1>2, <2>1, <2>2 DEF Coming
  <2>4. Coming(w, r) <=> Ahead(w, r) <= Horizon(r) + 0
    BY <1>2 DEF Coming
  <2>5. Ahead(w, r) \in Int
    <3>1. seen[r] \in 0..Wrap /\ w \in [session : Nat, seq : 0..Wrap, at : {"seed", "write", "late", "sleep"}]
      BY <1>1 DEF ClockInv
    <3>2. Wrap \in Nat
      BY ClockNumbers
    <3> QED BY <3>1, <3>2 DEF Ahead
  <2> QED BY <1>4, <2>1, <2>3, <2>4, <2>5
<1>7. Mishaps \in Nat
  BY MishapsType
<1>8. /\ Chances(u, r)' \in Nat
      /\ Coming(u, r)' => Chances(u, r)' = Mishaps + 1
      /\ ~Coming(u, r)' => Chances(u, r)' = Mishaps
  BY <1>7, ChancesNext
<1>9. /\ Chances(w, r) \in Nat /\ since[r] \in Nat /\ since[r] <= Gap /\ Patience \in Nat
      /\ Chances(w, r) = Mishaps + (IF Coming(w, r) THEN 1 ELSE 0)
  BY <1>1, SpentNumbers, ClockNumbers
<1>10. Chances(u, r)' <= Chances(w, r)
  BY <1>6, <1>7, <1>8, <1>9
<1>11. PICK p \in Nat, d \in Nat : p = Quiet(r)' /\ d = Chances(u, r)'
  BY <1>4, <1>8
<1>12. Spent(u, r)' = Cost(p, d, beat = seen[r], since[r] + 1, u.at = "sleep")
  BY <1>4, <1>5, <1>11 DEF Spent, Cost, Dark
<1>13. Spent(w, r) = Cost(Quiet(r), Chances(w, r), beat = seen[r], since[r], w.at = "sleep")
  BY SpentIs
<1>14. /\ Cost(p, d, beat = seen[r], since[r] + 1, u.at = "sleep")
           <= Cost(Quiet(r), Chances(w, r), beat = seen[r], since[r], w.at = "sleep") + 1
       /\ Cost(Quiet(r), Chances(w, r), beat = seen[r], since[r], w.at = "sleep") \in Nat
       /\ Cost(p, d, beat = seen[r], since[r] + 1, u.at = "sleep") \in Nat
  <2>1. u.at # "sleep" /\ w.at = "sleep" /\ d <= Chances(w, r) /\ p <= Quiet(r) + 1
    BY <1>2, <1>4, <1>10, <1>11
  <2>2. since[r] + 1 \in Nat /\ since[r] + 1 <= Gap /\ Gap \in Nat
    BY <1>4, <1>9, PatienceAssumption
  <2>3. Cost(p, d, beat = seen[r], since[r] + 1, u.at = "sleep") \in Nat
    BY <2>2, CostFacts
  <2> QED BY <1>4, <1>9, <2>1, <2>3, CostFacts
<1> QED BY <1>3, <1>4, <1>9, <1>12, <1>13, <1>14

(* A tick, as a whole.                                                     *)
LEMMA TickBeat ==
  ASSUME left \in CastType, BeatInv, Tick PROVE BeatInv' /\ left' = left
<1>0. AloneInv /\ PassInv /\ ClockInv /\ LoopInv /\ ClientsInv /\ SpareInv /\ PatienceInv
  BY DEF BeatInv
<1>1. Aside /\ left' = left /\ UNCHANGED <<beat, wait, seen>>
  BY DEF Tick, Aside, vars, mailVars, workVars, screenVars
<1>2. AloneInv' /\ PassInv' /\ Cut' = Cut /\ (Serving' <=> Serving) /\ quit' = quit
  BY <1>0, <1>1, AsideKeeps DEF Aside
<1>3. /\ LoopInv' /\ IsFiniteSet(writers') /\ Stops' = Stops
      /\ writers' \subseteq [session : Nat, seq : 0..Wrap, at : {"seed", "write", "late", "sleep"}]
  BY <1>0, TickWakes
<1>4. Mishaps' = Mishaps /\ Mishaps \in Nat
  BY <1>0, <1>1, <1>2, <1>3, MishapsType DEF Mishaps
<1>5. /\ \A r \in Requests : silent[r] \in Nat /\ since[r] \in Nat /\ since[r] <= Gap
                            /\ silent[r] <= Patience + Gap + 1
      /\ steady \in Nat /\ steady <= Patience /\ (~Serving => steady = 0)
      /\ Patience \in Nat /\ Gap \in Nat /\ Gap > 0
  BY <1>0, ClockNumbers
<1>6. \A r \in Requests :
        /\ silent'[r] = IF r \in Waiting THEN Passed(silent[r], Patience + Gap + 1) ELSE 0
        /\ since'[r] = IF r \in Waiting THEN since[r] + 1 ELSE 0
        /\ r \in Waiting => since[r] < Gap
  BY DEF Tick
<1>7. ClockInv'
  <2>1. \A n, most \in Nat : n <= most => Passed(n, most) \in 0..most
    BY DEF Passed
  <2>2. silent' \in [Requests -> 0..(Patience + Gap + 1)]
    <3>1. \A r \in Requests : silent'[r] \in 0..(Patience + Gap + 1)
      <4>1. Patience + Gap + 1 \in Nat /\ 0 \in 0..(Patience + Gap + 1)
        BY <1>5
      <4> QED BY <1>5, <1>6, <2>1, <4>1
    <3>2. silent' = [r \in Requests |-> silent'[r]]
      BY DEF Tick
    <3> QED BY <3>1, <3>2
  <2>3. since' \in [Requests -> 0..Gap]
    <3>1. \A r \in Requests : since'[r] \in 0..Gap
      BY <1>5, <1>6
    <3>2. since' = [r \in Requests |-> since'[r]]
      BY DEF Tick
    <3> QED BY <3>1, <3>2
  <2>4. steady' \in 0..Patience /\ (~Serving' => steady' = 0)
    <3>1. steady' = IF Serving THEN Passed(steady, Patience) ELSE 0
      BY DEF Tick
    <3>2. 0 \in 0..Patience /\ Passed(steady, Patience) \in 0..Patience
      BY <1>5, <2>1
    <3> QED BY <1>2, <3>1, <3>2
  <2> QED BY <1>0, <1>1, <1>3, <2>2, <2>3, <2>4 DEF ClockInv, Aside
<1>8. ClientsInv'
  <2>1. \A r \in Requests : wait[r] = "waiting" => silent'[r] <= Patience + since'[r]
    <3>1. \A r \in Requests : wait[r] = "waiting" => r \in Waiting /\ silent[r] <= Patience + since[r]
      BY <1>0 DEF Waiting, ClientsInv
    <3>2. \A n, most \in Nat : Passed(n, most) <= n + 1 \/ n > most
      BY DEF Passed
    <3>3. Patience + Gap + 1 \in Nat
      BY <1>5
    <3>4. ASSUME NEW r \in Requests, wait[r] = "waiting" PROVE silent'[r] <= Patience + since'[r]
      <4>1. r \in Waiting /\ silent[r] <= Patience + since[r]
        BY <3>1, <3>4
      <4>2. silent'[r] = Passed(silent[r], Patience + Gap + 1) /\ since'[r] = since[r] + 1
        BY <1>6, <4>1
      <4>3. silent[r] \in Nat /\ since[r] \in Nat /\ silent[r] <= Patience + Gap + 1
        BY <1>5
      <4>4. Passed(silent[r], Patience + Gap + 1) <= silent[r] + 1
        BY <3>3, <4>3 DEF Passed
      <4>5. Passed(silent[r], Patience + Gap + 1) \in Nat
        BY <3>3, <4>3 DEF Passed
      <4> QED BY <1>5, <4>1, <4>2, <4>3, <4>4, <4>5
    <3> QED BY <3>4
  <2>2. \A r \in Requests : wait[r] = "no" => silent'[r] = 0 /\ since'[r] = 0
    BY <1>6 DEF Waiting
  <2> QED BY <1>0, <1>1, <2>1, <2>2 DEF ClientsInv, Aside
<1>9. SpareInv'
  BY <1>0, <1>2, <1>4, SpareKept
<1>10. PatienceInv'
  <2>1. Waiting' = Waiting
    BY <1>1 DEF Waiting
  <2>2. ASSUME ~quit, Serving
        PROVE  \A r \in Waiting : \A u \in writers' : ~Stopped(u) => Spent(u, r)' <= Patience + since'[r]
    BY <1>0, <1>4, <2>2, TickPatience
  <2> QED BY <1>2, <2>1, <2>2 DEF PatienceInv
<1> QED BY <1>1, <1>2, <1>3, <1>7, <1>8, <1>9, <1>10 DEF BeatInv

(* A client that looks and sees no news is where it was.                   *)
LEMMA PollPatience ==
  ASSUME left \in CastType, ClockInv, PatienceInv, ~quit, Serving, NEW r \in Requests, Poll(r), wait[r] = "waiting",
         ~(beat # 0 /\ beat # seen[r]), NEW u \in writers, ~Stopped(u)
  PROVE  Spent(u, r)' <= Patience + since'[r]
<1>1. UNCHANGED <<beat, steady>> /\ Mishaps' = Mishaps
  BY DEF Poll, vars, workVars, Mishaps, Stops, Cut
<1>2. beat = seen[r]
  BY DEF ClockInv, Serving
<1>3. silent'[r] = silent[r] /\ since'[r] = 0 /\ seen'[r] = seen[r]
  BY DEF Poll, ClockInv
<1>4. /\ Quiet(r) \in Nat /\ Chances(u, r) \in Nat /\ since[r] \in Nat
      /\ Patience \in Nat
  BY SpentNumbers, ClockNumbers
<1>5. Spent(u, r) <= Patience + since[r]
  BY DEF PatienceInv, Waiting
<1>6. Dark(Chances(u, r)) \in Nat
  BY <1>4, DarkFacts
<1>7. Spent(u, r) = Quiet(r) + Dark(Chances(u, r)) + (since[r] + (IF u.at = "sleep" THEN 1 ELSE 0))
  BY <1>2 DEF Spent
<1>8. Quiet(r) <= Patience
  BY <1>4, <1>5, <1>6, <1>7
<1>9. Quiet(r)' = Quiet(r)
  BY <1>1, <1>3 DEF Quiet
<1>10. Horizon(r)' = Horizon(r)
  BY <1>8, <1>9 DEF Horizon
<1>11. Coming(u, r)' <=> Coming(u, r)
  BY <1>3, <1>10 DEF Coming, Ahead
<1>12. Chances(u, r)' = Chances(u, r)
  BY <1>1, <1>11 DEF Chances
<1>13. Spent(u, r)' = Quiet(r) + Dark(Chances(u, r)) + (0 + (IF u.at = "sleep" THEN 1 ELSE 0))
  BY <1>1, <1>2, <1>3, <1>9, <1>12 DEF Spent, Dark
<1> QED BY <1>3, <1>4, <1>5, <1>6, <1>7, <1>13

(* A client looks: a poll, as a whole.                                     *)
LEMMA PollBeat ==
  ASSUME left \in CastType, BeatInv, NEW r \in Requests, Poll(r) PROVE BeatInv' /\ left' = left
<1>0. AloneInv /\ PassInv /\ ClockInv /\ LoopInv /\ ClientsInv /\ SpareInv /\ PatienceInv
  BY DEF BeatInv
<1>1. /\ Aside /\ left' = left /\ UNCHANGED <<beat, writers, steady>> /\ Mishaps' = Mishaps
      /\ wait[r] = "waiting"
  BY DEF Poll, Aside, vars, mailVars, workVars, screenVars, Mishaps, Stops, Cut
<1>2. AloneInv' /\ PassInv' /\ Cut' = Cut /\ (Serving' <=> Serving) /\ quit' = quit
  BY <1>0, <1>1, AsideKeeps DEF Aside
<1>3. LoopInv'
  BY <1>0, <1>1 DEF LoopInv, Aside
<1>4. Patience \in Nat /\ Gap \in Nat /\ Mishaps \in Nat /\ 0 \in 0..Gap /\ 0 \in 0..(Patience + Gap + 1)
  BY <1>0, PatienceAssumption, MishapsType
<1>5. ClockInv'
  <2>1. seen' \in [Requests -> 0..Wrap] /\ silent' \in [Requests -> 0..(Patience + Gap + 1)]
        /\ since' \in [Requests -> 0..Gap]
    BY <1>0, <1>4 DEF Poll, ClockInv
  <2>2. wait' \in [Requests -> {"no", "waiting", "answered", "gave up"}]
    <3>1. \E x \in {"no", "waiting", "answered", "gave up"} : wait' = [wait EXCEPT ![r] = x]
      BY <1>1 DEF Poll
    <3> QED BY <1>0, <3>1 DEF ClockInv
  <2> QED BY <1>0, <1>1, <1>2, <2>1, <2>2 DEF ClockInv, Aside
<1>6. \A q \in Requests : q # r =>
        wait'[q] = wait[q] /\ seen'[q] = seen[q] /\ silent'[q] = silent[q] /\ since'[q] = since[q]
  BY <1>0 DEF Poll, ClockInv
<1>7. /\ silent'[r] = (IF beat # 0 /\ beat # seen[r] THEN 0 ELSE silent[r]) /\ since'[r] = 0
      /\ wait'[r] = (IF r \in answered THEN "answered"
                     ELSE IF ~(beat # 0 /\ beat # seen[r]) /\ silent[r] > Patience THEN "gave up"
                     ELSE "waiting")
  BY <1>0, <1>1 DEF Poll, ClockInv
<1>8. ClientsInv'
  <2>1. wait'[r] = "waiting" => silent'[r] <= Patience + since'[r]
    <3>1. silent[r] \in Nat
      BY <1>0, ClockNumbers
    <3>2. \A x \in Nat : x <= Patience => x <= Patience + 0
      BY <1>4
    <3>3. ~(silent[r] > Patience) => silent[r] <= Patience
      BY <1>4, <3>1
    <3>4. 0 <= Patience + 0
      BY <1>4
    <3>5. wait'[r] = "waiting" => silent'[r] = 0 \/ (silent'[r] = silent[r] /\ ~(silent[r] > Patience))
      BY <1>7, Zenon
    <3> QED BY <1>7, <3>1, <3>2, <3>3, <3>4, <3>5, Zenon
  <2>2. wait'[r] # "no" /\ mail'[r] # "unsent" /\ mail' = mail
    BY <1>0, <1>1, <1>7 DEF ClientsInv, Aside
  <2> QED BY <1>0, <1>6, <2>1, <2>2 DEF ClientsInv
<1>9. SpareInv'
  BY <1>0, <1>1, <1>2, <1>4, SpareKept
<1>10. PatienceInv'
  <2>1. ASSUME ~quit, Serving, NEW q \in Waiting', NEW u \in writers, ~Stopped(u)
        PROVE  Spent(u, q)' <= Patience + since'[q]
    <3>1. q \in Requests /\ wait'[q] = "waiting"
      BY <2>1 DEF Waiting
    <3>2. CASE q # r
      <4>1. wait'[q] = wait[q] /\ seen'[q] = seen[q] /\ silent'[q] = silent[q] /\ since'[q] = since[q]
        BY <1>6, <3>1, <3>2
      <4>2. Spent(u, q) <= Patience + since[q]
        BY <1>0, <2>1, <3>1, <4>1 DEF PatienceInv, Waiting
      <4>3. Spent(u, q)' = Spent(u, q)
        BY <1>1, <4>1 DEF Spent, Quiet, Dark, Chances, Coming, Ahead, Horizon
      <4> QED BY <4>1, <4>2, <4>3
    <3>3. CASE q = r /\ ~(beat # 0 /\ beat # seen[r])
      <4>1. Spent(u, r)' <= Patience + since'[r]
        BY <1>0, <1>1, <2>1, <3>3, PollPatience
      <4> QED BY <3>3, <4>1
    <3>4. CASE q = r /\ beat # 0 /\ beat # seen[r]
      <4>1. silent'[r] = 0 /\ steady' \in Nat
        BY <1>5, <1>7, <3>4, NumbersNext
      <4>2. Quiet(r)' = 0
        BY <4>1 DEF Quiet
      <4>3. left' \in CastType /\ ~quit' /\ u \in writers'
        BY <1>1, <1>2, <2>1
      <4>4. Spent(u, r)' <= Patience + since'[r]
        BY <1>5, <1>9, <4>2, <4>3, FreshPatience
      <4> QED BY <3>4, <4>4
    <3> QED BY <3>2, <3>3, <3>4
  <2> QED BY <1>1, <1>2, <2>1 DEF PatienceInv
<1> QED BY <1>1, <1>2, <1>3, <1>5, <1>8, <1>9, <1>10 DEF BeatInv

(* In a cast in which nobody waits, nobody is told anything.               *)
WatchInv ==
  /\ left \in CastType
  /\ wait \in [Requests -> {"no", "waiting", "answered", "gave up"}]
  /\ left.watch = {} => \A r \in Requests : wait[r] = "no"
  /\ left.watch # {} => BeatInv

(* It holds at first, for a cast that may be patient.                      *)
LEMMA WatchInit ==
  ASSUME \A c \in Casts : Patient(c), BeatInit PROVE WatchInv
<1> USE CastFacts
<1>1. left \in Casts /\ ready = left.ready /\ Patient(left) /\ left \in CastType
  BY DEF BeatInit, Init, Patient
<1>2. wait = [r \in Requests |-> "no"]
  BY DEF BeatInit
<1>3. ASSUME left.watch # {} PROVE BeatInv
  <2>1. left.actions = {} /\ 1 + (left.drops + left.boots + 1) * (Gap + 1) <= Patience
    BY <1>1, <1>3 DEF Patient
  <2>2. AloneInv
    BY <1>1, <2>1 DEF BeatInit, Init, AloneInv, Idle, Dispatchers, Names
  <2>3. PassInv
    BY <1>1 DEF BeatInit, Init, PassInv
  <2>4. Patience \in Nat /\ Gap \in Nat /\ Wrap \in Nat /\ Wrap > 1
    BY PatienceAssumption, WrapAssumption
  <2>5. ClockInv
    <3>1. IsFiniteSet({})
      BY FS_EmptySet
    <3>2. 0 \in 0..Wrap /\ 1 \in 0..Wrap /\ 0 \in 0..Gap /\ 0 \in 0..Patience /\ 0 \in 0..(Patience + Gap + 1)
      BY <2>4
    <3>3. beat \in 0..Wrap /\ (ready => beat # 0) /\ steady = 0
      BY <1>1, <3>2 DEF BeatInit
    <3>4. /\ seen \in [Requests -> 0..Wrap] /\ since \in [Requests -> 0..Gap]
          /\ silent \in [Requests -> 0..(Patience + Gap + 1)]
          /\ wait \in [Requests -> {"no", "waiting", "answered", "gave up"}]
      BY <3>2 DEF BeatInit
    <3>5. writers = {}
      BY DEF BeatInit
    <3> QED BY <3>1, <3>2, <3>3, <3>4, <3>5 DEF ClockInv
  <2>6. LoopInv
    BY DEF BeatInit, Init, LoopInv
  <2>7. ClientsInv
    BY DEF BeatInit, ClientsInv
  <2>8. SpareInv
    <3>1. Cardinality(Stops) = 0
      BY FS_EmptySet DEF BeatInit, Stops
    <3>2. Cut = 0
      BY DEF BeatInit, Init, Cut
    <3>3. Mishaps = left.drops + left.boots
      BY <1>1, <3>1, <3>2 DEF Mishaps, CastType
    <3> QED BY <2>1, <3>3 DEF SpareInv, Dark
  <2>9. PatienceInv
    BY DEF BeatInit, PatienceInv, Waiting
  <2> QED BY <2>2, <2>3, <2>5, <2>6, <2>7, <2>8, <2>9 DEF BeatInv
<1> QED BY <1>1, <1>2, <1>3 DEF WatchInv

(* Every step keeps it.                                                    *)
LEMMA WatchNext ==
  ASSUME ConsoleInv, WatchInv, [BeatNext]_allVars PROVE WatchInv'
<1> USE DEF WatchInv
<1>1. CASE left.watch = {}
  <2>1. CASE ConsoleStep
    <3>1. CastKept
      BY <2>1, CastKeeps DEF ConsoleStep
    <3>2. wait' = wait
      BY <1>1, <2>1 DEF ConsoleStep, SentBy
    <3> QED BY <1>1, <3>1, <3>2 DEF CastKept
  <2>2. CASE OtherBootstrap
    BY <1>1, <2>2 DEF OtherBootstrap
  <2>3. ASSUME NEW w \in writers, Beat(w) PROVE WatchInv'
    <3>1. left' = left /\ wait' = wait
      BY <2>3 DEF Beat, Late, Seed, WriteHeartbeat, Crossed, vars, clientVars
    <3> QED BY <1>1, <3>1
  <2>4. CASE Tick
    BY <1>1, <2>4 DEF Tick, Waiting
  <2>5. ASSUME NEW r \in Requests, Poll(r) PROVE WatchInv'
    BY <1>1, <2>5 DEF Poll
  <2>6. CASE UNCHANGED allVars
    BY <1>1, <2>6 DEF allVars, vars, beatVars, clientVars
  <2> QED BY <2>1, <2>2, <2>3, <2>4, <2>5, <2>6 DEF BeatNext
<1>2. CASE left.watch # {}
  <2>1. BeatInv' /\ left' \in CastType /\ left'.watch = left.watch => WatchInv'
    BY <1>2 DEF BeatInv, ClockInv
  <2>2. CASE ConsoleStep
    BY <1>2, <2>1, <2>2, ConsolePatience DEF CastKept
  <2>3. CASE OtherBootstrap
    BY <1>2, <2>1, <2>3, BootstrapBeat
  <2>4. ASSUME NEW w \in writers, Beat(w) PROVE WatchInv'
    <3>1. BeatInv' /\ left' = left
      BY <1>2, <2>4, WritersBeat
    <3> QED BY <2>1, <3>1
  <2>5. CASE Tick
    <3>1. BeatInv' /\ left' = left
      BY <1>2, <2>5, TickBeat
    <3> QED BY <2>1, <3>1
  <2>6. ASSUME NEW r \in Requests, Poll(r) PROVE WatchInv'
    <3>1. BeatInv' /\ left' = left
      BY <1>2, <2>6, PollBeat
    <3> QED BY <2>1, <3>1
  <2>7. CASE UNCHANGED allVars
    <3>1. /\ UNCHANGED <<ready, mail, session, phase, pass, job, op, form, quit, left>>
          /\ UNCHANGED <<beat, writers, wait, seen, silent, since, steady>>
      BY <2>7 DEF allVars, vars, beatVars, clientVars, mailVars, workVars, screenVars
    <3>2. AloneInv' /\ PassInv' /\ (Serving' <=> Serving) /\ Mishaps' = Mishaps
      BY <1>2, <3>1 DEF BeatInv, AloneInv, PassInv, Idle, Serving, Works, Live, Mishaps, Stops, Cut
    <3>3. ClockInv' /\ LoopInv' /\ ClientsInv' /\ SpareInv'
      BY <1>2, <3>1, <3>2 DEF BeatInv, ClockInv, LoopInv, ClientsInv, SpareInv, Dark
    <3>4. ASSUME NEW w, NEW r PROVE Spent(w, r)' = Spent(w, r)
      BY <3>1, <3>2 DEF Spent, Quiet, Dark, Chances, Coming, Ahead, Horizon
    <3>5. PatienceInv'
      BY <1>2, <3>1, <3>2, <3>4 DEF BeatInv, PatienceInv, Waiting
    <3> QED BY <2>1, <3>1, <3>2, <3>3, <3>5 DEF BeatInv
  <2> QED BY <2>2, <2>3, <2>4, <2>5, <2>6, <2>7 DEF BeatNext
<1> QED BY <1>1, <1>2

(* Whoever gives up has not been served for all its patience, and whoever  *)
(* waits on has seen news within it.                                       *)
LEMMA TruthStep ==
  ASSUME WatchInv, WatchInv', [BeatNext]_allVars, NEW r \in Requests
  PROVE  /\ wait[r] # "gave up" /\ wait'[r] = "gave up" => steady < Patience
         /\ wait'[r] = "waiting" => silent'[r] <= Patience + Gap
<1>1. ASSUME wait'[r] = "waiting" PROVE silent'[r] <= Patience + Gap
  <2>1. ClockInv' /\ ClientsInv'
    BY <1>1 DEF WatchInv, BeatInv
  <2>2. silent'[r] <= Patience + since'[r]
    BY <1>1, <2>1 DEF ClientsInv
  <2> QED BY <2>1, <2>2, NumbersNext, PatienceAssumption
<1>2. ASSUME wait[r] # "gave up", wait'[r] = "gave up" PROVE steady < Patience
  <2>1. Poll(r)
    <3>1. CASE ConsoleStep
      BY <1>2, <3>1 DEF ConsoleStep
    <3>2. CASE OtherBootstrap \/ Tick \/ \E w \in writers : Beat(w)
      BY <1>2, <3>2 DEF OtherBootstrap, Tick, Beat, Late, Seed, WriteHeartbeat, Crossed, clientVars
    <3>3. ASSUME NEW q \in Requests, Poll(q), q # r PROVE FALSE
      BY <1>2, <3>3 DEF Poll, WatchInv
    <3>4. CASE UNCHANGED allVars
      BY <1>2, <3>4 DEF allVars, beatVars, clientVars
    <3> QED BY <3>1, <3>2, <3>3, <3>4 DEF BeatNext
  <2>2. wait[r] = "waiting" /\ ~(beat # 0 /\ beat # seen[r]) /\ silent[r] > Patience
    BY <1>2, <2>1 DEF Poll, WatchInv
  <2>3. BeatInv /\ left \in CastType
    BY <2>2 DEF WatchInv
  <2>4. ClockInv /\ LoopInv /\ PatienceInv /\ AloneInv
    BY <2>3 DEF BeatInv
  <2>5. SUFFICES ASSUME ~(steady < Patience) PROVE FALSE
    OBVIOUS
  <2>6. /\ silent[r] \in Nat /\ since[r] \in Nat /\ steady \in Nat /\ steady <= Patience
        /\ (~Serving => steady = 0) /\ Patience \in Nat /\ Gap \in Nat /\ Gap > 0 /\ Patience >= 3 * Gap
    BY <2>4, ClockNumbers, PatienceAssumption
  <2>7. steady = Patience /\ Patience > 0
    BY <2>5, <2>6
  <2>8. Serving
    BY <2>6, <2>7
  <2>9. ~quit
    BY <2>4, <2>8 DEF AloneInv, Serving, Works, Live
  <2>10. PICK w \in writers : ~Stopped(w)
    BY <2>4, <2>8 DEF Serving, LoopInv
  <2>11. Spent(w, r) <= Patience + since[r]
    BY <2>2, <2>4, <2>8, <2>9, <2>10 DEF PatienceInv, Waiting
  <2>12. beat = seen[r]
    BY <2>2, <2>4, <2>8 DEF ClockInv, Serving
  <2>13. Quiet(r) = Patience + 1
    BY <2>2, <2>6, <2>7 DEF Quiet
  <2>14. Chances(w, r) \in Nat /\ Dark(Chances(w, r)) \in Nat
    BY <2>3, <2>4, SpentNumbers, DarkFacts
  <2>15. Spent(w, r) = Patience + 1 + Dark(Chances(w, r)) + (since[r] + (IF w.at = "sleep" THEN 1 ELSE 0))
    BY <2>12, <2>13 DEF Spent
  <2> QED BY <2>6, <2>11, <2>14, <2>15
<1> QED BY <1>1, <1>2

(* "Popo appears down" is the truth, for every number of requests, drops   *)
(* and bootstraps for which a client's patience can suffice at all.        *)
THEOREM ConsoleDownIsTrue ==
  ASSUME \A c \in Casts : Patient(c) PROVE BeatSpec => DownIsTrue
<1>1. BeatInit => WatchInv
  BY WatchInit
<1>2. ConsoleInv /\ WatchInv /\ [BeatNext]_allVars => WatchInv'
  BY WatchNext
<1>3. /\ WatchInv /\ WatchInv' /\ [BeatNext]_allVars
      => [\A r \in Requests :
            /\ wait[r] # "gave up" /\ wait'[r] = "gave up" => steady < Patience
            /\ wait'[r] = "waiting" => silent'[r] <= Patience + Gap]_allVars
  BY TruthStep
<1>4. BeatSpec => []ConsoleInv
  BY ConsoleInvariant
<1> QED BY <1>1, <1>2, <1>3, <1>4, PTL DEF BeatSpec, DownIsTrue

=============================================================================
