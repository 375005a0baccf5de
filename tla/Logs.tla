------------------------------- MODULE Logs --------------------------------
(***************************************************************************)
(* One log of a sandbox: the activity log, the audit log, the agent's      *)
(* stream. Several processes append to it, each through a rotating writer  *)
(* (src/internal/logfile/logfile.go): `serve` or a console, the commands   *)
(* approve and deny, `popo log` in the sandbox. One that serves also keeps *)
(* a snapshot of its counts (activity/activity.go). A follower shows the   *)
(* lines as they come: `logs -f` and the console (tail/tail.go), or the    *)
(* bridge that copies the agent's stream (cli/console.go).                 *)
(*                                                                         *)
(* A file is a sequence of lines, all of one length; dir[0] is the log and *)
(* dir[i] its generation i. A process may be killed at any step, which     *)
(* gives back its lock, and one that serves is started again.              *)
(*                                                                         *)
(* Left out: what a line says and which lines a filter shows, failing file *)
(* operations other than a kill, a line written in two pieces, the two     *)
(* steps of a snapshot's replacement.                                      *)
(***************************************************************************)
EXTENDS Integers, Sequences, FiniteSets, SequencesExt

CONSTANTS
  Procs,         \* the processes that append
  Nobody,
  DefaultMax,    \* the bound of a log whose configuration names none
  DefaultKeep,   \* the number of generations, likewise
  FlushEvery,    \* counted events between two snapshots
  Top,           \* bound: the highest generation
  Casts          \* bounds: the processes of a behaviour and its faults, see Init

Roles == {"serve", "approve", "tee"}

\* One process at most serves, which the dispatcher's lock sees to. Without a snapshot
\* nobody approves: approve and deny need a request that one that served has held.
ASSUME LogsAssumption ==
  /\ DefaultMax \in Nat \ {0} /\ DefaultKeep \in Nat \ {0}
  /\ FlushEvery \in Nat \ {0} /\ Top \in Nat
  /\ Nobody \notin Procs
  /\ \A c \in Casts :
       /\ DOMAIN c.writers \subseteq Procs /\ IsFiniteSet(DOMAIN c.writers)
       /\ \A p \in DOMAIN c.writers :
            c.writers[p] \in [role : Roles, max : Nat, keep : 0..(Top + 1), lines : Nat]
       /\ \A p, q \in DOMAIN c.writers :
            c.writers[p].role = "serve" /\ c.writers[q].role = "serve" => p = q
       /\ \/ c.snapshot = 0
          \/ c.snapshot = -1 /\ \A p \in DOMAIN c.writers : c.writers[p].role # "approve"
       /\ c.kills \in Nat /\ c.last \in Nat

VARIABLES
  cast,      \* what may happen: the processes and their configuration, the faults
  dir,       \* the file a name has, 0 if there is none
  files,     \* the lines of every file ever created
  lock,      \* who holds the lock beside the log
  pc,        \* where a process is in an Append, and
  fd,        \*   the file it has open
  next,      \*   the generation it moves next
  written,   \* the lines a process has appended
  tally,     \* its counts: in memory, not yet in the snapshot, and
  snapshot,  \*   the snapshot, -1 if there is none
  reader,    \* the follower: its position, the start of a read in progress, and
  shown,     \*   the lines it has shown
  kills      \* the kills so far

fileVars == <<dir, files>>
procVars == <<lock, pc, fd, next, written>>
countVars == <<tally, snapshot>>
readVars == <<reader, shown>>
vars == <<cast, fileVars, procVars, countVars, readVars, kills>>

\* The writers of a log: what New makes of the bounds it is given.
Writers == DOMAIN cast.writers
Limit(p) == IF cast.writers[p].max = 0 THEN DefaultMax ELSE cast.writers[p].max
KeepPromised(p) == IF cast.writers[p].keep = 0 THEN DefaultKeep ELSE cast.writers[p].keep
Keep(p) == IF cast.writers[p].keep = 0 THEN 1 ELSE cast.writers[p].keep
Serves(p) == cast.writers[p].role = "serve"

\* How a process begins: popo log has no counts.
First(p) == IF cast.writers[p].role = "tee" THEN "idle" ELSE "seed"

Init ==
  /\ cast \in Casts
  /\ dir = [i \in 0..Top |-> 0] /\ files = <<>>
  /\ lock = Nobody
  /\ pc = [p \in Procs |-> IF p \in Writers THEN First(p) ELSE "done"]
  /\ fd = [p \in Procs |-> 0] /\ next = [p \in Procs |-> 0]
  /\ written = [p \in Procs |-> 0]
  /\ tally = [p \in Procs |-> [served |-> 0, dirty |-> 0]]
  /\ snapshot = cast.snapshot
  /\ reader = [at |-> 0, from |-> 0, busy |-> FALSE, seen |-> FALSE] /\ shown = <<>>
  /\ kills = 0

Goto(p, label) == pc' = [pc EXCEPT ![p] = label]
Size(f) == IF f = 0 THEN 0 ELSE Len(files[f])
Live == dir[0]
More(p) == written[p] < cast.writers[p].lines

(***************************************************************************)
(* The counts (activity.go)                                                *)
(***************************************************************************)
Events(f) == IF f = 0 THEN 0 ELSE Cardinality({i \in 1..Len(files[f]) : Serves(files[f][i][1])})

\* Mutant: a logger starts from nothing.
SeedZero(p, n) == tally' = [tally EXCEPT ![p] = [served |-> 0, dirty |-> 0]]

Seed(p, n) == tally' = [tally EXCEPT ![p] = [served |-> n, dirty |-> 0]]

\* SeedCounts: the snapshot, or the log, which then becomes the snapshot.
SeedCounts(p) ==
  /\ pc[p] = "seed"
  /\ IF snapshot >= 0
       THEN Seed(p, snapshot) /\ Goto(p, "idle")
       ELSE Seed(p, Events(Live)) /\ Goto(p, "backfill")
  /\ UNCHANGED <<cast, fileVars, lock, fd, next, written, snapshot, readVars, kills>>

Backfill(p) ==
  /\ pc[p] = "backfill"
  /\ snapshot' = tally[p].served
  /\ Goto(p, "idle")
  /\ UNCHANGED <<cast, fileVars, lock, fd, next, written, tally, readVars, kills>>

\* A line is counted after it is written, and every so often the snapshot follows.
Tally(p) ==
  /\ pc[p] = "tally"
  /\ LET now == tally[p].served + 1
         due == tally[p].dirty + 1 >= FlushEvery
     IN /\ tally' = [tally EXCEPT ![p] = [served |-> now, dirty |-> IF due THEN 0 ELSE @.dirty + 1]]
        /\ snapshot' = IF due THEN now ELSE snapshot
  /\ Goto(p, "idle")
  /\ UNCHANGED <<cast, fileVars, lock, fd, next, written, readVars, kills>>

\* Close; approve and deny end without it.
Close(p) ==
  /\ pc[p] = "idle" /\ ~More(p)
  /\ snapshot' = IF Serves(p) /\ tally[p].dirty > 0 THEN tally[p].served ELSE snapshot
  /\ tally' = [tally EXCEPT ![p].dirty = 0]
  /\ fd' = [fd EXCEPT ![p] = 0] /\ Goto(p, "done")
  /\ UNCHANGED <<cast, fileVars, lock, next, written, readVars, kills>>

(***************************************************************************)
(* Append (logfile.go)                                                     *)
(***************************************************************************)
\* Opening for append creates the log if there is none.
Open(p) ==
  /\ IF Live = 0
       THEN /\ files' = Append(files, <<>>)
            /\ dir' = [dir EXCEPT ![0] = Len(files) + 1]
       ELSE UNCHANGED fileVars
  /\ fd' = [fd EXCEPT ![p] = dir'[0]]

EnsureOpen(p) ==
  /\ pc[p] = "idle" /\ More(p)
  /\ IF fd[p] = 0 THEN Open(p) ELSE UNCHANGED <<fileVars, fd>>
  /\ Goto(p, "check")
  /\ UNCHANGED <<cast, lock, next, written, countVars, readVars, kills>>

\* Mutant: a file at the bound is not full yet.
FullAbove(p, f) == Size(f) > Limit(p)

Full(p, f) == Size(f) >= Limit(p)

\* rotateIfNeeded: the log is another file by now, or it is full.
RotateIfNeeded(p) ==
  /\ pc[p] = "check"
  /\ Goto(p, IF Live # fd[p] THEN "follow" ELSE IF Full(p, fd[p]) THEN "lock" ELSE "write")
  /\ UNCHANGED <<cast, fileVars, lock, fd, next, written, countVars, readVars, kills>>

\* The file that is followed is written to whatever its size.
Reopen(p) ==
  /\ pc[p] = "follow"
  /\ Open(p)
  /\ Goto(p, "write")
  /\ UNCHANGED <<cast, lock, next, written, countVars, readVars, kills>>

AcquireLock(p) ==
  /\ pc[p] = "lock" /\ lock = Nobody
  /\ lock' = p
  /\ Goto(p, "again")
  /\ UNCHANGED <<cast, fileVars, fd, next, written, countVars, readVars, kills>>

\* Mutant: the size is not looked at again under the lock.
RotatedNever(p) == FALSE

\* Somebody else has rotated meanwhile. A log that is missing is no such sign.
Rotated(p) == Live # 0 /\ ~Full(p, Live)

CheckAgain(p) ==
  /\ pc[p] = "again"
  /\ Goto(p, IF Rotated(p) THEN "reopen" ELSE IF Keep(p) <= 1 THEN "truncate" ELSE "remove")
  /\ UNCHANGED <<cast, fileVars, lock, fd, next, written, countVars, readVars, kills>>

Truncate(p) ==
  /\ pc[p] = "truncate"
  /\ files' = IF Live = 0 THEN files ELSE [files EXCEPT ![Live] = <<>>]
  /\ Goto(p, "reopen")
  /\ UNCHANGED <<cast, dir, lock, fd, next, written, countVars, readVars, kills>>

RemoveOldest(p) ==
  /\ pc[p] = "remove"
  /\ dir' = [dir EXCEPT ![Keep(p) - 1] = 0]
  /\ next' = [next EXCEPT ![p] = Keep(p) - 2]
  /\ Goto(p, "shift")
  /\ UNCHANGED <<cast, files, lock, fd, written, countVars, readVars, kills>>

\* Renaming generation i to i + 1, which replaces what has that name; the last is
\* the log itself. A name without a file stays as it is.
Shift(p) ==
  /\ pc[p] = "shift"
  /\ LET i == next[p] IN
     /\ dir' = IF dir[i] = 0 THEN dir ELSE [dir EXCEPT ![i] = 0, ![i + 1] = dir[i]]
     /\ IF i = 0 THEN Goto(p, "reopen") /\ UNCHANGED next
        ELSE next' = [next EXCEPT ![p] = i - 1] /\ UNCHANGED pc
  /\ UNCHANGED <<cast, files, lock, fd, written, countVars, readVars, kills>>

ReopenLocked(p) ==
  /\ pc[p] = "reopen"
  /\ Open(p)
  /\ lock' = Nobody
  /\ Goto(p, "write")
  /\ UNCHANGED <<cast, next, written, countVars, readVars, kills>>

\* A descriptor opened for append writes at the end of its file, wherever that is now.
Write(p) ==
  /\ pc[p] = "write"
  /\ files' = [files EXCEPT ![fd[p]] = Append(@, <<p, written[p] + 1>>)]
  /\ written' = [written EXCEPT ![p] = @ + 1]
  /\ Goto(p, IF Serves(p) THEN "tally" ELSE "idle")
  /\ UNCHANGED <<cast, dir, lock, fd, next, countVars, readVars, kills>>

Kill(p) ==
  /\ kills < cast.kills /\ pc[p] \notin {"done", "dead"}
  /\ kills' = kills + 1
  /\ lock' = IF lock = p THEN Nobody ELSE lock
  /\ fd' = [fd EXCEPT ![p] = 0]
  /\ Goto(p, "dead")
  /\ UNCHANGED <<cast, fileVars, next, written, countVars, readVars>>

Restart(p) ==
  /\ pc[p] = "dead" /\ Serves(p)
  /\ Goto(p, "seed")
  /\ UNCHANGED <<cast, fileVars, lock, fd, next, written, countVars, readVars, kills>>

(***************************************************************************)
(* The follower                                                            *)
(***************************************************************************)
From(n, f) == SubSeq(files[f], n + 1, Len(files[f]))

\* Mutant: a log that has not grown is taken for a new one.
StartOfUngrown(n, f) == IF Size(f) <= n THEN 0 ELSE n

\* A log shorter than what was read of it is a new one.
Start(n, f) == IF Size(f) < n THEN 0 ELSE n

\* The last n lines, all of them for 0.
LastN(lines, n) ==
  IF n = 0 \/ n >= Len(lines) THEN lines ELSE SubSeq(lines, Len(lines) - n + 1, Len(lines))

\* logs and the console show what is there, as much of it as they were asked for;
\* what they leave out they never show.
History ==
  /\ cast.reader = "tail" /\ ~reader.seen
  /\ reader' = [reader EXCEPT !.at = Size(Live), !.seen = TRUE]
  /\ shown' = IF Live = 0 THEN <<>> ELSE LastN(files[Live], cast.last)
  /\ UNCHANGED <<cast, fileVars, procVars, countVars, kills>>

\* Then what is new.
Poll ==
  /\ cast.reader = "tail" /\ Live # 0 /\ reader.seen
  /\ LET from == Start(reader.at, Live) IN
     /\ reader' = [reader EXCEPT !.at = Size(Live)]
     /\ shown' = shown \o From(from, Live)
  /\ UNCHANGED <<cast, fileVars, procVars, countVars, kills>>

\* The bridge begins at the end of the file.
SeedBridge ==
  /\ cast.reader = "bridge" /\ Live # 0 /\ ~reader.seen
  /\ reader' = [reader EXCEPT !.at = Size(Live), !.seen = TRUE]
  /\ UNCHANGED <<cast, fileVars, procVars, countVars, shown, kills>>

\* ReadFrom asks for the size first, and reads with a second command.
BridgeSize ==
  /\ cast.reader = "bridge" /\ Live # 0 /\ reader.seen /\ ~reader.busy
  /\ LET from == Start(reader.at, Live) IN
     reader' = IF from >= Size(Live) THEN [reader EXCEPT !.at = Size(Live)]
               ELSE [reader EXCEPT !.from = from, !.busy = TRUE]
  /\ UNCHANGED <<cast, fileVars, procVars, countVars, shown, kills>>

BridgeRead ==
  /\ reader.busy
  /\ IF Live = 0
       THEN reader' = [reader EXCEPT !.busy = FALSE, !.from = 0] /\ UNCHANGED shown
       ELSE LET new == From(reader.from, Live) IN
            /\ reader' = [reader EXCEPT !.at = reader.from + Len(new), !.busy = FALSE, !.from = 0]
            /\ shown' = shown \o new
  /\ UNCHANGED <<cast, fileVars, procVars, countVars, kills>>

Step(p) ==
  \/ SeedCounts(p) \/ Backfill(p) \/ EnsureOpen(p) \/ RotateIfNeeded(p) \/ Reopen(p)
  \/ AcquireLock(p) \/ CheckAgain(p) \/ Truncate(p) \/ RemoveOldest(p) \/ Shift(p)
  \/ ReopenLocked(p) \/ Write(p) \/ Tally(p) \/ Close(p)

Next ==
  \/ \E p \in Writers : Step(p) \/ Kill(p) \/ Restart(p)
  \/ History \/ Poll \/ SeedBridge \/ BridgeSize \/ BridgeRead

Spec == Init /\ [][Next]_vars

-----------------------------------------------------------------------------
(* Properties                                                              *)

Labels == {"seed", "backfill", "idle", "check", "follow", "lock", "again", "truncate",
           "remove", "shift", "reopen", "write", "tally", "done", "dead"}

\* The state is well-formed: who is past the lock holds it, who writes has a file open.
TypeOK ==
  /\ dir \in [0..Top -> 0..Len(files)]
  /\ lock \in Procs \cup {Nobody}
  /\ pc \in [Procs -> Labels]
  /\ fd \in [Procs -> 0..Len(files)]
  /\ \A p \in Procs : pc[p] \in {"check", "write"} => fd[p] # 0
  /\ \A p \in Procs : pc[p] \in {"again", "truncate", "remove", "shift", "reopen"} <=> lock = p
  /\ \A i, j \in 0..Top : dir[i] = dir[j] /\ dir[i] # 0 => i = j
  /\ written \in [Procs -> Nat]

Logged == UNION {{p} \X (1..written[p]) : p \in Procs}
Kept == UNION {ToSet(files[dir[i]]) : i \in {j \in 0..Top : dir[j] # 0}}
Least(S) == CHOOSE n \in S : \A m \in S : n <= m

(* What the log promises (logfile.go:26-29, README.md:131-137): it forgets *)
(* old lines only when its generations are full, and never more than the   *)
(* oldest. Once a line is gone, the others hold keep - 1 full generations, *)
(* whoever rotated, less one for each process that was killed halfway.     *)
HistoryKept ==
  Logged \ Kept # {} =>
    Cardinality(Kept) + kills * Least({Limit(p) : p \in Writers})
      >= (Least({KeepPromised(p) : p \in Writers}) - 1) * Least({Limit(p) : p \in Writers})

(* No generation exceeds the bound of some writer by more than a line of   *)
(* each other: one that passed the check before the file was full, or that *)
(* followed a rotation into it (logfile.go:106-128).                       *)
GenerationsBounded ==
  \A f \in 1..Len(files) : \E p \in Writers :
    Len(files[f]) <= Limit(p) - 1 + Cardinality(Writers)

(* A follower shows no line twice, and the lines of each process in the    *)
(* order in which it wrote them, across rotations, truncations and reads   *)
(* that a rotation falls into (tail.go:43-73, exec.go:55-84).              *)
FollowedOnce ==
  \A i, j \in 1..Len(shown) :
    i < j /\ shown[i][1] = shown[j][1] => shown[i][2] < shown[j][2]

ServedLines == UNION {{p} \X (1..written[p]) : p \in {q \in Writers : Serves(q)}}

(* The counts in the snapshot never exceed what was logged, and fall short *)
(* of it by one flush interval for each kill at most, besides what the     *)
(* process that serves has still in memory (activity.go:64-66).            *)
CountsKept ==
  snapshot >= 0 =>
    LET open == {p \in Writers : Serves(p) /\ pc[p] \notin {"done", "dead"}} IN
    /\ snapshot <= Cardinality(ServedLines)
    /\ Cardinality(ServedLines) <= snapshot + FlushEvery * (kills + Cardinality(open))

=============================================================================
