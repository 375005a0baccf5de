----------------------------- MODULE LogsProofs ------------------------------

(***************************************************************************)
(* Types, rotation, followers, counts and the history that is kept, for    *)
(* every set of processes and all their bounds, every number of lines and  *)
(* of kills.                                                               *)
(***************************************************************************)
EXTENDS Logs, FiniteSetTheorems, TLAPS

Lines == Procs \X (Nat \ {0})

\* Where the bound of LogsAssumption comes in: a cast that Init can choose.
CastOK == cast \in Casts

\* The values of the variables, and what a label says of the rest.
Types ==
  /\ CastOK /\ files \in Seq(Seq(Lines)) /\ shown \in Seq(Lines)
  /\ dir \in [0..Top -> 0..Len(files)]
  /\ lock \in Procs \cup {Nobody}
  /\ pc \in [Procs -> Labels]
  /\ fd \in [Procs -> 0..Len(files)]
  /\ next \in [Procs -> Int]
  /\ written \in [Procs -> Nat]
  /\ tally \in [Procs -> [served : Nat, dirty : Nat]]
  /\ snapshot \in Nat \cup {-1}
  /\ reader \in [at : Nat, from : Nat, busy : BOOLEAN, seen : BOOLEAN]
  /\ kills \in Nat

\* Who is in a rotation.
Rotates(p) == pc[p] \in {"again", "truncate", "remove", "shift", "reopen"}

Places ==
  /\ \A p \in Procs : pc[p] \in {"check", "write"} => fd[p] # 0
  /\ \A p \in Procs : Rotates(p) <=> lock = p
  /\ \A i, j \in 0..Top : dir[i] = dir[j] /\ dir[i] # 0 => i = j
  /\ \A p \in Procs : pc[p] \notin {"done", "dead"} => p \in Writers
  /\ \A p \in Procs : pc[p] = "remove" => Keep(p) - 1 \in 1..Top
  /\ \A p \in Procs : pc[p] = "shift" => next[p] \in 0..(Top - 1)

-----------------------------------------------------------------------------

(* Which writers may still write to a file without looking at its size:    *)
(* those about to, and, while it is the log, those that follow it there.   *)
Pending(f) ==
  {p \in Writers : \/ pc[p] = "write" /\ fd[p] = f
                   \/ Live = f /\ (fd[p] \notin {0, f} \/ pc[p] \in {"follow", "reopen"})}

\* The line each of them may still write leaves a file within the bound.
RoomLeft ==
  \A f \in 1..Len(files) : \E p \in Writers :
    Len(files[f]) + Cardinality(Pending(f)) <= Limit(p) - 1 + Cardinality(Writers)

-----------------------------------------------------------------------------
\* The lines of a process are numbered as it wrote them, none twice.
Ordered(lines) ==
  \A i, j \in 1..Len(lines) :
    i < j /\ lines[i][1] = lines[j][1] => lines[i][2] < lines[j][2]
Past(lines) == \A i \in 1..Len(lines) : lines[i][2] <= written[lines[i][1]]

FilesOrdered == \A f \in 1..Len(files) : Ordered(files[f]) /\ Past(files[f])

\* Where the follower goes on in the log, and what it has not shown of it.
Pos == IF reader.busy THEN reader.from ELSE reader.at
Unread == IF Live = 0 THEN {} ELSE {j \in 1..Len(files[Live]) : j > Start(Pos, Live)}

FollowInv ==
  /\ FilesOrdered
  /\ Ordered(shown) /\ Past(shown)
  /\ \A i \in 1..Len(shown), j \in Unread :
       shown[i][1] = files[Live][j][1] => shown[i][2] < files[Live][j][2]
  /\ ~reader.seen => shown = <<>> /\ ~reader.busy
  /\ reader.busy => cast.reader = "bridge"

-----------------------------------------------------------------------------

(* The counts of the process that serves, beside what it has written: they *)
(* lack the line it has not counted yet and, for each kill, one interval.  *)
Uncounted(p) == IF pc[p] = "tally" THEN 1 ELSE 0
Lost == FlushEvery * kills

Counted(p) ==
  /\ snapshot = -1 => written[p] = 0 /\ pc[p] \in {"seed", "backfill", "dead"}
  /\ pc[p] = "backfill" => snapshot = -1 /\ tally[p].served = 0 /\ tally[p].dirty = 0
  /\ snapshot >= 0 /\ pc[p] \in {"seed", "dead"} =>
       snapshot <= written[p] /\ written[p] <= snapshot + Lost
  /\ pc[p] \notin {"seed", "backfill", "dead"} =>
       /\ tally[p].dirty < FlushEvery
       /\ tally[p].served = snapshot + tally[p].dirty
       /\ tally[p].served + Uncounted(p) <= written[p]
       /\ written[p] <= tally[p].served + Uncounted(p) + Lost
       /\ pc[p] = "done" => tally[p].dirty = 0

CountInv == \A p \in Writers : Serves(p) => Counted(p)

\* Without a snapshot only the process that serves makes one.
CountsAlone ==
  /\ snapshot = -1 => cast.snapshot = -1
  /\ \A p \in Writers : pc[p] = "backfill" => cast.snapshot = -1
  /\ \A p \in Writers : pc[p] \in {"seed", "backfill"} => cast.writers[p].role # "tee"
  /\ \A p \in Writers : pc[p] = "tally" => Serves(p)
  /\ \A p \in Procs \ Writers : written[p] = 0
  /\ (\A p \in Writers : ~Serves(p)) => snapshot <= 0

-----------------------------------------------------------------------------

(* What LogsAssumption says of the cast of a behaviour.                    *)
LEMMA CastFacts ==
  ASSUME CastOK
  PROVE  /\ Writers \subseteq Procs /\ IsFiniteSet(Writers)
         /\ \A p \in Writers : Limit(p) \in Nat \ {0}
         /\ \A p \in Writers : Keep(p) \in 1..(Top + 1)
         /\ \A p \in Writers : cast.writers[p].role \in Roles
         /\ \A p, q \in Writers : Serves(p) /\ Serves(q) => p = q
         /\ \/ cast.snapshot = 0
            \/ cast.snapshot = -1 /\ \A p \in Writers : cast.writers[p].role # "approve"
  BY LogsAssumption DEF CastOK, Writers, Limit, Keep, Serves

(* What it says of the constants.                                          *)
LEMMA Bounds == Top \in Nat /\ 0 \in 0..Top /\ FlushEvery \in Nat \ {0} /\ Nobody \notin Procs
<1>1. Top \in Nat
  BY LogsAssumption
<1> QED BY <1>1, LogsAssumption

(* Replacing one element of a sequence.                                    *)
LEMMA Replaced ==
  ASSUME NEW S, NEW s \in Seq(S), NEW i \in 1..Len(s), NEW e \in S
  PROVE  /\ [s EXCEPT ![i] = e] \in Seq(S)
         /\ Len([s EXCEPT ![i] = e]) = Len(s)
         /\ \A j \in 1..Len(s) : [s EXCEPT ![i] = e][j] = IF j = i THEN e ELSE s[j]
  OBVIOUS

(* Appending to a sequence.                                                *)
LEMMA Appended ==
  ASSUME NEW S, NEW s \in Seq(S), NEW e \in S
  PROVE  /\ Append(s, e) \in Seq(S) /\ Len(Append(s, e)) = Len(s) + 1
         /\ \A j \in 1..Len(s) : Append(s, e)[j] = s[j]
         /\ Append(s, e)[Len(s) + 1] = e
  OBVIOUS

(* Opening the log leaves its file as it is, or makes an empty one.        *)
LEMMA Opened ==
  ASSUME Types, Places, NEW p \in Procs, Open(p)
  PROVE  /\ files' \in Seq(Seq(Lines)) /\ Len(files') >= Len(files)
         /\ \A f \in 1..Len(files) : files'[f] = files[f]
         /\ \A f \in 1..Len(files') : f \notin 1..Len(files) => files'[f] = <<>> /\ Live' = f
         /\ Live # 0 => files' = files /\ dir' = dir
         /\ dir' \in [0..Top -> 0..Len(files')] /\ Live' # 0
         /\ \A i, j \in 0..Top : dir'[i] = dir'[j] /\ dir'[i] # 0 => i = j
         /\ fd' = [fd EXCEPT ![p] = Live'] /\ fd' \in [Procs -> 0..Len(files')]
<1>1. Live \in 0..Len(files) /\ Len(files) \in Nat /\ 0 \in 0..Top
  <2>1. files \in Seq(Seq(Lines))
    BY DEF Types
  <2>2. Len(files) \in Nat
    BY <2>1
  <2> QED BY <2>2, Bounds DEF Types, Live
<1>2. CASE Live # 0
  <2>1. files' = files /\ dir' = dir /\ fd' = [fd EXCEPT ![p] = dir[0]]
    BY <1>2 DEF Open, Live, fileVars
  <2>2. Len(files') = Len(files) /\ Live' = Live
    BY <2>1 DEF Live
  <2>3. fd' \in [Procs -> 0..Len(files')]
    BY <1>1, <2>1, <2>2 DEF Types, Live
  <2> QED BY <1>1, <1>2, <2>1, <2>2, <2>3, SMTT(20) DEF Types, Places, Live
<1>3. CASE Live = 0
  <2>1. files' = Append(files, <<>>) /\ dir' = [dir EXCEPT ![0] = Len(files) + 1]
    BY <1>3 DEF Open
  <2>2. <<>> \in Seq(Lines)
    OBVIOUS
  <2>3. files' \in Seq(Seq(Lines)) /\ Len(files') = Len(files) + 1
    BY <2>1, <2>2, Appended DEF Types
  <2>4. \A f \in 1..Len(files) : files'[f] = files[f]
    BY <2>1, <2>2, Appended DEF Types
  <2>5. files'[Len(files) + 1] = <<>>
    BY <2>1, <2>2, Appended DEF Types
  <2>6. Live' = Len(files) + 1 /\ dir' \in [0..Top -> 0..Len(files')]
    BY <1>1, <2>1, <2>3, SMTT(20) DEF Types, Live
  <2>7. \A i, j \in 0..Top : dir'[i] = dir'[j] /\ dir'[i] # 0 => i = j
    <3>1. dir \in [0..Top -> 0..Len(files)] /\ (\A i, j \in 0..Top : dir[i] = dir[j] /\ dir[i] # 0 => i = j)
      BY DEF Types, Places
    <3>2. \A i \in 0..Top : dir'[i] = IF i = 0 THEN Len(files) + 1 ELSE dir[i]
      BY <3>1, <1>1, <2>1
    <3>3. \A i \in 0..Top : dir[i] \in Nat /\ dir[i] # Len(files) + 1
      BY <3>1, <1>1
    <3> QED BY <1>1, <3>1, <3>2, <3>3
  <2>8. fd' = [fd EXCEPT ![p] = Live'] /\ fd' \in [Procs -> 0..Len(files')]
    BY <1>1, <2>1, <2>3, <2>6, SMTT(20) DEF Open, Types, Live
  <2>9. \A f \in 1..Len(files') : f \notin 1..Len(files) => f = Len(files) + 1
    BY <1>1, <2>3
  <2> QED
    BY <1>1, <1>3, <2>3, <2>4, <2>5, <2>6, <2>7, <2>8, <2>9
<1> QED BY <1>2, <1>3

-----------------------------------------------------------------------------

(* Types and places                                                        *)

TypesInv == Types /\ Places

(* The initial state has the types. *)
LEMMA TypesInit == Init => TypesInv
<1> SUFFICES ASSUME Init PROVE TypesInv
  OBVIOUS
<1> USE Bounds
<1>1. CastOK
  BY DEF Init, CastOK
<1>2. Len(files) = 0 /\ files \in Seq(Seq(Lines)) /\ shown \in Seq(Lines)
  BY DEF Init
<1>3. dir \in [0..Top -> 0..Len(files)] /\ fd \in [Procs -> 0..Len(files)]
  BY <1>2 DEF Init
<1>4. snapshot \in Nat \cup {-1}
  BY <1>1, CastFacts DEF Init
<1>5. pc \in [Procs -> Labels]
  BY DEF Init, Labels, First
<1>6. Types
  BY <1>1, <1>2, <1>3, <1>4, <1>5 DEF Init, Types
<1>7. Places
  BY <1>1, CastFacts DEF Init, Places, Rotates, First
<1> QED BY <1>6, <1>7 DEF TypesInv

(* Counting the events of a file.                                          *)
LEMMA EventsType == ASSUME Types PROVE Events(Live) \in Nat
<1> DEFINE S == {i \in 1..Len(files[Live]) : Serves(files[Live][i][1])}
<1>1. CASE Live = 0
  BY <1>1 DEF Events
<1>2. CASE Live # 0
  <2>1. Live \in 1..Len(files) /\ files \in Seq(Seq(Lines))
    BY <1>2, Bounds DEF Live, Types
  <2>2. files[Live] \in Seq(Lines)
    BY <2>1
  <2>3. Len(files[Live]) \in Int /\ 1 \in Int
    BY <2>2
  <2>4. IsFiniteSet(1..Len(files[Live]))
    BY <2>3, FS_Interval
  <2>5. IsFiniteSet(S) /\ Cardinality(S) \in Nat
    BY <2>4, FS_Subset, FS_CardinalityType
  <2> QED BY <1>2, <2>5 DEF Events
<1> QED BY <1>1, <1>2

(* Steps of a writer that leave the files, their names and the lock.       *)
LEMMA QuietTypes ==
  ASSUME TypesInv, NEW p \in Writers,
         \/ SeedCounts(p) \/ Backfill(p) \/ RotateIfNeeded(p) \/ AcquireLock(p)
         \/ CheckAgain(p) \/ Tally(p) \/ Close(p) \/ Kill(p) \/ Restart(p)
  PROVE  TypesInv'
<1> USE DEF TypesInv, Types, fileVars, procVars, countVars, readVars, Goto
<1> Writers' = Writers /\ (\A q : Keep(q)' = Keep(q)) /\ p \in Procs /\ CastOK'
  BY CastFacts DEF SeedCounts, Backfill, RotateIfNeeded, AcquireLock, CheckAgain, Tally,
     Close, Kill, Restart, Writers, Keep, CastOK
<1>0. tally[p] \in [served : Nat, dirty : Nat] /\ tally[p].served \in Nat /\ tally[p].dirty \in Nat
  OBVIOUS
<1>1. CASE SeedCounts(p)
  <2> DEFINE n == IF snapshot >= 0 THEN snapshot ELSE Events(Live)
  <2>1. n \in Nat
    BY EventsType
  <2>2. tally' = [tally EXCEPT ![p] = [served |-> n, dirty |-> 0]]
    BY <1>1 DEF SeedCounts, Seed
  <2>3. tally' \in [Procs -> [served : Nat, dirty : Nat]]
    <3> HIDE DEF n
    <3> QED BY <2>1, <2>2
  <2>4. pc' \in [Procs -> Labels] /\ Places'
    BY <1>1, ZenonT(30) DEF SeedCounts, Places, Rotates, Labels
  <2> QED BY <1>1, <2>3, <2>4 DEF SeedCounts
<1>2. CASE Backfill(p)
  BY <1>0, <1>2 DEF Backfill, Places, Rotates, Labels
<1>3. CASE RotateIfNeeded(p)
  BY <1>3 DEF RotateIfNeeded, Places, Rotates, Labels
<1>4. CASE AcquireLock(p)
  BY <1>4, Bounds DEF AcquireLock, Places, Rotates, Labels
<1>5. CASE CheckAgain(p)
  <2>1. Keep(p) \in 1..(Top + 1) /\ Keep(p) \in Int /\ Top \in Int
    BY CastFacts, Bounds
  <2> DEFINE label == IF Rotated(p) THEN "reopen" ELSE IF Keep(p) <= 1 THEN "truncate" ELSE "remove"
  <2>0. pc' = [pc EXCEPT ![p] = label]
    BY <1>5 DEF CheckAgain
  <2> label \in {"reopen", "truncate", "remove"} /\ (label = "remove" => Keep(p) - 1 \in 1..Top)
    BY <2>1, SMTT(20)
  <2> HIDE DEF label
  <2>2. pc' \in [Procs -> Labels]
    BY <2>0 DEF Labels
  <2>3. Places'
    BY <1>5, <2>0 DEF CheckAgain, Places, Rotates
  <2> QED BY <1>5, <2>2, <2>3 DEF CheckAgain
<1>6. CASE Tally(p)
  <2>1. tally' \in [Procs -> [served : Nat, dirty : Nat]] /\ snapshot' \in Nat \cup {-1}
    <3> DEFINE due == tally[p].dirty + 1 >= FlushEvery
    <3>1. tally' = [tally EXCEPT ![p] = [served |-> tally[p].served + 1,
                                         dirty |-> IF due THEN 0 ELSE tally[p].dirty + 1]]
      BY <1>6 DEF Tally
    <3>2. snapshot' = IF due THEN tally[p].served + 1 ELSE snapshot
      BY <1>6 DEF Tally
    <3> HIDE DEF due
    <3> QED BY <1>0, <3>1, <3>2, SMTT(20)
  <2>2. pc' \in [Procs -> Labels] /\ Places'
    BY <1>6 DEF Tally, Places, Rotates, Labels
  <2> QED BY <1>6, <2>1, <2>2 DEF Tally
<1>7. CASE Close(p)
  <2>1. tally' \in [Procs -> [served : Nat, dirty : Nat]] /\ snapshot' \in Nat \cup {-1}
    BY <1>0, <1>7 DEF Close
  <2>2. pc' \in [Procs -> Labels] /\ fd' \in [Procs -> 0..Len(files)] /\ Places'
    <3>1. 0 \in 0..Len(files)
      OBVIOUS
    <3> QED BY <3>1, <1>7 DEF Close, Places, Rotates, Labels
  <2> QED BY <1>7, <2>1, <2>2 DEF Close
<1>8. CASE Kill(p)
  <2>1. 0 \in 0..Len(files) /\ kills' \in Nat
    BY <1>8 DEF Kill
  <2>2. pc' = [pc EXCEPT ![p] = "dead"] /\ fd' = [fd EXCEPT ![p] = 0]
    BY <1>8 DEF Kill
  <2>3. pc' \in [Procs -> Labels] /\ fd' \in [Procs -> 0..Len(files)]
    BY <2>1, <2>2 DEF Labels
  <2>4. lock' \in Procs \cup {Nobody} /\ \A q \in Procs : Rotates(q)' <=> lock' = q
    BY <1>8, <2>2, Bounds, SMTT(20) DEF Kill, Places, Rotates
  <2>5. Places'
    BY <1>8, <2>2, <2>4 DEF Kill, Places
  <2> QED BY <1>8, <2>1, <2>3, <2>4, <2>5 DEF Kill
<1>9. CASE Restart(p)
  BY <1>9 DEF Restart, Places, Rotates, Labels
<1> QED BY <1>1, <1>2, <1>3, <1>4, <1>5, <1>6, <1>7, <1>8, <1>9


(* A process opens the log and goes on to look at its size, or to write.   *)
LEMMA OpenedTypes ==
  ASSUME TypesInv, NEW p \in Writers, Open(p),
         NEW label \in {"check", "write"}, pc' = [pc EXCEPT ![p] = label],
         ~Rotates(p) \/ pc[p] = "reopen",
         lock' = IF pc[p] = "reopen" THEN Nobody ELSE lock,
         UNCHANGED <<cast, next, written, tally, snapshot, reader, shown, kills>>
  PROVE  TypesInv'
<1> Types /\ Places /\ p \in Procs /\ Writers' = Writers /\ CastOK' /\ (\A q : Keep(q)' = Keep(q))
  BY CastFacts DEF TypesInv, Types, Writers, Keep, CastOK
<1>0. pc \in [Procs -> Labels]
  BY DEF Types
<1>1. Len(files') \in Nat /\ fd' \in [Procs -> 0..Len(files')] /\ Live' # 0
        /\ files' \in Seq(Seq(Lines)) /\ dir' \in [0..Top -> 0..Len(files')]
        /\ fd' = [fd EXCEPT ![p] = Live'] /\ fd \in [Procs -> 0..Len(files)]
  <2>1. files' \in Seq(Seq(Lines)) /\ Live' # 0 /\ fd' = [fd EXCEPT ![p] = Live']
          /\ fd' \in [Procs -> 0..Len(files')] /\ dir' \in [0..Top -> 0..Len(files')]
    BY Opened
  <2>2. Len(files') \in Nat
    BY <2>1
  <2> QED BY <2>1, <2>2 DEF Types
<1>2. pc' \in [Procs -> Labels]
  BY <1>0 DEF Labels
<1>3. lock' \in Procs \cup {Nobody}
  BY DEF Types
<1>4. Types'
  BY <1>1, <1>2, <1>3 DEF Types
<1>5. \A q \in Procs : pc'[q] \in {"check", "write"} => fd'[q] # 0
  BY <1>0, <1>1 DEF Places
<1>6. \A q \in Procs : Rotates(q)' <=> lock' = q
  BY <1>0, Bounds DEF Places, Rotates
<1>7. \A i, j \in 0..Top : dir'[i] = dir'[j] /\ dir'[i] # 0 => i = j
  BY Opened
<1>8. \A q \in Procs : /\ pc'[q] \notin {"done", "dead"} => q \in Writers
                       /\ pc'[q] = "remove" => Keep(q) - 1 \in 1..Top
                       /\ pc'[q] = "shift" => next[q] \in 0..(Top - 1)
  BY <1>0 DEF Places
<1>9. Places'
  BY <1>5, <1>6, <1>7, <1>8 DEF Places
<1> QED BY <1>4, <1>9 DEF TypesInv

(* Steps of a writer that open, empty, rename or extend files.             *)
LEMMA FileTypes ==
  ASSUME TypesInv, NEW p \in Writers,
         \/ EnsureOpen(p) \/ Reopen(p) \/ Truncate(p) \/ RemoveOldest(p)
         \/ Shift(p) \/ ReopenLocked(p) \/ Write(p)
  PROVE  TypesInv'
<1> USE DEF TypesInv, fileVars, procVars, countVars, readVars, Goto
<1> Writers' = Writers /\ (\A q : Keep(q)' = Keep(q)) /\ p \in Procs /\ CastOK'
  BY CastFacts DEF Types, EnsureOpen, Reopen, Truncate, RemoveOldest, Shift, ReopenLocked,
     Write, Writers, Keep, CastOK
<1>0. files \in Seq(Seq(Lines)) /\ Len(files) \in Nat /\ Live \in 0..Len(files)
        /\ dir \in [0..Top -> 0..Len(files)] /\ fd \in [Procs -> 0..Len(files)]
        /\ pc \in [Procs -> Labels]
  <2>1. files \in Seq(Seq(Lines)) /\ dir \in [0..Top -> 0..Len(files)]
          /\ fd \in [Procs -> 0..Len(files)] /\ pc \in [Procs -> Labels]
    BY DEF Types
  <2>2. Len(files) \in Nat
    BY <2>1
  <2> QED BY <2>1, <2>2, Bounds DEF Live
<1>2. CASE EnsureOpen(p)
  <2>1. CASE fd[p] = 0
    <3>1. Open(p) /\ pc' = [pc EXCEPT ![p] = "check"] /\ ~Rotates(p) /\ pc[p] # "reopen"
      BY <1>2, <2>1 DEF EnsureOpen, Rotates
    <3>2. lock' = lock /\ UNCHANGED <<cast, next, written, tally, snapshot, reader, shown, kills>>
      BY <1>2 DEF EnsureOpen
    <3> QED BY <3>1, <3>2, OpenedTypes
  <2>2. CASE fd[p] # 0
    <3>1. pc' = [pc EXCEPT ![p] = "check"] /\ pc[p] = "idle" /\ "check" \in Labels
            /\ UNCHANGED <<cast, fileVars, lock, fd, next, written, countVars, readVars, kills>>
      BY <1>2, <2>2 DEF EnsureOpen, Labels
    <3>2. Types'
      BY <1>0, <3>1 DEF Types
    <3>3. Places'
      BY <1>0, <2>2, <3>1 DEF Places, Rotates
    <3> QED BY <3>2, <3>3
  <2> QED BY <2>1, <2>2
<1>3. CASE Reopen(p)
  <2>1. Open(p) /\ pc' = [pc EXCEPT ![p] = "write"] /\ ~Rotates(p) /\ pc[p] # "reopen"
    BY <1>3 DEF Reopen, Rotates
  <2>2. lock' = lock /\ UNCHANGED <<cast, next, written, tally, snapshot, reader, shown, kills>>
    BY <1>3 DEF Reopen
  <2> QED BY <2>1, <2>2, OpenedTypes
<1>4. CASE ReopenLocked(p)
  <2>1. Open(p) /\ pc' = [pc EXCEPT ![p] = "write"] /\ pc[p] = "reopen" /\ lock' = Nobody
    BY <1>4 DEF ReopenLocked
  <2>2. UNCHANGED <<cast, next, written, tally, snapshot, reader, shown, kills>>
    BY <1>4 DEF ReopenLocked
  <2> QED BY <2>1, <2>2, OpenedTypes
<1>5. CASE Truncate(p)
  <2>1. files' \in Seq(Seq(Lines)) /\ Len(files') = Len(files)
    <3>1. CASE Live = 0
      BY <1>0, <1>5, <3>1 DEF Truncate
    <3>2. CASE Live # 0
      <4>1. Live \in 1..Len(files) /\ <<>> \in Seq(Lines) /\ files' = [files EXCEPT ![Live] = <<>>]
        BY <1>0, <1>5, <3>2 DEF Truncate
      <4> QED BY <1>0, <4>1, Replaced
    <3> QED BY <3>1, <3>2
  <2>2. Types'
    BY <1>5, <2>1 DEF Truncate, Types, Labels
  <2>3. Places'
    BY <1>0, <1>5 DEF Truncate, Places, Rotates
  <2> QED BY <2>2, <2>3
<1>6. CASE RemoveOldest(p)
  <2>1. Keep(p) - 1 \in 1..Top /\ Keep(p) \in Int /\ Top \in Int
    BY <1>6, CastFacts, Bounds DEF RemoveOldest, Places, Types
  <2> DEFINE k == Keep(p)
  <2>a. dir' = [dir EXCEPT ![k - 1] = 0] /\ next' = [next EXCEPT ![p] = k - 2]
    BY <1>6 DEF RemoveOldest
  <2>b. next \in [Procs -> Int] /\ 0 \in 0..Len(files)
    BY <1>0 DEF Types
  <2>2. dir' \in [0..Top -> 0..Len(files)] /\ next' \in [Procs -> Int] /\ next'[p] \in 0..(Top - 1)
    <3>1. k - 1 \in 0..Top /\ k - 2 \in Int /\ k - 2 \in 0..(Top - 1)
      BY <2>1
    <3> HIDE DEF k
    <3>2. dir' \in [0..Top -> 0..Len(files)]
      BY <1>0, <2>a, <2>b, <3>1
    <3>3. next' \in [Procs -> Int] /\ next'[p] = k - 2
      BY <2>a, <2>b, <3>1
    <3> QED BY <3>1, <3>2, <3>3
  <2>3. Types'
    BY <1>0, <1>6, <2>2 DEF RemoveOldest, Types, Labels
  <2>4. \A i, j \in 0..Top : dir'[i] = dir'[j] /\ dir'[i] # 0 => i = j
    BY <1>0, <1>6 DEF RemoveOldest, Places
  <2>5. Places'
    BY <1>0, <1>6, <2>2, <2>4 DEF RemoveOldest, Places, Rotates, Types
  <2> QED BY <2>3, <2>5
<1>7. CASE Shift(p)
  <2> DEFINE i == next[p]
  <2>1. i \in 0..(Top - 1) /\ Top \in Int /\ i \in 0..Top /\ i + 1 \in 0..Top /\ i - 1 \in Int
    BY <1>7, Bounds DEF Shift, Places
  <2>2. dir' = IF dir[i] = 0 THEN dir ELSE [dir EXCEPT ![i] = 0, ![i + 1] = dir[i]]
    BY <1>7 DEF Shift
  <2>3. \A k \in 0..Top : dir'[k] = IF dir[i] = 0 THEN dir[k] ELSE IF k = i + 1 THEN dir[i]
                                    ELSE IF k = i THEN 0 ELSE dir[k]
    BY <1>0, <2>1, <2>2
  <2>4. dir' \in [0..Top -> 0..Len(files)]
    <3>1. 0 \in 0..Len(files) /\ dir[i] \in 0..Len(files)
      BY <1>0, <2>1
    <3> HIDE DEF i
    <3> QED BY <1>0, <2>1, <2>2, <3>1
  <2>5. \A j, k \in 0..Top : dir'[j] = dir'[k] /\ dir'[j] # 0 => j = k
    BY <2>1, <2>3 DEF Places
  <2>6. \/ i = 0 /\ pc' = [pc EXCEPT ![p] = "reopen"] /\ next' = next
        \/ i # 0 /\ next' = [next EXCEPT ![p] = i - 1] /\ pc' = pc
    BY <1>7 DEF Shift
  <2>7. next' \in [Procs -> Int] /\ pc' \in [Procs -> Labels]
    <3>1. next \in [Procs -> Int] /\ "reopen" \in Labels
      BY DEF Types, Labels
    <3> HIDE DEF i
    <3> QED BY <1>0, <2>1, <2>6, <3>1
  <2>8. Types'
    BY <1>7, <2>4, <2>7 DEF Shift, Types
  <2>9. \A q \in Procs : pc'[q] = "shift" => next'[q] \in 0..(Top - 1)
    <3>1. next \in [Procs -> Int] /\ (\A q \in Procs : pc[q] = "shift" => next[q] \in 0..(Top - 1))
      BY DEF Types, Places
    <3>2. i # 0 => i - 1 \in 0..(Top - 1)
      BY <2>1
    <3> HIDE DEF i
    <3> QED BY <1>0, <2>6, <3>1, <3>2
  <2>10. Places'
    BY <1>0, <1>7, <2>5, <2>6, <2>9 DEF Shift, Places, Rotates
  <2> QED BY <2>8, <2>10
<1>8. CASE Write(p)
  <2>1. fd[p] \in 1..Len(files) /\ written[p] \in Nat /\ files[fd[p]] \in Seq(Lines)
    BY <1>0, <1>8, SMTT(20) DEF Write, Places, Types
  <2>2. <<p, written[p] + 1>> \in Lines
    BY <2>1 DEF Lines
  <2>3. Append(files[fd[p]], <<p, written[p] + 1>>) \in Seq(Lines)
    BY <2>1, <2>2
  <2>4. files' \in Seq(Seq(Lines)) /\ Len(files') = Len(files)
    BY <1>0, <1>8, <2>1, <2>3, Replaced DEF Write
  <2>5. Types'
    <3>1. written' \in [Procs -> Nat] /\ pc' \in [Procs -> Labels]
      <4> DEFINE label == IF Serves(p) THEN "tally" ELSE "idle"
      <4>1. pc' = [pc EXCEPT ![p] = label] /\ label \in Labels
        BY <1>8 DEF Write, Labels
      <4>2. written' = [written EXCEPT ![p] = @ + 1] /\ written \in [Procs -> Nat]
        BY <1>8 DEF Write, Types
      <4> HIDE DEF label
      <4> QED BY <1>0, <2>1, <4>1, <4>2
    <3> QED BY <1>8, <2>4, <3>1 DEF Write, Types
  <2>6. Places'
    BY <1>0, <1>8 DEF Write, Places, Rotates
  <2> QED BY <2>5, <2>6
<1> QED BY <1>2, <1>3, <1>4, <1>5, <1>6, <1>7, <1>8

(* The follower leaves the log alone.                                      *)
LEMMA FollowerTypes ==
  ASSUME TypesInv, History \/ Poll \/ SeedBridge \/ BridgeSize \/ BridgeRead
  PROVE  TypesInv'
<1> USE DEF TypesInv, fileVars, procVars, countVars
<1> /\ UNCHANGED <<cast, dir, files, lock, pc, fd, next, written, tally, snapshot, kills>>
    /\ Writers' = Writers /\ (\A q : Keep(q)' = Keep(q) /\ Rotates(q)' = Rotates(q)) /\ CastOK'
  BY DEF Types, History, Poll, SeedBridge, BridgeSize, BridgeRead, Writers, Keep, CastOK, Rotates
<1>1. Places'
  BY DEF Places
<1>2. Live \in 0..Len(files) /\ files \in Seq(Seq(Lines)) /\ shown \in Seq(Lines)
        /\ reader.at \in Nat /\ reader.from \in Nat
  BY Bounds DEF Types, Live
<1>3. Size(Live) \in Nat /\ (Live # 0 => files[Live] \in Seq(Lines))
  <2>1. Live # 0 => files[Live] \in Seq(Lines)
    BY <1>2
  <2> QED BY <2>1 DEF Size
<1>4. \A n \in Nat : Live # 0 => From(n, Live) \in Seq(Lines) /\ Start(n, Live) \in Nat
  BY <1>3 DEF From, Start
<1>5. ASSUME NEW n \in Nat, Live # 0 PROVE LastN(files[Live], n) \in Seq(Lines)
  BY <1>3, <1>5 DEF LastN
<1>6. cast.last \in Nat
  BY LogsAssumption DEF Types, CastOK
<1> DEFINE R == [at : Nat, from : Nat, busy : BOOLEAN, seen : BOOLEAN]
<1>7. reader \in R /\ (\A n \in Nat : /\ [reader EXCEPT !.at = n] \in R
                                      /\ [reader EXCEPT !.at = n, !.seen = TRUE] \in R
                                      /\ [reader EXCEPT !.at = n, !.busy = FALSE, !.from = 0] \in R
                                      /\ [reader EXCEPT !.from = n, !.busy = TRUE] \in R)
        /\ [reader EXCEPT !.busy = FALSE, !.from = 0] \in R
  BY DEF Types
<1>8. shown' \in Seq(Lines) /\ reader' \in R
  <2> HIDE DEF R
  <2>1. CASE History
    <3>1. reader' = [reader EXCEPT !.at = Size(Live), !.seen = TRUE]
      BY <2>1 DEF History
    <3>2. shown' = IF Live = 0 THEN <<>> ELSE LastN(files[Live], cast.last)
      BY <2>1 DEF History
    <3>3. Live # 0 => LastN(files[Live], cast.last) \in Seq(Lines)
      BY <1>5, <1>6
    <3>4. <<>> \in Seq(Lines)
      OBVIOUS
    <3> QED BY <1>3, <1>7, <3>1, <3>2, <3>3, <3>4
  <2>2. CASE Poll
    <3> DEFINE new == From(Start(reader.at, Live), Live)
    <3>1. Live # 0 /\ reader' = [reader EXCEPT !.at = Size(Live)] /\ shown' = shown \o new
      BY <2>2 DEF Poll
    <3>2. new \in Seq(Lines)
      BY <1>2, <1>4, <3>1
    <3> HIDE DEF new
    <3>3. shown \o new \in Seq(Lines)
      BY <1>2, <3>2
    <3> QED BY <1>3, <1>7, <3>1, <3>3
  <2>3. CASE SeedBridge
    BY <1>2, <1>3, <1>7, <2>3 DEF SeedBridge
  <2>4. CASE BridgeSize
    <3>1. Live # 0 /\ Start(reader.at, Live) \in Nat
      BY <1>2, <1>4, <2>4 DEF BridgeSize
    <3> QED BY <1>2, <1>3, <1>7, <2>4, <3>1 DEF BridgeSize
  <2>5. CASE BridgeRead
    <3>1. CASE Live = 0
      BY <1>2, <1>7, <2>5, <3>1 DEF BridgeRead
    <3>2. CASE Live # 0
      <4> DEFINE new == From(reader.from, Live)
      <4>1. new \in Seq(Lines)
        BY <1>2, <1>4, <3>2
      <4>2. Len(new) \in Nat /\ shown \o new \in Seq(Lines) /\ reader.from + Len(new) \in Nat
        BY <1>2, <4>1
      <4> QED BY <1>7, <2>5, <3>2, <4>2 DEF BridgeRead
    <3> QED BY <3>1, <3>2
  <2> QED BY <2>1, <2>2, <2>3, <2>4, <2>5
<1> QED BY <1>1, <1>8 DEF Types

(* Every step keeps the types. *)
LEMMA TypesNext == TypesInv /\ [Next]_vars => TypesInv'
<1> SUFFICES ASSUME TypesInv, [Next]_vars PROVE TypesInv'
  OBVIOUS
<1>1. CASE UNCHANGED vars
  BY <1>1 DEF TypesInv, Types, Places, Rotates, Writers, Keep, CastOK,
              vars, fileVars, procVars, countVars, readVars
<1>2. ASSUME NEW p \in Writers, Step(p) \/ Kill(p) \/ Restart(p) PROVE TypesInv'
  BY <1>2, QuietTypes, FileTypes DEF Step
<1>3. CASE History \/ Poll \/ SeedBridge \/ BridgeSize \/ BridgeRead
  BY <1>3, FollowerTypes
<1> QED BY <1>1, <1>2, <1>3 DEF Next

(* The state of a log is well-formed: who is past the lock holds it, who   *)
(* writes has a file open, no file has two names (logfile.go:52-165).      *)
THEOREM LogsTypeCorrect == Spec => []TypeOK
<1>1. TypesInv => TypeOK
  BY DEF TypesInv, Types, Places, Rotates, TypeOK
<1> QED BY <1>1, TypesInit, TypesNext, PTL DEF Spec


-----------------------------------------------------------------------------

(* Generations                                                             *)

(* A step keeps the room of a file if it leaves its length and adds no     *)
(* writer to those that may still write to it, if one of them writes its   *)
(* line, or if the file is below the bound of some writer.                 *)
RoomKeptFor(f) ==
  \/ \E q \in Writers : Len(files'[f]) < Limit(q)
  \/ f \in 1..Len(files) /\ Len(files'[f]) = Len(files[f]) /\ Pending(f)' \subseteq Pending(f)
  \/ /\ f \in 1..Len(files) /\ Len(files'[f]) = Len(files[f]) + 1
     /\ \E p \in Pending(f) : Pending(f)' \subseteq Pending(f) \ {p}

(* If every file's room is kept, the room is left in every file. *)
LEMMA RoomKept ==
  ASSUME TypesInv, TypesInv', RoomLeft, cast' = cast,
         \A f \in 1..Len(files') : RoomKeptFor(f)
  PROVE  RoomLeft'
<1> SUFFICES ASSUME NEW f \in 1..Len(files')
             PROVE  \E p \in Writers : Len(files'[f]) + Cardinality(Pending(f)')
                                         <= Limit(p) - 1 + Cardinality(Writers)
  BY DEF RoomLeft, Writers, Limit
<1>1. IsFiniteSet(Writers) /\ Cardinality(Writers) \in Nat /\ (\A p \in Writers : Limit(p) \in Nat)
  BY CastFacts, FS_CardinalityType DEF TypesInv, Types
<1>2. \A S : S \subseteq Writers =>
        IsFiniteSet(S) /\ Cardinality(S) \in Nat /\ Cardinality(S) <= Cardinality(Writers)
  BY <1>1, FS_Subset, FS_CardinalityType
<1>3. Pending(f) \subseteq Writers /\ Pending(f)' \subseteq Writers
  BY DEF Pending, Writers
<1>4. files'[f] \in Seq(Lines) /\ (f \in 1..Len(files) => files[f] \in Seq(Lines))
  <2>1. files' \in Seq(Seq(Lines)) /\ files \in Seq(Seq(Lines))
    BY DEF TypesInv, Types
  <2> QED BY <2>1
<1>5. Len(files'[f]) \in Nat /\ (f \in 1..Len(files) => Len(files[f]) \in Nat)
  BY <1>4
<1>6. CASE \E q \in Writers : Len(files'[f]) < Limit(q)
  BY <1>1, <1>2, <1>3, <1>5, <1>6
<1>7. CASE f \in 1..Len(files) /\ Len(files'[f]) = Len(files[f]) /\ Pending(f)' \subseteq Pending(f)
  <2>1. Cardinality(Pending(f)') <= Cardinality(Pending(f))
    BY <1>2, <1>3, <1>7, FS_Subset
  <2>2. PICK p \in Writers :
          Len(files[f]) + Cardinality(Pending(f)) <= Limit(p) - 1 + Cardinality(Writers)
    BY <1>7 DEF RoomLeft
  <2> QED BY <1>1, <1>2, <1>3, <1>5, <1>7, <2>1, <2>2, SMTT(20)
<1>8. ASSUME f \in 1..Len(files), Len(files'[f]) = Len(files[f]) + 1,
             NEW p \in Pending(f), Pending(f)' \subseteq Pending(f) \ {p}
      PROVE  \E q \in Writers : Len(files'[f]) + Cardinality(Pending(f)')
                                  <= Limit(q) - 1 + Cardinality(Writers)
  <2>1. IsFiniteSet(Pending(f)) /\ IsFiniteSet(Pending(f) \ {p})
    BY <1>2, <1>3
  <2>2. Cardinality(Pending(f) \ {p}) = Cardinality(Pending(f)) - 1
    BY <2>1, FS_RemoveElement
  <2>3. Cardinality(Pending(f)') <= Cardinality(Pending(f)) - 1
    BY <1>8, <2>1, <2>2, FS_Subset
  <2>4. PICK q \in Writers :
          Len(files[f]) + Cardinality(Pending(f)) <= Limit(q) - 1 + Cardinality(Writers)
    BY <1>8 DEF RoomLeft
  <2>5. Cardinality(Pending(f)') \in Nat /\ Cardinality(Pending(f)) \in Nat
          /\ Limit(q) \in Nat /\ Len(files[f]) \in Nat
    BY <1>1, <1>2, <1>3, <1>5, <1>8
  <2>6. Len(files'[f]) + Cardinality(Pending(f)') <= Limit(q) - 1 + Cardinality(Writers)
    BY <1>1, <1>8, <2>3, <2>4, <2>5
  <2> QED BY <2>6
<1> QED BY <1>6, <1>7, <1>8 DEF RoomKeptFor

(* Who opens the log had it pending before, or looks at its size next.     *)
LEMMA OpenedRoom ==
  ASSUME TypesInv, NEW p \in Writers, Open(p), cast' = cast,
         \/ pc[p] = "idle" /\ fd[p] = 0 /\ pc' = [pc EXCEPT ![p] = "check"]
         \/ pc[p] \in {"follow", "reopen"} /\ pc' = [pc EXCEPT ![p] = "write"],
         NEW f \in 1..Len(files')
  PROVE  RoomKeptFor(f)
<1>0. Types /\ Places /\ CastOK /\ p \in Procs
  BY CastFacts DEF TypesInv, Types
<1>1. CASE f \notin 1..Len(files)
  <2>1. files'[f] = <<>> /\ Limit(p) \in Nat \ {0}
    BY <1>1, <1>0, Opened, CastFacts
  <2> QED BY <2>1 DEF RoomKeptFor
<1>2. CASE f \in 1..Len(files)
  <2>1. files'[f] = files[f] /\ fd' = [fd EXCEPT ![p] = Live'] /\ (Live # 0 => Live' = Live)
          /\ Live' # 0 /\ (Live = 0 => Live' = Len(files) + 1)
    <3>1. files'[f] = files[f] /\ fd' = [fd EXCEPT ![p] = Live'] /\ Live' # 0
      BY <1>0, <1>2, Opened
    <3>2. Live # 0 => Live' = Live
      BY DEF Open, Live, fileVars
    <3>3. Live = 0 => dir' = [dir EXCEPT ![0] = Len(files) + 1]
      BY DEF Open
    <3>4. Live = 0 => Live' = Len(files) + 1
      BY <1>0, <3>3, Bounds DEF Live, Types
    <3> QED BY <3>1, <3>2, <3>4
  <2>2. pc \in [Procs -> Labels] /\ fd \in [Procs -> 0..Len(files)] /\ p \in Procs /\ Writers \subseteq Procs
    BY CastFacts DEF TypesInv, Types
  <2>3. Live = f \/ Live' # f
    BY <1>2, <2>1
  <2>4. Writers' = Writers
    BY DEF Writers
  <2>5. Pending(f)' \subseteq Pending(f)
    BY <1>2, <2>1, <2>2, <2>3, <2>4 DEF Pending
  <2> QED BY <1>2, <2>1, <2>5 DEF RoomKeptFor
<1> QED BY <1>1, <1>2

(* Every step leaves each file room for the lines of those who have checked it. *)
LEMMA RoomNext ==
  ASSUME TypesInv, TypesInv', RoomLeft, [Next]_vars PROVE RoomLeft'
<1> USE DEF fileVars, procVars, countVars, readVars, Goto
<1>1. CASE UNCHANGED vars
  <2>1. UNCHANGED <<cast, dir, files, pc, fd>>
    BY <1>1 DEF vars
  <2>2. Writers' = Writers /\ Live' = Live /\ (\A p : Limit(p)' = Limit(p))
    BY <2>1 DEF Writers, Limit, Live
  <2>3. \A f : Pending(f)' = Pending(f)
    BY <2>1, <2>2 DEF Pending
  <2> QED BY <2>1, <2>2, <2>3 DEF RoomLeft
<1>2. CASE History \/ Poll \/ SeedBridge \/ BridgeSize \/ BridgeRead
  <2>1. UNCHANGED <<cast, dir, files, pc, fd>>
    BY <1>2 DEF History, Poll, SeedBridge, BridgeSize, BridgeRead
  <2>2. Writers' = Writers /\ Live' = Live /\ (\A p : Limit(p)' = Limit(p))
    BY <2>1 DEF Writers, Limit, Live
  <2>3. \A f : Pending(f)' = Pending(f)
    BY <2>1, <2>2 DEF Pending
  <2> QED BY <2>1, <2>2, <2>3 DEF RoomLeft
<1>3. ASSUME NEW p \in Writers, Step(p) \/ Kill(p) \/ Restart(p) PROVE RoomLeft'
  <2> cast' = cast /\ Writers' = Writers
    BY <1>3 DEF Step, SeedCounts, Backfill, EnsureOpen, RotateIfNeeded, Reopen, AcquireLock, CheckAgain,
       Truncate, RemoveOldest, Shift, ReopenLocked, Write, Tally, Close, Kill, Restart, Writers
  <2> SUFFICES ASSUME NEW f \in 1..Len(files') PROVE RoomKeptFor(f)
    BY RoomKept
  <2> DEFINE kept == f \in 1..Len(files) /\ Len(files'[f]) = Len(files[f]) /\ Pending(f)' \subseteq Pending(f)
  <2>0. /\ pc \in [Procs -> Labels] /\ fd \in [Procs -> 0..Len(files)] /\ p \in Procs /\ Writers \subseteq Procs
        /\ Limit(p) \in Nat \ {0}
    BY CastFacts DEF TypesInv, Types
  <2>1. CASE SeedCounts(p) \/ Backfill(p) \/ AcquireLock(p) \/ Tally(p) \/ Restart(p)
    <3>1. UNCHANGED <<dir, files, fd>> /\ pc'[p] \notin {"write", "follow", "reopen"}
            /\ \A q \in Procs \ {p} : pc'[q] = pc[q]
      BY <2>0, <2>1 DEF SeedCounts, Backfill, AcquireLock, Tally, Restart
    <3>2. Pending(f)' \subseteq Pending(f)
      BY <2>0, <3>1 DEF Pending, Live
    <3> QED BY <3>1, <3>2 DEF RoomKeptFor
  <2>2. CASE Close(p) \/ Kill(p)
    <3>1. UNCHANGED <<dir, files>> /\ fd' = [fd EXCEPT ![p] = 0] /\ pc'[p] \in {"done", "dead"}
            /\ \A q \in Procs \ {p} : pc'[q] = pc[q]
      BY <2>0, <2>2 DEF Close, Kill
    <3>2. Pending(f)' \subseteq Pending(f)
      BY <2>0, <3>1 DEF Pending, Live
    <3> QED BY <3>1, <3>2 DEF RoomKeptFor
  <2>3. CASE EnsureOpen(p)
    <3>1. CASE fd[p] = 0
      BY <2>3, <3>1, OpenedRoom DEF EnsureOpen
    <3>2. CASE fd[p] # 0
      <4>1. UNCHANGED <<dir, files, fd>> /\ pc' = [pc EXCEPT ![p] = "check"]
        BY <2>3, <3>2 DEF EnsureOpen
      <4>2. Pending(f)' \subseteq Pending(f)
        BY <2>0, <4>1 DEF Pending, Live
      <4> QED BY <4>1, <4>2 DEF RoomKeptFor
    <3> QED BY <3>1, <3>2
  <2>4. CASE RotateIfNeeded(p)
    <3>1. UNCHANGED <<dir, files, fd>> /\ fd[p] # 0
      BY <2>0, <2>4 DEF RotateIfNeeded, TypesInv, Places
    <3>2. CASE Live # fd[p]
      <4>1. pc' = [pc EXCEPT ![p] = "follow"]
        BY <2>4, <3>2 DEF RotateIfNeeded
      <4>2. Pending(f)' \subseteq Pending(f)
        BY <2>0, <3>1, <3>2, <4>1 DEF Pending, Live
      <4> QED BY <3>1, <4>2 DEF RoomKeptFor
    <3>3. CASE Live = fd[p] /\ Full(p, fd[p])
      <4>1. pc' = [pc EXCEPT ![p] = "lock"]
        BY <2>4, <3>3 DEF RotateIfNeeded
      <4>2. Pending(f)' \subseteq Pending(f)
        BY <2>0, <3>1, <3>3, <4>1 DEF Pending, Live
      <4> QED BY <3>1, <4>2 DEF RoomKeptFor
    <3>4. CASE Live = fd[p] /\ ~Full(p, fd[p])
      <4>1. pc' = [pc EXCEPT ![p] = "write"]
        BY <2>4, <3>4 DEF RotateIfNeeded
      <4>2. CASE f = fd[p]
        <5>1. files[f] \in Seq(Lines)
          BY <3>1 DEF TypesInv, Types
        <5>2. Len(files[f]) \in Nat /\ f # 0
          BY <3>1, <4>2, <5>1
        <5>3. Len(files[f]) < Limit(p)
          BY <2>0, <3>4, <4>2, <5>2 DEF Full, Size
        <5> QED BY <3>1, <5>3 DEF RoomKeptFor
      <4>3. CASE f # fd[p]
        <5>1. Pending(f)' \subseteq Pending(f)
          BY <2>0, <3>1, <3>4, <4>1, <4>3 DEF Pending, Live
        <5> QED BY <3>1, <5>1 DEF RoomKeptFor
      <4> QED BY <4>2, <4>3
    <3> QED BY <3>2, <3>3, <3>4
  <2>5. CASE Reopen(p) \/ ReopenLocked(p)
    BY <2>5, OpenedRoom DEF Reopen, ReopenLocked
  <2>6. CASE CheckAgain(p)
    <3>1. UNCHANGED <<dir, files, fd>>
      BY <2>6 DEF CheckAgain
    <3>2. CASE Rotated(p) /\ f = Live
      <4>1. files[f] \in Seq(Lines)
        BY <3>1 DEF TypesInv, Types
      <4>2. Len(files[f]) \in Nat /\ f # 0
        BY <3>1, <3>2, <4>1 DEF Rotated
      <4>3. Len(files[f]) < Limit(p)
        BY <2>0, <3>2, <4>2 DEF Rotated, Full, Size
      <4> QED BY <3>1, <4>3 DEF RoomKeptFor
    <3>3. CASE Rotated(p) /\ f # Live
      <4>1. pc' = [pc EXCEPT ![p] = "reopen"]
        BY <2>6, <3>3 DEF CheckAgain
      <4>2. Pending(f)' \subseteq Pending(f)
        BY <2>0, <3>1, <3>3, <4>1 DEF Pending, Live
      <4> QED BY <3>1, <4>2 DEF RoomKeptFor
    <3>4. CASE ~Rotated(p)
      <4>1. pc' = [pc EXCEPT ![p] = "truncate"] \/ pc' = [pc EXCEPT ![p] = "remove"]
        BY <2>6, <3>4 DEF CheckAgain
      <4>2. Pending(f)' \subseteq Pending(f)
        BY <2>0, <3>1, <4>1 DEF Pending, Live
      <4> QED BY <3>1, <4>2 DEF RoomKeptFor
    <3> QED BY <3>2, <3>3, <3>4
  <2>7. CASE Truncate(p)
    <3>1. UNCHANGED <<dir, fd>> /\ pc' = [pc EXCEPT ![p] = "reopen"]
            /\ files' = IF Live = 0 THEN files ELSE [files EXCEPT ![Live] = <<>>]
      BY <2>7 DEF Truncate
    <3>2. files \in Seq(Seq(Lines)) /\ Live \in 0..Len(files) /\ <<>> \in Seq(Lines)
      BY Bounds DEF TypesInv, Types, Live
    <3>3. CASE Live # 0 /\ f = Live
      <4>1. files'[f] = <<>>
        BY <3>1, <3>2, <3>3, Replaced
      <4>2. Len(files'[f]) < Limit(p)
        BY <2>0, <4>1
      <4> QED BY <4>2 DEF RoomKeptFor
    <3>4. CASE Live = 0 \/ f # Live
      <4>1. f \in 1..Len(files) /\ files'[f] = files[f]
        <5>1. CASE Live = 0
          BY <3>1, <5>1
        <5>2. CASE Live # 0
          BY <3>1, <3>2, <3>4, <5>2, Replaced
        <5> QED BY <5>1, <5>2
      <4>2. Pending(f)' \subseteq Pending(f)
        BY <2>0, <3>1, <3>4 DEF Pending, Live
      <4> QED BY <4>1, <4>2 DEF RoomKeptFor
    <3> QED BY <3>3, <3>4
  <2>8. CASE RemoveOldest(p)
    <3>1. files' = files /\ fd' = fd /\ pc' = [pc EXCEPT ![p] = "shift"]
            /\ dir' = [dir EXCEPT ![Keep(p) - 1] = 0] /\ Keep(p) - 1 \in 1..Top
      BY <2>0, <2>8 DEF RemoveOldest, TypesInv, Places
    <3>2. Live' = Live
      BY <3>1, Bounds DEF Live, TypesInv, Types
    <3>3. Pending(f)' \subseteq Pending(f)
      BY <2>0, <3>1, <3>2 DEF Pending
    <3> QED BY <3>1, <3>3 DEF RoomKeptFor
  <2>9. CASE Shift(p)
    <3> DEFINE i == next[p]
    <3>1. files' = files /\ fd' = fd /\ i \in 0..(Top - 1) /\ dir \in [0..Top -> 0..Len(files)]
            /\ dir' = IF dir[i] = 0 THEN dir ELSE [dir EXCEPT ![i] = 0, ![i + 1] = dir[i]]
      BY <2>0, <2>9 DEF Shift, TypesInv, Places, Types
    <3>2. CASE i # 0
      <4>1. pc' = pc
        BY <2>9, <3>2 DEF Shift
      <4>2. Live' = Live
        BY <3>1, <3>2, Bounds DEF Live
      <4>3. Pending(f)' \subseteq Pending(f)
        BY <3>1, <4>1, <4>2 DEF Pending
      <4> QED BY <3>1, <4>3 DEF RoomKeptFor
    <3>3. CASE i = 0
      <4>1. pc' = [pc EXCEPT ![p] = "reopen"]
        BY <2>9, <3>3 DEF Shift
      <4>2. Live' = 0
        BY <3>1, <3>3, Bounds DEF Live
      <4>3. Pending(f)' \subseteq Pending(f)
        BY <2>0, <3>1, <4>1, <4>2 DEF Pending
      <4> QED BY <3>1, <4>3 DEF RoomKeptFor
    <3> QED BY <3>2, <3>3
  <2>10. CASE Write(p)
    <3> DEFINE g == fd[p]
    <3>1. g \in 1..Len(files) /\ files \in Seq(Seq(Lines)) /\ written[p] \in Nat
      BY <2>0, <2>10 DEF Write, TypesInv, Types, Places
    <3>2. files' = [files EXCEPT ![g] = Append(files[g], <<p, written[p] + 1>>)]
            /\ dir' = dir /\ fd' = fd /\ pc[p] = "write" /\ pc'[p] \in {"tally", "idle"}
            /\ \A q \in Procs \ {p} : pc'[q] = pc[q]
      BY <2>0, <2>10 DEF Write
    <3>3. files[g] \in Seq(Lines) /\ <<p, written[p] + 1>> \in Lines
      BY <2>0, <3>1 DEF Lines
    <3>4. Append(files[g], <<p, written[p] + 1>>) \in Seq(Lines)
            /\ Len(Append(files[g], <<p, written[p] + 1>>)) = Len(files[g]) + 1
      BY <3>3, Appended
    <3>5. f \in 1..Len(files) /\ (f # g => files'[f] = files[f]) /\ (f = g => Len(files'[f]) = Len(files[f]) + 1)
      <4> DEFINE new == Append(files[g], <<p, written[p] + 1>>)
      <4>1. new \in Seq(Lines) /\ files' = [files EXCEPT ![g] = new] /\ Len(new) = Len(files[g]) + 1
        BY <3>2, <3>4
      <4> HIDE DEF new, g
      <4>2. Len(files') = Len(files) /\ \A j \in 1..Len(files) : files'[j] = IF j = g THEN new ELSE files[j]
        BY <3>1, <4>1, Replaced, SMTT(20)
      <4>3. f \in 1..Len(files)
        BY <4>2
      <4> QED BY <4>1, <4>2, <4>3
    <3>6. CASE f = g
      <4>1. p \in Pending(f) /\ Pending(f)' \subseteq Pending(f) \ {p}
        BY <2>0, <3>1, <3>2, <3>6 DEF Pending, Live
      <4> QED BY <3>5, <3>6, <4>1 DEF RoomKeptFor
    <3>7. CASE f # g
      <4>1. Pending(f)' \subseteq Pending(f)
        BY <2>0, <3>1, <3>2, <3>7 DEF Pending, Live
      <4> QED BY <3>5, <3>7, <4>1 DEF RoomKeptFor
    <3> QED BY <3>6, <3>7
  <2> QED BY <1>3, <2>1, <2>2, <2>3, <2>4, <2>5, <2>6, <2>7, <2>8, <2>9, <2>10 DEF Step
<1> QED BY <1>1, <1>2, <1>3 DEF Next

(* No generation exceeds the bound of some writer by more than a line of   *)
(* each other, whatever the processes do between the size check and the    *)
(* write, and whoever is killed in a rotation (logfile.go:106-165).        *)
THEOREM LogsGenerationsBounded == Spec => []GenerationsBounded
<1>1. Init => RoomLeft
  BY DEF Init, RoomLeft
<1>2. TypesInv /\ RoomLeft => GenerationsBounded
  <2> SUFFICES ASSUME TypesInv, RoomLeft, NEW f \in 1..Len(files)
               PROVE  \E p \in Writers : Len(files[f]) <= Limit(p) - 1 + Cardinality(Writers)
    BY DEF GenerationsBounded
  <2>1. PICK p \in Writers :
          Len(files[f]) + Cardinality(Pending(f)) <= Limit(p) - 1 + Cardinality(Writers)
    BY DEF RoomLeft
  <2>2. IsFiniteSet(Writers) /\ Limit(p) \in Nat
    BY CastFacts DEF TypesInv, Types
  <2>3. Cardinality(Pending(f)) \in Nat /\ Cardinality(Writers) \in Nat
    BY <2>2, FS_Subset, FS_CardinalityType DEF Pending
  <2>4. files[f] \in Seq(Lines)
    BY DEF TypesInv, Types
  <2> QED BY <2>1, <2>2, <2>3, <2>4
<1> QED BY <1>1, <1>2, TypesInit, TypesNext, RoomNext, PTL DEF Spec


-----------------------------------------------------------------------------

(* The follower                                                            *)

(* A line younger than its process's lines shown so far may be shown next. *)
LEMMA OrderedAppend ==
  ASSUME NEW s \in Seq(Lines), Ordered(s), NEW line \in Lines,
         \A i \in 1..Len(s) : s[i][1] = line[1] => s[i][2] < line[2]
  PROVE  Ordered(Append(s, line))
<1>1. Append(s, line) \in Seq(Lines) /\ Len(Append(s, line)) = Len(s) + 1 /\ Len(s) \in Nat
        /\ (\A i \in 1..Len(s) : Append(s, line)[i] = s[i]) /\ Append(s, line)[Len(s) + 1] = line
  BY Appended
<1> DEFINE t == Append(s, line)
<1> HIDE DEF t
<1>2. t \in Seq(Lines) /\ Len(t) = Len(s) + 1 /\ (\A i \in 1..Len(s) : t[i] = s[i]) /\ t[Len(s) + 1] = line
  BY <1>1 DEF t
<1>3. Ordered(t)
  BY <1>1, <1>2 DEF Ordered
<1> QED BY <1>3 DEF t

(* Two runs of lines in order, the second younger process by process, are in order. *)
LEMMA OrderedConcat ==
  ASSUME NEW s \in Seq(Lines), NEW t \in Seq(Lines), Ordered(s), Ordered(t),
         \A i \in 1..Len(s), j \in 1..Len(t) : s[i][1] = t[j][1] => s[i][2] < t[j][2]
  PROVE  Ordered(s \o t)
<1>1. Len(s) \in Nat /\ Len(t) \in Nat /\ Len(s \o t) = Len(s) + Len(t)
        /\ \A i \in 1..(Len(s) + Len(t)) : (s \o t)[i] = IF i <= Len(s) THEN s[i] ELSE t[i - Len(s)]
  OBVIOUS
<1> SUFFICES ASSUME NEW i \in 1..(Len(s) + Len(t)), NEW j \in 1..(Len(s) + Len(t)),
                    i < j, (s \o t)[i][1] = (s \o t)[j][1]
             PROVE  (s \o t)[i][2] < (s \o t)[j][2]
  BY <1>1 DEF Ordered
<1>2. CASE j <= Len(s)
  BY <1>1, <1>2 DEF Ordered
<1>3. CASE i <= Len(s) /\ j > Len(s)
  <2>1. j - Len(s) \in 1..Len(t) /\ i \in 1..Len(s)
    BY <1>1, <1>3
  <2> QED BY <1>1, <1>3, <2>1
<1>4. CASE i > Len(s)
  <2>1. j - Len(s) \in 1..Len(t) /\ i - Len(s) \in 1..Len(t) /\ i - Len(s) < j - Len(s) /\ j > Len(s)
    BY <1>1, <1>4
  <2> QED BY <1>1, <1>4, <2>1, SMTT(20) DEF Ordered
<1> QED BY <1>1, <1>2, <1>3, <1>4

(* A part of a sequence, and what it keeps of the order.                   *)
LEMMA OrderedPart ==
  ASSUME NEW s \in Seq(Lines), Ordered(s), Past(s), NEW n \in Nat
  PROVE  LET part == SubSeq(s, n + 1, Len(s)) IN
         /\ part \in Seq(Lines) /\ Ordered(part) /\ Past(part)
         /\ Len(part) = IF n <= Len(s) THEN Len(s) - n ELSE 0
         /\ \A j \in 1..Len(part) : part[j] = s[n + j] /\ n + j \in 1..Len(s)
<1> DEFINE part == SubSeq(s, n + 1, Len(s))
<1>1. Len(s) \in Nat
  OBVIOUS
<1>2. part \in Seq(Lines) /\ Len(part) = IF n <= Len(s) THEN Len(s) - n ELSE 0
  BY <1>1
<1>3. \A j \in 1..Len(part) : n + j \in 1..Len(s)
  BY <1>1, <1>2
<1>4. \A j \in 1..Len(part) : part[j] = s[n + j]
  BY <1>1, <1>2, <1>3
<1>5. Ordered(part)
  <2> HIDE DEF part
  <2> SUFFICES ASSUME NEW i \in 1..Len(part), NEW j \in 1..Len(part), i < j, part[i][1] = part[j][1]
               PROVE  part[i][2] < part[j][2]
    BY DEF Ordered
  <2>1. Len(part) \in Nat /\ n + i < n + j
    BY <1>2
  <2> QED BY <1>3, <1>4, <2>1 DEF Ordered
<1>6. Past(part)
  <2> HIDE DEF part
  <2> QED BY <1>3, <1>4 DEF Past
<1> QED BY <1>2, <1>3, <1>4, <1>5, <1>6

(* Writers that do not write leave the follower's place in the log, or     *)

(* leave it nothing to read.                                               *)
LEMMA FollowKept ==
  ASSUME TypesInv, FollowInv, UNCHANGED <<cast, written, reader, shown>>, FilesOrdered',
         \/ Live' = Live /\ (Live # 0 => files'[Live] = files[Live])
         \/ Live' = 0
         \/ files'[Live'] = <<>>
  PROVE  FollowInv'
<1>1. Ordered(shown') /\ Past(shown)'
  BY DEF FollowInv, Past
<1>2. \A i \in 1..Len(shown'), j \in Unread' :
        shown'[i][1] = files'[Live'][j][1] => shown'[i][2] < files'[Live'][j][2]
  <2>1. CASE Live' = Live /\ (Live # 0 => files'[Live] = files[Live])
    <3>1. Unread' = Unread
      BY <2>1 DEF Unread, Start, Size, Pos
    <3>2. Unread # {} => Live # 0
      BY DEF Unread
    <3> QED BY <2>1, <3>1, <3>2 DEF FollowInv
  <2>2. CASE Live' = 0
    BY <2>2 DEF Unread
  <2>3. CASE files'[Live'] = <<>>
    BY <2>3 DEF Unread
  <2> QED BY <2>1, <2>2, <2>3
<1>3. (reader'.seen = FALSE => shown' = <<>>)
  BY DEF FollowInv, TypesInv, Types
<1> QED BY <1>1, <1>2, <1>3 DEF FollowInv

(* A line that is written is younger than all of its process before.       *)
LEMMA FollowWrite ==
  ASSUME TypesInv, FollowInv, NEW p \in Writers, Write(p) PROVE FollowInv'
<1> DEFINE g == fd[p]
           line == <<p, written[p] + 1>>
<1>1. p \in Procs /\ written[p] \in Nat /\ g \in 1..Len(files) /\ files \in Seq(Seq(Lines))
        /\ shown \in Seq(Lines) /\ written \in [Procs -> Nat] /\ Live \in 0..Len(files)
        /\ reader.at \in Nat /\ reader.from \in Nat
  <2>1. p \in Procs /\ 0 \in 0..Top
    BY CastFacts, Bounds DEF TypesInv, Types
  <2>2. fd[p] # 0 /\ fd[p] \in 0..Len(files) /\ files \in Seq(Seq(Lines))
    BY <2>1 DEF TypesInv, Types, Places, Write
  <2>3. Len(files) \in Nat
    BY <2>2
  <2> QED BY <2>1, <2>2, <2>3, SMTT(20) DEF TypesInv, Types, Live
<1>2. line \in Lines /\ files[g] \in Seq(Lines)
  BY <1>1, SMTT(20) DEF Lines
<1>3. /\ files' = [files EXCEPT ![g] = Append(files[g], line)]
      /\ written' = [written EXCEPT ![p] = written[p] + 1]
      /\ UNCHANGED <<cast, dir, reader, shown>>
  BY DEF Write, readVars
<1>4. /\ Append(files[g], line) \in Seq(Lines) /\ Len(Append(files[g], line)) = Len(files[g]) + 1
      /\ (\A j \in 1..Len(files[g]) : Append(files[g], line)[j] = files[g][j])
      /\ Append(files[g], line)[Len(files[g]) + 1] = line
  BY <1>2, Appended
<1>5. Len(files') = Len(files) /\ \A f \in 1..Len(files) :
        files'[f] = IF f = g THEN Append(files[g], line) ELSE files[f]
  BY <1>1, <1>3, <1>4, Replaced
<1>6. \A q \in Procs : written[q] <= written'[q] /\ written'[q] \in Nat
  BY <1>1, <1>3, SMTT(20)
<1>7. ASSUME NEW s \in Seq(Lines), Past(s)
      PROVE  /\ Past(s)'
             /\ \A i \in 1..Len(s) : s[i][1] = p => s[i][2] < written[p] + 1
  <2>1. \A i \in 1..Len(s) : s[i][1] \in Procs /\ s[i][2] \in Nat /\ s[i][2] <= written[s[i][1]]
    BY <1>7 DEF Past, Lines
  <2>2. \A i \in 1..Len(s) : s[i][2] <= written'[s[i][1]]
    <3> SUFFICES ASSUME NEW i \in 1..Len(s) PROVE s[i][2] <= written'[s[i][1]]
      OBVIOUS
    <3> DEFINE q == s[i][1]
               n == s[i][2]
    <3>1. q \in Procs /\ n \in Nat /\ n <= written[q] /\ written[q] \in Nat
      BY <1>1, <2>1
    <3>2. written[q] <= written'[q] /\ written'[q] \in Nat
      BY <1>6, <3>1
    <3> HIDE DEF q, n
    <3>3. n <= written'[q]
      BY <3>1, <3>2
    <3> QED BY <3>3 DEF q, n
  <2>3. \A i \in 1..Len(s) : s[i][1] = p => s[i][2] < written[p] + 1
    <3> SUFFICES ASSUME NEW i \in 1..Len(s), s[i][1] = p PROVE s[i][2] < written[p] + 1
      OBVIOUS
    <3>1. s[i][2] \in Nat /\ s[i][2] <= written[p]
      BY <2>1
    <3> QED BY <1>1, <3>1
  <2> QED BY <2>2, <2>3 DEF Past
<1>8. FilesOrdered'
  <2> SUFFICES ASSUME NEW f \in 1..Len(files) PROVE Ordered(files'[f]) /\ Past(files[f])'
    BY <1>5 DEF FilesOrdered
  <2>1. files[f] \in Seq(Lines) /\ Ordered(files[f]) /\ Past(files[f])
    BY <1>1 DEF FollowInv, FilesOrdered
  <2>2. CASE f # g
    <3>1. files'[f] = files[f]
      BY <1>5, <2>2
    <3>2. \A i \in 1..Len(files[f]) : files[f][i][2] <= written'[files[f][i][1]]
      BY <1>7, <2>1 DEF Past
    <3> QED BY <2>1, <3>1, <3>2 DEF Past
  <2>3. CASE f = g
    <3>1. files'[f] = Append(files[g], line)
      BY <1>5, <2>3
    <3>2. \A i \in 1..Len(files[g]) : files[g][i][1] = line[1] => files[g][i][2] < line[2]
      BY <1>2, <1>7, <2>1, <2>3
    <3>3. Ordered(files'[f])
      BY <1>2, <2>1, <2>3, <3>1, <3>2, OrderedAppend
    <3>4. \A i \in 1..Len(files[g]) : files[g][i][2] <= written'[files[g][i][1]]
      BY <1>7, <2>1, <2>3 DEF Past
    <3>5. line[2] <= written'[line[1]]
      BY <1>1, <1>3
    <3>6. \A i \in 1..(Len(files[g]) + 1) : i \in 1..Len(files[g]) \/ i = Len(files[g]) + 1
      BY <1>2
    <3>7. \A i \in 1..Len(files'[f]) : files'[f][i][2] <= written'[files'[f][i][1]]
      BY <1>4, <3>1, <3>4, <3>5, <3>6
    <3> QED BY <3>3, <3>7 DEF Past
  <2> QED BY <2>2, <2>3
<1>9. CASE Live # g
  <2>1. Live' = Live /\ (Live # 0 => files'[Live] = files[Live])
    BY <1>1, <1>3, <1>5, <1>9 DEF Live
  <2>2. Ordered(shown') /\ Past(shown)'
    BY <1>1, <1>3, <1>7 DEF FollowInv, Past
  <2>3. Unread' = Unread /\ (Unread # {} => Live # 0)
    BY <1>3, <2>1 DEF Unread, Start, Size, Pos
  <2>4. ASSUME NEW i \in 1..Len(shown), NEW j \in Unread', shown[i][1] = files'[Live'][j][1]
        PROVE  shown[i][2] < files'[Live'][j][2]
    BY <2>1, <2>3, <2>4 DEF FollowInv
  <2> QED BY <1>3, <1>8, <2>2, <2>4 DEF FollowInv
<1>10. CASE Live = g
  <2>1. Live' = g /\ Live # 0 /\ Len(files'[g]) = Len(files[g]) + 1 /\ Len(files[g]) \in Nat
    BY <1>1, <1>2, <1>3, <1>4, <1>5, <1>10 DEF Live
  <2>2. Ordered(shown') /\ Past(shown)'
    BY <1>1, <1>3, <1>7 DEF FollowInv, Past
  <2>3. Pos \in Nat /\ Pos' = Pos
    BY <1>1, <1>3 DEF Pos
  <2>4. \A j \in Unread' : j \in Unread \/ j = Len(files[g]) + 1
    BY <1>10, <2>1, <2>3 DEF Unread, Start, Size
  <2>5. ASSUME NEW i \in 1..Len(shown), NEW j \in Unread', shown[i][1] = files'[g][j][1]
        PROVE  shown[i][2] < files'[g][j][2]
    <3>1. CASE j \in Unread
      <4>1. files'[g][j] = files[g][j]
        BY <1>4, <1>5, <1>10, <1>1, <2>1, <3>1 DEF Unread
      <4> QED BY <1>10, <2>5, <3>1, <4>1 DEF FollowInv
    <3>2. CASE j = Len(files[g]) + 1
      <4>1. files'[g][j] = line
        BY <1>1, <1>4, <1>5, <3>2
      <4>2. shown[i][1] = p
        BY <2>5, <4>1
      <4> QED BY <1>1, <1>7, <4>1, <4>2 DEF FollowInv
    <3> QED BY <2>4, <3>1, <3>2
  <2>6. \A i \in 1..Len(shown), j \in Unread' :
          shown[i][1] = files'[Live'][j][1] => shown[i][2] < files'[Live'][j][2]
    BY <2>1, <2>5
  <2> QED BY <1>3, <1>8, <2>2, <2>6 DEF FollowInv
<1> QED BY <1>9, <1>10


(* What the follower has not read of the log, in the order of the log.     *)
LEMMA UnreadPart ==
  ASSUME TypesInv, FollowInv, Live # 0, NEW n \in Nat, n = Start(Pos, Live) \/ n = Pos
  PROVE  LET new == From(n, Live) IN
         /\ new \in Seq(Lines) /\ shown \o new \in Seq(Lines)
         /\ Ordered(shown \o new) /\ Past(shown \o new)
         /\ Len(new) = IF n <= Len(files[Live]) THEN Len(files[Live]) - n ELSE 0
<1> DEFINE new == From(n, Live)
<1>1. Live \in 1..Len(files) /\ files \in Seq(Seq(Lines)) /\ shown \in Seq(Lines)
        /\ reader.at \in Nat /\ reader.from \in Nat
  BY Bounds DEF TypesInv, Types, Live
<1>2. files[Live] \in Seq(Lines) /\ Ordered(files[Live]) /\ Past(files[Live])
  BY <1>1 DEF FollowInv, FilesOrdered
<1>3. /\ new \in Seq(Lines) /\ Ordered(new) /\ Past(new)
      /\ Len(new) = IF n <= Len(files[Live]) THEN Len(files[Live]) - n ELSE 0
      /\ \A j \in 1..Len(new) : new[j] = files[Live][n + j] /\ n + j \in 1..Len(files[Live])
  BY <1>2, OrderedPart DEF From
<1>4. \A j \in 1..Len(new) : n + j \in Unread
  <2> SUFFICES ASSUME NEW j \in 1..Len(new) PROVE n + j \in Unread
    OBVIOUS
  <2>1. n + j \in 1..Len(files[Live]) /\ Len(files[Live]) \in Nat /\ j \in Nat /\ j > 0 /\ Pos \in Nat
    BY <1>1, <1>2, <1>3 DEF Pos
  <2>2. n + j > Start(Pos, Live)
    BY <2>1 DEF Start, Size
  <2> QED BY <2>1, <2>2 DEF Unread
<1> HIDE DEF new
<1>5. \A i \in 1..Len(shown), j \in 1..Len(new) : shown[i][1] = new[j][1] => shown[i][2] < new[j][2]
  BY <1>3, <1>4 DEF FollowInv
<1>6. shown \o new \in Seq(Lines) /\ Ordered(shown \o new)
  BY <1>1, <1>3, <1>5, OrderedConcat DEF FollowInv
<1>7. Past(shown \o new)
  <2>1. Len(shown) \in Nat /\ Len(new) \in Nat /\ Len(shown \o new) = Len(shown) + Len(new)
          /\ \A i \in 1..(Len(shown) + Len(new)) :
               (shown \o new)[i] = IF i <= Len(shown) THEN shown[i] ELSE new[i - Len(shown)]
    <3>1. shown \in Seq(Lines) /\ new \in Seq(Lines)
      BY <1>1, <1>3
    <3> QED BY <3>1
  <2>2. \A i \in 1..(Len(shown) + Len(new)) :
          i \in 1..Len(shown) \/ (i > Len(shown) /\ i - Len(shown) \in 1..Len(new))
    BY <2>1
  <2>3. Past(shown) /\ Past(new)
    BY <1>3 DEF FollowInv
  <2>4. ASSUME NEW i \in 1..(Len(shown) + Len(new))
        PROVE  (shown \o new)[i][2] <= written[(shown \o new)[i][1]]
    <3>1. CASE i \in 1..Len(shown)
      <4>1. (shown \o new)[i] = shown[i]
        BY <2>1, <3>1
      <4> QED BY <2>3, <3>1, <4>1 DEF Past
    <3>2. CASE i > Len(shown) /\ i - Len(shown) \in 1..Len(new)
      <4>1. (shown \o new)[i] = new[i - Len(shown)]
        BY <2>1, <3>2
      <4> QED BY <2>3, <3>2, <4>1 DEF Past
    <3> QED BY <2>2, <3>1, <3>2
  <2> QED BY <2>1, <2>4 DEF Past
<1> QED BY <1>3, <1>6, <1>7 DEF new

(* Shown to the end of the log, the follower has nothing left to read.     *)
LEMMA FollowRead ==
  ASSUME TypesInv, FollowInv,
         History \/ Poll \/ SeedBridge \/ BridgeSize \/ BridgeRead
  PROVE  FollowInv'
<1>0. UNCHANGED <<cast, dir, files, written>> /\ Live' = Live /\ FilesOrdered'
  <2>1. UNCHANGED <<cast, dir, files, written>>
    BY DEF History, Poll, SeedBridge, BridgeSize, BridgeRead, fileVars, procVars
  <2> QED BY <2>1 DEF Live, FollowInv, FilesOrdered, Past
<1>1. /\ Live \in 0..Len(files) /\ files \in Seq(Seq(Lines)) /\ shown \in Seq(Lines)
      /\ reader \in [at : Nat, from : Nat, busy : BOOLEAN, seen : BOOLEAN]
  BY Bounds DEF TypesInv, Types, Live
<1>2. Live # 0 => files[Live] \in Seq(Lines) /\ Len(files[Live]) \in Nat /\ Ordered(files[Live]) /\ Past(files[Live])
  <2> SUFFICES ASSUME Live # 0
               PROVE  files[Live] \in Seq(Lines) /\ Len(files[Live]) \in Nat
                        /\ Ordered(files[Live]) /\ Past(files[Live])
    OBVIOUS
  <2>1. Live \in 1..Len(files)
    BY <1>1
  <2>2. files[Live] \in Seq(Lines)
    BY <1>1, <2>1
  <2> QED BY <2>1, <2>2 DEF FollowInv, FilesOrdered
<1>3. ASSUME Ordered(shown'), Past(shown'), reader'.busy => cast.reader = "bridge",
             ~reader'.seen => shown' = <<>> /\ ~reader'.busy,
             Live # 0 => \A i \in 1..Len(shown'), j \in Unread' :
               shown'[i][1] = files[Live][j][1] => shown'[i][2] < files[Live][j][2]
      PROVE  FollowInv'
  <2>1. Past(shown)'
    BY <1>0, <1>3 DEF Past
  <2>2. Live = 0 => Unread' = {}
    BY <1>0 DEF Unread
  <2>3. \A i \in 1..Len(shown'), j \in Unread' :
          shown'[i][1] = files'[Live'][j][1] => shown'[i][2] < files'[Live'][j][2]
    BY <1>0, <1>3, <2>2
  <2> QED BY <1>0, <1>3, <2>1, <2>3 DEF FollowInv
<1>4. ASSUME Live # 0, ~reader'.busy, reader'.at = Len(files[Live]) PROVE Unread' = {}
  <2>1. Pos' = Len(files[Live])
    BY <1>4 DEF Pos
  <2> QED BY <1>0, <1>2, <1>4, <2>1 DEF Unread, Start, Size
<1>5. CASE History
  <2>1. /\ reader' = [reader EXCEPT !.at = Size(Live), !.seen = TRUE] /\ ~reader.seen
        /\ shown' = IF Live = 0 THEN <<>> ELSE LastN(files[Live], cast.last)
    BY <1>5 DEF History
  <2>2. ~reader'.busy /\ reader'.seen /\ reader'.at = Size(Live)
    BY <1>1, <2>1 DEF FollowInv
  <2>3. Ordered(shown') /\ Past(shown')
    <3>1. CASE Live = 0
      BY <2>1, <3>1 DEF Ordered, Past
    <3>2. CASE Live # 0
      <4>1. cast.last \in Nat
        BY LogsAssumption DEF TypesInv, Types, CastOK
      <4> DEFINE s == files[Live]
                 n == Len(s) - cast.last
      <4>2. CASE cast.last = 0 \/ cast.last >= Len(s)
        BY <1>2, <2>1, <3>2, <4>2 DEF LastN
      <4>3. CASE ~(cast.last = 0 \/ cast.last >= Len(s))
        <5>1. n \in Nat /\ Len(s) - cast.last + 1 = n + 1
          BY <1>2, <3>2, <4>1, <4>3
        <5>2. shown' = SubSeq(s, Len(s) - cast.last + 1, Len(s))
          BY <2>1, <3>2, <4>3 DEF LastN
        <5> QED BY <1>2, <3>2, <5>1, <5>2, OrderedPart
      <4> QED BY <4>2, <4>3
    <3> QED BY <3>1, <3>2
  <2>4. Live # 0 => Unread' = {}
    BY <1>4, <2>2 DEF Size
  <2> QED BY <1>3, <2>2, <2>3, <2>4
<1>6. CASE Poll
  <2> DEFINE new == From(Start(reader.at, Live), Live)
  <2>1. Live # 0 /\ reader.seen /\ reader' = [reader EXCEPT !.at = Size(Live)] /\ shown' = shown \o new
          /\ ~reader.busy
    BY <1>6 DEF Poll, FollowInv
  <2>2. Pos = reader.at /\ Start(reader.at, Live) \in Nat
    BY <1>1, <2>1 DEF Pos, Start
  <2>3. Ordered(shown') /\ Past(shown')
    BY <2>1, <2>2, UnreadPart
  <2>4. reader'.seen /\ ~reader'.busy /\ reader'.at = Len(files[Live])
    BY <1>1, <2>1 DEF Size
  <2>5. Unread' = {}
    BY <1>4, <2>1, <2>4
  <2> QED BY <1>3, <2>3, <2>4, <2>5
<1>7. CASE SeedBridge
  <2>1. Live # 0 /\ ~reader.seen /\ reader' = [reader EXCEPT !.at = Size(Live), !.seen = TRUE] /\ shown' = shown
    BY <1>7 DEF SeedBridge
  <2>2. ~reader.busy /\ shown = <<>>
    BY <2>1 DEF FollowInv
  <2>3. reader'.seen /\ ~reader'.busy
    BY <1>1, <2>1, <2>2
  <2>4. Ordered(shown') /\ Past(shown')
    BY <2>1, <2>2 DEF Ordered, Past
  <2> QED BY <1>3, <2>1, <2>2, <2>3, <2>4
<1>8. CASE BridgeSize
  <2> DEFINE from == Start(reader.at, Live)
  <2>1. /\ Live # 0 /\ reader.seen /\ ~reader.busy /\ shown' = shown /\ cast.reader = "bridge"
        /\ reader' = IF from >= Size(Live) THEN [reader EXCEPT !.at = Size(Live)]
                     ELSE [reader EXCEPT !.from = from, !.busy = TRUE]
    BY <1>8 DEF BridgeSize
  <2>2. Pos = reader.at /\ from \in Nat /\ Size(Live) = Len(files[Live]) /\ Len(files[Live]) \in Nat
    BY <1>1, <1>2, <2>1 DEF Pos, Start, Size
  <2>3. Ordered(shown') /\ Past(shown')
    BY <2>1 DEF FollowInv
  <2> HIDE DEF from
  <2>4. CASE from >= Size(Live)
    <3>1. reader'.seen /\ ~reader'.busy /\ reader'.at = Len(files[Live])
      BY <1>1, <2>1, <2>2, <2>4
    <3>2. Unread' = {}
      BY <1>4, <2>1, <3>1
    <3> QED BY <1>3, <2>3, <3>1, <3>2
  <2>5. CASE ~(from >= Size(Live))
    <3>1. reader'.seen /\ reader'.busy /\ reader'.from = from
      BY <1>1, <2>1, <2>5
    <3>2. Start(Pos, Live) = from /\ Pos' = from
      BY <2>2, <3>1 DEF Pos, from
    <3>3. Start(Pos, Live)' = from
      BY <1>0, <2>2, <2>5, <3>2 DEF Start, Size
    <3>4. Unread' = Unread
      BY <1>0, <2>1, <3>2, <3>3 DEF Unread
    <3> QED BY <1>3, <2>1, <2>3, <3>1, <3>4 DEF FollowInv
  <2> QED BY <2>4, <2>5
<1>9. CASE BridgeRead
  <2>1. reader.busy /\ reader.seen /\ Pos = reader.from /\ reader.from \in Nat
    BY <1>1, <1>9 DEF BridgeRead, FollowInv, Pos
  <2>2. CASE Live = 0
    <3>1. reader' = [reader EXCEPT !.busy = FALSE, !.from = 0] /\ shown' = shown
      BY <1>9, <2>2 DEF BridgeRead
    <3>2. Ordered(shown') /\ Past(shown') /\ reader'.seen /\ ~reader'.busy
      BY <1>1, <2>1, <3>1 DEF FollowInv
    <3> QED BY <1>3, <2>2, <3>2
  <2>3. CASE Live # 0
    <3> DEFINE new == From(reader.from, Live)
    <3>1. /\ reader' = [reader EXCEPT !.at = reader.from + Len(new), !.busy = FALSE, !.from = 0]
          /\ shown' = shown \o new
      BY <1>9, <2>3 DEF BridgeRead
    <3>2. /\ new \in Seq(Lines) /\ Ordered(shown \o new) /\ Past(shown \o new)
          /\ Len(new) = IF reader.from <= Len(files[Live]) THEN Len(files[Live]) - reader.from ELSE 0
      BY <2>1, <2>3, UnreadPart
    <3> HIDE DEF new
    <3>3. reader'.seen /\ ~reader'.busy /\ reader'.at = reader.from + Len(new)
      BY <1>1, <2>1, <3>1
    <3>4. CASE reader.from <= Len(files[Live])
      <4>1. reader'.at = Len(files[Live])
        BY <1>2, <2>1, <2>3, <3>2, <3>3, <3>4
      <4>2. Unread' = {}
        BY <1>4, <2>3, <3>3, <4>1
      <4> QED BY <1>3, <3>1, <3>2, <3>3, <4>2
    <3>5. CASE ~(reader.from <= Len(files[Live]))
      <4>1. new = <<>>
        BY <3>2, <3>5
      <4>2. shown' = shown
        BY <1>1, <3>1, <4>1
      <4>3. Pos' = Pos
        BY <1>2, <2>1, <2>3, <3>2, <3>3, <3>5 DEF Pos
      <4>4. Start(Pos, Live)' = Start(Pos, Live)
        BY <1>0, <4>3 DEF Start, Size
      <4>5. Unread' = Unread
        BY <1>0, <4>4 DEF Unread
      <4> QED BY <1>3, <2>3, <3>1, <3>2, <3>3, <4>2, <4>5 DEF FollowInv
    <3> QED BY <3>4, <3>5
  <2> QED BY <2>2, <2>3
<1> QED BY <1>5, <1>6, <1>7, <1>8, <1>9

(* Every step keeps the followers' invariant. *)
LEMMA FollowNext ==
  ASSUME TypesInv, TypesInv', FollowInv, [Next]_vars PROVE FollowInv'
<1> USE DEF fileVars, procVars, countVars, readVars
<1>0. Live \in 0..Len(files) /\ files \in Seq(Seq(Lines)) /\ dir \in [0..Top -> 0..Len(files)]
  BY Bounds DEF TypesInv, Types, Live
<1>1. ASSUME UNCHANGED <<cast, files, written, reader, shown>>, Live' = Live \/ Live' = 0
      PROVE  FollowInv'
  <2>1. FilesOrdered'
    BY <1>1 DEF FollowInv, FilesOrdered, Past
  <2> QED BY <1>1, <2>1, FollowKept
<1>2. CASE UNCHANGED vars
  BY <1>1, <1>2 DEF vars, Live
<1>3. CASE History \/ Poll \/ SeedBridge \/ BridgeSize \/ BridgeRead
  BY <1>3, FollowRead
<1>4. ASSUME NEW p \in Writers, Step(p) \/ Kill(p) \/ Restart(p) PROVE FollowInv'
  <2> p \in Procs
    BY CastFacts DEF TypesInv, Types
  <2>1. CASE SeedCounts(p) \/ Backfill(p) \/ RotateIfNeeded(p) \/ AcquireLock(p) \/ CheckAgain(p)
               \/ Tally(p) \/ Close(p) \/ Kill(p) \/ Restart(p)
    BY <1>1, <2>1 DEF SeedCounts, Backfill, RotateIfNeeded, AcquireLock, CheckAgain,
                      Tally, Close, Kill, Restart, Live
  <2>2. ASSUME Open(p), UNCHANGED <<cast, written, reader, shown>> PROVE FollowInv'
    <3>1. /\ \A f \in 1..Len(files) : files'[f] = files[f]
          /\ \A f \in 1..Len(files') : f \notin 1..Len(files) => files'[f] = <<>> /\ Live' = f
          /\ Live # 0 => files' = files /\ dir' = dir
          /\ Live' # 0 /\ dir' \in [0..Top -> 0..Len(files')]
      BY <2>2, Opened DEF TypesInv
    <3>2. FilesOrdered'
      <4> SUFFICES ASSUME NEW f \in 1..Len(files') PROVE Ordered(files'[f]) /\ Past(files[f])'
        BY DEF FilesOrdered
      <4>1. CASE f \in 1..Len(files)
        BY <2>2, <3>1, <4>1 DEF FollowInv, FilesOrdered, Past
      <4>2. CASE f \notin 1..Len(files)
        <5>1. files'[f] = <<>>
          BY <3>1, <4>2
        <5> QED BY <5>1 DEF Ordered, Past
      <4> QED BY <4>1, <4>2
    <3>3. CASE Live # 0
      BY <2>2, <3>1, <3>2, <3>3, FollowKept DEF Live
    <3>4. CASE Live = 0
      <4>1. files' = Append(files, <<>>) /\ dir'[0] = Len(files) + 1
        BY <1>0, <2>2, <3>4, Bounds DEF Open
      <4>2. files'[Live'] = <<>>
        BY <1>0, <4>1, Appended DEF Live
      <4> QED BY <2>2, <3>2, <4>2, FollowKept
    <3> QED BY <3>3, <3>4
  <2>3. CASE EnsureOpen(p)
    <3>1. CASE fd[p] = 0
      BY <2>2, <2>3, <3>1 DEF EnsureOpen
    <3>2. CASE fd[p] # 0
      BY <1>1, <2>3, <3>2 DEF EnsureOpen, Live
    <3> QED BY <3>1, <3>2
  <2>4. CASE Reopen(p) \/ ReopenLocked(p)
    BY <2>2, <2>4 DEF Reopen, ReopenLocked
  <2>5. CASE Truncate(p)
    <3>1. /\ files' = IF Live = 0 THEN files ELSE [files EXCEPT ![Live] = <<>>]
          /\ UNCHANGED <<cast, dir, written, reader, shown>> /\ Live' = Live
      BY <2>5 DEF Truncate, Live
    <3>2. CASE Live = 0
      BY <1>1, <3>1, <3>2
    <3>3. CASE Live # 0
      <4>1. /\ Len(files') = Len(files)
            /\ \A f \in 1..Len(files) : files'[f] = IF f = Live THEN <<>> ELSE files[f]
        <5>1. <<>> \in Seq(Lines) /\ Live \in 1..Len(files)
          BY <1>0, <3>3
        <5> QED BY <1>0, <3>1, <3>3, <5>1, Replaced
      <4>2. FilesOrdered'
        <5> SUFFICES ASSUME NEW f \in 1..Len(files) PROVE Ordered(files'[f]) /\ Past(files[f])'
          BY <4>1 DEF FilesOrdered
        <5>1. CASE f = Live
          BY <4>1, <5>1 DEF Ordered, Past
        <5>2. CASE f # Live
          BY <3>1, <4>1, <5>2 DEF FollowInv, FilesOrdered, Past
        <5> QED BY <5>1, <5>2
      <4>3. files'[Live'] = <<>>
        BY <1>0, <3>1, <3>3, <4>1
      <4> QED BY <3>1, <4>2, <4>3, FollowKept
    <3> QED BY <3>2, <3>3
  <2>6. CASE RemoveOldest(p)
    <3>1. Keep(p) - 1 \in 1..Top /\ dir' = [dir EXCEPT ![Keep(p) - 1] = 0]
            /\ UNCHANGED <<cast, files, written, reader, shown>>
      BY <2>6 DEF RemoveOldest, TypesInv, Places
    <3>2. Live' = Live
      BY <1>0, <3>1, Bounds DEF Live
    <3> QED BY <1>1, <3>1, <3>2
  <2>7. CASE Shift(p)
    <3> DEFINE i == next[p]
    <3>1. i \in 0..(Top - 1) /\ UNCHANGED <<cast, files, written, reader, shown>>
            /\ dir' = IF dir[i] = 0 THEN dir ELSE [dir EXCEPT ![i] = 0, ![i + 1] = dir[i]]
      BY <2>7 DEF Shift, TypesInv, Places
    <3>2. Live' = Live \/ Live' = 0
      BY <1>0, <3>1, Bounds DEF Live
    <3> QED BY <1>1, <3>1, <3>2
  <2>8. CASE Write(p)
    BY <2>8, FollowWrite
  <2> QED BY <1>4, <2>1, <2>3, <2>4, <2>5, <2>6, <2>7, <2>8 DEF Step
<1> QED BY <1>2, <1>3, <1>4 DEF Next

(* A follower shows no line twice, and the lines of each process in the    *)
(* order in which it wrote them, whatever rotations, truncations and kills *)
(* fall between its steps (tail.go:43-73, exec.go:55-84).                  *)
THEOREM LogsFollowedOnce == Spec => []FollowedOnce
<1>1. Init => FollowInv
  <2> SUFFICES ASSUME Init PROVE FollowInv
    OBVIOUS
  <2>1. files = <<>> /\ shown = <<>> /\ ~reader.seen /\ ~reader.busy
    BY DEF Init
  <2>2. FilesOrdered /\ Ordered(shown) /\ Past(shown)
    BY <2>1 DEF FilesOrdered, Ordered, Past
  <2> QED BY <2>1, <2>2 DEF FollowInv
<1>2. FollowInv => FollowedOnce
  BY DEF FollowInv, FollowedOnce, Ordered
<1> QED BY <1>1, <1>2, TypesInit, TypesNext, FollowNext, PTL DEF Spec


-----------------------------------------------------------------------------

(* Counts                                                                  *)

(* What may be missing of the counts grows by a flush interval with each kill. *)
LEMMA LostByKill ==
  ASSUME kills \in Nat
  PROVE  Lost \in Nat /\ (kills' = kills => Lost' = Lost) /\ (kills' = kills + 1 => Lost' = Lost + FlushEvery)
<1> DEFINE k == kills
           n == FlushEvery
<1>1. k \in Nat /\ n \in Nat
  BY Bounds
<1> HIDE DEF k, n
<1>2. n * k \in Nat /\ n * (k + 1) = n * k + n
  BY <1>1
<1> QED BY <1>2 DEF Lost, k, n

(* A process that serves finds no event in the log before it has written.  *)
LEMMA NoEvents ==
  ASSUME TypesInv, FollowInv, CountsAlone, NEW p \in Writers, Serves(p), written[p] = 0
  PROVE  Events(Live) = 0
<1>1. CASE Live = 0
  BY <1>1 DEF Events
<1>2. CASE Live # 0
  <2>1. Live \in 1..Len(files) /\ files \in Seq(Seq(Lines)) /\ CastOK
    BY <1>2, Bounds DEF TypesInv, Types, Live
  <2>2. files[Live] \in Seq(Lines) /\ Past(files[Live])
    BY <2>1 DEF FollowInv, FilesOrdered
  <2> DEFINE S == {i \in 1..Len(files[Live]) : Serves(files[Live][i][1])}
  <2>3. ASSUME NEW i \in 1..Len(files[Live]), Serves(files[Live][i][1]) PROVE FALSE
    <3> DEFINE q == files[Live][i][1]
               n == files[Live][i][2]
    <3>1. q \in Procs /\ n \in Nat \ {0} /\ n <= written[q]
      BY <2>2 DEF Lines, Past
    <3>2. q \in Writers
      BY <3>1 DEF CountsAlone
    <3>3. q = p
      BY <2>1, <2>3, <3>2, CastFacts
    <3> QED BY <3>1, <3>3
  <2>4. S = {}
    BY <2>3
  <2> QED BY <1>2, <2>4, FS_EmptySet DEF Events
<1> QED BY <1>1, <1>2

(* Every step keeps what the counts rest on: who backfills, who serves, and whose
   snapshot it is. *)
LEMMA AloneNext ==
  ASSUME TypesInv, CountsAlone, [Next]_vars PROVE CountsAlone'
<1> USE DEF fileVars, procVars, countVars, readVars, Goto
<1>0. /\ pc \in [Procs -> Labels] /\ written \in [Procs -> Nat] /\ Writers \subseteq Procs
      /\ tally \in [Procs -> [served : Nat, dirty : Nat]] /\ snapshot \in Nat \cup {-1}
  BY CastFacts DEF TypesInv, Types
<1>1. ASSUME UNCHANGED <<cast, written, snapshot, pc>> PROVE CountsAlone'
  BY <1>1 DEF CountsAlone, Writers, Serves
<1>2. CASE UNCHANGED vars
  BY <1>1, <1>2 DEF vars
<1>3. CASE History \/ Poll \/ SeedBridge \/ BridgeSize \/ BridgeRead
  BY <1>1, <1>3 DEF History, Poll, SeedBridge, BridgeSize, BridgeRead
<1>4. ASSUME NEW p \in Writers, Step(p) \/ Kill(p) \/ Restart(p) PROVE CountsAlone'
  <2>0. cast' = cast /\ Writers' = Writers /\ (\A q : Serves(q)' = Serves(q)) /\ p \in Procs
    BY <1>0, <1>4 DEF Step, SeedCounts, Backfill, EnsureOpen, RotateIfNeeded, Reopen, AcquireLock, CheckAgain,
       Truncate, RemoveOldest, Shift, ReopenLocked, Write, Tally, Close, Kill, Restart, Writers, Serves
  <2>1. ASSUME snapshot' = -1 => snapshot = -1, ~Serves(p) => snapshot' = snapshot, \A q \in Procs \ {p} : pc'[q] = pc[q] /\ written'[q] = written[q],
               pc'[p] = "backfill" => cast.snapshot = -1,
               pc'[p] \in {"seed", "backfill"} => cast.writers[p].role # "tee",
               pc'[p] = "tally" => Serves(p)
        PROVE  CountsAlone'
    <3>1. \A q \in Writers : /\ pc'[q] = "backfill" => cast.snapshot = -1
                             /\ pc'[q] \in {"seed", "backfill"} => cast.writers[q].role # "tee"
                             /\ pc'[q] = "tally" => Serves(q)
      BY <1>0, <2>1 DEF CountsAlone
    <3>2. \A q \in Procs \ Writers : written'[q] = 0
      BY <2>1 DEF CountsAlone
    <3>3. (\A q \in Writers : ~Serves(q)) => snapshot' <= 0
      BY <2>1 DEF CountsAlone
    <3>4. snapshot' = -1 => cast.snapshot = -1
      BY <2>1 DEF CountsAlone
    <3> QED BY <2>0, <3>1, <3>2, <3>3, <3>4 DEF CountsAlone
  <2>2. CASE SeedCounts(p)
    <3>1. /\ pc[p] = "seed" /\ UNCHANGED <<written, snapshot>>
          /\ pc' = [pc EXCEPT ![p] = "idle"] \/ (pc' = [pc EXCEPT ![p] = "backfill"] /\ ~(snapshot >= 0))
      BY <2>2 DEF SeedCounts
    <3>2. ~(snapshot >= 0) => snapshot = -1
      BY <1>0
    <3>3. cast.writers[p].role # "tee" /\ (pc'[p] = "backfill" => cast.snapshot = -1) /\ pc'[p] # "tally"
      BY <1>0, <2>0, <3>1, <3>2 DEF CountsAlone
    <3>4. \A q \in Procs \ {p} : pc'[q] = pc[q] /\ written'[q] = written[q]
      BY <1>0, <3>1
    <3> QED BY <2>1, <3>1, <3>3, <3>4
  <2>3. CASE Backfill(p)
    <3>1. snapshot' \in Nat
      BY <1>0, <2>0, <2>3 DEF Backfill
    <3>2. Serves(p)
      <4>1. cast.snapshot = -1 /\ cast.writers[p].role # "tee"
        BY <2>3 DEF Backfill, CountsAlone
      <4>2. cast.writers[p].role # "approve" /\ cast.writers[p].role \in Roles
        BY <4>1, CastFacts, SMTT(20) DEF TypesInv, Types
      <4> QED BY <4>1, <4>2 DEF Roles, Serves
    <3> QED BY <1>0, <2>0, <2>1, <2>3, <3>1, <3>2 DEF Backfill
  <2>4. CASE Tally(p)
    <3>1. snapshot' = tally[p].served + 1 \/ snapshot' = snapshot
      BY <2>4 DEF Tally
    <3>2. snapshot' = -1 => snapshot = -1
      BY <1>0, <2>0, <3>1
    <3>3. Serves(p)
      BY <2>4 DEF Tally, CountsAlone
    <3> QED BY <1>0, <2>0, <2>1, <2>4, <3>2, <3>3 DEF Tally
  <2>5. CASE Close(p)
    <3>1. snapshot' = tally[p].served \/ snapshot' = snapshot
      BY <2>5 DEF Close
    <3>2. snapshot' = -1 => snapshot = -1
      BY <1>0, <2>0, <3>1
    <3> QED BY <1>0, <2>0, <2>1, <2>5, <3>2 DEF Close
  <2>6. CASE Write(p)
    BY <1>0, <2>0, <2>1, <2>6 DEF Write
  <2>7. CASE Restart(p)
    BY <1>0, <2>0, <2>1, <2>7 DEF Restart, Serves
  <2>8. CASE EnsureOpen(p) \/ RotateIfNeeded(p) \/ Reopen(p) \/ AcquireLock(p) \/ CheckAgain(p)
               \/ Truncate(p) \/ RemoveOldest(p) \/ ReopenLocked(p) \/ Kill(p)
    <3>1. /\ snapshot' = snapshot /\ \A q \in Procs \ {p} : pc'[q] = pc[q] /\ written'[q] = written[q]
          /\ pc'[p] \notin {"seed", "backfill", "tally"}
      BY <1>0, <2>0, <2>8 DEF EnsureOpen, RotateIfNeeded, Reopen, AcquireLock, CheckAgain,
         Truncate, RemoveOldest, ReopenLocked, Kill
    <3> QED BY <2>1, <3>1
  <2>9. CASE Shift(p)
    <3>1. /\ snapshot' = snapshot /\ \A q \in Procs \ {p} : pc'[q] = pc[q] /\ written'[q] = written[q]
          /\ pc'[p] \notin {"seed", "backfill", "tally"}
      BY <1>0, <2>0, <2>9 DEF Shift
    <3> QED BY <2>1, <3>1
  <2> QED BY <1>4, <2>2, <2>3, <2>4, <2>5, <2>6, <2>7, <2>8, <2>9 DEF Step
<1> QED BY <1>2, <1>3, <1>4 DEF Next

(* Every step keeps the counts within what was logged and lost. *)
LEMMA CountNext ==
  ASSUME TypesInv, FollowInv, CountsAlone, CountInv, [Next]_vars PROVE CountInv'
<1> USE DEF fileVars, procVars, countVars, readVars, Goto
<1>0. /\ pc \in [Procs -> Labels] /\ written \in [Procs -> Nat] /\ Writers \subseteq Procs
      /\ tally \in [Procs -> [served : Nat, dirty : Nat]] /\ snapshot \in Nat \cup {-1}
      /\ kills \in Nat /\ CastOK /\ FlushEvery \in Nat \ {0}
  BY CastFacts, Bounds DEF TypesInv, Types
<1>1. cast' = cast /\ Writers' = Writers /\ (\A q : Serves(q)' = Serves(q))
  BY DEF Next, Step, SeedCounts, Backfill, EnsureOpen, RotateIfNeeded, Reopen, AcquireLock, CheckAgain,
     Truncate, RemoveOldest, Shift, ReopenLocked, Write, Tally, Close, Kill, Restart,
     History, Poll, SeedBridge, BridgeSize, BridgeRead, Writers, Serves, vars
<1> SUFFICES ASSUME NEW s \in Writers, Serves(s) PROVE Counted(s)'
  BY <1>1 DEF CountInv
<1>2. /\ Counted(s) /\ s \in Procs /\ written[s] \in Nat
      /\ tally[s] \in [served : Nat, dirty : Nat] /\ tally[s].served \in Nat /\ tally[s].dirty \in Nat
      /\ Lost \in Nat
  BY <1>0, LostByKill DEF CountInv
<1>3. ASSUME pc'[s] = pc[s], tally'[s] = tally[s], written'[s] = written[s], snapshot' = snapshot,
             kills' = kills \/ kills' = kills + 1
      PROVE  Counted(s)'
  <2>1. Lost' \in Nat /\ Lost <= Lost'
    BY <1>0, <1>2, <1>3, LostByKill
  <2>2. Uncounted(s)' = Uncounted(s) /\ Uncounted(s) \in Nat
    BY <1>3 DEF Uncounted
  <2> QED BY <1>0, <1>2, <1>3, <2>1, <2>2 DEF Counted
<1>4. CASE UNCHANGED vars
  BY <1>3, <1>4 DEF vars
<1>5. CASE History \/ Poll \/ SeedBridge \/ BridgeSize \/ BridgeRead
  BY <1>3, <1>5 DEF History, Poll, SeedBridge, BridgeSize, BridgeRead
<1>6. ASSUME NEW p \in Writers, p # s, Step(p) \/ Kill(p) \/ Restart(p) PROVE Counted(s)'
  <2>1. p \in Procs /\ ~Serves(p)
    BY <1>0, <1>6, CastFacts
  <2>2. ~Backfill(p) /\ ~Tally(p)
    <3>1. ~Tally(p)
      BY <2>1 DEF Tally, CountsAlone
    <3>2. ASSUME Backfill(p) PROVE FALSE
      <4>1. cast.snapshot = -1 /\ cast.writers[p].role # "tee"
        BY <3>2 DEF Backfill, CountsAlone
      <4>2. cast.writers[p].role # "approve" /\ cast.writers[p].role \in Roles
        BY <1>0, <4>1, CastFacts
      <4> QED BY <2>1, <4>1, <4>2 DEF Roles, Serves
    <3> QED BY <3>1, <3>2
  <2>3. pc'[s] = pc[s] /\ tally'[s] = tally[s] /\ written'[s] = written[s] /\ snapshot' = snapshot
          /\ (kills' = kills \/ kills' = kills + 1)
    <3>1. CASE Kill(p)
      BY <1>0, <1>2, <1>6, <3>1 DEF Kill
    <3>2. CASE Restart(p)
      BY <1>0, <1>2, <1>6, <3>2 DEF Restart
    <3>3. CASE SeedCounts(p) \/ Close(p)
      BY <1>0, <1>2, <1>6, <2>1, <3>3 DEF SeedCounts, Seed, Close
    <3>4. CASE EnsureOpen(p) \/ RotateIfNeeded(p) \/ Reopen(p) \/ AcquireLock(p) \/ CheckAgain(p)
      BY <1>0, <1>2, <1>6, <3>4 DEF EnsureOpen, RotateIfNeeded, Reopen, AcquireLock, CheckAgain
    <3>5. CASE Truncate(p) \/ RemoveOldest(p) \/ Shift(p) \/ ReopenLocked(p) \/ Write(p)
      BY <1>0, <1>2, <1>6, <3>5 DEF Truncate, RemoveOldest, Shift, ReopenLocked, Write
    <3> QED BY <1>6, <2>2, <3>1, <3>2, <3>3, <3>4, <3>5 DEF Step
  <2> QED BY <1>3, <2>3
<1>7. CASE SeedCounts(s)
  <2> DEFINE n == IF snapshot >= 0 THEN snapshot ELSE Events(Live)
             label == IF snapshot >= 0 THEN "idle" ELSE "backfill"
  <2>1. pc[s] = "seed" /\ pc' = [pc EXCEPT ![s] = label] /\ UNCHANGED <<written, snapshot, kills>>
          /\ tally' = [tally EXCEPT ![s] = [served |-> n, dirty |-> 0]]
    BY <1>7 DEF SeedCounts, Seed
  <2>2. pc'[s] = label /\ tally'[s].served = n /\ tally'[s].dirty = 0 /\ Lost' = Lost /\ Uncounted(s)' = 0
    BY <1>0, <1>2, <2>1 DEF Uncounted, Lost
  <2>3. CASE snapshot >= 0
    BY <1>0, <1>2, <2>1, <2>2, <2>3 DEF Counted
  <2>4. CASE snapshot = -1
    <3>1. n = 0
      BY <1>2, <2>4, NoEvents DEF Counted
    <3> HIDE DEF n
    <3> QED BY <1>0, <1>2, <2>1, <2>2, <2>4, <3>1 DEF Counted
  <2> QED BY <1>0, <2>3, <2>4
<1>8. CASE Backfill(s)
  <2>1. pc[s] = "backfill" /\ pc' = [pc EXCEPT ![s] = "idle"] /\ UNCHANGED <<written, tally, kills>>
          /\ snapshot' = tally[s].served
    BY <1>8 DEF Backfill
  <2>2. pc'[s] = "idle" /\ snapshot' = 0 /\ written[s] = 0 /\ Lost' = Lost /\ Uncounted(s)' = 0
    BY <1>0, <1>2, <2>1 DEF Uncounted, Lost, Counted
  <2>3. tally'[s].served = 0 /\ tally'[s].dirty = 0
    BY <1>2, <2>1 DEF Counted
  <2> QED BY <1>0, <1>2, <2>1, <2>2, <2>3 DEF Counted
<1>9. CASE Tally(s)
  <2> DEFINE due == tally[s].dirty + 1 >= FlushEvery
  <2>1. /\ pc[s] = "tally" /\ pc' = [pc EXCEPT ![s] = "idle"] /\ UNCHANGED <<written, kills>>
        /\ tally' = [tally EXCEPT ![s] = [served |-> tally[s].served + 1,
                                           dirty |-> IF due THEN 0 ELSE tally[s].dirty + 1]]
        /\ snapshot' = IF due THEN tally[s].served + 1 ELSE snapshot
    BY <1>9 DEF Tally
  <2>2. /\ pc'[s] = "idle" /\ tally'[s].served = tally[s].served + 1
        /\ tally'[s].dirty = IF due THEN 0 ELSE tally[s].dirty + 1
        /\ Lost' = Lost /\ Uncounted(s) = 1 /\ Uncounted(s)' = 0
    BY <1>0, <1>2, <2>1 DEF Uncounted, Lost
  <2> QED BY <1>0, <1>2, <2>1, <2>2 DEF Counted
<1>10. CASE Close(s)
  <2>1. /\ pc[s] = "idle" /\ pc' = [pc EXCEPT ![s] = "done"] /\ tally' = [tally EXCEPT ![s].dirty = 0]
        /\ snapshot' = IF tally[s].dirty > 0 THEN tally[s].served ELSE snapshot
        /\ UNCHANGED <<written, kills>>
    BY <1>10 DEF Close
  <2>2. pc'[s] = "done" /\ tally'[s].dirty = 0 /\ tally'[s].served = tally[s].served
          /\ Lost' = Lost /\ Uncounted(s)' = 0 /\ Uncounted(s) = 0
    BY <1>0, <1>2, <2>1 DEF Uncounted, Lost
  <2>3. snapshot' = tally[s].served
    BY <1>0, <1>2, <2>1 DEF Counted
  <2> QED BY <1>0, <1>2, <2>1, <2>2, <2>3 DEF Counted
<1>11. CASE Write(s)
  <2>1. /\ pc[s] = "write" /\ pc' = [pc EXCEPT ![s] = "tally"] /\ written' = [written EXCEPT ![s] = written[s] + 1]
        /\ UNCHANGED <<tally, snapshot, kills>>
    BY <1>11 DEF Write
  <2>2. pc'[s] = "tally" /\ written'[s] = written[s] + 1 /\ Lost' = Lost
          /\ Uncounted(s)' = 1 /\ Uncounted(s) = 0
    BY <1>0, <1>2, <2>1 DEF Uncounted, Lost
  <2> QED BY <1>0, <1>2, <2>1, <2>2 DEF Counted
<1>12. CASE Kill(s)
  <2>1. pc' = [pc EXCEPT ![s] = "dead"] /\ kills' = kills + 1 /\ UNCHANGED <<written, tally, snapshot>>
          /\ pc[s] \notin {"done", "dead"}
    BY <1>12 DEF Kill
  <2>2. pc'[s] = "dead" /\ Lost' = Lost + FlushEvery /\ Lost' \in Nat /\ Uncounted(s) \in 0..1
    BY <1>0, <1>2, <2>1, LostByKill DEF Uncounted
  <2>3. tally'[s] = tally[s] /\ written'[s] = written[s] /\ snapshot' = snapshot
    BY <2>1
  <2>4. snapshot = -1 => written[s] = 0
    BY <1>2 DEF Counted
  <2>5. snapshot >= 0 => snapshot <= written[s] /\ written[s] <= snapshot + Lost + FlushEvery
    <3>1. CASE pc[s] \in {"seed", "dead"}
      BY <1>0, <1>2, <3>1 DEF Counted
    <3>2. CASE pc[s] = "backfill"
      BY <1>2, <3>2 DEF Counted
    <3>3. CASE pc[s] \notin {"seed", "backfill", "dead"}
      <4>1. snapshot >= 0
        BY <1>0, <1>2, <3>3 DEF Counted
      <4>2. /\ tally[s].dirty < FlushEvery /\ tally[s].served = snapshot + tally[s].dirty
            /\ tally[s].served + Uncounted(s) <= written[s]
            /\ written[s] <= tally[s].served + Uncounted(s) + Lost
        BY <1>2, <3>3 DEF Counted
      <4> QED BY <1>0, <1>2, <2>2, <4>1, <4>2
    <3> QED BY <3>1, <3>2, <3>3
  <2> QED BY <1>0, <1>2, <2>2, <2>3, <2>4, <2>5 DEF Counted
<1>13. CASE Restart(s)
  <2>1. pc[s] = "dead" /\ pc'[s] = "seed" /\ UNCHANGED <<written, tally, snapshot, kills>>
    BY <1>0, <1>2, <1>13 DEF Restart
  <2>2. Lost' = Lost
    BY <2>1 DEF Lost
  <2> QED BY <1>2, <2>1, <2>2 DEF Counted
<1>14. CASE EnsureOpen(s) \/ RotateIfNeeded(s) \/ Reopen(s) \/ AcquireLock(s) \/ CheckAgain(s)
              \/ Truncate(s) \/ RemoveOldest(s) \/ Shift(s) \/ ReopenLocked(s)
  <2> DEFINE quiet == Labels \ {"seed", "backfill", "dead", "tally", "done"}
  <2>1. /\ pc[s] \in quiet /\ pc'[s] \in quiet
        /\ UNCHANGED <<written, tally, snapshot, kills>>
    <3>1. CASE EnsureOpen(s) \/ Reopen(s) \/ AcquireLock(s)
      BY <1>0, <1>2, <3>1 DEF EnsureOpen, Reopen, AcquireLock, Labels
    <3>2. CASE RotateIfNeeded(s) \/ CheckAgain(s)
      BY <1>0, <1>2, <3>2 DEF RotateIfNeeded, CheckAgain, Labels
    <3>3. CASE Truncate(s) \/ RemoveOldest(s) \/ Shift(s) \/ ReopenLocked(s)
      BY <1>0, <1>2, <3>3 DEF Truncate, RemoveOldest, Shift, ReopenLocked, Labels
    <3> QED BY <1>14, <3>1, <3>2, <3>3
  <2>2. Lost' = Lost /\ Uncounted(s) = 0 /\ Uncounted(s)' = 0
    BY <2>1 DEF Lost, Uncounted
  <2> QED BY <1>2, <2>1, <2>2 DEF Counted
<1> QED BY <1>4, <1>5, <1>6, <1>7, <1>8, <1>9, <1>10, <1>11, <1>12, <1>13, <1>14 DEF Next, Step


(* The lines of the processes that serve are those of one.                 *)
LEMMA ServedCount ==
  ASSUME TypesInv
  PROVE  /\ \A s \in Writers : Serves(s) => Cardinality(ServedLines) = written[s]
         /\ (\A s \in Writers : ~Serves(s)) => Cardinality(ServedLines) = 0
<1> CastOK /\ Writers \subseteq Procs
  BY CastFacts DEF TypesInv, Types
<1>1. ASSUME NEW s \in Writers, Serves(s) PROVE Cardinality(ServedLines) = written[s]
  <2> DEFINE n == written[s]
  <2>1. n \in Nat
    BY DEF TypesInv, Types
  <2>2. {q \in Writers : Serves(q)} = {s}
    BY <1>1, CastFacts
  <2>3. ServedLines = {s} \X (1..n)
    BY <2>2 DEF ServedLines
  <2>4. IsFiniteSet({s}) /\ Cardinality({s}) = 1
    BY FS_Singleton
  <2>5. IsFiniteSet(1..n) /\ Cardinality(1..n) = n
    BY <2>1, FS_Interval, SMTT(20)
  <2>6. Cardinality({s} \X (1..n)) = Cardinality({s}) * Cardinality(1..n)
    BY <2>4, <2>5, FS_Product
  <2> HIDE DEF n
  <2>7. Cardinality(ServedLines) = n
    BY <2>1, <2>3, <2>4, <2>5, <2>6
  <2> QED BY <2>7 DEF n
<1>2. ASSUME \A s \in Writers : ~Serves(s) PROVE Cardinality(ServedLines) = 0
  <2>1. ServedLines = {}
    BY <1>2 DEF ServedLines
  <2> QED BY <2>1, FS_EmptySet
<1> QED BY <1>1, <1>2

(* The counts in the snapshot never exceed what the process that serves    *)
(* has logged, and fall short of it by one flush interval at most for each *)
(* kill and for a process still open, rotations or not (activity.go:64-66, *)
(* 111-151, 257-265).                                                      *)
THEOREM LogsCountsKept == Spec => []CountsKept
<1>1. Init => FollowInv /\ CountsAlone /\ CountInv
  <2> SUFFICES ASSUME Init PROVE FollowInv /\ CountsAlone /\ CountInv
    OBVIOUS
  <2>1. files = <<>> /\ shown = <<>> /\ ~reader.seen /\ ~reader.busy
    BY DEF Init
  <2>2. FilesOrdered /\ Ordered(shown) /\ Past(shown)
    BY <2>1 DEF FilesOrdered, Ordered, Past
  <2>3. CastOK /\ snapshot = cast.snapshot /\ cast.snapshot \in {-1, 0} /\ Writers \subseteq Procs
    BY CastFacts DEF Init, CastOK
  <2>4. CountsAlone
    BY <2>3 DEF Init, CountsAlone, First
  <2>5. ASSUME NEW s \in Writers, Serves(s) PROVE Counted(s)
    <3>1. pc[s] = "seed" /\ written[s] = 0 /\ tally[s].served = 0 /\ Lost \in Nat
      BY <2>3, <2>5, LostByKill DEF Init, First, Serves
    <3> QED BY <2>3, <3>1 DEF Counted
  <2> QED BY <2>1, <2>2, <2>4, <2>5 DEF FollowInv, CountInv
<1>2. TypesInv /\ CountsAlone /\ CountInv => CountsKept
  <2> SUFFICES ASSUME TypesInv, CountsAlone, CountInv, snapshot >= 0
               PROVE  LET open == {p \in Writers : Serves(p) /\ pc[p] \notin {"done", "dead"}} IN
                      /\ snapshot <= Cardinality(ServedLines)
                      /\ Cardinality(ServedLines) <= snapshot + FlushEvery * (kills + Cardinality(open))
    BY DEF CountsKept
  <2> DEFINE open == {p \in Writers : Serves(p) /\ pc[p] \notin {"done", "dead"}}
  <2>0. CastOK /\ kills \in Nat /\ FlushEvery \in Nat \ {0} /\ snapshot \in Nat
    BY Bounds DEF TypesInv, Types
  <2>1. CASE \A s \in Writers : ~Serves(s)
    <3>1. snapshot = 0 /\ Cardinality(ServedLines) = 0 /\ open = {}
      BY <2>0, <2>1, ServedCount DEF CountsAlone
    <3>2. Cardinality(open) = 0
      BY <3>1, FS_EmptySet
    <3>3. FlushEvery * kills \in Nat
      BY <2>0
    <3> QED BY <2>0, <3>1, <3>2, <3>3
  <2>2. ASSUME NEW s \in Writers, Serves(s)
        PROVE  /\ snapshot <= Cardinality(ServedLines)
               /\ Cardinality(ServedLines) <= snapshot + FlushEvery * (kills + Cardinality(open))
    <3> DEFINE k == kills
               n == FlushEvery
               c == Cardinality(open)
    <3>1. Cardinality(ServedLines) = written[s] /\ Counted(s) /\ written[s] \in Nat
            /\ tally[s].served \in Nat /\ tally[s].dirty \in Nat
      BY <2>0, <2>2, ServedCount, CastFacts DEF CountInv, TypesInv, Types
    <3>2. k \in Nat /\ n \in Nat \ {0} /\ n * k \in Nat /\ n * (k + 1) = n * k + n /\ Lost = n * k
      <4>1. k \in Nat /\ n \in Nat \ {0}
        BY <2>0
      <4>2. Lost = n * k
        BY DEF Lost
      <4> HIDE DEF k, n
      <4> QED BY <4>1, <4>2
    <3>3. CASE pc[s] \in {"done", "dead"}
      <4>1. open = {}
        BY <2>0, <2>2, <3>3, CastFacts
      <4>2. c = 0
        BY <4>1, FS_EmptySet
      <4>3. snapshot <= written[s] /\ written[s] <= snapshot + Lost
        BY <2>0, <3>1, <3>2, <3>3 DEF Counted, Uncounted
      <4> HIDE DEF k, n, c
      <4>4. k + c = k
        BY <3>2, <4>2
      <4>5. n * (k + c) = Lost
        BY <3>2, <4>4
      <4>6. FlushEvery * (kills + Cardinality(open)) = Lost
        BY <4>5 DEF k, n, c
      <4> QED BY <3>1, <4>3, <4>6
    <3>4. CASE pc[s] \notin {"done", "dead"}
      <4>1. open = {s}
        BY <2>0, <2>2, <3>4, CastFacts
      <4>2. c = 1
        BY <4>1, FS_Singleton
      <4>3. snapshot <= written[s] /\ written[s] <= snapshot + Lost + n
        <5> HIDE DEF k, n, c
        <5>1. CASE pc[s] = "seed"
          BY <2>0, <3>1, <3>2, <5>1 DEF Counted
        <5>2. CASE pc[s] = "backfill"
          BY <2>0, <3>1, <5>2 DEF Counted
        <5>3. CASE pc[s] \notin {"seed", "backfill"}
          <6>1. /\ tally[s].dirty < n /\ tally[s].served = snapshot + tally[s].dirty
                /\ tally[s].served + Uncounted(s) <= written[s]
                /\ written[s] <= tally[s].served + Uncounted(s) + Lost
            BY <3>1, <3>4, <5>3 DEF Counted, n
          <6>2. Uncounted(s) \in 0..1
            BY DEF Uncounted
          <6> QED BY <2>0, <3>1, <3>2, <6>1, <6>2
        <5> QED BY <5>1, <5>2, <5>3
      <4> HIDE DEF k, n, c
      <4>4. k + c = k + 1
        BY <3>2, <4>2
      <4>5. n * (k + c) = Lost + n
        BY <3>2, <4>4
      <4>6. FlushEvery * (kills + Cardinality(open)) = Lost + n /\ Lost \in Nat
        BY <3>2, <4>5 DEF k, n, c
      <4> QED BY <2>0, <3>1, <3>2, <4>3, <4>6
    <3> QED BY <3>3, <3>4
  <2> QED BY <2>1, <2>2
<1> QED BY <1>1, <1>2, TypesInit, TypesNext, FollowNext, AloneNext, CountNext, PTL DEF Spec

-----------------------------------------------------------------------------

(* History                                                                 *)

(* What is promised is the smallest of the writers' bounds; a generation   *)
(* counts if it is filled to that.                                         *)
Floor == Least({Limit(p) : p \in Writers})
Promised == Least({KeepPromised(p) : p \in Writers})
Filled(i) == dir[i] # 0 /\ Len(files[dir[i]]) >= Floor

\* A configuration that names its generations, and keeps more than the log itself.
Many == \A p \in Writers : Keep(p) = KeepPromised(p) /\ Keep(p) > 1

\* Where the process with the lock is, and the name it has freed for the next file.
Phase == IF lock = Nobody THEN "none" ELSE pc[lock]
Gap == IF Phase = "shift" THEN next[lock] + 1 ELSE 0

(* The n generations that stand before the n-th, the log not counted. While*)
(* one name is free, those below it are a name too low, the log as well.   *)
Slots(n) == IF n <= Gap THEN 0..(n - 1) ELSE (0..n) \ {Gap}
At(n) == IF n <= Gap THEN n - 1 ELSE n
Holes(n) == {i \in Slots(n) : ~Filled(i)}

\* A rotation of this log would make one more hole: it is gone.
Missing == \/ Phase = "remove" /\ ~Filled(0)
           \/ files # <<>> /\ dir[0] = 0 /\ Phase \notin {"remove", "shift", "reopen"}
Owed == IF Missing THEN 1 ELSE 0

\* The generations that have been in use: something was dropped, or one stands there.
Dropped == \E f \in 1..Len(files) : \A i \in 0..Top : dir[i] # f
Reaches(n) ==
  \/ n <= (IF Gap > 0 THEN 1 ELSE 0)
  \/ n >= 1 /\ dir[At(n)] # 0
  \/ Dropped /\ n <= Promised - 1

(* Below a generation in use, all are full, but for one for each kill.     *)
Sparse == \A n \in 0..Top : Reaches(n) => Cardinality(Holes(n)) + Owed <= kills

\* The free name is free; who rotates has seen a log; nobody empties one.
Begun ==
  /\ Gap > 0 => dir[Gap] = 0
  /\ \A p \in Writers : pc[p] = "lock" \/ lock = p => files # <<>>
  /\ \A p \in Writers : pc[p] # "truncate"

\* No line is in two files or twice in one, and every line written is in one.
Once ==
  \A f, g \in 1..Len(files) : \A i \in 1..Len(files[f]), j \in 1..Len(files[g]) :
    files[f][i] = files[g][j] => f = g /\ i = j
Stored ==
  \A p \in Procs : \A k \in 1..written[p] :
    \E f \in 1..Len(files) : \E i \in 1..Len(files[f]) : files[f][i] = <<p, k>>

HistoryInv == Sparse /\ Begun /\ Once /\ Stored

(* A set of natural numbers has a least one.                               *)
LEMMA LeastIs ==
  ASSUME NEW S, S \subseteq Nat, S # {}
  PROVE  Least(S) \in S /\ \A m \in S : Least(S) <= m
<1> DEFINE R == OpToRel(<, Nat)
<1>1. IsWellFoundedOn(R, Nat)
  BY NatLessThanWellFounded
<1>2. PICK x \in S : \A y \in S : ~(<<y, x>> \in R)
  <2> HIDE DEF R
  <2> QED BY <1>1, WFMin
<1>3. \A y \in S : x <= y
  <2> SUFFICES ASSUME NEW y \in S PROVE x <= y
    OBVIOUS
  <2>1. <<y, x>> \notin R /\ <<y, x>> \in Nat \X Nat
    BY <1>2
  <2>2. ~(y < x)
    BY <2>1 DEF OpToRel
  <2>3. x \in Nat /\ y \in Nat
    OBVIOUS
  <2> HIDE DEF R
  <2> QED BY <2>2, <2>3
<1> QED BY <1>3 DEF Least

(* What is promised is no more than each writer keeps.                     *)
LEMMA Floors ==
  ASSUME CastOK, Writers # {}
  PROVE  /\ Floor \in Nat \ {0} /\ \A p \in Writers : Floor <= Limit(p)
         /\ Promised \in Nat \ {0} /\ \A p \in Writers : Promised <= KeepPromised(p)
         /\ \E p \in Writers : Promised = KeepPromised(p)
<1>1. \A p \in Writers : Limit(p) \in Nat \ {0} /\ KeepPromised(p) \in Nat \ {0}
  BY LogsAssumption DEF CastOK, Writers, Limit, KeepPromised
<1> DEFINE L == {Limit(p) : p \in Writers}
           K == {KeepPromised(p) : p \in Writers}
<1>2. L \subseteq Nat /\ L # {} /\ K \subseteq Nat /\ K # {}
  BY <1>1
<1>3. Least(L) \in L /\ (\A m \in L : Least(L) <= m) /\ Least(K) \in K /\ (\A m \in K : Least(K) <= m)
  <2> HIDE DEF L, K
  <2> QED BY <1>2, LeastIs
<1> QED BY <1>1, <1>3 DEF Floor, Promised

(* The free name is one of a generation.                                   *)
LEMMA GapIn ==
  ASSUME TypesInv
  PROVE  /\ Gap \in 0..Top
         /\ Phase = "shift" => lock \in Procs /\ pc[lock] = "shift" /\ Gap = next[lock] + 1 /\ Gap > 0
         /\ Phase # "shift" => Gap = 0
<1>1. Top \in Nat
  BY Bounds
<1>2. CASE Phase = "shift"
  <2>1. lock \in Procs /\ pc[lock] = "shift"
    BY <1>2 DEF Phase, TypesInv, Types
  <2>2. next[lock] \in 0..(Top - 1) /\ Gap = next[lock] + 1
    BY <1>2, <2>1 DEF Gap, TypesInv, Places
  <2> QED BY <1>1, <1>2, <2>1, <2>2
<1>3. CASE Phase # "shift"
  BY <1>1, <1>3 DEF Gap
<1> QED BY <1>2, <1>3

(* The holes are among the names.                                          *)
LEMMA HolesIn ==
  ASSUME TypesInv, NEW n \in 0..Top
  PROVE  /\ Holes(n) \subseteq 0..Top /\ IsFiniteSet(Holes(n)) /\ Cardinality(Holes(n)) \in Nat
<1>1. Top \in Nat /\ Gap \in 0..Top
  BY Bounds, GapIn
<1>2. Slots(n) \subseteq 0..Top
  BY <1>1 DEF Slots
<1>3. IsFiniteSet(0..Top)
  BY <1>1, FS_Interval
<1>4. Holes(n) \subseteq 0..Top
  BY <1>2 DEF Holes
<1> QED BY <1>3, <1>4, FS_Subset, FS_CardinalityType

(* A step that leaves the free name, fills what it changes, puts nothing   *)
(* into use and makes no hole but by a kill keeps the generations full.    *)
LEMMA Eased ==
  ASSUME TypesInv, TypesInv', Sparse, cast' = cast, Gap' = Gap,
         kills' >= kills, Missing' => Missing \/ kills' > kills,
         \A i \in 0..Top : Filled(i) => Filled(i)',
         \A n \in 0..Top : Reaches(n)' => Reaches(n)
  PROVE  Sparse'
<1> SUFFICES ASSUME NEW n \in 0..Top, Reaches(n)'
             PROVE  Cardinality(Holes(n)') + Owed' <= kills'
  BY DEF Sparse
<1>1. Cardinality(Holes(n)) + Owed <= kills
  BY DEF Sparse
<1>2. Slots(n)' = Slots(n) /\ Slots(n) \subseteq 0..Top
  <2>1. Top \in Nat /\ Gap \in 0..Top
    BY Bounds, GapIn
  <2> QED BY <2>1 DEF Slots
<1>3. Holes(n)' \subseteq Holes(n)
  BY <1>2 DEF Holes
<1>4. IsFiniteSet(Holes(n)) /\ Cardinality(Holes(n)) \in Nat
  BY HolesIn
<1>5. Cardinality(Holes(n)') \in Nat /\ Cardinality(Holes(n)') <= Cardinality(Holes(n))
  BY <1>3, <1>4, FS_Subset, FS_CardinalityType
<1>6. Owed \in {0, 1} /\ Owed' \in {0, 1} /\ (Owed' = 1 => Owed = 1 \/ kills' > kills)
  BY DEF Owed
<1>7. kills \in Nat /\ kills' \in Nat
  BY DEF TypesInv, Types
<1> QED BY <1>1, <1>4, <1>5, <1>6, <1>7

(* A step of a process without the lock leaves the phase of the rotation.  *)
LEMMA PhaseKept ==
  ASSUME TypesInv, NEW p \in Procs, lock # p, lock' = lock,
         \A q \in Procs \ {p} : pc'[q] = pc[q] /\ next'[q] = next[q]
  PROVE  Phase' = Phase /\ Gap' = Gap
<1>1. lock \in Procs \cup {Nobody}
  BY DEF TypesInv, Types
<1>2. CASE lock = Nobody
  BY <1>2 DEF Phase, Gap
<1>3. CASE lock # Nobody
  <2>1. lock \in Procs \ {p}
    BY <1>1, <1>3
  <2>2. pc'[lock] = pc[lock] /\ next'[lock] = next[lock]
    BY <2>1
  <2> QED BY <2>2 DEF Phase, Gap
<1> QED BY <1>2, <1>3

(* A step that leaves the names and their files puts nothing into use.     *)
LEMMA NamesKept ==
  ASSUME TypesInv, cast' = cast, dir' = dir, files' = files, Gap' = Gap
  PROVE  /\ \A i \in 0..Top : Filled(i) => Filled(i)'
         /\ \A n \in 0..Top : Reaches(n)' => Reaches(n)
<1>1. Floor' = Floor /\ Promised' = Promised
  BY DEF Floor, Promised, Limit, KeepPromised, Writers
<1>2. Dropped' = Dropped
  BY DEF Dropped
<1> QED BY <1>1, <1>2 DEF Filled, Reaches, At

(* Opening the log puts nothing into use, and what was missing is there.   *)
LEMMA OpenKept ==
  ASSUME TypesInv, NEW p \in Procs, Open(p), cast' = cast, Gap' = Gap
  PROVE  /\ \A i \in 0..Top : Filled(i) => Filled(i)'
         /\ \A n \in 0..Top : Reaches(n)' => Reaches(n)
         /\ dir'[0] # 0
<1>0. Floor' = Floor /\ Promised' = Promised
  BY DEF Floor, Promised, Limit, KeepPromised, Writers
<1>1. /\ \A f \in 1..Len(files) : files'[f] = files[f]
      /\ \A f \in 1..Len(files') : f \notin 1..Len(files) => dir'[0] = f
      /\ dir[0] # 0 => files' = files /\ dir' = dir
      /\ Len(files') >= Len(files) /\ dir'[0] # 0
  BY Opened DEF TypesInv, Live
<1>2. \A i \in 0..Top : i # 0 => dir'[i] = dir[i]
  <2>1. CASE dir[0] # 0
    BY <1>1, <2>1
  <2>2. CASE dir[0] = 0
    BY <2>2 DEF Open, Live, TypesInv, Types
  <2> QED BY <2>1, <2>2
<1>3. dir \in [0..Top -> 0..Len(files)] /\ Len(files) \in Nat /\ Len(files') \in Nat
  <2>1. files \in Seq(Seq(Lines)) /\ files' \in Seq(Seq(Lines))
    BY Opened DEF TypesInv, Types
  <2>2. Len(files) \in Nat /\ Len(files') \in Nat
    BY <2>1
  <2> QED BY <2>2 DEF TypesInv, Types
<1>4. \A i \in 0..Top : dir[i] # 0 => dir'[i] = dir[i] /\ files'[dir[i]] = files[dir[i]]
  <2> SUFFICES ASSUME NEW i \in 0..Top, dir[i] # 0
               PROVE  dir'[i] = dir[i] /\ files'[dir[i]] = files[dir[i]]
    OBVIOUS
  <2>1. dir[i] \in 1..Len(files)
    BY <1>3
  <2> QED BY <1>1, <1>2, <2>1
<1>5. \A i \in 0..Top : Filled(i) => Filled(i)'
  BY <1>0, <1>4 DEF Filled
<1>6. Dropped' => Dropped
  <2> SUFFICES ASSUME NEW f \in 1..Len(files'), \A i \in 0..Top : dir'[i] # f PROVE Dropped
    BY DEF Dropped
  <2>1. f \in 1..Len(files)
    BY <1>1, Bounds
  <2>2. \A i \in 0..Top : dir[i] # f
    <3> SUFFICES ASSUME NEW i \in 0..Top, dir[i] = f PROVE FALSE
      OBVIOUS
    <3> QED BY <1>4, <2>1
  <2> QED BY <2>1, <2>2 DEF Dropped
<1>7. ASSUME NEW n \in 0..Top, Reaches(n)' PROVE Reaches(n)
  <2>1. Gap \in 0..Top /\ Top \in Nat
    BY GapIn, Bounds
  <2>2. CASE n <= (IF Gap > 0 THEN 1 ELSE 0)
    BY <2>2 DEF Reaches
  <2>3. CASE ~(n <= (IF Gap > 0 THEN 1 ELSE 0)) /\ n >= 1 /\ dir'[At(n)] # 0
    <3>1. At(n) \in 0..Top /\ At(n) # 0
      BY <2>1, <2>3 DEF At
    <3> QED BY <1>2, <2>3, <3>1 DEF Reaches
  <2>4. CASE Dropped' /\ n <= Promised' - 1
    BY <1>0, <1>6, <2>4 DEF Reaches
  <2>5. At(n)' = At(n)
    BY DEF At
  <2> QED BY <1>7, <2>2, <2>3, <2>4, <2>5 DEF Reaches
<1> QED BY <1>1, <1>5, <1>7

(* Holes that are those of another generation and one more.                *)
LEMMA OneMore ==
  ASSUME NEW S, IsFiniteSet(S), NEW x, NEW T, T \subseteq S \cup {x}
  PROVE  /\ IsFiniteSet(T) /\ Cardinality(T) \in Nat /\ Cardinality(S) \in Nat
         /\ Cardinality(T) <= Cardinality(S) + 1
<1>1. IsFiniteSet(S \cup {x}) /\ Cardinality(S \cup {x}) <= Cardinality(S) + 1 /\ Cardinality(S) \in Nat
  BY FS_AddElement, FS_CardinalityType, SMTT(20)
<1>2. IsFiniteSet(T) /\ Cardinality(T) <= Cardinality(S \cup {x})
  BY <1>1, FS_Subset
<1> QED BY <1>1, <1>2, FS_CardinalityType

(* Removing the oldest generation begins a rotation: the log counts from   *)

(* now on, and what stands below the free name is one more than it was.    *)
LEMMA SparseRemove ==
  ASSUME TypesInv, TypesInv', Sparse, Many, NEW p \in Writers, RemoveOldest(p)
  PROVE  Sparse' /\ (Gap' > 0 => dir'[Gap'] = 0)
<1> DEFINE g == Keep(p) - 1
<1>0. Top \in Nat /\ p \in Procs /\ Nobody \notin Procs
  BY Bounds, CastFacts DEF TypesInv, Types
<1>1. /\ lock = p /\ pc[p] = "remove" /\ pc' = [pc EXCEPT ![p] = "shift"]
      /\ next' = [next EXCEPT ![p] = Keep(p) - 2] /\ dir' = [dir EXCEPT ![Keep(p) - 1] = 0]
      /\ UNCHANGED <<cast, files, lock, kills>>
  BY <1>0 DEF RemoveOldest, Goto, TypesInv, Places, Rotates
<1>2. g \in 1..Top /\ Keep(p) \in Int
  BY <1>0, <1>1, CastFacts DEF TypesInv, Types, Places
<1>3. Phase = "remove" /\ Gap = 0 /\ Phase' = "shift" /\ Gap' = g
  <2>1. pc'[p] = "shift" /\ next'[p] = Keep(p) - 2
    BY <1>0, <1>1 DEF TypesInv, Types
  <2> QED BY <1>0, <1>1, <1>2, <2>1 DEF Phase, Gap
<1>4. \A i \in 0..Top : dir'[i] = IF i = g THEN 0 ELSE dir[i]
  BY <1>1, <1>2 DEF TypesInv, Types
<1>5. Floor' = Floor /\ Promised' = Promised /\ Promised \in Nat \ {0} /\ Promised - 1 <= g
  <2>1. Floor' = Floor /\ Promised' = Promised
    BY <1>1 DEF Floor, Promised, Limit, KeepPromised, Writers
  <2>2. Promised \in Nat \ {0} /\ Promised <= Keep(p)
    BY Floors DEF TypesInv, Types, Many
  <2> QED BY <1>2, <2>1, <2>2
<1> HIDE DEF g
<1>6. \A i \in 0..Top : i # g => (Filled(i)' <=> Filled(i))
  BY <1>1, <1>4, <1>5 DEF Filled
<1>7. Owed' = 0 /\ Owed = IF Filled(0) THEN 0 ELSE 1
  BY <1>3 DEF Owed, Missing
<1>8. Dropped' => Dropped \/ dir[g] # 0
  <2> SUFFICES ASSUME NEW f \in 1..Len(files), \A i \in 0..Top : dir'[i] # f, dir[g] = 0
               PROVE  \A i \in 0..Top : dir[i] # f
    BY <1>1 DEF Dropped
  <2> QED BY <1>4
<1>9. ASSUME NEW n \in 0..Top, Reaches(n)' PROVE Cardinality(Holes(n)') + Owed' <= kills'
  <2>1. kills \in Nat /\ kills' = kills
    BY <1>1 DEF TypesInv, Types
  <2>2. CASE n = 0
    <3>1. Holes(n)' = {}
      BY <1>2, <1>3, <2>2 DEF Holes, Slots
    <3> QED BY <1>7, <2>1, <3>1, FS_EmptySet
  <2>3. ASSUME NEW k \in 0..Top, Reaches(k), Holes(n)' \ {0} \subseteq Holes(k),
               0 \in Holes(n)' => ~Filled(0)
        PROVE  Cardinality(Holes(n)') + Owed' <= kills'
    <3>1. Cardinality(Holes(k)) + Owed <= kills /\ IsFiniteSet(Holes(k)) /\ Cardinality(Holes(k)) \in Nat
      BY <2>3, HolesIn DEF Sparse
    <3>2. CASE Filled(0)
      <4>1. Holes(n)' \subseteq Holes(k)
        BY <2>3, <3>2
      <4>2. Cardinality(Holes(n)') <= Cardinality(Holes(k)) /\ Cardinality(Holes(n)') \in Nat
        BY <3>1, <4>1, FS_Subset, FS_CardinalityType
      <4> QED BY <1>7, <2>1, <3>1, <3>2, <4>2
    <3>3. CASE ~Filled(0)
      <4>1. Holes(n)' \subseteq Holes(k) \cup {0}
        BY <2>3
      <4>2. Cardinality(Holes(n)') <= Cardinality(Holes(k)) + 1 /\ Cardinality(Holes(n)') \in Nat
        BY <3>1, <4>1, OneMore
      <4> QED BY <1>7, <2>1, <3>1, <3>3, <4>2
    <3> QED BY <3>2, <3>3
  <2>4. /\ 0 \in Holes(n)' => ~Filled(0)
        /\ \A k \in 0..Top : Slots(n)' \ {0} \subseteq Slots(k) => Holes(n)' \ {0} \subseteq Holes(k)
    <3>1. g \notin Slots(n)' /\ Slots(n)' \subseteq 0..Top
      BY <1>0, <1>2, <1>3 DEF Slots
    <3>2. \A i \in Slots(n)' : ~Filled(i)' => ~Filled(i)
      BY <1>6, <3>1
    <3> QED BY <3>2 DEF Holes
  <2>5. \A k \in 0..Top : Slots(k) = 1..k
    <3> SUFFICES ASSUME NEW k \in 0..Top PROVE Slots(k) = 1..k
      OBVIOUS
    <3>1. CASE k = 0
      BY <1>3, <3>1 DEF Slots
    <3>2. CASE k > 0
      <4>1. Slots(k) = (0..k) \ {0} /\ k \in Nat
        BY <1>0, <1>3, <3>2 DEF Slots
      <4> QED BY <4>1
    <3> QED BY <1>0, <3>1, <3>2
  <2>6. /\ n <= g => Slots(n)' \ {0} = 1..(n - 1)
        /\ n > g => Slots(n)' \ {0} \subseteq 1..n
    BY <1>0, <1>2, <1>3 DEF Slots
  <2>7. CASE n # 0 /\ n <= g /\ (n = 1 \/ dir'[n - 1] # 0 \/ (Dropped /\ n <= Promised - 1))
    <3>1. n - 1 \in 0..Top /\ n - 1 # g
      BY <1>0, <1>2, <2>7
    <3>2. Reaches(n - 1)
      <4>1. CASE n = 1
        BY <1>3, <4>1 DEF Reaches
      <4>2. CASE n # 1 /\ dir'[n - 1] # 0
        <5>1. dir[n - 1] # 0 /\ At(n - 1) = n - 1 /\ n - 1 >= 1
          BY <1>0, <1>3, <1>4, <2>7, <3>1, <4>2 DEF At
        <5> QED BY <5>1 DEF Reaches
      <4>3. CASE Dropped /\ n <= Promised - 1
        <5>1. n - 1 <= Promised - 1
          BY <1>5, <4>3
        <5> QED BY <4>3, <5>1 DEF Reaches
      <4> QED BY <2>7, <4>1, <4>2, <4>3
    <3>3. Slots(n)' \ {0} \subseteq Slots(n - 1)
      BY <2>5, <2>6, <2>7, <3>1
    <3> QED BY <2>3, <2>4, <3>1, <3>2, <3>3
  <2>8. CASE n > g
    <3>1. ~(n <= 1) /\ ~(n <= Promised' - 1) /\ At(n)' = n /\ n # g
      BY <1>0, <1>2, <1>3, <1>5, <2>8 DEF At
    <3>2. dir'[n] # 0
      BY <1>2, <1>3, <1>9, <3>1 DEF Reaches
    <3>3. Reaches(n)
      <4>1. dir[n] # 0 /\ At(n) = n /\ n >= 1
        BY <1>2, <1>3, <1>4, <3>1, <3>2 DEF At
      <4> QED BY <4>1 DEF Reaches
    <3>4. Slots(n)' \ {0} \subseteq Slots(n)
      BY <2>5, <2>6, <2>8
    <3> QED BY <2>3, <2>4, <3>3, <3>4
  <2>9. CASE n <= g /\ dir[g] # 0
    <3>1. g \in 0..Top /\ At(g) = g /\ g >= 1
      BY <1>2, <1>3 DEF At
    <3>2. Reaches(g)
      BY <2>9, <3>1 DEF Reaches
    <3>3. Slots(n)' \ {0} \subseteq Slots(g)
      BY <1>2, <2>5, <2>6, <2>9, <3>1
    <3> QED BY <2>3, <2>4, <3>1, <3>2, <3>3
  <2>10. n <= 1 \/ dir'[At(n)'] # 0 \/ (Dropped' /\ n <= Promised - 1)
    BY <1>2, <1>3, <1>5, <1>9 DEF Reaches
  <2>11. n <= g => At(n)' = n - 1
    BY <1>3 DEF At
  <2>12. CASE n <= g /\ n # 0
    BY <1>8, <2>7, <2>9, <2>10, <2>11, <2>12
  <2> QED BY <1>0, <1>2, <2>2, <2>8, <2>12
<1>10. Sparse'
  BY <1>9 DEF Sparse
<1> QED BY <1>2, <1>3, <1>4, <1>10

(* Moving a generation moves the free name below it: the holes go with it. *)
LEMMA SparseShift ==
  ASSUME TypesInv, TypesInv', Sparse, Begun, NEW p \in Writers, Shift(p)
  PROVE  Sparse' /\ (Gap' > 0 => dir'[Gap'] = 0)
<1>0. Top \in Nat /\ p \in Procs /\ Nobody \notin Procs
  BY Bounds, CastFacts DEF TypesInv, Types
<1>1. /\ lock = p /\ pc[p] = "shift" /\ next[p] \in 0..(Top - 1)
      /\ UNCHANGED <<cast, files, lock, kills>>
      /\ dir' = IF dir[next[p]] = 0 THEN dir ELSE [dir EXCEPT ![next[p]] = 0, ![next[p] + 1] = dir[next[p]]]
      /\ \/ next[p] = 0 /\ pc' = [pc EXCEPT ![p] = "reopen"] /\ next' = next
         \/ next[p] # 0 /\ next' = [next EXCEPT ![p] = next[p] - 1] /\ pc' = pc
  BY <1>0 DEF Shift, Goto, TypesInv, Places, Rotates
<1>2. PICK g \in 1..Top : next[p] = g - 1
  <2>1. next[p] + 1 \in 1..Top /\ next[p] = (next[p] + 1) - 1
    BY <1>0, <1>1
  <2> QED BY <2>1
<1>a. g \in 1..Top /\ g - 1 \in 0..Top /\ g \in 0..Top
  BY <1>0
<1>3. Phase = "shift" /\ Gap = g /\ Gap' = g - 1 /\ Phase' \in {"shift", "reopen"} /\ dir[g] = 0
  <2>1. Phase = "shift" /\ Gap = g
    BY <1>0, <1>1, <1>2, <1>a DEF Phase, Gap
  <2>2. dir[g] = 0
    BY <1>2, <1>a, <2>1 DEF Begun
  <2>3. CASE next[p] = 0
    <3>1. Phase' = "reopen"
      BY <1>0, <1>1, <2>3 DEF Phase, TypesInv, Types
    <3> QED BY <1>2, <1>a, <2>1, <2>2, <2>3, <3>1 DEF Gap
  <2>4. CASE next[p] # 0
    <3>1. Phase' = "shift" /\ next'[p] = next[p] - 1
      BY <1>0, <1>1, <2>4 DEF Phase, TypesInv, Types
    <3>2. Gap' = next[p] - 1 + 1
      BY <1>1, <3>1 DEF Gap
    <3> QED BY <1>2, <1>a, <2>1, <2>2, <3>1, <3>2
  <2> QED BY <2>3, <2>4
<1>4. \A i \in 0..Top : dir'[i] = IF i = g THEN dir[g - 1] ELSE IF i = g - 1 THEN 0 ELSE dir[i]
  <2>1. dir' = IF dir[g - 1] = 0 THEN dir ELSE [dir EXCEPT ![g - 1] = 0, ![g] = dir[g - 1]]
    <3>1. next[p] + 1 = g
      BY <1>2, <1>a
    <3> QED BY <1>1, <1>2, <3>1
  <2>2. dir[g] = 0 /\ DOMAIN dir = 0..Top /\ g - 1 # g
    BY <1>a, <1>3 DEF TypesInv, Types
  <2>3. CASE dir[g - 1] = 0
    BY <2>1, <2>2, <2>3
  <2>4. CASE dir[g - 1] # 0
    BY <1>a, <2>1, <2>2, <2>4 DEF TypesInv, Types
  <2> QED BY <2>3, <2>4
<1>5. Floor' = Floor /\ Promised' = Promised
  BY <1>1 DEF Floor, Promised, Limit, KeepPromised, Writers
<1>6. /\ Filled(g)' <=> Filled(g - 1)
      /\ ~Filled(g)
      /\ \A i \in 0..Top : i # g /\ i # g - 1 => (Filled(i)' <=> Filled(i))
  <2>1. \A i \in 0..Top : i # g /\ i # g - 1 => dir'[i] = dir[i]
    BY <1>4
  <2>2. dir'[g] = dir[g - 1]
    BY <1>a, <1>4
  <2> QED BY <1>1, <1>3, <1>5, <2>1, <2>2 DEF Filled
<1>7. Owed' = 0 /\ Owed = 0
  BY <1>3 DEF Owed, Missing
<1>8. Dropped' => Dropped
  <2> SUFFICES ASSUME NEW f \in 1..Len(files), \A i \in 0..Top : dir'[i] # f, NEW j \in 0..Top, dir[j] = f
               PROVE  FALSE
    BY <1>1 DEF Dropped
  <2>1. files \in Seq(Seq(Lines))
    BY DEF TypesInv, Types
  <2>2. f # 0
    BY <2>1
  <2>3. j # g
    BY <1>3, <2>2
  <2>4. dir'[g] # f /\ dir'[j] # f
    BY <1>a
  <2> QED BY <1>a, <1>4, <2>3, <2>4
<1>9. ASSUME NEW n \in 0..Top, Reaches(n)' PROVE Reaches(n)
  <2>1. CASE n <= 1
    BY <1>a, <1>3, <2>1 DEF Reaches
  <2>2. CASE n > 1 /\ dir'[At(n)'] # 0
    <3>1. CASE n <= g - 1
      <4>1. At(n)' = n - 1 /\ At(n) = n - 1 /\ n - 1 \in 0..Top /\ n - 1 # g /\ n - 1 # g - 1
        BY <1>0, <1>a, <1>3, <3>1, <2>2 DEF At
      <4> QED BY <1>4, <2>2, <4>1 DEF Reaches
    <3>2. CASE n = g
      <4>1. At(n)' = g /\ At(n) = g - 1
        BY <1>a, <1>3, <3>2 DEF At
      <4> QED BY <1>a, <1>4, <2>2, <4>1 DEF Reaches
    <3>3. CASE n > g
      <4>1. At(n)' = n /\ At(n) = n /\ n # g /\ n # g - 1
        BY <1>0, <1>a, <1>3, <3>3 DEF At
      <4> QED BY <1>4, <2>2, <4>1 DEF Reaches
    <3> QED BY <1>a, <3>1, <3>2, <3>3
  <2>3. CASE Dropped' /\ n <= Promised' - 1
    BY <1>5, <1>8, <2>3 DEF Reaches
  <2>4. n <= 1 \/ dir'[At(n)'] # 0 \/ (Dropped' /\ n <= Promised' - 1)
    BY <1>a, <1>3, <1>9 DEF Reaches
  <2> QED BY <2>1, <2>2, <2>3, <2>4
<1>10. ASSUME NEW n \in 0..Top, Reaches(n)' PROVE Cardinality(Holes(n)') + Owed' <= kills'
  <2>1. kills \in Nat /\ kills' = kills /\ Cardinality(Holes(n)) + Owed <= kills
          /\ IsFiniteSet(Holes(n)) /\ Cardinality(Holes(n)) \in Nat
    BY <1>1, <1>9, <1>10, HolesIn DEF TypesInv, Types, Sparse
  <2>2. CASE n <= g - 1
    <3>1. Slots(n)' = Slots(n) /\ \A i \in Slots(n) : i \in 0..Top /\ i # g /\ i # g - 1
      BY <1>0, <1>a, <1>3, <2>2 DEF Slots
    <3>2. Holes(n)' \subseteq Holes(n)
      BY <1>6, <1>a, <3>1 DEF Holes
    <3>3. Cardinality(Holes(n)') <= Cardinality(Holes(n)) /\ Cardinality(Holes(n)') \in Nat
      BY <2>1, <3>2, FS_Subset, FS_CardinalityType
    <3> QED BY <1>7, <2>1, <3>3
  <2>3. CASE n >= g
    <3>1. Slots(n)' = (0..n) \ {g - 1} /\ Slots(n) = (0..n) \ {g} /\ g - 1 \in Slots(n)
      <4>1. Slots(n)' = (0..n) \ {g - 1}
        BY <1>0, <1>a, <1>3, <2>3 DEF Slots
      <4>2. Slots(n) = (0..n) \ {g}
        BY <1>0, <1>a, <1>3, <2>3 DEF Slots
      <4> QED BY <1>a, <2>3, <4>1, <4>2
    <3>2. \A i \in 0..n : i \in 0..Top
      BY <1>0
    <3>3. Holes(n)' \ {g} \subseteq Holes(n) \ {g - 1}
      BY <1>6, <3>1, <3>2 DEF Holes
    <3>4. g \in Holes(n)' => g - 1 \in Holes(n)
      BY <1>6, <1>a, <3>1 DEF Holes
    <3>5. CASE g - 1 \notin Holes(n)
      <4>1. Holes(n)' \subseteq Holes(n)
        BY <3>3, <3>4, <3>5
      <4>2. Cardinality(Holes(n)') <= Cardinality(Holes(n)) /\ Cardinality(Holes(n)') \in Nat
        BY <2>1, <4>1, FS_Subset, FS_CardinalityType
      <4> QED BY <1>7, <2>1, <4>2
    <3>6. CASE g - 1 \in Holes(n)
      <4> DEFINE R == Holes(n) \ {g - 1}
      <4>1. Holes(n)' \subseteq R \cup {g}
        BY <3>3
      <4>2. IsFiniteSet(R) /\ Cardinality(R) = Cardinality(Holes(n)) - 1
        BY <2>1, <3>6, FS_RemoveElement
      <4> HIDE DEF R
      <4>3. Cardinality(Holes(n)') <= Cardinality(R) + 1 /\ Cardinality(Holes(n)') \in Nat
        BY <4>1, <4>2, OneMore
      <4> QED BY <1>7, <2>1, <4>2, <4>3
    <3> QED BY <3>5, <3>6
  <2> QED BY <1>0, <1>a, <2>2, <2>3
<1>11. Sparse'
  BY <1>10 DEF Sparse
<1>12. Gap' > 0 => dir'[Gap'] = 0
  BY <1>a, <1>3, <1>4
<1> QED BY <1>11, <1>12

(* A process killed while it moves the generations leaves a name free, and *)

(* the log may be missing: one hole, and one more that it was already.     *)
LEMMA SparseKill ==
  ASSUME TypesInv, TypesInv', Sparse, Begun, NEW p \in Writers, Kill(p), lock = p, pc[p] = "shift"
  PROVE  Sparse' /\ Gap' = 0
<1> DEFINE g == Gap
<1>0. Top \in Nat /\ p \in Procs /\ Nobody \notin Procs
  BY Bounds, CastFacts DEF TypesInv, Types
<1>1. /\ kills' = kills + 1 /\ kills \in Nat /\ lock' = Nobody
      /\ UNCHANGED <<cast, dir, files>>
  BY DEF Kill, fileVars, TypesInv, Types
<1>2. Phase = "shift" /\ Phase' = "none" /\ g \in 1..Top /\ Gap' = 0 /\ dir[g] = 0
  <2>1. Phase = "shift" /\ Phase' = "none"
    BY <1>0, <1>1 DEF Phase
  <2>2. g \in 1..Top /\ Gap' = 0
    BY <2>1, GapIn DEF Gap
  <2> QED BY <2>1, <2>2 DEF Begun
<1>3. Floor' = Floor /\ Promised' = Promised /\ Dropped' = Dropped
  BY <1>1 DEF Floor, Promised, Limit, KeepPromised, Writers, Dropped
<1>4. \A i : Filled(i)' <=> Filled(i)
  BY <1>1, <1>3 DEF Filled
<1>5. Owed = 0 /\ Owed' = IF files # <<>> /\ dir[0] = 0 THEN 1 ELSE 0
  BY <1>1, <1>2 DEF Owed, Missing
<1>6. \A n \in 0..Top : Slots(n)' = 1..n
  <2> SUFFICES ASSUME NEW n \in 0..Top PROVE Slots(n)' = 1..n
    OBVIOUS
  <2>1. CASE n = 0
    BY <1>2, <2>1 DEF Slots
  <2>2. CASE n > 0
    <3>1. Slots(n)' = (0..n) \ {0} /\ n \in Nat
      BY <1>0, <1>2, <2>2 DEF Slots
    <3> QED BY <3>1
  <2> QED BY <1>0, <2>1, <2>2
<1> SUFFICES ASSUME NEW n \in 0..Top, Reaches(n)' PROVE Cardinality(Holes(n)') + Owed' <= kills'
  BY <1>2 DEF Sparse
<1> HIDE DEF g
<1>7. CASE n = 0
  <2>1. Holes(n)' = {}
    BY <1>6, <1>7 DEF Holes
  <2>2. Cardinality(Holes(n)') = 0
    BY <2>1, FS_EmptySet
  <2> QED BY <1>1, <1>5, <2>2
<1>8. ASSUME NEW k \in 1..Top, NEW x, Reaches(k), 0 \in Slots(k),
             Slots(n)' \subseteq (Slots(k) \ {0}) \cup {x}
      PROVE  Cardinality(Holes(n)') + Owed' <= kills'
  <2> DEFINE R == Holes(k) \ {0}
  <2>1. Cardinality(Holes(k)) + Owed <= kills /\ IsFiniteSet(Holes(k)) /\ Cardinality(Holes(k)) \in Nat
    BY <1>0, <1>8, HolesIn DEF Sparse
  <2>2. Holes(n)' \subseteq R \cup {x}
    BY <1>4, <1>8 DEF Holes
  <2>3. IsFiniteSet(R) /\ Cardinality(R) \in Nat /\ Cardinality(R) + Owed' <= Cardinality(Holes(k))
    <3>1. IsFiniteSet(R) /\ Cardinality(R) = IF 0 \in Holes(k) THEN Cardinality(Holes(k)) - 1 ELSE Cardinality(Holes(k))
      BY <2>1, FS_RemoveElement
    <3>2. dir[0] = 0 => 0 \in Holes(k)
      BY <1>8 DEF Holes, Filled
    <3>3. Cardinality(R) \in Nat
      BY <3>1, FS_CardinalityType
    <3> HIDE DEF R
    <3> QED BY <1>5, <2>1, <3>1, <3>2, <3>3
  <2> HIDE DEF R
  <2>4. Cardinality(Holes(n)') <= Cardinality(R) + 1 /\ Cardinality(Holes(n)') \in Nat
    BY <2>2, <2>3, OneMore
  <2> QED BY <1>1, <1>5, <2>1, <2>3, <2>4
<1>9. /\ \A k \in 1..Top : 0 \in Slots(k)
      /\ \A k \in 1..Top : k > g => Slots(k) = (0..k) \ {g}
      /\ \A k \in 1..Top : k <= g => Slots(k) = 0..(k - 1)
  <2>1. \A k \in 1..Top : k > g => Slots(k) = (0..k) \ {g}
    BY <1>0, <1>2 DEF Slots, g
  <2>2. \A k \in 1..Top : k <= g => Slots(k) = 0..(k - 1)
    BY <1>0, <1>2 DEF Slots, g
  <2> QED BY <1>0, <1>2, <2>1, <2>2
<1>10. CASE n # 0 /\ Dropped /\ n <= Promised - 1
  <2>1. n \in 1..Top /\ Reaches(n)
    BY <1>0, <1>10 DEF Reaches
  <2>2. CASE n > g
    <3>1. Slots(n)' \subseteq (Slots(n) \ {0}) \cup {g}
      BY <1>0, <1>6, <1>9, <2>1, <2>2
    <3> QED BY <1>8, <1>9, <2>1, <3>1
  <2>3. CASE n <= g
    <3>1. Slots(n)' \subseteq (Slots(n) \ {0}) \cup {n}
      BY <1>0, <1>6, <1>9, <2>1, <2>3
    <3> QED BY <1>8, <1>9, <2>1, <3>1
  <2> QED BY <1>0, <1>2, <2>2, <2>3
<1>11. CASE n # 0 /\ dir[n] # 0
  <2>1. n \in 1..Top /\ n # g
    BY <1>0, <1>2, <1>11
  <2>2. CASE n > g
    <3>1. At(n) = n /\ n >= 1
      BY <1>0, <1>2, <2>1, <2>2 DEF At, g
    <3>2. Reaches(n)
      BY <1>11, <3>1 DEF Reaches
    <3>3. Slots(n)' \subseteq (Slots(n) \ {0}) \cup {g}
      BY <1>0, <1>6, <1>9, <2>1, <2>2
    <3> QED BY <1>8, <1>9, <2>1, <3>2, <3>3
  <2>3. CASE n < g
    <3>1. n + 1 \in 1..Top /\ n + 1 <= g /\ At(n + 1) = n /\ n + 1 >= 1
      BY <1>0, <1>2, <2>1, <2>3 DEF At, g
    <3>2. Reaches(n + 1)
      BY <1>11, <3>1 DEF Reaches
    <3>3. Slots(n)' \subseteq (Slots(n + 1) \ {0}) \cup {n}
      BY <1>0, <1>6, <1>9, <2>1, <3>1
    <3> QED BY <1>8, <1>9, <3>1, <3>2, <3>3
  <2> QED BY <1>0, <1>2, <2>1, <2>2, <2>3
<1>12. n = 0 \/ dir[n] # 0 \/ (Dropped /\ n <= Promised - 1)
  <2>1. n # 0 => At(n)' = n
    BY <1>0, <1>2 DEF At
  <2>2. n <= 0 \/ dir'[At(n)'] # 0 \/ (Dropped' /\ n <= Promised' - 1)
    BY <1>2 DEF Reaches
  <2>3. dir' = dir
    BY <1>1
  <2> QED BY <1>0, <1>3, <2>1, <2>2, <2>3
<1> QED BY <1>7, <1>10, <1>11, <1>12

(* What a step leaves alone of the rotation it is not part of.             *)
LEMMA BegunKept ==
  ASSUME TypesInv, Begun, cast' = cast, Gap' = Gap, NEW p \in Procs,
         files # <<>> => files' # <<>>, Gap > 0 => dir'[Gap] = dir[Gap],
         \A q \in Procs \ {p} : pc'[q] = pc[q] /\ (lock' = q => lock = q),
         pc'[p] = "lock" \/ lock' = p => files' # <<>>,
         pc'[p] # "truncate"
  PROVE  Begun'
<1>1. Writers' = Writers /\ Writers \subseteq Procs
  BY CastFacts DEF Writers, TypesInv, Types
<1>2. \A q \in Writers : (pc'[q] = "lock" \/ lock' = q => files' # <<>>) /\ pc'[q] # "truncate"
  BY <1>1 DEF Begun
<1>3. Gap' > 0 => dir'[Gap'] = 0
  BY DEF Begun
<1> QED BY <1>1, <1>2, <1>3 DEF Begun

(* A log is never without files again.                                     *)
LEMMA FilesStay ==
  ASSUME files \in Seq(Seq(Lines)), files' \in Seq(Seq(Lines)), Len(files') >= Len(files)
  PROVE  files # <<>> => files' # <<>>
<1>1. Len(files) \in Nat /\ Len(files') \in Nat /\ (files # <<>> => Len(files) > 0)
  OBVIOUS
<1> QED BY <1>1

(* Every step of a process but the moves of a rotation keeps what was said *)

(* of it: it leaves the names and files, opens the log or adds a line.     *)
LEMMA QuietHistory ==
  ASSUME TypesInv, TypesInv', Many, Sparse, Begun, NEW p \in Writers,
         \/ SeedCounts(p) \/ Backfill(p) \/ RotateIfNeeded(p) \/ AcquireLock(p)
         \/ CheckAgain(p) \/ Tally(p) \/ Close(p) \/ Restart(p)
         \/ Kill(p) /\ ~(lock = p /\ pc[p] = "shift")
         \/ EnsureOpen(p) /\ fd[p] # 0
  PROVE  Sparse' /\ Begun'
<1> USE DEF Goto, fileVars, procVars, countVars, readVars
<1>0. p \in Procs /\ Nobody \notin Procs /\ pc \in [Procs -> Labels] /\ kills \in Nat
        /\ files \in Seq(Seq(Lines)) /\ lock \in Procs \cup {Nobody}
  BY Bounds, CastFacts DEF TypesInv, Types
<1>1. Rotates(p) <=> lock = p
  BY <1>0 DEF TypesInv, Places
<1>2. ASSUME UNCHANGED <<cast, dir, files>>, kills' >= kills, Gap' = Gap, Missing' => Missing \/ kills' > kills,
             \A q \in Procs \ {p} : pc'[q] = pc[q] /\ (lock' = q => lock = q),
             pc'[p] = "lock" \/ lock' = p => files # <<>>, pc'[p] # "truncate"
      PROVE  Sparse' /\ Begun'
  <2>1. Sparse'
    BY <1>2, NamesKept, Eased
  <2>2. Begun'
    BY <1>0, <1>2, BegunKept
  <2> QED BY <2>1, <2>2
<1>3. ASSUME UNCHANGED <<cast, dir, files, lock>>, lock # p, kills' >= kills,
             \A q \in Procs \ {p} : pc'[q] = pc[q] /\ next'[q] = next[q],
             pc'[p] = "lock" => files # <<>>, pc'[p] # "truncate"
      PROVE  Sparse' /\ Begun'
  <2>1. Phase' = Phase /\ Gap' = Gap
    BY <1>0, <1>3, PhaseKept
  <2>2. Filled(0)' = Filled(0)
    BY <1>3 DEF Filled, Floor, Limit, Writers
  <2>3. Missing' = Missing
    BY <1>3, <2>1, <2>2 DEF Missing
  <2> QED BY <1>2, <1>3, <2>1, <2>3
<1>4. CASE SeedCounts(p) \/ Backfill(p) \/ Tally(p) \/ Close(p) \/ Restart(p) \/ (EnsureOpen(p) /\ fd[p] # 0)
  <2>1. UNCHANGED <<cast, dir, files, lock, next, kills>> /\ ~Rotates(p)
    BY <1>4 DEF SeedCounts, Backfill, Tally, Close, Restart, EnsureOpen, Rotates
  <2>2. /\ \A q \in Procs \ {p} : pc'[q] = pc[q]
        /\ pc'[p] \in {"idle", "backfill", "done", "seed", "check"}
    BY <1>0, <1>4 DEF SeedCounts, Backfill, Tally, Close, Restart, EnsureOpen
  <2> QED BY <1>0, <1>1, <1>3, <2>1, <2>2
<1>5. CASE RotateIfNeeded(p)
  <2>1. UNCHANGED <<cast, dir, files, lock, next, kills>> /\ pc[p] = "check" /\ ~Rotates(p)
    BY <1>5 DEF RotateIfNeeded, Rotates
  <2>2. (\A q \in Procs \ {p} : pc'[q] = pc[q]) /\ pc'[p] \in {"follow", "lock", "write"}
    BY <1>0, <1>5 DEF RotateIfNeeded
  <2>3. files # <<>>
    <3>1. fd[p] # 0 /\ fd[p] \in 0..Len(files)
      BY <1>0, <2>1 DEF TypesInv, Types, Places
    <3>2. Len(files) # 0
      BY <1>0, <3>1
    <3> QED BY <1>0, <3>2
  <2> QED BY <1>0, <1>1, <1>3, <2>1, <2>2, <2>3
<1>6. CASE AcquireLock(p)
  <2>1. /\ UNCHANGED <<cast, dir, files, next, kills>> /\ pc[p] = "lock" /\ lock = Nobody /\ lock' = p
        /\ pc' = [pc EXCEPT ![p] = "again"]
    BY <1>6 DEF AcquireLock
  <2>2. (\A q \in Procs \ {p} : pc'[q] = pc[q]) /\ pc'[p] = "again"
    BY <1>0, <2>1
  <2>3. Phase = "none" /\ Phase' = "again"
    BY <1>0, <2>1, <2>2 DEF Phase
  <2>4. Gap' = Gap /\ Missing' = Missing
    BY <2>1, <2>3 DEF Gap, Missing
  <2>5. files # <<>>
    BY <2>1 DEF Begun
  <2> QED BY <1>0, <1>2, <2>1, <2>2, <2>4, <2>5
<1>7. CASE CheckAgain(p)
  <2>1. /\ UNCHANGED <<cast, dir, files, lock, next, kills>> /\ pc[p] = "again" /\ lock = p
        /\ Keep(p) \in Int /\ Keep(p) > 1
        /\ pc' = [pc EXCEPT ![p] = IF Rotated(p) THEN "reopen" ELSE IF Keep(p) <= 1 THEN "truncate" ELSE "remove"]
    BY <1>1, <1>7, CastFacts DEF CheckAgain, Rotates, Many, TypesInv, Types
  <2>2. (\A q \in Procs \ {p} : pc'[q] = pc[q]) /\ pc'[p] = IF Rotated(p) THEN "reopen" ELSE "remove"
    BY <1>0, <2>1
  <2>3. Phase = "again" /\ Phase' = (IF Rotated(p) THEN "reopen" ELSE "remove")
    BY <1>0, <2>1, <2>2 DEF Phase
  <2>4. Gap' = Gap
    BY <2>3 DEF Gap
  <2>5. files # <<>>
    BY <2>1 DEF Begun
  <2>6. Missing' => Missing
    <3>1. CASE Rotated(p)
      BY <2>1, <2>3, <3>1 DEF Missing, Rotated, Live
    <3>2. CASE ~Rotated(p) /\ dir[0] = 0
      BY <2>3, <2>5, <3>2 DEF Missing
    <3>3. CASE ~Rotated(p) /\ dir[0] # 0
      <4>1. Len(files[dir[0]]) >= Limit(p)
        BY <3>3 DEF Rotated, Full, Size, Live
      <4>2. Floor \in Nat \ {0} /\ Floor <= Limit(p) /\ Limit(p) \in Nat \ {0}
        BY Floors, CastFacts DEF TypesInv, Types
      <4>3. Len(files[dir[0]]) \in Nat
        <5>1. dir[0] \in 1..Len(files)
          BY <3>3, Bounds DEF TypesInv, Types
        <5>2. files[dir[0]] \in Seq(Lines)
          BY <1>0, <5>1
        <5> QED BY <5>2
      <4>4. Filled(0)
        BY <3>3, <4>1, <4>2, <4>3 DEF Filled
      <4>5. Floor' = Floor
        BY <2>1 DEF Floor, Limit, Writers
      <4>6. Filled(0)'
        BY <2>1, <4>4, <4>5 DEF Filled
      <4> QED BY <2>3, <3>3, <4>6 DEF Missing
    <3> QED BY <3>1, <3>2, <3>3
  <2> QED BY <1>0, <1>2, <2>1, <2>2, <2>4, <2>5, <2>6
<1>8. CASE Kill(p) /\ ~(lock = p /\ pc[p] = "shift")
  <2>1. /\ UNCHANGED <<cast, dir, files, next>> /\ kills' = kills + 1
        /\ pc' = [pc EXCEPT ![p] = "dead"] /\ lock' = IF lock = p THEN Nobody ELSE lock
    BY <1>8 DEF Kill
  <2>2. (\A q \in Procs \ {p} : pc'[q] = pc[q]) /\ pc'[p] = "dead" /\ kills' > kills
    BY <1>0, <2>1
  <2>3. CASE lock # p
    BY <1>0, <1>3, <2>1, <2>2, <2>3
  <2>4. CASE lock = p
    <3>1. Phase # "shift" /\ Phase' = "none"
      BY <1>0, <1>8, <2>1, <2>4 DEF Phase
    <3>2. Gap' = Gap
      BY <3>1 DEF Gap
    <3> QED BY <1>0, <1>2, <2>1, <2>2, <2>4, <3>2
  <2> QED BY <2>3, <2>4
<1> QED BY <1>4, <1>5, <1>6, <1>7, <1>8

(* Opening the log keeps it too, under the lock or not.                    *)
LEMMA OpenHistory ==
  ASSUME TypesInv, TypesInv', Sparse, Begun, NEW p \in Writers,
         \/ EnsureOpen(p) /\ fd[p] = 0
         \/ Reopen(p) \/ ReopenLocked(p)
  PROVE  Sparse' /\ Begun'
<1> USE DEF Goto
<1>0. p \in Procs /\ Nobody \notin Procs /\ pc \in [Procs -> Labels] /\ kills \in Nat
        /\ files \in Seq(Seq(Lines)) /\ lock \in Procs \cup {Nobody}
        /\ files' \in Seq(Seq(Lines)) /\ dir' \in [0..Top -> 0..Len(files')]
  BY Bounds, CastFacts DEF TypesInv, Types
<1>1. Rotates(p) <=> lock = p
  BY <1>0 DEF TypesInv, Places
<1>2. Open(p) /\ cast' = cast /\ kills' = kills /\ next' = next
        /\ (\A q \in Procs \ {p} : pc'[q] = pc[q]) /\ pc'[p] \in {"check", "write"}
  BY <1>0 DEF EnsureOpen, Reopen, ReopenLocked
<1>3. Len(files') >= Len(files) /\ Live' # 0
  BY <1>0, <1>2, Opened DEF TypesInv
<1>4. files # <<>> => files' # <<>>
  BY <1>0, <1>3, FilesStay
<1>5. \/ lock' = lock /\ lock # p /\ Phase' = Phase /\ Gap' = Gap
      \/ lock' = Nobody /\ lock = p /\ Phase = "reopen" /\ Phase' = "none" /\ Gap' = Gap
  <2>1. CASE ReopenLocked(p)
    <3>1. lock' = Nobody /\ pc[p] = "reopen" /\ lock = p
      BY <1>1, <2>1 DEF ReopenLocked, Rotates
    <3> QED BY <1>0, <3>1 DEF Phase, Gap
  <2>2. CASE EnsureOpen(p) \/ Reopen(p)
    <3>1. lock' = lock /\ ~Rotates(p)
      BY <2>2 DEF EnsureOpen, Reopen, Rotates
    <3> QED BY <1>0, <1>1, <1>2, <3>1, PhaseKept
  <2> QED BY <2>1, <2>2
<1>6. /\ \A i \in 0..Top : Filled(i) => Filled(i)'
      /\ \A n \in 0..Top : Reaches(n)' => Reaches(n)
  BY <1>0, <1>2, <1>5, OpenKept
<1>7. Missing' => Missing
  <2>1. dir'[0] # 0 /\ (Filled(0) => Filled(0)')
    BY <1>3, <1>6, Bounds DEF Live
  <2>2. Missing' => Phase' = "remove" /\ ~Filled(0)'
    BY <2>1 DEF Missing
  <2> QED BY <1>5, <2>1, <2>2 DEF Missing
<1>8. Sparse'
  BY <1>0, <1>2, <1>5, <1>6, <1>7, Eased
<1>9. Gap > 0 => dir'[Gap] = dir[Gap]
  <2>1. Gap \in 0..Top
    BY GapIn
  <2>2. CASE Live # 0
    BY <1>2, <2>2 DEF Open, fileVars
  <2>3. CASE Live = 0
    <3>1. dir' = [dir EXCEPT ![0] = Len(files) + 1]
      BY <1>2, <2>3 DEF Open
    <3> QED BY <2>1, <3>1 DEF TypesInv, Types
  <2> QED BY <2>2, <2>3
<1>10. Begun'
  <2>1. \A q \in Procs \ {p} : pc'[q] = pc[q] /\ (lock' = q => lock = q)
    BY <1>0, <1>2, <1>5
  <2>2. pc'[p] # "lock" /\ lock' # p /\ pc'[p] # "truncate"
    BY <1>0, <1>2, <1>5
  <2> QED BY <1>0, <1>2, <1>4, <1>5, <1>9, <2>1, <2>2, BegunKept
<1> QED BY <1>8, <1>10

(* A line that is written makes a file longer.                             *)
LEMMA WriteHistory ==
  ASSUME TypesInv, TypesInv', Sparse, Begun, NEW p \in Writers, Write(p)
  PROVE  Sparse' /\ Begun'
<1>0. p \in Procs /\ Nobody \notin Procs /\ pc \in [Procs -> Labels] /\ kills \in Nat
        /\ files \in Seq(Seq(Lines)) /\ lock \in Procs \cup {Nobody}
        /\ files' \in Seq(Seq(Lines)) /\ fd[p] \in 1..Len(files) /\ written[p] \in Nat
  BY Bounds, CastFacts DEF TypesInv, Types, Places, Write
<1>1. UNCHANGED <<cast, dir, lock, next, kills>> /\ ~Rotates(p) /\ lock # p
        /\ files' = [files EXCEPT ![fd[p]] = Append(files[fd[p]], <<p, written[p] + 1>>)]
        /\ (\A q \in Procs \ {p} : pc'[q] = pc[q]) /\ pc'[p] \in {"tally", "idle"}
  BY <1>0 DEF Write, Goto, Rotates, TypesInv, Places
<1>2. Phase' = Phase /\ Gap' = Gap
  BY <1>0, <1>1, PhaseKept
<1>3. /\ Len(files') = Len(files) /\ Len(files) \in Nat
      /\ \A f \in 1..Len(files) : Len(files'[f]) >= Len(files[f]) /\ Len(files[f]) \in Nat
                                    /\ Len(files'[f]) \in Nat
  <2> DEFINE old == files[fd[p]]
             new == Append(files[fd[p]], <<p, written[p] + 1>>)
  <2>1. old \in Seq(Lines) /\ <<p, written[p] + 1>> \in Lines
    BY <1>0 DEF Lines
  <2>2. new \in Seq(Lines) /\ Len(new) = Len(old) + 1 /\ Len(old) \in Nat
    BY <2>1, Appended
  <2>3. files' = [files EXCEPT ![fd[p]] = new]
    BY <1>1
  <2> HIDE DEF new
  <2>4. Len(files') = Len(files) /\ \A f \in 1..Len(files) : files'[f] = IF f = fd[p] THEN new ELSE files[f]
    BY <1>0, <2>2, <2>3, Replaced
  <2>5. \A f \in 1..Len(files) : Len(files[f]) \in Nat
    BY <1>0
  <2>6. Len(files) \in Nat
    BY <1>0
  <2>7. ASSUME NEW f \in 1..Len(files)
        PROVE  Len(files'[f]) >= Len(files[f]) /\ Len(files[f]) \in Nat /\ Len(files'[f]) \in Nat
    <3>1. CASE f = fd[p]
      <4>1. files'[f] = new /\ files[f] = old
        BY <2>4, <3>1
      <4> HIDE DEF old
      <4> QED BY <2>2, <4>1
    <3>2. CASE f # fd[p]
      <4>1. files'[f] = files[f] /\ Len(files[f]) \in Nat
        BY <2>4, <2>5, <3>2
      <4> QED BY <4>1
    <3> QED BY <3>1, <3>2
  <2> QED BY <2>4, <2>6, <2>7
<1>4. Floor' = Floor /\ Promised' = Promised /\ Dropped' = Dropped
  BY <1>1, <1>3 DEF Floor, Promised, Limit, KeepPromised, Writers, Dropped
<1>5. \A i \in 0..Top : Filled(i) => Filled(i)'
  <2> SUFFICES ASSUME NEW i \in 0..Top, Filled(i) PROVE Filled(i)'
    OBVIOUS
  <2>1. dir[i] \in 1..Len(files)
    <3>1. dir[i] \in 0..Len(files) /\ dir[i] # 0
      BY DEF Filled, TypesInv, Types
    <3> QED BY <1>3, <3>1
  <2>2. Floor \in Nat
    BY Floors DEF TypesInv, Types
  <2>3. Len(files'[dir[i]]) >= Floor
    BY <1>3, <2>1, <2>2 DEF Filled
  <2> QED BY <1>1, <1>4, <2>1, <2>3 DEF Filled
<1>6. \A n \in 0..Top : Reaches(n)' => Reaches(n)
  BY <1>1, <1>2, <1>4 DEF Reaches, At
<1>7. files # <<>>
  BY <1>0
<1>8. files' # <<>>
  BY <1>0, <1>3, <1>7, FilesStay
<1>9. Missing' => Missing
  BY <1>1, <1>2, <1>5, <1>7, Bounds DEF Missing
<1>10. Sparse'
  BY <1>0, <1>1, <1>2, <1>5, <1>6, <1>9, Eased
<1>11. Begun'
  BY <1>0, <1>1, <1>2, <1>8, BegunKept
<1> QED BY <1>10, <1>11

(* Every step keeps the generations full, but for one hole for each kill.  *)
LEMMA SparseNext ==
  ASSUME TypesInv, TypesInv', Many, Sparse, Begun, [Next]_vars
  PROVE  Sparse' /\ Begun'
<1> USE DEF fileVars, procVars, countVars, readVars
<1>1. ASSUME UNCHANGED <<cast, dir, files, lock, pc, next, kills>> PROVE Sparse' /\ Begun'
  <2>1. Phase' = Phase /\ Gap' = Gap
    BY <1>1 DEF Phase, Gap
  <2>2. Filled(0)' = Filled(0)
    BY <1>1 DEF Filled, Floor, Limit, Writers
  <2>3. Missing' = Missing
    BY <1>1, <2>1, <2>2 DEF Missing
  <2>4. kills \in Nat
    BY DEF TypesInv, Types
  <2>5. Sparse'
    BY <1>1, <2>1, <2>3, <2>4, NamesKept, Eased
  <2> QED BY <1>1, <2>1, <2>5 DEF Begun, Writers
<1>2. CASE UNCHANGED vars
  BY <1>1, <1>2 DEF vars
<1>3. CASE History \/ Poll \/ SeedBridge \/ BridgeSize \/ BridgeRead
  BY <1>1, <1>3 DEF History, Poll, SeedBridge, BridgeSize, BridgeRead
<1>4. ASSUME NEW p \in Writers, Step(p) \/ Kill(p) \/ Restart(p) PROVE Sparse' /\ Begun'
  <2>0. p \in Procs /\ Nobody \notin Procs /\ pc \in [Procs -> Labels]
          /\ (Rotates(p) <=> lock = p) /\ lock \in Procs \cup {Nobody}
    BY Bounds, CastFacts DEF TypesInv, Types, Places
  <2>1. CASE RemoveOldest(p) \/ Shift(p)
    <3>1. Sparse' /\ (Gap' > 0 => dir'[Gap'] = 0)
      BY <2>1, SparseRemove, SparseShift
    <3>2. /\ UNCHANGED <<cast, files, lock>> /\ pc[p] \in {"remove", "shift"}
          /\ pc'[p] \in {"shift", "reopen"} /\ \A q \in Procs \ {p} : pc'[q] = pc[q]
      BY <2>0, <2>1 DEF RemoveOldest, Shift, Goto
    <3>3. Writers' = Writers /\ Writers \subseteq Procs
      BY <3>2, CastFacts DEF Writers, TypesInv, Types
    <3>4. lock = p
      BY <2>0, <3>2 DEF Rotates
    <3>5. \A q \in Writers : (pc'[q] = "lock" \/ lock' = q => files' # <<>>) /\ pc'[q] # "truncate"
      BY <2>0, <3>2, <3>3, <3>4 DEF Begun
    <3> QED BY <3>1, <3>3, <3>5 DEF Begun
  <2>2. CASE Kill(p) /\ lock = p /\ pc[p] = "shift"
    <3>1. Sparse' /\ Gap' = 0
      BY <2>2, SparseKill
    <3>2. /\ UNCHANGED <<cast, files>> /\ lock' = Nobody /\ pc'[p] = "dead"
          /\ \A q \in Procs \ {p} : pc'[q] = pc[q]
      BY <2>0, <2>2 DEF Kill, Goto
    <3>3. Writers' = Writers /\ Writers \subseteq Procs
      BY <3>2, CastFacts DEF Writers, TypesInv, Types
    <3>4. \A q \in Writers : (pc'[q] = "lock" \/ lock' = q => files' # <<>>) /\ pc'[q] # "truncate"
      BY <2>0, <3>2, <3>3 DEF Begun
    <3> QED BY <3>1, <3>3, <3>4 DEF Begun
  <2>3. CASE Truncate(p)
    BY <2>3 DEF Truncate, Begun
  <2>4. CASE Write(p)
    BY <2>4, WriteHistory
  <2>5. CASE (EnsureOpen(p) /\ fd[p] = 0) \/ Reopen(p) \/ ReopenLocked(p)
    BY <2>5, OpenHistory
  <2>6. CASE \/ SeedCounts(p) \/ Backfill(p) \/ RotateIfNeeded(p) \/ AcquireLock(p)
             \/ CheckAgain(p) \/ Tally(p) \/ Close(p) \/ Restart(p)
             \/ (Kill(p) /\ ~(lock = p /\ pc[p] = "shift"))
             \/ (EnsureOpen(p) /\ fd[p] # 0)
    BY <2>6, QuietHistory
  <2> QED BY <1>4, <2>1, <2>2, <2>3, <2>4, <2>5, <2>6 DEF Step
<1> QED BY <1>2, <1>3, <1>4 DEF Next

(* A step that leaves the lines of each file, or makes an empty one, loses *)
(* none and repeats none.                                                  *)
LEMMA StoredKept ==
  ASSUME TypesInv, Once, Stored, written' = written,
         Len(files') >= Len(files), Len(files) \in Nat, Len(files') \in Nat,
         \A f \in 1..Len(files) : files'[f] = files[f],
         \A f \in 1..Len(files') : f \notin 1..Len(files) => files'[f] = <<>>
  PROVE  Once' /\ Stored'
<1>1. Once'
  <2> SUFFICES ASSUME NEW f \in 1..Len(files'), NEW g \in 1..Len(files'),
                      NEW i \in 1..Len(files'[f]), NEW j \in 1..Len(files'[g]),
                      files'[f][i] = files'[g][j]
               PROVE  f = g /\ i = j
    BY DEF Once
  <2>1. f \in 1..Len(files) /\ g \in 1..Len(files)
    OBVIOUS
  <2>2. files'[f] = files[f] /\ files'[g] = files[g]
    BY <2>1
  <2>3. i \in 1..Len(files[f]) /\ j \in 1..Len(files[g]) /\ files[f][i] = files[g][j]
    BY <2>2
  <2> QED BY <2>1, <2>3 DEF Once
<1>2. Stored'
  <2> SUFFICES ASSUME NEW p \in Procs, NEW k \in 1..written[p]
               PROVE  \E f \in 1..Len(files') : \E i \in 1..Len(files'[f]) : files'[f][i] = <<p, k>>
    BY DEF Stored
  <2>1. PICK f \in 1..Len(files) : \E i \in 1..Len(files[f]) : files[f][i] = <<p, k>>
    BY DEF Stored
  <2>2. f \in 1..Len(files') /\ files'[f] = files[f]
    BY <2>1
  <2> QED BY <2>1, <2>2
<1> QED BY <1>1, <1>2

(* A line that is written is a new one, and every line stays where it is.  *)
LEMMA StoredWrite ==
  ASSUME TypesInv, FilesOrdered, Once, Stored, NEW p \in Writers, Write(p)
  PROVE  Once' /\ Stored'
<1> DEFINE h == fd[p]
           old == files[fd[p]]
           line == <<p, written[p] + 1>>
<1>0. p \in Procs /\ h \in 1..Len(files) /\ written[p] \in Nat /\ files \in Seq(Seq(Lines))
        /\ written \in [Procs -> Nat]
  BY CastFacts, SMTT(20) DEF TypesInv, Types, Places, Write
<1>1. files' = [files EXCEPT ![h] = Append(old, line)] /\ written' = [written EXCEPT ![p] = @ + 1]
  BY DEF Write
<1>2. old \in Seq(Lines) /\ line \in Lines /\ Append(old, line) \in Seq(Lines) /\ Len(old) \in Nat
        /\ Len(Append(old, line)) = Len(old) + 1
        /\ (\A j \in 1..Len(old) : Append(old, line)[j] = old[j]) /\ Append(old, line)[Len(old) + 1] = line
  <2>1. old \in Seq(Lines) /\ line \in Lines
    BY <1>0 DEF Lines
  <2> HIDE DEF old, line
  <2> QED BY <2>1, Appended
<1> DEFINE new == Append(old, line)
<1>3. Len(files') = Len(files) /\ \A f \in 1..Len(files) : files'[f] = IF f = h THEN new ELSE files[f]
  <2> HIDE DEF new, h
  <2> QED BY <1>0, <1>1, <1>2, Replaced, SMTT(20) DEF new
<1>4. \A f \in 1..Len(files) : \A i \in 1..Len(files[f]) : files[f][i] # line
  <2> SUFFICES ASSUME NEW f \in 1..Len(files), NEW i \in 1..Len(files[f]), files[f][i] = line PROVE FALSE
    OBVIOUS
  <2>1. files[f][i][2] <= written[files[f][i][1]]
    BY DEF FilesOrdered, Past
  <2> QED BY <1>0, <2>1
<1>5. /\ \A f \in 1..Len(files) : f # h => files'[f] = files[f]
      /\ Len(files'[h]) = Len(old) + 1 /\ files'[h][Len(old) + 1] = line
      /\ \A j \in 1..Len(old) : files'[h][j] = files[h][j]
  BY <1>0, <1>2, <1>3
<1> HIDE DEF new, line
<1>6. ASSUME NEW f \in 1..Len(files), NEW i \in 1..Len(files'[f])
      PROVE  \/ f = h /\ i = Len(old) + 1 /\ files'[f][i] = line
             \/ i \in 1..Len(files[f]) /\ files'[f][i] = files[f][i]
  <2>1. CASE f = h
    <3>1. i \in 1..(Len(old) + 1)
      BY <1>5, <1>6, <2>1
    <3>2. i = Len(old) + 1 \/ i \in 1..Len(old)
      BY <1>2, <3>1
    <3> QED BY <1>5, <2>1, <3>2
  <2>2. CASE f # h
    BY <1>5, <2>2
  <2> QED BY <2>1, <2>2
<1>7. Once'
  <2> SUFFICES ASSUME NEW f \in 1..Len(files), NEW g \in 1..Len(files),
                      NEW i \in 1..Len(files'[f]), NEW j \in 1..Len(files'[g]),
                      files'[f][i] = files'[g][j]
               PROVE  f = g /\ i = j
    BY <1>3 DEF Once
  <2> HIDE DEF h, old
  <2>1. CASE f = h /\ i = Len(old) + 1 /\ files'[f][i] = line
    BY <1>4, <1>6, <2>1
  <2>2. CASE i \in 1..Len(files[f]) /\ files'[f][i] = files[f][i]
    <3>1. j \in 1..Len(files[g]) /\ files'[g][j] = files[g][j]
      BY <1>4, <1>6, <2>2
    <3>2. files[f][i] = files[g][j]
      BY <2>2, <3>1
    <3> QED BY <2>2, <3>1, <3>2 DEF Once
  <2> QED BY <1>6, <2>1, <2>2
<1>8. Stored'
  <2> SUFFICES ASSUME NEW q \in Procs, NEW k \in 1..written'[q]
               PROVE  \E f \in 1..Len(files) : \E i \in 1..Len(files'[f]) : files'[f][i] = <<q, k>>
    BY <1>3, ZenonT(30) DEF Stored
  <2>1. CASE k \in 1..written[q]
    <3>a. PICK f \in 1..Len(files) : \E i \in 1..Len(files[f]) : files[f][i] = <<q, k>>
      BY <2>1 DEF Stored
    <3>1. PICK i \in 1..Len(files[f]) : files[f][i] = <<q, k>>
      BY <3>a
    <3>2. i \in 1..Len(files'[f]) /\ files'[f][i] = files[f][i]
      <4>1. CASE f = h
        <5>1. i \in 1..(Len(old) + 1) /\ i \in 1..Len(old)
          BY <1>2, <4>1
        <5> QED BY <1>5, <4>1, <5>1
      <4>2. CASE f # h
        BY <1>5, <4>2
      <4> QED BY <4>1, <4>2
    <3> QED BY <3>1, <3>2
  <2>2. CASE k \notin 1..written[q]
    <3>1. q = p /\ k = written[p] + 1
      BY <1>0, <1>1, <2>2
    <3>2. Len(old) + 1 \in 1..Len(files'[h]) /\ files'[h][Len(old) + 1] = <<q, k>>
      BY <1>2, <1>5, <3>1 DEF line
    <3> QED BY <1>0, <3>2
  <2> QED BY <2>1, <2>2
<1> QED BY <1>7, <1>8

(* Without a truncation every line that was written stays in its file.     *)
LEMMA StoredNext ==
  ASSUME TypesInv, TypesInv', FilesOrdered, Begun, Once, Stored, [Next]_vars
  PROVE  Once' /\ Stored'
<1> USE DEF fileVars, procVars, countVars, readVars
<1>0. files \in Seq(Seq(Lines)) /\ Len(files) \in Nat
  <2>1. files \in Seq(Seq(Lines))
    BY DEF TypesInv, Types
  <2> QED BY <2>1
<1>1. ASSUME files' = files, written' = written PROVE Once' /\ Stored'
  <2>1. Once'
    BY <1>1 DEF Once
  <2>2. Stored'
    BY <1>1 DEF Stored
  <2> QED BY <2>1, <2>2
<1>2. CASE UNCHANGED vars
  BY <1>1, <1>2 DEF vars
<1>3. CASE History \/ Poll \/ SeedBridge \/ BridgeSize \/ BridgeRead
  BY <1>1, <1>3 DEF History, Poll, SeedBridge, BridgeSize, BridgeRead
<1>4. ASSUME NEW p \in Writers, Step(p) \/ Kill(p) \/ Restart(p) PROVE Once' /\ Stored'
  <2>0. p \in Procs
    BY CastFacts DEF TypesInv, Types
  <2>1. CASE Truncate(p)
    BY <2>1 DEF Truncate, Begun
  <2>2. CASE Write(p)
    BY <2>2, StoredWrite
  <2>3. CASE Open(p) /\ written' = written
    <3>1. files' \in Seq(Seq(Lines)) /\ Len(files') >= Len(files)
            /\ (\A f \in 1..Len(files) : files'[f] = files[f])
            /\ (\A f \in 1..Len(files') : f \notin 1..Len(files) => files'[f] = <<>>)
      BY <2>0, <2>3, Opened DEF TypesInv
    <3>2. Len(files') \in Nat
      BY <3>1
    <3> QED BY <1>0, <2>3, <3>1, <3>2, StoredKept
  <2>4. CASE EnsureOpen(p) \/ Reopen(p) \/ ReopenLocked(p)
    BY <1>1, <2>3, <2>4 DEF EnsureOpen, Reopen, ReopenLocked
  <2>5. CASE SeedCounts(p) \/ Backfill(p) \/ RotateIfNeeded(p) \/ AcquireLock(p) \/ CheckAgain(p)
               \/ RemoveOldest(p) \/ Shift(p) \/ Tally(p) \/ Close(p) \/ Kill(p) \/ Restart(p)
    BY <1>1, <2>5 DEF SeedCounts, Backfill, RotateIfNeeded, AcquireLock, CheckAgain,
                      RemoveOldest, Shift, Tally, Close, Kill, Restart
  <2> QED BY <1>4, <2>1, <2>2, <2>4, <2>5 DEF Step
<1> QED BY <1>2, <1>3, <1>4 DEF Next

(* A sequence has finitely many elements.                                  *)
LEMMA FiniteLines ==
  ASSUME NEW S, NEW s \in Seq(S)
  PROVE  IsFiniteSet(ToSet(s))
<1> DEFINE I == 1..Len(s)
           F == [i \in I |-> s[i]]
<1>1. Len(s) \in Nat /\ DOMAIN s = I
  OBVIOUS
<1>2. IsFiniteSet(I)
  BY <1>1, FS_Interval
<1>3. F \in Surjection(I, ToSet(s))
  BY <1>1 DEF Surjection, ToSet
<1> QED BY <1>2, <1>3, FS_Surjection

(* What a log has is finite.                                               *)
LEMMA KeptFinite == ASSUME TypesInv PROVE IsFiniteSet(Kept)
<1> DEFINE I == {j \in 0..Top : dir[j] # 0}
           T == {ToSet(files[dir[i]]) : i \in I}
           F == [i \in I |-> ToSet(files[dir[i]])]
<1>1. IsFiniteSet(I)
  <2>1. IsFiniteSet(0..Top)
    BY Bounds, FS_Interval
  <2> QED BY <2>1, FS_Subset
<1>2. IsFiniteSet(T)
  <2>1. F \in Surjection(I, T)
    BY DEF Surjection
  <2> QED BY <1>1, <2>1, FS_Surjection
<1>3. ASSUME NEW t \in T PROVE IsFiniteSet(t)
  <2>1. PICK i \in I : t = ToSet(files[dir[i]])
    OBVIOUS
  <2>2. files \in Seq(Seq(Lines)) /\ dir[i] \in 1..Len(files)
    <3>1. dir[i] \in 0..Len(files) /\ files \in Seq(Seq(Lines)) /\ dir[i] # 0
      BY DEF TypesInv, Types
    <3> QED BY <3>1
  <2>3. files[dir[i]] \in Seq(Lines)
    BY <2>2
  <2> QED BY <2>1, <2>3, FiniteLines
<1>4. Kept = UNION T
  BY DEF Kept
<1> HIDE DEF T
<1> QED BY <1>2, <1>3, <1>4, FS_UNION

(* The generations that stand before the n-th are n.                       *)
LEMMA SlotsCount ==
  ASSUME TypesInv, NEW n \in 0..Top
  PROVE  IsFiniteSet(Slots(n)) /\ Cardinality(Slots(n)) = n /\ Slots(n) \subseteq 0..Top
<1>1. Top \in Nat /\ Gap \in 0..Top
  BY Bounds, GapIn
<1>2. IsFiniteSet(0..(n - 1)) /\ Cardinality(0..(n - 1)) = n
  BY <1>1, FS_Interval
<1>3. IsFiniteSet(0..n) /\ Cardinality(0..n) = n + 1
  BY <1>1, FS_Interval
<1>4. IsFiniteSet((0..n) \ {Gap}) /\ (Gap \in 0..n => Cardinality((0..n) \ {Gap}) = n)
  <2> DEFINE R == 0..n
  <2>1. IsFiniteSet(R) /\ Cardinality(R) = n + 1
    BY <1>3
  <2> HIDE DEF R
  <2>2. IsFiniteSet(R \ {Gap}) /\ (Gap \in R => Cardinality(R \ {Gap}) = Cardinality(R) - 1)
    BY <2>1, FS_RemoveElement
  <2>3. Gap \in R => Cardinality(R \ {Gap}) = n
    BY <1>1, <2>1, <2>2
  <2> QED BY <2>2, <2>3 DEF R
<1>5. CASE n <= Gap
  BY <1>1, <1>2, <1>5 DEF Slots
<1>6. CASE n > Gap
  <2>1. Slots(n) = (0..n) \ {Gap} /\ Gap \in 0..n
    BY <1>1, <1>6 DEF Slots
  <2> QED BY <1>1, <1>4, <2>1
<1> QED BY <1>1, <1>5, <1>6

(* The lines of full generations are as many as these hold.                *)
LEMMA FullLines ==
  ASSUME TypesInv, Once, NEW full, full \subseteq 0..Top, Floor \in Nat \ {0},
         \A i \in full : Filled(i)
  PROVE  Cardinality(full) * Floor <= Cardinality(Kept)
<1> DEFINE S == full \X (1..Floor)
           F == [x \in S |-> files[dir[x[1]]][x[2]]]
<1>0. files \in Seq(Seq(Lines)) /\ dir \in [0..Top -> 0..Len(files)]
        /\ \A i, j \in 0..Top : dir[i] = dir[j] /\ dir[i] # 0 => i = j
  BY DEF TypesInv, Types, Places
<1>1. ASSUME NEW i \in full, NEW k \in 1..Floor
      PROVE  /\ dir[i] \in 1..Len(files) /\ k \in 1..Len(files[dir[i]])
             /\ files[dir[i]][k] \in Kept
  <2>1. dir[i] # 0 /\ Len(files[dir[i]]) >= Floor /\ i \in 0..Top
    BY DEF Filled
  <2>2. dir[i] \in 1..Len(files)
    <3>1. dir[i] \in 0..Len(files)
      BY <1>0, <2>1
    <3> QED BY <1>0, <2>1, <3>1
  <2>3. files[dir[i]] \in Seq(Lines)
    BY <1>0, <2>2
  <2>4. k \in 1..Len(files[dir[i]]) /\ k \in DOMAIN files[dir[i]]
    BY <2>1, <2>3
  <2>5. files[dir[i]][k] \in ToSet(files[dir[i]])
    BY <2>4 DEF ToSet
  <2> QED BY <2>1, <2>2, <2>4, <2>5 DEF Kept
<1>2. \A x \in S : x[1] \in full /\ x[2] \in 1..Floor /\ x = <<x[1], x[2]>> /\ F[x] = files[dir[x[1]]][x[2]]
  OBVIOUS
<1>3. F \in [S -> Kept]
  <2>1. \A x \in S : files[dir[x[1]]][x[2]] \in Kept
    BY <1>1, <1>2
  <2> QED BY <2>1
<1>4. ASSUME NEW x \in S, NEW y \in S, F[x] = F[y] PROVE x = y
  <2>1. /\ dir[x[1]] \in 1..Len(files) /\ x[2] \in 1..Len(files[dir[x[1]]])
        /\ dir[y[1]] \in 1..Len(files) /\ y[2] \in 1..Len(files[dir[y[1]]])
        /\ files[dir[x[1]]][x[2]] = files[dir[y[1]]][y[2]]
    BY <1>1, <1>2, <1>4
  <2>2. dir[x[1]] = dir[y[1]] /\ x[2] = y[2]
    BY <2>1, SMTT(20) DEF Once
  <2>3. x[1] \in 0..Top /\ y[1] \in 0..Top /\ dir[x[1]] # 0
    <3>1. x[1] \in full /\ y[1] \in full
      BY <1>2
    <3>2. Filled(x[1])
      BY <3>1
    <3> QED BY <3>1, <3>2 DEF Filled
  <2>4. x[1] = y[1]
    BY <1>0, <2>2, <2>3
  <2> QED BY <1>2, <2>2, <2>4
<1>5. F \in Injection(S, Kept)
  <2> HIDE DEF F, S
  <2> QED BY <1>3, <1>4 DEF Injection, IsInjective
<1>6. IsFiniteSet(full) /\ Cardinality(full) \in Nat
  <2>1. IsFiniteSet(0..Top)
    BY Bounds, FS_Interval
  <2> QED BY <2>1, FS_Subset, FS_CardinalityType
<1>7. IsFiniteSet(1..Floor) /\ Cardinality(1..Floor) = Floor
  BY FS_Interval
<1>8. Cardinality(S) = Cardinality(full) * Floor
  BY <1>6, <1>7, FS_Product
<1>9. Cardinality(S) <= Cardinality(Kept)
  <2> HIDE DEF F, S
  <2> QED BY <1>5, KeptFinite, FS_Injection
<1> QED BY <1>8, <1>9

(* The product of what is left of a promise, less what was lost.           *)
LEMMA Products ==
  ASSUME NEW full \in Nat, NEW lost \in Nat, NEW floor \in Nat, NEW n \in Nat, full + lost >= n
  PROVE  /\ full * floor + lost * floor >= n * floor
         /\ full * floor \in Nat /\ lost * floor \in Nat /\ n * floor \in Nat
<1>1. PICK more \in Nat : full + lost = n + more
  <2>1. full + lost - n \in Nat /\ full + lost = n + (full + lost - n)
    OBVIOUS
  <2> QED BY <2>1
<1>2. (full + lost) * floor = (n + more) * floor
  BY <1>1
<1>3. full * floor + lost * floor = n * floor + more * floor
  BY <1>2
<1>4. more * floor \in Nat /\ full * floor \in Nat /\ lost * floor \in Nat /\ n * floor \in Nat
  OBVIOUS
<1> QED BY <1>3, <1>4

(* If the generations are full and no line was lost otherwise, what was    *)
(* promised is there.                                                      *)
LEMMA PromiseKept ==
  ASSUME TypesInv, CountsAlone, Many, HistoryInv PROVE HistoryKept
<1> SUFFICES ASSUME NEW l \in Logged, l \notin Kept
             PROVE  Cardinality(Kept) + kills * Floor >= (Promised - 1) * Floor
  BY DEF HistoryKept, Floor, Promised
<1>1. PICK q \in Procs : \E k \in 1..written[q] : l = <<q, k>>
  BY DEF Logged
<1>2. PICK k \in 1..written[q] : l = <<q, k>>
  BY <1>1
<1>3. q \in Writers
  BY <1>2 DEF CountsAlone
<1>4. Dropped
  <2>1. PICK f \in 1..Len(files) : \E i \in 1..Len(files[f]) : files[f][i] = l
    BY <1>2 DEF HistoryInv, Stored
  <2>2. f # 0 /\ files[f] \in Seq(Lines)
    <3>1. files \in Seq(Seq(Lines))
      BY DEF TypesInv, Types
    <3> QED BY <3>1
  <2>3. l \in ToSet(files[f])
    BY <2>1, <2>2 DEF ToSet
  <2>4. \A j \in 0..Top : dir[j] # f
    BY <2>2, <2>3 DEF Kept
  <2> QED BY <2>4 DEF Dropped
<1>5. Promised \in Nat \ {0} /\ Floor \in Nat \ {0} /\ Promised - 1 \in 0..Top /\ Top \in Nat
  <2>1. /\ Promised \in Nat \ {0} /\ Floor \in Nat \ {0}
        /\ \E p \in Writers : Promised = KeepPromised(p)
    BY <1>3, Floors DEF TypesInv, Types
  <2>2. PICK p \in Writers : Promised = KeepPromised(p)
    BY <2>1
  <2>3. Promised = Keep(p) /\ Keep(p) \in 1..(Top + 1)
    BY <2>2, CastFacts DEF Many, TypesInv, Types
  <2> QED BY <2>1, <2>3, Bounds
<1> DEFINE n == Promised - 1
           full == Slots(n) \ Holes(n)
<1>6. Reaches(n)
  BY <1>4, <1>5 DEF Reaches
<1>7. Cardinality(Holes(n)) <= kills /\ kills \in Nat /\ Cardinality(Holes(n)) \in Nat
  <2>1. Cardinality(Holes(n)) + Owed <= kills /\ Cardinality(Holes(n)) \in Nat
    BY <1>5, <1>6, HolesIn DEF HistoryInv, Sparse
  <2>2. Owed \in {0, 1} /\ kills \in Nat
    BY DEF Owed, TypesInv, Types
  <2> QED BY <2>1, <2>2
<1>8. Cardinality(full) + kills >= n /\ Cardinality(full) \in Nat /\ full \subseteq 0..Top
  <2>1. IsFiniteSet(Slots(n)) /\ Cardinality(Slots(n)) = n /\ Slots(n) \subseteq 0..Top
    BY <1>5, SlotsCount
  <2>2. Slots(n) \cap Holes(n) = Holes(n)
    BY DEF Holes
  <2>3. IsFiniteSet(full) /\ Cardinality(full) = n - Cardinality(Holes(n)) /\ Cardinality(full) \in Nat
    <3> DEFINE A == Slots(n)
               B == Holes(n)
    <3>1. IsFiniteSet(A) /\ Cardinality(A) = n /\ A \cap B = B /\ full = A \ B
      BY <2>1, <2>2
    <3> HIDE DEF A, B, full, n
    <3>2. IsFiniteSet(A \ B) /\ Cardinality(A \ B) = Cardinality(A) - Cardinality(A \cap B)
      BY <3>1, FS_Difference
    <3>3. IsFiniteSet(full) /\ Cardinality(full) = n - Cardinality(B)
      BY <3>1, <3>2
    <3>4. Cardinality(full) \in Nat
      BY <3>3, FS_CardinalityType
    <3> QED BY <3>3, <3>4 DEF B
  <2> QED BY <1>5, <1>7, <2>1, <2>3
<1>9. \A i \in full : Filled(i)
  BY DEF Holes
<1>10. Cardinality(full) * Floor <= Cardinality(Kept) /\ Cardinality(Kept) \in Nat
  <2> HIDE DEF full
  <2> QED BY <1>5, <1>8, <1>9, FullLines, KeptFinite, FS_CardinalityType DEF HistoryInv
<1>11. Cardinality(full) * Floor + kills * Floor >= n * Floor
        /\ Cardinality(full) * Floor \in Nat /\ kills * Floor \in Nat /\ n * Floor \in Nat
  <2> HIDE DEF full, n
  <2>1. n \in Nat
    BY <1>5 DEF n
  <2> QED BY <1>5, <1>7, <1>8, <2>1, Products
<1> DEFINE a == Cardinality(full) * Floor
           b == kills * Floor
           c == n * Floor
           d == Cardinality(Kept)
<1>12. d + b >= c
  <2>1. a + b >= c /\ a <= d /\ a \in Nat /\ b \in Nat /\ c \in Nat /\ d \in Nat
    BY <1>10, <1>11
  <2> HIDE DEF a, b, c, d
  <2> QED BY <2>1
<1> QED BY <1>12

(* A log forgets old lines only when its generations are full, and never   *)
(* more than the oldest, whoever rotated, less a generation for each       *)
(* process killed halfway (logfile.go:26-29, 130-165): for every set of    *)
(* writers that keep what their configuration promises.                    *)
THEOREM LogsHistoryKept ==
  Spec => []((\A p \in Writers : Keep(p) = KeepPromised(p)) => HistoryKept)
<1> DEFINE Inv == Many => HistoryInv
           Promise == (\A p \in Writers : Keep(p) = KeepPromised(p)) => HistoryKept
<1>1. Init => FollowInv /\ CountsAlone /\ Inv
  <2> SUFFICES ASSUME Init PROVE FollowInv /\ CountsAlone /\ HistoryInv
    OBVIOUS
  <2>1. files = <<>> /\ shown = <<>> /\ ~reader.seen /\ ~reader.busy /\ Len(files) = 0
          /\ dir = [i \in 0..Top |-> 0] /\ lock = Nobody /\ kills = 0 /\ written = [p \in Procs |-> 0]
    BY DEF Init
  <2>2. FilesOrdered /\ Ordered(shown) /\ Past(shown) /\ Once /\ Stored
    BY <2>1 DEF FilesOrdered, Ordered, Past, Once, Stored
  <2>3. CastOK /\ snapshot = cast.snapshot /\ cast.snapshot \in {-1, 0} /\ Writers \subseteq Procs
    BY CastFacts DEF Init, CastOK
  <2>4. CountsAlone
    BY <2>3 DEF Init, CountsAlone, First
  <2>5. Phase = "none" /\ Gap = 0 /\ ~Missing /\ ~Dropped
    BY <2>1 DEF Phase, Gap, Missing, Dropped
  <2>6. Begun
    BY <2>1, <2>3, <2>5, Bounds DEF Begun, Init, First
  <2>7. ASSUME NEW n \in 0..Top, Reaches(n) PROVE Cardinality(Holes(n)) + Owed <= kills
    <3>1. n = 0
      <4>1. n > 0 => dir[At(n)] = 0
        BY <2>1, <2>5, Bounds DEF At
      <4> QED BY <2>5, <2>7, <4>1, Bounds DEF Reaches
    <3>2. Holes(n) = {}
      BY <2>5, <3>1 DEF Holes, Slots
    <3> QED BY <2>1, <2>5, <3>2, FS_EmptySet DEF Owed
  <2> QED BY <2>1, <2>2, <2>4, <2>6, <2>7 DEF FollowInv, HistoryInv, Sparse
<1>2. TypesInv /\ TypesInv' /\ FollowInv /\ Inv /\ [Next]_vars => Inv'
  <2> SUFFICES ASSUME TypesInv, TypesInv', FollowInv, Inv, [Next]_vars, Many' PROVE HistoryInv'
    OBVIOUS
  <2>1. cast' = cast
    BY DEF Next, Step, vars, SeedCounts, Backfill, EnsureOpen, RotateIfNeeded, Reopen, AcquireLock,
       CheckAgain, Truncate, RemoveOldest, Shift, ReopenLocked, Write, Tally, Close, Kill, Restart,
       History, Poll, SeedBridge, BridgeSize, BridgeRead
  <2>2. Many
    BY <2>1 DEF Many, Writers, Keep, KeepPromised
  <2>3. HistoryInv /\ FilesOrdered
    BY <2>2 DEF FollowInv
  <2> QED BY <2>2, <2>3, SparseNext, StoredNext DEF HistoryInv
<1>3. TypesInv /\ CountsAlone /\ Inv => Promise
  <2> SUFFICES ASSUME TypesInv, CountsAlone, Inv, \A p \in Writers : Keep(p) = KeepPromised(p)
               PROVE  HistoryKept
    OBVIOUS
  <2>1. CASE \A p \in Writers : Keep(p) > 1
    <3>1. Many
      BY <2>1 DEF Many
    <3> QED BY <3>1, PromiseKept
  <2>2. ASSUME NEW p \in Writers, ~(Keep(p) > 1) PROVE HistoryKept
    <3>1. Promised = 1 /\ Floor \in Nat
      <4>1. Promised \in Nat \ {0} /\ Promised <= KeepPromised(p) /\ Floor \in Nat
        BY Floors DEF TypesInv, Types
      <4>2. Keep(p) \in 1..(Top + 1) /\ Top \in Nat
        BY CastFacts, Bounds DEF TypesInv, Types
      <4>3. Keep(p) = 1
        BY <2>2, <4>2
      <4> QED BY <4>1, <4>3
    <3>2. Cardinality(Kept) \in Nat /\ kills * Floor \in Nat
      <4>1. kills \in Nat
        BY DEF TypesInv, Types
      <4> QED BY <3>1, <4>1, KeptFinite, FS_CardinalityType
    <3>3. (Promised - 1) * Floor = 0
      BY <3>1
    <3>4. Cardinality(Kept) + kills * Floor >= (Promised - 1) * Floor
      BY <3>2, <3>3
    <3> QED BY <3>4 DEF HistoryKept, Floor, Promised
  <2> QED BY <2>1, <2>2
<1> QED BY <1>1, <1>2, <1>3, TypesInit, TypesNext, FollowNext, AloneNext, PTL DEF Spec

=============================================================================
