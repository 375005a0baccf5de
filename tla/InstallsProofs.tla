--------------------------- MODULE InstallsProofs ----------------------------

(***************************************************************************)
(* The download cache under the scripts of Installs, for every set of      *)
(* requests, scripts, files and links and every number of faults and       *)
(* repetitions: types, what a caller is handed, how often it is            *)
(* downloaded, and that what an answer reports stays in the sandbox.       *)
(***************************************************************************)
EXTENDS Installs, TLAPS

(* A fetcher at rest is a fetch. *)
LEMMA RestingType == Resting \in Fetch
<1>1. (CHOOSE n \in Files : TRUE) \in Files /\ (CHOOSE d \in Digests : TRUE) \in Digests
  BY CacheAssumption
<1> QED BY <1>1 DEF Resting, Fetch, Manners, Positions

(* An absent file is a content. *)
LEMMA NoFileType == NoFile \in Content
BY DEF NoFile, Content

(* One fetch moves on; the names it goes by stay.                          *)
LEMMA AtType ==
  ASSUME CacheTypeOK, NEW f \in Fetchers, NEW where \in Positions
  PROVE  [fetch EXCEPT ![f].at = where] \in [Fetchers -> Fetch]
BY DEF CacheTypeOK, Fetch

(* Renaming or removing a file keeps the types of the fetchers that have it open. *)
LEMMA MovedType ==
  ASSUME CacheTypeOK, NEW n \in Files, NEW from, NEW to \in {"tmp", "dst", "gone"}
  PROVE  Moved(n, from, to) \in [Fetchers -> Fetch]
<1>1. ASSUME NEW g \in Fetchers PROVE [fetch[g] EXCEPT !.to = to] \in Fetch
  BY DEF CacheTypeOK, Fetch
<1>2. ASSUME NEW g \in Fetchers PROVE fetch[g] \in Fetch
  BY DEF CacheTypeOK
<1> QED BY <1>1, <1>2 DEF Moved

(* Whose fetch it is, and of which file.                                   *)
LEMMA FetchFacts ==
  ASSUME CacheTypeOK, NEW f \in Fetchers
  PROVE  /\ fetch[f] \in Fetch /\ fetch[f].file \in Files
         /\ fetch[f].want \in Digests /\ fetch[f].got \in Digests /\ fetch[f].how \in Manners
BY DEF CacheTypeOK, Fetch

(* Discarding a download keeps the cache's types. *)
LEMMA DiscardType == ASSUME CacheTypeOK, NEW f \in Fetchers, Discard(f) PROVE CacheTypeOK'
<1> DEFINE n == fetch[f].file  moved == Moved(n, "tmp", "gone")
<1>1. n \in Files
  BY FetchFacts
<1>2. part' \in [Files -> Content]
  BY <1>1, NoFileType DEF Discard, CacheTypeOK
<1>3. moved \in [Fetchers -> Fetch]
  BY <1>1, MovedType
<1>4. fetch' = [moved EXCEPT ![f].at = "failed"]
  BY DEF Discard
<1> HIDE DEF moved
<1>5. fetch' \in [Fetchers -> Fetch]
  BY <1>3, <1>4 DEF Fetch, Positions
<1> QED BY <1>2, <1>5 DEF Discard, CacheTypeOK

(* Renaming a verified download into its place keeps the cache's types. *)
LEMMA PublishType == ASSUME CacheTypeOK, NEW f \in Fetchers, Publish(f) PROVE CacheTypeOK'
<1> DEFINE n == fetch[f].file  moved == Moved(n, "tmp", "dst")
<1>1. n \in Files
  BY FetchFacts
<1>2. CASE part[n].is = None
  <2>1. fetch' = [fetch EXCEPT ![f].at = "failed"] /\ UNCHANGED <<cached, part, lockfile, doomed>>
    BY <1>2 DEF Publish, At
  <2>2. fetch' \in [Fetchers -> Fetch]
    BY <2>1, AtType DEF Positions
  <2> QED BY <2>1, <2>2 DEF CacheTypeOK
<1>3. CASE part[n].is # None
  <2>1. moved \in [Fetchers -> Fetch]
    BY <1>1, MovedType
  <2>2. /\ fetch' = [moved EXCEPT ![f] = [@ EXCEPT !.at = "have", !.to = "gone"]]
        /\ cached' = [cached EXCEPT ![n] = part[n]] /\ part' = [part EXCEPT ![n] = NoFile]
        /\ UNCHANGED <<lockfile, doomed>>
    BY <1>3 DEF Publish
  <2> HIDE DEF moved
  <2>3. fetch' \in [Fetchers -> Fetch]
    BY <2>1, <2>2, ZenonT(30) DEF Fetch, Positions
  <2>4. cached' \in [Files -> Content] /\ part' \in [Files -> Content]
    BY <1>1, <2>2, NoFileType DEF CacheTypeOK
  <2> QED BY <2>2, <2>3, <2>4 DEF CacheTypeOK
<1> QED BY <1>2, <1>3

(* Receiving a part keeps the cache's types. *)
LEMMA CopyType == ASSUME CacheTypeOK, NEW f \in Fetchers, Copy(f) PROVE CacheTypeOK'
<1> DEFINE n == fetch[f].file
<1>1. n \in Files /\ fetch[f].got \in Digests
  BY FetchFacts
<1>2. ASSUME NEW c \in Content PROVE Filled(c, f) \in Content
  BY <1>1 DEF Filled, Content
<1>3. part' \in [Files -> Content] /\ cached' \in [Files -> Content]
  BY <1>1, <1>2 DEF Copy, CacheTypeOK
<1>4. fetch' \in [Fetchers -> Fetch]
  BY AtType DEF Copy, At, Positions
<1> QED BY <1>3, <1>4 DEF Copy, CacheTypeOK

(* Opening the temporary file keeps the cache's types. *)
LEMMA OpenType ==
  ASSUME CacheTypeOK, NEW f \in Fetchers, NEW d \in Digests, Open(f, d) PROVE CacheTypeOK'
<1>1. fetch[f].file \in Files
  BY FetchFacts
<1>2. CASE fetch[f].how = "memory" /\ d # fetch[f].want
  <2>1. At(f, "failed") /\ UNCHANGED <<cached, part, lockfile, doomed>>
    BY <1>2 DEF Open
  <2> QED BY <2>1, AtType DEF At, Positions, CacheTypeOK
<1>3. CASE ~(fetch[f].how = "memory" /\ d # fetch[f].want)
  <2>1. /\ part' = [part EXCEPT ![fetch[f].file] = [is |-> Torn, by |-> f]]
        /\ fetch' = [fetch EXCEPT ![f] = [@ EXCEPT !.at = "copy", !.got = d, !.to = "tmp"]]
        /\ UNCHANGED <<cached, lockfile, doomed>>
    BY <1>3 DEF Open
  <2>2. fetch' \in [Fetchers -> Fetch]
    BY <2>1, ZenonT(30) DEF CacheTypeOK, Fetch, Positions
  <2>3. part' \in [Files -> Content]
    BY <1>1, <2>1 DEF CacheTypeOK, Content
  <2> QED BY <2>1, <2>2, <2>3 DEF CacheTypeOK
<1> QED BY <1>2, <1>3

(* Looking at the entry without the lock keeps the cache's types. *)
LEMMA LookType == ASSUME CacheTypeOK, NEW f \in Fetchers, Look(f) PROVE CacheTypeOK'
<1> DEFINE where == IF Hit(f) THEN "have" ELSE IF fetch[f].how = "locked" THEN "wait" ELSE "open"
           l == lockfile[fetch[f].file]
<1>1. where \in Positions /\ l \in Nat
  BY FetchFacts DEF Positions, CacheTypeOK
<1>2. fetch' = [fetch EXCEPT ![f] = [@ EXCEPT !.at = where, !.lock = l]]
  BY DEF Look
<1> HIDE DEF where, l
<1>3. fetch' \in [Fetchers -> Fetch]
  BY <1>1, <1>2, ZenonT(30) DEF CacheTypeOK, Fetch
<1> QED BY <1>3 DEF Look, CacheTypeOK

(* Every step of a download keeps the cache's types. *)
LEMMA CacheStepType == ASSUME CacheTypeOK, NEW f \in Fetchers, CacheStep(f) PROVE CacheTypeOK'
<1>1. CASE Acquire(f) \/ Recheck(f)
  <2>1. PICK where \in Positions : At(f, where)
    BY <1>1 DEF Acquire, Recheck, Positions
  <2>2. fetch' \in [Fetchers -> Fetch]
    BY <2>1, AtType DEF At
  <2> QED BY <1>1, <2>2 DEF Acquire, Recheck, CacheTypeOK
<1>2. CASE Verify(f)
  <2>1. CASE Verified(f)
    BY <1>2, <2>1, AtType, ZenonT(30) DEF Verify, At, Positions, CacheTypeOK
  <2> QED BY <1>2, <2>1, DiscardType DEF Verify
<1> QED BY <1>1, <1>2, LookType, CopyType, PublishType DEF CacheStep

(* A download that is interrupted keeps the cache's types. *)
LEMMA AbortType == ASSUME CacheTypeOK, NEW f \in Fetchers, Abort(f) PROVE CacheTypeOK'
<1>1. CASE At(f, "failed") /\ UNCHANGED <<cached, part, lockfile, doomed>>
  BY <1>1, AtType DEF At, Positions, CacheTypeOK
<1> QED BY <1>1, DiscardType DEF Abort

(* The two steps of a prune keep the cache's types. *)
LEMMA PruneType ==
  ASSUME CacheTypeOK, (\E all \in BOOLEAN : List(all)) \/ (\E x \in doomed : Remove(x[1], x[2]))
  PROVE  CacheTypeOK'
<1>1. ASSUME NEW all \in BOOLEAN, List(all) PROVE CacheTypeOK'
  BY <1>1 DEF List, Victims, CacheTypeOK
<1>2. ASSUME NEW n \in Files, NEW kind \in {"asset", "lock", "tmp"}, Remove(n, kind) PROVE CacheTypeOK'
  <2>1. fetch' \in [Fetchers -> Fetch]
    BY <1>2, MovedType DEF Remove, CacheTypeOK
  <2>2. cached' \in [Files -> Content] /\ part' \in [Files -> Content] /\ lockfile' \in [Files -> Nat]
    BY <1>2, NoFileType DEF Remove, CacheTypeOK
  <2>3. doomed' \subseteq Files \X {"asset", "lock", "tmp"}
    BY <1>2 DEF Remove, CacheTypeOK
  <2> QED BY <2>1, <2>2, <2>3 DEF CacheTypeOK
<1>3. ASSUME NEW x \in doomed, Remove(x[1], x[2]) PROVE CacheTypeOK'
  <2>1. x[1] \in Files /\ x[2] \in {"asset", "lock", "tmp"}
    BY DEF CacheTypeOK
  <2> QED BY <1>2, <1>3, <2>1
<1> QED BY <1>1, <1>3

-----------------------------------------------------------------------------

(* Where the jobs are in their scripts.                                    *)
ProgressOK ==
  /\ asked \in Casts
  /\ state \in [Jobs -> {"idle", "running", "ok", "failed"}] /\ step \in [Jobs -> Nat]
  /\ \A j \in Jobs :
       /\ step[j] <= Len(Steps(j))
       /\ state[j] = "running" => step[j] < Len(Steps(j))
       /\ state[j] # "ok" => Steps(j) # <<>>

SandboxOK ==
  /\ asks \in [Jobs -> 0..MaxAsks[asked]]
  /\ data \in [Jobs -> Digests \cup {None, Torn}]
  /\ tree \in [Trees -> [DOMAIN Absent -> Digests \cup {None, Torn}]]
  /\ stamp \subseteq Trees /\ report \in Jobs \cup {Nobody}
  /\ plan \in [Jobs -> Jobs \cup {Nobody}] /\ added \in [Trees -> SUBSET Jobs]
  /\ faults \in 0..MaxFaults

Types == CacheTypeOK /\ ProgressOK /\ SandboxOK

(* The script of a job is a sequence of steps. *)
LEMMA StepsType ==
  ASSUME ProgressOK, NEW j \in Jobs PROVE Steps(j) \in Seq(ScriptStep) /\ Len(Steps(j)) \in Nat
<1>1. asked[j] \in DOMAIN Script
  BY ScriptAssumption DEF ProgressOK
<1>2. Steps(j) \in Seq(ScriptStep)
  BY <1>1, ScriptAssumption DEF Steps
<1> QED BY <1>2

(* The next step of a running job is one of its script's.                  *)
LEMMA NowType ==
  ASSUME ProgressOK, NEW j \in Jobs, state[j] = "running"
  PROVE  Now(j) \in ScriptStep /\ step[j] + 1 \in DOMAIN Steps(j)
<1>1. Steps(j) \in Seq(ScriptStep) /\ Len(Steps(j)) \in Nat
  BY StepsType
<1>2. step[j] + 1 \in 1..Len(Steps(j))
  BY <1>1 DEF ProgressOK
<1> QED BY <1>1, <1>2 DEF Now

(* A step on a tree names a tree. *)
LEMMA OnTreeType ==
  ASSUME ProgressOK, NEW j \in Jobs, NEW op \in OnTree, AtStep(j, op) PROVE On(j) \in Trees
<1>1. Now(j) \in ScriptStep /\ Now(j).op \in OnTree
  BY NowType DEF AtStep
<1> QED BY <1>1 DEF ScriptStep, OnTree, On

(* A step that downloads names a file, its digest and its manner. *)
LEMMA GetType ==
  ASSUME ProgressOK, NEW j \in Jobs, AtStep(j, "get")
  PROVE  Now(j).on \in Files /\ Now(j).want \in Digests /\ Now(j).how \in Manners
<1>1. Now(j) \in ScriptStep /\ Now(j).op = "get"
  BY NowType DEF AtStep
<1> QED BY <1>1 DEF ScriptStep, OnTree

(* A step that builds names a digest. *)
LEMMA BuildType ==
  ASSUME ProgressOK, NEW j \in Jobs, AtStep(j, "build") PROVE Now(j).want \in Digests
<1>1. Now(j) \in ScriptStep /\ Now(j).op = "build"
  BY NowType DEF AtStep
<1> QED BY <1>1 DEF ScriptStep, OnTree

(* A step that tries something knows how far to skip if it fails. *)
LEMMA TryType ==
  ASSUME ProgressOK, NEW j \in Jobs, AtStep(j, "try") PROVE Now(j).skip \in Nat \ {0}
<1>1. Now(j) \in ScriptStep /\ Now(j).op = "try"
  BY NowType DEF AtStep
<1> QED BY <1>1 DEF ScriptStep, OnTree

(* What a step does to its job's place in the script.                      *)
Goes(j) ==
  \/ UNCHANGED <<state, step>>
  \/ \E how \in {"ok", "failed"} : Finish(j, how)
  \/ \E n \in Nat \ {0} : Advance(j, n)

(* Moving one running job along its script keeps the progress of all. *)
LEMMA GoesOK ==
  ASSUME ProgressOK, NEW j \in Jobs, state[j] = "running", asked' = asked, Goes(j) PROVE ProgressOK'
<1>0. \A k \in Jobs : Len(Steps(k)) \in Nat /\ Steps(k)' = Steps(k)
  BY StepsType DEF Steps
<1>1. CASE UNCHANGED <<state, step>>
  BY <1>0, <1>1 DEF ProgressOK
<1>2. ASSUME NEW how \in {"ok", "failed"}, Finish(j, how) PROVE ProgressOK'
  BY <1>0, <1>2 DEF ProgressOK, Finish
<1>3. ASSUME NEW n \in Nat \ {0}, Advance(j, n) PROVE ProgressOK'
  <2>1. CASE step[j] + n >= Len(Steps(j))
    BY <1>2, <1>3, <2>1 DEF Advance
  <2>2. CASE ~(step[j] + n >= Len(Steps(j)))
    <3>1. step' = [step EXCEPT ![j] = @ + n] /\ state' = state
      BY <1>3, <2>2 DEF Advance
    <3>2. step[j] \in Nat /\ step[j] + n \in Nat /\ step[j] + n < Len(Steps(j))
      BY <1>0, <2>2 DEF ProgressOK
    <3> QED BY <1>0, <3>1, <3>2 DEF ProgressOK
  <2> QED BY <2>1, <2>2
<1> QED BY <1>1, <1>2, <1>3 DEF Goes

(* Whether it goes on or fails.                                            *)
LEMMA ProceedGoes == ASSUME NEW j \in Jobs, NEW ok, Proceed(j, ok) PROVE Goes(j)
BY DEF Proceed, Goes

(* Finishing moves the job and no other. *)
LEMMA FinishGoes == ASSUME NEW j \in Jobs, NEW how \in {"ok", "failed"}, Finish(j, how) PROVE Goes(j)
BY DEF Goes

(* Advancing moves the job and no other. *)
LEMMA AdvanceGoes == ASSUME NEW j \in Jobs, NEW n \in Nat \ {0}, Advance(j, n) PROVE Goes(j)
BY DEF Goes

(* The steps that ask the sandbox or the mirror and change neither.        *)
Looks(j) ==
  \/ HitRuns(j) \/ HitStamped(j) \/ SkipPresent(j) \/ Locate(j)
  \/ Vacant(j) \/ Fallback(j) \/ Stopped(j) \/ Run(j) \/ Use(j)

(* A step that only looks moves its job and changes nothing else. *)
LEMMA LooksOK ==
  ASSUME ProgressOK, NEW j \in Jobs, Looks(j)
  PROVE  state[j] = "running" /\ Goes(j) /\ UNCHANGED <<cache, asked, asks, data, plan, sandbox, faults>>
<1>1. state[j] = "running" /\ UNCHANGED <<cache, asked, asks, data, plan, sandbox, faults>>
  BY DEF Looks, HitRuns, HitStamped, SkipPresent, Locate, Vacant, Fallback, Stopped, Run, Use, AtStep
<1>2. CASE HitRuns(j) \/ HitStamped(j) \/ SkipPresent(j)
  <2>1. Finish(j, "ok") \/ Advance(j, 1) \/ Advance(j, 3)
    BY <1>2 DEF HitRuns, HitStamped, SkipPresent
  <2> QED BY <1>1, <2>1, FinishGoes, AdvanceGoes
<1>3. CASE Locate(j) \/ Vacant(j) \/ Run(j) \/ Use(j)
  <2>1. \E ok \in BOOLEAN : Proceed(j, ok)
    BY <1>3 DEF Locate, Vacant, Run, Use, Listed, Runs, Works, Whole
  <2> QED BY <1>1, <2>1, ProceedGoes
<1>4. CASE Fallback(j)
  <2>1. Advance(j, 1) \/ Advance(j, Now(j).skip)
    BY <1>4 DEF Fallback
  <2>2. Now(j).skip \in Nat \ {0}
    BY <1>4, TryType DEF Fallback
  <2> QED BY <1>1, <2>1, <2>2, AdvanceGoes
<1>5. CASE Stopped(j)
  BY <1>1, <1>5, FinishGoes DEF Stopped
<1> QED BY <1>2, <1>3, <1>4, <1>5 DEF Looks

(* The steps that change what is in the sandbox.                           *)
Changes(j) ==
  \/ Build(j) \/ Clear(j) \/ Push(j) \/ Stamp(j) \/ Resolve(j) \/ Read(j) \/ Add(j)

(* A step on the sandbox moves its job and leaves the cache alone. *)
LEMMA ChangesGoes ==
  ASSUME ProgressOK, NEW j \in Jobs, Changes(j)
  PROVE  state[j] = "running" /\ Goes(j) /\ UNCHANGED <<cache, asked, asks, faults>>
<1>1. state[j] = "running" /\ UNCHANGED <<cache, asked, asks, faults>>
  BY DEF Changes, Build, Clear, Push, Stamp, Resolve, Read, Add, AtStep
<1>2. Finish(j, "failed") \/ Advance(j, 1) \/ UNCHANGED <<state, step>>
  BY DEF Changes, Build, Clear, Push, Stamp, Resolve, Read, Add
<1>3. Goes(j)
  BY <1>2, FinishGoes, AdvanceGoes DEF Goes
<1> QED BY <1>1, <1>3

(* A step on the sandbox keeps the types of its trees, data and plan. *)
LEMMA ChangesOK ==
  ASSUME ProgressOK, SandboxOK, NEW j \in Jobs, Changes(j) PROVE SandboxOK'
<1>0. UNCHANGED <<asked, asks, faults>> /\ Absent' = Absent
  BY ChangesGoes DEF Absent
<1>1. CASE Build(j)
  <2>1. data' = [data EXCEPT ![j] = Now(j).want] /\ UNCHANGED <<plan, sandbox>>
    BY <1>1 DEF Build
  <2> QED BY <1>0, <1>1, <2>1, BuildType DEF Build, SandboxOK, sandbox
<1>2. CASE Clear(j)
  <2>1. On(j) \in Trees
    BY <1>2, OnTreeType DEF Clear, OnTree
  <2>2. Absent \in [DOMAIN Absent -> Digests \cup {None, Torn}]
    BY DEF Absent
  <2>3. /\ tree' = [tree EXCEPT ![On(j)] = Absent] /\ stamp' = stamp \ {On(j)}
        /\ added' = [added EXCEPT ![On(j)] = {}] /\ UNCHANGED <<data, plan, report>>
    BY <1>2 DEF Clear, Cleared
  <2> QED BY <1>0, <2>1, <2>2, <2>3 DEF SandboxOK
<1>3. CASE Push(j)
  <2>1. On(j) \in Trees
    BY <1>3, OnTreeType DEF Push, OnTree
  <2>2. UNCHANGED <<data, plan, stamp, report, added>>
    BY <1>3 DEF Push
  <2>3. tree' = tree \/ \E p : tree' = [tree EXCEPT ![On(j)][p] = data[j]]
    BY <1>3 DEF Push
  <2>4. data[j] \in Digests \cup {None, Torn}
    BY DEF SandboxOK
  <2>5. tree' \in [Trees -> [DOMAIN Absent -> Digests \cup {None, Torn}]]
    <3>1. CASE tree' = tree
      BY <3>1 DEF SandboxOK
    <3>2. ASSUME NEW p, tree' = [tree EXCEPT ![On(j)][p] = data[j]]
          PROVE  tree' \in [Trees -> [DOMAIN Absent -> Digests \cup {None, Torn}]]
      BY <2>4, <3>2 DEF SandboxOK
    <3> QED BY <2>3, <3>1, <3>2
  <2> QED BY <1>0, <2>2, <2>5 DEF SandboxOK
<1>4. CASE Stamp(j)
  <2>1. On(j) \in Trees
    BY <1>4, OnTreeType DEF Stamp, OnTree
  <2> QED BY <1>0, <1>4, <2>1 DEF Stamp, SandboxOK
<1>5. CASE Resolve(j) \/ Read(j)
  <2>1. CASE Resolve(j)
    BY <1>0, <2>1 DEF Resolve, SandboxOK
  <2>2. CASE Read(j)
    BY <1>0, <2>2 DEF Read, sandbox, SandboxOK
  <2> QED BY <1>5, <2>1, <2>2
<1>6. CASE Add(j)
  <2>1. UNCHANGED <<data, plan, tree, stamp, report>>
    BY <1>6 DEF Add
  <2>2. added' = added \/ \E whose \in Jobs : added' = [added EXCEPT ![On(j)] = @ \cup {whose}]
    BY <1>6, CacheAssumption DEF Add, SandboxOK
  <2>3. added' \in [Trees -> SUBSET Jobs]
    BY <2>2 DEF SandboxOK
  <2> QED BY <1>0, <2>1, <2>3 DEF SandboxOK
<1> QED BY <1>1, <1>2, <1>3, <1>4, <1>5, <1>6 DEF Changes

-----------------------------------------------------------------------------

(* The steps on the cache: what a fetch and a prune do beside it.          *)
Downloads(j) == Ask(j) \/ Fetching(j) \/ Served(j) \/ Refused(j) \/ Take(j) \/ ListCache(j) \/ RemoveListed(j)

(* A downloading step moves its job, or keeps it, and uses at most one fault. *)
LEMMA DownloadsGoes ==
  ASSUME ProgressOK, NEW j \in Jobs, Downloads(j)
  PROVE  /\ state[j] = "running" /\ Goes(j)
         /\ UNCHANGED <<asked, asks, plan, sandbox>>
         /\ faults' = faults \/ Fault
<1>1. CASE Ask(j) \/ Fetching(j) \/ Served(j) \/ Refused(j)
  BY <1>1 DEF Ask, Fetching, Served, Refused, AtStep, Goes, jobs
<1>2. CASE Take(j)
  <2>1. Goes(j)
    BY <1>2, ProceedGoes DEF Take
  <2> QED BY <1>2, <2>1 DEF Take, AtStep
<1>3. CASE ListCache(j)
  <2>1. Goes(j)
    BY <1>3, AdvanceGoes DEF ListCache
  <2> QED BY <1>3, <2>1 DEF ListCache, AtStep
<1>4. CASE RemoveListed(j)
  <2>1. Advance(j, 1) \/ UNCHANGED <<state, step>>
    BY <1>4 DEF RemoveListed
  <2>2. Goes(j)
    BY <2>1, AdvanceGoes DEF Goes
  <2> QED BY <1>4, <2>2 DEF RemoveListed, AtStep
<1> QED BY <1>1, <1>2, <1>3, <1>4 DEF Downloads

(* A downloading step keeps the cache's types. *)
LEMMA DownloadsCache == ASSUME Types, NEW j \in Jobs, Downloads(j) PROVE CacheTypeOK'
<1>0. CacheTypeOK /\ ProgressOK /\ j \in Fetchers
  BY DEF Types, Jobs
<1>1. CASE Ask(j)
  <2>1. Now(j).on \in Files /\ Now(j).want \in Digests /\ Now(j).how \in Manners
    BY <1>0, <1>1, GetType DEF Ask
  <2>2. fetch' \in [Fetchers -> Fetch]
    BY <1>0, <1>1, <2>1 DEF Ask, Begin, CacheTypeOK, Fetch, Positions
  <2> QED BY <1>0, <1>1, <2>2 DEF Ask, CacheTypeOK
<1>2. CASE Fetching(j)
  BY <1>0, <1>2, CacheStepType DEF Fetching
<1>3. CASE Served(j)
  BY <1>0, <1>3, OpenType DEF Served
<1>4. CASE Refused(j)
  BY <1>0, <1>4, AbortType DEF Refused
<1>5. CASE Take(j)
  <2>1. fetch' = [fetch EXCEPT ![j] = Resting] /\ UNCHANGED <<cached, part, lockfile, doomed>>
    BY <1>5 DEF Take
  <2> QED BY <1>0, <2>1, RestingType DEF CacheTypeOK
<1>6. CASE ListCache(j)
  <2>1. \E all \in BOOLEAN : List(all)
    BY <1>6 DEF ListCache
  <2> QED BY <1>0, <2>1, PruneType
<1>7. CASE RemoveListed(j)
  <2>1. UNCHANGED cache \/ \E x \in doomed : Remove(x[1], x[2])
    BY <1>7 DEF RemoveListed
  <2>2. CASE UNCHANGED cache
    BY <1>0, <2>2 DEF cache, CacheTypeOK
  <2> QED BY <1>0, <2>1, <2>2, PruneType
<1> QED BY <1>1, <1>2, <1>3, <1>4, <1>5, <1>6, <1>7 DEF Downloads

(* A downloading step keeps the sandbox's types. *)
LEMMA DownloadsSandbox == ASSUME Types, NEW j \in Jobs, Downloads(j) PROVE SandboxOK'
<1>0. CacheTypeOK /\ ProgressOK /\ SandboxOK /\ j \in Fetchers
  BY DEF Types, Jobs
<1>1. UNCHANGED <<asked, asks, plan, sandbox>> /\ (faults' = faults \/ Fault)
  BY <1>0, DownloadsGoes
<1>2. faults' \in 0..MaxFaults
  BY <1>0, <1>1, ScriptAssumption DEF Fault, SandboxOK
<1>3. data' \in [Jobs -> Digests \cup {None, Torn}]
  <2>1. CASE Take(j)
    <3>1. fetch[j].file \in Files
      BY <1>0, FetchFacts
    <3>2. cached[fetch[j].file].is \in Digests \cup {None, Torn}
      BY <1>0, <3>1 DEF CacheTypeOK, Content
    <3> QED BY <1>0, <2>1, <3>2 DEF Take, SandboxOK
  <2>2. CASE ~Take(j)
    <3>1. data' = data
      BY <2>2 DEF Downloads, Ask, Fetching, Served, Refused, ListCache, RemoveListed, jobs
    <3> QED BY <1>0, <3>1 DEF SandboxOK
  <2> QED BY <2>1, <2>2
<1> QED BY <1>0, <1>1, <1>2, <1>3 DEF SandboxOK, sandbox, Absent

(* A script's step is one of the three groups.                             *)
LEMMA StepGroups == ASSUME NEW j \in Jobs, Step(j) \/ Refused(j) PROVE Looks(j) \/ Changes(j) \/ Downloads(j)
BY DEF Step, Looks, Changes, Downloads

(* A step of a job, or its refusal, keeps the types. *)
LEMMA StepTypes == ASSUME Types, NEW j \in Jobs, Step(j) \/ Refused(j) PROVE Types'
<1>0. CacheTypeOK /\ ProgressOK /\ SandboxOK
  BY DEF Types
<1>1. CASE Looks(j)
  <2>1. state[j] = "running" /\ Goes(j) /\ UNCHANGED <<cache, asked, asks, data, plan, sandbox, faults>>
    BY <1>0, <1>1, LooksOK
  <2>2. CacheTypeOK'
    BY <1>0, <2>1 DEF cache, CacheTypeOK
  <2>3. SandboxOK'
    BY <1>0, <2>1 DEF sandbox, SandboxOK, Absent
  <2> QED BY <1>0, <2>1, <2>2, <2>3, GoesOK DEF Types
<1>2. CASE Changes(j)
  <2>1. state[j] = "running" /\ Goes(j) /\ UNCHANGED <<cache, asked>>
    BY <1>0, <1>2, ChangesGoes
  <2>2. CacheTypeOK'
    BY <1>0, <2>1 DEF cache, CacheTypeOK
  <2> QED BY <1>0, <1>2, <2>1, <2>2, GoesOK, ChangesOK DEF Types
<1>3. CASE Downloads(j)
  <2>1. state[j] = "running" /\ Goes(j) /\ asked' = asked
    BY <1>0, <1>3, DownloadsGoes
  <2> QED BY <1>0, <1>3, <2>1, GoesOK, DownloadsCache, DownloadsSandbox DEF Types
<1> QED BY <1>1, <1>2, <1>3, StepGroups

(* Starting a job keeps the types. *)
LEMMA StartTypes == ASSUME Types, NEW j \in Jobs, Start(j) PROVE Types'
<1>0. CacheTypeOK /\ ProgressOK /\ SandboxOK
  BY DEF Types
<1>1. \A k \in Jobs : Steps(k) \in Seq(ScriptStep) /\ Len(Steps(k)) \in Nat
  BY <1>0, StepsType
<1>2. /\ state[j] = "idle" /\ state' = [state EXCEPT ![j] = "running"] /\ step' = [step EXCEPT ![j] = 0]
      /\ data' = [data EXCEPT ![j] = None] /\ plan' = [plan EXCEPT ![j] = Nobody]
      /\ UNCHANGED <<cache, asked, asks, sandbox, faults>>
  BY DEF Start
<1>3. Steps(j) # <<>> /\ \A k \in Jobs : Steps(k)' = Steps(k)
  BY <1>0, <1>2 DEF ProgressOK, Steps
<1>4. Len(Steps(j)) > 0
  BY <1>1, <1>3
<1>5. ProgressOK'
  BY <1>0, <1>1, <1>2, <1>3, <1>4 DEF ProgressOK
<1>6. SandboxOK'
  BY <1>0, <1>2 DEF SandboxOK, sandbox, Absent
<1>7. CacheTypeOK'
  BY <1>0, <1>2 DEF CacheTypeOK, cache
<1> QED BY <1>5, <1>6, <1>7 DEF Types

(* Asking again keeps the types. *)
LEMMA AskAgainTypes == ASSUME Types, NEW j \in Jobs, AskAgain(j) PROVE Types'
<1>0. CacheTypeOK /\ ProgressOK /\ SandboxOK
  BY DEF Types
<1>1. /\ state[j] = "failed" /\ state' = [state EXCEPT ![j] = "idle"]
      /\ asks[j] < MaxAsks[asked] /\ asks' = [asks EXCEPT ![j] = @ + 1]
      /\ UNCHANGED <<cache, asked, step, data, plan, sandbox, faults>>
  BY DEF AskAgain
<1>2. ProgressOK'
  BY <1>0, <1>1 DEF ProgressOK, Steps
<1>3. asks' \in [Jobs -> 0..MaxAsks[asked]]
  <2>1. MaxAsks[asked] \in Nat /\ asks[j] \in 0..MaxAsks[asked]
    BY <1>0, ScriptAssumption DEF ProgressOK, SandboxOK
  <2> QED BY <1>0, <1>1, <2>1 DEF SandboxOK
<1>4. SandboxOK'
  BY <1>0, <1>1, <1>3 DEF SandboxOK, sandbox, Absent
<1>5. CacheTypeOK'
  BY <1>0, <1>1 DEF CacheTypeOK, cache
<1> QED BY <1>2, <1>4, <1>5 DEF Types

(* An interrupted line keeps the types. *)
LEMMA InterruptTypes == ASSUME Types, NEW l, Interrupt(l) PROVE Types'
<1>0. CacheTypeOK /\ ProgressOK /\ SandboxOK
  BY DEF Types
<1> DEFINE hit == {j \in Jobs : state[j] = "running" /\ Link[asked[j]] = l}
<1>1. /\ Fault /\ state' = [j \in Jobs |-> IF j \in hit THEN "failed" ELSE state[j]]
      /\ fetch' = [f \in Fetchers |-> IF f \in hit THEN Resting ELSE fetch[f]]
      /\ UNCHANGED <<cached, part, lockfile, doomed, asked, step, asks, data, plan, sandbox>>
  BY DEF Interrupt, Lost
<1>2. \A j \in hit : state[j] = "running"
  OBVIOUS
<1> HIDE DEF hit
<1>3. ProgressOK'
  BY <1>0, <1>1, <1>2 DEF ProgressOK, Steps
<1>4. faults' \in 0..MaxFaults
  BY <1>0, <1>1, ScriptAssumption DEF Fault, SandboxOK
<1>5. SandboxOK'
  BY <1>0, <1>1, <1>4 DEF SandboxOK, sandbox, Absent
<1>6. CacheTypeOK'
  BY <1>0, <1>1, RestingType DEF CacheTypeOK
<1> QED BY <1>3, <1>5, <1>6 DEF Types

(* Every step keeps the types. *)
LEMMA NextTypes == ASSUME Types, [Next]_vars PROVE Types'
<1>1. CASE UNCHANGED vars
  BY <1>1 DEF vars, cache, jobs, sandbox, Types, CacheTypeOK, ProgressOK, SandboxOK, Steps, Absent
<1>2. CASE Next
  BY <1>1, <1>2, StartTypes, StepTypes, AskAgainTypes, InterruptTypes DEF Next
<1> QED BY <1>1, <1>2

(* The initial state has the types. *)
LEMMA InitTypes == Init => Types
<1> SUFFICES ASSUME Init PROVE Types
  OBVIOUS
<1>1. CacheTypeOK
  BY RestingType, NoFileType DEF Init, CacheInit, CacheTypeOK
<1>2. ProgressOK
  <2>1. asked \in Casts /\ step = [j \in Jobs |-> 0]
        /\ state = [j \in Jobs |-> IF Steps(j) = <<>> THEN "ok" ELSE "idle"]
    BY DEF Init
  <2>2. ASSUME NEW j \in Jobs PROVE Len(Steps(j)) \in Nat
    <3>1. Steps(j) \in Seq(ScriptStep)
      BY <2>1, ScriptAssumption DEF Steps
    <3> QED BY <3>1
  <2> QED BY <2>1, <2>2 DEF ProgressOK
<1>3. SandboxOK
  <2>1. asked \in Casts /\ MaxFaults \in Nat /\ MaxAsks[asked] \in Nat
    BY ScriptAssumption DEF Init
  <2> QED BY <2>1 DEF Init, SandboxOK, Absent
<1> QED BY <1>1, <1>2, <1>3 DEF Types

(* The types hold in every reachable state. *)
LEMMA TypesInvariant == Spec => []Types
<1>1. Init => Types
  BY InitTypes
<1>2. Types /\ [Next]_vars => Types'
  BY NextTypes
<1> QED BY <1>1, <1>2, PTL DEF Spec

(***************************************************************************)
(* Types of the cache, the jobs and what is in the sandboxes, for every    *)
(* script made of ScriptStep: a running job has a step to do, in every     *)
(* script and however far its branches skip.                               *)
(***************************************************************************)
THEOREM InstallsTypeCorrect == Spec => []TypeOK
<1>1. Types => TypeOK
  <2> SUFFICES ASSUME Types PROVE TypeOK
    OBVIOUS
  <2>1. ASSUME NEW j \in Jobs PROVE step[j] \in 0..Len(Steps(j))
    BY StepsType DEF Types, ProgressOK
  <2> QED BY <2>1 DEF Types, ProgressOK, SandboxOK, TypeOK
<1> QED BY <1>1, TypesInvariant, PTL

-----------------------------------------------------------------------------

(* A fetch that is under way is the one its job's step asks for.           *)
FetchOf(j) ==
  fetch[j].at # "idle" =>
    /\ state[j] = "running" /\ Now(j).op = "get"
    /\ fetch[j].file = Now(j).on /\ fetch[j].want = Now(j).want /\ fetch[j].how = Now(j).how

(* If nobody prunes the entries, every lock file is the first.             *)
NoPrune == \A i \in Jobs : ~Prunes(asked, i)
LocksStay ==
  NoPrune => /\ doomed \subseteq Files \X {"tmp"}
             /\ lockfile = [n \in Files |-> 0]
             /\ \A f \in Fetchers : fetch[f].lock = 0

(* Past the lock, or past the look of a fetch that takes none.             *)
Inside(f) == fetch[f].at \in {"recheck", "open", "copy", "verify", "publish"}
Receiving(f) == fetch[f].at \in {"copy", "verify", "publish"}

Alone ==
  \A f, g \in Fetchers : f # g /\ Inside(f) /\ Inside(g) => fetch[f].file # fetch[g].file

(* What a fetch knows of the file in the cache and of the one it writes.   *)
Written(f) ==
  LET n == fetch[f].file IN
  /\ fetch[f].to # "gone" => fetch[f].to = "tmp" /\ Receiving(f)
  /\ Receiving(f) /\ fetch[f].to = "gone" => part[n].is = None
  /\ fetch[f].at = "copy" /\ fetch[f].to = "tmp" => part[n].by = f
  /\ fetch[f].at \in {"verify", "publish"} /\ fetch[f].to = "tmp" => part[n].is = fetch[f].got
  /\ Receiving(f) /\ fetch[f].how = "memory" => fetch[f].got = fetch[f].want
  /\ fetch[f].at = "publish" /\ fetch[f].to = "tmp" => fetch[f].got = fetch[f].want

Cached(f) ==
  /\ fetch[f].at = "open" => cached[fetch[f].file].is # fetch[f].want
  /\ fetch[f].at = "have" => cached[fetch[f].file].is \in {fetch[f].want, None}

Own(f) == Written(f) /\ Cached(f)

CacheInv ==
  /\ Types
  /\ \A j \in Jobs : FetchOf(j)
  /\ LocksStay
  /\ Alone
  /\ \A f \in Fetchers : Own(f)

(* Two fetches of one file at once: both are Fetch's, for one pin's        *)
(* content, and no prune is beside them.                                   *)
Sharing ==
  \A f, g \in Fetchers :
    f # g /\ fetch[f].at # "idle" /\ fetch[g].at # "idle" /\ fetch[f].file = fetch[g].file =>
      fetch[f].how = "locked" /\ fetch[g].how = "locked" /\ fetch[f].want = fetch[g].want /\ NoPrune

(* If what was asked does not mix a prune with two downloads of one file, neither do the
   fetches under way. *)
LEMMA SharingHolds ==
  ASSUME ProgressOK, Apart(asked), \A j \in Jobs : FetchOf(j) PROVE Sharing
<1> SUFFICES ASSUME NEW j \in Jobs, NEW k \in Jobs, j # k, fetch[j].at # "idle", fetch[k].at # "idle",
                    fetch[j].file = fetch[k].file
             PROVE  /\ fetch[j].how = "locked" /\ fetch[k].how = "locked"
                    /\ fetch[j].want = fetch[k].want /\ NoPrune
  BY DEF Sharing, Jobs
<1> DEFINE g == step[j] + 1  h == step[k] + 1
<1>1. /\ state[j] = "running" /\ Now(j).op = "get"
      /\ fetch[j].file = Now(j).on /\ fetch[j].want = Now(j).want /\ fetch[j].how = Now(j).how
  BY DEF FetchOf
<1>2. /\ state[k] = "running" /\ Now(k).op = "get"
      /\ fetch[k].file = Now(k).on /\ fetch[k].want = Now(k).want /\ fetch[k].how = Now(k).how
  BY DEF FetchOf
<1>3. g \in DOMAIN Steps(j) /\ h \in DOMAIN Steps(k)
  BY <1>1, <1>2, NowType
<1>4. Now(j) = Script[asked[j]][g] /\ Now(k) = Script[asked[k]][h]
  BY DEF Now, Steps
<1>5. g \in Gets(asked, j) /\ h \in Gets(asked, k)
  BY <1>1, <1>2, <1>3, <1>4 DEF Gets, Steps
<1> HIDE DEF g, h
<1>6. /\ Now(j).how = "locked" /\ Now(k).how = "locked" /\ Now(j).want = Now(k).want
      /\ \A i \in Jobs : ~Prunes(asked, i)
  <2>1. Script[asked[j]][g].on = Script[asked[k]][h].on
    BY <1>1, <1>2, <1>4
  <2>2. /\ Script[asked[j]][g].how = "locked" /\ Script[asked[k]][h].how = "locked"
        /\ Script[asked[j]][g].want = Script[asked[k]][h].want
        /\ \A i \in Jobs : ~Prunes(asked, i)
    BY <1>5, <2>1 DEF Apart
  <2> QED BY <1>4, <2>2
<1> QED BY <1>1, <1>2, <1>6 DEF NoPrune

(* What the steps of a fetch need to know of the cache, and keep.          *)
Core == CacheTypeOK /\ Sharing /\ LocksStay /\ Alone /\ \A f \in Fetchers : Own(f)

Kept == LocksStay /\ Alone /\ \A f \in Fetchers : Own(f)

(* Every other fetch is where it was.                                      *)
Beside(f) == \A g \in Fetchers \ {f} : fetch'[g] = fetch[g]

(* A fetch goes by the names it was begun with.                            *)
Named(f) == fetch'[f].file = fetch[f].file /\ fetch'[f].want = fetch[f].want /\ fetch'[f].how = fetch[f].how

(* Whoever receives the file is alone inside.                              *)
LEMMA OthersOut ==
  ASSUME Core, NEW f \in Fetchers, Inside(f), NEW g \in Fetchers \ {f}, fetch[g].file = fetch[f].file
  PROVE  ~Inside(g) /\ fetch[g].to = "gone"
<1>1. ~Inside(g)
  BY DEF Core, Alone
<1>2. Own(g)
  BY DEF Core
<1> QED BY <1>1, <1>2 DEF Own, Written, Inside, Receiving

(* A fetch that changes neither the cache nor a partial file.              *)
LEMMA LookKeeps ==
  ASSUME Core, NEW f \in Fetchers, Look(f), UNCHANGED asked PROVE Kept' /\ Beside(f) /\ Named(f)
<1> DEFINE n == fetch[f].file
<1>0. fetch[f] \in Fetch /\ n \in Files /\ Own(f)
  BY FetchFacts DEF Core
<1>1. /\ fetch[f].at = "look" /\ Beside(f) /\ Named(f) /\ UNCHANGED <<cached, part, lockfile, doomed>>
      /\ fetch'[f].at = IF Hit(f) THEN "have" ELSE IF fetch[f].how = "locked" THEN "wait" ELSE "open"
      /\ fetch'[f].lock = lockfile[n] /\ fetch'[f].to = fetch[f].to
  BY <1>0 DEF Look, Core, CacheTypeOK, Fetch, Beside, Named
<1>2. Own(f)'
  BY <1>0, <1>1 DEF Own, Written, Cached, Receiving, Hit, Named
<1>3. ASSUME NEW g \in Fetchers \ {f} PROVE Own(g)'
  BY <1>1, <1>3 DEF Core, Own, Written, Cached, Receiving, Beside
<1>4. ASSUME NEW g \in Fetchers \ {f}, Inside(g), Inside(f)' PROVE fetch[g].file # n
  <2>1. fetch[f].how # "locked" /\ fetch[f].at # "idle" /\ fetch[g].at # "idle"
    BY <1>1, <1>4 DEF Inside
  <2> QED BY <2>1 DEF Core, Sharing
<1>5. Alone'
  BY <1>1, <1>4 DEF Core, Alone, Inside, Beside, Named
<1>6. LocksStay'
  BY <1>0, <1>1 DEF Core, LocksStay, NoPrune, Prunes, Beside
<1> QED BY <1>1, <1>2, <1>3, <1>5, <1>6 DEF Kept

(* One fetch goes to another place and nothing else changes.               *)
LEMMA AtFrame ==
  ASSUME Core, NEW f \in Fetchers, NEW where \in Positions, At(f, where)
  PROVE  /\ Beside(f) /\ Named(f) /\ fetch'[f].at = where
         /\ fetch'[f].to = fetch[f].to /\ fetch'[f].got = fetch[f].got /\ fetch'[f].lock = fetch[f].lock
BY DEF At, Core, CacheTypeOK, Fetch, Beside, Named

(* If the files stay, what others know stays.                              *)
LEMMA OthersKeep ==
  ASSUME Core, NEW f \in Fetchers, Beside(f), UNCHANGED <<cached, part>>
  PROVE  \A g \in Fetchers \ {f} : Own(g)'
BY DEF Core, Own, Written, Cached, Receiving, Beside

(* Whoever was inside stays, whoever was outside stays out.                *)
LEMMA AloneKeeps ==
  ASSUME Core, NEW f \in Fetchers, Beside(f), Named(f), Inside(f) \/ ~Inside(f)' PROVE Alone'
BY DEF Core, Alone, Inside, Beside, Named

(* Without a prune every lock is on the one file of its name: a step that moves no lock
   keeps that. *)
LEMMA LocksKeep ==
  ASSUME Core, NEW f \in Fetchers, Beside(f), fetch'[f].lock = fetch[f].lock, UNCHANGED <<asked, lockfile, doomed>>
  PROVE  LocksStay'
BY DEF Core, LocksStay, NoPrune, Prunes, Beside

(* Taking the lock keeps the cache's invariant. *)
LEMMA AcquireKeeps ==
  ASSUME Core, NEW f \in Fetchers, Acquire(f), UNCHANGED asked PROVE Kept' /\ Beside(f) /\ Named(f)
<1>1. fetch[f].at = "wait" /\ Free(f) /\ At(f, "recheck") /\ UNCHANGED <<cached, part, lockfile, doomed>>
  BY DEF Acquire
<1>2. /\ Beside(f) /\ Named(f) /\ fetch'[f].at = "recheck"
      /\ fetch'[f].to = fetch[f].to /\ fetch'[f].lock = fetch[f].lock
  BY <1>1, AtFrame DEF Positions
<1>3. Own(f)'
  BY <1>1, <1>2 DEF Core, Own, Written, Cached, Receiving, Named
<1>4. ASSUME NEW g \in Fetchers \ {f}, Inside(g) PROVE fetch[g].file # fetch[f].file
  <2> SUFFICES ASSUME fetch[g].file = fetch[f].file PROVE FALSE
    OBVIOUS
  <2>1. fetch[g].how = "locked" /\ NoPrune
    BY <1>1, <1>4 DEF Core, Sharing, Inside
  <2>2. fetch[g].lock = fetch[f].lock
    BY <2>1 DEF Core, LocksStay
  <2> QED BY <1>1, <1>4, <2>1, <2>2 DEF Free, Holds, Inside
<1>5. Alone'
  BY <1>2, <1>4 DEF Core, Alone, Inside, Beside, Named
<1> QED BY <1>1, <1>2, <1>3, <1>5, OthersKeep, LocksKeep DEF Kept

(* The look under the lock keeps the cache's invariant. *)
LEMMA RecheckKeeps ==
  ASSUME Core, NEW f \in Fetchers, Recheck(f), UNCHANGED asked PROVE Kept' /\ Beside(f) /\ Named(f)
<1> DEFINE where == IF Again(f) THEN "have" ELSE "open"
<1>1. fetch[f].at = "recheck" /\ At(f, where) /\ UNCHANGED <<cached, part, lockfile, doomed>>
  BY DEF Recheck
<1>2. /\ Beside(f) /\ Named(f) /\ fetch'[f].at = where
      /\ fetch'[f].to = fetch[f].to /\ fetch'[f].lock = fetch[f].lock
  BY <1>1, AtFrame DEF Positions
<1>3. Own(f)'
  BY <1>1, <1>2 DEF Core, Own, Written, Cached, Receiving, Named, Again, Hit
<1>4. Alone'
  BY <1>1, <1>2, AloneKeeps DEF Inside
<1> QED BY <1>1, <1>2, <1>3, <1>4, OthersKeep, LocksKeep DEF Kept

(* A fetch that ends without its file.                                     *)
LEMMA FailKeeps ==
  ASSUME Core, NEW f \in Fetchers, fetch[f].to = "gone", At(f, "failed"),
         UNCHANGED <<cached, part, lockfile, doomed, asked>>
  PROVE  Kept' /\ Beside(f) /\ Named(f)
<1>2. /\ Beside(f) /\ Named(f) /\ fetch'[f].at = "failed"
      /\ fetch'[f].to = fetch[f].to /\ fetch'[f].lock = fetch[f].lock
  BY AtFrame DEF Positions
<1>3. Own(f)'
  BY <1>2 DEF Own, Written, Cached, Receiving
<1>4. Alone'
  BY <1>2, AloneKeeps DEF Inside
<1> QED BY <1>2, <1>3, <1>4, OthersKeep, LocksKeep DEF Kept

(* What others know of other files stays; of this one they write nothing.  *)
LEMMA ReceiverKeeps ==
  ASSUME Core, NEW f \in Fetchers, Inside(f), Beside(f), UNCHANGED cached,
         \A n \in Files \ {fetch[f].file} : part'[n] = part[n]
  PROVE  \A g \in Fetchers \ {f} : Own(g)'
<1> SUFFICES ASSUME NEW g \in Fetchers \ {f} PROVE Own(g)'
  OBVIOUS
<1>1. Own(g) /\ fetch[g].file \in Files /\ fetch'[g] = fetch[g]
  BY FetchFacts DEF Core, Beside
<1>2. CASE fetch[g].file = fetch[f].file
  <2>1. ~Inside(g) /\ fetch[g].to = "gone"
    BY <1>2, OthersOut
  <2> QED BY <1>1, <2>1 DEF Own, Written, Cached, Receiving, Inside
<1>3. CASE fetch[g].file # fetch[f].file
  BY <1>1, <1>3 DEF Own, Written, Cached, Receiving
<1> QED BY <1>2, <1>3

(* Opening the temporary file keeps the cache's invariant: under the lock nobody else has
   it open. *)
LEMMA OpenKeeps ==
  ASSUME Core, NEW f \in Fetchers, NEW d \in Digests, Open(f, d), UNCHANGED asked
  PROVE  Kept' /\ Beside(f) /\ Named(f)
<1> DEFINE n == fetch[f].file
<1>0. n \in Files /\ Own(f) /\ fetch[f].at = "open" /\ fetch[f].to = "gone"
  BY FetchFacts DEF Core, Open, Own, Written, Receiving
<1>1. CASE fetch[f].how = "memory" /\ d # fetch[f].want
  <2>1. At(f, "failed") /\ UNCHANGED <<cached, part, lockfile, doomed>>
    BY <1>1 DEF Open
  <2> QED BY <1>0, <2>1, FailKeeps
<1>2. CASE ~(fetch[f].how = "memory" /\ d # fetch[f].want)
  <2>1. /\ part' = [part EXCEPT ![n] = [is |-> Torn, by |-> f]]
        /\ fetch' = [fetch EXCEPT ![f] = [@ EXCEPT !.at = "copy", !.got = d, !.to = "tmp"]]
        /\ UNCHANGED <<cached, lockfile, doomed>>
    BY <1>2 DEF Open
  <2>2. /\ Beside(f) /\ Named(f) /\ fetch'[f].at = "copy" /\ fetch'[f].to = "tmp"
        /\ fetch'[f].got = d /\ fetch'[f].lock = fetch[f].lock
    BY <2>1 DEF Core, CacheTypeOK, Fetch, Beside, Named
  <2>3. part'[n].by = f /\ \A m \in Files \ {n} : part'[m] = part[m]
    BY <1>0, <2>1 DEF Core, CacheTypeOK
  <2>4. Own(f)'
    BY <1>2, <2>2, <2>3 DEF Own, Written, Cached, Receiving, Named
  <2>5. Inside(f)
    BY <1>0 DEF Inside
  <2>6. Alone'
    BY <2>2, <2>5, AloneKeeps
  <2> QED BY <2>1, <2>2, <2>3, <2>4, <2>5, <2>6, ReceiverKeeps, LocksKeep DEF Kept
<1> QED BY <1>1, <1>2

(* Receiving a part keeps the cache's invariant. *)
LEMMA CopyKeeps ==
  ASSUME Core, NEW f \in Fetchers, Copy(f), UNCHANGED asked PROVE Kept' /\ Beside(f) /\ Named(f)
<1> DEFINE n == fetch[f].file
<1>0. /\ n \in Files /\ Own(f) /\ fetch[f].at = "copy" /\ fetch[f].to # "dst" /\ fetch[f].got \in Digests
      /\ Inside(f)
  BY FetchFacts DEF Core, Copy, Own, Written, Inside
<1>1. At(f, "verify") /\ UNCHANGED <<cached, lockfile, doomed>>
  BY <1>0 DEF Copy
<1>2. /\ Beside(f) /\ Named(f) /\ fetch'[f].at = "verify" /\ fetch'[f].to = fetch[f].to
      /\ fetch'[f].got = fetch[f].got /\ fetch'[f].lock = fetch[f].lock
  BY <1>1, AtFrame DEF Positions
<1>3. \A m \in Files \ {n} : part'[m] = part[m]
  BY <1>0 DEF Core, CacheTypeOK, Copy
<1>4. ASSUME fetch[f].to = "tmp" PROVE Own(f)'
  <2>1. part[n].by = f /\ part[n] \in Content
    BY <1>0, <1>4 DEF Own, Written, Core, CacheTypeOK
  <2>2. part'[n] = [part[n] EXCEPT !.is = fetch[f].got]
    BY <1>0, <1>4, <2>1 DEF Copy, Filled, Core, CacheTypeOK
  <2>3. part'[n].is = fetch[f].got
    BY <2>1, <2>2 DEF Content
  <2> QED BY <1>0, <1>2, <1>4, <2>3 DEF Own, Written, Cached, Receiving, Named
<1>5. ASSUME fetch[f].to # "tmp" PROVE Own(f)'
  <2>1. fetch[f].to = "gone" /\ part' = part
    BY <1>0, <1>5 DEF Copy, Core, CacheTypeOK, Fetch
  <2> QED BY <1>0, <1>2, <2>1 DEF Own, Written, Cached, Receiving, Named
<1>6. Own(f)'
  BY <1>4, <1>5
<1>7. Alone'
  BY <1>0, <1>2, AloneKeeps
<1> QED BY <1>0, <1>1, <1>2, <1>3, <1>6, <1>7, ReceiverKeeps, LocksKeep DEF Kept

(* Nobody else has the partial file open that a fetch takes away.          *)
LEMMA MovedAlone ==
  ASSUME Core, NEW f \in Fetchers, Inside(f), NEW to, NEW g \in Fetchers \ {f}
  PROVE  Moved(fetch[f].file, "tmp", to)[g] = fetch[g]
<1>1. fetch[g].file = fetch[f].file => fetch[g].to = "gone"
  BY OthersOut
<1> QED BY <1>1 DEF Moved

(* Discarding a download keeps the cache's invariant. *)
LEMMA DiscardKeeps ==
  ASSUME Core, NEW f \in Fetchers, Receiving(f), Discard(f), UNCHANGED asked
  PROVE  Kept' /\ Beside(f) /\ Named(f)
<1> DEFINE n == fetch[f].file  moved == Moved(n, "tmp", "gone")
<1>0. n \in Files /\ Own(f) /\ Inside(f) /\ fetch[f] \in Fetch /\ fetch[f].to # "dst"
  BY FetchFacts DEF Core, Inside, Receiving, Own, Written
<1>1. /\ part' = [part EXCEPT ![n] = NoFile] /\ fetch' = [moved EXCEPT ![f].at = "failed"]
      /\ UNCHANGED <<cached, lockfile, doomed>>
  BY DEF Discard
<1>2. DOMAIN moved = Fetchers /\ moved[f] = [fetch[f] EXCEPT !.to = "gone"]
  <2>1. CASE fetch[f].to = "tmp"
    BY <2>1 DEF Moved
  <2>2. CASE fetch[f].to = "gone"
    BY <1>0, <2>2 DEF Moved, Fetch
  <2> QED BY <1>0, <2>1, <2>2 DEF Fetch, Moved
<1>3. \A g \in Fetchers \ {f} : moved[g] = fetch[g]
  BY <1>0, MovedAlone
<1> HIDE DEF moved
<1>4. /\ Beside(f) /\ Named(f) /\ fetch'[f].at = "failed" /\ fetch'[f].to = "gone"
      /\ fetch'[f].lock = fetch[f].lock
  BY <1>0, <1>1, <1>2, <1>3 DEF Beside, Named, Fetch
<1>5. \A m \in Files \ {n} : part'[m] = part[m]
  BY <1>0, <1>1 DEF Core, CacheTypeOK
<1>6. Own(f)'
  BY <1>4 DEF Own, Written, Cached, Receiving
<1>7. Alone'
  BY <1>0, <1>4, AloneKeeps
<1> QED BY <1>0, <1>1, <1>4, <1>5, <1>6, <1>7, ReceiverKeeps, LocksKeep DEF Kept

(* What is published was hashed, in memory or in its file.                 *)
LEMMA VerifyKeeps ==
  ASSUME Core, NEW f \in Fetchers, Verify(f), UNCHANGED asked PROVE Kept' /\ Beside(f) /\ Named(f)
<1>0. Own(f) /\ fetch[f].at = "verify" /\ Inside(f) /\ Receiving(f) /\ fetch[f].how \in Manners
  BY FetchFacts DEF Core, Verify, Inside, Receiving
<1>1. CASE Verified(f)
  <2>1. At(f, "publish") /\ UNCHANGED <<cached, part, lockfile, doomed>>
    BY <1>1 DEF Verify
  <2>2. /\ Beside(f) /\ Named(f) /\ fetch'[f].at = "publish" /\ fetch'[f].to = fetch[f].to
        /\ fetch'[f].got = fetch[f].got /\ fetch'[f].lock = fetch[f].lock
    BY <2>1, AtFrame DEF Positions
  <2>3. fetch[f].to = "tmp" => fetch[f].got = fetch[f].want
    BY <1>0, <1>1 DEF Own, Written, Verified, Manners
  <2>4. Own(f)'
    BY <1>0, <2>1, <2>2, <2>3 DEF Own, Written, Cached, Receiving, Named
  <2>5. Alone'
    BY <1>0, <2>2, AloneKeeps
  <2> QED BY <2>1, <2>2, <2>4, <2>5, OthersKeep, LocksKeep DEF Kept
<1>2. CASE ~Verified(f)
  BY <1>0, <1>2, DiscardKeeps DEF Verify
<1> QED BY <1>1, <1>2

(* An interrupted download keeps the cache's invariant. *)
LEMMA AbortKeeps ==
  ASSUME Core, NEW f \in Fetchers, Abort(f), UNCHANGED asked PROVE Kept' /\ Beside(f) /\ Named(f)
<1>0. Own(f)
  BY DEF Core
<1>1. CASE fetch[f].at = "copy" /\ Discard(f)
  BY <1>1, DiscardKeeps DEF Receiving
<1>2. CASE fetch[f].at = "open" /\ At(f, "failed") /\ UNCHANGED <<cached, part, lockfile, doomed>>
  <2>1. fetch[f].to = "gone"
    BY <1>0, <1>2 DEF Own, Written, Receiving
  <2> QED BY <1>2, <2>1, FailKeeps
<1> QED BY <1>1, <1>2 DEF Abort

(* The file renamed into place is the one that was hashed, and what was    *)
(* handed out before is replaced by the same content.                      *)
LEMMA PublishKeeps ==
  ASSUME Core, NEW f \in Fetchers, Publish(f), UNCHANGED asked PROVE Kept' /\ Beside(f) /\ Named(f)
<1> DEFINE n == fetch[f].file  moved == Moved(n, "tmp", "dst")
<1>0. /\ n \in Files /\ Own(f) /\ fetch[f].at = "publish" /\ Inside(f) /\ Receiving(f) /\ fetch[f] \in Fetch
      /\ fetch[f].got \in Digests
  BY FetchFacts DEF Core, Publish, Inside, Receiving
<1>1. CASE part[n].is = None
  <2>1. fetch[f].to = "gone"
    BY <1>0, <1>1, CacheAssumption DEF Own, Written
  <2> QED BY <1>1, <2>1, FailKeeps DEF Publish
<1>2. CASE part[n].is # None
  <2>1. fetch[f].to = "tmp" /\ part[n].is = fetch[f].want
    BY <1>0, <1>2 DEF Own, Written
  <2>2. /\ fetch' = [moved EXCEPT ![f] = [@ EXCEPT !.at = "have", !.to = "gone"]]
        /\ cached' = [cached EXCEPT ![n] = part[n]] /\ part' = [part EXCEPT ![n] = NoFile]
        /\ UNCHANGED <<lockfile, doomed>>
    BY <1>2 DEF Publish
  <2>3. DOMAIN moved = Fetchers /\ moved[f] = [fetch[f] EXCEPT !.to = "dst"]
    BY <2>1 DEF Moved
  <2>4. \A g \in Fetchers \ {f} : moved[g] = fetch[g]
    BY <1>0, MovedAlone
  <2> HIDE DEF moved
  <2>5. /\ Beside(f) /\ Named(f) /\ fetch'[f].at = "have" /\ fetch'[f].to = "gone"
        /\ fetch'[f].lock = fetch[f].lock
    BY <1>0, <2>2, <2>3, <2>4 DEF Beside, Named, Fetch
  <2>6. /\ cached'[n].is = fetch[f].want
        /\ \A m \in Files \ {n} : cached'[m] = cached[m] /\ part'[m] = part[m]
    BY <1>0, <2>1, <2>2 DEF Core, CacheTypeOK
  <2>7. Own(f)'
    BY <2>5, <2>6 DEF Own, Written, Cached, Receiving, Named
  <2>8. ASSUME NEW g \in Fetchers \ {f} PROVE Own(g)'
    <3>1. Own(g) /\ fetch[g].file \in Files /\ fetch'[g] = fetch[g]
      BY <2>5, FetchFacts DEF Core, Beside
    <3>2. CASE fetch[g].file = n
      <4>1. ~Inside(g) /\ fetch[g].to = "gone"
        BY <1>0, <3>2, OthersOut
      <4>2. fetch[g].at = "have" => fetch[g].want = fetch[f].want
        BY <1>0, <3>2 DEF Core, Sharing
      <4> QED BY <2>6, <3>1, <3>2, <4>1, <4>2 DEF Own, Written, Cached, Receiving, Inside
    <3>3. CASE fetch[g].file # n
      BY <2>6, <3>1, <3>3 DEF Own, Written, Cached, Receiving
    <3> QED BY <3>2, <3>3
  <2>9. Alone'
    BY <1>0, <2>5, AloneKeeps
  <2> QED BY <2>2, <2>5, <2>7, <2>8, <2>9, LocksKeep DEF Kept
<1> QED BY <1>1, <1>2

(* A prune leaves every fetch where it is.                                 *)
Placed == \A g \in Fetchers : Named(g) /\ fetch'[g].at = fetch[g].at /\ fetch'[g].lock = fetch[g].lock

(* A step that moves no fetch leaves each file with at most one fetch past its lock. *)
LEMMA PlacedAlone == ASSUME Core, Placed PROVE Alone'
BY DEF Core, Alone, Inside, Placed, Named

(* Only a prune of everything lists an entry.                              *)
LEMMA ListKeeps ==
  ASSUME Core, NEW all \in BOOLEAN, List(all), NoPrune => ~all, UNCHANGED asked PROVE Kept' /\ Placed
<1>1. doomed' = Victims(all) /\ UNCHANGED <<cached, part, lockfile, fetch>>
  BY DEF List
<1>2. LocksStay'
  BY <1>1 DEF Core, LocksStay, NoPrune, Prunes, Victims
<1>3. Alone' /\ \A f \in Fetchers : Own(f)'
  BY <1>1 DEF Core, Alone, Inside, Own, Written, Cached, Receiving
<1> QED BY <1>1, <1>2, <1>3 DEF Kept, Placed, Named

(* What it removes is removed under a fetch: an entry is missed and not    *)
(* mistaken, a partial file is not renamed.                                *)
LEMMA RemoveKeeps ==
  ASSUME Core, NEW n \in Files, NEW kind \in {"asset", "lock", "tmp"}, Remove(n, kind), UNCHANGED asked
  PROVE  Kept' /\ Placed
<1>0. <<n, kind>> \in doomed /\ \A g \in Fetchers : Own(g) /\ fetch[g] \in Fetch
  BY FetchFacts DEF Core, Remove
<1>1. CASE kind = "asset"
  <2>1. /\ cached' = [cached EXCEPT ![n] = NoFile] /\ part' = part /\ lockfile' = lockfile
        /\ fetch' = Moved(n, "dst", "gone")
    BY <1>1 DEF Remove
  <2>2. \A g \in Fetchers : fetch'[g] = fetch[g]
    BY <1>0, <2>1 DEF Moved, Own, Written
  <2>3. Placed
    BY <2>2 DEF Placed, Named
  <2>4. \A m \in Files : cached'[m] = cached[m] \/ cached'[m].is = None
    BY <2>1 DEF NoFile, Core, CacheTypeOK
  <2>5. ASSUME NEW g \in Fetchers PROVE Own(g)'
    <3>1. fetch'[g] = fetch[g] /\ fetch[g].file \in Files /\ fetch[g].want # None
      BY <2>2, FetchFacts, CacheAssumption DEF Core
    <3> QED BY <1>0, <2>1, <2>4, <3>1 DEF Own, Written, Cached, Receiving
  <2>6. ~NoPrune
    BY <1>0, <1>1 DEF Core, LocksStay
  <2>7. LocksStay'
    BY <2>6 DEF LocksStay, NoPrune, Prunes
  <2> QED BY <2>3, <2>5, <2>7, PlacedAlone DEF Kept
<1>2. CASE kind = "lock"
  <2>1. UNCHANGED <<cached, part, fetch>>
    BY <1>2 DEF Remove
  <2>2. ~NoPrune
    BY <1>0, <1>2 DEF Core, LocksStay
  <2>3. LocksStay'
    BY <2>2 DEF LocksStay, NoPrune, Prunes
  <2>4. \A g \in Fetchers : Own(g)'
    BY <1>0, <2>1 DEF Own, Written, Cached, Receiving
  <2>5. Placed
    BY <2>1 DEF Placed, Named
  <2> QED BY <2>3, <2>4, <2>5, PlacedAlone DEF Kept
<1>3. CASE kind = "tmp"
  <2>1. /\ cached' = cached /\ part' = [part EXCEPT ![n] = NoFile] /\ lockfile' = lockfile
        /\ fetch' = Moved(n, "tmp", "gone") /\ doomed' = doomed \ {<<n, kind>>}
    BY <1>3 DEF Remove
  <2>2. ASSUME NEW g \in Fetchers
        PROVE  /\ Named(g) /\ fetch'[g].at = fetch[g].at /\ fetch'[g].lock = fetch[g].lock
               /\ fetch'[g].got = fetch[g].got
               /\ fetch'[g].to = IF fetch[g].file = n THEN "gone" ELSE fetch[g].to
    <3>1. fetch[g] \in Fetch /\ fetch[g].to # "dst"
      BY <1>0 DEF Own, Written
    <3>2. fetch'[g] = IF fetch[g].file = n /\ fetch[g].to = "tmp" THEN [fetch[g] EXCEPT !.to = "gone"] ELSE fetch[g]
      BY <2>1 DEF Moved
    <3> QED BY <3>1, <3>2 DEF Fetch, Named
  <2>3. Placed
    BY <2>2 DEF Placed
  <2>4. part'[n].is = None /\ \A m \in Files \ {n} : part'[m] = part[m]
    BY <2>1 DEF NoFile, Core, CacheTypeOK
  <2>5. ASSUME NEW g \in Fetchers PROVE Own(g)'
    <3>1. fetch[g].file \in Files
      BY FetchFacts DEF Core
    <3> QED BY <1>0, <2>1, <2>2, <2>4, <3>1 DEF Own, Written, Cached, Receiving, Named
  <2>6. LocksStay'
    BY <2>1, <2>2 DEF Core, LocksStay, NoPrune, Prunes
  <2> QED BY <2>3, <2>5, <2>6, PlacedAlone DEF Kept
<1> QED BY <1>1, <1>2, <1>3

(* Fetches that begin or are over know nothing.                            *)
LEMMA FreshKeeps ==
  ASSUME Core, NEW fresh \in SUBSET Fetchers, \A f \in Fetchers \ fresh : fetch'[f] = fetch[f],
         \A f \in fresh : fetch'[f].at \in {"idle", "look"} /\ fetch'[f].to = "gone" /\ fetch'[f].lock = 0,
         UNCHANGED <<cached, part, lockfile, doomed, asked>>
  PROVE  Kept'
<1>1. ASSUME NEW f \in Fetchers PROVE Own(f)'
  <2>1. CASE f \in fresh
    BY <2>1 DEF Own, Written, Cached, Receiving
  <2>2. CASE f \notin fresh
    BY <2>2 DEF Core, Own, Written, Cached, Receiving
  <2> QED BY <2>1, <2>2
<1>2. Alone'
  BY DEF Core, Alone, Inside
<1>3. LocksStay'
  BY DEF Core, LocksStay, NoPrune, Prunes
<1> QED BY <1>1, <1>2, <1>3 DEF Kept

-----------------------------------------------------------------------------

(* Every job's fetch is its step's, whoever moves.                         *)
Fetches == \A j \in Jobs : FetchOf(j)

(* A job that does not move keeps its fetch, if that goes on or has ended. *)
LEMMA FetchOfKeeps ==
  ASSUME NEW k \in Jobs, FetchOf(k), state'[k] = state[k], Now(k)' = Now(k),
         fetch'[k].at = "idle" \/ (Named(k) /\ fetch[k].at # "idle")
  PROVE  FetchOf(k)'
BY DEF FetchOf, Named

(* A job that moves leaves the others at their steps. *)
LEMMA OthersStand ==
  ASSUME ProgressOK, NEW j \in Jobs, Goes(j), asked' = asked, NEW k \in Jobs \ {j}
  PROVE  state'[k] = state[k] /\ Now(k)' = Now(k)
BY DEF ProgressOK, Goes, Finish, Advance, Now, Steps

(* A job that does something else has no fetch under way.                  *)
LEMMA QuietFetches ==
  ASSUME Fetches, NEW j \in Jobs, fetch[j].at = "idle", UNCHANGED <<fetch, asked>>,
         \A k \in Jobs \ {j} : state'[k] = state[k] /\ step'[k] = step[k]
  PROVE  Fetches'
<1> SUFFICES ASSUME NEW k \in Jobs PROVE FetchOf(k)'
  BY DEF Fetches
<1>1. CASE k = j
  BY <1>1 DEF FetchOf
<1>2. CASE k # j
  BY <1>2 DEF Fetches, FetchOf, Now, Steps
<1> QED BY <1>1, <1>2

(* The cache as it is, whoever moves in the sandbox.                       *)
LEMMA QuietKeeps == ASSUME Core, UNCHANGED <<cache, asked>> PROVE Kept'
BY DEF Core, Kept, cache, LocksStay, NoPrune, Prunes, Alone, Inside, Own, Written, Cached, Receiving

(* A job that moves leaves the others' states and places alone. *)
LEMMA OthersSteps ==
  ASSUME ProgressOK, NEW j \in Jobs, Goes(j) PROVE \A k \in Jobs \ {j} : state'[k] = state[k] /\ step'[k] = step[k]
BY DEF ProgressOK, Goes, Finish, Advance

(* A job at a step that does not download has no fetch under way. *)
LEMMA QuietIdle ==
  ASSUME Fetches, NEW j \in Jobs, Looks(j) \/ Changes(j) \/ ListCache(j) \/ RemoveListed(j)
  PROVE  fetch[j].at = "idle"
<1>1. Now(j).op # "get"
  BY DEF Looks, HitRuns, HitStamped, SkipPresent, Locate, Vacant, Fallback, Stopped, Run, Use,
         Changes, Build, Clear, Push, Stamp, Resolve, Read, Add, ListCache, RemoveListed, AtStep
<1> QED BY <1>1 DEF Fetches, FetchOf

(* One fetch of a job that stays where it is moves on.                     *)
LEMMA MovingFetches ==
  ASSUME Fetches, NEW j \in Jobs, UNCHANGED jobs, fetch[j].at # "idle", Beside(j), Named(j)
  PROVE  Fetches'
<1> SUFFICES ASSUME NEW k \in Jobs PROVE FetchOf(k)'
  BY DEF Fetches
<1>1. FetchOf(k) /\ state'[k] = state[k] /\ Now(k)' = Now(k)
  BY DEF Fetches, jobs, Now, Steps
<1>2. fetch'[k].at = "idle" \/ (Named(k) /\ fetch[k].at # "idle")
  BY DEF Beside, Named, Jobs
<1> QED BY <1>1, <1>2, FetchOfKeeps

(* A downloading step keeps the cache's invariant and the owner of each fetch. *)
LEMMA DownloadsKeep ==
  ASSUME Core, ProgressOK, Fetches, NEW j \in Jobs, Downloads(j) PROVE Kept' /\ Fetches'
<1>0. asked' = asked /\ j \in Fetchers /\ Goes(j)
  BY DownloadsGoes DEF Jobs
<1>1. CASE Ask(j)
  <2>1. /\ AtStep(j, "get") /\ Begin(j, Now(j).on, Now(j).want, Now(j).how)
        /\ UNCHANGED <<cached, part, lockfile, doomed, jobs>>
    BY <1>1 DEF Ask
  <2>2. /\ Beside(j) /\ fetch'[j].at = "look" /\ fetch'[j].to = "gone" /\ fetch'[j].lock = 0
        /\ fetch'[j].file = Now(j).on /\ fetch'[j].want = Now(j).want /\ fetch'[j].how = Now(j).how
    BY <1>0, <2>1 DEF Begin, Beside, Core, CacheTypeOK
  <2>3. Kept'
    BY <1>0, <2>1, <2>2, FreshKeeps, {j} \in SUBSET Fetchers DEF Beside
  <2>4. \A k \in Jobs : state'[k] = state[k] /\ Now(k)' = Now(k)
    BY <2>1 DEF jobs, Now, Steps
  <2>5. FetchOf(j)'
    BY <2>1, <2>2, <2>4 DEF FetchOf, AtStep
  <2>6. \A k \in Jobs \ {j} : FetchOf(k)'
    BY <2>2, <2>4 DEF Fetches, FetchOf, Beside, Jobs
  <2> QED BY <2>3, <2>5, <2>6 DEF Fetches
<1>2. CASE Fetching(j)
  <2>1. CacheStep(j) /\ UNCHANGED jobs
    BY <1>2 DEF Fetching
  <2>2. fetch[j].at # "idle"
    BY <2>1 DEF CacheStep, Look, Acquire, Recheck, Copy, Verify, Publish
  <2>3. Kept' /\ Beside(j) /\ Named(j)
    BY <1>0, <2>1, LookKeeps, AcquireKeeps, RecheckKeeps, CopyKeeps, VerifyKeeps, PublishKeeps DEF CacheStep
  <2> QED BY <2>1, <2>2, <2>3, MovingFetches
<1>3. CASE Served(j)
  <2>1. PICK d \in Digests : Open(j, d)
    BY <1>3 DEF Served
  <2>2. Kept' /\ Beside(j) /\ Named(j) /\ fetch[j].at # "idle" /\ UNCHANGED jobs
    BY <1>0, <1>3, <2>1, OpenKeeps DEF Open, Served
  <2> QED BY <2>2, MovingFetches
<1>4. CASE Refused(j)
  <2>1. Abort(j) /\ UNCHANGED jobs
    BY <1>4 DEF Refused
  <2>2. Kept' /\ Beside(j) /\ Named(j) /\ fetch[j].at # "idle"
    BY <1>0, <2>1, AbortKeeps DEF Abort
  <2> QED BY <2>1, <2>2, MovingFetches
<1>5. CASE Take(j)
  <2>1. /\ fetch' = [fetch EXCEPT ![j] = Resting]
        /\ UNCHANGED <<cached, part, lockfile, doomed, asked>>
    BY <1>5 DEF Take
  <2>2. /\ Beside(j) /\ fetch'[j].at = "idle" /\ fetch'[j].to = "gone" /\ fetch'[j].lock = 0
    BY <1>0, <2>1 DEF Resting, Beside, Core, CacheTypeOK
  <2>3. Kept'
    BY <1>0, <2>1, <2>2, FreshKeeps, {j} \in SUBSET Fetchers DEF Beside
  <2>4. FetchOf(j)'
    BY <2>2 DEF FetchOf
  <2>5. \A k \in Jobs \ {j} : state'[k] = state[k] /\ Now(k)' = Now(k)
    BY <1>0, OthersStand
  <2>6. \A k \in Jobs \ {j} : FetchOf(k)'
    BY <2>2, <2>5 DEF Fetches, FetchOf, Beside, Jobs
  <2> QED BY <2>3, <2>4, <2>6 DEF Fetches
<1>6. CASE ListCache(j) \/ RemoveListed(j)
  <2>1. fetch[j].at = "idle"
    BY <1>6, QuietIdle
  <2>2. Kept' /\ Placed
    <3>1. CASE ListCache(j)
      <4>1. List(On(j) = "all") /\ AtStep(j, "list")
        BY <3>1 DEF ListCache
      <4>2. Now(j) \in ScriptStep /\ step[j] + 1 \in DOMAIN Steps(j) /\ Now(j).op = "list"
        BY <4>1, NowType DEF AtStep
      <4>3. On(j) = "all" => Now(j) = Do("list", "all")
        BY <4>2 DEF ScriptStep, OnTree, On, Do
      <4>4. NoPrune => On(j) # "all"
        BY <4>2, <4>3 DEF NoPrune, Prunes, Now, Steps
      <4> QED BY <1>0, <4>1, <4>4, ListKeeps
    <3>2. CASE RemoveListed(j)
      <4>1. UNCHANGED cache \/ \E x \in doomed : Remove(x[1], x[2])
        BY <3>2 DEF RemoveListed
      <4>2. CASE UNCHANGED cache
        BY <1>0, <4>2, QuietKeeps DEF cache, Placed, Named
      <4>3. ASSUME NEW x \in doomed, Remove(x[1], x[2]) PROVE Kept' /\ Placed
        <5>1. x[1] \in Files /\ x[2] \in {"asset", "lock", "tmp"}
          BY DEF Core, CacheTypeOK
        <5> QED BY <1>0, <4>3, <5>1, RemoveKeeps
      <4> QED BY <4>1, <4>2, <4>3
    <3> QED BY <1>6, <3>1, <3>2
  <2>3. FetchOf(j)'
    BY <1>0, <2>1, <2>2 DEF FetchOf, Placed
  <2>4. ASSUME NEW k \in Jobs \ {j} PROVE FetchOf(k)'
    <3>1. state'[k] = state[k] /\ Now(k)' = Now(k)
      BY <1>0, OthersStand
    <3>2. fetch'[k].at = "idle" \/ (Named(k) /\ fetch[k].at # "idle")
      BY <2>2 DEF Placed, Jobs
    <3> QED BY <3>1, <3>2, FetchOfKeeps DEF Fetches
  <2> QED BY <2>2, <2>3, <2>4 DEF Fetches
<1> QED BY <1>1, <1>2, <1>3, <1>4, <1>5, <1>6 DEF Downloads

(* Starting a job, or asking again, keeps the cache's invariant and the owner of each
   fetch. *)
LEMMA StartKeeps == ASSUME Core, Types, Fetches, NEW j \in Jobs, Start(j) \/ AskAgain(j) PROVE Kept' /\ Fetches'
<1>1. /\ state[j] # "running" /\ UNCHANGED <<cache, asked>>
      /\ \A k \in Jobs \ {j} : state'[k] = state[k] /\ step'[k] = step[k]
  BY DEF Start, AskAgain, Types, ProgressOK
<1>2. fetch[j].at = "idle"
  BY <1>1 DEF Fetches, FetchOf
<1> QED BY <1>1, <1>2, QuietKeeps, QuietFetches DEF cache

(* The fetches of a process that has died are over; the other processes'   *)
(* go on beside what it left.                                              *)
LEMMA InterruptKeeps == ASSUME Core, Types, Fetches, NEW l, Interrupt(l) PROVE Kept' /\ Fetches'
<1> DEFINE hit == {j \in Jobs : state[j] = "running" /\ Link[asked[j]] = l}
<1>1. /\ state' = [j \in Jobs |-> IF j \in hit THEN "failed" ELSE state[j]]
      /\ fetch' = [f \in Fetchers |-> IF f \in hit THEN Resting ELSE fetch[f]]
      /\ UNCHANGED <<cached, part, lockfile, doomed, asked, step>>
  BY DEF Interrupt, Lost
<1>2. hit \in SUBSET Fetchers
  BY DEF Jobs
<1> HIDE DEF hit
<1>3. \A f \in hit : fetch'[f].at = "idle" /\ fetch'[f].to = "gone" /\ fetch'[f].lock = 0
  BY <1>1, <1>2 DEF Resting
<1>4. \A f \in Fetchers \ hit : fetch'[f] = fetch[f] /\ state'[f] = state[f]
  BY <1>1 DEF Jobs
<1>5. Kept'
  BY <1>1, <1>2, <1>3, <1>4, FreshKeeps
<1>6. ASSUME NEW k \in Jobs PROVE FetchOf(k)'
  <2>1. Now(k)' = Now(k)
    BY <1>1 DEF Now, Steps
  <2>2. CASE k \in hit
    BY <1>3, <2>2 DEF FetchOf
  <2>3. CASE k \notin hit
    BY <1>4, <2>1, <2>3 DEF Fetches, FetchOf, Jobs
  <2> QED BY <2>2, <2>3
<1> QED BY <1>5, <1>6 DEF Fetches

(* Every step keeps the cache's invariant while what was asked stays apart. *)
LEMMA NextKeeps ==
  ASSUME CacheInv, Apart(asked), [Next]_vars PROVE CacheInv'
<1>0. Types /\ Types' /\ ProgressOK /\ Fetches
  BY NextTypes DEF CacheInv, Types, Fetches
<1>1. Core
  BY <1>0, SharingHolds DEF CacheInv, Core, Types, Fetches
<1>2. ASSUME NEW j \in Jobs, Step(j) \/ Refused(j) PROVE Kept' /\ Fetches'
  <2>1. CASE Looks(j)
    <3>1. Goes(j) /\ UNCHANGED <<cache, asked>>
      BY <1>0, <2>1, LooksOK
    <3> QED BY <1>0, <1>1, <2>1, <3>1, QuietKeeps, QuietIdle, QuietFetches, OthersSteps DEF cache
  <2>2. CASE Changes(j)
    <3>1. Goes(j) /\ UNCHANGED <<cache, asked>>
      BY <1>0, <2>2, ChangesGoes
    <3> QED BY <1>0, <1>1, <2>2, <3>1, QuietKeeps, QuietIdle, QuietFetches, OthersSteps DEF cache
  <2> QED BY <1>0, <1>1, <1>2, <2>1, <2>2, StepGroups, DownloadsKeep
<1>3. Kept' /\ Fetches'
  <2>1. CASE UNCHANGED vars
    BY <1>0, <1>1, <2>1, QuietKeeps DEF vars, cache, jobs, Fetches, FetchOf, Now, Steps
  <2> QED BY <1>0, <1>1, <1>2, <2>1, StartKeeps, InterruptKeeps DEF Next
<1> QED BY <1>0, <1>3 DEF CacheInv, Kept, Fetches

(* The invariant behind the two theorems: a file has at most one receiver, *)
(* who knows what he writes and what is in the cache.                      *)
LEMMA CacheInvariant ==
  ASSUME \A c \in Casts : Apart(c) PROVE Spec => []CacheInv
<1>1. Init => CacheInv
  <2> SUFFICES ASSUME Init PROVE CacheInv
    OBVIOUS
  <2>1. Types
    BY InitTypes
  <2>2. \A f \in Fetchers : fetch[f].at = "idle" /\ fetch[f].to = "gone" /\ fetch[f].lock = 0
    BY DEF Init, CacheInit, Resting
  <2>3. LocksStay
    BY <2>2 DEF Init, CacheInit, LocksStay
  <2> QED BY <2>1, <2>2, <2>3 DEF CacheInv, FetchOf, Alone, Inside, Own, Written, Cached, Receiving, Jobs
<1>2. CacheInv /\ [Next]_vars => CacheInv'
  <2> SUFFICES ASSUME CacheInv, [Next]_vars PROVE CacheInv'
    OBVIOUS
  <2>1. asked \in Casts
    BY DEF CacheInv, Types, ProgressOK
  <2> QED BY <2>1, NextKeeps
<1> QED BY <1>1, <1>2, PTL DEF Spec

(***************************************************************************)
(* What a fetch hands to its caller is what the pin names, or was pruned:  *)
(* whatever any number of jobs and processes download, prune, lose or      *)
(* spoil beside it (relay/fetch.go, maven.go, agent/install.go).  Apart    *)
(* is needed: the launcher's and the agent's downloads take no lock, and a *)
(* prune of all entries removes the lock of two that wait for one file;    *)
(* beside either of these the statement is false (MCLaunchers, MCPrunes).  *)
(***************************************************************************)
THEOREM InstallsHandOverVerified ==
  ASSUME \A c \in Casts : Apart(c) PROVE Spec => []HandsOverVerified
<1>1. CacheInv => HandsOverVerified
  BY DEF CacheInv, Own, Cached, HandsOverVerified
<1> QED BY <1>1, CacheInvariant, PTL

(***************************************************************************)
(* Whoever starts to receive has looked under the lock and found nothing,  *)
(* and nobody has put it there since: the lock's file is one file as long  *)
(* as no prune removes it.                                                 *)
(***************************************************************************)
THEOREM InstallsDownloadOnce ==
  ASSUME \A c \in Casts : Apart(c) PROVE Spec => OneDownload
<1>1. CacheInv =>
        [\A f \in Fetchers :
           fetch[f].at = "open" /\ fetch'[f].at = "copy" => cached[fetch[f].file].is # fetch[f].want]_cache
  BY DEF CacheInv, Own, Cached
<1> QED BY <1>1, CacheInvariant, PTL DEF OneDownload

-----------------------------------------------------------------------------
(* What one request has reported stands beside the others.                 *)

Yields == Delivers \cup {"read"}

(* The steps on its way that a job has behind it, and what each has left.  *)
Made(j) == {i \in Taken(j) : state[j] = "ok" \/ (state[j] = "running" /\ i <= step[j])}

Firm(j, i) ==
  LET s == Steps(j)[i] IN
  /\ s.op = "run" => Works(s.on)
  /\ s.op = "stamp" => Whole(s.on) /\ s.on \in stamp
  /\ s.op = "use" => Whole(s.on)
  /\ s.op = "add" => j \in added[s.on]
  /\ s.op = "read" => plan[j] = j

MadeInv == \A j \in Jobs : \A i \in Made(j) : Firm(j, i)

(* Packages and markers are in whole trees, and a tree has one content.    *)
TreesInv ==
  \A t \in Trees :
    /\ added[t] # {} \/ t \in stamp => Whole(t)
    /\ \A p \in DOMAIN Absent : tree[t][p] \in Pushed(asked, t) \cup {None}

(* A job that is about to push holds what its script made for it.          *)
DataInv ==
  \A j \in Jobs : state[j] = "running" =>
    \A k \in DOMAIN Steps(j) : Source(Steps(j), k, step[j] + 1) => data[j] = Steps(j)[k].want

MarkInv == \A j \in Jobs : AtStep(j, "stamp") => Whole(On(j))

(* Whoever is about to replace a tree has found that it is not there, and  *)
(* nobody has put it there since.                                          *)
Offered(t) == \E k \in Jobs : Has(asked, k, Delivers, t)

Replacing(j) ==
  /\ state[j] = "running" /\ step[j] \in {1, 2} /\ 3 \in DOMAIN Steps(j)
  /\ Steps(j)[3].op = "clear" /\ Offered(Steps(j)[3].on)

Found(j) ==
  /\ Works(Steps(j)[3].on)
  /\ Steps(j)[1].op = "hitStamped" => Steps(j)[3].on \in stamp

WindowInv == \A j \in Jobs : Replacing(j) => ~Found(j)

PlanInv ==
  \A j \in Jobs :
    /\ AtStep(j, "read") => report = j
    /\ state[j] \in {"running", "ok"} => plan[j] \in {Nobody, j}

KeysInv == \A j, k \in Jobs : j # k /\ SameKey(j, k) => ~(state[j] = "running" /\ state[k] = "running")

StandInv == MadeInv /\ TreesInv /\ DataInv /\ MarkInv /\ WindowInv /\ PlanInv /\ KeysInv

(* A script in a steady cast, step by step.                                *)
LEMMA Scripts ==
  ASSUME ProgressOK, Steady(asked), NEW j \in Jobs
  PROVE  /\ Orderly(Steps(j)) /\ Len(Steps(j)) \in Nat /\ DOMAIN Steps(j) = 1..Len(Steps(j))
         /\ \A i \in DOMAIN Steps(j) : Steps(j)[i] \in ScriptStep
         /\ \A i \in DOMAIN Steps(j) : Steps(j)[i].op = "try" => Steps(j)[i].skip \in Nat \ {0}
         /\ \A i \in DOMAIN Steps(j) : Steps(j)[i].op \in OnTree => Steps(j)[i].on \in Trees
<1>1. Steps(j) \in Seq(ScriptStep) /\ Len(Steps(j)) \in Nat
  BY StepsType
<1>2. DOMAIN Steps(j) = 1..Len(Steps(j)) /\ \A i \in DOMAIN Steps(j) : Steps(j)[i] \in ScriptStep
  BY <1>1
<1>3. \A x \in ScriptStep : (x.op = "try" => x.skip \in Nat \ {0}) /\ (x.op \in OnTree => x.on \in Trees)
  BY DEF ScriptStep, OnTree
<1>4. Orderly(Steps(j))
  BY DEF Steady, Steps
<1> QED BY <1>1, <1>2, <1>3, <1>4

(* Which step it is says what a job does.                                  *)
LEMMA StepIs ==
  ASSUME NEW j \in Jobs, Step(j)
  PROVE  /\ state[j] = "running"
         /\ Now(j).op \in {"hitRuns", "hitStamped"} => HitRuns(j) \/ HitStamped(j)
         /\ Now(j).op = "skipPresent" => SkipPresent(j)
         /\ Now(j).op = "try" => Fallback(j)
         /\ Now(j).op = "stop" => Stopped(j)
         /\ Now(j).op = "get" => Downloads(j)
         /\ Now(j).op = "build" => Build(j)
         /\ Now(j).op = "clear" => Clear(j)
         /\ Now(j).op = "push" => Push(j)
         /\ Now(j).op = "stamp" => Stamp(j)
         /\ Now(j).op = "run" => Run(j)
         /\ Now(j).op = "use" => Use(j)
         /\ Now(j).op = "resolve" => Resolve(j)
         /\ Now(j).op = "read" => Read(j)
         /\ Now(j).op = "add" => Add(j)
BY DEF Step, ListCache, RemoveListed, HitRuns, HitStamped, SkipPresent, Locate, Vacant, Fallback, Stopped,
   Ask, Fetching, Served, Take, Build, Clear, Push, Stamp, Run, Use, Resolve, Read, Add, AtStep, Downloads

(* Where a step may take its job.                                          *)
Onward(j) ==
  \/ UNCHANGED <<state, step>>
  \/ Finish(j, "failed")
  \/ Finish(j, "ok") /\ Now(j).op \in {"hitRuns", "hitStamped", "stop"}
  \/ Advance(j, 1)
  \/ Advance(j, 3) /\ Now(j).op = "skipPresent"
  \/ Advance(j, Now(j).skip) /\ Now(j).op = "try"

(* Every step of a script is one of these. *)
LEMMA StepOnward ==
  ASSUME NEW j \in Jobs, Step(j) \/ Refused(j) PROVE Onward(j)
<1>1. CASE ListCache(j) \/ RemoveListed(j) \/ HitRuns(j) \/ HitStamped(j) \/ SkipPresent(j) \/ Locate(j) \/ Vacant(j)
  BY <1>1 DEF ListCache, RemoveListed, HitRuns, HitStamped, SkipPresent, Locate, Vacant, AtStep, Proceed, Onward
<1>2. CASE Fallback(j) \/ Stopped(j) \/ Ask(j) \/ Fetching(j) \/ Served(j) \/ Refused(j) \/ Take(j) \/ Build(j)
  BY <1>2 DEF Fallback, Stopped, Ask, Fetching, Served, Refused, Take, Build, AtStep, Proceed, Onward, jobs
<1>3. CASE Clear(j) \/ Push(j) \/ Stamp(j) \/ Run(j) \/ Use(j) \/ Resolve(j) \/ Read(j) \/ Add(j)
  BY <1>3 DEF Clear, Push, Stamp, Run, Use, Resolve, Read, Add, Proceed, Onward
<1> QED BY <1>1, <1>2, <1>3 DEF Step

Still(j) == state'[j] = state[j] /\ step'[j] = step[j]
Stops(j) == state'[j] \in {"failed", "idle"}
Ends(j) == state'[j] = "ok" /\ step'[j] = step[j]
Forth(j) == state'[j] = "running" /\ step'[j] = step[j] + 1
Leaps(j) ==
  /\ state'[j] = "running" /\ step'[j] \in DOMAIN Steps(j) /\ step'[j] > step[j] + 1
  /\ \/ Steps(j)[step'[j]].op = "stop"
     \/ Steps(j)[step'[j]].op = "push" /\ Steps(j)[step'[j] - 1].op \in {"get", "build"}

(* A step of a script moves its own job: to the next step, past a push     *)
(* that is not needed or a mirror's way that is not taken, or to an end.   *)
LEMMA OwnMotion ==
  ASSUME ProgressOK, Steady(asked), NEW j \in Jobs, state[j] = "running", Onward(j)
  PROVE  /\ Still(j) \/ Stops(j) \/ Ends(j) \/ Forth(j) \/ Leaps(j)
         /\ \A k \in Jobs \ {j} : Still(k)
<1> DEFINE s == Steps(j)
           here == step[j] + 1
<1>1. /\ state \in [Jobs -> {"idle", "running", "ok", "failed"}] /\ step \in [Jobs -> Nat]
      /\ step[j] < Len(s)
  BY DEF ProgressOK
<1>2. /\ Orderly(s) /\ Len(s) \in Nat /\ DOMAIN s = 1..Len(s)
      /\ \A i \in DOMAIN s : s[i].op = "try" => s[i].skip \in Nat \ {0}
  BY Scripts
<1>3. here \in DOMAIN s /\ Now(j) = s[here]
  BY <1>1, <1>2 DEF Now
<1>4. ASSUME NEW how \in {"ok", "failed"}, Finish(j, how)
      PROVE  (IF how = "ok" THEN Ends(j) ELSE Stops(j)) /\ \A k \in Jobs \ {j} : Still(k)
  BY <1>1, <1>4 DEF Finish, Ends, Stops, Still
<1>5. ASSUME NEW n \in Nat \ {0}, Advance(j, n)
      PROVE  /\ Ends(j) \/ (state'[j] = "running" /\ step'[j] = step[j] + n /\ step[j] + n < Len(s))
             /\ \A k \in Jobs \ {j} : Still(k)
  <2>1. CASE step[j] + n >= Len(s)
    BY <1>4, <1>5, <2>1 DEF Advance
  <2>2. CASE ~(step[j] + n >= Len(s))
    <3>1. state' = state /\ step' = [step EXCEPT ![j] = @ + n]
      BY <1>5, <2>2 DEF Advance
    <3>2. step[j] + n < Len(s)
      BY <1>1, <1>2, <2>2
    <3> QED BY <1>1, <3>1, <3>2 DEF Still
  <2> QED BY <2>1, <2>2
<1>6. CASE UNCHANGED <<state, step>>
  BY <1>6 DEF Still
<1>7. CASE Finish(j, "failed") \/ (Finish(j, "ok") /\ Now(j).op \in {"hitRuns", "hitStamped", "stop"})
  BY <1>4, <1>7
<1>8. CASE Advance(j, 1)
  BY <1>5, <1>8 DEF Forth
<1>9. CASE Advance(j, 3) /\ Now(j).op = "skipPresent"
  <2>1. here + 2 \in DOMAIN s /\ s[here + 2].op = "push" /\ s[here + 1].op \in {"get", "build"}
    BY <1>1, <1>2, <1>3, <1>9 DEF Orderly
  <2>2. step[j] + 3 = here + 2
    BY <1>1
  <2>3. Ends(j) \/ (state'[j] = "running" /\ step'[j] = here + 2)
    BY <1>5, <1>9, <2>2
  <2>4. here + 2 > step[j] + 1 /\ here + 2 - 1 = here + 1
    BY <1>1
  <2>5. ASSUME state'[j] = "running", step'[j] = here + 2 PROVE Leaps(j)
    <3>1. step'[j] - 1 = here + 1
      BY <1>1, <2>5
    <3>2. /\ step'[j] \in DOMAIN s /\ step'[j] > step[j] + 1
          /\ s[step'[j]].op = "push" /\ s[step'[j] - 1].op \in {"get", "build"}
      BY <2>1, <2>4, <2>5, <3>1
    <3> QED BY <2>5, <3>2 DEF Leaps
  <2> QED BY <1>5, <1>9, <2>3, <2>5
<1>10. CASE Advance(j, Now(j).skip) /\ Now(j).op = "try"
  <2>1. /\ s[here].skip \in Nat \ {0} /\ s[here].skip > 1 /\ here + s[here].skip <= Len(s)
        /\ s[here + s[here].skip - 1].op = "stop"
    BY <1>2, <1>3, <1>10 DEF Orderly
  <2>2. step[j] + s[here].skip = here + s[here].skip - 1 /\ step[j] + s[here].skip > step[j] + 1
          /\ step[j] + s[here].skip \in 1..Len(s)
    <3>1. \A a, b, c \in Nat : b > 1 /\ a + 1 + b <= c =>
            a + b = a + 1 + b - 1 /\ a + b > a + 1 /\ a + b \in 1..c
      OBVIOUS
    <3>2. step[j] \in Nat /\ s[here].skip \in Nat /\ Len(s) \in Nat
      BY <1>1, <1>2, <2>1
    <3> HIDE DEF s
    <3> QED BY <2>1, <3>1, <3>2
  <2>3. Ends(j) \/ (state'[j] = "running" /\ step'[j] = step[j] + s[here].skip)
    BY <1>3, <1>5, <1>10, <2>1
  <2>4. \A k \in Jobs \ {j} : Still(k)
    BY <1>3, <1>5, <1>10, <2>1
  <2> QED BY <1>2, <2>1, <2>2, <2>3, <2>4 DEF Leaps
<1> QED BY <1>6, <1>7, <1>8, <1>9, <1>10 DEF Onward

(* What is asked for is fixed. *)
LEMMA AskedStays == ASSUME ProgressOK, [Next]_vars PROVE asked' = asked
<1>1. ASSUME NEW j \in Jobs, Step(j) \/ Refused(j) PROVE asked' = asked
  BY <1>1, StepGroups, LooksOK, ChangesGoes, DownloadsGoes
<1> QED BY <1>1 DEF Next, vars, jobs, Start, AskAgain, Interrupt

(* What the next step of the system may do to the place of any job.        *)
LEMMA Motions ==
  ASSUME ProgressOK, Steady(asked), [Next]_vars, NEW k \in Jobs
  PROVE  /\ asked' = asked
         /\ \/ Still(k)
            \/ Stops(k)
            \/ Start(k) /\ state[k] = "idle" /\ state'[k] = "running" /\ step'[k] = 0
            \/ Step(k) /\ state[k] = "running" /\ (Ends(k) \/ Forth(k) \/ Leaps(k))
<1>0. state \in [Jobs -> {"idle", "running", "ok", "failed"}] /\ step \in [Jobs -> Nat]
  BY DEF ProgressOK
<1>1. CASE UNCHANGED vars
  BY <1>1 DEF vars, jobs, Still
<1>2. ASSUME NEW j \in Jobs, Start(j) \/ AskAgain(j)
      PROVE  asked' = asked /\ (Still(k) \/ Stops(k)
               \/ (Start(k) /\ state[k] = "idle" /\ state'[k] = "running" /\ step'[k] = 0))
  BY <1>0, <1>2 DEF Start, AskAgain, Still, Stops
<1>3. ASSUME NEW j \in Jobs, Step(j) \/ Refused(j)
      PROVE  asked' = asked /\ (Still(k) \/ Stops(k)
               \/ (Step(k) /\ state[k] = "running" /\ (Ends(k) \/ Forth(k) \/ Leaps(k))))
  <2>1. state[j] = "running" /\ asked' = asked
    BY <1>3, StepGroups, LooksOK, ChangesGoes, DownloadsGoes
  <2>2. Onward(j)
    BY <1>3, StepOnward
  <2>3. CASE Refused(j)
    BY <2>1, <2>3 DEF Refused, jobs, Still
  <2>4. CASE Step(j) /\ k = j
    BY <2>1, <2>2, <2>4, OwnMotion
  <2>5. CASE k # j
    BY <2>1, <2>2, <2>5, OwnMotion
  <2> QED BY <1>3, <2>1, <2>3, <2>4, <2>5
<1>4. ASSUME NEW l, Interrupt(l) PROVE asked' = asked /\ (Still(k) \/ Stops(k))
  BY <1>0, <1>4 DEF Interrupt, Still, Stops
<1> QED BY <1>1, <1>2, <1>3, <1>4 DEF Next

(* A job that goes on has behind it what it had, and the step it has done: *)
(* a push that was skipped and a way not taken count for nothing.          *)
LEMMA MadeBefore ==
  ASSUME ProgressOK, Steady(asked), NEW j \in Jobs, state[j] = "running", Onward(j), asked' = asked,
         Now(j).op \in {"hitRuns", "hitStamped"} => Advance(j, 1),
         NEW i \in Made(j)', Steps(j)[i].op \in Yields
  PROVE  i \in Made(j) \/ (i = step[j] + 1 /\ Advance(j, 1))
<1> DEFINE s == Steps(j)
           here == step[j] + 1
<1>1. /\ state \in [Jobs -> {"idle", "running", "ok", "failed"}] /\ step \in [Jobs -> Nat]
      /\ step[j] < Len(s)
  BY DEF ProgressOK
<1>2. /\ Orderly(s) /\ Len(s) \in Nat /\ DOMAIN s = 1..Len(s)
      /\ \A k \in DOMAIN s : s[k].op = "try" => s[k].skip \in Nat \ {0}
  BY Scripts
<1>3. here \in DOMAIN s /\ Now(j) = s[here]
  BY <1>1, <1>2 DEF Now
<1>4. Steps(j)' = s /\ step'[j] \in Nat /\ i \in DOMAIN s
  <2>1. Steps(j)' = s
    BY DEF Steps
  <2>2. i \in DOMAIN s
    BY <2>1 DEF Made, Taken
  <2>3. step'[j] \in Nat
    BY <1>1, <1>2, OwnMotion DEF Still, Stops, Ends, Forth, Leaps, Made
  <2> QED BY <2>1, <2>2, <2>3
<1>5. i \in Nat /\ step[j] \in Nat
  BY <1>1, <1>2, <1>4
<1>6. \A k \in DOMAIN s : s[k].op = "try" =>
        IF step'[j] + 1 >= k + s[k].skip THEN i <= k \/ i >= k + s[k].skip ELSE i < k + s[k].skip
  BY <1>4 DEF Made, Taken
<1>7. state'[j] \in {"ok", "running"} /\ (state'[j] = "running" => i <= step'[j])
  BY DEF Made
<1>8. ASSUME i <= step[j], step'[j] >= step[j] PROVE i \in Made(j)
  <2>1. ASSUME NEW k \in DOMAIN s, s[k].op = "try"
        PROVE  IF step[j] + 1 >= k + s[k].skip THEN i <= k \/ i >= k + s[k].skip ELSE i < k + s[k].skip
    <3>1. k \in Nat /\ s[k].skip \in Nat
      BY <1>2, <2>1
    <3> DEFINE relay == k + s[k].skip
    <3>2. relay \in Nat
      BY <3>1
    <3>3. IF step'[j] + 1 >= relay THEN i <= k \/ i >= relay ELSE i < relay
      BY <1>6, <2>1
    <3> HIDE DEF relay
    <3>4. IF step[j] + 1 >= relay THEN i <= k \/ i >= relay ELSE i < relay
      BY <1>4, <1>5, <1>8, <3>2, <3>3
    <3> QED BY <3>4 DEF relay
  <2>2. i \in Taken(j)
    BY <1>4, <2>1 DEF Taken
  <2> QED BY <1>8, <2>2 DEF Made
<1>9. ASSUME NEW n \in Nat \ {0}, Advance(j, n)
      PROVE  \/ step[j] + n >= Len(s) /\ step'[j] = step[j]
             \/ step[j] + n < Len(s) /\ step'[j] = step[j] + n /\ i <= step[j] + n
  <2>1. CASE step[j] + n >= Len(s)
    BY <1>9, <2>1 DEF Advance, Finish
  <2>2. CASE ~(step[j] + n >= Len(s))
    <3>1. state' = state /\ step' = [step EXCEPT ![j] = @ + n]
      BY <1>9, <2>2 DEF Advance
    <3>2. step[j] + n < Len(s)
      BY <1>1, <1>2, <2>2
    <3> QED BY <1>1, <1>7, <3>1, <3>2
  <2> QED BY <2>1, <2>2
<1>10. CASE UNCHANGED <<state, step>>
  BY <1>5, <1>7, <1>8, <1>10
<1>11. CASE Finish(j, "failed")
  BY <1>1, <1>7, <1>11 DEF Finish
<1>12. CASE Finish(j, "ok") /\ Now(j).op = "stop"
  <2>1. PICK k \in 1..(here - 1) : s[k].op = "try" /\ k + s[k].skip = here + 1
    BY <1>2, <1>3, <1>12 DEF Orderly
  <2>2. k \in DOMAIN s /\ step'[j] + 1 < here + 1 /\ step'[j] = step[j]
    BY <1>1, <1>2, <1>3, <1>12, <2>1 DEF Finish
  <2>3. i < here + 1
    <3>1. IF step'[j] + 1 >= here + 1 THEN i <= k \/ i >= here + 1 ELSE i < here + 1
      BY <1>6, <2>1, <2>2
    <3>2. step'[j] + 1 < here + 1
      BY <2>2
    <3> HIDE DEF here
    <3>3. here \in Nat
      BY <1>5 DEF here
    <3> QED BY <1>4, <3>1, <3>2, <3>3
  <2>4. i # here
    BY <1>3, <1>12 DEF Yields, Delivers
  <2> QED BY <1>5, <1>8, <2>2, <2>3, <2>4
<1>13. CASE Advance(j, 1)
  <2>1. i <= step[j] \/ i = here
    BY <1>1, <1>2, <1>4, <1>5, <1>9, <1>13
  <2>2. step'[j] >= step[j]
    BY <1>5, <1>9, <1>13
  <2> QED BY <1>8, <1>13, <2>1, <2>2
<1>14. CASE Advance(j, 3) /\ Now(j).op = "skipPresent"
  <2>1. here + 2 <= Len(s) /\ s[here + 1].op \in {"get", "build"} /\ s[here + 2].op = "push"
    BY <1>2, <1>3, <1>14 DEF Orderly
  <2>2. i \notin {here, here + 1, here + 2}
    BY <1>3, <1>14, <2>1 DEF Yields, Delivers
  <2>3. i <= here + 2
    BY <1>2, <1>4, <1>5, <1>9, <1>14, <2>1
  <2>4. step'[j] >= step[j]
    BY <1>5, <1>9, <1>14
  <2> QED BY <1>5, <1>8, <2>2, <2>3, <2>4
<1>15. CASE Advance(j, Now(j).skip) /\ Now(j).op = "try"
  <2> DEFINE skip == s[here].skip
  <2>1. skip \in Nat \ {0} /\ here + skip <= Len(s)
    BY <1>2, <1>3, <1>15 DEF Orderly
  <2>2. Advance(j, skip)
    BY <1>3, <1>15
  <2>3. IF step'[j] + 1 >= here + skip THEN i <= here \/ i >= here + skip ELSE i < here + skip
    BY <1>3, <1>6, <1>15
  <2>4. i # here
    BY <1>3, <1>15 DEF Yields, Delivers
  <2> HIDE DEF skip
  <2>5. step'[j] = step[j] + skip /\ i <= step[j] + skip
    BY <1>2, <1>5, <1>9, <2>1, <2>2
  <2>6. i <= step[j] /\ step'[j] >= step[j]
    BY <1>5, <2>1, <2>3, <2>4, <2>5
  <2> QED BY <1>8, <2>6
<1> QED BY <1>10, <1>11, <1>12, <1>13, <1>14, <1>15 DEF Onward

(* Few steps touch what jobs and sandboxes hold. *)
LEMMA Hands ==
  ASSUME ProgressOK, [Next]_vars
  PROVE  \/ UNCHANGED <<data, plan, sandbox>>
         \/ \E j \in Jobs : Start(j) \/ Take(j) \/ Changes(j)
<1>1. CASE UNCHANGED vars
  BY <1>1 DEF vars, jobs
<1>2. ASSUME NEW j \in Jobs, AskAgain(j) PROVE UNCHANGED <<data, plan, sandbox>>
  BY <1>2 DEF AskAgain
<1>3. ASSUME NEW l, Interrupt(l) PROVE UNCHANGED <<data, plan, sandbox>>
  BY <1>3 DEF Interrupt
<1>4. ASSUME NEW j \in Jobs, Looks(j) PROVE UNCHANGED <<data, plan, sandbox>>
  BY <1>4, LooksOK
<1>5. ASSUME NEW j \in Jobs, Downloads(j), ~Take(j) PROVE UNCHANGED <<data, plan, sandbox>>
  BY <1>5 DEF Downloads, Ask, Fetching, Served, Refused, ListCache, RemoveListed, jobs
<1> QED BY <1>1, <1>2, <1>3, <1>4, <1>5, StepGroups DEF Next

(* No two requests of one key are served at once. *)
LEMMA KeysStep == ASSUME ProgressOK, Steady(asked), KeysInv, [Next]_vars PROVE KeysInv'
<1>1. asked' = asked
  BY AskedStays
<1>2. SUFFICES ASSUME NEW j \in Jobs, NEW k \in Jobs, j # k, SameKey(j, k),
                      state'[j] = "running", state'[k] = "running"
               PROVE  FALSE
  BY <1>1 DEF KeysInv, SameKey
<1>3. \A i \in Jobs : state'[i] = "running" => state[i] = "running" \/ Start(i)
  <2> SUFFICES ASSUME NEW i \in Jobs, state'[i] = "running" PROVE state[i] = "running" \/ Start(i)
    OBVIOUS
  <2> QED BY Motions DEF Still, Stops
<1>4. SameKey(k, j)
  BY <1>2 DEF SameKey
<1>5. ASSUME NEW a \in Jobs, NEW b \in Jobs, a # b, SameKey(a, b), Start(a), state'[b] = "running" PROVE FALSE
  <2>1. state[b] # "running" /\ state' = [state EXCEPT ![a] = "running"]
    BY <1>5 DEF Start
  <2> QED BY <1>5, <2>1 DEF ProgressOK
<1> QED BY <1>2, <1>3, <1>4, <1>5 DEF KeysInv

(* Between pip's dry run and its reading of the report nobody of another   *)
(* key writes it.                                                          *)
LEMMA PlanStep == ASSUME Types, Steady(asked), PlanInv, KeysInv, [Next]_vars PROVE PlanInv'
<1>0. ProgressOK /\ SandboxOK
  BY DEF Types
<1> SUFFICES ASSUME NEW k \in Jobs
             PROVE  /\ AtStep(k, "read")' => report' = k
                    /\ state'[k] \in {"running", "ok"} => plan'[k] \in {Nobody, k}
  BY DEF PlanInv
<1> DEFINE s == Steps(k)
<1>1. /\ Orderly(s) /\ Len(s) \in Nat /\ DOMAIN s = 1..Len(s) /\ step \in [Jobs -> Nat]
  BY <1>0, Scripts DEF ProgressOK
<1>2. asked' = asked /\ Steps(k)' = s
  BY <1>0, Motions DEF Steps
<1>3. ASSUME AtStep(k, "read")' PROVE report' = k
  <2>1. state'[k] = "running" /\ s[step'[k] + 1].op = "read"
    BY <1>2, <1>3 DEF AtStep, Now
  <2>2. CASE Still(k)
    <3>1. AtStep(k, "read") /\ report = k
      BY <2>1, <2>2 DEF Still, AtStep, Now, PlanInv
    <3>2. ASSUME NEW j \in Jobs, Resolve(j) PROVE FALSE
      <4>1. state[j] = "running" /\ Now(j).op = "resolve" /\ step[j] + 1 \in DOMAIN Steps(j)
        BY <1>0, <3>2, NowType DEF Resolve, AtStep
      <4>2. j # k
        BY <3>1, <4>1 DEF AtStep
      <4>3. step[k] + 1 \in DOMAIN s
        BY <1>0, <3>1, NowType DEF AtStep
      <4>4. step[k] + 1 > 1 /\ s[step[k] + 1 - 1].op = "resolve"
        BY <1>1, <3>1, <4>3 DEF Orderly, AtStep, Now
      <4>5. step[k] \in DOMAIN s /\ s[step[k]].op = "resolve"
        BY <1>1, <4>3, <4>4
      <4>6. OneKey(asked, j, k)
        BY <4>1, <4>2, <4>5 DEF Steady, Steps, Now
      <4> QED BY <3>1, <4>1, <4>2, <4>6 DEF OneKey, SameKey, KeysInv, AtStep
    <3>3. report' = report
      BY <1>0, <3>2, Hands DEF Start, Take, Changes, Build, Clear, Push, Stamp, Read, Add, sandbox
    <3> QED BY <3>1, <3>3
  <2>3. step'[k] + 1 \in DOMAIN s /\ step'[k] \in Nat
    <3>1. ProgressOK'
      BY NextTypes DEF Types
    <3> QED BY <1>1, <1>2, <2>1, <3>1, Scripts DEF ProgressOK
  <2>4. step'[k] + 1 > 1 /\ s[step'[k]].op = "resolve"
    <3>1. PICK n \in DOMAIN s : n = step'[k] + 1
      BY <2>3
    <3>2. s[n].op = "read"
      BY <2>1, <3>1
    <3>3. n > 1 /\ s[n - 1].op = "resolve"
      BY <1>1, <3>2 DEF Orderly
    <3>4. n - 1 = step'[k]
      BY <2>3, <3>1
    <3> QED BY <3>1, <3>3, <3>4
  <2>5. CASE Step(k) /\ Forth(k)
    <3>1. Now(k).op = "resolve"
      BY <2>4, <2>5 DEF Forth, Now
    <3>2. Resolve(k)
      BY <2>5, <3>1, StepIs
    <3>3. state'[k] # "failed"
      BY <2>1
    <3>4. step'[k] # step[k]
      BY <1>1, <2>5 DEF Forth
    <3> QED BY <3>2, <3>4 DEF Resolve, Finish
  <2> QED BY <1>0, <2>1, <2>2, <2>4, <2>5, Motions DEF Stops, Ends, Leaps
<1>4. ASSUME state'[k] \in {"running", "ok"} PROVE plan'[k] \in {Nobody, k}
  <2>1. plan \in [Jobs -> Jobs \cup {Nobody}]
    BY <1>0 DEF SandboxOK
  <2>2. CASE Start(k)
    BY <2>1, <2>2 DEF Start
  <2>3. CASE Read(k)
    <3>1. report = k
      BY <2>3 DEF Read, PlanInv
    <3> QED BY <2>1, <2>3, <3>1 DEF Read
  <2>4. CASE ~Start(k) /\ ~Read(k)
    <3>1. state[k] \in {"running", "ok"}
      BY <1>0, <1>4, <2>4, Motions DEF Still, Stops
    <3>2. plan'[k] = plan[k]
      <4>1. ASSUME NEW j \in Jobs, Start(j) \/ Take(j) \/ Changes(j) PROVE plan'[k] = plan[k]
        <5>1. plan' = plan \/ (Start(j) /\ plan' = [plan EXCEPT ![j] = Nobody]) \/ (Read(j) /\ plan' = [plan EXCEPT ![j] = report])
          BY <4>1 DEF Start, Take, Changes, Build, Clear, Push, Stamp, Resolve, Read, Add
        <5> QED BY <2>1, <2>4, <5>1
      <4> QED BY <1>0, <4>1, Hands
    <3> QED BY <3>1, <3>2 DEF PlanInv
  <2> QED BY <2>2, <2>3, <2>4
<1> QED BY <1>3, <1>4

(* Only its own fetch or build changes what a job under way has to push,   *)
(* and a fetch that hands over nothing ends it.                            *)
LEMMA DataKept ==
  ASSUME Types, NEW k \in Jobs, state[k] = "running", [Next]_vars, ~Take(k), ~Build(k)
  PROVE  data'[k] = data[k]
<1>1. data \in [Jobs -> Digests \cup {None, Torn}] /\ ProgressOK
  BY DEF Types, SandboxOK
<1>2. ASSUME NEW j \in Jobs, Start(j) \/ Take(j) \/ Changes(j) PROVE data'[k] = data[k]
  <2>1. CASE data' = data
    BY <2>1
  <2>2. CASE Start(j)
    BY <1>1, <2>2 DEF Start
  <2>3. CASE Take(j) \/ Build(j)
    BY <1>1, <2>3 DEF Take, Build
  <2> QED BY <1>2, <2>1, <2>2, <2>3 DEF Changes, Clear, Push, Stamp, Resolve, Read, Add
<1> QED BY <1>1, <1>2, Hands

(* What a job goes on with is what its step asked for: a fetch hands over  *)
(* what the pin names, or nothing.                                         *)
LEMMA Obtained ==
  ASSUME CacheInv, NEW j \in Jobs, Take(j) \/ Build(j), state'[j] = "running"
  PROVE  Now(j).op \in {"get", "build"} /\ data'[j] = Now(j).want /\ step'[j] # step[j]
<1>1. ProgressOK /\ SandboxOK /\ FetchOf(j) /\ Own(j)
  BY DEF CacheInv, Types, Jobs
<1>2. step \in [Jobs -> Nat] /\ data \in [Jobs -> Digests \cup {None, Torn}]
      /\ state \in [Jobs -> {"idle", "running", "ok", "failed"}]
  BY <1>1 DEF ProgressOK, SandboxOK
<1>3. Advance(j, 1) => step'[j] # step[j]
  BY <1>2 DEF Advance, Finish
<1>4. CASE Build(j)
  BY <1>2, <1>3, <1>4 DEF Build, AtStep
<1>5. CASE Take(j)
  <2>1. Advance(j, 1) /\ fetch[j].at = "have" /\ cached[fetch[j].file].is # None
    BY <1>2, <1>5 DEF Take, Proceed, Finish
  <2>2. cached[fetch[j].file].is = Now(j).want
    BY <1>1, <2>1 DEF Own, Cached, FetchOf
  <2> QED BY <1>2, <1>3, <1>5, <2>1, <2>2 DEF Take, AtStep
<1> QED BY <1>4, <1>5

(* Whoever is about to push has what its script made for it.               *)
LEMMA DataStep == ASSUME CacheInv, Steady(asked), DataInv, [Next]_vars PROVE DataInv'
<1>0. Types /\ ProgressOK
  BY DEF CacheInv, Types
<1> SUFFICES ASSUME NEW k \in Jobs, state'[k] = "running", NEW src \in DOMAIN Steps(k)',
                    Source(Steps(k)', src, step'[k] + 1)
             PROVE  data'[k] = Steps(k)'[src].want
  BY DEF DataInv, Source
<1> DEFINE s == Steps(k)
<1>1. /\ Orderly(s) /\ Len(s) \in Nat /\ DOMAIN s = 1..Len(s) /\ step[k] \in Nat
  BY <1>0, Scripts DEF ProgressOK
<1>2. asked' = asked /\ Steps(k)' = s
  BY <1>0, Motions DEF Steps
<1>3. Source(s, src, step'[k] + 1) /\ src \in DOMAIN s
  BY <1>2
<1>4. CASE Still(k)
  <2>1. state[k] = "running" /\ data[k] = s[src].want
    BY <1>3, <1>4 DEF Still, DataInv
  <2>2. ~Take(k) /\ ~Build(k)
    BY <1>4, Obtained DEF Still
  <2> QED BY <1>0, <1>2, <2>1, <2>2, DataKept
<1>5. CASE step'[k] = 0
  BY <1>3, <1>5 DEF Source
<1>6. CASE Step(k) /\ Forth(k)
  <2> DEFINE here == step[k] + 1
  <2>1. /\ here \in Nat /\ src \in Nat /\ src \in 1..here /\ s[src].op \in {"get", "build"}
        /\ \A m \in (src + 1)..here : s[m].op = "clear"
    BY <1>1, <1>3, <1>6 DEF Forth, Source
  <2>2. CASE src = here
    <3>1. Downloads(k) \/ Build(k)
      BY <1>6, <2>1, <2>2, StepIs DEF Now
    <3>2. Now(k).op = s[src].op /\ step'[k] # step[k]
      BY <1>1, <1>6, <2>2 DEF Now, Forth
    <3>3. Take(k) \/ Build(k)
      BY <2>1, <3>1, <3>2 DEF Downloads, Ask, Fetching, Served, Refused, ListCache, RemoveListed, AtStep, jobs
    <3> QED BY <1>2, <2>2, <3>3, Obtained DEF Now
  <2>3. CASE src # here
    <3>1. src \in 1..(here - 1) /\ s[here].op = "clear"
      BY <2>1, <2>3
    <3>2. \A m \in (src + 1)..(here - 1) : s[m].op = "clear"
      BY <2>1
    <3>3. Source(s, src, here)
      BY <2>1, <3>1, <3>2 DEF Source
    <3>4. data[k] = s[src].want
      BY <1>3, <1>6, <3>3, StepIs DEF DataInv
    <3>5. Now(k).op = "clear"
      BY <3>1 DEF Now
    <3>6. Clear(k)
      BY <1>6, <3>5, StepIs
    <3> QED BY <1>2, <3>4, <3>6 DEF Clear
  <2> QED BY <2>2, <2>3
<1>7. CASE Leaps(k)
  <2>1. PICK n \in DOMAIN s : n = step'[k] /\ s[n].op \in {"push", "stop"}
    BY <1>7 DEF Leaps
  <2>2. n \in Nat /\ n + 1 - 1 = n
    BY <1>1, <2>1
  <2>3. /\ src \in 1..n /\ s[src].op \in {"get", "build"} /\ \A m \in (src + 1)..n : s[m].op = "clear"
    BY <1>3, <2>1, <2>2 DEF Source
  <2>4. src # n
    BY <2>1, <2>3
  <2>5. n \in (src + 1)..n
    BY <2>2, <2>3, <2>4
  <2> QED BY <2>1, <2>3, <2>5
<1> QED BY <1>0, <1>4, <1>5, <1>6, <1>7, Motions DEF Stops, Ends

(* What is pushed to a tree is the one content that is ever pushed there. *)
LEMMA PushesContent ==
  ASSUME Types, Steady(asked), DataInv, NEW j \in Jobs, Push(j)
  PROVE  On(j) \in Trees /\ data[j] \in Pushed(asked, On(j)) /\ data[j] \in Digests
<1> DEFINE s == Steps(j)
           here == step[j] + 1
<1>0. ProgressOK
  BY DEF Types
<1>1. here \in DOMAIN s /\ s[here].op = "push" /\ s[here].on = On(j) /\ state[j] = "running"
  BY <1>0, NowType DEF Push, AtStep, Now, On
<1>2. Orderly(s) /\ \A i \in DOMAIN s : s[i] \in ScriptStep
  BY <1>0, Scripts
<1>3. PICK k \in DOMAIN s : Source(s, k, here)
  BY <1>1, <1>2 DEF Orderly
<1>4. data[j] = s[k].want
  BY <1>1, <1>3 DEF DataInv
<1>5. s[k].want \in Digests
  BY <1>2, <1>3 DEF Source, ScriptStep, OnTree
<1>6. data[j] \in Pushed(asked, On(j))
  BY <1>1, <1>3, <1>4, <1>5 DEF Pushed, Steps
<1> QED BY <1>0, <1>4, <1>5, <1>6, OnTreeType DEF Push, OnTree

(* A push leaves a whole tree as it is, and makes none of what runs fail.  *)
LEMMA PushKeeps ==
  ASSUME Types, Steady(asked), DataInv, TreesInv, NEW j \in Jobs, Push(j), NEW t \in Trees
  PROVE  /\ Whole(t) => tree'[t] = tree[t]
         /\ Works(t) => Works(t)'
         /\ \A p \in DOMAIN Absent : tree'[t][p] = tree[t][p] \/ (t = On(j) /\ tree'[t][p] = data[j])
         /\ tree' \in [Trees -> [DOMAIN Absent -> Digests \cup {None, Torn}]]
<1>1. tree \in [Trees -> [DOMAIN Absent -> Digests \cup {None, Torn}]]
  BY DEF Types, SandboxOK
<1>2. On(j) \in Trees /\ data[j] \in Pushed(asked, On(j)) /\ data[j] \in Digests
  BY PushesContent
<1>3. CASE tree' = tree
  BY <1>1, <1>3 DEF Works
<1>4. ASSUME NEW q, tree' = [tree EXCEPT ![On(j)][q] = data[j]]
      PROVE  /\ Whole(t) => tree'[t] = tree[t]
             /\ Works(t) => Works(t)'
             /\ \A p \in DOMAIN Absent : tree'[t][p] = tree[t][p] \/ (t = On(j) /\ tree'[t][p] = data[j])
             /\ tree' \in [Trees -> [DOMAIN Absent -> Digests \cup {None, Torn}]]
  <2>1. tree'[t] = IF t = On(j) THEN [tree[t] EXCEPT ![q] = data[j]] ELSE tree[t]
    BY <1>1, <1>2, <1>4
  <2>2. \A p \in DOMAIN Absent : tree'[t][p] = tree[t][p] \/ (t = On(j) /\ tree'[t][p] = data[j])
    BY <1>1, <2>1
  <2>3. tree' \in [Trees -> [DOMAIN Absent -> Digests \cup {None, Torn}]]
    BY <1>1, <1>2, <1>4
  <2>4. Needed[t] \subseteq DOMAIN Absent
    BY ScriptAssumption DEF Absent
  <2>5. Works(t) => Works(t)'
    BY <1>2, <2>2, <2>4 DEF Works
  <2>6. ASSUME Whole(t) PROVE tree'[t] = tree[t]
    <3>1. PICK d \in Digests : \A p \in DOMAIN tree[t] : tree[t][p] = d
      BY <2>6 DEF Whole
    <3>2. tree[t] \in [DOMAIN Absent -> Digests \cup {None, Torn}]
      BY <1>1
    <3>3. ASSUME NEW p \in DOMAIN Absent, t = On(j) PROVE data[j] = d
      <4>1. tree[t][p] = d
        BY <3>1, <3>2
      <4>2. d \in Pushed(asked, t)
        BY <3>3, <4>1, CacheAssumption DEF TreesInv
      <4> QED BY <1>2, <3>3, <4>2 DEF Steady
    <3>4. \A p \in DOMAIN Absent : tree'[t][p] = tree[t][p]
      BY <2>2, <3>1, <3>2, <3>3
    <3>5. tree'[t] \in [DOMAIN Absent -> Digests \cup {None, Torn}]
      BY <2>3
    <3> QED BY <3>2, <3>4, <3>5
  <2> QED BY <2>2, <2>3, <2>5, <2>6
<1> QED BY <1>3, <1>4 DEF Push

(* What stands in a tree is what its requests push.                        *)
LEMMA TreesStep ==
  ASSUME Types, Steady(asked), DataInv, TreesInv, MarkInv, [Next]_vars PROVE TreesInv'
<1>0. ProgressOK /\ SandboxOK
  BY DEF Types
<1>1. asked' = asked /\ Absent' = Absent /\ \A t : Pushed(asked, t)' = Pushed(asked, t)
  BY <1>0, AskedStays DEF Absent, Pushed
<1>2. /\ tree \in [Trees -> [DOMAIN Absent -> Digests \cup {None, Torn}]]
      /\ added \in [Trees -> SUBSET Jobs]
  BY <1>0 DEF SandboxOK
<1>3. CASE UNCHANGED <<tree, stamp, added>>
  <2>1. \A t : Whole(t)' = Whole(t)
    BY <1>3 DEF Whole
  <2> QED BY <1>1, <1>3, <2>1 DEF TreesInv
<1>4. ASSUME NEW j \in Jobs, Clear(j) PROVE TreesInv'
  <2>1. On(j) \in Trees
    BY <1>0, <1>4, OnTreeType DEF Clear, OnTree
  <2>2. /\ tree' = [tree EXCEPT ![On(j)] = Absent] /\ stamp' = stamp \ {On(j)}
        /\ added' = [added EXCEPT ![On(j)] = {}]
    BY <1>4 DEF Clear, Cleared
  <2> SUFFICES ASSUME NEW t \in Trees
               PROVE  /\ added'[t] # {} \/ t \in stamp' => Whole(t)'
                      /\ \A p \in DOMAIN Absent : tree'[t][p] \in Pushed(asked, t) \cup {None}
    BY <1>1 DEF TreesInv
  <2>3. CASE t = On(j)
    <3>1. tree'[t] = Absent /\ added'[t] = {} /\ t \notin stamp'
      BY <1>2, <2>1, <2>2, <2>3
    <3> QED BY <3>1 DEF Absent
  <2>4. CASE t # On(j)
    <3>1. tree'[t] = tree[t] /\ added'[t] = added[t] /\ (t \in stamp' => t \in stamp)
      BY <1>2, <2>1, <2>2, <2>4
    <3>2. Whole(t)' = Whole(t)
      BY <3>1 DEF Whole
    <3> QED BY <3>1, <3>2 DEF TreesInv
  <2> QED BY <2>3, <2>4
<1>5. ASSUME NEW j \in Jobs, Push(j) PROVE TreesInv'
  <2> SUFFICES ASSUME NEW t \in Trees
               PROVE  /\ added'[t] # {} \/ t \in stamp' => Whole(t)'
                      /\ \A p \in DOMAIN Absent : tree'[t][p] \in Pushed(asked, t) \cup {None}
    BY <1>1 DEF TreesInv
  <2>1. UNCHANGED <<stamp, added>>
    BY <1>5 DEF Push
  <2>2. Whole(t) => Whole(t)'
    BY <1>5, PushKeeps DEF Whole
  <2>3. \A p \in DOMAIN Absent : tree'[t][p] \in Pushed(asked, t) \cup {None}
    BY <1>5, PushKeeps, PushesContent DEF TreesInv
  <2> QED BY <2>1, <2>2, <2>3 DEF TreesInv
<1>6. ASSUME NEW j \in Jobs, Stamp(j) \/ Add(j) PROVE TreesInv'
  <2>1. On(j) \in Trees /\ tree' = tree
    BY <1>0, <1>6, OnTreeType DEF Stamp, Add, OnTree
  <2>2. \A t : Whole(t)' = Whole(t)
    BY <2>1 DEF Whole
  <2>3. \A t \in Trees : added'[t] # {} \/ t \in stamp' => Whole(t)'
    <3>1. CASE Stamp(j)
      BY <2>2, <3>1 DEF Stamp, MarkInv, TreesInv
    <3>2. CASE Add(j)
      <4>1. \A t \in Trees : t # On(j) => added'[t] = added[t]
        BY <1>2, <3>2 DEF Add
      <4>2. Whole(On(j)) \/ added' = added
        BY <3>2 DEF Add
      <4>3. stamp' = stamp
        BY <3>2 DEF Add
      <4> QED BY <2>2, <4>1, <4>2, <4>3 DEF TreesInv
    <3> QED BY <1>6, <3>1, <3>2
  <2> QED BY <1>1, <2>1, <2>3 DEF TreesInv
<1>7. ASSUME NEW j \in Jobs, Start(j) \/ Take(j) \/ Build(j) \/ Resolve(j) \/ Read(j)
      PROVE  UNCHANGED <<tree, stamp, added>>
  BY <1>7 DEF Start, Take, Build, Resolve, Read, sandbox
<1> QED BY <1>0, <1>3, <1>4, <1>5, <1>6, <1>7, Hands DEF Changes, sandbox

(* What is whole runs. *)
LEMMA WholeWorks == ASSUME SandboxOK, NEW t \in Trees, Whole(t) PROVE Works(t)
<1>1. tree[t] \in [DOMAIN Absent -> Digests \cup {None, Torn}] /\ Needed[t] \subseteq DOMAIN Absent
  BY ScriptAssumption DEF SandboxOK, Absent
<1> QED BY <1>1 DEF Whole, Works

(* Beside a request that replaces what is delivered nobody writes there.   *)
LEMMA AloneOn ==
  ASSUME ProgressOK, Steady(asked), KeysInv, NEW j \in Jobs, NEW k \in Jobs, j # k,
         state[j] = "running", state[k] = "running",
         NEW i \in DOMAIN Steps(j), Steps(j)[i].op = "clear", Offered(Steps(j)[i].on),
         Has(asked, k, Writes, Steps(j)[i].on)
  PROVE  FALSE
<1>1. Replaces(asked, j, i)
  BY DEF Steady, Steps, Offered
<1>2. OneKey(asked, j, k)
  BY <1>1 DEF Replaces, Steps
<1> QED BY <1>2 DEF OneKey, SameKey, KeysInv

(* A job at a step on a tree has a step there. *)
LEMMA HasNow ==
  ASSUME ProgressOK, NEW j \in Jobs, state[j] = "running", NEW ops, Now(j).op \in ops
  PROVE  Has(asked, j, ops, On(j)) /\ (ops = Delivers => Offered(On(j)))
<1>1. step[j] + 1 \in DOMAIN Steps(j)
  BY NowType
<1> QED BY <1>1 DEF Has, Now, On, Steps, Offered

(* Who clears what is delivered is past its look and its fetch.            *)
LEMMA ClearsLooked ==
  ASSUME ProgressOK, Steady(asked), WindowInv, NEW j \in Jobs, Clear(j), Offered(On(j))
  PROVE  /\ Replaces(asked, j, 3) /\ On(j) = Steps(j)[3].on /\ ~Found(j)
         /\ 3 \in DOMAIN Steps(j) /\ Steps(j)[3].op = "clear"
<1>1. step[j] + 1 \in DOMAIN Steps(j) /\ state[j] = "running" /\ Steps(j)[step[j] + 1].op = "clear"
        /\ On(j) = Steps(j)[step[j] + 1].on /\ step[j] \in Nat
  BY NowType DEF Clear, AtStep, Now, On, ProgressOK
<1>2. Replaces(asked, j, step[j] + 1)
  BY <1>1 DEF Steady, Steps, Offered
<1>3. step[j] = 2
  BY <1>1, <1>2 DEF Replaces
<1>4. Replacing(j)
  BY <1>1, <1>3 DEF Replacing
<1> QED BY <1>1, <1>2, <1>3, <1>4 DEF WindowInv

(* The marker of a tool that was run is there too.                         *)
LEMMA MadePrevious ==
  ASSUME ProgressOK, Steady(asked), NEW k \in Jobs, NEW i \in Made(k), i > 1, Steps(k)[i - 1].op = "stamp"
  PROVE  i - 1 \in Made(k)
<1> DEFINE s == Steps(k)
<1>1. /\ Orderly(s) /\ Len(s) \in Nat /\ DOMAIN s = 1..Len(s) /\ step[k] \in Nat
      /\ \A m \in DOMAIN s : s[m].op = "try" => s[m].skip \in Nat \ {0}
  BY Scripts DEF ProgressOK
<1>2. i \in DOMAIN s /\ i \in Nat
  BY <1>1 DEF Made, Taken
<1>3. i - 1 \in DOMAIN s /\ i - 1 \in Nat
  BY <1>1, <1>2
<1>4. ASSUME NEW m \in DOMAIN s, s[m].op = "try"
      PROVE  IF step[k] + 1 >= m + s[m].skip THEN i - 1 <= m \/ i - 1 >= m + s[m].skip ELSE i - 1 < m + s[m].skip
  <2> DEFINE relay == m + s[m].skip
  <2>1. relay \in Nat /\ m \in Nat
    BY <1>1, <1>4
  <2>2. IF step[k] + 1 >= relay THEN i <= m \/ i >= relay ELSE i < relay
    BY <1>4 DEF Made, Taken
  <2>3. s[relay - 1].op = "stop"
    BY <1>1, <1>4, SMTT(20) DEF Orderly
  <2> HIDE DEF relay
  <2>4. i # relay
    BY <2>3
  <2>5. IF step[k] + 1 >= relay THEN i - 1 <= m \/ i - 1 >= relay ELSE i - 1 < relay
    BY <1>1, <1>2, <2>1, <2>2, <2>4
  <2> QED BY <2>5 DEF relay
<1>5. i - 1 \in Taken(k)
  BY <1>3, <1>4 DEF Taken
<1> QED BY <1>1, <1>2, <1>5 DEF Made

(* Nobody counts on a tree that is being replaced.                         *)
LEMMA NobodyCounts ==
  ASSUME Types, Steady(asked), MadeInv, TreesInv, WindowInv, NEW j \in Jobs, Clear(j),
         NEW k \in Jobs, NEW i \in Made(k), Steps(k)[i].op \in Delivers, Steps(k)[i].on = On(j)
  PROVE  FALSE
<1> DEFINE s == Steps(k)
<1>0. ProgressOK /\ SandboxOK
  BY DEF Types
<1>1. i \in DOMAIN s /\ Firm(k, i)
  BY DEF Made, Taken, MadeInv
<1>2. Offered(On(j))
  BY <1>1 DEF Offered, Has, Steps
<1>3. Replaces(asked, j, 3) /\ On(j) = Steps(j)[3].on /\ ~Found(j)
  BY <1>0, <1>2, ClearsLooked
<1>4. On(j) \in Trees
  BY <1>0, OnTreeType DEF Clear, OnTree
<1>5. Works(On(j))
  <2>1. CASE s[i].op = "run"
    BY <1>1, <2>1 DEF Firm
  <2>2. CASE s[i].op \in {"stamp", "use"}
    BY <1>0, <1>1, <1>4, <2>2, WholeWorks DEF Firm
  <2>3. CASE s[i].op = "add"
    <3>1. added[On(j)] # {}
      BY <1>1, <2>3 DEF Firm
    <3> QED BY <1>0, <1>4, <3>1, WholeWorks DEF TreesInv
  <2> QED BY <2>1, <2>2, <2>3 DEF Delivers
<1>6. CASE Steps(j)[1].op = "hitRuns"
  BY <1>3, <1>5, <1>6 DEF Found
<1>7. CASE Steps(j)[1].op = "hitStamped"
  <2>1. s[i].op = "stamp" \/ (s[i].op = "run" /\ i > 1 /\ s[i - 1] = Do("stamp", On(j)))
    BY <1>1, <1>3, <1>7 DEF Replaces, Steps
  <2>2. On(j) \in stamp
    <3>1. CASE s[i].op = "stamp"
      BY <1>1, <3>1 DEF Firm
    <3>2. CASE i > 1 /\ s[i - 1] = Do("stamp", On(j))
      <4>1. s[i - 1].op = "stamp" /\ s[i - 1].on = On(j)
        BY <3>2 DEF Do
      <4>2. i - 1 \in Made(k)
        BY <1>0, <3>2, <4>1, MadePrevious
      <4>3. Firm(k, i - 1)
        BY <4>2 DEF MadeInv
      <4> QED BY <4>1, <4>3 DEF Firm
    <3> QED BY <2>1, <3>1, <3>2
  <2> QED BY <1>3, <1>5, <2>2 DEF Found
<1> QED BY <1>3, <1>6, <1>7 DEF Replaces, Steps

(* Only clearing a tree takes anything from it. *)
LEMMA OnlyClears ==
  ASSUME Types, Steady(asked), DataInv, TreesInv, [Next]_vars, NEW t \in Trees,
         \A j \in Jobs : Clear(j) => On(j) # t
  PROVE  /\ Whole(t) => Whole(t)'
         /\ Works(t) => Works(t)'
         /\ t \in stamp => t \in stamp'
         /\ added[t] \subseteq added'[t]
<1>0. ProgressOK /\ SandboxOK
  BY DEF Types
<1>1. /\ tree \in [Trees -> [DOMAIN Absent -> Digests \cup {None, Torn}]]
      /\ added \in [Trees -> SUBSET Jobs]
  BY <1>0 DEF SandboxOK
<1>2. ASSUME tree'[t] = tree[t] PROVE Whole(t)' = Whole(t) /\ Works(t)' = Works(t)
  BY <1>2 DEF Whole, Works
<1>3. CASE UNCHANGED <<tree, stamp, added>>
  BY <1>2, <1>3
<1>4. ASSUME NEW j \in Jobs, Clear(j)
      PROVE  tree'[t] = tree[t] /\ (t \in stamp => t \in stamp') /\ added[t] \subseteq added'[t]
  BY <1>1, <1>4 DEF Clear
<1>5. ASSUME NEW j \in Jobs, Push(j)
      PROVE  /\ Whole(t) => Whole(t)'
             /\ Works(t) => Works(t)'
             /\ UNCHANGED <<stamp, added>>
  BY <1>5, PushKeeps DEF Push, Whole
<1>6. ASSUME NEW j \in Jobs, Stamp(j) \/ Add(j)
      PROVE  tree' = tree /\ (t \in stamp => t \in stamp') /\ added[t] \subseteq added'[t]
  BY <1>1, <1>6 DEF Stamp, Add
<1>7. ASSUME NEW j \in Jobs, Start(j) \/ Take(j) \/ Build(j) \/ Resolve(j) \/ Read(j)
      PROVE  UNCHANGED <<tree, stamp, added>>
  BY <1>7 DEF Start, Take, Build, Resolve, Read, sandbox
<1> QED BY <1>0, <1>2, <1>3, <1>4, <1>5, <1>6, <1>7, Hands DEF Changes, sandbox

(* Whoever is about to write the marker of a tool has pushed all of it.    *)
LEMMA MarkStep ==
  ASSUME Types, Steady(asked), DataInv, TreesInv, MarkInv, KeysInv, [Next]_vars PROVE MarkInv'
<1>0. ProgressOK /\ SandboxOK
  BY DEF Types
<1> SUFFICES ASSUME NEW k \in Jobs, AtStep(k, "stamp")', NEW t, t = On(k)' PROVE Whole(t)'
  BY DEF MarkInv, Whole
<1> DEFINE s == Steps(k)
<1>1. /\ Orderly(s) /\ Len(s) \in Nat /\ DOMAIN s = 1..Len(s) /\ step[k] \in Nat
      /\ \A i \in DOMAIN s : s[i].op \in OnTree => s[i].on \in Trees
  BY <1>0, Scripts DEF ProgressOK
<1>2. asked' = asked /\ Steps(k)' = s
  BY <1>0, Motions DEF Steps
<1>3. state'[k] = "running" /\ step'[k] \in Nat /\ step'[k] + 1 \in DOMAIN s
  <2>1. ProgressOK' /\ state'[k] = "running"
    BY NextTypes DEF Types, AtStep
  <2> QED BY <1>1, <1>2, <2>1 DEF ProgressOK
<1>4. PICK i \in DOMAIN s : i = step'[k] + 1 /\ i - 1 = step'[k]
  BY <1>3
<1>5. s[i].op = "stamp" /\ t = s[i].on /\ t \in Trees
  <2>1. s[i].op = "stamp" /\ t = s[i].on
    BY <1>2, <1>4 DEF AtStep, On, Now
  <2> QED BY <1>1, <2>1 DEF OnTree
<1>6. i > 2 /\ s[i - 1] = Do("push", s[i].on) /\ s[i - 2].op = "clear"
  BY <1>1, <1>5 DEF Orderly
<1>7. s[i - 1].op = "push" /\ s[i - 1].on = s[i].on
  BY <1>6 DEF Do
<1>8. CASE Still(k)
  <2>1. AtStep(k, "stamp") /\ On(k) = t
    BY <1>2, <1>3, <1>4, <1>5, <1>8 DEF Still, AtStep, On, Now
  <2>2. Offered(t) /\ Has(asked, k, Writes, t)
    BY <1>0, <2>1, HasNow DEF AtStep, Delivers, Writes
  <2>3. ASSUME NEW j \in Jobs, Clear(j), On(j) = t PROVE FALSE
    <3>1. j # k /\ state[j] = "running" /\ step[j] + 1 \in DOMAIN Steps(j)
      BY <1>0, <2>1, <2>3, NowType DEF Clear, AtStep
    <3>2. Steps(j)[step[j] + 1].op = "clear" /\ Steps(j)[step[j] + 1].on = t
      BY <2>3 DEF Clear, AtStep, Now, On
    <3> QED BY <1>0, <2>1, <2>2, <3>1, <3>2, AloneOn DEF AtStep
  <2>4. Whole(t)
    BY <2>1 DEF MarkInv
  <2>5. \A j \in Jobs : Clear(j) => On(j) # t
    BY <2>3
  <2> QED BY <1>5, <2>4, <2>5, OnlyClears
<1>9. CASE Step(k) /\ Forth(k)
  <2>1. Now(k).op = "push" /\ On(k) = t
    <3>1. i - 1 = step[k] + 1
      BY <1>4, <1>9 DEF Forth
    <3>2. s[step[k] + 1] = s[i - 1]
      BY <3>1
    <3> QED BY <1>5, <1>7, <3>2 DEF Now, On
  <2>2. Push(k)
    BY <1>9, <2>1, StepIs
  <2>3. Left(k) = {} /\ tree' = tree
    BY <1>1, <1>9, <2>2 DEF Push, Forth
  <2>4. data[k] \in Digests
    BY <2>2, PushesContent
  <2>5. \A p \in DOMAIN tree[t] : tree[t][p] = data[k]
    <3>1. DOMAIN tree[t] = DOMAIN Absent
      BY <1>0, <1>5 DEF SandboxOK
    <3>2. DOMAIN Absent = {Parts[n] : n \in DOMAIN Parts}
      BY DEF Absent
    <3>3. \A n \in DOMAIN Parts : tree[t][Parts[n]] = data[k]
      BY <2>1, <2>3 DEF Left
    <3> QED BY <3>1, <3>2, <3>3
  <2> QED BY <2>3, <2>4, <2>5 DEF Whole
<1>10. CASE Leaps(k)
  <2>1. s[i - 1].op = "push" /\ s[i - 1 - 1].op \in {"get", "build"}
    BY <1>4, <1>7, <1>10 DEF Leaps
  <2>2. i - 1 - 1 = i - 2
    BY <1>1, <1>6
  <2> QED BY <1>6, <2>1, <2>2
<1> QED BY <1>0, <1>3, <1>4, <1>6, <1>8, <1>9, <1>10, Motions DEF Stops, Ends


(* Where a request is about to replace a tree nobody puts what it missed.  *)
LEMMA NothingPut ==
  ASSUME Types, Steady(asked), DataInv, TreesInv, KeysInv, [Next]_vars,
         NEW k \in Jobs, Replacing(k), Steps(k)[2].op = "get",
         NEW t \in Trees, t = Steps(k)[3].on
  PROVE  /\ Works(t)' => Works(t)
         /\ t \in stamp' => t \in stamp
<1>0. ProgressOK /\ SandboxOK
  BY DEF Types
<1>1. /\ tree \in [Trees -> [DOMAIN Absent -> Digests \cup {None, Torn}]]
      /\ Needed[t] \subseteq DOMAIN Absent
  BY <1>0, ScriptAssumption DEF SandboxOK, Absent
<1>2. /\ state[k] = "running" /\ 3 \in DOMAIN Steps(k) /\ Steps(k)[3].op = "clear"
      /\ Offered(Steps(k)[3].on) /\ Now(k).op \in {"get", "clear"}
  BY DEF Replacing, Now
<1>3. ASSUME tree'[t] = tree[t] PROVE Works(t)' => Works(t)
  BY <1>3 DEF Works
<1>4. CASE UNCHANGED <<tree, stamp>>
  BY <1>3, <1>4
<1>5. ASSUME NEW j \in Jobs, AtStep(j, "push") \/ AtStep(j, "stamp") PROVE On(j) # t
  <2>1. state[j] = "running" /\ j # k /\ Now(j).op \in Writes
    BY <1>2, <1>5 DEF AtStep, Writes
  <2>2. Has(asked, j, Writes, On(j))
    BY <1>0, <2>1, HasNow
  <2> QED BY <1>0, <1>2, <2>1, <2>2, AloneOn
<1>6. ASSUME NEW j \in Jobs, Clear(j) PROVE (Works(t)' => Works(t)) /\ (t \in stamp' => t \in stamp)
  <2>1. stamp' \subseteq stamp /\ tree' = [tree EXCEPT ![On(j)] = Absent]
    BY <1>6 DEF Clear, Cleared
  <2>2. CASE t = On(j)
    <3>1. tree'[t] = Absent
      BY <1>1, <2>1, <2>2
    <3>2. ASSUME Works(t)', NEW p \in Needed[t] PROVE FALSE
      <4>1. tree'[t][p] = None
        BY <1>1, <3>1, <3>2 DEF Absent
      <4>2. tree'[t][p] \in Digests
        BY <3>2 DEF Works
      <4> QED BY <4>1, <4>2, CacheAssumption
    <3> QED BY <2>1, <3>2 DEF Works
  <2>3. CASE t # On(j)
    BY <1>1, <1>3, <2>1, <2>3
  <2> QED BY <2>2, <2>3
<1>7. ASSUME NEW j \in Jobs, Push(j) PROVE (Works(t)' => Works(t)) /\ stamp' = stamp
  <2>1. On(j) # t
    BY <1>5, <1>7 DEF Push
  <2>2. \A p \in DOMAIN Absent : tree'[t][p] = tree[t][p]
    BY <1>7, <2>1, PushKeeps
  <2> QED BY <1>1, <1>7, <2>2 DEF Works, Push
<1>8. ASSUME NEW j \in Jobs, Stamp(j) PROVE (Works(t)' => Works(t)) /\ (t \in stamp' => t \in stamp)
  BY <1>3, <1>5, <1>8 DEF Stamp
<1>9. ASSUME NEW j \in Jobs, Start(j) \/ Take(j) \/ Build(j) \/ Resolve(j) \/ Read(j) \/ Add(j)
      PROVE  UNCHANGED <<tree, stamp>>
  BY <1>9 DEF Start, Take, Build, Resolve, Read, Add, sandbox
<1> QED BY <1>0, <1>3, <1>4, <1>6, <1>7, <1>8, <1>9, Hands DEF Changes, sandbox

(* Who looks and goes on has found it missing, and it stays so till it is  *)
(* replaced.                                                               *)
LEMMA WindowStep ==
  ASSUME Types, Steady(asked), DataInv, TreesInv, KeysInv, WindowInv, [Next]_vars PROVE WindowInv'
<1>0. ProgressOK
  BY DEF Types
<1> SUFFICES ASSUME NEW k \in Jobs, Replacing(k)' PROVE ~Found(k)'
  BY DEF WindowInv
<1> DEFINE s == Steps(k)
<1>1. /\ asked' = asked /\ Steps(k)' = s /\ step[k] \in Nat
      /\ \A i \in DOMAIN s : s[i].op \in OnTree => s[i].on \in Trees
  BY <1>0, Motions, Scripts DEF Steps, ProgressOK
<1>2. /\ state'[k] = "running" /\ step'[k] \in {1, 2} /\ 3 \in DOMAIN s
      /\ s[3].op = "clear" /\ Offered(s[3].on)
  BY <1>1 DEF Replacing, Offered
<1>3. PICK t \in Trees : t = s[3].on
  BY <1>1, <1>2 DEF OnTree
<1>4. s[1].op \in {"hitRuns", "hitStamped"} /\ s[1].on = t /\ s[2].op = "get"
  <2>1. Replaces(asked, k, 3)
    BY <1>2 DEF Steady, Steps, Offered
  <2> QED BY <1>3, <2>1 DEF Replaces, Steps
<1> SUFFICES ASSUME Works(t)', s[1].op = "hitStamped" => t \in stamp' PROVE FALSE
  BY <1>1, <1>3 DEF Found, Works
<1>5. ASSUME Replacing(k) PROVE FALSE
  <2>1. Works(t) /\ (s[1].op = "hitStamped" => t \in stamp)
    BY <1>3, <1>4, <1>5, NothingPut
  <2> QED BY <1>3, <1>5, <2>1 DEF WindowInv, Found
<1>6. CASE Still(k)
  BY <1>2, <1>5, <1>6 DEF Still, Replacing
<1>7. CASE Step(k) /\ state[k] = "running" /\ Forth(k)
  <2>1. step[k] \in {0, 1}
    BY <1>1, <1>2, <1>7 DEF Forth
  <2>2. CASE step[k] = 1
    BY <1>2, <1>5, <1>7, <2>2 DEF Replacing
  <2>3. CASE step[k] = 0
    <3>1. Now(k) = s[1] /\ On(k) = t
      BY <1>4, <2>3 DEF Now, On
    <3>2. HitRuns(k) \/ HitStamped(k)
      BY <1>4, <1>7, <3>1, StepIs
    <3>3. tree' = tree /\ stamp' = stamp
      BY <3>2 DEF HitRuns, HitStamped, sandbox
    <3>4. Works(t) /\ (s[1].op = "hitStamped" => t \in stamp)
      BY <3>3 DEF Works
    <3>5. Finish(k, "ok")
      BY <3>1, <3>2, <3>4 DEF HitRuns, HitStamped, AtStep, Runs
    <3> QED BY <1>0, <1>2, <3>5 DEF Finish, ProgressOK
  <2> QED BY <2>1, <2>2, <2>3
<1>8. CASE Leaps(k)
  <2>1. step'[k] = 2
    BY <1>1, <1>2, <1>8 DEF Leaps
  <2> QED BY <1>4, <1>8, <2>1 DEF Leaps
<1> QED BY <1>0, <1>2, <1>6, <1>7, <1>8, Motions DEF Stops, Ends


(* What a job has behind it stays as it left it. *)
LEMMA FirmStays ==
  ASSUME Types, Steady(asked), StandInv, [Next]_vars, NEW k \in Jobs, NEW i \in Made(k),
         Steps(k)[i].op \in Yields, NEW t \in Trees, t = Steps(k)[i].on
  PROVE  /\ Steps(k)[i].op = "run" => Works(t)'
         /\ Steps(k)[i].op = "stamp" => Whole(t)' /\ t \in stamp'
         /\ Steps(k)[i].op = "use" => Whole(t)'
         /\ Steps(k)[i].op = "add" => k \in added'[t]
         /\ Steps(k)[i].op = "read" => plan'[k] = k
<1>0. ProgressOK /\ SandboxOK /\ MadeInv /\ TreesInv /\ DataInv /\ WindowInv /\ PlanInv
  BY DEF Types, StandInv
<1>1. /\ Steps(k)[i].op = "run" => Works(t)
      /\ Steps(k)[i].op = "stamp" => Whole(t) /\ t \in stamp
      /\ Steps(k)[i].op = "use" => Whole(t)
      /\ Steps(k)[i].op = "add" => k \in added[t]
      /\ Steps(k)[i].op = "read" => plan[k] = k
  <2>1. Firm(k, i)
    BY <1>0 DEF MadeInv
  <2> QED BY <2>1 DEF Firm
<1>2. CASE Steps(k)[i].op \in Delivers
  <2>1. \A j \in Jobs : Clear(j) => On(j) # t
    BY <1>0, <1>2, NobodyCounts
  <2>2. /\ Whole(t) => Whole(t)'
        /\ Works(t) => Works(t)'
        /\ t \in stamp => t \in stamp'
        /\ added[t] \subseteq added'[t]
    BY <1>0, <2>1, OnlyClears
  <2> QED BY <1>1, <1>2, <2>2 DEF Delivers
<1>3. CASE Steps(k)[i].op = "read"
  <2>1. state[k] # "idle" /\ plan[k] = k /\ plan \in [Jobs -> Jobs \cup {Nobody}]
    BY <1>0, <1>1, <1>3 DEF Made, SandboxOK
  <2>2. ASSUME NEW j \in Jobs, Start(j) \/ Take(j) \/ Changes(j) PROVE plan'[k] = k
    <3>1. CASE Start(j)
      BY <2>1, <3>1 DEF Start
    <3>2. CASE Read(j)
      BY <1>0, <2>1, <3>2 DEF Read, PlanInv
    <3>3. CASE plan' = plan
      BY <2>1, <3>3
    <3> QED BY <2>2, <3>1, <3>2, <3>3 DEF Take, Changes, Build, Clear, Push, Stamp, Resolve, Add
  <2>3. plan'[k] = k
    BY <1>0, <2>1, <2>2, Hands
  <2> QED BY <1>3, <2>3 DEF Delivers
<1> QED BY <1>2, <1>3 DEF Yields

(* A step that is done has left what it is for. *)
LEMMA FirmDone ==
  ASSUME Types, StandInv, NEW k \in Jobs, Step(k), Advance(k, 1), state'[k] \in {"running", "ok"},
         Now(k).op \in Yields, NEW t \in Trees, t = On(k)
  PROVE  /\ Now(k).op = "run" => Works(t)'
         /\ Now(k).op = "stamp" => Whole(t)' /\ t \in stamp'
         /\ Now(k).op = "use" => Whole(t)'
         /\ Now(k).op = "add" => k \in added'[t]
         /\ Now(k).op = "read" => plan'[k] = k
<1>0. SandboxOK /\ ProgressOK /\ MarkInv /\ PlanInv
  BY DEF Types, StandInv
<1>1. /\ state \in [Jobs -> {"idle", "running", "ok", "failed"}]
      /\ plan \in [Jobs -> Jobs \cup {Nobody}] /\ added \in [Trees -> SUBSET Jobs]
  BY <1>0 DEF ProgressOK, SandboxOK
<1>2. ~Finish(k, "failed")
  BY <1>1 DEF Finish
<1>3. ASSUME tree' = tree PROVE Whole(t)' = Whole(t) /\ Works(t)' = Works(t)
  BY <1>3 DEF Whole, Works
<1>4. CASE Now(k).op = "run"
  <2>1. Run(k)
    BY <1>4, StepIs
  <2>2. Works(t) /\ tree' = tree
    BY <1>2, <2>1 DEF Run, Proceed, Runs, sandbox
  <2> QED BY <1>3, <1>4, <2>2
<1>5. CASE Now(k).op = "use"
  <2>1. Use(k)
    BY <1>5, StepIs
  <2>2. Whole(t) /\ tree' = tree
    BY <1>2, <2>1 DEF Use, Proceed, sandbox
  <2> QED BY <1>3, <1>5, <2>2
<1>6. CASE Now(k).op = "stamp"
  <2>1. Stamp(k)
    BY <1>6, StepIs
  <2>2. Whole(t) /\ tree' = tree /\ t \in stamp'
    BY <1>0, <2>1 DEF Stamp, MarkInv
  <2> QED BY <1>3, <1>6, <2>2
<1>7. CASE Now(k).op = "add"
  <2>1. Add(k) /\ state[k] = "running"
    BY <1>7, StepIs
  <2>2. plan[k] \in {Nobody, k}
    BY <1>0, <2>1 DEF PlanInv
  <2>3. (IF plan[k] = Nobody THEN k ELSE plan[k]) = k
    BY <2>2
  <2>4. added' = [added EXCEPT ![t] = @ \cup {k}]
    BY <1>2, <2>1, <2>3 DEF Add
  <2> QED BY <1>1, <1>7, <2>4
<1>8. CASE Now(k).op = "read"
  <2>1. Read(k)
    BY <1>8, StepIs
  <2>2. plan' = [plan EXCEPT ![k] = report] /\ report = k
    BY <1>0, <2>1 DEF Read, PlanInv
  <2> QED BY <1>1, <1>8, <2>2
<1> QED BY <1>4, <1>5, <1>6, <1>7, <1>8 DEF Yields, Delivers

(* A hit finds all that its request would deliver. *)
LEMMA FirmHit ==
  ASSUME Types, Steady(asked), StandInv, NEW k \in Jobs, HitRuns(k) \/ HitStamped(k), ~Advance(k, 1),
         NEW i \in DOMAIN Steps(k), Steps(k)[i].op \in Yields, NEW t \in Trees, t = Steps(k)[i].on
  PROVE  /\ Steps(k)[i].op \in {"run", "stamp"}
         /\ Works(t)'
         /\ Steps(k)[i].op = "stamp" => Whole(t)' /\ t \in stamp'
<1> DEFINE s == Steps(k)
<1>0. ProgressOK /\ SandboxOK /\ TreesInv
  BY DEF Types, StandInv
<1>1. PICK h \in DOMAIN s : s[h] = Now(k) /\ s[h].op \in {"hitRuns", "hitStamped"} /\ s[h].on = On(k)
  BY <1>0, NowType DEF HitRuns, HitStamped, AtStep, Now, On
<1>2. /\ s[i].op # "read" /\ (s[i].op = "stamp" => s[h].op = "hitStamped")
      /\ s[i].op \in Delivers => s[i].op \in {"run", "stamp"} /\ s[i].on = s[h].on
  BY <1>0, <1>1, Scripts DEF Orderly
<1>3. s[i].op \in {"run", "stamp"} /\ On(k) = t
  BY <1>1, <1>2 DEF Yields
<1>4. tree' = tree /\ stamp' = stamp /\ Works(t) /\ (Now(k).op = "hitStamped" => t \in stamp)
  BY <1>3 DEF HitRuns, HitStamped, AtStep, Runs, sandbox
<1>5. Whole(t)' = Whole(t) /\ Works(t)' = Works(t)
  BY <1>4 DEF Whole, Works
<1> QED BY <1>0, <1>1, <1>2, <1>3, <1>4, <1>5 DEF TreesInv


(* So all that is behind a job is there after every step. *)
LEMMA MadeStep ==
  ASSUME Types, Steady(asked), StandInv, [Next]_vars PROVE MadeInv'
<1>0. ProgressOK
  BY DEF Types
<1> SUFFICES ASSUME NEW k \in Jobs, NEW i \in Made(k)' PROVE Firm(k, i)'
  BY DEF MadeInv
<1> DEFINE s == Steps(k)
<1>1. /\ asked' = asked /\ Steps(k)' = s /\ i \in DOMAIN s /\ DOMAIN s = 1..Len(s)
      /\ \A m \in DOMAIN s : s[m].op \in OnTree => s[m].on \in Trees
  <2>1. asked' = asked /\ Steps(k)' = s
    BY <1>0, Motions DEF Steps
  <2> QED BY <1>0, <2>1, Scripts DEF Made, Taken
<1>2. state'[k] \in {"ok", "running"} /\ (state'[k] = "running" => i <= step'[k])
  BY DEF Made
<1>3. CASE s[i].op \notin Yields
  BY <1>1, <1>3 DEF Firm, Yields, Delivers
<1>4. CASE s[i].op \in Yields
  <2>1. PICK t \in Trees : t = s[i].on
    BY <1>1, <1>4 DEF Yields, Delivers, OnTree
  <2> SUFFICES /\ s[i].op = "run" => Works(t)'
               /\ s[i].op = "stamp" => Whole(t)' /\ t \in stamp'
               /\ s[i].op = "use" => Whole(t)'
               /\ s[i].op = "add" => k \in added'[t]
               /\ s[i].op = "read" => plan'[k] = k
    BY <1>1, <2>1 DEF Firm, Works, Whole
  <2>3. CASE i \in Made(k)
    BY <1>4, <2>1, <2>3, FirmStays
  <2>4. CASE Still(k)
    <3>1. i \in Made(k)
      BY <1>1, <2>4 DEF Still, Made, Taken
    <3> QED BY <2>3, <3>1
  <2>5. CASE step'[k] = 0 /\ state'[k] = "running"
    BY <1>1, <1>2, <2>5
  <2>6. CASE Step(k) /\ state[k] = "running"
    <3>1. Onward(k)
      BY <2>6, StepOnward
    <3>2. CASE Now(k).op \in {"hitRuns", "hitStamped"} /\ ~Advance(k, 1)
      <4>1. HitRuns(k) \/ HitStamped(k)
        BY <2>6, <3>2, StepIs
      <4>2. /\ s[i].op \in {"run", "stamp"}
            /\ Works(t)'
            /\ s[i].op = "stamp" => Whole(t)' /\ t \in stamp'
        BY <1>1, <1>4, <2>1, <3>2, <4>1, FirmHit
      <4> QED BY <4>2
    <3>3. CASE i = step[k] + 1 /\ Advance(k, 1)
      <4>1. Now(k) = s[i] /\ On(k) = t
        BY <2>1, <3>3 DEF Now, On
      <4> QED BY <1>2, <1>4, <2>6, <3>3, <4>1, FirmDone
    <3>4. CASE Now(k).op \in {"hitRuns", "hitStamped"} => Advance(k, 1)
      BY <1>0, <1>1, <1>4, <2>3, <2>6, <3>1, <3>3, <3>4, MadeBefore
    <3> QED BY <3>2, <3>4
  <2> QED BY <1>0, <1>2, <2>4, <2>5, <2>6, Motions DEF Stops
<1> QED BY <1>3, <1>4

(* At the start nothing is there and nobody has done anything. *)
LEMMA StandInit == Init => StandInv
<1> SUFFICES ASSUME Init PROVE StandInv
  OBVIOUS
<1>1. \A j \in Jobs : step[j] = 0 /\ state[j] \in {"ok", "idle"} /\ (state[j] = "ok" => Steps(j) = <<>>)
  BY DEF Init
<1>2. \A j \in Jobs : Made(j) = {}
  BY <1>1 DEF Made, Taken
<1>3. \A t \in Trees : added[t] = {} /\ t \notin stamp /\ tree[t] = Absent
  BY DEF Init
<1>4. \A j \in Jobs : plan[j] = Nobody /\ ~(state[j] = "running")
  BY <1>1 DEF Init
<1>5. MadeInv /\ DataInv /\ MarkInv /\ WindowInv /\ PlanInv /\ KeysInv
  BY <1>2, <1>4 DEF MadeInv, DataInv, MarkInv, WindowInv, PlanInv, KeysInv, Replacing, AtStep
<1>6. TreesInv
  BY <1>3 DEF TreesInv, Absent
<1> QED BY <1>5, <1>6 DEF StandInv

(* What is made on the way stands step by step. *)
LEMMA StandStep ==
  ASSUME CacheInv, Steady(asked), StandInv, [Next]_vars PROVE StandInv'
<1>1. Types /\ ProgressOK
  BY DEF CacheInv, Types
<1>2. TreesInv' /\ DataInv' /\ KeysInv'
  BY <1>1, TreesStep, DataStep, KeysStep DEF StandInv
<1>3. MarkInv' /\ WindowInv' /\ PlanInv'
  BY <1>1, MarkStep, WindowStep, PlanStep DEF StandInv
<1>4. MadeInv'
  BY <1>1, MadeStep
<1> QED BY <1>2, <1>3, <1>4 DEF StandInv


(* The invariant holds with the cache's, for casts that are apart and steady. *)
LEMMA StandInvariant ==
  ASSUME \A c \in Casts : Apart(c) /\ Steady(c) PROVE Spec => [](CacheInv /\ StandInv)
<1>1. Init => StandInv
  BY StandInit
<1>2. CacheInv /\ StandInv /\ [Next]_vars => StandInv'
  <2> SUFFICES ASSUME CacheInv, StandInv, [Next]_vars PROVE StandInv'
    OBVIOUS
  <2>1. asked \in Casts
    BY DEF CacheInv, Types, ProgressOK
  <2> QED BY <2>1, StandStep
<1>3. Spec => []CacheInv
  BY CacheInvariant
<1> QED BY <1>1, <1>2, <1>3, PTL DEF Spec

(***************************************************************************)
(* What a request has reported as installed is there as long as it counts: *)
(* the binary runs, the tool is whole, the plan and the packages are its   *)
(* own, whatever other requests fetch, replace, push or lose beside it     *)
(* (runtime/install.go, catalog/install.go, pip, npm, maven, cargo, conda).*)
(* Steady is needed: two requests of different keys that push different    *)
(* contents to one tree, or one that clears a tree without a look, take it *)
(* away, as MCRusts shows, two requests of one runtime that have no key.   *)
(***************************************************************************)
THEOREM InstallsReportedStays ==
  ASSUME \A c \in Casts : Apart(c) /\ Steady(c) PROVE Spec => []ReportedStays
<1>1. CacheInv /\ StandInv => ReportedStays
  <2> SUFFICES ASSUME MadeInv, NEW j \in Jobs, state[j] = "ok", NEW i \in Taken(j)
               PROVE  LET s == Steps(j)[i] IN
                      /\ s.op = "run" => Works(s.on)
                      /\ s.op \in {"stamp", "use"} => Whole(s.on)
                      /\ s.op = "add" => j \in added[s.on]
                      /\ s.op = "read" => plan[j] = j
    BY DEF ReportedStays, Delivered, StandInv
  <2>1. Firm(j, i)
    BY DEF Made, MadeInv
  <2> QED BY <2>1 DEF Firm
<1> QED BY <1>1, StandInvariant, PTL

=============================================================================
