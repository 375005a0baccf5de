----------------------------- MODULE RelayCache -----------------------------
(***************************************************************************)
(* The controller's download cache: internal/relay/fetch.go, and the two   *)
(* downloaders that keep to themselves what it shares,                     *)
(* internal/maven/maven.go (the Coursier launcher) and                     *)
(* internal/agent/install.go; and cache prune, which removes what is in    *)
(* the directory (internal/cli/cache.go).  Fetchers are goroutines of any  *)
(* number of processes on one cache directory.                             *)
(*                                                                         *)
(* A file is its content, a digest, and the fetcher that truncated it      *)
(* last: several may have one inode open, and renaming it to its name in   *)
(* the cache does not stop those that still write.                         *)
(***************************************************************************)
EXTENDS Naturals, FiniteSets

CONSTANTS
  Fetchers, Nobody,
  Files,       \* names in the cache directory
  Digests,     \* contents that servers send
  None, Torn   \* no file; a file of which bytes are missing

ASSUME CacheAssumption ==
  /\ Nobody \notin Fetchers
  /\ None # Torn /\ None \notin Digests /\ Torn \notin Digests
  /\ Files # {} /\ Digests # {}

VARIABLES
  cached,   \* cached[n]: the file of name n
  part,     \* part[n]: the file n.tmp
  lockfile, \* lockfile[n]: which file n.lock is, counted as they are removed
  fetch,    \* fetch[f]: what f downloads, and how far it is
  doomed    \* the files that a prune has listed and not removed yet

cache == <<cached, part, lockfile, fetch, doomed>>

(* How the three downloaders differ: Fetch is serialised by a lock and     *)
(* hashes what it receives; the launcher is checked in memory before it is *)
(* written; the agent's package is checked in its file.                    *)
Manners == {"locked", "memory", "file"}
Positions == {"idle", "look", "wait", "recheck", "open", "copy", "verify", "publish", "have", "failed"}

Content == [is : Digests \cup {None, Torn}, by : Fetchers \cup {Nobody}]
Fetch == [at : Positions, file : Files, want : Digests, how : Manners,
          got : Digests, to : {"tmp", "dst", "gone"}, lock : Nat]

CacheTypeOK ==
  /\ cached \in [Files -> Content] /\ part \in [Files -> Content]
  /\ lockfile \in [Files -> Nat]
  /\ fetch \in [Fetchers -> Fetch]
  /\ doomed \subseteq Files \X {"asset", "lock", "tmp"}

NoFile == [is |-> None, by |-> Nobody]
Resting == LET d == CHOOSE d \in Digests : TRUE IN
  [at |-> "idle", file |-> CHOOSE n \in Files : TRUE, want |-> d, how |-> "locked", got |-> d, to |-> "gone", lock |-> 0]

CacheInit ==
  /\ cached = [n \in Files |-> NoFile] /\ part = [n \in Files |-> NoFile]
  /\ lockfile = [n \in Files |-> 0]
  /\ fetch = [f \in Fetchers |-> Resting]
  /\ doomed = {}

-----------------------------------------------------------------------------

Hit(f) == cached[fetch[f].file].is = fetch[f].want

(* Who is past the lock holds the flock on the file that he opened; the    *)
(* name may have another one by now.                                       *)
Holds(f) == fetch[f].how = "locked" /\ fetch[f].at \in {"recheck", "open", "copy", "verify", "publish"}

Free(f) ==
  ~ \E g \in Fetchers \ {f} :
      Holds(g) /\ fetch[g].file = fetch[f].file /\ fetch[g].lock = fetch[f].lock

At(f, where) == fetch' = [fetch EXCEPT ![f].at = where]

(* A fetch begins, by a caller who waits for "have" or "failed".           *)
Begin(f, n, d, how) ==
  fetch' = [fetch EXCEPT ![f] = [at |-> "look", file |-> n, want |-> d, how |-> how,
                                 got |-> d, to |-> "gone", lock |-> 0]]

(* The fast path reads without the lock; a miss opens the lock's file.     *)
Look(f) ==
  /\ fetch[f].at = "look"
  /\ fetch' = [fetch EXCEPT ![f] =
                 [@ EXCEPT !.at = IF Hit(f) THEN "have" ELSE IF fetch[f].how = "locked" THEN "wait" ELSE "open",
                           !.lock = lockfile[fetch[f].file]]]
  /\ UNCHANGED <<cached, part, lockfile, doomed>>

Acquire(f) ==
  /\ fetch[f].at = "wait" /\ Free(f)
  /\ At(f, "recheck")
  /\ UNCHANGED <<cached, part, lockfile, doomed>>

(* Mutant: no second look under the lock.                                  *)
AgainNever(f) == FALSE

Again(f) == Hit(f)

Recheck(f) ==
  /\ fetch[f].at = "recheck"
  /\ At(f, IF Again(f) THEN "have" ELSE "open")
  /\ UNCHANGED <<cached, part, lockfile, doomed>>

(* The server answers with d and n.tmp is created, or truncated under      *)
(* whoever writes it.  The launcher is refused before that.                *)
Open(f, d) ==
  LET n == fetch[f].file IN
  /\ fetch[f].at = "open"
  /\ IF fetch[f].how = "memory" /\ d # fetch[f].want
     THEN At(f, "failed") /\ UNCHANGED part
     ELSE /\ part' = [part EXCEPT ![n] = [is |-> Torn, by |-> f]]
          /\ fetch' = [fetch EXCEPT ![f] = [@ EXCEPT !.at = "copy", !.got = d, !.to = "tmp"]]
  /\ UNCHANGED <<cached, lockfile, doomed>>

(* The last of the bytes is written, to the file that was opened.          *)
Filled(c, f) == IF c.by = f THEN [c EXCEPT !.is = fetch[f].got] ELSE c

Copy(f) ==
  LET n == fetch[f].file IN
  /\ fetch[f].at = "copy"
  /\ part' = IF fetch[f].to = "tmp" THEN [part EXCEPT ![n] = Filled(@, f)] ELSE part
  /\ cached' = IF fetch[f].to = "dst" THEN [cached EXCEPT ![n] = Filled(@, f)] ELSE cached
  /\ At(f, "verify")
  /\ UNCHANGED <<lockfile, doomed>>

(* Mutant: what was received is not hashed.                                *)
VerifiedAnyway(f) == TRUE

Verified(f) ==
  CASE fetch[f].how = "locked" -> fetch[f].got = fetch[f].want
    [] fetch[f].how = "memory" -> TRUE
    [] fetch[f].how = "file"   -> part[fetch[f].file].is = fetch[f].want

(* Whoever has a file open goes on with it under its new name, or none.    *)
Moved(n, from, to) ==
  [g \in Fetchers |-> IF fetch[g].file = n /\ fetch[g].to = from
                        THEN [fetch[g] EXCEPT !.to = to] ELSE fetch[g]]

(* A download that cannot be used removes n.tmp, whoever has it open.      *)
Discard(f) ==
  LET n == fetch[f].file IN
  /\ part' = [part EXCEPT ![n] = NoFile]
  /\ fetch' = [Moved(n, "tmp", "gone") EXCEPT ![f].at = "failed"]
  /\ UNCHANGED <<cached, lockfile, doomed>>

Verify(f) ==
  /\ fetch[f].at = "verify"
  /\ IF Verified(f) THEN At(f, "publish") /\ UNCHANGED <<cached, part, lockfile, doomed>> ELSE Discard(f)

(* The server does not answer, or the connection to it fails.              *)
Abort(f) ==
  \/ fetch[f].at = "copy" /\ Discard(f)
  \/ fetch[f].at = "open" /\ At(f, "failed") /\ UNCHANGED <<cached, part, lockfile, doomed>>

(* The rename takes whatever n.tmp is by now, or finds none.               *)
Publish(f) ==
  LET n == fetch[f].file IN
  /\ fetch[f].at = "publish"
  /\ IF part[n].is = None
     THEN At(f, "failed") /\ UNCHANGED <<cached, part>>
     ELSE /\ cached' = [cached EXCEPT ![n] = part[n]]
          /\ part' = [part EXCEPT ![n] = NoFile]
          /\ fetch' = [Moved(n, "tmp", "dst") EXCEPT ![f] = [@ EXCEPT !.at = "have", !.to = "gone"]]
  /\ UNCHANGED <<lockfile, doomed>>

(* The goroutines of a dead process or a cancelled context are gone; the   *)
(* kernel releases their locks, n.tmp stays.                               *)
Lost(dead) ==
  /\ fetch' = [f \in Fetchers |-> IF f \in dead THEN Resting ELSE fetch[f]]
  /\ UNCHANGED <<cached, part, lockfile, doomed>>

(* A prune lists the directory once: what an interrupted download left,    *)
(* and, if it is asked for all or they are old, the entries.               *)
Victims(all) ==
  {<<n, "asset">> : n \in {m \in Files : all /\ cached[m].is # None}} \cup
  {<<n, "tmp">> : n \in {m \in Files : part[m].is # None}}

List(all) ==
  /\ doomed' = Victims(all)
  /\ UNCHANGED <<cached, part, lockfile, fetch>>

(* It removes by name what has that name now, and an entry's lock with it. *)
Remove(n, kind) ==
  /\ <<n, kind>> \in doomed
  /\ doomed' = (doomed \ {<<n, kind>>}) \cup (IF kind = "asset" THEN {<<n, "lock">>} ELSE {})
  /\ cached' = IF kind = "asset" THEN [cached EXCEPT ![n] = NoFile] ELSE cached
  /\ part' = IF kind = "tmp" THEN [part EXCEPT ![n] = NoFile] ELSE part
  /\ lockfile' = IF kind = "lock" THEN [lockfile EXCEPT ![n] = @ + 1] ELSE lockfile
  /\ fetch' = CASE kind = "asset" -> Moved(n, "dst", "gone")
                [] kind = "tmp" -> Moved(n, "tmp", "gone")
                [] kind = "lock" -> fetch

CacheStep(f) == Look(f) \/ Acquire(f) \/ Recheck(f) \/ Copy(f) \/ Verify(f) \/ Publish(f)

-----------------------------------------------------------------------------

(* A file whose path Fetch has returned holds the pinned content until the *)
(* caller has opened it: hits and downloads are both verified, and nobody  *)
(* writes into an entry that was renamed into place (fetch.go). A prune    *)
(* may have removed it meanwhile (cli/cache.go), which the caller notices. *)
HandsOverVerified ==
  \A f \in Fetchers : fetch[f].at = "have" => cached[fetch[f].file].is \in {fetch[f].want, None}

(* While a verified copy is in the cache nobody downloads it again, however *)
(* many waited for the one who did (fetch.go, the check under the lock).   *)
OneDownload ==
  [][\A f \in Fetchers :
       fetch[f].at = "open" /\ fetch'[f].at = "copy" =>
         cached[fetch[f].file].is # fetch[f].want]_cache

=============================================================================
