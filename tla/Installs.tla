------------------------------ MODULE Installs ------------------------------
(***************************************************************************)
(* What install and build requests do to a sandbox: the runtime installer  *)
(* (internal/runtime), the tool catalog (internal/catalog), pip, npm,      *)
(* maven, cargo, conda and the agent's package, over the cache of          *)
(* RelayCache.  A job is a handler of a serving process or a command line. *)
(* Its script is the order in which the handler touches what others share; *)
(* each step is one remote or local operation, and any of them may be the  *)
(* last one when the link drops.                                           *)
(***************************************************************************)
EXTENDS RelayCache, Sequences

CONSTANTS
  Trees,       \* directories of the sandboxes: runtimes, tools, environments
  Parts,       \* what an archive consists of, in the order it is pushed
  Needed,      \* Needed[t]: the parts that running t's binary needs
  Script,      \* Script[r]: the steps of a request for r, none for no request
  Key,         \* Key[r]: the dispatcher's key of the request, "" for none
  Link,        \* Link[r]: the connection it is served over
  Casts,       \* bound: which requests are made together in one behaviour
  MaxFaults,   \* bound: links and processes lost, downloads spoiled
  MaxAsks      \* bound: MaxAsks[c]: how often the requests of c are sent again

Jobs == Fetchers

(* The steps of which scripts are made.                                    *)
OnTree == {"hitRuns", "hitStamped", "skipPresent", "locate", "vacant", "clear", "push", "stamp",
           "run", "use", "from", "resolve", "read", "add"}
ScriptStep ==
  [op : OnTree, on : Trees]
    \cup [op : {"list", "remove"}, on : {"all", "stale"}]
    \cup [op : {"stop"}, on : {""}]
    \cup [op : {"get"}, on : Files, want : Digests, how : Manners]
    \cup [op : {"build"}, on : Trees, want : Digests]
    \cup [op : {"try"}, on : SUBSET Trees, skip : Nat \ {0}]

ASSUME ScriptAssumption ==
  /\ \A r \in DOMAIN Script : Script[r] \in Seq(ScriptStep)
  /\ Casts \subseteq [Jobs -> DOMAIN Script]
  /\ \A t \in Trees : Needed[t] \subseteq {Parts[i] : i \in DOMAIN Parts}
  /\ MaxFaults \in Nat /\ \A c \in Casts : MaxAsks[c] \in Nat

VARIABLES
  asked,     \* asked[j]: what job j was asked for
  state,     \* state[j]: where job j is
  step,      \* step[j]: how many steps of its script it has done
  asks,      \* asks[j]: how often it was sent again
  data,      \* data[j]: the content it pushes
  tree,      \* tree[t][p]: whose bytes part p of t holds
  stamp,     \* the trees with a version marker
  report,    \* whose packages state/pip-report.json lists
  plan,      \* plan[j]: whose packages the report listed when j read it
  added,     \* added[t]: the jobs whose packages are in t
  faults

jobs == <<asked, state, step, asks, data, plan>>
sandbox == <<tree, stamp, report, added>>
vars == <<cache, jobs, sandbox, faults>>

-----------------------------------------------------------------------------
(* Steps and scripts                                                       *)

Do(op, t) == [op |-> op, on |-> t]
Get(n, d, how) == [op |-> "get", on |-> n, want |-> d, how |-> how]
Make(t, d) == [op |-> "build", on |-> t, want |-> d]
Try(needs, skip) == [op |-> "try", on |-> needs, skip |-> skip]
Stop == Do("stop", "")

(* The mirror in the sandbox, and if it has not got what was asked for,    *)
(* what the controller relays.                                             *)
MirrorFirst(needs, mirror, relay) == <<Try(needs, Len(mirror) + 2)>> \o mirror \o <<Stop>> \o relay

(* What was fetched or built is sent to a directory of this request, from  *)
(* which the sandbox takes it.                                             *)
Ship(dir) == <<Do("clear", dir), Do("push", dir), Do("from", dir)>>

(* Fetch, remove what is there, push, and run what was pushed.             *)
RuntimeInstall(t, n, d) ==
  <<Do("hitRuns", t), Get(n, d, "locked"), Do("clear", t), Do("push", t), Do("run", t)>>

(* A fleet's version is resolved once: every member installs that asset.   *)
FleetInstall(ts, n, d) == [t \in ts |-> RuntimeInstall(t, n, d)]

(* The marker is written before the tool is run.                           *)
ToolInstall(t, n, d) ==
  <<Do("hitStamped", t), Get(n, d, "locked"), Do("clear", t), Do("push", t),
    Do("stamp", t), Do("run", t)>>

(* One report file for all of pip's runs; the plan is what is read back.   *)
PipRelay(t, wheels, d) ==
  <<Make(wheels, d)>> \o Ship(wheels) \o <<Do("add", t), Do("resolve", t), Do("read", t)>>
PipAuto(t, wheels, d) ==
  <<Do("locate", t)>> \o
  MirrorFirst({t}, <<Do("resolve", t), Do("read", t), Do("add", t)>>, PipRelay(t, wheels, d))

(* npm's relay pushes a tree of modules and runs nothing in the sandbox.   *)
NpmRelay(modules, d) == <<Make(modules, d), Do("push", modules)>>
NpmAuto(node, modules, d) ==
  <<Do("locate", node)>> \o MirrorFirst({node}, <<Do("add", node)>>, NpmRelay(modules, d))
NpmProject(node, modules, d) == <<Do("locate", node)>> \o NpmRelay(modules, d)

(* The launcher is relayed once: present means done.                       *)
Launcher(cs, n, d) == <<Do("skipPresent", cs), Get(n, d, "memory"), Do("push", cs)>>
MavenMirror(jdk, cs) == <<Do("use", jdk), Do("use", cs)>>
MavenRelay(jars, n, d) == <<Get(n, d, "memory"), Make(jars, d), Do("push", jars)>>
MavenAuto(jdk, cs, jars, n, d) ==
  <<Do("locate", jdk)>> \o Launcher(cs, n, d) \o
  MirrorFirst({jdk, cs}, MavenMirror(jdk, cs), MavenRelay(jars, n, d))
MavenBuild(jdk, mvn, repo, d) ==
  <<Do("locate", jdk), Do("skipPresent", mvn), Make(mvn, d), Do("push", mvn),
    Make(repo, d), Do("push", repo), Do("use", jdk), Do("use", mvn), Do("use", repo)>>

(* Proxy mode: the sandbox's own mvn and cargo, online.                    *)
MavenOnline(jdk, mvn, d) ==
  <<Do("locate", jdk), Do("skipPresent", mvn), Make(mvn, d), Do("push", mvn),
    Do("use", jdk), Do("use", mvn)>>
CargoOnline(rust) == <<Do("locate", rust), Do("use", rust)>>

CargoRelay(rust, vendor, d) ==
  <<Do("locate", rust), Make(vendor, d), Do("push", vendor), Do("use", vendor), Do("use", rust)>>

(* An environment whose interpreter is there is used, otherwise made.      *)
Ensured(env, d) == <<Do("skipPresent", env), Make(env, d), Do("push", env)>>
PipVenv(env, d) == Ensured(env, d) \o <<Do("resolve", env), Do("read", env), Do("add", env)>>
CondaMirror(env, d) == Ensured(env, d) \o <<Do("add", env)>>

(* Offline, from a channel of the packages that the controller's solve has *)
(* named; a manifest's environment is made from one, or created at once.   *)
Channel(chan, n, d) == <<Get(n, d, "locked")>> \o Ship(chan)
OfflineEnv(env, d) == Ensured(env, d) \o <<Do("add", env)>>
CondaRelay(env, chan, n, d) == Channel(chan, n, d) \o OfflineEnv(env, d)
CreateEnv(env, d) == <<Do("vacant", env), Make(env, d), Do("push", env), Do("add", env)>>
CondaManifest(relayed, env, chan, n, d) ==
  IF relayed THEN CondaRelay(env, chan, n, d) ELSE CreateEnv(env, d)

(* The command cache prune, of all entries or of the stale ones.           *)
Prune(which) == <<Do("list", which), Do("remove", which)>>

(* The package is pushed over what is there.                               *)
AgentInstall(t, n, d) == <<Get(n, d, "file"), Do("push", t), Do("run", t)>>

-----------------------------------------------------------------------------

Steps(j) == Script[asked[j]]

Absent == [p \in {Parts[i] : i \in DOMAIN Parts} |-> None]

Whole(t) == \E d \in Digests : \A p \in DOMAIN tree[t] : tree[t][p] = d

Listed(t) == tree[t] # Absent

Works(t) == \A p \in Needed[t] : tree[t][p] \in Digests

(* Mutant: the binary is not run, its name in the listing is enough.       *)
RunsListed(t) == Listed(t)

Runs(t) == Works(t)

TypeOK ==
  /\ CacheTypeOK
  /\ asked \in Casts
  /\ state \in [Jobs -> {"idle", "running", "ok", "failed"}]
  /\ asks \in [Jobs -> 0..MaxAsks[asked]]
  /\ \A j \in Jobs : step[j] \in 0..Len(Steps(j)) /\ (state[j] = "running" => step[j] < Len(Steps(j)))
  /\ data \in [Jobs -> Digests \cup {None, Torn}]
  /\ tree \in [Trees -> [DOMAIN Absent -> Digests \cup {None, Torn}]]
  /\ stamp \subseteq Trees /\ report \in Jobs \cup {Nobody}
  /\ plan \in [Jobs -> Jobs \cup {Nobody}] /\ added \in [Trees -> SUBSET Jobs]
  /\ faults \in 0..MaxFaults

Init ==
  /\ CacheInit
  /\ asked \in Casts
  /\ state = [j \in Jobs |-> IF Steps(j) = <<>> THEN "ok" ELSE "idle"] /\ step = [j \in Jobs |-> 0]
  /\ asks = [j \in Jobs |-> 0] /\ data = [j \in Jobs |-> None]
  /\ tree = [t \in Trees |-> Absent] /\ stamp = {}
  /\ report = Nobody /\ plan = [j \in Jobs |-> Nobody] /\ added = [t \in Trees |-> {}]
  /\ faults = 0

-----------------------------------------------------------------------------

Fault == faults < MaxFaults /\ faults' = faults + 1

(* Mutant: no request has a key.                                           *)
SameKeyNever(j, k) == FALSE

SameKey(j, k) == Key[asked[j]] # "" /\ Key[asked[j]] = Key[asked[k]]

(* The dispatcher starts a request whose key no running one has.           *)
Start(j) ==
  /\ state[j] = "idle"
  /\ \A k \in Jobs \ {j} : SameKey(j, k) => state[k] # "running"
  /\ state' = [state EXCEPT ![j] = "running"]
  /\ step' = [step EXCEPT ![j] = 0]
  /\ data' = [data EXCEPT ![j] = None] /\ plan' = [plan EXCEPT ![j] = Nobody]
  /\ UNCHANGED <<cache, asked, asks, sandbox, faults>>

Now(j) == Steps(j)[step[j] + 1]
On(j) == Now(j).on
AtStep(j, op) == state[j] = "running" /\ Now(j).op = op

Finish(j, how) == state' = [state EXCEPT ![j] = how] /\ UNCHANGED step

(* The step is done; after the last one the job has succeeded.             *)
Advance(j, n) ==
  IF step[j] + n >= Len(Steps(j)) THEN Finish(j, "ok")
  ELSE step' = [step EXCEPT ![j] = @ + n] /\ UNCHANGED state

Proceed(j, ok) == IF ok THEN Advance(j, 1) ELSE Finish(j, "failed")

(* Already installed: the binary is there and runs, or the marker names    *)
(* the version and the tool runs.                                          *)
HitRuns(j) ==
  /\ AtStep(j, "hitRuns")
  /\ IF Runs(On(j)) THEN Finish(j, "ok") ELSE Advance(j, 1)
  /\ UNCHANGED <<cache, asked, asks, data, plan, sandbox, faults>>

HitStamped(j) ==
  /\ AtStep(j, "hitStamped")
  /\ IF On(j) \in stamp /\ Runs(On(j)) THEN Finish(j, "ok") ELSE Advance(j, 1)
  /\ UNCHANGED <<cache, asked, asks, data, plan, sandbox, faults>>

(* What is listed is used as it is: its fetch and its push are skipped.    *)
SkipPresent(j) ==
  /\ AtStep(j, "skipPresent")
  /\ Advance(j, IF Listed(On(j)) THEN 3 ELSE 1)
  /\ UNCHANGED <<cache, asked, asks, data, plan, sandbox, faults>>

(* Locate lists the directories and runs nothing.                          *)
Locate(j) ==
  /\ AtStep(j, "locate") /\ Proceed(j, Listed(On(j)))
  /\ UNCHANGED <<cache, asked, asks, data, plan, sandbox, faults>>

(* conda refuses to create an environment where there is something.        *)
Vacant(j) ==
  /\ AtStep(j, "vacant") /\ Proceed(j, ~Listed(On(j)))
  /\ UNCHANGED <<cache, asked, asks, data, plan, sandbox, faults>>

(* The mirror has what is asked for, if the tools to ask it run, or not.   *)
Fallback(j) ==
  /\ AtStep(j, "try")
  /\ \/ (\A t \in On(j) : Whole(t)) /\ Advance(j, 1)
     \/ Advance(j, Now(j).skip)
  /\ UNCHANGED <<cache, asked, asks, data, plan, sandbox, faults>>

Stopped(j) ==
  /\ AtStep(j, "stop") /\ Finish(j, "ok")
  /\ UNCHANGED <<cache, asked, asks, data, plan, sandbox, faults>>

Ask(j) ==
  /\ AtStep(j, "get") /\ fetch[j].at = "idle"
  /\ LET s == Now(j) IN Begin(j, s.on, s.want, s.how)
  /\ UNCHANGED <<cached, part, lockfile, doomed, jobs, sandbox, faults>>

Fetching(j) ==
  /\ AtStep(j, "get")
  /\ CacheStep(j)
  /\ UNCHANGED <<jobs, sandbox, faults>>

(* The server sends what was pinned, or spoils the download.               *)
Served(j) ==
  /\ AtStep(j, "get")
  /\ \E d \in Digests : Open(j, d) /\ IF d = fetch[j].want THEN UNCHANGED faults ELSE Fault
  /\ UNCHANGED <<jobs, sandbox>>

Refused(j) ==
  /\ AtStep(j, "get") /\ Abort(j) /\ Fault
  /\ UNCHANGED <<jobs, sandbox>>

(* The caller opens the path it was given.                                 *)
Take(j) ==
  /\ AtStep(j, "get") /\ fetch[j].at \in {"have", "failed"}
  /\ fetch' = [fetch EXCEPT ![j] = Resting]
  /\ data' = [data EXCEPT ![j] = cached[fetch[j].file].is]
  /\ Proceed(j, fetch[j].at = "have" /\ cached[fetch[j].file].is # None)
  /\ UNCHANGED <<cached, part, lockfile, doomed, asked, asks, plan, sandbox, faults>>

(* The controller's own npm, mvn or cargo makes the tree in a directory of *)
(* this request.                                                           *)
Build(j) ==
  /\ AtStep(j, "build")
  /\ data' = [data EXCEPT ![j] = Now(j).want]
  /\ Advance(j, 1)
  /\ UNCHANGED <<cache, asked, asks, plan, sandbox, faults>>

Cleared(t) == Absent

(* The marker and what pip added are inside the directory.                 *)
Clear(j) ==
  /\ AtStep(j, "clear")
  /\ tree' = [tree EXCEPT ![On(j)] = Cleared(On(j))]
  /\ stamp' = stamp \ {On(j)} /\ added' = [added EXCEPT ![On(j)] = {}]
  /\ Advance(j, 1)
  /\ UNCHANGED <<cache, asked, asks, data, plan, report, faults>>

(* An archive arrives entry by entry, in its own order.                    *)
Left(j) == {i \in DOMAIN Parts : tree[On(j)][Parts[i]] # data[j]}

Push(j) ==
  /\ AtStep(j, "push")
  /\ IF Left(j) = {} THEN Advance(j, 1) /\ UNCHANGED tree
     ELSE LET i == CHOOSE i \in Left(j) : \A k \in Left(j) : i <= k
          IN tree' = [tree EXCEPT ![On(j)][Parts[i]] = data[j]] /\ UNCHANGED <<state, step>>
  /\ UNCHANGED <<cache, asked, asks, data, plan, stamp, report, added, faults>>

Stamp(j) ==
  /\ AtStep(j, "stamp")
  /\ stamp' = stamp \cup {On(j)}
  /\ Advance(j, 1)
  /\ UNCHANGED <<cache, asked, asks, data, plan, tree, report, added, faults>>

Run(j) ==
  /\ AtStep(j, "run") /\ Proceed(j, Runs(On(j)))
  /\ UNCHANGED <<cache, asked, asks, data, plan, sandbox, faults>>

Use(j) ==
  /\ AtStep(j, "use") \/ AtStep(j, "from")
  /\ Proceed(j, Whole(On(j)))
  /\ UNCHANGED <<cache, asked, asks, data, plan, sandbox, faults>>

(* pip writes its report; ours is what is read, if nobody wrote since.     *)
Resolve(j) ==
  /\ AtStep(j, "resolve")
  /\ IF Whole(On(j)) THEN report' = j /\ Advance(j, 1) ELSE Finish(j, "failed") /\ UNCHANGED report
  /\ UNCHANGED <<cache, asked, asks, data, plan, tree, stamp, added, faults>>

Read(j) ==
  /\ AtStep(j, "read")
  /\ plan' = [plan EXCEPT ![j] = report]
  /\ Advance(j, 1)
  /\ UNCHANGED <<cache, asked, asks, data, sandbox, faults>>

(* The packages of the plan, or the ones asked for, are installed.         *)
Add(j) ==
  LET t == On(j)
      whose == IF plan[j] = Nobody THEN j ELSE plan[j] IN
  /\ AtStep(j, "add")
  /\ IF Whole(t) THEN added' = [added EXCEPT ![t] = @ \cup {whose}] /\ Advance(j, 1)
     ELSE Finish(j, "failed") /\ UNCHANGED added
  /\ UNCHANGED <<cache, asked, asks, data, plan, tree, stamp, report, faults>>

ListCache(j) ==
  /\ AtStep(j, "list") /\ List(On(j) = "all")
  /\ Advance(j, 1)
  /\ UNCHANGED <<asked, asks, data, plan, sandbox, faults>>

RemoveListed(j) ==
  /\ AtStep(j, "remove")
  /\ IF doomed = {} THEN Advance(j, 1) /\ UNCHANGED cache
     ELSE (\E x \in doomed : Remove(x[1], x[2])) /\ UNCHANGED <<state, step>>
  /\ UNCHANGED <<asked, asks, data, plan, sandbox, faults>>

Step(j) ==
  \/ ListCache(j) \/ RemoveListed(j)
  \/ HitRuns(j) \/ HitStamped(j) \/ SkipPresent(j) \/ Locate(j)
  \/ Vacant(j) \/ Fallback(j) \/ Stopped(j)
  \/ Ask(j) \/ Fetching(j) \/ Served(j) \/ Take(j) \/ Build(j)
  \/ Clear(j) \/ Push(j) \/ Stamp(j) \/ Run(j) \/ Use(j)
  \/ Resolve(j) \/ Read(j) \/ Add(j)

(* A link drops or a process dies: its jobs stop where they are.           *)
Interrupt(l) ==
  LET hit == {j \in Jobs : state[j] = "running" /\ Link[asked[j]] = l} IN
  /\ hit # {} /\ Fault
  /\ state' = [j \in Jobs |-> IF j \in hit THEN "failed" ELSE state[j]]
  /\ Lost(hit)
  /\ UNCHANGED <<asked, step, asks, data, plan, sandbox>>

(* The dispatcher recovers the request, or its sender repeats it.          *)
AskAgain(j) ==
  /\ state[j] = "failed" /\ asks[j] < MaxAsks[asked]
  /\ state' = [state EXCEPT ![j] = "idle"]
  /\ asks' = [asks EXCEPT ![j] = @ + 1]
  /\ UNCHANGED <<cache, asked, step, data, plan, sandbox, faults>>

Settled == \A j \in Jobs : state[j] = "ok" \/ (state[j] = "failed" /\ asks[j] = MaxAsks[asked])

Next ==
  \/ \E j \in Jobs : Start(j) \/ Step(j) \/ Refused(j) \/ AskAgain(j)
  \/ \E l \in {Link[r] : r \in DOMAIN Link} : Interrupt(l)
  \/ Settled /\ UNCHANGED vars

Spec == Init /\ [][Next]_vars

FairSpec ==
  Spec /\ WF_vars(\E j \in Jobs : Start(j) \/ Step(j) \/ AskAgain(j))

-----------------------------------------------------------------------------

(* Jobs that share nothing of the cache but what is made to be shared: two *)
(* that fetch one file fetch what one pin names, by Fetch, and nobody      *)
(* prunes the entries beside them.                                         *)
Gets(c, j) == {i \in DOMAIN Script[c[j]] : Script[c[j]][i].op = "get"}
Prunes(c, j) == \E i \in DOMAIN Script[c[j]] : Script[c[j]][i] = Do("list", "all")

Apart(c) ==
  \A j, k \in Jobs : \A g \in Gets(c, j), h \in Gets(c, k) :
    LET a == Script[c[j]][g]
        b == Script[c[k]][h]
    IN j # k /\ a.on = b.on =>
         /\ a.how = "locked" /\ b.how = "locked" /\ a.want = b.want
         /\ \A i \in Jobs : ~Prunes(c, i)

(* Jobs whose scripts let stand what another has reported.                 *)
Delivers == {"run", "stamp", "use", "add"}
Writes == {"clear", "push", "stamp"}

\* Step k of script s makes what its step i pushes.
Source(s, k, i) ==
  k \in 1..(i - 1) /\ s[k].op \in {"get", "build"} /\ \A m \in (k + 1)..(i - 1) : s[m].op = "clear"

(* Each script by itself: a mirror's way ends with a stop, what is pushed  *)
(* was fetched or built just before, a marker follows the whole tree, a    *)
(* plan is read where it was made, and a request that a hit may end        *)
(* delivers that tree and nothing else.                                    *)
Orderly(s) ==
  \A i \in DOMAIN s :
    /\ s[i].op = "try" => s[i].skip > 1 /\ i + s[i].skip <= Len(s) /\ s[i + s[i].skip - 1].op = "stop"
    /\ s[i].op = "stop" => \E k \in 1..(i - 1) : s[k].op = "try" /\ k + s[k].skip = i + 1
    /\ s[i].op = "skipPresent" =>
         i + 2 <= Len(s) /\ s[i + 1].op \in {"get", "build"} /\ s[i + 2].op = "push"
    /\ s[i].op = "push" => \E k \in DOMAIN s : Source(s, k, i)
    /\ s[i].op = "stamp" => i > 2 /\ s[i - 1] = Do("push", s[i].on) /\ s[i - 2].op = "clear"
    /\ s[i].op = "read" => i > 1 /\ s[i - 1].op = "resolve"
    /\ s[i].op \in {"hitRuns", "hitStamped"} =>
         \A m \in DOMAIN s :
           /\ s[m].op # "read" /\ (s[m].op = "stamp" => s[i].op = "hitStamped")
           /\ s[m].op \in Delivers => s[m].op \in {"run", "stamp"} /\ s[m].on = s[i].on

Has(c, j, ops, t) == \E i \in DOMAIN Script[c[j]] : Script[c[j]][i].op \in ops /\ Script[c[j]][i].on = t
OneKey(c, j, k) == Key[c[j]] # "" /\ Key[c[j]] = Key[c[k]]

\* The contents that the jobs of c push to t.
Pushed(c, t) ==
  {d \in Digests : \E j \in Jobs : \E i, k \in DOMAIN Script[c[j]] :
     /\ Script[c[j]][i].op = "push" /\ Script[c[j]][i].on = t
     /\ Source(Script[c[j]], k, i) /\ Script[c[j]][k].want = d}

(* What is cleared is looked at first, written by requests of one key only *)
(* and, if its marker counts, delivered with the marker.                   *)
Replaces(c, j, i) ==
  LET s == Script[c[j]] IN
  /\ i = 3 /\ s[1].op \in {"hitRuns", "hitStamped"} /\ s[1].on = s[3].on /\ s[2].op = "get"
  /\ \A k \in Jobs \ {j} : Has(c, k, Writes, s[3].on) => OneKey(c, j, k)
  /\ s[1].op = "hitStamped" =>
       \A k \in Jobs : \A m \in DOMAIN Script[c[k]] :
         LET x == Script[c[k]][m] IN
         x.op \in Delivers /\ x.on = s[3].on =>
           x.op = "stamp" \/ (x.op = "run" /\ m > 1 /\ Script[c[k]][m - 1] = Do("stamp", x.on))

Steady(c) ==
  /\ \A j \in Jobs : Orderly(Script[c[j]])
  /\ \A t \in Trees : \A d, e \in Pushed(c, t) : d = e
  /\ \A j \in Jobs : \A i \in DOMAIN Script[c[j]] :
       Script[c[j]][i].op = "clear" /\ (\E k \in Jobs : Has(c, k, Delivers, Script[c[j]][i].on)) =>
         Replaces(c, j, i)
  /\ \A j, k \in Jobs : \A g \in DOMAIN Script[c[j]], h \in DOMAIN Script[c[k]] :
       j # k /\ Script[c[j]][g].op = "resolve" /\ Script[c[k]][h].op = "resolve" => OneKey(c, j, k)

(* The steps of a job that has succeeded, without those of the way it has  *)
(* not gone.                                                               *)
Taken(j) ==
  {i \in DOMAIN Steps(j) : \A k \in DOMAIN Steps(j) :
     Steps(j)[k].op = "try" =>
       LET relay == k + Steps(j)[k].skip
       IN IF step[j] + 1 >= relay THEN i <= k \/ i >= relay ELSE i < relay}

(* What a job that has succeeded left in the sandbox: a binary that runs,  *)
(* a tool that is whole, what it built with, the packages it was asked for.*)
Delivered(j) ==
  \A i \in Taken(j) :
    LET s == Steps(j)[i] IN
    /\ s.op = "run" => Works(s.on)
    /\ s.op \in {"stamp", "use"} => Whole(s.on)
    /\ s.op = "add" => j \in added[s.on]
    /\ s.op = "read" => plan[j] = j

(* What was reported as installed is there and stays: no later request of  *)
(* its line, no half-pushed tree that is mended and no other sandbox's     *)
(* install takes it away or swaps it (PROTOCOL.md, Concurrency).           *)
ReportedStays == \A j \in Jobs : state[j] = "ok" => Delivered(j)

(* Whatever an interrupted install left, a repeated request mends it: the  *)
(* verify-on-hit of InstallPin and the marker of Entry.Install.            *)
Heals ==
  <>[](\A j \in Jobs : \A i \in DOMAIN Steps(j) :
         Steps(j)[i].op = "run" => state[j] = "ok" /\ Works(Steps(j)[i].on))

=============================================================================
