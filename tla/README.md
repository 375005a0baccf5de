# Ice Climber: a TLA+ model of the sandbox protocol

Ice Climber gives an AI agent in an offline sandbox what it may have of the
outside world.  The agent's helper `popo` writes a request file in the sandbox;
a controller on the operator's machine (`iceclimber serve`) reads it over SSH,
runs a handler (installs a runtime or packages, fetches a page) and writes a
response file.  Everything the two sides know of each other is in a few
directories of the sandbox.

This directory holds the model of that program: TLA+ modules, the TLC
configurations that check them, and proofs checked by TLAPS.  Paths below are
relative to `src/`; `internal/` is left out where it is clear.

## 1. Inventory

| part | state | operations | talks to |
|---|---|---|---|
| dispatcher, maildir (`protocol/dispatch.go`, `maildir.go`) | `outbox/{new,cur}`, `inbox/{new,cur}` in the sandbox; the drainer's in-flight names, busy keys, semaphore, error channel in memory | `Serve`, `RunOnce`, `recover`, `gc`, `drainNew`, `serviceCurData`, `Deliver`, `PickUp` | client through the maildir, handlers, remote file system |
| client (`cmd/popo`) | one process per request | `request`, `await`, `collect`, `log` | dispatcher, heartbeat file |
| heartbeat (`dispatch.go`, `popo`) | `heartbeat` file, `d.seq`, the client's last sequence and deadline | `seedSeq`, `WriteHeartbeat`, await's two-minute rule | client |
| supervisor, serve (`cli/serve.go`, `supervise.go`, `session.go`) | session, backoff, cached password, hooks | dial, serve a cycle, classify the error, back off | dispatcher, SSH, locks |
| controller locks (`cli/lock.go`) | `serve.lock`, `ops.lock`, the holder's note | exclusive and blocking acquisition, shared probe | all commands |
| bootstrap (`cli/bootstrap.go`) | the tree, a smoke-test dispatcher | tree, popo, capabilities, `RunOnce` | dispatcher |
| approval (`cli/approver.go`, `approve.go`) | prompt mutex, remembered hosts, pending queue | ask, remember, approve, deny, forget | egress store, `web.fetch`, proxy |
| egress store and policy (`egress`) | allow, deny and pending files under a file lock | decide, add, remove | several processes |
| `web.fetch` (`webfetch`) | none of its own | policy, approval, fetch, audit | store, approver |
| egress proxy (`proxy`, `cli/egress_proxy.go`) | verdict cache, artifact index, certificates | decide a connection, index a page | store, approver |
| runtimes and installers (`runtime`, `catalog`, `pip`, `npm`, `maven`, `cargo`, `conda`, `agent`) | install directories, environments, pip's report in the sandbox | resolve, fetch, verify, clear, push, run | relay cache, remote file system |
| relay cache (`relay`, `cli/cache.go`) | verified artifacts by name, a lock and a temporary file for each | look up, download, publish, prune | installers of every process |
| remote file system, SSH (`remotefs`, `remote`) | one connection | atomic rename, list, read, write | everything remote |
| logs (`logfile`, `activity`, `audit`, `tail`, the bridge in `cli/console.go`) | rotated generations, counts and their snapshot, a reader's position | append, rotate, follow, flush | several processes |
| secrets of a dial (`remote/prompt.go`, `auth.go`) | the committed and the pending secret | prompt, commit, forget | supervisor, SSH, console |
| workers, console (`cli/worker.go`, `console.go`, `fleetconsole.go`, `tui`) | a worker per member with its session and event channel; owned, failed and registered members; queues of modals; the form and the action under way | start, join live, prompt, park, reconnect, act, clean up | locks, SSH, dispatcher, operator |
| fleet commands (`cli/fleet.go`, `config/fleet.go`) | a goroutine per target, one output | find targets, fan out, compare versions, summarise | locks, dials, installers |
| sandbox lifecycle (`cli/sandbox*.go`, `container`, `lima`) | the registry of directories, the default pointer, instances, containers and their host | create, remove, refresh, remove the host | external tools, every dial |
| capabilities (`protocol/capabilities.go`) | one file in the sandbox | read, change, replace | `status` |

What is hard, and what makes each part correct:

* **Dispatcher.** A drain goroutine, a pool of workers, clients that move files
  meanwhile, a link that drops between any two remote operations or after an
  operation took effect, a process that dies.  Correct: no request is lost, none
  is serviced twice at once, an answered one is not serviced again, two installs
  of one line never overlap, garbage goes, teardown ends.
* **Heartbeat.** Several loops and bootstraps write one file through one temporary
  name.  Correct: a client that is told "down" is told the truth, and is told in time.
* **Locks, workers, secrets.** Processes that start, die and try again at any moment
  under two advisory locks and a probe; goroutines that wait for an operator
  while others hold locks.  Correct: one server per sandbox, no lock kept in vain,
  every free member joined, every lost session replaced, no unproven or one-time
  secret sent again.
* **Console.** Everything reaches the screen over one bounded channel; prompts outlive
  the cycle they came from.  Correct: who waits has exactly one prompt, the screen is
  behind the worker and never wrong, nobody waits for good.
* **Bootstrap.** Its smoke test is a second dispatcher beside a serving one.
* **Approval, store, proxy, web.fetch.** A verdict must be the operator's latest;
  several processes and goroutines read, ask and write.
* **Installers and cache.** Steps that each can fail must not leave half a
  runtime that is taken for a whole one; only verified files are handed over, and what
  was reported stays.
* **Logs.** Rotation by several processes must neither lose more than the oldest lines
  nor repeat any; counts stay close to the log.
* **Sandboxes.** Creates share a network, an image and a host; addresses move between
  containers.  Correct: creates do not disturb each other, a dial reaches its own container.
* **Fleet.** A fan-out over members that fail, move and are removed.  Correct: one
  version everywhere, whole lines, nobody left out of the exit status.

`PROJECT.json` lists the hazards of this code one by one, each at its line, with the
property that covers it or the reason why none does.

## 2. Modules

| module | what it is |
|---|---|
| `EffectivelyOnce` | what the protocol promises: a request is submitted, its handler begins (never beside one of the same key, never more than the capacity), is answered, or is abandoned and begins again; an answered one never begins, unless a mishap makes its answer forgotten |
| `Dispatch` | the program: clients, `Serve`, `RunOnce`, the workers and the faults |
| `MCDispatch` | instances: a `python.install`, a `pip.install` of the same line and a `ping` |
| `DispatchHistory` | `Dispatch` with two history variables, `RunOnce`'s last listing and the requests that `gc` has orphaned |
| `MCDispatchHistory` | the same instances with them |
| `DispatchProofs` | the theorems about both: exclusion, deduplication, delivery, the refinement, `RunOnce` |
| `AtomicStore` | what the rule files promise: a call takes effect at one moment on what the file then has, or changes nothing |
| `RuleStore` | the operator's rules and the queue of held fetches: two files that several processes change |
| `Egress` | extends `RuleStore` by the approver, the gate on verbs, `web.fetch` and the commands `approve`, `deny` and `egress rules forget` |
| `EgressProxy` | extends `Egress` by the sandbox's connections and the package indexes they fetch: the whole system of approvals, with its properties |
| `MCEgress` | instances: five URLs of four hosts, and which agents take part together |
| `EgressProofs` | the theorems about it: the files and that their calls implement `AtomicStore`, the prompts, the rules |
| `Credentials` | what a server asks, what is typed, and the two-phase cache of secrets, as operators |
| `Controllers` | the processes on the operator's machine: the fleet console with its workers, `serve` and `bootstrap` on the command line, under `serve.lock` and `ops.lock` |
| `MCControllers` | instances: a member that asks for secrets and one with a key |
| `ControllersProofs` | the theorems about it: types, locks, secrets, one-time codes |
| `RelayCache` | the download cache and its prune: entries, temporary files, lock files, and who has which inode open |
| `Installs` | extends `RelayCache` by what each kind of request does to a sandbox, as a script of shared steps |
| `MCInstalls` | instances: twenty-five requests of a fleet of two sandboxes, and which are made together |
| `InstallsProofs` | the theorems about it: types, what the cache promises its callers, that what is reported stays |
| `Console` | one sandbox's console: screen, channel, worker, approver, the operator's actions, and the dispatchers of the serve cycle and of bootstrap's smoke test on one maildir |
| `Heartbeat` | extends `Console` by the heartbeat's writers, a clock, and clients that lose patience |
| `MCConsole` | instances: which requests, actions and mishaps meet |
| `ConsoleProofs` | the theorems about `Heartbeat`: prompts, the screen, a client's patience |
| `Sandboxes` | `create`, `rm`, `host rm` and dials over the registry, Lima instances and one host of containers |
| `Fleet` | extends `Sandboxes` by one command over several of them |
| `SandboxesProofs` | the theorems about `Sandboxes` under `Fleet`: creates beside each other, dials after restarts |
| `MCSandboxes` | instances of both |
| `FleetProofs` | the theorems about `Fleet`: versions, the end of the command, its output |
| `Logs` | one rotated log: writers, counts, followers |
| `MCLogs` | instances: who appends with which bounds, and who reads |
| `LogsProofs` | the theorems about `Logs`: types, rotation, the follower, the counts, the history kept |

### How `Dispatch` corresponds to the code

**State.** The four directories are sets of request identities (a request and
its response share a base name; identities are ordered as ULIDs are).  `aged`
are the responses whose `CompletedAt` is before the cutoff.  `client[id]` is the
`popo` process of a request.  The goroutine of `Serve` or `RunOnce` is a program
counter `at`, the loop variable `name` and the rest of the listing it iterates
over, `todo`; `mode` says which of the two runs and `submitted` is `drainNew`'s
count, as far as `RunOnce` tests it.  The drainer is `inflight`, `active` and, for
each token of the semaphore, the stage and the request of the worker that holds
it.  `link` and `workCtx` are the session's connection and the workers' context.
`answers` counts publications; no guard reads it.

**Steps.** Each remote operation is a step, because clients, workers and faults
act between any two:

| code | actions |
|---|---|
| `popo` `request`, `await`, `collect` | `Request`, `Await`, `Quit`, `Collect`; `Resend` is the agent's repeated delivery |
| `recover`, `serviceCur` | `RecoverList`, `RecoverNext`, `RecoverListNew`, `RecoverListCur`, `RecoverService` |
| `gc` | `GcListCollected`, `GcRemoveOutCur`, `GcRemoveInCur`, `GcListUncollected`, `GcReadAge`, `GcReapInNew`, `GcReapOutCur`; its errors are swallowed: `GcRefused` (the sandbox refuses one list, read or delete, and `gc` goes on), `GcLinkDown` (all that is left of it fails) |
| `drainNew` | `DrainList`, `DrainNext`, `DrainListNew`, `DrainListCur` (`responseExists` lists twice), `DrainClear`, `Reserve`, `Acquire`, `StartWorker`, `StartWorkerFails` |
| worker goroutine | `WorkerService`, `WorkerRelease` |
| `Serve`'s select, `RunOnce`'s loop, deferred cancel and `wg.Wait` | `Tick`, `BatchDone`, `OpFails`, `Close` |
| supervisor cycle | `Connect` |
| environment | `DropLink`, `Crash`, `Expire` |

**Atomicity.** A rename is atomic (`remotefs` uses posix-rename).  `Deliver`
writes a temporary file and renames it; only the rename is visible, so it is one
step with four outcomes: done, refused, refused because the link or the context
is gone, done with the reply lost.  Reading a request and reserving its key are
one step, since nothing else changes a request in `outbox/new` and the reservation
is under the drainer's mutex.  A handler is the time a worker spends in stage
`run`; its own effects are not modelled here, nor the verdict of the gate: both end
in a response.

**Left out.** File names other than well-formed ones (`validRequestName`), the
contents of requests and responses, which error is returned (only that one is),
the observers, which `Console` has, and the heartbeat, which `Heartbeat` has.

### How `RuleStore`, `Egress` and `EgressProxy` correspond to the code

**State.** `files[f]` is the set of entries of `approvals` or `pending`;
`legible[f]` says whether the file parses; `holder[f]` is who has its flock.  A
store method in progress is `step`, `call`, `seen` (what it has loaded) and
`outcome` of its client, a goroutine or a process.  `pc[a]` is the position of an
agent: a `web.fetch` handler, a gated dispatcher worker, a command, a connection
to the proxy.  `promptMu`, `allowAll` and `denyAll` are the approver's fields;
`supervised` says whether it has a console; `ppMu`, `cache`, `learned` and
`deniedArtifacts` are those of `proxyPolicy`.  The history variables `barred`,
`rebarred`, `delivered` and `asks` record what properties compare with; no guard
reads them.

| code | actions |
|---|---|
| `egress/store.go`: `AddAllow`, `AddDeny`, `AddPending`, `Remove...` | `Invoke`, then `Lock`, `Load` or `Refuse`, `Write`, or `CallFails`; the caller's `Consume` |
| `Decide`, `Denied` | `Decide`, `StoreDenied`, evaluated where the code reads the files, without the lock |
| `approver.go`: the gate | `Gate`, `GateAsk`, `GateSettled`, `GateAnswered` |
| `ApproveFetch` with `webfetch/handler.go` | `Submit`, `Judge`, `FetchAsk`, `FetchAnswered`, `FetchRuled`, `Held`, `Fetch`, `Redirect`, `FetchEnds` |
| `cli/approve.go`, `egress rules forget` | `Settle`, `SettleRule`, `Forget`, `CommandEnds`, `Kill` |
| `proxyPolicy.decide`, `ApproveConnect` | `Arrive`, `Recall`, `Evaluate`, `Screen`, `Weigh`, `ProxyAsk`, `ProxyAnswered`, `ProxyRuled` |
| `proxy.go` requests on an admitted connection, index learning | `Request`, `PathDeny`, `ArtifactDeny`, `Forward`, `recordIndex`, `Deliver`, `Hangup`, `seedDeniedArtifacts` |
| an editor on the files | `Break`, `Mend` |

**Atomicity.** A store method is three steps, because others run between them:
taking the flock, reading, renaming the new file over the old.  A reader's whole
decision is one step: it parses a file that a rename replaces, and reads it once.
`Screen` and `Weigh` are two, since the proxy reads the rules twice.  The
in-process mutex of the store is subsumed by the flock, which every method takes on
a descriptor of its own.

**Left out.** How a glob matches and a URL is canonicalised, rewritten or found in
an index: `Matches`, `Rewrite`, `Artifacts`, `IndexOf` are constants, and so is which
globs the validator refuses.  The sandbox's own fetching venue, which nothing gates;
address filtering; plain-HTTP requests through the proxy, which are one connection with
one request; bodies and their size limit.  One serve cycle: the approver,
the proxy's cache and its learned indexes are rebuilt with the next.

### How `Credentials` and `Controllers` correspond to the code

**State.** `serveLock[m]` and `opsLock[m]` are who holds the two flocks of a sandbox,
`probing[m]` the commands whose shared probe of `serve.lock` is in place.  `phase`,
`todo`, `starting`, `locked`, `failed`, `workers`, `locks` are the progress and the
maps of `runFleetConsole`, `drained` the members whose events a goroutine forwards to
the program, `joiner` the goroutine of `reacquireFleet` with its snapshot.  `sup[m]`
is where a member's worker is in its cycle; `conn[m]` is its session (`alive`), the dial in
progress (`answers`, `refused`), its `cache`, whether its prompts go to the event
channel (`ui`, the code's `uiReady`), the prompt and the approval it waits for and where
they are (`asked`, `gate`), and the buffered `nudge`.  `pwReqs` and `modals` are the
fleet's queues.  `boot`, `password`, `codes`, `spent` are the sandbox's marker and
its SSH server.  `cli[c]` is a command-line process.

| code | actions |
|---|---|
| `lock.go` | `Free`, `Take`, `Drop`; `Mutate` and `ProbeHolder` (the probe is two steps, since another process may try in between); `Leave` and `Exit`, the kernel's release |
| `runFleetConsole` | `StartMember`, `MemberOwned`, `GoLive`, `Quit`, `Cleanup`, `Exit` |
| `reacquireFleet` | `JoinTick`, `JoinOwned`, `JoinStart`, `JoinRegister`, `JoinRest`, `JoinStops` |
| `Dial`, `kbdAnswers`, `passwordAuth`, `CachingPrompter` | `AnswerSilently`, `Ask`, `TypeSecret`, `Mistype`; `Staged`, `Committed`, `EmptyCache` |
| `tuiPasswordPrompter`, `route`, `handleKey` | `Ask`, `ForwardPassword`, `ForwardApproval`, `Shown`, `Reply`, `AnswerApproval` |
| `startSandboxWorker` | `BeginDial`, `StartSucceeds`, `StartFails`, `Opened` |
| the worker's cycle, `awaitBootstrapped`, `runSupervisor` | `Opened`, `Rejected`, `Unreachable`, `Check`, `Unpark`, `RequestApproval`, `ServeEnds`, `BackOff`, `Redial` |
| `superviseServe` | `Serve`, `ServeConnects`, `ServeChecks`, `ServeDrops` |
| `bootstrapOne`, `provision`, `RunBootstrap` | `Mutate`, `Reset`, `Provision`, `OperatorBootstrap` |
| environment | `LinkDrops`, `Rotate`, `CommandEnds` (a return, an interrupt or a death) |

**Atomicity.** A flock is one step.  A dial is one step per challenge, since an
operator, a rotation or a dropped link comes between; committing the secret of a
first dial is part of its end, that of a later one comes after the cycle, as in
`runSupervisor`.  The maps under the console's mutex change in one step.

**Left out.** The challenges of a server are a fixed sequence, and a wrong answer ends
the dial, where a client with two methods tries the other; untrusted host keys; failing
flocks; the lengths of backoff; the console's install, reset and agent install, which are in `Console`;
what a served request does, which is `Dispatch`; what an approval decides, which is `Egress`.

### How `RelayCache` and `Installs` correspond to the code

**State.** `cached[n]`, `part[n]` are the files `n` and `n.tmp`: a content and the
fetcher that truncated it last.  `lockfile[n]` says which file `n.lock` is, since a prune
may remove it while it is locked.  `fetch[f]` is a fetcher's position, what it wants and
has received, which inode it writes (`to`) and which lock file it opened.  A job of
`Installs` is a handler: `Steps(j)` is its script, `step[j]` how far it is.  `tree[t][p]`
is whose bytes part `p` of a directory holds, `stamp` the version markers, `report`
whose packages `pip-report.json` lists, `added[t]` whose packages are in `t`.

| code | actions |
|---|---|
| `relay.Fetch` | `Look` (the lock-free hit), `Acquire`, `Recheck`, `Open`, `Copy`, `Verify`, `Publish`, `Abort`; `Lost` when its process dies |
| Coursier's launcher, the agent's package | the same with `how` `"memory"` and `"file"`: no lock, other places of verification |
| `cache prune` | `List`, `Remove`; `ListCache`, `RemoveListed` as steps of a command |
| `Installer.Install`, `InstallPin` | `HitRuns`, `Ask` to `Take`, `Clear`, `Push` (entry by entry), `Run` |
| `catalog.Entry.Install` | the same with `HitStamped`, `Stamp` |
| `pip`, `npm`, `maven`, `cargo`, `conda` | the scripts `PipAuto`, `PipVenv`, `NpmAuto`, `NpmProject`, `MavenAuto`, `MavenBuild`, `MavenOnline`, `CargoRelay`, `CargoOnline`, `CondaMirror`, `CondaRelay`, `CondaManifest`, of `Locate`, `SkipPresent`, `Vacant`, `Fallback`, `Build`, `Resolve`, `Read`, `Add`, `Use` |
| the dispatcher's keys, recovery, a repeated command | `Start`, `AskAgain` |
| a lost link, a dead process | `Interrupt` |

**Atomicity.** What others can come between is a step: looking and locking, opening and
filling a temporary file, verifying and renaming, each entry of an archive.  Another
fetcher's open file follows its inode through the rename (`Moved`).

**Left out.** How a version is resolved and an archive unpacked; a directory is
its parts in the order they arrive.  What a mirror has is a choice.

### How `Console` and `Heartbeat` correspond to the code

**State.** `mail`, `answered` are the maildir as two dispatchers see it; `phase`,
`pass`, `again`, `job` are a dispatcher's loop and its workers.  `verdict` and `ask` are
the approver of the current cycle and who waits in it; `old` says that the proxied
connection belongs to an earlier one.  `events` is the channel of `worker.go`;
`modals`, `pwReqs`, `form`, `running`, `shown`, `header` are fields of the screen's model.
`op` is the action under way and the session it works on.  `beat` is the heartbeat's
sequence, `writers` the goroutines that write it; `wait`, `seen`, `silent`, `since` are a
client in `await`.  `unsaid`, `stale`, `steady` are history.

| code | actions |
|---|---|
| `recover`, `drainNew`, `serviceCurData`, `RunOnce` | `ListCur`, `RecoverOne`, `ListNew`, `DrainOne`, `Deliver`, `RanOnce`, for `Serve` and for `Smoke` |
| `approver.go`, `tuiAsker.ask`, `tuiPasswordPrompter` | `Gate`, `Lock`, `Prompt` (the blocking send), `Abandon`, `StartFetch`, `AskPassword` |
| the worker: `awaitBootstrapped`, `runSupervisor` | `Check`, `Unpark`, `CycleEnds`, `Connect`, `Cancel` |
| the observers and link states | `Offer`: a message is dropped when the channel is full |
| `cli/console.go`'s actions, `provision`, `RunBootstrap`'s smoke test | `Ensure`, `Packages`, `InstallAgent`, `Wipe`, `Provision`, `Ping`, `ReadPong`, `Record` |
| `tui/console.go` `Update` | `Take`, `AnswerModal`, `AnswerPassword`, `Open`, `Submit`, `Result`, `Quit` |
| `heartbeatLoop`, `seedSeq`, `WriteHeartbeat` | `Begun` and `Remaining` in `ConsoleStep`, `Seed`, `WriteHeartbeat`, `Crossed` (one temporary name), `Late` |
| `provision`'s first heartbeat, a reset | `ConsoleStep`, `OtherBootstrap` |
| `await` | `Poll`, `Tick` |
| environment | `Send`, `DropLink` |

**Atomicity.** Each remote operation that another dispatcher can see between is a
step; the screen handles one message or one key at a time.  A tick is one interval
of the heartbeat and comes only when what takes less has happened.

**Left out.** Panes and rendering, meters, the egress panel, redelivery and keys,
which are in `Dispatch`.

### How `Sandboxes` and `Fleet` correspond to the code

**State.** `entry[n]` is the registry's directory, `files[n]` what is beside the config
(key, pinned host key with its address, `ssh_config`'s address), `default` the pointer.
`vm`, `host`, `box`, `builder` are the Lima instances, the containers' host with what is
installed on it, the containers and the builders.  `cmd[p]` is a process and its position.
`calm`, `spoiled` and `stale` are history: which commands nothing has disturbed, on which names
two have met, and which endpoints a restart took in the middle of a refresh (`Torn`, `Refreshing`).  Of a fleet
command, `fleet` is the main goroutine, `job[n]` the goroutine of a target with its line
buffer, `mu` the writer's lock, `out` what is printed, `installed` what it has put where.

| code | actions |
|---|---|
| `sandbox create` in a container (`sandbox_container.go`, `container.go`) | `Refuse`, `HostThere`, `StartHost`, `Available`, `Install`, `NetworkThere`, `NetCreate`, `ImageExists`, `Build`, `Commit`, `Unbuild`, `GenerateKey`, `RunContainer`, `AuthorizeKey`, `FirstIP`, `Keyscan`, `FirstConfig`, `Register`, `FinishCreate` |
| `sandbox create` with Lima | `Refuse`, `StartVM`, `Record`, `Register`, `AirGap`, `FinishCreate` |
| `refreshContainerSSHWith`, the dial after it | `Load`, `State`, `StartContainer`, `CurrentIP`, `Rewrite`, `Ready`, `Connect` |
| `sandbox rm`, `host rm` | `LoadRm`, `Delete`, `Forget`, `ReadDefault`, `Repoint`; `CountUsers`, `DestroyHost` |
| `resolveFleet`, `Fleet.Resolve`, the targets | `ResolveTargets` |
| `fanOut`, `fleetMutate`, `fleetInstall`, `fleetStatus` | `Spawn`, `TakeOps`, `StartDial`, `Dialled`, `ResolveVersion`, `Compare`, `InstallPin`, `OpEnds`, `Summarize` |
| `prefixWriter` | `Write`, `EndLine`, `Flush` |
| environment | `Kill`, `Restart`, `IndexMoves` |

**Atomicity.** Every call of an external tool that changes what another command can see, every
check it depends on and every write of a file is a step of its own; the existence check of `host rm`
is one with its delete.  A tool fails where what it needs is missing or in its way, because of another
command, a kill or a restart: a create that starts the host while another does (`StartHost`) or makes a network
that is there (`NetCreate`).  That one fails by itself is not modelled: it ends the command with
its error.

**Left out.** Sizes, templates, gVisor, the jump host's key, the globs of a selector.

### How `Logs` corresponds to the code

**State.** `dir[i]` is the file that generation `i` names, `files[f]` its lines, `lock` the
lock beside the log; `pc`, `fd`, `next` are a process in `Append`.  `tally` are the counts in
memory, `snapshot` the file.  `reader` is the follower's position.

| code | actions |
|---|---|
| `logfile.go` `Append`, `rotateIfNeeded`, `rotate` | `EnsureOpen`, `RotateIfNeeded`, `Reopen`, `AcquireLock`, `CheckAgain`, `Truncate`, `RemoveOldest`, `Shift`, `ReopenLocked`, `Write` |
| `activity.go` | `SeedCounts`, `Backfill`, `Tally`, `Close` |
| `tail.go`; the bridge with `ReadFrom` of `remotefs/exec.go` | `History`, `Poll`; `SeedBridge`, `BridgeSize`, `BridgeRead` |
| environment | `Kill`, `Restart` |

**Atomicity.** Each system call is a step; an append is one, as the file is opened for
append and a line is one write.

**Left out.** What a line says, filters, lines longer than another, failing file
operations.

## 3. Runs

| run | instance | shows |
|---|---|---|
| `safety` | 3 requests, 2 of one line, 1 repeated delivery, pool 2, serve and once, 1 fault | `ServicedByOne`, `DedupHolds`, `ReplyStable`, `OnceComplete`, `Refines` |
| `live` | 2 requests of one line, retention on, 2 faults, fair | `NothingLost`, `AnsweredNeverRerun`, `Answered`, `CollectedPruned`, `AbandonedReaped`, `TeardownEnds` |
| `reaped` | 1 request, 2 faults | finding: `ReapedNeverRerun` is violated |
| `installs` | 15 casts of 2 or 3 requests, 1 fault, fair | `HandsOverVerified`, `ReportedStays`, `OneDownload`, `Heals` |
| `egress_safety` | casts of 3 or 4 agents (below), 1 fault, 2 URLs per fetch, 1 request per connection | `HeldOnce`, `NothingForgotten`, `DenySticks`, `VerbAskedUntilDecided`, `HostAskedOnce`, `PackageDenied`, `StoreRefines` |
| `egress_live` | casts of 2 agents, 1 fault, fair | `Served`: whoever starts is answered |
| `controllers` | 2 members, 1 command on the second, 1 each of drops, mistakes, rotations and approvals, fair | `OneServer`, `CodeNotReplayed`, `Joins`, `Reconnects` |
| `console` | 10 casts, channel of 2 messages, fair | `PromptsHaveWaiters`, `ScreenFollows`, `NobodyStuck`, `DownIsTrue` |
| `sandboxes` | 16 casts of 2 or 3 commands over 2 names, kills, restarts | `CreatesIndependent`, `DialHeals`, `OneVersion`, `LinesWhole`, `EveryMemberCounted` |
| `logs` | 5 casts of 1 to 3 writers, 1 kill | `HistoryKept`, `GenerationsBounded`, `FollowedOnce`, `CountsKept` |
| `rust` | two `rust.install` of one version | finding: `ReportedStays` is violated |
| `bootstrap` | a bootstrap beside a request in its prompt | finding: `HeldWhileAsked` is violated |

**Bounds of the dispatcher.** Two requests that share a key are what serialisation needs;
a third, unkeyed, fills the pool beside them so that the drain waits for a token.  Two
tokens make two workers; a larger pool only adds unkeyed workers that do not
interact.  Two faults cover a fault during the recovery from a fault, the depth
at which recovery could lose what the first left behind; beside a repeated delivery and
a third request there is one.  One repeated delivery reaches every position of the first
copy.  The theorems have none of these bounds.

**What effectively-once means here.** That an answered request is never run again is
false of the code: `gc` discards the error of each delete, so that it can delete a response
and leave its request, which the next `recover` finds without an answer (run `reaped`).  The
history variable `orphaned` is the set of these requests: `gc` leaves a pair, or dies at it,
with the request somewhere in the outbox and the response nowhere.  That happens when the
delete of the request is refused, when the link drops or the process dies between the two deletes
of the retention sweep (which deletes the response first), and when a copy was delivered
before the response was collected.  `AnsweredNeverRerun` says that only an orphaned request
is run again, and `Refines` that this is all that separates the program from
`EffectivelyOnce`, with every fault, repeat and sweep.  `CollectedPruned` likewise: a pair is
pruned on both sides but for an orphaned request, which nothing lists any more, as `gc` lists the
inbox alone.

**Bounds of the approvals.** Agents interact through the files, the prompt and
the proxy's policy, so a cast puts together those that share one of them: two
held fetches and two commands (the files), two gated workers and a connection (the
prompt), a fetch and two connections (all three).  Two of a kind make a race; a
third finds the same lock held.  The five URLs are the smallest set with an index and
its artifact on another host, a host that is rewritten to an allowed one, and a
tunneled host.  The rules at the start are none or a package denied.  One fault
is a failed operation, a killed command or a broken file: each is local to one
call, after which the lock is free.  Two URLs per fetch make one redirect.

**Bounds of the controllers.** Member `a` asks for a password and a code, so that the
cache answers one of them; `b` takes a key.  One command line is the other owner, the
prober, the resetting bootstrap, or gone.  Members interact through the prompts'
queues, the join loop and the start, which two exercise: one waits at a prompt while
the other does anything else.  One dropped link, mistake, rotation and approval
together cover a rotation found by a reconnect after a drop with an approval open
and the new password mistyped.  The command names `b`, which is joined without a prompt,
and links drop in a dial or while serving, not during the check: outside that `Joins`
and `Reconnects` do not hold, for the reasons listed under "Divergences".

**Bounds of the installs.** A cast puts together requests that share something: two
members of a fleet (the cache), two of one line (a tree and its packages), a runtime
and what is built with it, an environment made by either of two, a tool beside a prune.
Two parts make an archive that can be half there; of some trees the binary runs without
the other part, of others not.  One fault, and one repetition for it, put every
interruption before or after every step of the others; beside a prune a second
repetition, since the prune may take away what the first fetched.  Where a property
does not hold the instance is named in `MCInstalls`: `MCLines`, `MCPrunes`, `MCLaunchers`.

**Bounds of the console.** A channel of two messages is full in the middle of what the
code's 64 are full of after a burst.  The casts pair what meets in a cycle: two requests at
one prompt, a request and a connection, drops with a password and a quit, a bootstrap beside a
connection, each other action of the operator with a drop.  Two casts have a client that watches the heartbeat, with one
drop, or with a bootstrap.  Patience is 5 ticks, polls at most 1 apart and the
sequence counted to 8: for one such mishap and for the loop's own coming round that is just
enough (`Patient`).  In the code 120 seconds, polls of 30 and intervals of 2 make it enough
for two.  With less, the writes that come late or begin at 1 can coincide one after the other
with what the client saw last, and each hides a poll.

**Bounds of the sandboxes.** Two names and two addresses let a container come back with
the other's address; three processes are two racers and a third that dials.  A kill, two
restarts, and for two dials of one sandbox both, so that a refresh can stay half done and the
old address come back.  Larger casts, of four processes and three restarts,
are what the invariants of the proofs were tried on; the proofs have no bounds.  The fleet has both sandboxes, of which another command removes one; the index moves once.

**Bounds of the logs.** Two lines fill a generation, three generations have one that is
shifted and one that is dropped, a flush comes every second event.  Three writers rotate
at once; a kill falls on any step of a rotation.  A cast whose counts are backfilled has no
second counter (`approve` would write a snapshot of its own, below).

**Fairness.** Weak fairness of `Connect` (the supervisor reconnects after
every transport error, `cli/supervise.go`), of the serve goroutine and of each
worker.  A handler that returns is part of the latter: handlers run under a
context and their own timeouts; a blocked operator prompt is the exception, treated
by the approval modules.  Nothing is assumed of clients or of the
network beyond the bound on faults: `Answered` is about a client that stays.  `egress_live`
assumes that goroutines, commands and their store calls are scheduled, that an operator
who is there answers a prompt (the code waits without limit), and that an idle
connection ends, by its five-minute read deadline; not that a command is issued, a
rule forgotten or a broken file mended.  `controllers` assumes that goroutines run,
that an operator answers the prompt that is shown and presses `b` for a parked member,
that a command which changes a sandbox ends, and that a console that is
stopped exits; not that a command that serves ends, nor that anybody quits: `Joins`
is about a member whose lock no command holds from some time on.  `installs` assumes
that handlers go on and that a request that failed is sent again, as often as its bound
says; servers may refuse, links may drop.  `console` has one weak fairness over all steps
of the program (`System`): something of it runs while something can.  That is less than
fairness of each goroutine, and enough, because the program takes finitely many steps between two
of the environment's; for that the ticker lists only when there is something to find.  Nothing is assumed of the operator, the agent or the link, nor
of the clock.  `sandboxes` and `logs` state safety only.

**Deadlock.** Checked for the dispatcher, the approvals and the installs; a console that
was quit, and commands of a cast that have ended, leave nothing to do, which the other
configurations allow.

**Findings.** Three runs end in a violation: a disagreement between the code and what its
documents or comments say.

* `reaped`: `dispatch.go:482-483` says that `recover` never re-executes a reaped pair; when the
  sandbox refuses the first delete (its error is discarded at 494), the second takes the
  response away and the request is run again in the next session.
* `rust`: `PROTOCOL.md:94-97` names `rust.install` and `cargo.build` a line whose
  requests are serialised; `runtimeFamily` (`dispatch.go:423`) gives them no key.
* `bootstrap`: `README.md:10` has the operator approve each operation and
  `tui/console.go:412` holds it until it is answered; the smoke test's dispatcher
  (`bootstrap.go:130`) has no gate and services what waits in `outbox/cur`.

**Divergences.** Met while modelling, stated with the instance or argument that shows
them; the runs keep to what they leave.

* Dispatcher: the retention sweep deletes in the other order, so that a crash or a dropped link
  between its deletes has the effect of the run `reaped` (`dispatch.go:519-520`); a repeated id is
  run again once the pair is pruned, where `ice-climbers-plan.md:178` says it replays its
  response; an older install skipped for its key is overtaken by a younger one
  (`dispatch.go:286`, `PROTOCOL.md:94-97`).
* Heartbeat: recovery runs before the loop starts (`dispatch.go:143-151`), so a
  recovered request's prompt holds the heartbeat up, which `approver.go:72-73` excludes; a
  bootstrap restarts the sequence at 1 (`bootstrap.go:130-133`, `dispatch.go:226`); after
  a reset a client waits, with Popo up, for a request that is gone.
* Console: a worker that finds its session dead in the check is parked on it
  (`console.go:127-137`), and one whose bootstrap fails in the smoke test is not woken;
  a request that does not parse is announced without an id (`cli/console.go:1029-1036`) and
  its end names one (1012), and a full channel drops an end: both leave an entry in the
  banner, which `tui/console.go:196-199` excludes.
* Controllers: a member that asks for a password is never joined live
  (`fleetconsole.go:242`); `serve` ends on a link dropped during its check
  (`supervise.go:67`, `session.go:102`).
* Approvals: a second fetch of a held URL names an id that is not in the queue
  (`store.go:172`); an index longer than the observer's bound is learned in part
  (`proxy.go:326`); an artifact of two indexes is remembered for the last
  (`egress_proxy.go:309`).
* Installs: two Python lines share `pip-report.json` (`pip.go:64`, `MCLines`); a prune
  under two downloads of one file takes the lock's file away and one is handed the other's
  half (`MCPrunes`), where `cache.go:16-20` calls pruning always safe; an
  environment file's name and a version are two keys of one conda environment
  (`dispatch.go:417`); the agent's download shares its temporary name without a lock
  (`agent/install.go:237-254`); a command line and a serving process may install one line
  at once, which `lock.go:26-30` accepts.
* Sandboxes: a refresh killed between `known_hosts` and `ssh_config`
  (`sandbox_container.go:525-529`) is not repaired when the address comes back, since
  only `ssh_config` is compared (line 519).  Nor are the files of two refreshes that a restart
  has given different addresses and whose writes interleave.  Every later dial of the
  sandbox then fails until its address changes once more; `DialHeals` excuses these names
  (`stale`), and section 4 says how it was found; `ensureHostInstance` looks
  whether the host is there and starts it, without a lock (`sandbox_container.go:68-78`): of two first
  creates at once the second may get `limactl`'s error, which is returned, where `EnsureNetwork`
  looks a second time (`container.go:132-137`); `CreatesIndependent` excuses the loser; unnamed creates beside each other choose
  one name (`sandbox.go:141`) and one pair of keys (`sandbox_container.go:187`); `rm` of an
  unreadable config leaves the container (`sandbox.go:709-710`); the default pointer may be
  left on a name that is gone (`sandbox.go:755`); `host rm` beside a create removes its host
  (`sandbox_container.go:436`); a Lima config is registered before the air-gap
  (`sandbox.go:270-277`).
* Fleet: prompts of members that dial at once are not serialised (`fleet.go:20-22`).
* Logs: a configuration without bounds keeps one generation (`logfile.go:46`), where
  `README.md:132` and `config.go:99-100` promise four (`MCDefaults`); a log that has
  grown past a follower's offset since its rotation is read from the middle (`tail.go:51`);
  `approve` and `deny` never flush their counts and open the log with default bounds
  (`approve.go:170`, 204).

## 4. Proofs

Eight modules.  The first is about the dispatcher, for every set of requests, pool,
choice of entry points and bound on faults and repeats.  The only assumption is `DispatchAssumption` (in
particular the pool is finite and not empty); each proof has a lemma for each
group of actions and a step per action in it.

**`DispatchProofs`: exclusion.** `TypeHolds`, `ServicedByOneHolds` and
`SameKeySerializedHolds`, from the inductive invariant `ExclusionInv`.
`ServicedByOne` and `SameKeySerialized` are not inductive: they say nothing of why a
second worker cannot start.  `ExclusionInv` adds the reason.  Every name that a
worker or the drain goroutine holds is in `inflight` and its key in `active`; two
holders differ in name and key; the drain goroutine between `Reserve` and
`StartWorker` is such a holder, and holds one token at `pickup` and none elsewhere;
and while the goroutine is in `recover` or down no worker runs, which is what
`Close`'s wait for the workers establishes and `gc` in `RunOnce` preserves.

**`DispatchProofs`: deduplication.** `DedupHoldsAlways` and
`ReplyStableHolds`, from `InboxInv`: what `responseExists` found in its first
listing, and then in both, stays true while the request is reserved, picked up
and run.  Clients only move responses; a worker publishes for its own request,
which `ExclusionInv` keeps apart from all others.  These hold with repeated
deliveries and the retention sweep.

**`DispatchProofs`: delivery.** `NothingLostHolds`, in every instance, from
`LossInv`: whatever `gc` lists has been answered, so it deletes no request that
still needs one.  Then, about `HistorySpec` and likewise without a hypothesis, `OnceInv`:

* `KeptInv`: an answered request that is still in the outbox has its response in the inbox, or is
  orphaned, or `gc` is between the two deletes of the retention sweep.  So `recover` and
  `drainNew`, which have listed the inbox twice without finding a response (`InboxInv`), hold a
  request that is unanswered or orphaned.
* `WaitInv`: `gc` deletes no response that its client waits for, so a request delivered again
  after its answer is in the outbox with its response.
* `SeenInv`, `PassInv`: what the dispatcher knows of was requested, and the loops' names
  are where their listings found them.

From it `RefinesHolds`: each step is a step of `EffectivelyOnce` or a stutter (`Request` is
`Submit`, `RecoverListCur` and `StartWorker` are `Begin`, a delivery is `Answer` or a `Mishap`,
`Crash` and the end of `gc` at a pair are a `Mishap`); the capacity bound uses that a held token is
not a running one.  `AnsweredNeverRerunHolds` follows from the refinement.

**`DispatchProofs`: `RunOnce`.** `OnceCompleteHolds`, about `HistorySpec`, in every instance.  `RunOnce` returns after a pass that has started
nothing.  No worker runs when that pass begins and none until it starts one (`BatchInv`), and
whatever is in flight has a worker or is in the goroutine's hands (`OwnedInv`); so nothing
is skipped as busy, and such a pass has cleared every name of its listing that it has passed
(`ListedInv`).  What is in `outbox/cur` is answered or with a worker once `recover` has gone by it
(`RecoveredInv`), and at the end there are no workers.

The second is about approvals, for every set of agents, URLs, patterns, rules
at the start, casts and bounds, from the assumptions `StoreAssumption`,
`EgressAssumption` and `ProxyAssumption` (kinds of agents are disjoint).

**`EgressProofs`: the files.** `HeldOnceHolds` and `NothingForgottenHolds`, from
`StoreInv`.  `HeldOnce` is not inductive: a call that has found its URL missing will
add it later.  `StoreInv` says why it still may: a call past `Lock` holds the
lock of its file (`LockInv`), so what it has read is what the file contains
(`FreshInv`) and the URL is missing still (`NewInv`); and only a command removes
(`RemoverInv`).  The system's steps reach the files by a few store operations
(`StoreSteps`), about which the rest is proved.

**`EgressProofs`: the refinement.** `StoreRefinesHolds`: under the mapping `Stage`, which forgets
the lock and the copy a call has read, every step is one of `AtomicStore` or a stutter.  `Lock` is
a stutter, `Load` is `Parse`, a refusal is `Decline`, `Write` is `Update`, a failing write is
`Fail`, a caller that goes on or dies is `Leave`, the operator's editor is `Edit`.  The
effect of `Write` is computed from the copy and that of `Update` from the file;
`FreshInv` makes them one.  What else `ImplInv` says is what makes a call well-formed: an agent
has one call at a time, on an entry of its own URL (`CallersInv`), the files have
only `Entries` (`EntriesInv`), a call at rest has no outcome (`OutcomeInv`), and one past the
look at the pattern is no malformed add (`AcceptInv`).

**`EgressProofs`: prompts and rules.** Four arguments, over `PromptInv` (who
is at a prompt holds `promptMu`), which gives `OnePromptHolds`, and
`VerbAskedHolds` with the second look under the lock:

* `BarInv` for `DenySticksHolds`: a rule in `barred[f]` is on file and denies
  `url[f]`, and past the decision there is none, since the decision reads the file.
* `AskInv` for `HostAskedOnceHolds`: who decides a host holds the policy's lock and
  the host has no verdict; a host without one has been asked about only by the
  connection that still decides it.
* `PackageInv` for `PackageDeniedHolds`: an index is learned before it is delivered,
  and each check of a request leaves a smaller set of rules that may have stood all
  along: after the first only those of a package, after the second none.  Its
  condition `Disjoint`, that no two indexes list one artifact, is needed: the proxy
  keeps the index it learned last.

The third is about the controllers, for every fleet, set of commands, sequence of
challenges and bound, from four assumptions: `NobodyAssumption` and
`ConsoleAssumption` (the names of processes differ), `MembersAssumption`,
`ChallengesAssumption`.

**`ControllersProofs`: types, locks, secrets, codes.** `TypeHolds`, then:

* `LockInv` for `OneServerHolds` and `NoStrandedLockHolds`.  `OneServer` is not
  inductive: it does not say that a worker that dials has the lock already, nor that
  the cleanup releases what registered workers hold and nothing else.  `LockInv`
  says for each part who answers for a lock: a worker in any state, a
  command that serves, the start, the join; and that no lock of the console is left
  over (`LocksAccounted`).  A member being joined is never the one being
  started, because nobody joins before the program is up.
* `CacheInv` for `OnlyProvenReusedHolds`.  After a mistyped answer and a network
  error the wrong secret stays pending.  It is never committed: while it is pending
  the cache is empty, so the question is asked again, and its answer replaces the
  pending one, before a dial can end well.
* `CodeInv` for `CodeNotReplayedHolds`.  The property compares an answer with those of
  earlier dials and of this one; the invariant says why they differ: every code seen
  so far has a number below the count of codes typed, and the cache, which alone answers
  without the operator, holds none.  Its condition `CodesInForms` is needed: a single
  hidden question is taken for a password's (`auth.go:106-110`), so a server that asks
  for a code in that way gets it from the cache.

The fourth is about a command over a fleet, for every set of sandboxes and commands beside it,
every fleet file, selector, number of goroutines and sequence of versions the index goes
through, from the assumptions `FleetAssumption` (there are versions), `FinitelyMany` (the
names are finite), `CastAssumption` (a fleet file lists names, each dialed by a process), `OrderAssumption` (the names in the
order of their spelling, each once) and `DistinctAssumption`.

**`FleetProofs`: versions, the end, the output.** Every step of a goroutine is one of six
kinds (`Does`), which `GoroutineStep` shows; the invariants are about these.

* `OneInv` for `OneVersionHolds`.  `OneVersion` says nothing of what will be installed.
  `OneLine` does: in the first phase nothing is; once `Compare` has found the resolved versions
  equal there is one `v` (`Agree`) that every target which has not failed resolved, and that
  is all there is on any of them.  It holds with members that fail in either phase,
  because a failed one skips its install.
* `CountInv` for `EveryMemberCountedHolds`.  Only targets have goroutines, and a
  target is over only when its goroutine has said so (`Whereabouts`); what a goroutine
  that has not failed has done by each of its stages is `InstallWork` and `OtherWork`,
  from which a command that ends well (`EndsWell`) has done its work on each.
* `OutInv` for `LinesWholeHolds`.  `LinesWhole` does not say what a buffer holds, nor who may
  print next.  What waits in a buffer are the last pieces that were written, in order
  (`Buffered`), and those before them are printed (`Shown`); the lock of the output belongs
  to whoever is at the end of a line (`Holding`), and the last thing printed is then its
  prefix (`Prefixed`), so the buffer continues it (`BehindBuffer`).  A buffer is empty
  when a goroutine is over, and a second phase starts a goroutine anew only because no
  target is started twice in a phase (`EachOnce`, `Unstarted`).

The fifth is about the sandboxes below that command, for every set of names, processes,
addresses, commands given, kills and restarts, from `CommandsAssumption` (what the casts give is
a command), `CastAssumption`, `OrderAssumption` and `DistinctAssumption`.

**`SandboxesProofs`: creates, dials.** `Step1` lists the steps with what each leaves alone:
a command's own (`Framed`: its name's entry, files and container, what it adds to the host),
a kill, the destruction of the host, a restart, a beginning.  `FleetSteps` shows that the composition
has no others; the invariants are about these.

* `OwnInv` for `DialsOwnHolds`: no two containers have one address (`Addressed`), and a container
  lets in no key but those its sandbox's commands have put there (`KeysOwn`).  So whoever answers
  at an address and accepts the identity is the sandbox's own.
* `CreateInv` for `CreatesIndependentHolds`.  The property says only that no such create
  has failed.  The invariant says for each of its steps what it has found or made (`Good`): the
  host up, and past the network's step a network, whoever made it; its image, builder, container,
  key, address, pin.  And it says where other commands on its name can be (`Beside`): only dials, which
  do not get past its missing entry until it is registered and then find the address it has.  A create that
  loses the race for the network or the image meets what it wanted.
* `HealInv` for `DialHealsHolds` and `FailsTornHolds`.  What is trusted for a registered container is
  the key it was made with, and the identity is one it lets in (`Trusted`), which `Makes`
  says of the create that made it and `Solo` keeps from being mixed with another's.  While
  a dial is undisturbed its container and its entry are there (`Heals`).  `Mended`
  is about the two files, for names neither spoiled nor stale: every refresh under way writes the
  container's present address (`Aims`), so two that interleave write the same; and
  files that differ are those of a running container of which `known_hosts` is already right
  (`Mendable`), so that `ssh_config` is wrong and the next dial rewrites it.

`DialHeals` did not hold as it stood when this proof began, that no undisturbed dial fails: `Mended` is
not inductive over a restart that comes while a refresh has an address in hand, and TLC
found on larger casts the behaviours that end with the files torn and a dial that fails (section 3, divergences).  The property now excuses the names of such restarts, which
the history variable `stale` collects, and `FailsTorn`, an action property about all names, keeps
what can be said of the excused: the one way to fail is torn files of which `ssh_config` is right.

The sixth is about one rotated log, for every set of processes, cast of writers and
readers, bounds of size and generations, number of lines and kills, from `LogsAssumption`
(the bounds are positive, what the casts say of a writer is of its type, at most one
writer serves).

**`LogsProofs`: types, rotation, follower, counts.** `LogsTypeCorrect` from `Types` and
`Places` (who rotates holds the lock, and two generations are never one file), then

* `RoomLeft` for `LogsGenerationsBounded`.  A writer that has looked at the size writes
  later, whatever the others have written since.  `RoomLeft` counts those who may still
  write to a file without looking (`Pending`): the file's length and they together stay
  within the bound, and a rotation that begins anew has nobody pending but those who
  followed it.
* `FollowInv` for `LogsFollowedOnce`.  Lines are numbered as their process wrote them;
  each file is in order, and whatever the follower has not read of the log (`Unread`) is
  younger than all it has shown.  A rotation leaves an empty log, a truncation resets the
  position, a read that a rotation falls into drops what it had.
* `CountInv` for `LogsCountsKept`.  For the process that serves: what is in the snapshot
  and in memory and what was logged agree, up to one flush interval for each kill.
* `HistoryInv` for `LogsHistoryKept`.  What is gone is counted in lines, what may go in
  generations; between them is the shape of the directory.  Below a generation
  that is in use all are full, but for one hole for each process killed halfway; a rotation under
  way moves one free name upwards, which is no hole (`Sparse`).  That name is free and nobody empties a
  log (`Begun`); no line is in two files (`Once`) and every line written is in one (`Stored`).  The theorem is about writers that keep what their configuration
  promises (`Keep(p) = KeepPromised(p)`): a configuration without a bound promises every generation and keeps one
  (section 3, divergences).

The seventh is about the console of one sandbox with its worker and the heartbeat
(`BeatSpec`), for every set of requests and pings, pool, room of the channel and cast, from
`RoomAssumption` and `DistinctAssumption`.

**`ConsoleProofs`: prompts, the screen, a client's patience.** Its invariant `ConsoleInv` is of sequences: where in
the channel and in the screen's two queues an asker's prompt is (`Positions`).

* `WaitInv` for `ConsolePrompts`: whoever waits has one place in one of the three, the others
  none.  It needs `GateInv` (who waits for the gate is a handler of the serving dispatcher,
  and a password is asked for only between two sessions), so that a dropped link, which
  clears the screen's queue, takes no prompt of an asker that lives on.
* `StartInv` and `ShownInv` for `ConsoleScreen`: behind the start of a request in the channel is
  its end, or it is in service, or its end found no room; hence what the screen shows once
  it has read the start.  `LinkInv` is the same of the header.
* `WatchInv` for `ConsoleDownIsTrue`.  What the client sees is a number that it compares with
  the one it saw last.  The loop's writes are all different for a whole round; what can repeat
  a number is a stopped loop's last write, which the link's end left on its way, another
  bootstrap's 1, and the loop itself where it comes by the number.  These are counted
  (`Mishaps`, `Coming`; `Chances` together): a drop is one before it happens, while the cycle
  ends and while its write is on its way, and a step never makes them more.  The invariant,
  `PatienceInv`, is an account: the ticks of quiet, the ticks that each chance left may still
  hide and those since the client's last look, paid at the next, never exceed its patience.  A tick adds to both
  sides, a look that finds nothing pays what was hidden, a write of a number seen before
  uses a chance up.  `LoopInv` says that one loop runs, that of the cycle, `AloneInv` and
  `PassInv` that nothing but a lost link ends a cycle.  Its hypothesis `Patient`, of every cast, says that
  where a client waits the operator starts no action (a reset takes the file away) and that
  patience covers what the mishaps may hide and a first tick; TLC evaluates it on the instances
  (`PatientCasts`), and checked the parts of `WatchInv` on them first.

The last is about the relay cache under the scripts of requests, for every set of
requests, scripts, files, digests, links and every number of faults, from `CacheAssumption` and
`ScriptAssumption` (a script is made of the steps there are).

**`InstallsProofs`: types, the cache.** `InstallsTypeCorrect` follows every branch of a script.
`InstallsHandOverVerified` and `InstallsDownloadOnce` are from `CacheInv`: past its lock a fetch
is alone with its file (`Alone`), because lock files stay what they are (`LocksStay`); what
it writes is its own (`Written`), and it is renamed into place only once it is what was
wanted, so nobody's entry is written under him (`Cached`).  Both have the hypothesis
`Apart` of every cast, which TLC evaluates on the instances: two requests for one entry
take its lock, want the same content, and no prune of everything, lock files included,
runs beside them.  It cannot be dropped: in `MCPrunes` two wait for a lock that is
removed, one takes the new one, and both write; in `MCLaunchers` two downloads of
Coursier's launcher share a temporary name without a lock (`maven.go:234`).

`InstallsReportedStays` is from `StandInv`.  That an answered request's tree works when it answers is
easy; that nobody's later steps take it away is what the parts say together: the parts of a
tree are of its one content, and only a whole tree has packages or a marker (`TreesInv`); whoever
pushes holds what its script fetched or built (`DataInv`), whoever writes a marker has the whole tree
before it (`MarkInv`); whoever is about to clear a tree has found it missing, and nobody has put it there
since (`WindowInv`), because all who could have its key (`KeysInv`); a plan is that of who reads it
(`PlanInv`).  Hence what a job has made stands (`MadeInv`).  Its further hypothesis `Steady` is of the casts
and is evaluated by TLC on the instances (`SteadyCasts`): each script is in order, one tree gets one
content, a tree that somebody reports is cleared only by requests of one key that have looked
first, and requests that write a plan have one key.  Without it the property is false: in `MCRusts` two
requests of one version have no key and clear each other's tree, in `MCLines` two lines of a runtime report
one `pip` and push theirs.

Only model-checked: `HeldWhileAsked` (a violation), and all liveness properties, which the
proof system's backends do not treat.  Of the type
invariants those of `Dispatch`, `Controllers`, `Installs` and `Logs` are proved, those of `Fleet` and
`Console` as far as `FleetTypes` and `ConsoleInv` go; those of the other modules document the
types and are no run's question.

## 5. What is left

Done: the dispatcher and the promise it implements, the approvals, the controllers, the
installers over their cache, the console with the heartbeat, the sandboxes with a fleet's
commands, the logs.

Every safety and action property of the passing runs is a theorem.  Worth proving next: the types of
`Console` and `Heartbeat` in full, and that the relay cache implements a store whose entries are
whole (`HandOverVerified` would follow), as the rule files implement `AtomicStore`.

Not modelled, and why:

* *Capabilities and the egress environment's file*: one read-modify-write of a file that
  bootstrap and `agent install` share; an update is lost when both run at once
  (`capabilities.go:54`).  Nothing but the status display reads it.  The same holds of the
  stores of runtime sources (`install.go:115-131`).
* *Configuration, skill, probe, progress, rendering, commands that only print*: functions
  of their input without shared state.
* *Transports*: SSH, SFTP, HTTP and TLS are I/O; the models have their contract.
* *Version resolution and package formats* (`catalog`, `conda`'s solver, lock files, index
  parsing): data the properties do not tell apart; constants or choices where a decision
  depends on them.
* *External programs*: podman, Lima, pip, npm, mvn and conda, as the code uses them.

## 6. Running

    tlc -workers 2 -config Dispatch_safety.cfg MCDispatchHistory
    tlc -workers 2 -config Dispatch_live.cfg MCDispatchHistory
    tlc -workers 2 -config Dispatch_reaped.cfg MCDispatch
    tlc -workers 2 -config Egress_safety.cfg MCEgress
    tlc -workers 2 -config Egress_live.cfg MCEgress
    tlc -workers 2 -config Controllers_fleet.cfg MCControllers
    tlc -workers 2 -config Installs_lines.cfg MCInstalls
    tlc -workers 2 -config Installs_rust.cfg MCInstalls
    tlc -workers 2 -config Console_prompts.cfg MCConsole
    tlc -workers 2 -config Console_bootstrap.cfg MCConsole
    tlc -workers 2 -config Sandboxes_registry.cfg MCSandboxes
    tlc -workers 2 -config Logs_rotation.cfg MCLogs
    tlapm DispatchProofs.tla
    tlapm EgressProofs.tla
    tlapm ControllersProofs.tla
    tlapm LogsProofs.tla
    tlapm ConsoleProofs.tla
    tlapm InstallsProofs.tla
    tlapm FleetProofs.tla
    tlapm SandboxesProofs.tla
