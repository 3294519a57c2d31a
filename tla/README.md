# A TLA+ model of demesne

demesne is an MCP server on stdio that runs scripts and coding agents in
OpenSandbox containers.  This directory models its core logic in TLA+, checks
the models with TLC on small instances, and proves their safety properties for
every instance with TLAPS.

## The system

| Component | Source | State it keeps | Operations | What makes it correct |
|---|---|---|---|---|
| Background-job registry | `internal/sandbox/jobs.go` | jobs by id, children by parent, each job's state, outcome and `done` channel | Start, Status, Wait, Cancel, reaper, Shutdown | each job ends once; its notifier hears that ending once; Cancel ends a subtree; replies never go back |
| Starting jobs | `jobs_runner.go`, `jobs_io.go` | none of its own | wraps `runScript` and `runAgent` as the `run` of a job | the outcome is the run's |
| Child spawning | `children.go`, `childserver.go` | live runs by job id; per run the names used and the siblings' outputs | nine MCP tools for agents in a sandbox | names unique per parent; a child nests under its parent |
| Sandbox lifecycle | `runner.go`, `create.go`, `exec.go`, `destroy.go`, `research.go` | none: the containers are the state | launch with retries, exec, destroy | no container left behind |
| Agent runs | `agent.go` | directories on the host | layout, sidecar, command, teardown | sidecar removed before its sandbox |
| Ownership and orphans | `owner.go`, `reaper.go` | the owner label on each sandbox | sweep at start-up | only a dead owner's sandboxes are destroyed |
| Sidecar | `internal/sidecar` | one container per sandbox | Start, Remove with retries | idempotent |
| Results roll-up | `results.go` | `results.json` per run | totals over a tree | every finished run counted once |
| Usage report, attribution | `usagereport.go`, `attribution.go` | files | totals, de-duplication | report equals the sum of its parts |
| Usage tracking | `internal/proxies/proxycommon`, vendors' `usage.go` | totals, `usage.jsonl`, `usage.json` | record, snapshot | totals equal the log |
| Upstream client pool | `mcpproxy/clients.go` | client, timer and generation per upstream | acquire, evict, Shutdown | at most one client per upstream; none used after it is closed |
| MCP aggregator | `mcpproxy/server.go`, `allowlist.go`, `discovery.go`, `defaults.go` | listener, tools, allowlists | discovery, filtering, forwarding | only allowed tools are exposed |
| File delivery | `filedelivery.go`, `mcpproxy/filegen.go` | files under `/workspace/generated` | Deliver, argument and result rewriting | each source has a path of its own |
| Credential refresh | `proxies/openai` | `auth.json` | refresh, atomic rewrite | the file holds the current refresh token |
| Vendor proxies, pricing | `internal/proxies` | none | header rewriting, price lookup | |
| Host server, agents, images, paths, entry points | the rest | none | parsing, formatting, `docker build` | |

The components meet in four places.  The host server and the child server call
the runner; a background call passes through the job registry.  The child server
finds its parent's *spawn context* in the run registry by a header the sidecar
tunnel sets, and passes the parent's job handle to `Start`.  The aggregator
forwards tool calls to the upstream pool and, for file generators, to file
delivery, which finds the run in the same registry.  The sidecar writes usage
files that the runner reads back when the run ends.

What is hard here is concurrency inside the registry (a goroutine per job, any
number of callers, a reaper and a shutdown, with a compare-and-swap deciding the
ending and two locks around the rest), trees that change while they are walked,
resources outside the process (containers, token files, subprocesses) whose
release races timeouts, cancellation and crashes, and files written by one
process while another reads them.  `PROJECT.json` lists the hazards line by line.

## Plan

The most concurrent part comes first, then the others in the order in which
they lose or leak something.

1. `JobManager`, `JobLifecycle` and their proofs: done.
2. `ClientPool`: one client per upstream under acquire, idle timer, failure and
   Shutdown; its safety properties proved: done.
3. `AuthRefresh`: concurrent launches and a rotating refresh token; crashes; its
   safety properties proved: done.
4. `SandboxLifecycle`: launch retries, sidecar start and removal, kill, TTL, crash
   and the reaper at start-up; owner labels.  Abstract promise: a sandbox is removed
   by its owner or, after the owner's death, by the next start, and by nobody else.
   Its safety properties proved: done.
5. `SpawnTree`: run registry, child names, siblings, job handles and the results
   roll-up: done.
6. `UsageTracking`: the sidecar's records against the host's copies, failed writes,
   roll-up, attribution and report: done.
7. `Upstreams`, `Gateway`: discovery, allowlists, wiring, tool calls, delivery of
   generated files: done.
8. Proofs about 5, 6 and 7, all the safety properties of their runs; sums and
   induction over sets for them in `Sums`: done.

One run per question: a component gets one passing run with all its safety and
liveness properties where the state space allows, and a violation run only for
a disagreement that a reader of the documents should know.

Theorems worth proving: type correctness and the safety invariants of 1, that 1
implements `JobLifecycle`, and the safety properties of 2 to 7 (all done).


## Modules

### JobManager

`JobManager.tla` models `jobs.go`.  One step is one atomic operation of the
code: a critical section of `m.mu` or `j.mu`, a load or compare-and-swap of
`j.state`, a call of a notifier, a receive from `j.done`.

| Code | Model |
|---|---|
| a handler on its way to `Start`, holding its parent's handle | `Request`, `pc = "requested"` |
| `Start`'s critical section; `wg.Add` and `go` | `Register`; `Launch` |
| `run()`, its `OnOutputReady` callback, its return or panic | `OutputReady`, `RunReturns` |
| `compareAndSwapState` on return and on recovery | `Finish` |
| outcome and `finishedAt` under `j.mu`; the notifier; `close(j.done)` | `Record`, `Announce`, `Exit` |
| `Cancel` and `cancelSubtree` | `CancelCall`, `Enter`, `Kill`, `Stamp`, `Abort`, `NotifyCancelled`, `CancelReturn`; the recursion is the stack `todo` |
| `Status` | `Lookup`, `StatusLoad`, `StatusReply` |
| `Wait` | `Lookup`, `WaitCheck`, `WaitDone`, `WaitTimeout`, `WaitAbandoned` |
| `reapExpired`, `m.now` | `Reap`, `Tick` |
| `Shutdown` | `Shutdown`, `ShutdownReturns` |

`scope` is a history variable: the jobs registered when a Cancel began.
`returned` is what `run()` returned, before anyone can see it.

A job's parent is chosen among the jobs whose run is serving its sandbox, since a
child handler finds its parent in the run registry.  It reaches `Start` any time
later.  Costs and the stdout tail that `Status` adds from files are left out.

`JobLifecycle.tla` is the abstract promise: a job begins, ends once, and its
notifier is told that ending once.  JobManager implements it (`Life`), with
`LifeStatus` and `LifeTold` as the refinement mapping.  `LifeTold` is everything the
notifier of a job was given, in order, so that a second notification is no stutter and
no step of `JobLifecycle`.

Fairness (`FairSpec`): the Go scheduler runs each goroutine, so each of its steps
is weakly fair.  `run()` is only assumed to return once its context is cancelled,
since every call it makes to a sandbox takes that context; a run nobody cancels
may last for ever.  Callers of Cancel, Status and Wait, once they have called,
are goroutines like any other.  Nobody has to call anything, and no child has to
be spawned.

Runs:

| Run | Instance | What it shows |
|---|---|---|
| `JobTree` (pass: `CancelCoversSubtree`, `ChildrenBeforeParent`) | three jobs, one Cancel, a clock with the TTL 0 | In any tree of three jobs, with reaping, a Cancel ends its target and every job that was registered on an unreaped path below it, children before their parents. |
| `JobLive` (pass: `EndingsAreComplete`, `RepliesAdvance`, `LifecycleSafety`, `CallsReturn`, `LifecycleFair`) | one job, two Cancels, one watcher, the reaper, Shutdown, fair | However two Cancels race with the return, failure or panic of a run, a reaper and a shutdown, the job ends once, its notifier hears that ending and nothing else, a caller of Status or Wait is told a history that only advances; and under fair scheduling Cancel, Status, Wait and Shutdown return, and every notifier is told. |
| `JobReapedLink` (violation: `CancelReachesOffspring`) | three jobs, one Cancel, the reaper | A Cancel stops at a reaped job and leaves the jobs below it running. |

Three jobs are the least in which a tree has a middle: a grandparent, a reaped
parent, a running grandchild.  Two Cancels are the least that race each other; one
watcher is enough, as watchers change nothing and what `RepliesAdvance` compares are
the replies to one of them.  `JobLive` needs one job only: jobs share nothing but the walk of a Cancel, which `JobTree`
covers, and the theorems below hold for any number of each.  The
TTL is 0 and the clock goes from 1 to 2 in both passing runs: a job that ended before the
tick expires after it, so that the reaper races the calls in both.  Deadlock checking is off: the
system rests when every job is over and nobody calls.

`JobReapedLink` is a disagreement between the code and a comment (jobs.go:448): a
Cancel does not pass a reaped job, though jobs below it run.

Three further consequences of the design are allowed by the model and claimed away
by no property.  Status loads the state and reads the outcome later, so it may report a
success with exit code 0 before the exit code is stored (jobs.go:112 says otherwise).
A child whose handler holds its parent's context when the parent is cancelled is
started all the same, after the snapshot of its parent's children, and runs on; `CancelCoversSubtree` therefore speaks of the jobs registered when the
Cancel began.  And a Wait on a job that has just been cancelled waits for its
sandbox to be torn down, whatever its timeout; `CallsReturn` says that it ends.

### JobManagerProofs

`JobManagerProofs` holds the theorems, for any sets of jobs, cancellers and
watchers.  They assume what `JobManager` assumes of its constants (`NoJob` is no
job, exit codes and times are naturals) and no more.

- `TypeCorrect`: `TypeOK` always holds.  It is inductive together with
  `WatchersHold`: a Status or Wait under way holds a job.
- The inductive invariant `JobInv` says, beside the type: what the goroutine of a
  job has done, told from where it is (`GoroutineInv`); that a Cancel that won a
  race holds a cancelled, untold job that no other Cancel holds (`CancelInv`);
  that a job which carries an end time or has left the registry is *settled*, its
  state final and its outcome stored (`RegistryInv`); that what a caller was told
  is still so and what it will be told fits (`WatcherInv`).  None of the safety
  properties is inductive without it: that a notifier is told once, for example,
  needs that two winners cannot exist and that the winner has not told anyone yet.
- From it follow `NotifiedOnce`, `WaitNeverTorn`, `ReapedIsSettled`,
  `TerminalStable` and `RepliesAdvance`.
- `CancelEndsTargetHolds` adds that until the target has ended it is on the stack
  of the walk, which survives its being reaped only because a reaped job is
  settled.
- `CancelCoversSubtreeHolds` and `ChildrenBeforeParentHolds` rest on `SubtreeInv`.
  `TreeInv` says that the children the registry lists are the parent pointers, as far
  as both ends are registered.  `PathOK` says of each path of registered jobs from the
  target to a job in the scope of the call that one of its jobs is still to be entered,
  or its end is still to be killed, or has ended.  `OrderOK` says that a job to be
  killed comes after its children in the stack.  No induction over the tree is needed:
  a path is a function, a visit hands the obligation from one job of the path to the
  next, and no step adds a path to a job that was registered before, because nobody has
  a parent that is not registered.
- `ImplementsLifecycle`: every step of JobManager is a `Begin`, `End` or `Tell` of
  `JobLifecycle`, or a stutter, under the mapping `LifeStatus`, `LifeTold`.


### ClientPool

`ClientPool.tla` models `mcpproxy/clients.go` and `Aggregator.Shutdown`.

| Code | Model |
|---|---|
| `p.clients[s]`: the client and its generation | `clients[s]`, a record; `NoEntry` when there is none |
| `p.mu` | a critical section is one action; `holder` is the caller that keeps it through `spawnClient` |
| `CallTool`, `ListUpstream*`, `ReadResource`, `GetPrompt`, `Complete` | `Call`, `Acquire`, `Return` |
| `acquire` | `AcquireUnknown`, `AcquireHit`, or `LaunchFails` / `Launch` and then `Initialized` / `InitializeFails` |
| `resetIdleTimerLocked` | `ResetIdleTimer` |
| `time.AfterFunc`, its goroutine, `evict` | `armed`, `Fire`, `fired`, `Evict` |
| `Aggregator.Shutdown`, `Pool.Shutdown` | `Drain`, `Shutdown` |
| a subprocess | `proc[p]`; `Die` is the environment |

The eight exported calls differ only in the message they send, so they are one
`Call`.  The field `c` of a timer is a history variable: the code's callback knows
the server and the generation only, and `Current` reads nothing else.  The timers of
one server that have fired are served in order, because they are ten minutes
apart and `sync.Mutex` hands over in order to those who wait longer than a
millisecond; all other waiters overtake each other freely.

Fairness (`FairSpec`): timers fire, whoever waits for `p.mu` gets it in the end
(strong fairness: others may take it in between, and Go's mutex starves nobody),
and a handshake ends, if only because the request behind it is given up: it takes
the request's context.  A call on a client may last for ever, so Shutdown cannot
rely on it: `httpSrv.Shutdown` has a deadline, which is why `Shutdown` may follow
`Drain` at any time.

| Run | Instance | What it shows |
|---|---|---|
| `PoolLife` (pass: `NoLeak`, `PooledIsTended`, `EvictsItsOwn`, `IdleIsClosed`, `CallsEnd`) | two servers, a stranger, two callers, three spawns, three calls, Shutdown, fair | With two upstreams and two callers no subprocess is lost or launched twice, no closed client is handed out, every pooled client has a timer that closes it alone, and each acquire and Shutdown ends, though calls hang and subprocesses die. |
| `PoolBusyEvicted` (violation: `CallIsActivity`) | one server, two callers | The idle timer closes a client in the middle of a call. |

Two servers are needed for one hung handshake to delay the other; two callers for
a double spawn; three spawns for a client to be replaced twice.  The number of
calls bounds the generations.

`PoolBusyEvicted` shows that the idle timer runs from the start of the last call, so
that a long call loses its client.

Generations start again at 1 with each client.  Within the pool's life this is
harmless, because an evict that removes a client is the last of its timers.
Shutdown, however, removes clients whose timers may still wait in `evict`, and leaves
the pool usable by the calls that outlive it: such a timer may close a client that
one of them has just spawned.  `EvictsItsOwn` therefore speaks of the time before
`p.Shutdown`.

`ClientPoolProofs.tla` proves all its safety properties.  `PoolInv` says that no two
servers share a client, that the caller in `spawnClient` is the holder of the mutex
and its client is new, and that subprocesses not launched yet are untouched; without
it `NoLeak` is not inductive, since a step could close a client that another entry
names.  `OwnInv` orders the generations of a server's timers: those that fired
ascend, a running one is the latest, and a server without a client has none.
It is inductive until Shutdown only, hence `ServingInv`.

### AuthRefresh

`AuthRefresh.tla` models `proxies/openai/authfile.go` and `credential.go`.

| Code | Model |
|---|---|
| `auth.json`, the temp files beside it | `file`, `temp` |
| a `TokenSet` | `[refresh, born]`: the number of its refresh token, the time of its birth |
| `needsRefreshLocked` | `needsRefresh`: born in an earlier epoch |
| `refreshAuthFile` | `Read`, then `Grant` or `Refuse` by the endpoint, `Receive`, or `RequestFails` |
| `writeFileAtomic`, `writeAndClose` | `CreateTemp`, `Fill`, `Rename` and their failures |
| the endpoint's memory | `current`, the refresh token it honours |

Each launch of a Codex agent calls `RefreshAuthFile` once, in any process on the
host.  The endpoint is external: it honours the current refresh token only, and either
rotates it or answers without a new one, which `refreshLocked` takes as well
(`Unrotated`; a reply that repeats the old token is the same case).

| Run | Instance | What it shows |
|---|---|---|
| `AuthSafe` (pass: `WriteIsAtomic`, `TokenIsKept`, `OlderOnlyUnrotated`) | four launches, three expiries, two errors, one crash | Four launches race across three expiries with two failures and a crash, before an endpoint that rotates the refresh token or not: the file is never torn, no temp file is left by a launch that returns, and the token is lost, or the file set back, only through a launch that failed, died, or was answered without a new token. |

Two launches are the least that race; with four, one can read the file before, one
during and one after the refresh of another.  Three expiries let the token rotate
three times.

Refreshes are not ordered by anything but the endpoint.  Among launches that are given new
tokens that is enough: whoever is second is refused, so the token in the file is lost
only with the launch that was to write it, at the price of a failed launch.  A launch that is
answered without a new token, however, writes back the one it read, without another look at the
file.  If others have rotated the token meanwhile, the file then holds a spent one though nothing
failed, and the next refresh is refused.  The comment of `RefreshAuthFile`
(authfile.go:31) says that the file "always holds the current rotating refresh token"; this is a
disagreement of the code with it, which no run of its own demonstrates.  `TokenIsKept` and
`OlderOnlyUnrotated` name the case, and say that it is the only one.

`AuthRefreshProofs.tla` proves the three properties and the type invariant.  `RotationInv` is the
argument for the last two: of the launches that still have to write at most one was given a
new token; that one is the current one, newer than the file and than anything another launch knows, so
nobody can be granted the next one before it is written.

### SpawnTree

`SpawnTree.tla` models what happens between a spawning tool call, from the host or
from a sandbox, and the end of the run it starts: `childserver.go`, `children.go`,
`jobs_runner.go`, and what of `agent.go`, `runner.go` and `results.go` a spawn passes.

| Code | Model |
|---|---|
| a handler's arguments (`internalAgentSpec`, `childSpawn`) | `kind`, `parent`, `name`, `background`, `open` |
| `spawnContext.usedNames`, `siblingOutputs`, `bgJobID` | `used`, `siblings`, `BgJobID` |
| `ChildRegistry` | `registry` |
| `sandboxLayout`: `inputVolumes`, `workspaceHost`, `previousJobs` | `inputs`, `workspace`, `previousJobs`: whose they are |
| the job of a background call and its parent handle | `job`, `jobParent` |
| `reserveName`, `priorSiblings`, `recordSibling` | parts of `reserveName`, `buildChildLayout` or `childMounts`, `createSandbox` or `prepareSandbox` |
| `results.json` | `results` |

One step is what a goroutine does between two critical sections of `spawnContext`,
of the registry or two calls outside.  A run's `/out` is its parent's and its name,
so that two runs with equal parent and name would write one directory.

Agents are external.  They choose kinds and names, call in any number at once, and
their command returns only when the blocking calls they made have: an agent that
gave up waiting would be one whose run fails, which the model has.  Cancelling is
one step, since its walk is checked in `JobManager`; like the walk it ends at a job that was
reaped.  `Reap` may take any job that has ended, as the reaper's clock is part of `JobManager`;
`MaxReaped` bounds the number, and one is enough to cut a chain of three runs.  `CancelEscapes` has no
reaper, so that its violation is that of the handles alone.  Sandboxes and sidecars are the
subject of `SandboxLifecycle`.  Costs are one unit per run: the amounts are in
`UsageTracking`.

| Run | Instance | What it shows |
|---|---|---|
| `SpawnRun` (pass: `TypeOK`, `OutIsPrivate`, `OpenSeesNoInputs`, `SiblingMounts`, `TotalsCoverTree`, `CancelReachesLinked`, `AbandonedEnd`) | three runs in one tree, two names, every kind of run, agents in the background too, one job reaped | A root agent or research run and two more runs of any kind below it, in a chain or side by side, blocking or in the background, each failing anywhere or cancelled, and a job reaped: outputs stay apart, research sees no input, siblings see only what exists, totals cover what was waited for, a Cancel reaches what unreaped background jobs link to it, and whoever lost its caller ends. |
| `CancelEscapes` (violation: `CancelReachesSubtree`) | three agents, one name | A background agent calls a blocking agent that starts a background agent: its job has no parent handle, and the Cancel of the first leaves it running. |

Three runs are the least with a run in the middle, and the least with two siblings;
trees share nothing, so one root is enough.  A second name is the least that lets
siblings differ; which name a new child takes does not matter, so `NamesFor` offers
one unused name.  Agents alone are called in the background in `SpawnRun`: a script
has no children, and the job of a research run is that of an agent run.  The fairness is that of goroutines:
each own step of a run is taken (`OwnStep`); a command ends by itself only if it likes to,
and returns an error when its context is cancelled, as for `JobManager`.

What the code promises in words and keeps only in part:

- `CancelEscapes`: the handle of a background job passes through background runs only; and
  `JobReapedLink`, above: a Cancel does not pass a reaped job.
  `CancelReachesLinked` states what is left of the promise beside these two.
- results.go:41 says that children always finish before their parent's tool call returns.
  Background children need not, and a run that fails writes no `results.json`, which
  hides its finished children from the totals above it.  `TotalsCoverTree` is
  the sum that is always covered and the bound that is never exceeded.
- `recordSibling` comes when the sandbox exists, not when it has finished, so a sibling's
  output may be mounted while it is being written; at most one of two siblings sees the
  other (`SiblingMounts`).
- `OpenSeesNoInputs` is about what is mounted of inputs, workspaces and other runs' outputs.  What a
  caller writes into the prompt of an open child, and a run's own `/out`, in which the outputs
  of its children lie, are outside it.

`SpawnTreeProofs.tla` proves every property of `SpawnRun` but `AbandonedEnd`, for any number of
runs and names; it assumes of the constants that there is a name (`NamesAssumption`) and that
kinds are kinds (`KindsAssumption`).

Jobs, the registry and results play no part in `OutIsPrivate`, `OpenSeesNoInputs` and
`SiblingMounts`, so every
step is first reduced to what it does to the rest (`StepsAreCore`): a run begins, takes a
name, is laid out, gets a sandbox, or leaves.  `SpawnInv` is inductive over these.  What
it adds to the properties is where they come from: the name of a run that may still write
is in its parent's `used` (`NameInv`); a workspace belongs to the run that made it, and
those who share it share its inputs, which is why a shared workspace cannot carry inputs
to a research run (`InputInv`); a recorded sibling is past its own layout, so it cannot
mount whoever mounts it (`SiblingInv`).

`TypeOK` needs `Numbered`: the runs that were called are the first so many, so a caller has a
smaller number than the run it calls.  On this rests all that is said of chains: the
recursive definitions of `Ancestors`, `WaitedFor` and `JobSubtree` have a solution
(`CollectsExists`), and what a run inherits from its parent holds of all
(`RunInduction`).

`TotalsCoverTree` rests on `Finished`: who has written results has no blocking child
that still runs, and calls none any more.  Hence, once a total is written, no
run comes to be covered by it (`WriteKeepsChains`: the run that writes is at that moment
waited for by nobody who has written), and below it runs are only added (`TotalStays`).  When it
is written, it is one more than the sum over the children that wrote; the subtrees of two children
have no run in common (`SubtreesDisjoint`), and whoever the writer waited for is in
one of them (`CoveredByChildren`), so that the sum lies between the two counts
(`SumOfSubtrees` with the lemmas of `Sums`).

`CancelReachesLinked` follows from `JobsInv`: the parent of a background run's job is the
job of its caller, if that is a background run too, and a walk passes it unless it was reaped
(`LinkedSubtree`).

### SandboxLifecycle

`SandboxLifecycle.tla` models the containers: `runner.go`, `agent.go`, `create.go`
and `destroy.go`, `sidecar/runtime.go`, and the sweep in `reaper.go` and `owner.go`.

| Code | Model |
|---|---|
| `ComputeOwner`, the label `demesne.owner` | `owner`, `label` |
| `ReapOrphans`, `classifyOwner` | `List`, `Keep`, `Reap`, `ReapRemove`, `ReapKill`, `Serve`; `reaps` |
| `launchSandbox` | `Begin`, `CreateOk`, `CreateFails`, `CreateTransient`, `RemovePartial`, `Retry`, `BackoffCancelled` |
| `sidecar.Start` | `RunSidecar`, `SidecarFails`, `SidecarCut`, `Verify`, `VerifyFails` |
| the command and the deferred calls | `Command`, `Remove`, `Kill` |
| `Destroy` | `Destroy`, `DestroyRemove`, `DestroyKill` |
| `sandbox_create` returned, the caller holds the id | `pc = "held"` |

Processes live on one host: each starts with a pid nobody uses, sweeps, serves, and
may be killed at any point; a reboot kills them all.  A call makes at most one sandbox
and is its name; half-made ones are counted.  External are OpenSandbox (creation, kill,
TTL), docker and the kernel.  What is assumed of them: a pid is not handed out twice in
a clock tick; a kill removes the sandbox and, if its sidecar is still there, leaves the
sidecar behind, as `runtime.go:371` says (`runtime.go:147` says that the sidecar
goes too: for the TTL both are possible in the model); a creation or a `docker run`
that nobody waits for may still take effect.  `mishaps` records what went wrong with a
call's containers, so that each property names the failures it excuses and no others.
Failures are bounded by `MaxFaults`; cancellations and deaths are not.

| Run | Instance | What it shows |
|---|---|---|
| `SandboxLife` (pass: `InUseIsUp`, `NoPinned`, `NothingLeft`, `ReapComplete`) | three processes, two pids, two boots of two ticks, one call with two attempts, one fault | Three processes that share two pids over two boots, and a call that is retried, cancelled, torn down, destroyed or orphaned with one failure of OpenSandbox or docker: no process touches a live one's sandbox, and nothing is left behind but what the failure left. |
| `SandboxCut` (violation: `RemovedBeforeKill`) | one process, one call, no fault | A call whose context is cancelled while docker run starts its sidecar: the error path kills the sandbox though the sidecar may be up, and both its container and the network container stay, without any failure. |

Three processes are the least with one that serves, one that is dead and one that
sweeps, and two pids the least that let one be reused while another process lives.
One call is enough because calls meet only in the sweep, which treats sandboxes one by
one; the theorems hold for any number.  Deadlock checking is off: when every process is
dead and the bounds are reached nothing happens.

What the model leaves out or allows: a sidecar that crashes while its sandbox runs; and a
persistent sandbox whose id never reached the caller of `sandbox_create` counts as `held`,
since the process cannot tell it from one whose caller has the id.

`SandboxCut` is the disagreement: on the error path of `docker run` no sidecar is
removed.

`SandboxLifecycleProofs.tla` proves the properties of `SandboxLife`, their parts and
the type invariant, from the assumptions of the module.  `LifeInv` adds to them what each rests on: identities tell
processes apart, and those of live processes are of this boot (`Named`), so
`classifyOwner` neither condemns a live owner nor takes another process for a dead one
(`Sweeping`, `SweepCovers`); a call has no container before it is launched
(`Belonging`); every way to a kill leads past the removal of the sidecar or a recorded
failure (`SidecarFirst`); what is left half-made is counted (`Counting`).

### UsageTracking

`UsageTracking.tla` models what a tree of agent runs has spent on its way from the vendors'
answers to the report: the sidecar's tracker (`proxies/proxycommon`, the vendors' `usage.go` and
`pricing.go`), the end of a run (`finishAgentRun`, `results.go`, `attribution.go`)
and `usagereport.go`.

| Code | Model |
|---|---|
| a response body and its interceptor | `body`, `sse` |
| `handleLine`, `applyStart`, `applyDelta`, `applyEvent` | `handleLine` with the operators of those names |
| `Close` of the interceptors | `flush`, `closeJSON` |
| `Tracker.perModel`, its counters, `mu` | `totals`, `dropped`, `lock` |
| `Add` | `Add` as far as the line in `usage.jsonl`, then `persistLocked` |
| `usage.json`, `usage.jsonl` in the sidecar's directory | `usageJSON`, `usageLog` |
| `finishAgentRun` | `readUsageSnapshot`, `copyUsageToOut` twice, `finishAgentRun` |
| `/out` of a run | `out` |
| the children that `writeResults` reads | `found`, set when the copying ends and again at the end |
| `buildUsageReport` and the functions it calls | `UsageReport`, an operator on a state |

The lock is held between the two writes of `Add`, which is where a copy of the host
can come; a drop is one step, since it writes one file.  The host does not take the
lock and the sidecar is up until `runAgent` returns, so every step of the proxy
may fall between two of the host's.  Any write may fail and is then remembered in `failed`: both sides log
and go on, so a property about files excuses the file that failed and no other.  For
`attribution.jsonl` this includes a transcript that cannot be walked or read to its end
(`attribution.go:79`, `172`) and a file that cannot be created or written (`107`, `114`): any of
the entries are lost.

Children may finish after their parent, as background children do.  `writeResults` reads the
children twice, one directory after the other: first for their names and totals
(`results.go:47`), then for their tokens (`48`).  A results.json appears once and stays, so what
the first reading finds, the second finds too, and both find what was there before they began.
The model says this and no more: the first reading finds `names`, the second `counted`, with
`found[r] \subseteq names \subseteq counted`, where `found[r]` is what was there when the copying
ended.  This stands for every interleaving of the two loops with children that end.  So
results.json may have the tokens of a child whose cost it lacks, and `ReportCoversResults`
claims equal tokens only where the readings agree.  The comment at `results.go:41` ("Children always
finish before their parent's tool call returns") is not true of background children.

Of the entries of a message that have a stop reason, the one with the most output tokens gives
its name, and of two with as many the first (`attribution.go:168`).  An answer of a single token
therefore may stay unnamed, and `NamedSpendIsTheirs` claims all of a subagent's spend but that.

A report is read in one step, from any state.

Costs are exact integers: cents per million tokens, so floating point is not modelled.  Prices
are those of the catalogues; a model id stands for every id that begins with it.

| Run | Instance | What it shows |
|---|---|---|
| `UsageRun` (pass: `TypeOK`, `CountedOnce`, `WholeIsExact`, `FilesAgree`, `ReportCoversResults`, `ReportBalances`, `NamedSpendIsTheirs`, `SpendNeverFalls`) | a run on OpenAI and a child on Anthropic, two responses out of five kinds, one failed write | A Codex run and its Claude child, two responses as streams or documents that overlap and are cut anywhere, the host copying meanwhile, one failed write, attribution.jsonl's included, and a child that may end between the two readings of its parent: nothing is counted twice, the files agree, and the report is never below the cost of results.json nor out of balance. |

Two runs are the least with a tree, and one of each vendor the least that
mixes catalogues and attribution with its absence.  Two responses overlap within one
tracker or across two.  The five answers are two streams of a subagent, one of them without a model and of a single token, and
a document without usage, for Anthropic; a stream, and a document without a model, for
OpenAI.  One failed write is the least that puts two files at odds.  Nothing is fair and nothing has to
end: the properties are about what is true at each moment.  Deadlock checking is off since the
system rests when its runs and responses are over.

The interceptor of a document is closed once here, as the proxy does; a second `Close` is not modelled.

What the model allows and no property denies: a count_tokens answer is a drop, as it
has no usage block; an answer recorded after the copies is in no report; a document whose body is empty
counts as nothing; of several usage blocks before `response.completed` the first counts if
the stream is cut.

`UsageTrackingProofs` proves every property of `UsageRun` for any tree of runs, any
vendors, any number of responses and any writes that fail.  The theorems assume what
the module assumes of its constants: that children come after their parents, and
what `AnswersAssumption` says of the vendors (a stream ends in a usage block of at least one output
token, OpenAI counts cached tokens among its input, no subagent is called
`(main)` or `(unnamed)`).  The argument has layers, each an invariant that uses the
one before:

- `Base`: a stream that has seen usage holds what its vendor has said so far, and
  its counts could be those of one request, so that prices are never negative.
- `LogInv` and `DropInv`: a line is of a recorded response, exact when the response came to
  its end, and no response has two lines, or a line and a drop.  `CountedOnce` and
  `WholeIsExact` follow.
- `SpendInv`, `SnapshotInv`, `LogSumInv`: usage.json is never ahead of the tracker, is its
  snapshot when the lock is free, and the log adds up to the totals from the moment that its line
  is appended.  These, with the fact that more tokens never cost less, give `SpendNeverFalls`.
- `CopyInv`, `NamedInv`: what usage.json had when it was copied is in the log that is
  copied after it, and stays so while the proxy goes on; the names of a finished run are
  those of its requests, and all of them unless some were lost.  `FilesAgree` and `NamedSpendIsTheirs` follow.
- `OwnInv`, `ResultsInv`: a results.json is what its own copies and its children's
  results said when it was written, and nothing of these changes later.
- `TreeSum`: a bound, or an equation, that holds of each run by its own numbers and its
  children's holds of all the runs below it.  This is an induction over the tree, carried out on the set of runs
  for which it fails: its greatest member would have children for which it holds.
  `ReportCoversResults` applies it; `ReportBalances` regroups sums (`Sums.tla`).

`Sums.tla` has what these need of sums over finite sets, which the library defines by
recursion and says nothing about: adding and removing a member, splitting a set, renaming, exchanging
two sums.

The proof found a fault of an earlier form of the model: two cases of `Events` overlapped, of
which TLC silently took the first.

### Upstreams and Gateway

`Upstreams.tla` holds the rules, as operators without state: which servers the host's
configs define (`discovery.go`), which tools the built-in list and the user's file
allow (`allowlist.go`, `defaults.go`), which servers `NewAggregator` keeps.  `Gateway.tla` is the
machine around them: it starts the aggregator, lets runs come and go, and follows each
tool call from the agent's port to the upstream and back.

| Code | Model |
|---|---|
| `~/.claude.json`, Codex's `config.toml`, the override file | `config`, each file missing, bad or a map |
| `NewAggregator` with discovery, seeding and the allowlist | `NewAggregator` |
| `Start`: one upstream; demesne's server and the socket | `registerUpstream`; `Start` |
| `SetMCPWiring` in `main` | `SetMCPWiring`; no run exists before it |
| `buildMCPWiring` | `Binding` (the tunnel's side), `AgentServer` (what the agent is told) |
| `handlerFor` of the tunnel | `parentHeader`; `sent` is the header of the agent's own request |
| `Registry.Register`, `Deregister` | `run` |
| `plainToolHandler`, `fileGenHandler` | `CallTool`, `UpstreamAnswers`, `Deliver`, `DeliverNext`, `copyFile`, `Answer` |
| `ExtractHostPaths`, `RewriteResult` of the adapters | operators of those names on a list of *mentions* of paths |
| `strings.ReplaceAll` over the mapping, in random order | `ReplacedIn`: the set of what it may leave |
| `filepath.Clean`; `filepath.Rel` in `alreadyUnder` | `Clean`; `alreadyUnder` |
| files in `<workspace>/generated` | `files`, each with the source it was copied from |

A file-generating call looks its run up twice, before the upstream is called and before
files are delivered, and the run may end in between.  `copyFile` truncates, then writes:
two calls that copy to one name at once may leave the content of either or a mixture.

A path is a directory, a subdirectory of it perhaps, a base name and a spelling: `Clean` drops
the spelling and nothing else.  `Deliver` keys its map by clean paths, while the rewriting looks for
those in the text as the upstream wrote it; so a path that is spelled loosely, or that has the
path of another source in it (`Within`), may stay as it is or be spoiled, and `RewriteResult` is the
set of the answers that the random order of a Go map permits.  `AnswersAreTrue` leaves both
open and denies that an answer ever names a file for another.  What `alreadyUnder` accepts from a
subdirectory is mapped to the base name in the directory itself (`filedelivery.go:60`), where no file
need be: the instance has mermaid write there, and the property leaves such diagrams out.  A
call remembers in `past` the calls that were over when it began, for the properties only: these
cannot be the excuse for a file that is not what the answer says.

Upstreams are external.  They may fail to list their tools or any of the rest, may
answer or fail, and report what the instance lists; the mermaid server writes in the directory it
is told, or below it.

| Run | Instance | What it shows |
|---|---|---|
| `GatewayRun` (pass: `TypeOK`, `LaunchesAsConfigured`, `OnlyAllowed`, `OfferedIsServed`, `ActsForCaller`, `AnswersAreTrue`) | two runs that share a workspace or do not, four Claude configs, four Codex configs, seven override files, two calls, a clean and a loose spelling, one directory below another | From any of 24 sets of host configs, with any upstream failing to list or to answer: what is exposed is what the files configure and allow, a run is told of just that, its calls act for itself whatever it claims to be, and the files its calls generate are where the answers say. |

The configs contain an entry of each kind that a rule tells apart: no slug, demesne itself, HTTP
with and without a command, no type, a name in both files usable in one or in both; the
override files each value that `parseOverrideEntry` distinguishes.  Every pair of the four
Claude and the four Codex files starts with one override file, every one of the seven override files
with one pair, for discovery reads no override and the allowlist no config; two more sets
expose the servers that generate files.  The runs are symmetric: no definition tells one from
the other, and every workspace has its mirror image.  Two
calls are the least that clash; two runs the least that could get each
other's files, in one workspace (a child agent) or in two (a research child).  One
time stamp makes every pair of diagrams contemporary.  The default list is that of the file
generators only, as no rule depends on which names it holds.  Nothing is fair: all
the properties are invariants, and an upstream may never answer.

What the model allows and no property denies: across calls, a copied file replaces the file of the
same name that an earlier answer points to, for `used` begins empty in each call
(`AnswersAreTrue` excuses what a later call does); the override file cannot disable demesne's own
server; and one malformed config turns every server off.  On the last the comment of
`DiscoverClaudeUpstreams` disagrees: "Missing or malformed files return an empty slice with
nil error" (`discovery.go:85-86`), where the code returns the error.  `ConfiguredAreSpecs` therefore speaks of
aggregators that have not given up.

On disabled servers `docs/how-to/edit-host-mcp-allowlist.md` contradicts itself: line 30 says that
`[]` disables a server, line 61 that its resources and prompts are still exposed.  The code does the
former: `keep` drops a server whose entry allows no tool before it is launched, the file
generators of the built-in list too, and `OnlyAllowed` says so.

`GatewayProofs` proves every property of `GatewayRun` for any configs, listings, reports,
workspaces, runs and number of calls.  It assumes what the module says of its constants:
a config file is missing, bad or a map (`ConfigsAssumption`); names have an order
(`AlphabetAssumption` of `Upstreams`); the keys that the override file reserves are no names of
servers (`MetadataAssumption`); every run has a workspace and no run the id of nobody
(`WorkspacesAssumption`); a server that picks its own directory does not pick a workspace
and does not name files as mermaid does (`ReportsAssumption`: `Deliver` would take a source that is
in the directory already without asking `used` whether its name is free).  The argument is in layers:

- `AggInv`: what the aggregator holds at each point of its start follows from the
  files.  `Sorted` lists each name of a set once (`SortedIs`), so the wiring by
  position meets: `LaunchesAsConfigured`, `OfferedIsServed`.
- `Shape`, `Called`: a call is of a registered run, has the parent that the tunnel
  wrote, and reached a server that was mounted with that tool.  `OnlyAllowed` follows.
- `Sourced`, `Paths`, `Named`: what a call read is what its server reported; a mapped path is a
  source; no two sources of a call share a base, because `uniqueBase` among one more
  candidate than there are names in use finds a free one (`UniqueBaseIs`); and a diagram's sequence
  number is below the counter, so no two diagrams share a name.
- `PastOK`: a call that is over takes no step, so what a later one places it keeps from it.
- `Owned`, `Bases`, `Stored`: a file's base was placed by a call of that workspace, and as long as one call
  alone placed it, its content is that call's.  `ActsForCaller` and
  `AnswersAreTrue` follow; `Runnable` and `Counted` complete `TypeOK`.

The proof corrected `DiagramsKept`: it spoke of every call of the mermaid server, and holds of
those whose tool draws a diagram; a plain tool of that server is given no name.

## What is proved

Every safety property of every passing run is a theorem, for all values of the constants
that the modules' named assumptions allow:

| Module | Proofs | Properties of its runs | Left to TLC |
|---|---|---|---|
| `JobManager` | `JobManagerProofs` | `CancelCoversSubtree`, `ChildrenBeforeParent`, `EndingsAreComplete`, `RepliesAdvance`, `LifecycleSafety` | `CallsReturn`, `LifecycleFair` |
| `ClientPool` | `ClientPoolProofs` | `NoLeak`, `PooledIsTended`, `EvictsItsOwn` | `IdleIsClosed`, `CallsEnd` |
| `AuthRefresh` | `AuthRefreshProofs` | `WriteIsAtomic`, `TokenIsKept`, `OlderOnlyUnrotated` | |
| `SandboxLifecycle` | `SandboxLifecycleProofs` | `InUseIsUp`, `NoPinned`, `NothingLeft`, `ReapComplete` | |
| `SpawnTree` | `SpawnTreeProofs` | `TypeOK`, `OutIsPrivate`, `OpenSeesNoInputs`, `SiblingMounts`, `TotalsCoverTree`, `CancelReachesLinked` | `AbandonedEnd` |
| `UsageTracking` | `UsageTrackingProofs` | all | |
| `Upstreams`, `Gateway` | `GatewayProofs` | all | |

The sections above give each argument.  Proofs by induction over a tree, a set or the recursion of a
definition are carried out on sets, since the provers cannot instantiate the library's
induction theorems, which take the statement as an operator: the set of the counterexamples
has a least element (`LeastElement` and `SubsetInduction` in `Sums.tla`), and that is refuted.  `Sums.tla` applies
this to sums over finite sets (`UsageTrackingProofs`, `SpawnTreeProofs`), which the library
defines and says nothing about.

The runs check the properties a reader would ask for.  Some theorems are about parts of them or
about what the others imply, and no run repeats these: the type invariants of `JobManager`,
`ClientPool`, `AuthRefresh` and `SandboxLifecycle`; `NotifiedOnce` and `TerminalStable`, which
`LifecycleSafety` contains (it lets `told` of a job change once, from empty to the one
status the job ended in); `CancelEndsTarget`, part of `CancelCoversSubtree`; and the parts of
the conjunctions `EndingsAreComplete`, `PooledIsTended`, `WriteIsAtomic` and `NothingLeft`.

## What is only model-checked

Liveness: `CallsReturn` and `LifecycleFair` (that `FairSpec` of `JobManager` implements the
fairness of `JobLifecycle`), `IdleIsClosed`, `CallsEnd` and `AbandonedEnd`.  They need fairness and
ENABLED, which TLAPS does not handle here.  What they say is known for the instances
of their runs and no others.

The four violations are counterexamples, which TLC finds and nothing has to prove.

## What is not modelled

`PROJECT.json` gives the reason for each component.  In short:

- I/O wrappers: building images, uploads and downloads, the `docker` command line.
- Text: how agents' command lines, tool descriptions, reports and prompts read; the JSON
  that surrounds what a file-gen adapter rewrites; TOML and JSON syntax.
- Checks of single requests that keep no state: the vendors' endpoint lists and tokens, the
  Go module proxy, egress rules.
- Data: the host names of the egress policy; the prices and default tools that no rule
  tells apart from those in the model.
