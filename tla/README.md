# A verification project for stackr

stackr is a panel that runs tenants' tiles (services, managed databases, cron
and function tiles) as Docker containers on a cluster of nodes. A person edits
tiles in the panel, by API, or as files; every change that touches containers
becomes a **job** in one durable queue; the job's handler talks to the Docker
daemons of the controller and of the workers.

This directory holds TLA+ models of the parts where that can go wrong in ways a
test hardly reaches, the TLC runs that check them on small instances, and TLAPS
proofs of what holds for every instance. All paths below are relative to the
repository, and `svc/` stands for `src/internal/service/`.

Running it, inside this directory:

    tlc -workers 2 -config MCJobQueue_races.cfg MCJobQueue    # any pair below
    tlapm JobQueueProofs.tla                                  # any *Proofs module

## 1. Inventory

| component | state it keeps | operations | what makes it correct |
|---|---|---|---|
| **Job queue** `svc/internal/flow/jobs`, `leaf/job`, `store/jobs.go` | `jobs` rows (kind, lock set, state, started_at); in memory the map of running jobs with context, swap, superseded and idle marks | enqueue (superseding), the scheduling pass, swap, idle, cap, park and unpark, stop, skip, close, boot | jobs on one tile exclude each other and start in order; a stop holds; a finished row is final; nothing starves; nothing is resumed blindly after a crash |
| **Applies** `svc/redeploys.go`, `tile.go` | redeploys noted by an org-apply or server-apply | queue them, wait idle, judge | done means the deploys did not fail; the wait ends |
| **Dump seeding** `svc/seed.go` | files spooled on disk | spool, run, drop, boot sweep | no dump outlives its job |
| **Panel upgrade** `svc/admin.go`, `upgraderollback.go`, `flow/upgrade` | the hold, the helper container, the job row | upgrade, hold, boot under a hold, rollback | one at a time; the queue is quiet while the panel is swapped |
| **Tile rollout** `svc/internal/flow/deploy`, `leaf/tile/world.go`, `docker/` | containers and their labels; the rollout's locals | start, gate, route, remove; create, stop, launch, revive | a tile without mounts never stops serving; one with mounts has one writer; a refused spec leaves it as it was |
| **Tile verbs** `svc/internal/flow/container` | none | start, stop, restart every replica | the VIP catches up |
| **VIPs** `svc/vipboot.go`, `internal/vip` | iptables rules per node | route (under `vipLock`), minute rebuild | a rebuild never undoes a rollout |
| **Environment move** `svc/internal/flow/move`, `svc/move.go` | `env_moves` rows, `environments.node_id`, volumes and containers on two nodes | begin, phases, rollback, resume | one unfinished move at a time; no tile runs without its data or on two nodes; an ended move leaves the env whole; the env is not left stopped |
| **Placement move** `svc/placementmove.go` | `placement_moves` rows over env moves | start, settle, abandon | settles once all its env moves ended |
| **Releases and promotion** `flow/promote`, `svc/release.go` | releases, pins | build, promote, sync | what runs is what is pinned |
| **Org and server config files** `svc/orgconfig.go`, `serverconfig*.go` | plans and their approvals | plan, approve, apply | what is applied is what was approved |
| **Runs and schedules** `svc/run.go`, `flow/run`, `leaf/run`, `flow/schedule` | run rows beside job rows, a run's container | trigger (check, insert, enqueue, link), begin, wait, finish, stop, prune, boot | queued runs never overlap; a closed run stays closed; no open row is left to nobody; a stop reaches the container |
| **Managed engines** `flow/managed` | slices in the engines | provision, rotate, drop | a retry over a half-made slice converges |
| **Backups** `flow/backup`, `svc/backup.go` | backup rows, archives | take, restore, prune | a listed archive is whole |
| **Image watch, registry** `flow/imagewatch`, `svc/registry*.go` | digests, tags | watch, sweep | nothing in use is swept |
| **Cluster CA** `svc/carollover.go`, `controllercert.go`, `nodeclients.go`, `recover.go`, `internal/clusterca`, `internal/worker/cert.go` | CA files, `cluster_ca` row, the controller's pair and its previous one, trust and allow lists, leaf certs | rotate, renew, revoke, settle, drop, reconcile, recover, boot | files, row and memory agree before a rollover is acted on; no node is locked out; the rollover ends |
| **Mesh** `svc/mesh.go`, `rotate.go`, `internal/worker/{mesh,rotate}.go` | WireGuard keys and peers | sync, rotate, revert | controller and workers agree on a key or revert |
| **Exit ladder** `internal/exits` | the rung, probes, rules | probe, fail over, recover | the best answering exit is used |
| **Workers** `internal/worker`, `svc/workerupgrade.go`, `join.go`, `noderemove.go` | the worker's files and services, node rows | join, upgrade, remove, forget | a node is in or out, never half |
| **Master key** `svc/masterkey.go` | encrypted columns | rotate | every row opens with some kept key |
| **DNS, ACME, domains, proxy** | provider records, routes | sync, render | records follow ingress |
| **Alerts and problems** | open alerts, hold-downs | raise, hold, resolve | one alert per problem, and it resolves |
| **Host grants and node gates** `svc/hostgrant.go`, `nodegate.go` | grants, waiting jobs | ask, approve, requeue | an approval releases the jobs that asked |
| **Params, users, authz, metrics, logs, graph, web, API, CLI, installer** | rows, streams, screens | edits of single rows, presentation, scripts | mostly one request, one row |

How they interact. The orchestrator (`svc/*.go`) writes rows and enqueues jobs.
The queue's lock sets are the only mutual exclusion between flows: a tile's
deploy, verbs, env move, seed and run all hold that tile's key, an upgrade and a
key rotation hold `*`. Three things run beside the queue and share its state:
the minute tick (VIP rebuild, reconciliation), request handlers (stop,
approval) and containers themselves (restart policy). The panel may be killed at
any moment, an upgrade does it on purpose; what survives is the SQLite database,
the data directory, and whatever the Docker daemons were told last.

The hard behaviours are therefore: stop, supersede and shutdown arriving between
a handler's decision and its effect; lists read outside the lock and acted on
later; Docker calls whose effect happened and whose answer did not; a crash
between two calls that only together make sense; and jobs waiting for jobs.
`PROJECT.json` lists each at its line, under `hazards`.

## 2. Modules

| module | models | code it stands for |
|---|---|---|
| `JobQueue` | the Runner, `leaf/job`, applies that wait, seed dumps, the upgrade's hold | `jobs.go`, `job.go`, parts of `redeploys.go`, `seed.go`, `admin.go`, `upgraderollback.go`, `hostgrant.go` |
| `JobContract` | what the queue promises, with no database, workers or contexts | abstract |
| `Rollout` | one tile's containers, its VIP, the rollout, the verbs, the minute rebuild | `deploy.go`, `world.go`, `containers.go`, `health.go`, `vipboot.go`, `container.go` |
| `EnvMove` | one env's moves between nodes, with its volumes' content | `flow/move/move.go`, `svc/move.go` |
| `TileRuns` | the runs of one cron or function tile: row, job, body, container, stop | `svc/run.go`, `flow/run/run.go`, `leaf/run/run.go`, `RunOnce` of `world.go` |
| `CARollover` | the cluster root's rollover and the controller's certificate | `carollover.go`, `controllercert.go`, `nodeclients.go`, `recover.go`, `certrenew.go`, `clusterca.go`, `worker/cert.go`, `worker/recover.go` |
| `MeshRotate` | the mesh keys of the controller and the workers | `mesh.go`, `rotate.go`, `multinode.go`, `worker/rotate.go`, `worker/mesh.go`, `worker/extras.go` |
| `ExitLadder` | one subject's way out, over a list of exits | `exits/ladder.go`, `exits/plan.go` |
| `JobContractProofs` | the queue implements `JobContract`; its two action properties | |
| `JobQueueProofs`, `RolloutProofs`, `EnvMoveProofs`, `TileRunsProofs`, `CARolloverProofs`, `MeshRotateProofs`, `ExitLadderProofs` | theorems about the module they are named after | |
| `MC*` | instances for TLC | |

**How they compose.** `Rollout`, `EnvMove` and `TileRuns` have at most one job of
the tile or env under way: that is what `JobQueue`'s `MutualExclusion` gives
them, for any lock sets (theorem `LocksExclude`). Their `PanelDies` is
`JobQueue`'s crash seen from a handler: boot fails the job's row and nobody
resumes it (`Rollout`), or the flow's own row makes boot queue a new job
(`EnvMove`) or close the row (`TileRuns`). Their `ContextDies` and `PressStop`
are the causes `JobQueue` keeps in `ctx`. `EnvMove`'s `Start` and `Deploy` stand
for whole redeploys, whose inside is `Rollout`. `CARollover` and `MeshRotate`
are the two sides of a worker's recovery call: the first says whether the worker
can take the panel's answer, the second what the answer tells it.

### JobQueue

One variable per column or field: `kind`, `lock`, `state`, `started` are the
table; `running`, `parent`, `ctx`, `swapping`, `superseded`, `idle` are
`Runner.running` and `active`; `outcome` is what `call` returned and `run` has
not written. A row's id is its age. `pressed`, `replaced`, `awaits` and `seen`
are history (the last two are also the apply's locals).

Every step under `Runner.mu` is one action (`Pass`, `Enqueue`, `Cancel`, `Swap`,
`Record`, ...). Where the code lets go of the mutex there are two: `Return`
then `Record`, `UnparkList` then `UnparkOne`, `BeginWait`, `AwaitRead`,
`AwaitEnds`. `Pass(n)` starts everything the loop starts, and a failing write
ends it after the older jobs. A failing write may also hit `Enqueue`'s
superseding, `Skip`'s second write and `Record`. The panel stops by `Close`, by
`Crash`, or by a crash inside a two-step write (`CrashInFinish`,
`CrashInSpool`), and comes back by `Boot`, `BootFail`, `BootDone`.

Abstractions: a handler is any sequence of `Swap`, `EnqueueChild` and idling
that ends in one of `Results`; handlers of applies are restricted to what
`redeploys.go` does, and an upgrade's never parks, as `admin.go` returns no parking
error. What a job is waiting for is not modelled: unpark may
requeue or pass over any waiting row. `Upgrade`'s check may find its read failing and then lets
the upgrade through beside another (`blind` is the history of those). Job logs, the
follow stream, and the retention of old rows are left out.

### Rollout

`cont[c]` is Docker's state of container `c`, numbered by age; `pc` is the call
the tile's job makes next; `old`, `oldUp`, `new`, `cur`, `stopped`, `todo` are
the locals of `rollout` and `stopFirst`. A Docker call has three outcomes: heard
(`Done`), failed without effect (`NotDone`), and effective with its answer lost
(`DoneUnheard`). The last two cost a unit of `MaxFaults`, or come from the job's
dead context. Clean-up calls run on a context that outlives the job's (`Drop`,
`ReviveStart`). The gate's verdict is free when the replica runs and has never
restarted. `TickRead` and `TickSet` are the minute rebuild under `vipLock`.
`doubled` is history: a start or restart verb found two containers with the tile's
mounts, and no rollout succeeded since.

Left out: the prepare stage before the swap (resolve, pull, file mounts), the
managed engine's own ready wait, host-network tiles (they have no VIP), the
pause container, `Teardown`, the proxy config that `route` writes after the VIP,
and the LAN rules a replica gets before its gate. The list and the inspect that
`Route` makes one after the other are one step.

### EnvMove

`phase[i]` is row `i`, or where its request is: the code reads the env, lists its
moves and inserts a row in three calls with nothing around them (`Ask`, `Check`,
`Create`), then queues the row's job (`QueueJob`, `Enqueue`), which supersedes the
jobs whose locks it covers. `raced` is history: a row was inserted beside an
unfinished one, or with a source the env had left. `mem` is the phase in the job's
memory; it differs from the row's exactly where the code sets `m.Phase` before it
writes. `vol[n][t]` is the set of writes in a tile's volume on a node, `torn` the
volumes with a broken-off or inconsistent copy.

Each forward call may fail, free of charge. Failing calls of a rollback, of a job's
start (`StartJob`: the controller's row, the move's row, the rsync ports) and of
boot's resume (`PanelDies`, `Resume`: it stops at the first error, which boot only
logs) are `faults`; panel deaths inside a rollback are counted by `cuts` as well as
by `crashes`. Each property names what it leaves out (`Calm` for `RunsOnItsData` and
`OneNode`), and section 5 shows what the excluded events do.

Left out: the firewall openings' undo, audit rows, relinking of shared networks,
the placement's bookkeeping, tiles without containers, tiles the user stopped
before the move. Both callers begin live moves (`placementmove.go:676` and `:1103`
pass `Live: true`), so the run has only those; the cold variant, which the flow
also has, is in the model and covered by the theorems.

### TileRuns

Three parties touch a run's row, each call a step: the caller that queues it
(`Trigger`, `ReadActive`, `ReadJob`, `Insert`, `Refuse`, `Enqueue`, `Link`), the
body of its job (`BodyGet` ... `BodyCloses`, `JobEnds`) and `StopRun` (`StopRead`,
`StopJob`, `StopClose`). `busy` is two reads, the open run and then its job, so a
second trigger acts on what is no longer so. A deploy that runs a function first
has no job (`Inliners`): its body runs inside the deploy. The queue is reduced to
what `JobQueue` proves of it: jobs of one tile exclude each other (`TileFree`), a
stop holds, boot fails what ran. `PanelDies` includes the boot after it.

Left out: the schedule expressions and the cron table (a tick is a caller that may
come at any time), the run's log, the image build's inside.

### CARollover

Roots and the controller's serials are numbers in the order they are made. The
data directory is one variable per file, and every rename of `RotateCA`,
`SaveCA`, `keepPrev` and `save` is a step, so that the panel dies between any two.
A pair of files is torn when its key and its cert have different numbers.
`roll.step` is where a rollover is under `rolloverMu`, `ren.step` where a renewal
of the controller's certificate is under `rollMu`; `Locked` are the rollover's
steps that hold `rollMu` too. `reconcileRollover` runs at the head of the tick, of
`RotateRoot` and of `FinishRollover`, and is part of those actions (`Reconcile`).
A worker takes a mesh push (`PushMesh`) over mutual TLS, or a recovery answer
(`RecoverNode`) that its trust and allow lists accept (`Answers`).

Abstractions: a certificate is its root and its serial; nothing runs out, a
renewal for age comes whenever `MaxRenewals` lets it. `rolloverSettle` is
`Settle`: a worker that is there asks every hour and has its cert by then, one
that is away does not. `missed` counts the steps of the controller's certificate
a worker was not told of. `cut` is history: what replaced or orphaned the
controller's certificate outside the announced switch (a boot, an admin's finish, a
torn save).

Left out: break glass (`breakglass.go`), which throws all trust away on purpose and
has every worker rejoin; joins and removals of nodes.

### MeshRotate

The key a rotation makes is named after the rotation; key 0 is the one a node
joined with. The panel's side is `sync` (who holds `syncMu`, the plan, the nodes
still to push) and `rot` (who holds `rotation.mu`); the worker's is `task`, one
per rotation it was asked for, and `req`, a recovery call step by step on both
ends. A push is taken if the tunnel carries it (`Reaches`); a recovery call goes
over the public URL. `StageKeys`, `TakeStaged`, the pushes, `PromoteKeys`,
`PromoteTorn` and `Rollback` are the controller's rotation.

Abstractions: a spec is the controller's key and the workers' keys; addresses,
routes and openings are left out. The exit key follows the mesh key but for
`PromoteTorn`, where only one of the two files was renamed. A worker restart
replays what it saved. A revert whose write fails leaves the new key in the file
(`RevertFails`). Rotations of all nodes are rotations one after the other.

### ExitLadder

`Tick` ping by ping: exits start and stop answering between any two pings
(`Weather`). `good` and `bad` are the streaks, capped at the thresholds, which is
all the code compares them with. `route` is what the kernel does with the
subject's traffic. `ApplyClear` and `ApplyAdd` are separate because the commands
are: between them the traffic leaves by the own uplink. `Fresh` is the mesh's
rebuild of the ladder with a changed list. `Own` are the rungs that are the node's
own uplink.

## 3. Runs

Deadlock checking is off for `JobQueue`, `EnvMove`, `TileRuns` and `CARollover`:
with the rows used up, every move ended or every cert in place these systems
really have nothing to do. It is on for the others, where a tick always can step.

| run | instance | properties |
|---|---|---|
| `queue_races` | promotes of `{a}` and `{a,b}` and a seed of `{a}`, 1 or 2 workers, 2 rows, 1 failing write, 2 boots | `SupersededNeverSwaps` `StoppedStaysStopped` `RunningRows` `OrphanRows` `DumpReleased` `FirstStartsInOrder` `TerminalIsFinal` `ImplementsContract` |
| `queue_apply` | org-applies of `{b}` with a deploy of `{a}`, upgrades of `*` whose check may fail to read, 1 worker, 3 rows, 1 boot | `MutualExclusion` `ApplyOverFailed` `UpgradeIsAlone` `StartsWithinWorkers` |
| `queue_live` | the same, fair, panel up, no stop pressed | `QueuedIsServed` `WaitEnds` |
| `rollout_serve` | overlap, 2 replicas, restart and start verbs, 4 containers, 1 fault, 1 panel death | `OverlapServes` `CleanAfterSuccess` |
| `rollout_data` | stop first, all three verbs, 2 containers, 1 fault, 1 panel death, 1 container death, fair | `OneWriter` `RefusalRestores` `VIPCatchesUp` |
| `env_move` | 2 nodes, 2 tiles, 2 requests for live moves, 1 write, any 3 of faults, panel deaths, stops, deploys and container deaths | `TypeOK` `RunsOnItsData` `OneNode` `NotLeftDown` `EndsWhole` |
| `tile_runs` | 2 triggers, 1 inlining deploy, 2 rows of which 1 is kept, 1 each of stop, fault, panel death | `TypeOK` `NotBlocked` `OneRunAtATime` `StopReaches` `ClosedIsFinal` |
| `ca_rollover` | 1 worker, 2 roots, 1 each of renewal, panel death, fault, lost answer and absence, fair | `TypeOK` `ActsOnTruth` `HeldIsTrusted` `KeptInReach` `RolloverEnds` |
| `exit_ladder` | 3 rungs, the last the own uplink, fail after 3, recover after 2, 2 faults, 1 rebuild, fair | `RulesMatch` `HoleWhenNoneAnswers` `TakesBack` |
| `mesh_rotate` | 1 worker and the controller, 1 rotation of either, 2 faults, 2 deaths, fair | `TypeOK` `RecordedIsHeld` `KeysAgree` |
| `ca_restart`, `exit_retry` | section 5 | one each, refuted |

What they show:

- **The queue.** Rows, handlers and dumps stay together through every
  interleaving of enqueue, supersede, stop, swap, park, requeue and cap with a
  failing write and two crashes; the queue refines `JobContract`; an apply, its
  redeploy and an upgrade neither share a tile nor exceed the workers; upgrades are
  one at a time unless the check's read failed; nothing queued starves and no apply
  waits for ever.
- **A tile.** A rollout over what an earlier one left keeps serving and cleans up;
  with Docker answering, no container dying and no start or restart verb over a
  crash's leftover there is one writer on its data; a refused replica restores the
  old one, and the VIP of an idle tile converges.
- **An environment.** As long as no two requests raced past each other's check, a
  move that ends leaves the env whole on its node, whatever failed, died or was
  deployed. An env no job works on is up, unless a stop was pressed or a call of a
  rollback, a job's start or boot's resume failed. No tile runs without its data or
  on two nodes as long as, besides, the panel did not die inside a rollback, no
  container died and nobody deployed a tile of the env; failing forward calls, stops
  and other deaths of the panel are all allowed.
- **Runs.** Two triggers that both found the tile idle never overlap, a late link
  or clean-up does not reopen a closed run, every open row has somebody who closes
  it, and a stop that saw the job reaches the container.
- **The cluster root.** The panel never advances or finishes a rollover on a state
  of files, row and memory that do not agree; dropping the old root leaves
  every worker's certificate trusted but for the workers an admin's finish gave up,
  and those whose renewal answer was lost and who were away for the settle time or
  had not asked again at that finish; a worker at most one step behind can take the
  recovery answer until a boot has to issue another certificate, an admin finishes
  before the controller switched to the new root, or a save of its pair is torn; the
  rollover ends.
- **The mesh.** A rotation that is lost, fails or dies half way ends with
  everybody on everybody's key, and the syncs never name a controller key that is
  not on its disk.
- **The exits.** The traffic is dropped only when no exit answered its last ping,
  the rules are those of the reported state, and an exit that answers for good is
  used or a better one is.

**Why these bounds.** Two queue rows are a victim and a superseder, or a dump's
job and an overlapping one; three are an apply, its child and an upgrade. Two
boots let a row cut off once be cut off again while boot repairs it. Four
containers of two replicas are two complete generations, so that the second
rollout lists what the first one left. Two requests are a race, a
move back or a move after a failed one; two tiles a loop that breaks half way; three
troubles are, for one, a failed resume after a death inside a rollback after a stop.
States past a race are checked but not expanded (`CONSTRAINT NotRaced`): no property
but the type invariant speaks of them. `rollout_data` has the mode of tiles with
mounts only, `rollout_serve` the other; both modes together were explored once with
two verbs (4.1 million states), which is too long for a run. Two run rows are the two
sides of every race about one tile, and `Keep = 1` makes the prune happen. Two roots are
one rollover; a second one starts only after the first ended (`Rolling`), from the
initial state with other numbers. With one worker every order of its renewal, its
push and the rollover's steps happens; workers do not interact but through the
count of stragglers, and `ca_restart` has two. Two faults let a rotation's push
and the rollback's fail both. One rotation means that `mesh_rotate` does not exercise
a second one begun while the first's revert is pending (a rotation waits 3 minutes,
the revert comes after 5); two rotations were explored without faults (106 thousand
states, `KeysAgree` holds) and with one fault for the safety properties only (1.05
million states). Three rungs have one above, one below and one live.
Symmetry is declared in `tile_runs` only, over the callers: the other sets have
elements with different roles, or the run checks liveness.

**Fairness.** `JobQueue`: the loop's `select` picks a ready wake or tick at random
and passes every 3 s, so a job startable again and again is started (SF per job); a
handler returns, because its context dies at the cap; `run` writes what `call`
returned; `await` polls; the hold ends after at most 15 minutes. `LiveSpec`
restricts the run to a panel that stays up and to no stop being pressed, either of
which only ends jobs. `Rollout`: the minute ticker and Docker's restart policy.
`CARollover`: the daily tick, the goroutines that hold the locks, the panel's
restart (systemd or Docker start it again), the workers' hourly asks and their
coming back. `ExitLadder`: the loop ticks and a ping has a deadline (WF on the whole
pass). `MeshRotate`: the sync ticker, the steps of whoever holds a lock, the
worker's tasks and its recovery loop; SF on what waits for `syncMu`, because a Go
mutex in starvation mode hands itself to its waiters in turn. No fairness is put on
people, on failures, on weather, or on jobs.

**Mutants.** For each property of a passing run `PROJECT.json` names a mutant: an
operator beside the definition it replaces, marked `Mutant:`, that changes it as a
plausible slip in the code would. Under the mutant TLC finds the property violated.

## 4. Theorems

Every safety property of the passing runs, invariant or action property, and the
refinement are theorems: they hold for every set of requests, lock sets, tiles,
nodes, workers, rungs and callers and for every bound, where the runs show them on
one instance. The constants' assumptions are those named in the modules: bounds
are naturals, sets of names are disjoint where the code keeps them apart. Each
inductive invariant below was checked by TLC, on instances larger than the runs'
where that was feasible, before it was proved. Each proof has one step per action
of `Next`, and under it one per conjunct the action can disturb.

**`JobQueueProofs`** has two inductive invariants. `IInv` is about rows, handlers
and stops, and gives `TypeCorrect`, `LocksExclude`, `HandlersHaveRows`,
`SwapRace`, `StopsHold` and the action property `TerminalRowsAreFinal`:

- `RowsInv`, rows beyond `last` have no state: else `Enqueue` could overwrite one;
- `AliveInv`, a process that is down or boots runs nothing: else `Boot` would not
  re-establish `RunningRows`;
- `RunningRows`, which `MutualExclusion` needs because `Pass` reads *queued* rows
  and must not start one that is in the map, and which makes terminal rows final:
  the only unconditional write is `Finish`, and its row is running;
- `StopInv`, a stopped job that still runs carries the cause: it is why `Record`
  does not park it, and so why `StoppedStaysStopped` holds.

`LifeInv` is about what a job goes through, and gives `DumpsAreReleased`,
`OrphansAreCounted`, `UpgradesAreAlone` and `AppliesSeeFailures`
(`QueueInvariant` is the conjunction of both):

- `BornInv`, a row has a state as soon as it has an id, and a running or parked row
  has started: what the order of first starts rests on;
- `DumpInv`, from the sweep at boot on a dump belongs to a live row; while the panel
  is down it need not, which is what the sweep is for;
- `OrphanRows` counts, so its steps go by cardinality: only a failing final write
  adds an orphan, and it costs a fault;
- `UpgradeInv`, an upgrade never parks and its row holds `*`: without the first a
  requeued upgrade would make two, without the second the hold would not exclude
  the others. It is about the upgrades that are not `blind`, those the check did not
  let through on a failed read; that a held panel runs nothing else holds for all;
- `ApplyInv`, only applies note redeploys, what `await` read of one is still true
  unless it was parked, and an apply that succeeded has read all of them.

`UpgradeInv` is not inductive of a handler that may return anything: an upgrade
that parked would stand beside the next one. The code has no such upgrade
(`flow/upgrade/upgrade.go` reads no param and asks for no host access, the two
errors `run` parks on), so `Return` excludes these results for upgrade kinds, and
`KindAssumption` states what the callers guarantee of kinds: applies are no
upgrades, redeploys are no upgrades, an upgrade's lock set is `*`.

**`JobContractProofs`** proves `QueueImplementsContract`: under the mapping of
`JobQueue`'s `INSTANCE` each initial state is one of `JobContract`'s and each step
one of its steps or a stutter (`StepRefines`, one lemma per kind of step: a
submission, a pass that begins several jobs at once, a stop, a job that leaves, the
death of the process, the boot that buries the lost). What the mapping needs of the
reachable states is `IInv /\ LifeInv`. `JobsStartInOrder` follows from `BornInv`
and the pass's test for older overlapping rows; `PassKeepsToWorkers` by taking the
youngest job a pass starts: when it was admitted all the others had been counted.

**`RolloutProofs`**, for any number of replicas, containers and panel deaths:

- `TypeCorrect`;
- `OverlapKeepsServing`: `Spec => []OverlapServes`, faults included. `AgeInv`
  (containers are numbered by age, so a new one was not listed) and `LoopInv` (what
  each loop goes over) carry `ServeInv`: until the first route, the old replicas
  that ran still run and both the VIP *and the rows a rebuild has already read*
  lead to a gated one of them; after it the new ones are in both. The clause about
  the rows is what `vipLock` buys: without it (`LockFreeAlways`) the property fails;
- `SuccessIsClean`: `Spec => []CleanAfterSuccess`. `CleanInv` accounts for every
  container: until `remove` has gone through its list, what exists was listed, is
  past the gate or is at hand; after a success a rebuild reads only new replicas;
- `RefusedIsRestored`: `Spec => []RefusalRestores`. `RestoreInv` says, for each
  place of the rollout, which of the listed replicas are up, which are stopped and
  noted in `stopped`, and that `revive` goes over the noted ones;
- `DataHasOneWriter`: `Spec => []OneWriter`, for any set of verbs. Each condition in
  `OneWriter` is needed: a lost answer leaves a created replica or a missed stop; a
  container between two restarts is skipped by the stop loop; a start or a restart
  verb starts every replica, leftovers of a crash included (section 5). `WriterInv`
  holds until such a verb and again from the next success on: `MendStep` derives it
  afresh there from `CleanInv` (only new replicas exist), `FreshInv` (of those at most
  one has mounts) and `QuietInv` (nothing is between two restarts).

**`EnvMoveProofs`** proves `MoveTypes`, `MoveEndsWhole`, `MoveNotLeftDown`,
`MoveOneNode` and `MoveRunsOnItsData` from `MoveInv`. `RowFollows` (a job has a row,
the running one an unfinished one, boot resumes before requests are served) needs no
condition. Until rows raced, `Sole` says that the newest row is the only unfinished
one, which lets the rest speak of that row: `JobFollows` (the phase in memory against
the row's, and which tiles each loop has left), `EnvWhole` (in which phase the env is
on which node and what of it is up) and `Attended` (an env that is not up has a job at
its move, unless one was stopped or a counted call failed). While the run is `Calm`,
`Apart` (the target has no container, or the source runs none) and `DataFollows` (the
volume that may be written next has every write that counts). Two clauses are easy to
miss: `todo = Tiles` where the loops of `take` and of its undo begin, else a tile could
be skipped, and that only a stop or a resumed job of the same row cancels the running
one, else a superseded job could leave the env down with nobody at it.

**`TileRunsProofs`** proves `RunsTypes`, `RunsNotBlocked`, `RunsOneAtATime`,
`RunsStopReaches` and the action property `RunsClosedIsFinal` from `RunsInv`:
callers carry different rows and what a caller has not queued has no job
(`CallsApart`), bodies of two jobs are never under way at once (`BodiesApart`), a
container has its waiter (`Awaited`), an open row has a link or a carrier
(`OpenIsHeld`), a body that returns no error closed its row (`NilIsClosed`), and a
cancelled job has a dead context or is over (`CancelHolds`).

**`CARolloverProofs`** proves `CATypes`, `CAActsOnTruth` and `CAHeldIsTrusted` from
`CAInv`, for any number of workers and of rollovers after one another. The row
follows the files (`RowFollows`), a foreign previous root on disk means a whole
pair (`PairOnDisk`: the previous cert is written first and the new cert renamed
last), the memory follows the files but for the moment before the swap
(`MemoryFollows`), each step of the rotation knows how far it is (`RotationAt`),
and `WorkersFollow` says of which roots the workers' certificates may be.
`CAKeptInReach` has an invariant of its own, `ReachInv`, which says the same of the
memory and of what a boot would load (`Reach` for both), so that a death between
any two renames keeps it, until one of the three causes in `cut`. It needs only direct trust: a worker that is at most one
step behind always trusts the root of a serial it allows (`AllowedIsTrusted`), and
the cross-signed root is never what makes the answer acceptable to it.

**`MeshRotateProofs`** proves `MeshTypes` and `MeshRecordedIsHeld` from `MeshInv`:
the rotation holds `syncMu` from the moment it takes the staged pair to its end, and
until the promotion the pair before is the one on disk (`RotationHolds`);
`CallsPlaced` says who makes which call.

**`ExitLadderProofs`** proves, for any number of rungs, thresholds of at least one
and any weather, `LadderTypes`, `NoHoleWhileOneAnswers` and `RulesAreTheState`. The
inductive invariant is `TypeOK /\ PassInv /\ HoleWhenNoneAnswers`. `PassInv` says
which rungs a pass has asked when it is where it is: going down the list each one
was silent, above the live rung each one has a streak of one kind or the other.
Without it the choice of the blackhole at the end of the list says nothing about
the rungs above.

**Only model-checked**: the properties that something happens, `QueuedIsServed`,
`WaitEnds`, `VIPCatchesUp`, `RolloverEnds`, `TakesBack` and `KeysAgree`, because
liveness under fairness is out of the prover's reach; and the refutations of
section 5, which are counterexamples.

## 5. Where the code and its comments disagree

Each of the following is stated as a property, and TLC refutes it. Two are kept as
runs because what follows is not mended by the next tick:

| run, property | what is said | what the code does |
|---|---|---|
| `ca_restart`, `RestartKeepsReach` | `src/docs/rewrite/tasks/ca-rollover.md:25` "No node ever stops trusting another during the swap."; `svc/carollover.go:181`: the tick is "what survives a panel restart" | a panel that restarts after `RotateCA` moved the files finds its own certificate signed by the old root; `controllerCert` (`nodeclients.go:269`) issues and saves another one without `keepPrev` and without announcing it, so every worker's allow list refuses the tunnel and the recovery answer |
| `exit_retry`, `NextTickRepairs` | `src/internal/exits/ladder.go:118` "A rule failure is returned and leaves the old state in place, so the next tick tries again." | `apply` clears before it adds; when the add fails and the next pass decides on the old choice, line 168 returns without applying, and the traffic leaves by the own uplink while the ladder reports that choice and no error; TLC's trace ends with the blackhole as the choice, traffic reported as dropped that in fact leaves |

The others have their definitions in the modules, under "What comments say and the
code does not do", and are found by putting the property in the place of those of
the named configuration, with `SPECIFICATION Spec` and the changes shown:

| property | what is said | how to see it |
|---|---|---|
| `NoStaleRerun` (an action property) | `flow/jobs/jobs.go:307` "so each tile sees its jobs in order" | `MCJobQueue_races.cfg`, `Requests <- StaleRequests`, no faults: a newer job leaves a swapping one alone; if that one then parks, it runs again after the newer one |
| `SwapNeverCancelled` | `jobs.go:544` "except mid-swap, which is never aborted" | the same: stop is accepted, then `Swap` is granted, since it looks at the superseded mark only |
| `CancelledWasPressed` | `leaf/job/job.go:27` "someone pressed stop" | the same: a shutdown between the handler's return and its park is recorded as cancelled |
| `NoWaitCycle` | `jobs.go:60` "so the jobs it waits for can start" | `MCJobQueue_apply.cfg`: an upgrade queued between an apply and its redeploy waits for the apply, and the redeploy for the upgrade. `WaitEnds` holds only because the cap ends it |
| `UpgradeNeverSuperseded` | `svc/admin.go:547` "Refused, not superseded: a running upgrade cannot be stopped" | `MCJobQueue_apply.cfg`: `UpgradeUnderway` (`admin.go:672`) answers no when its read of the rows fails, and the second upgrade's enqueue supersedes the first |
| `NoTrafficBeforeGate` | `leaf/tile/world.go:82` "The VIP is not touched: the flow calls Route when the rollout says so" | `MCRollout_data.cfg`: the rebuild routes to any running replica, the one at the gate included |
| `NeverTwoContainers` | `REWRITE.md:850` "never has two containers on one volume" | `MCRollout_data.cfg`: `stopFirst` skips a replica that is restarting when listed; it comes back beside the new one |
| `VerbsKeepOneWriter` | the same | `MCRollout_data.cfg`: a start or restart verb starts the replica a crash left created beside the running one; the next successful rollout removes it |
| `NeverLeftWithNothing` | `flow/deploy/deploy.go:527` "so the tile is never left with nothing" | `MCRollout_data.cfg`: the context dies while a stop is in flight, so `revive` does not know of it |
| `OneUnfinishedMove` | `flow/move/move.go:111` "One unfinished move per env." | `MCEnvMove.cfg`: two requests list the env's moves before either inserts its row; there is no lock, transaction or unique index. The second row's copy and rollback then work against the first's: `RunsOnItsData`, `OneNode`, `NotLeftDown` and `EndsWhole` leave raced rows out |
| `ResumedNotLeftDown` | `svc/move.go:212` "queues a job for every move a restart cut off" | `MCEnvMove.cfg`: the resumed job fails before `Run`, or `resumeMoves` fails and boot logs it (`orchestrator.go:887`): nothing rolls back and the env stays stopped until the next boot |
| `ResumedOnItsData` | `flow/move/move.go:4` "every phase is safe to repeat" | `MCEnvMove.cfg`: a panel death inside a rollback leaves the row at a phase past the copy while the source runs again, and the resumed job goes on from there |
| `NoWriteLost` | `move.go:11` "any failure rolls back: the env is started on the source again" | `MCEnvMove.cfg`: what a tile wrote on a target whose start then failed is gone. `RunsOnItsData` excepts exactly these writes |
| `NeverBlocked` | `flow/run/run.go:72` "one lost job never blocks the tile's runs for good" | `MCTileRuns.cfg`: `Start` writes the row and fails in its prune; without a link `busy` cannot tell that nobody runs it, until a boot closes it |
| `QueuedWillRun` | `leaf/run/run.go:188` "its job is still queued and will run it" | `MCTileRuns.cfg`: the queued job is stopped from the job list, its run's row stays queued until the next trigger |
| `StoppedIsNotRun` | `svc/run.go:274` "StopRun cancels the run's job and closes the row as stopped" | `MCTileRuns.cfg`: a run inside a deploy has no job to cancel; its row is closed and its container runs on |
| `CanSign` | `clusterca.go:405`: the pair "is torn only between the renames" | `MCCARollover.cfg`: the panel dies between the renames of key and cert and boots with the torn pair |
| `DroppedWhenMoved` | `carollover.go:259` "stays trusted until every node moved" | `MCCARollover.cfg`: a worker whose renewal answer was lost has a new cert on the panel's side; an admin's finish counts it as moved and does not mark it for a rejoin |
| `FinishKeepsReach` | `carollover.go:128` "Workers still holding an old-root cert can no longer be reached", so the others can | `MCCARollover.cfg`: one failed write stops the rollover before the controller's own switch (`advanceRollover` returns at `carollover.go:284`), and `FinishRollover` (131-177) looks at the workers' certs only; it pushes a trust list without the root that signed the controller's certificate, and every worker is lost. `KeptInReach` leaves this out |
| `RollbackTells` | `rotate.go:228` "rollback puts the old keys back and tells the workers" | `MCMeshRotate.cfg`, no crashes: the rollback's push goes over the tunnel that the failed rotation's push just broke. `KeysAgree` shows that the worker's recovery call mends it |
| `WayBack` | `worker/rotate.go:18`: the old keys "stay as *.prev until the controller has taken the new ones" | `MCMeshRotate.cfg`, 2 rotations, 1 fault, no crashes: a rotation whose re-apply failed has left its new keys in the files, and the next rotation of that worker keeps those as *.prev |
| `ExitRecordedIsHeld` | `rotate.go:244` "the new key is the truth" | `MCMeshRotate.cfg`: a promotion that fails between the two files leaves the exit key behind |

One comment is wrong to the code's credit: `svc/vipboot.go:41` says of the minute
rebuild "A deploy routing between the reads and the Rebuild is overwritten until the
next tick.", but a node's rebuild and a deploy's route share `vipLock`
(`vipboot.go:66`), and the rebuild reads inside it. `OverlapServes` and
`CleanAfterSuccess` hold for that reason, and the mutant without the lock
(`LockFreeAlways`) is the behaviour the comment describes.

## 6. Plan

Done: the modules of section 2 with their runs; a theorem for every safety
property of the passing runs and for the refinement of `JobContract`.

Next, in order of what they guard:

1. Theorems that bound what section 5 shows: which of the conditions in `Calm`,
   in `NotLeftDown` and in `KeptInReach` can be dropped one at a time, each as an
   invariant of its own.
2. The safety half of the liveness properties, as invariants: that a waiting apply
   always has a live redeploy or a deadline (`WaitEnds`), that disagreeing mesh keys
   always leave a caller or a sync that will mend them (`KeysAgree`).
3. Parts a further module would pay for: the placement move over an abstract env
   move, which `EnvMove` would implement; the worker upgrade; join and removal of a
   node beside `CARollover`; the alerts' hold-down; the registry sweep against a push.

## 7. Not modelled, and why

- **Presentation and transport** (web panel, its generated templates, API, CLI, graph):
  most of the repository's lines. They hold no state of their own: each request is
  one call of the service layer.
- **Row edits** (params, settings, users, access): validated single statements, no
  protocol. Authorisation is a check per request.
- **Functions from rows to text** (proxy config, DNS records, stack files, org and
  server config documents, iptables and WireGuard configuration): the interesting
  part, who is routed where and with which key, is in `Rollout`, `ExitLadder` and
  `MeshRotate`; the texts are not.
- **Streams** (metrics, logs, backups to a bucket, registry blobs): lossy by design or
  calls to services that are not in the repository. The jobs that run them are jobs of
  `JobQueue`.
- **Linear scripts** (installer, worker upgrade, panel upgrade helper): a sequence of
  host commands; what the panel does around its helper is in `JobQueue`.
- **Left for later modules**: section 6, item 3, and promotion's plan of digests,
  managed slices and the master key's re-encryption.
