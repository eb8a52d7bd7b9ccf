------------------------------ MODULE JobQueue ------------------------------
(***************************************************************************)
(* The durable job queue of the panel: the Runner of                       *)
(* internal/service/internal/flow/jobs over the rows of leaf/job.          *)
(*                                                                         *)
(* Durable state is the jobs table (its columns kind, lock_set, state and  *)
(* started_at, one TLA+ variable each) and the spooled seed dumps.  What   *)
(* the Runner holds in memory is lost by a crash: the map of running jobs  *)
(* with each job's context, swap mark, superseded mark and idle mark, and  *)
(* the outcome a handler returned but run() has not written yet.           *)
(*                                                                         *)
(* Every step the code takes under Runner.mu is one action.  The places    *)
(* where the code lets go of the mutex are separate actions: the handler's *)
(* return against the write of its result, the list unpark reads against   *)
(* the requeue it does later, and everything a handler does.               *)
(***************************************************************************)
EXTENDS Naturals, FiniteSets

CONSTANTS
    Requests,      \* what the orchestrator may enqueue: records [kind, lock]
    Children,      \* what an apply handler enqueues and then waits for
    All,           \* the lock key that overlaps every job ("*")
    AwaitKinds,    \* kinds whose handler waits for its children (org-apply, server-apply)
    SeedKinds,     \* kinds that own a spooled dump (seed)
    UpgradeKinds,  \* the panel upgrade
    Uncapped,      \* kinds with no wall-clock limit (run, move-env)
    Workers,       \* the values the workers setting may have
    MaxJobs,       \* bound: rows ever created
    MaxFaults,     \* bound: failing database writes
    MaxBoots       \* bound: boots after the first

ASSUME QueueAssumption ==
    /\ MaxJobs \in Nat
    /\ MaxFaults \in Nat
    /\ MaxBoots \in Nat
    /\ Workers \subseteq Nat

(* No apply is an upgrade or redeploys one, and an upgrade takes the lock  *)
(* that overlaps every job.                                                *)
ASSUME KindAssumption ==
    /\ AwaitKinds \cap UpgradeKinds = {}
    /\ \A r \in Children : r.kind \notin UpgradeKinds
    /\ \A r \in Requests : r.kind \in UpgradeKinds => All \in r.lock

VARIABLES
    last,        \* rows created so far; a row's id is its age
    kind,        \* jobs.kind
    lock,        \* jobs.lock_set
    state,       \* jobs.state
    started,     \* rows whose started_at is set
    dump,        \* seed jobs whose dump file is on disk
    proc,        \* the panel process: up, closing (Close ran) or down
    hold,        \* Options.Hold: an upgrade helper swaps the panel
    running,     \* the keys of Runner.running
    parent,      \* the cause active.cancel was called with
    ctx,         \* the cause of the run's own context (the cap included)
    swapping,    \* active.swapping
    superseded,  \* active.superseded
    idle,        \* active.idle
    awaits,      \* the redeploys each apply noted (redeploys.list), kept as history
    seen,        \* the state of a noted redeploy when await read it settled
    outcome,     \* what call returned and run has not recorded
    parkList,    \* the waiting rows unpark has read and not yet requeued
    pressed,     \* history: jobs for which Cancel said it stopped them
    replaced,    \* history: jobs Enqueue superseded
    blind,       \* history: upgrades let through beside another
    faults,      \* failed database writes so far
    boots        \* boots so far

rowVars == <<last, kind, lock, state, started, dump>>
runVars == <<running, parent, ctx, swapping, superseded, idle, awaits, seen, outcome>>
envVars == <<proc, hold, parkList, pressed, replaced, blind, faults, boots>>
vars == <<rowVars, runVars, envVars>>

Ids == 1..MaxJobs

LiveStates == {"queued", "running", "waiting"}
TerminalStates == {"done", "failed", "superseded", "cancelled", "skipped"}
States == LiveStates \cup TerminalStates \cup {"none"}
Causes == {"none", "superseded", "cancelled", "shutdown", "deadline"}
Outcomes == {"none", "done", "failed", "superseded", "cancelled", "skipped", "waiting"}

(* What a handler may return.                                              *)
Results == {"ok", "error", "unset", "approval", "skipped", "superseded", "panic"}

(***************************************************************************)
(* leaf/job                                                                *)
(***************************************************************************)

Live(s) == s \in LiveStates

Cancellable(s) == s \in {"queued", "waiting"}

Overlaps(a, b) == All \in a \/ All \in b \/ a \cap b # {}

Supersedes(newer, older) == newer.kind = older.kind /\ older.lock \subseteq newer.lock

Row(j) == [kind |-> kind[j], lock |-> lock[j]]

(* CancelCauseFunc keeps its first cause.                                  *)
FirstCause(old, new) == IF old = "none" THEN new ELSE old

(***************************************************************************)
(* Init: a fresh panel, its runner started.                                *)
(***************************************************************************)

Init ==
    /\ last = 0
    /\ kind = [j \in Ids |-> "none"]
    /\ lock = [j \in Ids |-> {}]
    /\ state = [j \in Ids |-> "none"]
    /\ started = {}
    /\ dump = {}
    /\ proc = "up"
    /\ hold = FALSE
    /\ running = {}
    /\ parent = [j \in Ids |-> "none"]
    /\ ctx = [j \in Ids |-> "none"]
    /\ swapping = {}
    /\ superseded = {}
    /\ idle = {}
    /\ awaits = [j \in Ids |-> {}]
    /\ seen = [j \in Ids |-> "none"]
    /\ outcome = [j \in Ids |-> "none"]
    /\ parkList = {}
    /\ pressed = {}
    /\ replaced = {}
    /\ blind = {}
    /\ faults = 0
    /\ boots = 0

(***************************************************************************)
(* pass: start what may start                                              *)
(***************************************************************************)

Queued == {j \in Ids : state[j] = "queued"}

(* Mutant: the running jobs' locks are not looked at.                      *)
StartableIgnoringRunning(j) ==
    state[j] = "queued" /\ \A o \in Queued : o < j => ~Overlaps(lock[j], lock[o])

(* Mutant: a younger job may overtake an older queued one.                 *)
StartableInAnyOrder(j) ==
    state[j] = "queued" /\ \A r \in running : ~Overlaps(lock[j], lock[r])

(* Mutant: a job waits for every older live one, parked or not.            *)
StartableBehindParked(j) ==
    /\ state[j] = "queued"
    /\ \A o \in Ids : o # j /\ Live(state[o]) /\ (o < j \/ o \in running) => ~Overlaps(lock[j], lock[o])

(* Nothing running overlaps it, and no older queued job does either.       *)
Startable(j) ==
    /\ state[j] = "queued"
    /\ \A r \in running : ~Overlaps(lock[j], lock[r])
    /\ \A o \in Queued : o < j => ~Overlaps(lock[j], lock[o])

busyWorkers == Cardinality(running \ idle)

(* Mutant: an off-by-one in the room there is.                             *)
StartSetOneMore(n) ==
    {j \in Ids : Startable(j) /\ busyWorkers + Cardinality({i \in Ids : i < j /\ Startable(i)}) <= n}

(* The jobs one pass with n workers starts, oldest first.                  *)
StartSet(n) ==
    {j \in Ids :
        /\ Startable(j)
        /\ busyWorkers + Cardinality({i \in Ids : i < j /\ Startable(i)}) < n}

(* start: the row is written running, then the job enters the map.         *)
StartAll(S) ==
    /\ state' = [j \in Ids |-> IF j \in S THEN "running" ELSE state[j]]
    /\ started' = started \cup S
    /\ running' = running \cup S

(* Mutant: the hold is not looked at.                                      *)
MayStartHeld == proc = "up"

MayStart == proc = "up" /\ ~hold

(* A failed write of one job's start ends the pass after the older ones.   *)
Pass(n) ==
    /\ MayStart
    /\ StartSet(n) # {}
    /\ \/ StartAll(StartSet(n)) /\ UNCHANGED faults
       \/ \E f \in StartSet(n) :
            /\ faults < MaxFaults
            /\ faults' = faults + 1
            /\ StartAll({j \in StartSet(n) : j < f})
    /\ UNCHANGED <<last, kind, lock, dump, proc, hold, parent, ctx, swapping,
                   superseded, idle, awaits, seen, outcome, parkList, pressed,
                   replaced, blind, boots>>

(***************************************************************************)
(* Enqueue, Skip, Cancel                                                   *)
(***************************************************************************)

(* The older live jobs a request supersedes.                               *)
Victims(req) ==
    {o \in Ids :
        /\ Live(state[o])
        /\ Overlaps(req.lock, lock[o])
        /\ Supersedes(req, Row(o))}

(* A running victim that still builds: its context is cancelled.           *)
Building(V) == {o \in V : o \in running /\ o \notin swapping}

(* A victim with no handler: its row is finished at once.                  *)
Parked(V) == {o \in V : o \notin running /\ Cancellable(state[o])}

(* The body of Enqueue for the victims V it got to.                        *)
EnqueueRow(req, V) ==
    LET new == last + 1 IN
    /\ last < MaxJobs
    /\ last' = new
    /\ kind' = [kind EXCEPT ![new] = req.kind]
    /\ lock' = [lock EXCEPT ![new] = req.lock]
    /\ state' = [j \in Ids |->
                    IF j = new THEN "queued"
                    ELSE IF j \in Parked(V) THEN "superseded" ELSE state[j]]
    /\ superseded' = superseded \cup Building(V)
    /\ replaced' = replaced \cup Building(V) \cup Parked(V)
    /\ parent' = [j \in Ids |->
                    IF j \in Building(V) THEN FirstCause(parent[j], "superseded") ELSE parent[j]]
    /\ ctx' = [j \in Ids |->
                    IF j \in Building(V) THEN FirstCause(ctx[j], "superseded") ELSE ctx[j]]

(* A seed's dump is spooled before its row exists; a failed Enqueue drops it. *)
EnqueueDump(req, V, ok) ==
    dump' = (dump \ Parked(V)) \cup (IF ok /\ req.kind \in SeedKinds THEN {last + 1} ELSE {})

(* The write that finishes victim f failed: the younger ones are untouched *)
(* and the new row stays queued.                                           *)
EnqueueFrom(req) ==
    \/ /\ EnqueueRow(req, Victims(req))
       /\ EnqueueDump(req, Victims(req), TRUE)
       /\ UNCHANGED faults
    \/ \E f \in Parked(Victims(req)) :
         LET V == {o \in Victims(req) : o < f} IN
         /\ faults < MaxFaults
         /\ faults' = faults + 1
         /\ EnqueueRow(req, V)
         /\ EnqueueDump(req, V, FALSE)

(* The API answers: between boot and the end of the process.               *)
Serving == proc \in {"up", "closing"}

UpgradeLive == \E j \in Ids : kind[j] \in UpgradeKinds /\ state[j] \in {"queued", "running"}

(* Upgrade refuses a second upgrade while one swaps the panel, is queued   *)
(* or is running; a failing read of the rows says there is none.           *)
UpgradeUnderway(err) == hold \/ (~err /\ UpgradeLive)

(* Upgrade's check and its Enqueue are one step under upgradeEnqueue.      *)
Enqueue(req) ==
    /\ Serving
    /\ req.kind \in UpgradeKinds => \E err \in BOOLEAN : ~UpgradeUnderway(err)
    /\ blind' = IF req.kind \in UpgradeKinds /\ UpgradeLive THEN blind \cup {last + 1} ELSE blind
    /\ EnqueueFrom(req)
    /\ UNCHANGED <<started, proc, hold, running, swapping, idle, awaits, seen,
                   outcome, parkList, pressed, boots>>

(* A schedule that fired while its node was offline: a row, finished at    *)
(* once; when the second write fails the row stays behind queued.          *)
Skip(req) ==
    LET new == last + 1 IN
    /\ Serving
    /\ req.kind \notin SeedKinds \cup UpgradeKinds \cup AwaitKinds
    /\ last < MaxJobs
    /\ last' = new
    /\ kind' = [kind EXCEPT ![new] = req.kind]
    /\ lock' = [lock EXCEPT ![new] = req.lock]
    /\ \/ state' = [state EXCEPT ![new] = "skipped"] /\ UNCHANGED faults
       \/ /\ faults < MaxFaults
          /\ faults' = faults + 1
          /\ state' = [state EXCEPT ![new] = "queued"]
    /\ UNCHANGED <<started, dump, runVars, proc, hold, parkList, pressed, replaced, blind, boots>>

(* A running job's context is cancelled unless it swaps; a queued or       *)
(* waiting row is finished; anything else is refused and changes nothing.  *)
Cancel(j) ==
    /\ Serving
    /\ \/ /\ j \in running \ swapping
          /\ parent' = [parent EXCEPT ![j] = FirstCause(@, "cancelled")]
          /\ ctx' = [ctx EXCEPT ![j] = FirstCause(@, "cancelled")]
          /\ UNCHANGED <<state, dump>>
       \/ /\ j \notin running
          /\ Cancellable(state[j])
          /\ state' = [state EXCEPT ![j] = "cancelled"]
          /\ dump' = dump \ {j}
          /\ UNCHANGED <<parent, ctx>>
    /\ pressed' = pressed \cup {j}
    /\ UNCHANGED <<last, kind, lock, started, running, swapping, superseded, idle,
                   awaits, seen, outcome, proc, hold, parkList, replaced, blind, faults, boots>>

(***************************************************************************)
(* Handlers                                                                *)
(***************************************************************************)

(* A handler that has not returned and does not wait for other jobs.       *)
Working(j) == j \in running \ idle /\ outcome[j] = "none"

(* Mutant: Swap does not look at the superseded mark.                      *)
MaySwapUnchecked(j) == Working(j) /\ kind[j] \notin AwaitKinds

(* Run.Swap refuses a superseded job, whose handler then returns           *)
(* ErrSuperseded.                                                          *)
MaySwap(j) == Working(j) /\ kind[j] \notin AwaitKinds /\ j \notin superseded

Swap(j) ==
    /\ MaySwap(j)
    /\ swapping' = swapping \cup {j}
    /\ UNCHANGED <<rowVars, running, parent, ctx, superseded, idle, awaits, seen,
                   outcome, envVars>>

(* What call makes of the handler's result and its context's cause.        *)
Outcome(err, cause) ==
    IF err = "ok" THEN "done"
    ELSE IF err = "panic" THEN "failed"
    ELSE IF "superseded" \in {err, cause} THEN "superseded"
    ELSE IF cause = "cancelled" THEN "cancelled"
    ELSE IF cause = "deadline" THEN "failed"
    ELSE IF err = "skipped" THEN "skipped"
    ELSE IF err \in {"unset", "approval"} THEN "waiting"
    ELSE "failed"

(* The handler returned: call knows the outcome, run has not written it.   *)
(* runSeed drops its dump on the way out unless it asks for an approval;   *)
(* an upgrade that launched its helper holds the queue, and no upgrade     *)
(* reads a param or needs a host access approval.                          *)
Return(j, err) ==
    /\ Working(j)
    /\ err = "superseded" => j \in superseded
    /\ kind[j] \in UpgradeKinds => err \notin {"unset", "approval"}
    /\ kind[j] \in AwaitKinds => err \in (IF awaits[j] = {} THEN {"ok", "error"} ELSE {"error"})
    /\ outcome' = [outcome EXCEPT ![j] = Outcome(err, ctx[j])]
    /\ dump' = IF err = "approval" THEN dump ELSE dump \ {j}
    /\ hold' = (hold \/ (err = "ok" /\ kind[j] \in UpgradeKinds))
    /\ UNCHANGED <<last, kind, lock, state, started, running, parent, ctx, swapping,
                   superseded, idle, awaits, seen, proc, parkList, pressed, replaced, blind,
                   faults, boots>>

(* Mutant: the cap stands still while a job is idle.                       *)
CapRunsOutUnlessIdle(j) ==
    /\ j \in running \ idle
    /\ outcome[j] = "none"
    /\ kind[j] \notin Uncapped
    /\ ctx[j] = "none"

CapRunsOut(j) ==
    /\ j \in running
    /\ outcome[j] = "none"
    /\ kind[j] \notin Uncapped
    /\ ctx[j] = "none"

(* The wall-clock cap ends the run's context, not the parent run looks at. *)
Deadline(j) ==
    /\ CapRunsOut(j)
    /\ ctx' = [ctx EXCEPT ![j] = "deadline"]
    /\ UNCHANGED <<rowVars, running, parent, swapping, superseded, idle, awaits, seen,
                   outcome, envVars>>

(***************************************************************************)
(* An apply: queue the redeploys, then wait idle for each                  *)
(***************************************************************************)

(* o.redeploy enqueues a deploy and notes it; one whose Enqueue failed is  *)
(* not noted.                                                              *)
EnqueueChild(j, req) ==
    /\ Working(j)
    /\ kind[j] \in AwaitKinds
    /\ EnqueueFrom(req)
    /\ awaits' = [awaits EXCEPT ![j] = IF faults' = faults THEN @ \cup {last + 1} ELSE @]
    /\ UNCHANGED <<started, proc, hold, running, swapping, idle, seen, outcome,
                   parkList, pressed, blind, boots>>

(* jobs.Idle: the apply gives its worker back, its lock stays.             *)
BeginWait(j) ==
    /\ Working(j)
    /\ awaits[j] # {}
    /\ idle' = idle \cup {j}
    /\ UNCHANGED <<rowVars, running, parent, ctx, swapping, superseded, awaits, seen,
                   outcome, envVars>>

(* The redeploys await has not read settled yet; it reads them in order.   *)
Unread(j) == {c \in awaits[j] : seen[c] = "none"}

AwaitRead(j) ==
    /\ j \in idle
    /\ outcome[j] = "none"
    /\ \E c \in Unread(j) :
         /\ \A d \in Unread(j) : c <= d
         /\ state[c] \notin {"queued", "running"}
         /\ seen' = [seen EXCEPT ![c] = state[c]]
    /\ UNCHANGED <<rowVars, running, parent, ctx, swapping, superseded, idle, awaits,
                   outcome, envVars>>

(* Mutant: a failed redeploy is no error.                                  *)
AwaitResultLenient(j) == IF Unread(j) = {} THEN "ok" ELSE "error"

(* All read: the apply succeeds unless one failed.  A dead context ends    *)
(* the wait early, and the apply may still fail on its own last writes.    *)
AwaitResult(j) ==
    IF Unread(j) = {} /\ \A c \in awaits[j] : seen[c] # "failed" THEN "ok" ELSE "error"

AwaitEnds(j) ==
    /\ j \in idle
    /\ outcome[j] = "none"
    /\ Unread(j) = {} \/ ctx[j] # "none"
    /\ idle' = idle \ {j}
    /\ \E err \in {AwaitResult(j), "error"} :
         outcome' = [outcome EXCEPT ![j] = Outcome(err, ctx[j])]
    /\ UNCHANGED <<rowVars, running, parent, ctx, swapping, superseded, awaits, seen, envVars>>

(***************************************************************************)
(* run: record the outcome                                                 *)
(***************************************************************************)

(* Mutant: the parent's cause is not looked at.                            *)
RecordedAsReturned(j) == outcome[j]

(* The state run writes: a job stopped since its handler returned is       *)
(* finished, never parked.                                                 *)
Recorded(j) ==
    IF outcome[j] # "waiting" \/ parent[j] = "none" THEN outcome[j]
    ELSE IF parent[j] = "superseded" THEN "superseded" ELSE "cancelled"

(* Park is conditional on the row being running, Finish is not.            *)
WriteRecord(j) ==
    state' = [state EXCEPT ![j] = IF Recorded(j) = "waiting" /\ @ # "running" THEN @ ELSE Recorded(j)]

LeaveRunning(j) ==
    /\ running' = running \ {j}
    /\ parent' = [parent EXCEPT ![j] = "none"]
    /\ ctx' = [ctx EXCEPT ![j] = "none"]
    /\ swapping' = swapping \ {j}
    /\ superseded' = superseded \ {j}
    /\ idle' = idle \ {j}
    /\ outcome' = [outcome EXCEPT ![j] = "none"]

(* The job leaves the map whether or not the write worked; the ended hook  *)
(* runs only after a finish that did.                                      *)
Record(j) ==
    /\ j \in running
    /\ outcome[j] # "none"
    /\ LeaveRunning(j)
    /\ \/ /\ WriteRecord(j)
          /\ dump' = IF Recorded(j) = "waiting" THEN dump ELSE dump \ {j}
          /\ UNCHANGED faults
       \/ /\ faults < MaxFaults
          /\ faults' = faults + 1
          /\ UNCHANGED <<state, dump>>
    /\ UNCHANGED <<last, kind, lock, started, awaits, seen, proc, hold, parkList, pressed,
                   replaced, blind, boots>>

(***************************************************************************)
(* unpark and the host access approval                                     *)
(***************************************************************************)

(* The list is read without the mutex ...                                  *)
UnparkList ==
    /\ proc = "up"
    /\ parkList = {}
    /\ \E j \in Ids : state[j] = "waiting"
    /\ parkList' = {j \in Ids : state[j] = "waiting"}
    /\ UNCHANGED <<rowVars, runVars, proc, hold, pressed, replaced, blind, faults, boots>>

(* Mutant: the row is requeued whatever its state is.                      *)
RequeueUnconditional(j) == state' = [state EXCEPT ![j] = "queued"]

(* ... and each row of it is requeued, if it still waits, or passed over   *)
(* because what it waits for is not there yet.                             *)
Requeue(j) == state' = [state EXCEPT ![j] = IF @ = "waiting" THEN "queued" ELSE @]

UnparkOne(j) ==
    /\ proc = "up"
    /\ j \in parkList
    /\ parkList' = parkList \ {j}
    /\ Requeue(j) \/ UNCHANGED state
    /\ UNCHANGED <<last, kind, lock, started, dump, runVars, proc, hold, pressed,
                   replaced, blind, faults, boots>>

(* ApproveHostGrant requeues what it listed with no mutex at all; the      *)
(* list may be stale by then, so any row may be asked for.                 *)
ApproveRequeue(j) ==
    /\ Serving
    /\ state[j] = "waiting"
    /\ Requeue(j)
    /\ UNCHANGED <<last, kind, lock, started, dump, runVars, envVars>>

(***************************************************************************)
(* The process: hold, close, crash, boot                                   *)
(***************************************************************************)

(* watchUpgrader: the helper exited, or its 15 minutes are over.           *)
HoldEnds ==
    /\ proc # "down"
    /\ hold
    /\ hold' = FALSE
    /\ UNCHANGED <<rowVars, runVars, proc, parkList, pressed, replaced, blind, faults, boots>>

(* Close: the loop stops, every running job's context is cancelled.        *)
Close ==
    /\ proc = "up"
    /\ proc' = "closing"
    /\ parkList' = {}
    /\ parent' = [j \in Ids |-> IF j \in running THEN FirstCause(parent[j], "shutdown") ELSE parent[j]]
    /\ ctx' = [j \in Ids |-> IF j \in running THEN FirstCause(ctx[j], "shutdown") ELSE ctx[j]]
    /\ UNCHANGED <<rowVars, running, swapping, superseded, idle, awaits, seen, outcome,
                   hold, pressed, replaced, blind, faults, boots>>

(* The process is gone, at the end of Close or at any moment, and its      *)
(* memory with it.                                                         *)
Down ==
    /\ proc # "down"
    /\ proc' = "down"
    /\ hold' = FALSE
    /\ running' = {}
    /\ parent' = [j \in Ids |-> "none"]
    /\ ctx' = [j \in Ids |-> "none"]
    /\ swapping' = {}
    /\ superseded' = {}
    /\ idle' = {}
    /\ outcome' = [j \in Ids |-> "none"]
    /\ parkList' = {}
    /\ UNCHANGED <<last, kind, lock, started, awaits, seen, replaced, blind, faults, boots>>

Crash == Down /\ UNCHANGED <<state, dump, pressed>>

(* A crash after a row's final write and before its ended hook: in Record, *)
(* or in the Finish of a queued or waiting row.                            *)
CrashInFinish(j) ==
    /\ Down
    /\ \/ j \in running /\ outcome[j] # "none" /\ WriteRecord(j) /\ UNCHANGED pressed
       \/ /\ Serving
          /\ Cancellable(state[j])
          /\ state' = [state EXCEPT ![j] = "cancelled"]
          /\ pressed' = pressed \cup {j}
    /\ UNCHANGED dump

(* A crash after an upload was spooled and before its row was created.     *)
CrashInSpool ==
    /\ Down
    /\ SeedKinds # {}
    /\ last < MaxJobs
    /\ Serving
    /\ dump' = dump \cup {last + 1}
    /\ UNCHANGED <<state, pressed>>

(* Mutant: the spool is not swept.                                         *)
SweptNothing == dump

(* sweepSeeds keeps the files a live seed job names.                       *)
Swept == {j \in dump : Live(state[j])}

(* Boot sweeps the spool first, then asks whether a helper runs.           *)
Boot ==
    /\ proc = "down"
    /\ boots < MaxBoots
    /\ boots' = boots + 1
    /\ proc' = "booting"
    /\ dump' = Swept
    /\ hold' \in (IF UpgradeKinds = {} THEN {FALSE} ELSE BOOLEAN)
    /\ UNCHANGED <<last, kind, lock, state, started, runVars, parkList, pressed, replaced, blind, faults>>

(* Mutant: boot runs the cut-off jobs again.                               *)
BootStatesResuming(j) == {"queued"}

(* Start fails a row the dead process left running; an upgrade to the      *)
(* build that boots now survived its own restart.                          *)
BootStates(j) == {"failed"} \cup (IF kind[j] \in UpgradeKinds THEN {"done"} ELSE {})

BootFail(j) ==
    /\ proc = "booting"
    /\ state[j] = "running"
    /\ \E s \in BootStates(j) : state' = [state EXCEPT ![j] = s]
    /\ dump' = dump \ {j}
    /\ UNCHANGED <<last, kind, lock, started, runVars, envVars>>

(* Mutant: boot goes on with a row it could not fail.                      *)
BootReadyAnyway == proc = "booting"

BootReady == proc = "booting" /\ \A j \in Ids : state[j] # "running"

BootDone ==
    /\ BootReady
    /\ proc' = "up"
    /\ UNCHANGED <<rowVars, runVars, hold, parkList, pressed, replaced, blind, faults, boots>>

(* undoFailedUpgrade: the helper of the newest upgrade rolled back.        *)
RollBackUpgrade(j) ==
    /\ proc = "up"
    /\ boots > 0
    /\ kind[j] \in UpgradeKinds
    /\ state[j] \in {"done", "failed"}
    /\ \A k \in Ids : kind[k] \in UpgradeKinds /\ state[k] \in {"done", "failed"} => k <= j
    /\ state' = [state EXCEPT ![j] = "failed"]
    /\ UNCHANGED <<last, kind, lock, started, dump, runVars, envVars>>

(***************************************************************************)
(* The specification                                                       *)
(***************************************************************************)

Next ==
    \/ \E n \in Workers : Pass(n)
    \/ \E req \in Requests : Enqueue(req) \/ Skip(req)
    \/ \E j \in Ids :
         \/ Cancel(j)
         \/ Swap(j)
         \/ \E err \in Results : Return(j, err)
         \/ Deadline(j)
         \/ \E req \in Children : EnqueueChild(j, req)
         \/ BeginWait(j)
         \/ AwaitRead(j)
         \/ AwaitEnds(j)
         \/ Record(j)
         \/ UnparkOne(j)
         \/ ApproveRequeue(j)
         \/ CrashInFinish(j)
         \/ BootFail(j)
         \/ RollBackUpgrade(j)
    \/ UnparkList
    \/ HoldEnds
    \/ Close
    \/ Crash
    \/ CrashInSpool
    \/ Boot
    \/ BootDone

Spec == Init /\ [][Next]_vars

(***************************************************************************)
(* Properties                                                              *)
(***************************************************************************)

(* The variables have their types; only jobs in the Runner's map carry its *)
(* marks, and the cap never ends the context run looks at.                 *)
TypeOK ==
    /\ last \in 0..MaxJobs
    /\ kind \in [Ids -> {r.kind : r \in Requests \cup Children} \cup {"none"}]
    /\ lock \in [Ids -> {r.lock : r \in Requests \cup Children} \cup {{}}]
    /\ state \in [Ids -> States]
    /\ started \subseteq Ids
    /\ dump \subseteq Ids
    /\ proc \in {"up", "closing", "down", "booting"}
    /\ hold \in BOOLEAN
    /\ running \subseteq Ids
    /\ parent \in [Ids -> Causes \ {"deadline"}]
    /\ ctx \in [Ids -> Causes]
    /\ swapping \subseteq running
    /\ superseded \subseteq running
    /\ idle \subseteq running
    /\ awaits \in [Ids -> SUBSET Ids]
    /\ seen \in [Ids -> States]
    /\ outcome \in [Ids -> Outcomes]
    /\ parkList \subseteq Ids
    /\ pressed \subseteq Ids
    /\ replaced \subseteq Ids
    /\ blind \subseteq Ids
    /\ faults \in 0..MaxFaults
    /\ boots \in 0..MaxBoots

(* The lock set does its work: two handlers that run at once never share a *)
(* tile, and one that holds All runs alone, whatever was cancelled,        *)
(* superseded, requeued at its old age or failed to be recorded meanwhile. *)
MutualExclusion ==
    \A i, j \in running : i # j => ~Overlaps(lock[i], lock[j])

(* Every handler has its row: a job in the Runner's map is running in the  *)
(* jobs table, so no Finish or requeue from elsewhere hits a live handler. *)
RunningRows == \A j \in running : state[j] = "running"

(* The converse, which boot relies on: a running row without a handler is  *)
(* one whose last write failed, and there are no more of those than failed *)
(* writes.                                                                 *)
OrphanRows ==
    Serving => Cardinality({j \in Ids : state[j] = "running" /\ j \notin running}) <= faults

(* Run.Swap and Enqueue race under the mutex: a job is either past its     *)
(* swap mark or superseded, never both, so no superseded deploy replaces   *)
(* containers.                                                             *)
SupersededNeverSwaps == superseded \cap swapping = {}

(* A stop that was accepted, by the stop button or by a newer job, is      *)
(* final: the job may still be running, it never waits or queues again.    *)
StoppedStaysStopped ==
    \A j \in pressed \cup replaced : state[j] \notin {"queued", "waiting"}

(* A terminal row is final: no write of a late handler, of unpark, of boot *)
(* or of a second stop revives it.  The one exception is the upgrade whose *)
(* helper rolled back.                                                     *)
TerminalIsFinal ==
    [][\A j \in Ids :
         state[j] \in TerminalStates =>
            \/ state'[j] = state[j]
            \/ kind[j] \in UpgradeKinds /\ state[j] = "done" /\ state'[j] = "failed"]_vars

(* Each tile sees its jobs in order: when a job first starts, every older  *)
(* job on one of its tiles has started before it or is over.               *)
FirstStartsInOrder ==
    [][\A k \in started' \ started : \A o \in 1..(k - 1) :
         Overlaps(lock[o], lock[k]) => o \in started \/ state[o] \in TerminalStates]_vars

(* The workers setting bounds the handlers that do work: a start never     *)
(* raises the busy ones above the largest setting.  An apply that wakes    *)
(* from its wait may, by one each, which is why only starts are bounded.   *)
StartsWithinWorkers ==
    [][\A j \in running' \ running :
         \E n \in Workers : Cardinality(running' \ idle') <= n]_vars

(* The spool holds no dump for nothing: while the panel serves, every dump *)
(* on disk belongs to a seed job that is still live, after any crash.      *)
DumpReleased == Serving => \A j \in dump : Live(state[j])

(* An apply never reads done over failed deploys, except a deploy that was *)
(* parked when the apply looked at it.                                     *)
ApplyOverFailed ==
    \A a \in Ids : state[a] = "done" =>
        \A c \in awaits[a] : state[c] = "failed" => seen[c] = "waiting"

(* An upgrade is alone.  A double click queues one: of the upgrades the    *)
(* check let through, at most one is queued or running; left out are those *)
(* let through beside another because the read of the rows failed.  While  *)
(* a helper swaps the panel the only handlers there may be are upgrades',  *)
(* so no other job dies with the old panel or outlives a rollback of the   *)
(* new one's database, failing reads or not.                               *)
UpgradeIsAlone ==
    /\ \A i, j \in Ids \ blind :
         /\ kind[i] \in UpgradeKinds /\ state[i] \in {"queued", "running"}
         /\ kind[j] \in UpgradeKinds /\ state[j] \in {"queued", "running"}
         => i = j
    /\ hold => \A j \in running : kind[j] \in UpgradeKinds

(***************************************************************************)
(* The inductive invariant of JobQueueProofs                               *)
(***************************************************************************)

(* Rows not created yet have no state.                                     *)
RowsInv == \A j \in Ids : j > last => state[j] = "none"

(* A process that is down or boots runs nothing.                           *)
AliveInv == proc \in {"down", "booting"} => running = {}

(* A stopped job that still runs carries the cause it was stopped with.    *)
StopInv ==
    \A j \in pressed \cup replaced : j <= last /\ (j \in running => parent[j] # "none")

IInv ==
    /\ TypeOK
    /\ RowsInv
    /\ AliveInv
    /\ RunningRows
    /\ MutualExclusion
    /\ SupersededNeverSwaps
    /\ StopInv
    /\ StoppedStaysStopped

(* The contract of JobContract: a row running in the table is active while *)
(* its handler is in the map and lost otherwise.                           *)
Phase(j) ==
    IF state[j] = "none" THEN "absent"
    ELSE IF state[j] \in {"queued", "waiting"} THEN "pending"
    ELSE IF state[j] # "running" THEN "over"
    ELSE IF j \in running THEN "active" ELSE "lost"

Contract == INSTANCE JobContract
    WITH Jobs <- Ids, phase <- [j \in Ids |-> Phase(j)], stopped <- pressed \cup replaced

(* The queue with its database, crashes, parking and superseding           *)
(* implements the contract.                                                *)
ImplementsContract == Contract!CSpec

(***************************************************************************)
(* Fairness and liveness                                                   *)
(***************************************************************************)

(* The loop passes at every poke and every 3 s, and its select takes a     *)
(* ready wake or tick at random: strong fairness for each start.  Handlers *)
(* return, the capped ones because their context dies.                     *)
StartOf(j) == \E n \in Workers : Pass(n) /\ j \in running'

Fairness ==
    /\ \A j \in Ids :
         /\ SF_vars(StartOf(j))
         /\ WF_vars(\E err \in Results : Return(j, err))
         /\ WF_vars(Deadline(j))
         /\ WF_vars(BeginWait(j))
         /\ WF_vars(AwaitRead(j))
         /\ WF_vars(AwaitEnds(j))
         /\ WF_vars(Record(j))
    /\ WF_vars(HoldEnds)

(* No queued job is starved: while the panel stays up it is started or     *)
(* stopped, behind an upgrade, an apply that waits or jobs that park and   *)
(* come back at an older age.                                              *)
QueuedIsServed == \A j \in Ids : state[j] = "queued" ~> (state[j] # "queued" \/ proc # "up")

(* No apply waits for ever on its redeploys, even on one that cannot start *)
(* because of the apply itself: the cap ends the wait.                     *)
WaitEnds == \A j \in Ids : j \in idle ~> j \notin idle

(***************************************************************************)
(* What comments of the code say and the code does not do                  *)
(***************************************************************************)

(* "each tile sees its jobs in order": a job does not start again on tiles *)
(* a newer job that redoes all of them has already started on.             *)
NoStaleRerun ==
    [][\A j \in running' \ running : \A k \in started :
         j < k => ~Supersedes(Row(k), Row(j))]_vars

(* "so the jobs it waits for can start": no redeploy an idle apply waits   *)
(* for is queued behind a job that itself waits for the apply.             *)
NoWaitCycle ==
    \A j \in idle : \A c \in Unread(j) : \A u \in Queued :
        /\ u < c
        /\ state[c] = "queued"
        /\ Overlaps(lock[u], lock[c])
        => ~Overlaps(lock[u], lock[j])

(* "mid-swap, which is never aborted": no job is in its swap phase with a  *)
(* context the stop button cancelled.                                      *)
SwapNeverCancelled == \A j \in swapping : parent[j] # "cancelled"

(* "Refused, not superseded: a running upgrade cannot be stopped": no      *)
(* upgrade is superseded by another.                                       *)
UpgradeNeverSuperseded == \A j \in replaced : kind[j] \notin UpgradeKinds

(* cancelled means "someone pressed stop".                                 *)
CancelledWasPressed == \A j \in Ids : state[j] = "cancelled" => j \in pressed

=============================================================================
