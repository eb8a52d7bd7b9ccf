------------------------------- MODULE TileRuns -------------------------------
(***************************************************************************)
(* The runs of one cron or function tile: the run row flow/run writes, the *)
(* job service/run.go queues for it, the container the job's body waits    *)
(* for, and the requests that stop it.                                     *)
(*                                                                         *)
(* Three parties touch a row: the one that queued it (check, insert,       *)
(* enqueue, SetJob), the body of its job and StopRun.  Each call is a step  *)
(* of its own.  A run that another tile's deploy needs first has no job:   *)
(* its body runs inside that deploy (runFirst).                            *)
(*                                                                         *)
(* The queue is the one JobQueue models: jobs of one tile exclude each     *)
(* other and start in order, boot fails what ran, a stop holds.            *)
(***************************************************************************)
EXTENDS Naturals, FiniteSets

CONSTANTS
    Callers,     \* requests, ticks and deploys that queue a run
    Inliners,    \* deploys that run the tile's function first
    MaxRuns,     \* bound: run rows
    Keep,        \* rows a tile keeps
    MaxStops,    \* bound: presses of a stop, of the run or of its job
    MaxFaults,   \* bound: writes and Docker removals that fail
    MaxCrashes   \* bound: deaths of the panel

ASSUME RunsAssumption ==
    /\ MaxRuns \in Nat /\ Keep \in Nat /\ Callers \cap Inliners = {}
    /\ MaxStops \in Nat /\ MaxFaults \in Nat /\ MaxCrashes \in Nat

VARIABLES
    last,      \* rows written; a row's id is its age
    row,       \* runs.status, "none" before the insert, "gone" once pruned
    linked,    \* the rows whose job_id is set
    inline,    \* the rows without a job, carried by a deploy
    job,       \* the state of the row's job
    at,        \* where the run's body is, "no" when it does not run
    verdict,   \* what the body saw of its container
    dead,      \* bodies whose context is cancelled
    cont,      \* runs whose container runs
    call,      \* where a caller is: its step, the row it looks at or wrote, what its check said
    stop,      \* where the StopRun request is: its step, its row, the link it read
    stopped,   \* history: runs StopRun returned for after it had read a link
    stops, faults, crashes

rowVars == <<last, row, linked, inline>>
bodyVars == <<at, verdict, dead, cont>>
budgets == <<stops, faults, crashes>>
vars == <<rowVars, job, bodyVars, call, stop, stopped, budgets>>

Ids == 1..MaxRuns
Everyone == Callers \cup Inliners

Open(s) == s \in {"queued", "running"}
Closed(s) == s \in {"ok", "failed", "cancelled"}

NoCall == [step |-> "idle", run |-> 0, busy |-> FALSE]
NoStop == [step |-> "idle", run |-> 0, link |-> FALSE]

Init ==
    /\ last = 0
    /\ row = [r \in Ids |-> "none"]
    /\ linked = {} /\ inline = {}
    /\ job = [r \in Ids |-> "none"]
    /\ at = [r \in Ids |-> "no"]
    /\ verdict = [r \in Ids |-> "none"]
    /\ dead = {} /\ cont = {}
    /\ call = [c \in Everyone |-> NoCall]
    /\ stop = NoStop
    /\ stopped = {}
    /\ stops = 0 /\ faults = 0 /\ crashes = 0

Fault == faults < MaxFaults /\ faults' = faults + 1 /\ UNCHANGED <<stops, crashes>>

(* Finish re-reads the row under the leaf's mutex: a closed one stays.     *)
Finished(f, r, s) == [f EXCEPT ![r] = IF Open(f[r]) THEN s ELSE f[r]]

(* Finish, or a write that fails.                                          *)
Finish(r, s) ==
    \/ row' = Finished(row, r, s) /\ UNCHANGED budgets
    \/ UNCHANGED row /\ Fault

(***************************************************************************)
(* Queue                                                                   *)
(***************************************************************************)

Live(s) == s \in {"queued", "waiting", "running"}

(* Active: the newest open row.                                            *)
Newest == IF \E r \in Ids : Open(row[r])
          THEN CHOOSE r \in Ids : Open(row[r]) /\ \A s \in Ids : Open(row[s]) => s <= r
          ELSE 0

Goto(c, step) == call' = [call EXCEPT ![c].step = step]

CallEnds(c) == call' = [call EXCEPT ![c] = NoCall]

(* A trigger: a manual run, a tick of the schedule, the end of a deploy,   *)
(* or a deploy that needs the function's run first.                        *)
Trigger(c) ==
    /\ call[c].step = "idle"
    /\ last < MaxRuns
    /\ Goto(c, "active")
    /\ UNCHANGED <<rowVars, job, bodyVars, stop, stopped, budgets>>

(* busy reads the active row ...                                           *)
ReadActive(c) ==
    /\ call[c].step = "active"
    /\ call' = [call EXCEPT ![c] =
                  [step |-> "job", run |-> Newest, busy |-> Newest # 0 /\ Newest \notin linked]]
    /\ UNCHANGED <<rowVars, job, bodyVars, stop, stopped, budgets>>

(* A row whose job has ended is closed, so that it does not block.         *)
LostJob(r) == job[r] = "over"

(* ... then the row's job; a failing close ends the trigger.  AwaitIdle is *)
(* the same check by a deploy, which waits or gives up while a run goes on *)
(* and then lets Queue check again.                                        *)
ReadJob(c) ==
    /\ call[c].step = "job"
    /\ LET r == call[c].run
           going == call[c].busy \/ (r # 0 /\ ~LostJob(r)) IN
       \/ /\ IF r # 0 /\ ~going THEN row' = Finished(row, r, "cancelled") ELSE UNCHANGED row
          /\ \/ call' = [call EXCEPT ![c] = [step |-> "insert", run |-> 0, busy |-> going]]
             \/ c \in Inliners /\ going /\ CallEnds(c)
          /\ UNCHANGED budgets
       \/ r # 0 /\ ~going /\ CallEnds(c) /\ Fault /\ UNCHANGED row
    /\ UNCHANGED <<last, linked, inline, job, bodyVars, stop, stopped>>

(* The rows past the Keep newest, but for the open ones.                   *)
Pruned(f, n) ==
    {r \in 1..n : Closed(f[r]) /\ Cardinality({s \in (r + 1)..n : f[s] # "gone"}) >= Keep}

(* Start writes the row and prunes.  A row that may run goes on to its job *)
(* or, inline, to its body.                                                *)
Insert(c) ==
    /\ call[c].step = "insert"
    /\ last < MaxRuns
    /\ last' = last + 1
    /\ LET f == [row EXCEPT ![last'] = "queued"]
           gone == Pruned(f, last') IN
       row' = [r \in Ids |-> IF r \in gone THEN "gone" ELSE f[r]]
    /\ LET Step(st) == call' = [call EXCEPT ![c] = [step |-> st, run |-> last', busy |-> FALSE]] IN
       \/ call[c].busy /\ Step("refuse") /\ UNCHANGED <<inline, at, budgets>>
       \/ ~call[c].busy /\ c \in Callers /\ Step("enqueue") /\ UNCHANGED <<inline, at, budgets>>
       \/ /\ ~call[c].busy /\ c \in Inliners
          /\ Step("body")
          /\ inline' = inline \cup {last'}
          /\ at' = [at EXCEPT ![last'] = "get"]
          /\ UNCHANGED budgets
       \/ CallEnds(c) /\ Fault /\ UNCHANGED <<inline, at>>
    /\ UNCHANGED <<linked, job, verdict, dead, cont, stop, stopped>>

(* A run over another one is closed at once.                               *)
Refuse(c) ==
    /\ call[c].step = "refuse"
    /\ Finish(call[c].run, "cancelled")
    /\ CallEnds(c)
    /\ UNCHANGED <<last, linked, inline, job, bodyVars, stop, stopped>>

(* The job is queued, or the row closed when the queue refuses it.         *)
Enqueue(c) ==
    /\ call[c].step = "enqueue"
    /\ \/ /\ job' = [job EXCEPT ![call[c].run] = "queued"]
          /\ Goto(c, "link")
          /\ UNCHANGED <<row, budgets>>
       \/ /\ Finish(call[c].run, "failed")
          /\ CallEnds(c)
          /\ UNCHANGED job
    /\ UNCHANGED <<last, linked, inline, bodyVars, stop, stopped>>

(* Mutant: SetJob writes the row back as the caller read it.               *)
LinkedStale(r) == [row EXCEPT ![r] = "queued"]

(* SetJob re-reads the row, so it changes nothing else.                    *)
LinkedRow(r) == row

Link(c) ==
    /\ call[c].step = "link"
    /\ CallEnds(c)
    /\ \/ /\ row' = IF row[call[c].run] = "gone" THEN row ELSE LinkedRow(call[c].run)
          /\ linked' = IF row[call[c].run] = "gone" THEN linked ELSE linked \cup {call[c].run}
          /\ UNCHANGED budgets
       \/ Fault /\ UNCHANGED <<row, linked>>
    /\ UNCHANGED <<last, inline, job, bodyVars, stop, stopped>>

(***************************************************************************)
(* The run's body: the job's handler, or runFirst's call of Do             *)
(***************************************************************************)

BodyGoto(r, step) == at' = [at EXCEPT ![r] = step]

(* Mutant: the lock set is the run's own key only.                         *)
TileFreeAlways(r) == TRUE

(* The lock set holds the tile: no other run's job runs, and none older    *)
(* waits for the lock.                                                     *)
TileFree(r) ==
    /\ \A s \in Ids : job[s] = "running" => at[s] = "no"
    /\ \A s \in 1..(r - 1) : job[s] # "queued"

StartJob(r) ==
    /\ job[r] = "queued"
    /\ TileFree(r)
    /\ job' = [job EXCEPT ![r] = "running"]
    /\ BodyGoto(r, "get")
    /\ UNCHANGED <<rowVars, verdict, dead, cont, call, stop, stopped, budgets>>

Bodys == UNCHANGED <<last, linked, inline, job, dead, call, stop, stopped>>

(* Do returns err; "unset" asks to park.                                   *)
BodyReturns(r, err) ==
    /\ BodyGoto(r, "end")
    /\ verdict' = [verdict EXCEPT ![r] = err]

BodyIsOver(r) ==
    /\ BodyGoto(r, "no")
    /\ verdict' = [verdict EXCEPT ![r] = "none"]
    /\ dead' = dead \ {r}

(* Do reads the row: one that is gone or closed is not run.  A dead        *)
(* context fails the read.                                                 *)
BodyGet(r) ==
    /\ at[r] = "get"
    /\ \/ Open(row[r]) /\ BodyGoto(r, "build") /\ UNCHANGED verdict
       \/ ~Open(row[r]) /\ BodyReturns(r, "nil")
       \/ r \in dead /\ BodyReturns(r, "error")
    /\ UNCHANGED <<row, cont, budgets>>
    /\ Bodys

(* skipDownCron: a scheduled run whose node went down is skipped.          *)
BodySkips(r) ==
    /\ at[r] = "get" /\ r \notin inline
    /\ Open(row[r])
    /\ Finish(r, "cancelled")
    /\ BodyReturns(r, "error")
    /\ UNCHANGED cont
    /\ Bodys

(* fail: nothing to run, a spec that does not build, a container that does *)
(* not start.                                                              *)
BodyFails(r) ==
    /\ at[r] \in {"build", "run"}
    /\ Finish(r, IF r \in dead THEN "cancelled" ELSE "failed")
    /\ BodyReturns(r, "error")
    /\ UNCHANGED cont
    /\ Bodys

(* An unset param: the row stays queued.                                   *)
BodyUnset(r) ==
    /\ at[r] = "build"
    /\ BodyReturns(r, "unset")
    /\ UNCHANGED <<row, cont, budgets>>
    /\ Bodys

(* Begin: a run closed meanwhile comes back as it is; the write fails on a *)
(* dead context.                                                           *)
BodyBegins(r) ==
    /\ at[r] = "build"
    /\ \/ /\ Open(row[r]) /\ r \notin dead
          /\ row' = [row EXCEPT ![r] = "running"]
          /\ BodyGoto(r, "run")
          /\ UNCHANGED <<verdict, budgets>>
       \/ ~Open(row[r]) /\ BodyReturns(r, "nil") /\ UNCHANGED <<row, budgets>>
       \/ r \in dead /\ BodyReturns(r, "error") /\ UNCHANGED <<row, budgets>>
       \/ Fault /\ BodyReturns(r, "error") /\ UNCHANGED row
    /\ UNCHANGED cont
    /\ Bodys

(* RunOnce starts the container; on a dead context Docker's calls fail and *)
(* what was created is removed (BodyFails).                                *)
BodyRuns(r) ==
    /\ at[r] = "run" /\ r \notin dead
    /\ cont' = cont \cup {r}
    /\ BodyGoto(r, "wait")
    /\ UNCHANGED <<row, verdict, budgets>>
    /\ Bodys

ContainerExits(r) ==
    /\ r \in cont
    /\ cont' = cont \ {r}
    /\ UNCHANGED <<rowVars, job, at, verdict, dead, call, stop, stopped, budgets>>

(* Wait ends: the container exited, the tile's timeout ran out or the      *)
(* context died.  StopRemove runs on a context of its own, its error is    *)
(* dropped.                                                                *)
BodyWaited(r) ==
    /\ at[r] = "wait"
    /\ BodyGoto(r, "close")
    /\ \/ r \notin cont /\ verdict' \in {[verdict EXCEPT ![r] = v] : v \in {"ok", "failed"}}
       \/ verdict' = [verdict EXCEPT ![r] = "failed"]
    /\ (cont' = cont \ {r} /\ UNCHANGED budgets) \/ (Fault /\ UNCHANGED cont)
    /\ UNCHANGED row
    /\ Bodys

(* The row is closed with what was seen: a success on the job's context,   *)
(* anything else on one that outlives it.                                  *)
BodyCloses(r) ==
    /\ at[r] = "close"
    /\ IF verdict[r] # "ok"
       THEN Finish(r, IF r \in dead THEN "cancelled" ELSE "failed") /\ BodyReturns(r, "error")
       ELSE \/ r \notin dead /\ row' = Finished(row, r, "ok") /\ UNCHANGED budgets
               /\ BodyReturns(r, "nil")
            \/ r \in dead /\ UNCHANGED <<row, budgets>> /\ BodyReturns(r, "error")
            \/ Fault /\ UNCHANGED row /\ BodyReturns(r, "error")
    /\ UNCHANGED cont
    /\ Bodys

(* The Runner records the job: parked, unless it was stopped, or over.  A  *)
(* write that fails leaves the row running with no handler.                *)
JobEnds(r) ==
    /\ at[r] = "end" /\ r \notin inline
    /\ BodyIsOver(r)
    /\ \/ /\ job' = [job EXCEPT ![r] =
                       IF verdict[r] = "unset" /\ r \notin dead THEN "waiting" ELSE "over"]
          /\ UNCHANGED budgets
       \/ Fault /\ UNCHANGED job
    /\ UNCHANGED <<rowVars, cont, call, stop, stopped>>

(* runFirst closes what an error left open.                                *)
InlineClosed(r) == IF verdict[r] # "nil" THEN Finished(row, r, "cancelled") ELSE row

InlineEnds(c) ==
    /\ call[c].step = "body"
    /\ at[call[c].run] = "end"
    /\ BodyIsOver(call[c].run)
    /\ CallEnds(c)
    /\ \/ row' = InlineClosed(call[c].run) /\ UNCHANGED budgets
       \/ Fault /\ UNCHANGED row
    /\ UNCHANGED <<last, linked, inline, job, cont, stop, stopped>>

(* A parked job is queued again once its param is set.                     *)
Unpark(r) ==
    /\ job[r] = "waiting"
    /\ job' = [job EXCEPT ![r] = "queued"]
    /\ UNCHANGED <<rowVars, bodyVars, call, stop, stopped, budgets>>

(***************************************************************************)
(* Stops, and the panel's death                                            *)
(***************************************************************************)

(* Mutant: the context is cancelled whether or not a handler has one.      *)
CancelAlways(r) ==
    /\ job' = [job EXCEPT ![r] = IF @ \in {"queued", "waiting"} THEN "over" ELSE @]
    /\ dead' = dead \cup {r}

(* Runner.Cancel: one that has not started ends, a running one's context   *)
(* dies.                                                                   *)
Cancel(r) ==
    /\ job' = [job EXCEPT ![r] = IF @ \in {"queued", "waiting"} THEN "over" ELSE @]
    /\ dead' = IF job[r] = "running" /\ at[r] # "no" THEN dead \cup {r} ELSE dead

(* The stop button of a job, the run's own or the deploy's that carries it. *)
PressStop(r) ==
    /\ stops < MaxStops
    /\ stops' = stops + 1
    /\ \/ Live(job[r]) /\ Cancel(r)
       \/ r \in inline /\ at[r] # "no" /\ dead' = dead \cup {r} /\ UNCHANGED job
    /\ UNCHANGED <<rowVars, at, verdict, cont, call, stop, stopped, faults, crashes>>

(* StopRun reads the row ...                                               *)
StopRead(r) ==
    /\ stops < MaxStops
    /\ stops' = stops + 1
    /\ stop.step = "idle"
    /\ Open(row[r])
    /\ stop' = [step |-> IF r \in linked THEN "cancel" ELSE "close", run |-> r,
                link |-> r \in linked]
    /\ UNCHANGED <<rowVars, job, bodyVars, call, stopped, faults, crashes>>

(* Mutant: the row is closed and its job goes on.                          *)
StopCancelsNothing == UNCHANGED <<job, dead>>

(* ... cancels the job it names ...                                        *)
StopCancels == Cancel(stop.run)

StopJob ==
    /\ stop.step = "cancel"
    /\ \/ StopCancels /\ stop' = [stop EXCEPT !.step = "close"] /\ UNCHANGED budgets
       \/ Fault /\ stop' = NoStop /\ UNCHANGED <<job, dead>>
    /\ UNCHANGED <<rowVars, at, verdict, cont, call, stopped>>

(* ... and closes the row.                                                 *)
StopClose ==
    /\ stop.step = "close"
    /\ stop' = NoStop
    /\ Finish(stop.run, "cancelled")
    /\ stopped' = IF stop.link THEN stopped \cup {stop.run} ELSE stopped
    /\ UNCHANGED <<last, linked, inline, job, bodyVars, call>>

(* Mutant: boot closes only the runs that were running.                    *)
InterruptedRunning(r) == row[r] = "running"

(* Interrupted: boot fails the runs that were running and the queued ones  *)
(* no job carries.                                                         *)
Interrupted(r) == row[r] = "running" \/ (row[r] = "queued" /\ r \notin linked)

(* The panel dies and boots: containers stay, and the queue fails the jobs *)
(* that ran.                                                               *)
PanelDies ==
    /\ crashes < MaxCrashes
    /\ crashes' = crashes + 1
    /\ row' = [r \in Ids |-> IF Interrupted(r) THEN "failed" ELSE row[r]]
    /\ job' = [r \in Ids |-> IF job[r] = "running" THEN "over" ELSE job[r]]
    /\ at' = [r \in Ids |-> "no"]
    /\ verdict' = [r \in Ids |-> "none"]
    /\ dead' = {}
    /\ call' = [c \in Everyone |-> NoCall]
    /\ stop' = NoStop
    /\ UNCHANGED <<last, linked, inline, cont, stopped, stops, faults>>

Body(r) ==
    \/ BodyGet(r) \/ BodySkips(r) \/ BodyFails(r) \/ BodyUnset(r) \/ BodyBegins(r)
    \/ BodyRuns(r) \/ BodyWaited(r) \/ BodyCloses(r) \/ JobEnds(r)

Next ==
    \/ \E c \in Everyone :
         \/ Trigger(c) \/ ReadActive(c) \/ ReadJob(c) \/ Insert(c) \/ Refuse(c)
         \/ Enqueue(c) \/ Link(c) \/ InlineEnds(c)
    \/ \E r \in Ids :
         \/ StartJob(r) \/ Body(r) \/ ContainerExits(r) \/ Unpark(r)
         \/ PressStop(r) \/ StopRead(r)
    \/ StopJob \/ StopClose \/ PanelDies

Spec == Init /\ [][Next]_vars

(***************************************************************************)
(* Properties                                                              *)
(***************************************************************************)

Steps == {"no", "get", "build", "run", "wait", "close", "end"}
CallSteps == {"idle", "active", "job", "insert", "refuse", "enqueue", "link",
              "body"}

(* The variables have their types; a context is cancelled only under a     *)
(* body, and a call past its insert has a row.                             *)
TypeOK ==
    /\ last \in 0..MaxRuns
    /\ row \in [Ids -> {"none", "queued", "running", "ok", "failed", "cancelled", "gone"}]
    /\ linked \subseteq Ids /\ inline \subseteq Ids
    /\ job \in [Ids -> {"none", "queued", "waiting", "running", "over"}]
    /\ at \in [Ids -> Steps]
    /\ verdict \in [Ids -> {"none", "nil", "error", "unset", "ok", "failed"}]
    /\ dead \subseteq {r \in Ids : at[r] # "no"} /\ cont \subseteq Ids
    /\ call \in [Everyone -> [step : CallSteps, run : 0..MaxRuns, busy : BOOLEAN]]
    /\ \A c \in Everyone : call[c].step \in {"refuse", "enqueue", "link", "body"} => call[c].run # 0
    /\ stop \in [step : {"idle", "cancel", "close"}, run : 0..MaxRuns, link : BOOLEAN]
    /\ stop.step # "idle" => stop.run # 0
    /\ stopped \subseteq Ids
    /\ stops \in 0..MaxStops /\ faults \in 0..MaxFaults /\ crashes \in 0..MaxCrashes

(* A closed run stays as it was closed until it is pruned: the late SetJob *)
(* of its queuer, the Begin and Finish of its body, StopRun, a second      *)
(* trigger's clean-up and boot do not reopen or rewrite it.                *)
ClosedIsFinal ==
    [][\A r \in Ids : Closed(row[r]) => row'[r] \in {row[r], "gone"}]_vars

(* Somebody will close the row, or the next trigger may: busy closes one   *)
(* whose job has ended, which it can tell from the link only.              *)
Held(r) ==
    \/ r \in linked
    \/ Live(job[r])
    \/ at[r] # "no"
    \/ \E c \in Everyone : call[c].run = r /\ call[c].step \in {"refuse", "enqueue", "link", "body"}

(* One lost job never blocks the tile's runs: while every write succeeds,  *)
(* an open row is held, whoever raced and wherever the panel died.         *)
NotBlocked == faults = 0 => \A r \in Ids : Open(row[r]) => Held(r)

(* The containers of two queued runs of a tile never run at once, however  *)
(* many triggers found the tile idle, while the panel lives and Docker     *)
(* removes what it is told to.                                             *)
OneRunAtATime ==
    crashes = 0 /\ faults = 0 => \A r, s \in cont \ inline : r = s

(* StopRun of a run whose job it found: once it returns, the run has no    *)
(* container, or its body's context is dead and the body is there to       *)
(* remove it.                                                              *)
StopReaches ==
    \A r \in stopped :
        r \in cont /\ crashes = 0 /\ faults = 0 => r \in dead /\ at[r] = "wait"

(***************************************************************************)
(* What comments say and the code does not do                              *)
(***************************************************************************)

(* "so one lost job never blocks the tile's runs for good".                *)
NeverBlocked == \A r \in Ids : Open(row[r]) => Held(r)

(* "its job is still queued and will run it": after a boot a queued row    *)
(* with a job has one that is not over.                                    *)
QueuedWillRun == \A r \in Ids : row[r] = "queued" /\ r \in linked => job[r] # "over"

(* "StopRun cancels the run's job and closes the row as stopped": a closed *)
(* row's body does not go on to run a container on a live context.         *)
StoppedIsNotRun ==
    \A r \in Ids : row[r] = "cancelled" /\ r \in cont /\ at[r] = "wait" => r \in dead

=============================================================================
