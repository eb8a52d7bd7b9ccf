------------------------------- MODULE EnvMove -------------------------------
(***************************************************************************)
(* The moves of one environment to other nodes: the requests that begin    *)
(* them, flow/move's phases, the env operations service/move.go gives it   *)
(* and the move-env jobs that run them.                                    *)
(*                                                                         *)
(* A request reads the env, lists its moves and inserts a row, three calls *)
(* with nothing around them, then queues the row's job.  The phase in the  *)
(* env_moves row is what survives a restart: a job runs the work of the    *)
(* phase, then records the next one, and boot queues a job for every       *)
(* unfinished row.  The jobs of an env share its lock, so one runs at a    *)
(* time, and a newer one supersedes those whose locks it covers.           *)
(*                                                                         *)
(* Each tile of the env has one volume; its content is the set of writes   *)
(* in it, and it is torn when it holds a copy that failed half way or was  *)
(* taken while its tile ran.                                               *)
(*                                                                         *)
(* Every call of the forward path may fail: the move rolls back and its    *)
(* job ends.  The failing calls of a rollback, of a job's start and of     *)
(* boot's resume are counted, and so are the rollbacks the panel's death   *)
(* cuts short.                                                             *)
(***************************************************************************)
EXTENDS Naturals, FiniteSets

CONSTANTS
    Nodes,        \* the cluster's nodes
    Tiles,        \* the env's tiles, each with a volume
    Home,         \* the node the env starts on
    LiveMoves,    \* subset of BOOLEAN: the kinds of move, live and cold
    MaxMoves,     \* bound: requests for a move
    MaxWrites,    \* bound: writes the tiles do
    MaxTrouble    \* bound: faults, deaths, stops and deploys together

ASSUME MoveAssumption ==
    /\ Home \in Nodes
    /\ LiveMoves \subseteq BOOLEAN
    /\ \A m \in {MaxMoves, MaxWrites, MaxTrouble} : m \in Nat

Rows == 1..MaxMoves

VARIABLES
    phase,     \* phase[i]: env_moves.phase of row i, or where its request is
    from, to,  \* from[i], to[i]: its nodes
    live,      \* live[i]: its kind
    job,       \* job[i]: its job waiting in the queue, or due by its request
    resume,    \* the rows boot has still to queue
    envNode,   \* environments.node_id
    cont,      \* cont[n][t]: the tile's container on a node
    vol,       \* vol[n][t]: the writes in the tile's volume on a node
    torn,      \* the <<node, tile>> volumes with an inconsistent copy
    cur,       \* the row whose job runs, 0 without one
    pc,        \* where that job is, "none" without one
    mem,       \* the phase in the job's memory
    todo,      \* tiles the job's loop has still to do
    dead,      \* the job's context is cancelled
    acked,     \* history: acked[t], the writes the tile did
    late,      \* history: those done on the target of a move still starting
    newest,    \* history: the row inserted last, 0 before the first
    raced,     \* history: a row was inserted on a stale check or a stale node
    moves,     \* requests made
    writes,    \* writes the tiles did
    faults,    \* failing calls of rollbacks, job starts and resumes
    crashes,   \* deaths of the panel
    cuts,      \* those in the middle of a rollback
    stops,     \* presses of a job's stop button
    deploys,   \* deploys of a tile by other jobs
    deaths     \* deaths of a tile's container

rowVars == <<phase, from, to, live>>
queueVars == <<job, resume>>
nodeVars == <<cont, vol, torn>>
jobVars == <<cur, pc, mem, todo, dead>>
history == <<acked, late, newest, raced>>
budgets == <<moves, writes, faults, cuts, crashes, stops, deploys, deaths>>
vars == <<rowVars, queueVars, envNode, nodeVars, jobVars, history, budgets>>

(***************************************************************************)
(* Phases                                                                  *)
(***************************************************************************)

Ended(p) == p \in {"done", "rolled_back"}

(* A request that has no row: it read the env, it listed the env's moves,  *)
(* it ended without one.                                                   *)
Rowless == {"none", "asked", "checked", "refused"}

(* An unfinished row: a new move of the env is refused, boot resumes it.   *)
Unfinished(i) == phase[i] \notin Rowless /\ ~Ended(phase[i])

(* The row the running job holds in memory.                                *)
From == from[cur]
To == to[cur]
Live == live[cur]

(* Mutant: the live variant's phase is forgotten.                          *)
ReachedStopCold(p) == p \in {"stopping", "copying", "starting"}

(* The env may be stopped: a rollback starts it.                           *)
ReachedStop(p) == p \in {"stopping", "copying", "final", "starting"}

(* The phase after p in this move's variant.                               *)
NextPhase(p) ==
    IF p = "queued" THEN IF Live THEN "syncing" ELSE "stopping"
    ELSE IF p = "syncing" THEN "stopping"
    ELSE IF p = "stopping" THEN IF Live THEN "final" ELSE "copying"
    ELSE IF p \in {"copying", "final"} THEN "starting"
    ELSE IF p = "starting" THEN "cleaning"
    ELSE "done"

(***************************************************************************)
(* The env on its nodes                                                    *)
(***************************************************************************)

Runs(n, t) == cont[n][t] = "up"

SetCont(n, t, s) == cont' = [cont EXCEPT ![n][t] = s]

Init ==
    /\ phase = [i \in 0..MaxMoves |-> "none"]
    /\ from = [i \in 0..MaxMoves |-> Home] /\ to = [i \in 0..MaxMoves |-> Home]
    /\ live = [i \in 0..MaxMoves |-> FALSE]
    /\ job = [i \in 0..MaxMoves |-> "none"] /\ resume = {}
    /\ envNode = Home
    /\ cont = [n \in Nodes |-> [t \in Tiles |-> IF n = Home THEN "up" ELSE "none"]]
    /\ vol = [n \in Nodes |-> [t \in Tiles |-> {}]]
    /\ torn = {}
    /\ cur = 0 /\ pc = "none" /\ mem = "none" /\ todo = {} /\ dead = FALSE
    /\ acked = [t \in Tiles |-> {}]
    /\ late = {} /\ newest = 0 /\ raced = FALSE
    /\ moves = 0 /\ writes = 0 /\ faults = 0 /\ cuts = 0 /\ crashes = 0
    /\ stops = 0 /\ deploys = 0 /\ deaths = 0

(***************************************************************************)
(* Requests                                                                *)
(***************************************************************************)

SetPhase(i, p) == phase' = [phase EXCEPT ![i] = p]

(* A pin change or a repointed placement reads the env's node; the target  *)
(* is another one.  Requests are served once boot is through.              *)
Ask(n) ==
    /\ moves < MaxMoves
    /\ moves' = moves + 1
    /\ resume = {}
    /\ n # envNode
    /\ SetPhase(moves', "asked")
    /\ from' = [from EXCEPT ![moves'] = envNode]
    /\ to' = [to EXCEPT ![moves'] = n]
    /\ UNCHANGED <<live, queueVars, envNode, nodeVars, jobVars, history, writes, faults, crashes,
                   cuts, stops, deploys, deaths>>

(* Begin's check of the env's moves.                                       *)
MayBegin == \A i \in Rows : ~Unfinished(i)

(* Begin lists the moves; a failing list refuses too ...                   *)
Check(i) ==
    /\ phase[i] = "asked"
    /\ SetPhase(i, "refused") \/ (MayBegin /\ SetPhase(i, "checked"))
    /\ UNCHANGED <<from, to, live, queueVars, envNode, nodeVars, jobVars, history, budgets>>

(* ... and inserts the row, whatever happened since the list.              *)
Create(i, l) ==
    /\ phase[i] = "checked"
    /\ SetPhase(i, "queued")
    /\ live' = [live EXCEPT ![i] = l]
    /\ job' = [job EXCEPT ![i] = "due"]
    /\ newest' = i
    /\ raced' = (raced \/ ~MayBegin \/ from[i] # envNode)
    /\ UNCHANGED <<from, to, resume, envNode, nodeVars, jobVars, acked, late, budgets>>

CreateFails(i) ==
    /\ phase[i] = "checked"
    /\ SetPhase(i, "refused")
    /\ UNCHANGED <<from, to, live, queueVars, envNode, nodeVars, jobVars, history, budgets>>

(***************************************************************************)
(* The queue                                                               *)
(***************************************************************************)

(* The locks of row j's job are among those of row i's: the env and its    *)
(* tiles, and a live move's target node.                                   *)
Covers(i, j) == live[j] => live[i] /\ to[i] = to[j]

(* Row i's job is queued and supersedes: a waiting job ends, the running   *)
(* one has its context cancelled.                                          *)
Enqueue(i) ==
    /\ job' = [j \in 0..MaxMoves |->
                 IF j = i THEN "queued"
                 ELSE IF job[j] = "queued" /\ Covers(i, j) THEN "none" ELSE job[j]]
    /\ dead' = (dead \/ (cur # 0 /\ Covers(i, cur)))

(* The request ends by queueing its job; the row stays when it cannot, or  *)
(* when the placement's write before it fails.                             *)
QueueJob(i) ==
    /\ job[i] = "due"
    /\ Enqueue(i) \/ (job' = [job EXCEPT ![i] = "none"] /\ UNCHANGED dead)
    /\ UNCHANGED <<rowVars, resume, envNode, nodeVars, cur, pc, mem, todo, history, budgets>>

Trouble == faults + crashes + stops + deploys + deaths < MaxTrouble

Fault == Trouble /\ faults' = faults + 1

(* resumeMoves queues one of the rows it listed; it stops at an error,     *)
(* which boot only logs.                                                   *)
Resume(i) ==
    /\ i \in resume
    /\ \/ Enqueue(i) /\ resume' = resume \ {i} /\ UNCHANGED faults
       \/ Fault /\ resume' = {} /\ UNCHANGED <<job, dead>>
    /\ UNCHANGED <<rowVars, envNode, nodeVars, cur, pc, mem, todo, history, moves, writes, cuts,
                   crashes, stops, deploys, deaths>>

(***************************************************************************)
(* Run                                                                     *)
(***************************************************************************)

(* The job goes on with the work of phase p.                               *)
Enter(p) ==
    /\ pc' = IF p = "starting" THEN "take" ELSE "work"
    /\ mem' = p
    /\ todo' = Tiles

(* The job returns.                                                        *)
Return == cur' = 0 /\ pc' = "none" /\ mem' = "none" /\ todo' = {}

(* Rollback from phase p.                                                  *)
RollBack(p) ==
    /\ pc' = IF p = "starting" THEN "undoRemove"
             ELSE IF ReachedStop(p) THEN "undoTake" ELSE "undoRecord"
    /\ mem' = p
    /\ todo' = Tiles

(* runMove reads the row and, for a live move, opens the target's rsync    *)
(* ports; the job of an ended row has nothing to do.  Where a call fails   *)
(* the job fails and the row stays as it is.                               *)
StartJob(i) ==
    /\ job[i] = "queued" /\ cur = 0
    /\ job' = [job EXCEPT ![i] = "none"]
    /\ dead' = FALSE
    /\ \/ Unfinished(i) /\ cur' = i /\ Enter(phase[i]) /\ UNCHANGED faults
       \/ Ended(phase[i]) /\ UNCHANGED <<cur, pc, mem, todo, faults>>
       \/ Fault /\ UNCHANGED <<cur, pc, mem, todo>>
    /\ UNCHANGED <<rowVars, resume, envNode, nodeVars, history, moves, writes, cuts, crashes, stops,
                   deploys, deaths>>

(* An error in the work of mem: a cancelled job stops where it is, one at  *)
(* cleaning notes the error, any other rolls back.                         *)
Fails ==
    /\ IF dead \/ mem = "cleaning" THEN Return ELSE RollBack(mem) /\ UNCHANGED cur
    /\ UNCHANGED dead

(* The work of mem is done.                                                *)
Worked == pc' = "record" /\ UNCHANGED <<cur, mem, todo, dead>>

Working(p) == pc = "work" /\ mem = p

Others == UNCHANGED <<queueVars, history, budgets>>

(* prepare: helper images and the target's volumes.                        *)
Prepare ==
    /\ Working("queued")
    /\ Fails \/ (~dead /\ Worked)
    /\ UNCHANGED <<rowVars, envNode, nodeVars>>
    /\ Others

(* One tile of a loop is done.                                             *)
Next1(t) ==
    /\ ~dead
    /\ t \in todo
    /\ todo' = todo \ {t}
    /\ UNCHANGED <<rowVars, cur, pc, mem, dead>>

(* moveEnv.Stop passes over a container that is not running.               *)
Stops(n, t) == Runs(n, t)

Stop(t) ==
    /\ Working("stopping")
    /\ Next1(t)
    /\ IF Stops(envNode, t) THEN SetCont(envNode, t, "down") ELSE UNCHANGED cont
    /\ UNCHANGED <<envNode, vol, torn>>
    /\ Others

Copying == {"syncing", "copying", "final"}

(* Mutant: the final pass leaves the target as the first pass made it.     *)
CopiedOnce(t) == IF mem = "final" THEN vol[To][t] ELSE vol[From][t]

(* stream wipes the target first, rsync --delete removes what is not there. *)
Copied(t) == vol[From][t]

(* A tar stream or an rsync pass of one volume.  A copy of what a running  *)
(* tile writes to may be consistent or not.                                *)
Copy(t) ==
    /\ pc = "work" /\ mem \in Copying
    /\ Next1(t)
    /\ vol' = [vol EXCEPT ![To][t] = Copied(t)]
    /\ \/ torn' = torn \ {<<To, t>>} /\ <<From, t>> \notin torn
       \/ (Runs(From, t) \/ <<From, t>> \in torn) /\ torn' = torn \cup {<<To, t>>}
    /\ UNCHANGED <<envNode, cont>>
    /\ Others

(* A copy that breaks off leaves the target with a part of the volume.     *)
CopyFails(t) ==
    /\ pc = "work" /\ mem \in Copying
    /\ t \in todo
    /\ Fails
    /\ torn' = torn \cup {<<To, t>>}
    /\ UNCHANGED <<rowVars, envNode, cont, vol>>
    /\ Others

(* Start on the target: the env's node first ...                           *)
Take ==
    /\ pc = "take"
    /\ \/ Fails /\ UNCHANGED envNode
       \/ ~dead /\ envNode' = To /\ pc' = "work" /\ UNCHANGED <<cur, mem, todo, dead>>
    /\ UNCHANGED <<rowVars, nodeVars>>
    /\ Others

(* ... then Redeploy of every tile; one that fails may have its tile up.   *)
Start(t) ==
    /\ Working("starting")
    /\ Next1(t)
    /\ SetCont(To, t, "up")
    /\ UNCHANGED <<envNode, vol, torn>>
    /\ Others

StartFails(t) ==
    /\ Working("starting")
    /\ t \in todo
    /\ Fails
    /\ UNCHANGED cont \/ SetCont(To, t, "up")
    /\ UNCHANGED <<rowVars, envNode, vol, torn>>
    /\ Others

(* Remove on the source: the containers go, the volumes stay.              *)
Clean(t) ==
    /\ Working("cleaning")
    /\ Next1(t)
    /\ SetCont(From, t, "none")
    /\ UNCHANGED <<envNode, vol, torn>>
    /\ Others

(* A loop over the tiles ends, or an error between its calls ends it.      *)
LoopEnds ==
    /\ pc = "work" /\ mem # "queued"
    /\ \/ Fails
       \/ ~dead /\ todo = {} /\ Worked
    /\ UNCHANGED <<rowVars, envNode, nodeVars>>
    /\ Others

(* Mutant: the job does not look whether the move has ended.               *)
RecordedOnly(p) == SetPhase(cur, p) /\ Enter(p) /\ UNCHANGED cur

(* The next phase is written before its work starts.                       *)
Recorded(p) ==
    /\ SetPhase(cur, p)
    /\ IF Ended(p) THEN Return ELSE Enter(p) /\ UNCHANGED cur

(* Mutant: a move whose target started rolls back too.                     *)
NotRecordedUndone(p) ==
    /\ IF dead \/ p = "done" THEN Return ELSE RollBack(p) /\ UNCHANGED cur
    /\ UNCHANGED phase

(* A write that fails finds the next phase in memory already: a move whose *)
(* target started notes the error, any other rolls back from there.        *)
NotRecorded(p) ==
    IF dead \/ p = "done" THEN Return /\ UNCHANGED phase
    ELSE IF p = "cleaning" THEN Return /\ (UNCHANGED phase \/ SetPhase(cur, p))
    ELSE RollBack(p) /\ UNCHANGED <<cur, phase>>

Record ==
    /\ pc = "record"
    /\ LET p == NextPhase(mem) IN (~dead /\ Recorded(p)) \/ NotRecorded(p)
    /\ UNCHANGED <<from, to, live, envNode, nodeVars, dead>>
    /\ Others

(***************************************************************************)
(* Rollback                                                                *)
(***************************************************************************)

Undoing == {"undoRemove", "undoTake", "undoStart", "undoRecord"}

UndoOthers == UNCHANGED <<queueVars, history, moves, writes, cuts, crashes, stops, deploys, deaths>>

(* Mutant: what was started on the target stays there.                     *)
UndoLeaves(t) == UNCHANGED cont

UndoClears(t) == SetCont(To, t, "none")

(* What a failed start left on the target goes, best effort.               *)
UndoRemove(t) ==
    /\ pc = "undoRemove"
    /\ t \in todo
    /\ UndoClears(t)
    /\ todo' = todo \ {t}
    /\ UNCHANGED <<rowVars, envNode, vol, torn, cur, pc, mem, dead, faults>>
    /\ UndoOthers

UndoRemoveEnds ==
    /\ pc = "undoRemove"
    /\ (todo = {} /\ UNCHANGED faults) \/ Fault
    /\ pc' = "undoTake"
    /\ todo' = Tiles
    /\ UNCHANGED <<rowVars, envNode, nodeVars, cur, mem, dead>>
    /\ UndoOthers

(* A rollback that fails leaves the move unfinished, at the phase it rolls *)
(* back from when that can be written.                                     *)
UndoFails ==
    /\ Fault
    /\ Return
    /\ UNCHANGED phase \/ SetPhase(cur, mem)

UndoTake ==
    /\ pc = "undoTake"
    /\ \/ /\ envNode' = From
          /\ pc' = "undoStart"
          /\ UNCHANGED <<phase, cur, mem, todo, faults>>
       \/ UndoFails /\ UNCHANGED envNode
    /\ UNCHANGED <<from, to, live, nodeVars, dead>>
    /\ UndoOthers

UndoStart(t) ==
    /\ pc = "undoStart"
    /\ t \in todo
    /\ \/ /\ SetCont(From, t, "up")
          /\ todo' = todo \ {t}
          /\ UNCHANGED <<phase, cur, pc, mem, faults>>
       \/ UndoFails /\ UNCHANGED cont
    /\ UNCHANGED <<from, to, live, envNode, vol, torn, dead>>
    /\ UndoOthers

UndoRecord ==
    /\ pc = "undoRecord" \/ (pc = "undoStart" /\ todo = {})
    /\ Return
    /\ (SetPhase(cur, "rolled_back") /\ UNCHANGED faults) \/ (Fault /\ UNCHANGED phase)
    /\ UNCHANGED <<from, to, live, envNode, nodeVars, dead>>
    /\ UndoOthers

(***************************************************************************)
(* Everyone else                                                           *)
(***************************************************************************)

(* The stop button: a queued job ends, a running one has its context       *)
(* cancelled, which Rollback does not look at.                             *)
PressStop(i) ==
    /\ Trouble
    /\ stops' = stops + 1
    /\ \/ job[i] = "queued" /\ job' = [job EXCEPT ![i] = "none"] /\ UNCHANGED dead
       \/ cur = i /\ dead' = TRUE /\ UNCHANGED job
    /\ UNCHANGED <<rowVars, resume, envNode, nodeVars, cur, pc, mem, todo, history, moves, writes,
                   faults, cuts, crashes, deploys, deaths>>

(* The panel dies with its requests and its running job; queued jobs are   *)
(* rows of the queue.  The next boot lists the unfinished moves, or only   *)
(* logs that it could not.                                                 *)
PanelDies ==
    /\ Trouble
    /\ crashes' = crashes + 1
    /\ cuts' = IF pc \in Undoing THEN cuts + 1 ELSE cuts
    /\ phase' = [i \in 0..MaxMoves |->
                   IF phase[i] \in {"asked", "checked"} THEN "refused" ELSE phase[i]]
    /\ job' = [i \in 0..MaxMoves |-> IF job[i] = "due" THEN "none" ELSE job[i]]
    /\ Return
    /\ dead' = FALSE
    /\ \/ resume' = {i \in Rows : Unfinished(i)} /\ UNCHANGED faults
       \/ resume' = {} /\ Fault
    /\ UNCHANGED <<from, to, live, envNode, nodeVars, history, moves, writes, stops, deploys, deaths>>

(* Any other job on a tile runs when the move's does not: it holds the     *)
(* tile's lock.                                                            *)
Deploy(t) ==
    /\ Trouble
    /\ deploys' = deploys + 1
    /\ cur = 0
    /\ SetCont(envNode, t, "up")
    /\ UNCHANGED <<rowVars, queueVars, envNode, vol, torn, jobVars, history, moves, writes, faults,
                   cuts, crashes, stops, deaths>>

Write(n, t) ==
    /\ writes < MaxWrites
    /\ writes' = writes + 1
    /\ Runs(n, t)
    /\ vol' = [vol EXCEPT ![n][t] = @ \cup {writes'}]
    /\ acked' = [acked EXCEPT ![t] = @ \cup {writes'}]
    /\ late' = IF \E i \in Rows : n = to[i] /\ phase[i] = "starting"
                 THEN late \cup {writes'} ELSE late
    /\ UNCHANGED <<rowVars, queueVars, envNode, cont, torn, jobVars, newest, raced, moves, faults,
                   cuts, crashes, stops, deploys, deaths>>

(* A container exits and its restart policy brings it back after a while.  *)
Dies(n, t) ==
    /\ Trouble
    /\ deaths' = deaths + 1
    /\ Runs(n, t)
    /\ SetCont(n, t, "restarting")
    /\ UNCHANGED <<rowVars, queueVars, envNode, vol, torn, jobVars, history, moves, writes, faults,
                   cuts, crashes, stops, deploys>>

Restarts(n, t) ==
    /\ cont[n][t] = "restarting"
    /\ SetCont(n, t, "up")
    /\ UNCHANGED <<rowVars, queueVars, envNode, vol, torn, jobVars, history, budgets>>

Next ==
    \/ \E n \in Nodes : Ask(n)
    \/ \E i \in Rows, l \in LiveMoves : Create(i, l)
    \/ \E i \in Rows :
         \/ Check(i) \/ CreateFails(i) \/ QueueJob(i) \/ Resume(i)
         \/ StartJob(i) \/ PressStop(i)
    \/ Prepare \/ Take \/ LoopEnds \/ Record
    \/ UndoRemoveEnds \/ UndoTake \/ UndoRecord \/ PanelDies
    \/ \E t \in Tiles :
         \/ Stop(t) \/ Copy(t) \/ CopyFails(t) \/ Start(t) \/ StartFails(t) \/ Clean(t)
         \/ UndoRemove(t) \/ UndoStart(t) \/ Deploy(t)
    \/ \E n \in Nodes, t \in Tiles : Write(n, t) \/ Dies(n, t) \/ Restarts(n, t)

Spec == Init /\ [][Next]_vars

(***************************************************************************)
(* Properties                                                              *)
(***************************************************************************)

Phases == Rowless \cup {"queued", "syncing", "stopping", "copying", "final", "starting",
                        "cleaning", "done", "rolled_back"}

TypeOK ==
    /\ phase \in [0..MaxMoves -> Phases]
    /\ from \in [0..MaxMoves -> Nodes] /\ to \in [0..MaxMoves -> Nodes]
    /\ live \in [0..MaxMoves -> BOOLEAN]
    /\ job \in [0..MaxMoves -> {"none", "due", "queued"}]
    /\ resume \subseteq Rows
    /\ envNode \in Nodes
    /\ cont \in [Nodes -> [Tiles -> {"none", "down", "up", "restarting"}]]
    /\ vol \in [Nodes -> [Tiles -> SUBSET (1..MaxWrites)]]
    /\ torn \subseteq Nodes \X Tiles
    /\ cur \in 0..MaxMoves
    /\ pc \in {"none", "take", "work", "record"} \cup Undoing
    /\ mem \in Phases
    /\ pc # "none" => mem \notin Rowless /\ ~Ended(mem)
    /\ todo \subseteq Tiles
    /\ dead \in BOOLEAN
    /\ acked \in [Tiles -> SUBSET (1..MaxWrites)]
    /\ late \subseteq 1..MaxWrites
    /\ newest \in 0..MaxMoves /\ raced \in BOOLEAN
    /\ moves \in 0..MaxMoves /\ writes \in 0..MaxWrites
    /\ faults \in Nat /\ crashes \in Nat /\ cuts \in Nat
    /\ stops \in Nat /\ deploys \in Nat /\ deaths \in Nat

Alive(n, t) == cont[n][t] \in {"up", "restarting"}

(* No row was inserted beside an unfinished one or with a node the env had *)
(* left, every counted call was answered, no rollback was cut short, no    *)
(* container died of its own and no other job deployed a tile.  Stops,     *)
(* failing calls of the forward path and other deaths of the panel are     *)
(* calm.                                                                   *)
Calm == ~raced /\ faults = 0 /\ cuts = 0 /\ deploys = 0 /\ deaths = 0

(* While calm, no tile runs without its data: its volume is a consistent   *)
(* copy and has every write the tile did, but for the ones it did on a     *)
(* target whose start was still under way.                                 *)
RunsOnItsData ==
    Calm => \A n \in Nodes, t \in Tiles :
                Runs(n, t) => acked[t] \ late \subseteq vol[n][t] /\ <<n, t>> \notin torn

(* While calm, no tile runs on two nodes at once.                          *)
OneNode == Calm => \A m, n \in Nodes, t \in Tiles : Runs(m, t) /\ Runs(n, t) => m = n

(* An ended move leaves the env whole on its node until the next one is    *)
(* begun, whatever failed, was cut short, died or was deployed in between: *)
(* on the target with nothing on the source, or on the source.  Rows that  *)
(* raced are left out: two unfinished moves undo each other.               *)
EndsWhole ==
    ~raced =>
    /\ phase[newest] = "done" =>
         /\ envNode = to[newest]
         /\ \A t \in Tiles : Alive(to[newest], t) /\ cont[from[newest]][t] = "none"
    /\ phase[newest] = "rolled_back" =>
         envNode = from[newest] /\ \A t \in Tiles : Alive(from[newest], t)

(* No job runs, waits or is still to be queued by boot.                    *)
Idle == cur = 0 /\ resume = {} /\ \A i \in Rows : job[i] # "queued"

(* An env no job works on is not left stopped, whatever call of its move   *)
(* failed and wherever the panel died: rollback or the resumed job starts  *)
(* it.  Left out are a pressed stop, which leaves a move where it is, a    *)
(* failing call of a rollback, of a job's start or of boot's resume, after *)
(* which the move waits for the next boot, and rows that raced.            *)
NotLeftDown ==
    Idle /\ ~raced /\ stops = 0 /\ faults = 0 => \A t \in Tiles : Alive(envNode, t)

(***************************************************************************)
(* What comments say and the code does not do                              *)
(***************************************************************************)

(* "One unfinished move per env": Begin's list and its insert are two      *)
(* calls, and two requests may both have listed before either inserts.     *)
OneUnfinishedMove == \A i, j \in Rows : Unfinished(i) /\ Unfinished(j) => i = j

(* "every phase is safe to repeat": RunsOnItsData with deaths of the panel *)
(* inside a rollback, which has started the source again by then.          *)
ResumedOnItsData ==
    ~raced /\ faults = 0 /\ deploys = 0 /\ deaths = 0 =>
        \A n \in Nodes, t \in Tiles :
            Runs(n, t) => acked[t] \ late \subseteq vol[n][t] /\ <<n, t>> \notin torn

(* "queues a job for every move a restart cut off": NotLeftDown with calls *)
(* of a rollback, of a job's start or of boot's resume that fail.          *)
ResumedNotLeftDown == Idle /\ ~raced /\ stops = 0 => \A t \in Tiles : Alive(envNode, t)

(* No write of a tile is lost, the ones on a starting target included.     *)
NoWriteLost ==
    \A n \in Nodes, t \in Tiles : Runs(n, t) => acked[t] \subseteq vol[n][t]

=============================================================================
