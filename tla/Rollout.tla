------------------------------- MODULE Rollout -------------------------------
(***************************************************************************)
(* One tile's containers and its VIP: the rollout of flow/deploy, the tile *)
(* verbs of flow/container and the VIP rebuild of the minute tick.         *)
(*                                                                         *)
(* The tile's jobs hold its lock in the job queue (JobQueue's              *)
(* MutualExclusion), so at most one of them is under way: pc is where it   *)
(* is, and its local variables are lost when the panel dies.  Between any  *)
(* two Docker calls of a job the tick, a dying container, the job's        *)
(* context or the panel may step in.                                       *)
(*                                                                         *)
(* A Docker call may fail with no effect, or have its effect while its     *)
(* answer is lost.  Both cost a fault, except what the job's dead context  *)
(* explains: a call on it is not sent, and a call in flight when it dies   *)
(* takes effect and reports an error.  A spec the daemon refuses and a     *)
(* replica that fails the gate are no faults: they are ordinary outcomes.  *)
(***************************************************************************)
EXTENDS Naturals, FiniteSets

CONSTANTS
    Modes,        \* subset of {"overlap", "stopFirst"}: how the tile may roll
    Replicas,     \* the replica counts an overlap rollout may want
    Verbs,        \* subset of {"startTile", "stopTile", "restartTile"}: the tile jobs
    MaxMade,      \* bound: containers ever created
    MaxFaults,    \* bound: Docker calls that fail
    MaxCrashes,   \* bound: deaths of the panel
    MaxDeaths     \* bound: deaths of containers

ASSUME RolloutAssumption ==
    /\ Modes \subseteq {"overlap", "stopFirst"}
    /\ Replicas \subseteq Nat \ {0}
    /\ Verbs \subseteq {"startTile", "stopTile", "restartTile"}
    /\ MaxMade \in Nat
    /\ MaxFaults \in Nat
    /\ MaxCrashes \in Nat
    /\ MaxDeaths \in Nat

VARIABLES
    made,      \* containers created so far; a container's id is its age
    cont,      \* Docker's state of each container, "none" when there is none
    data,      \* containers created with the tile's mounts
    gated,     \* containers that passed the health gate
    flaky,     \* containers whose restart count is not zero
    vip,       \* the containers the VIP's rules name
    tick,      \* the minute rebuild: idle, or holding vipLock with its rows read
    rows,      \* the running replicas the rebuild read
    pc,        \* where the tile's job is
    mode,      \* how the last rollout rolls
    want,      \* replicas it wants
    old,       \* the replicas it listed, any state
    oldUp,     \* the listed ones that were running
    new,       \* new replicas past the gate (started in rollout)
    cur,       \* the new replica at hand, 0 for none
    stopped,   \* old replicas it stopped and has not started again
    todo,      \* what the loop at hand has still to do
    dead,      \* the job's context is done
    result,    \* how the last job on the tile ended
    served,    \* history: the VIP led to a gated replica when the rollout began
    doubled,   \* history: a verb started several containers with the tile's mounts
    faults, crashes, deaths

dockVars == <<made, cont, data, gated, flaky>>
vipVars == <<vip, tick, rows>>
jobVars == <<pc, mode, want, old, oldUp, new, cur, stopped, todo, dead, result, served,
             doubled>>
budgets == <<faults, crashes, deaths>>
vars == <<dockVars, vipVars, jobVars, budgets>>

Ids == 1..MaxMade

Up == {c \in Ids : cont[c] = "up"}
Exists == {c \in Ids : cont[c] # "none"}

Init ==
    /\ made = 0
    /\ cont = [c \in Ids |-> "none"]
    /\ data = {} /\ gated = {} /\ flaky = {}
    /\ vip = {} /\ tick = "idle" /\ rows = {}
    /\ pc = "idle"
    /\ mode = "none"
    /\ want = 0
    /\ old = {} /\ oldUp = {} /\ new = {} /\ cur = 0 /\ stopped = {} /\ todo = {}
    /\ dead = FALSE
    /\ result = "none"
    /\ served = FALSE /\ doubled = FALSE
    /\ faults = 0 /\ crashes = 0 /\ deaths = 0

(***************************************************************************)
(* Docker calls                                                            *)
(***************************************************************************)

Fault == faults < MaxFaults /\ faults' = faults + 1

(* A call on the job's context that answers with an error and did nothing. *)
NotDone == (dead /\ UNCHANGED <<faults, dead>>) \/ (Fault /\ UNCHANGED dead)

(* A call that took effect and answered with an error: its answer is lost, *)
(* or the context died while it was in flight.                             *)
DoneUnheard ==
    /\ ~dead
    /\ \/ Fault /\ UNCHANGED dead
       \/ dead' = TRUE /\ UNCHANGED faults

(* A call the job heard succeed.                                           *)
Done == ~dead /\ UNCHANGED <<faults, dead>>

Set(c, s) == cont' = [cont EXCEPT ![c] = s]

(* StopRemove on a context that outlives the job's, its error ignored: the *)
(* container goes, or stays as it was or stopped.                          *)
Drop(c) ==
    \/ Set(c, "none") /\ UNCHANGED faults
    \/ Fault /\ UNCHANGED cont
    \/ Fault /\ cont[c] = "up" /\ Set(c, "down")

(* The job returns, its locals are gone.                                   *)
End(r) ==
    /\ pc' = "idle"
    /\ result' = r
    /\ want' = 0 /\ old' = {} /\ cur' = 0 /\ stopped' = {} /\ todo' = {}

(* The job goes on at p.                                                   *)
Goto(p) == pc' = p /\ UNCHANGED <<want, old, result>>

(***************************************************************************)
(* rollout                                                                 *)
(***************************************************************************)

(* Mutant: only the running replicas are listed.                           *)
ListedUpOnly == Up

(* Tiles.Replicas: every replica, whatever state a crash left it in.       *)
Listed == Exists

(* rollout lists the replicas and swap is granted.                         *)
Begin(m, n) ==
    /\ pc = "idle"
    /\ mode' = m
    /\ want' = n
    /\ old' = Listed
    /\ oldUp' = Up
    /\ new' = {}
    /\ cur' = 0
    /\ stopped' = {}
    /\ todo' = {}
    /\ dead' = FALSE
    /\ result' = "none"
    /\ served' = /\ vip \cap Up \cap gated # {}
                 /\ tick = "read" => rows \cap Up \cap gated # {}
    /\ pc' = IF m = "overlap" THEN "start" ELSE "create"
    /\ UNCHANGED <<dockVars, vipVars, doubled, budgets>>

(* Overlap: Tiles.Start runs one more replica.  Run drops a container that *)
(* does not start; one whose create went unheard is left behind.           *)
StartReplica ==
    LET c == made + 1 IN
    /\ pc = "start"
    /\ c \in Ids
    /\ \/ /\ Done
          /\ made' = c
          /\ Set(c, "up")
          /\ cur' = c
          /\ pc' = "gate"
          /\ UNCHANGED todo
       \/ /\ pc' = "undo"
          /\ todo' = new
          /\ UNCHANGED cur
          /\ \/ UNCHANGED <<made, cont, faults, dead>>
             \/ /\ DoneUnheard
                /\ made' = c
                /\ \E s \in {"created", "up"} : Set(c, s) /\ (s = "up" => faults' # faults)
    /\ UNCHANGED <<data, gated, flaky, vipVars, mode, want, old, oldUp, new, stopped,
                   result, served, doubled, crashes, deaths>>

(* Healthy: running, healthy or past the grace period, and never restarted. *)
PassesGate(c) == cont[c] = "up" /\ c \notin flaky

(* The gate of the overlap: the replica is kept, or removed and the ones   *)
(* started before it after it.                                             *)
Gate ==
    /\ pc = "gate"
    /\ \/ /\ Done
          /\ PassesGate(cur)
          /\ gated' = gated \cup {cur}
          /\ new' = new \cup {cur}
          /\ pc' = IF Cardinality(new) + 1 < want THEN "start" ELSE "route"
          /\ UNCHANGED <<cont, todo>>
       \/ /\ Drop(cur)
          /\ pc' = "undo"
          /\ todo' = new
          /\ UNCHANGED <<gated, new, dead>>
    /\ UNCHANGED <<made, data, flaky, vipVars, mode, want, old, oldUp, cur, stopped, result,
                   served, doubled, crashes, deaths>>

Undo(c) ==
    /\ pc = "undo"
    /\ c \in todo
    /\ Drop(c)
    /\ todo' = todo \ {c}
    /\ UNCHANGED <<made, data, gated, flaky, vipVars, pc, mode, want, old, oldUp, new, cur,
                   stopped, dead, result, served, doubled, crashes, deaths>>

UndoEnds ==
    /\ pc = "undo"
    /\ todo = {}
    /\ End("failed")
    /\ UNCHANGED <<dockVars, vipVars, mode, oldUp, new, dead, served, doubled, budgets>>

(* Mutant: route does not take the lock.                                   *)
LockFreeAlways == TRUE

(* routeVIP and the minute rebuild share the node's vipLock.               *)
LockFree == tick = "idle"

(* After the first route the old replicas go; an overlap rollout with none *)
(* is done.                                                                *)
AfterFirstRoute ==
    IF mode = "overlap" /\ old = {}
    THEN End("ok")
    ELSE Goto("remove") /\ todo' = old /\ UNCHANGED <<cur, stopped>>

(* route: the VIP is set to the running replicas, then the proxy synced.   *)
(* An error ends the job where it is.                                      *)
Route ==
    /\ pc \in {"route", "route2"}
    /\ LockFree
    /\ \/ /\ Done
          /\ vip' = Up
          /\ IF pc = "route" THEN AfterFirstRoute ELSE End("ok")
       \/ /\ End("failed")
          /\ \/ NotDone /\ UNCHANGED vip
             \/ DoneUnheard /\ vip' = Up
    /\ doubled' = (doubled /\ result' # "ok")
    /\ UNCHANGED <<dockVars, tick, rows, mode, oldUp, new, served, crashes, deaths>>

(* remove: one old replica after the other, the first error ends the job.  *)
RemoveOld(c) ==
    /\ pc = "remove"
    /\ c \in todo
    /\ \/ /\ Done
          /\ Set(c, "none")
          /\ Goto(pc)
          /\ todo' = todo \ {c}
          /\ UNCHANGED <<cur, stopped>>
       \/ /\ End("failed")
          /\ \/ NotDone /\ UNCHANGED cont
             \/ DoneUnheard /\ Set(c, "none")
             \/ DoneUnheard /\ cont[c] = "up" /\ Set(c, "down")
    /\ UNCHANGED <<made, data, gated, flaky, vipVars, mode, oldUp, new, served, doubled, crashes,
                   deaths>>

RemoveEnds ==
    /\ pc = "remove"
    /\ todo = {}
    /\ pc' = "route2"
    /\ UNCHANGED <<dockVars, vipVars, mode, want, old, oldUp, new, cur, stopped, todo, dead,
                   result, served, doubled, budgets>>

(***************************************************************************)
(* stopFirst                                                               *)
(***************************************************************************)

(* Mutant: nothing is stopped.                                             *)
ToStopNone == {}

(* The stop loop skips a replica that was not running when listed.         *)
ToStop == oldUp

(* CreateReplica, before anything that runs is touched.                    *)
Create ==
    LET c == made + 1 IN
    /\ pc = "create"
    /\ c \in Ids
    /\ \/ /\ Done
          /\ made' = c
          /\ Set(c, "created")
          /\ data' = data \cup {c}
          /\ Goto("stop")
          /\ cur' = c
          /\ todo' = ToStop
          /\ UNCHANGED stopped
       \/ /\ End("failed")
          /\ \/ UNCHANGED <<made, cont, data, faults, dead>>
             \/ DoneUnheard /\ made' = c /\ Set(c, "created") /\ data' = data \cup {c}
    /\ UNCHANGED <<gated, flaky, vipVars, mode, oldUp, new, served, doubled, crashes, deaths>>

(* A stop that answers with an error is not noted in stopped.              *)
StopOld(c) ==
    /\ pc = "stop"
    /\ c \in todo
    /\ \/ /\ Done
          /\ Set(c, "down")
          /\ stopped' = stopped \cup {c}
          /\ todo' = todo \ {c}
          /\ UNCHANGED pc
       \/ /\ pc' = "revive"
          /\ UNCHANGED <<stopped, todo>>
          /\ \/ NotDone /\ UNCHANGED cont
             \/ DoneUnheard /\ Set(c, "down")
    /\ UNCHANGED <<made, data, gated, flaky, vipVars, mode, want, old, oldUp, new, cur, result,
                   served, doubled, crashes, deaths>>

(* Launch starts the new replica; one that does not start is dropped.      *)
Launch ==
    /\ pc = "stop"
    /\ todo = {}
    /\ \/ /\ Done
          /\ Set(cur, "up")
          /\ pc' = "launched"
          /\ UNCHANGED cur
       \/ /\ Drop(cur)
          /\ pc' = "revive"
          /\ cur' = 0
          /\ UNCHANGED dead
    /\ UNCHANGED <<made, data, gated, flaky, vipVars, mode, want, old, oldUp, new, stopped,
                   todo, result, served, doubled, crashes, deaths>>

(* The gate of stopFirst: the replica is kept, or dropped and the old ones *)
(* are started again.                                                      *)
LaunchGate ==
    /\ pc = "launched"
    /\ \/ /\ Done
          /\ PassesGate(cur)
          /\ gated' = gated \cup {cur}
          /\ new' = new \cup {cur}
          /\ pc' = "route"
          /\ UNCHANGED <<cont, cur>>
       \/ /\ Drop(cur)
          /\ pc' = "revive"
          /\ cur' = 0
          /\ UNCHANGED <<gated, new, dead>>
    /\ UNCHANGED <<made, data, flaky, vipVars, mode, want, old, oldUp, stopped, todo, result,
                   served, doubled, crashes, deaths>>

(* revive drops the new replica that never ran ...                         *)
ReviveDrop ==
    /\ pc = "revive"
    /\ cur # 0
    /\ Drop(cur)
    /\ cur' = 0
    /\ UNCHANGED <<made, data, gated, flaky, vipVars, pc, mode, want, old, oldUp, new, stopped,
                   todo, dead, result, served, doubled, crashes, deaths>>

(* Mutant: the old replica is not started again.                           *)
ReviveNone(c) == UNCHANGED <<cont, faults>>

(* ... starts what was stopped, a failure logged ...                       *)
ReviveStart(c) ==
    \/ Set(c, "up") /\ UNCHANGED faults
    \/ Fault /\ UNCHANGED cont

Revive(c) ==
    /\ pc = "revive"
    /\ cur = 0
    /\ c \in stopped
    /\ ReviveStart(c)
    /\ stopped' = stopped \ {c}
    /\ UNCHANGED <<made, data, gated, flaky, vipVars, pc, mode, want, old, oldUp, new, cur,
                   todo, dead, result, served, doubled, crashes, deaths>>

(* ... and routes, on a context that survives a cancel.                    *)
ReviveRoute ==
    /\ pc = "revive"
    /\ cur = 0
    /\ stopped = {}
    /\ LockFree
    /\ End("failed")
    /\ \/ vip' = Up /\ UNCHANGED faults
       \/ Fault /\ UNCHANGED vip
    /\ UNCHANGED <<dockVars, tick, rows, mode, oldUp, new, dead, served, doubled, crashes, deaths>>

(***************************************************************************)
(* The tile verbs: start, stop and restart every replica                   *)
(***************************************************************************)

BeginVerb(v) ==
    /\ pc = "idle"
    /\ Exists # {}
    /\ pc' = v
    /\ todo' = Exists
    /\ dead' = FALSE
    /\ result' = "verb"
    /\ doubled' = (doubled \/ (v # "stopTile" /\ \E c, d \in Exists \cap data : c # d))
    /\ UNCHANGED <<dockVars, vipVars, mode, want, old, oldUp, new, cur, stopped, served, budgets>>

(* Docker's stop of a container that does not run changes nothing; its     *)
(* start and its restart start any container.                              *)
Verbed(c) ==
    IF pc # "stopTile" THEN "up"
    ELSE IF cont[c] = "created" THEN "created" ELSE "down"

(* each goes on after an error.                                            *)
Verb(c) ==
    /\ pc \in {"startTile", "stopTile", "restartTile"}
    /\ c \in todo
    /\ todo' = todo \ {c}
    /\ \/ (Done \/ DoneUnheard) /\ Set(c, Verbed(c))
       \/ NotDone /\ UNCHANGED cont
    /\ flaky' = IF cont'[c] = "up" THEN flaky \ {c} ELSE flaky
    /\ UNCHANGED <<made, data, gated, vipVars, pc, mode, want, old, oldUp, new, cur, stopped,
                   result, served, doubled, crashes, deaths>>

VerbEnds ==
    /\ pc \in {"startTile", "stopTile", "restartTile"}
    /\ todo = {}
    /\ End("verb")
    /\ UNCHANGED <<dockVars, vipVars, mode, oldUp, new, dead, served, doubled, budgets>>

(***************************************************************************)
(* Everyone else                                                           *)
(***************************************************************************)

(* Mutant: the state of a replica's row is not looked at.                  *)
RowsAnyState == Exists

(* The rows RouteFrom sends traffic to: running replicas, gated or not.    *)
RowsRunning == Up

(* The minute rebuild lists the node's containers under vipLock ...        *)
TickRead ==
    /\ tick = "idle"
    /\ tick' = "read"
    /\ rows' = RowsRunning
    /\ UNCHANGED <<dockVars, vip, jobVars, budgets>>

(* ... and applies what it read, or fails and leaves the table.            *)
TickSet ==
    /\ tick = "read"
    /\ tick' = "idle"
    /\ rows' = {}
    /\ \/ vip' = rows /\ UNCHANGED faults
       \/ Fault /\ UNCHANGED vip
    /\ UNCHANGED <<dockVars, jobVars, crashes, deaths>>

(* The job's cap or a shutdown ends its context.                           *)
ContextDies ==
    /\ pc # "idle"
    /\ ~dead
    /\ dead' = TRUE
    /\ UNCHANGED <<dockVars, vipVars, pc, mode, want, old, oldUp, new, cur, stopped, todo,
                   result, served, doubled, budgets>>

(* A container exits and its restart policy (unless-stopped) brings it     *)
(* back after a while; Docker calls it restarting in between.              *)
ContainerDies(c) ==
    /\ deaths < MaxDeaths
    /\ deaths' = deaths + 1
    /\ cont[c] = "up"
    /\ Set(c, "restarting")
    /\ flaky' = flaky \cup {c}
    /\ UNCHANGED <<made, data, gated, vipVars, jobVars, faults, crashes>>

ContainerRestarts(c) ==
    /\ cont[c] = "restarting"
    /\ Set(c, "up")
    /\ UNCHANGED <<made, data, gated, flaky, vipVars, jobVars, budgets>>

(* The panel dies; the next boot fails the job's row and nobody resumes it. *)
PanelDies ==
    /\ crashes < MaxCrashes
    /\ crashes' = crashes + 1
    /\ pc # "idle" \/ tick # "idle"
    /\ IF pc = "idle" THEN UNCHANGED <<pc, result, want, old, cur, stopped, todo>>
                      ELSE End(IF result = "verb" THEN "verb" ELSE "crashed")
    /\ tick' = "idle"
    /\ rows' = {}
    /\ UNCHANGED <<dockVars, vip, mode, oldUp, new, dead, served, doubled, faults, deaths>>

Next ==
    \/ \E m \in Modes : \E n \in (IF m = "overlap" THEN Replicas ELSE {1}) : Begin(m, n)
    \/ StartReplica \/ Gate \/ UndoEnds \/ Route \/ RemoveEnds
    \/ Create \/ Launch \/ LaunchGate \/ ReviveDrop \/ ReviveRoute
    \/ \E v \in Verbs : BeginVerb(v)
    \/ VerbEnds
    \/ TickRead \/ TickSet \/ ContextDies \/ PanelDies
    \/ \E c \in Ids :
         \/ Undo(c) \/ RemoveOld(c) \/ StopOld(c) \/ Revive(c) \/ Verb(c)
         \/ ContainerDies(c) \/ ContainerRestarts(c)

Spec == Init /\ [][Next]_vars

(***************************************************************************)
(* Properties                                                              *)
(***************************************************************************)

ContainerStates == {"none", "created", "up", "restarting", "down"}

Pcs == {"idle", "start", "gate", "undo", "route", "remove", "route2", "create", "stop",
        "launched", "revive", "startTile", "stopTile", "restartTile"}

TypeOK ==
    /\ made \in 0..MaxMade
    /\ cont \in [Ids -> ContainerStates]
    /\ data \subseteq Ids /\ gated \subseteq Ids /\ flaky \subseteq Ids
    /\ vip \subseteq Ids /\ tick \in {"idle", "read"} /\ rows \subseteq Ids
    /\ pc \in Pcs
    /\ mode \in Modes \cup {"none"}
    /\ want \in Nat
    /\ old \subseteq Ids /\ oldUp \subseteq Ids /\ new \subseteq Ids
    /\ stopped \subseteq oldUp /\ (pc = "stop" => todo \subseteq oldUp)
    /\ todo \subseteq Ids
    /\ cur \in 0..made
    /\ pc \in {"gate", "stop", "launched"} => cur # 0
    /\ dead \in BOOLEAN
    /\ result \in {"none", "ok", "failed", "crashed", "verb"}
    /\ served \in BOOLEAN /\ doubled \in BOOLEAN
    /\ faults \in 0..MaxFaults /\ crashes \in 0..MaxCrashes /\ deaths \in 0..MaxDeaths

(* The last job on the tile is an overlap rollout, begun while it served.  *)
Rolled == mode = "overlap" /\ result # "verb" /\ served /\ deaths = 0

(* A tile that rolls with overlap never stops serving: from a rollout that *)
(* begins with the VIP leading to a gated running replica until the next   *)
(* verb, through failed gates, lost answers, the tick's stale rows and the *)
(* death of the panel, the VIP leads to one.  Container deaths of their    *)
(* own are the restart policy's, not the rollout's.                        *)
OverlapServes ==
    Rolled => vip \cap Up \cap gated # {}

(* A rollout that reports success leaves nothing of the past: the replicas *)
(* are the new ones, gated, and no rule of the VIP names another, whatever *)
(* earlier crashes and lost answers left behind.                           *)
CleanAfterSuccess == result = "ok" => Exists = new /\ new \subseteq gated /\ vip \subseteq new

(* A data-holding tile whose new replica is refused, does not start or     *)
(* does not pass the gate runs what it ran before.                         *)
RefusalRestores ==
    mode = "stopFirst" /\ result = "failed" /\ ~dead /\ faults = 0 /\ deaths = 0
        => oldUp \subseteq Up

(* Two containers with the tile's mounts never run at once, as long as no  *)
(* Docker call fails by itself, no container dies of its own and no start  *)
(* or restart verb found the leftover of a rollout the panel's death or    *)
(* the job's end cut off: the verbs start every container there is.  The   *)
(* next rollout that succeeds mends that too.                              *)
OneWriter == faults = 0 /\ deaths = 0 /\ ~doubled => \A c, d \in Up \cap data : c = d

(* Under fair ticks the VIP catches up with what stops, starts, crashes    *)
(* and failed routes did: a tile no job works on gets a VIP that names     *)
(* exactly its running replicas.                                           *)
VIPCatchesUp == pc = "idle" ~> (vip = Up \/ pc # "idle")

Fairness ==
    /\ WF_vars(TickRead)
    /\ WF_vars(TickSet)
    /\ \A c \in Ids : WF_vars(ContainerRestarts(c))

FairSpec == Spec /\ Fairness

(***************************************************************************)
(* The inductive invariants of RolloutProofs                               *)
(***************************************************************************)

Verbing == {"startTile", "stopTile", "restartTile"}
Overlapping == {"start", "gate", "undo"}
Stopping == {"create", "stop", "launched", "revive"}
Finishing == {"route", "remove", "route2"}

(* Containers are numbered by age: there is nothing beyond the last made.  *)
AgeInv ==
    /\ \A c \in Ids : c > made => cont[c] = "none"
    /\ data \subseteq 1..made

(* The replicas a rollout makes are not among the ones it listed, and its  *)
(* loops go over the right set.                                            *)
LoopInv ==
    /\ pc \in Overlapping => mode = "overlap"
    /\ pc \in Stopping => mode = "stopFirst"
    /\ pc \in Finishing => mode # "none" /\ new # {}
    /\ pc \in Verbing => result = "verb" /\ todo \subseteq 1..made
    /\ pc \notin Verbing \cup {"idle"} =>
         /\ result = "none"
         /\ oldUp \subseteq old /\ old \subseteq 1..made /\ new \cap old = {} /\ cur \notin old
    /\ pc = "undo" => todo \subseteq new
    /\ pc = "remove" => todo \subseteq old

(* Why an overlap rollout serves: until the first route the old replicas   *)
(* run and the VIP and the rows of a rebuild lead to a gated one of them;  *)
(* after it the new ones do, all of them.                                  *)
Serves ==
    /\ vip \cap Up \cap gated # {}
    /\ tick = "read" => rows \cap Up \cap gated # {}
    /\ pc \in Overlapping \cup {"route"} =>
         /\ oldUp \subseteq Up
         /\ vip \cap oldUp \cap gated # {}
         /\ tick = "read" => rows \cap oldUp \cap gated # {}
    /\ pc \in {"start", "gate"} \cup Finishing => new \subseteq Up \cap gated
    /\ pc \in {"remove", "route2"} =>
         new \subseteq vip /\ (tick = "read" => new \subseteq rows)

ServeInv == Rolled => Serves

(* What a rollout makes: an overlap's replicas have no mounts, stopFirst   *)
(* makes one.                                                              *)
FreshInv ==
    /\ mode = "overlap" /\ pc \in Overlapping \cup Finishing => new \cap data = {}
    /\ mode = "overlap" /\ pc = "gate" => cur \notin data
    /\ pc \in Stopping => new = {}
    /\ mode = "stopFirst" /\ pc \in Finishing => new \subseteq {cur}

(* Only a container that died is restarting.                               *)
QuietInv == deaths = 0 => \A c \in Ids : cont[c] # "restarting"

(* Why a data-holding tile has one writer when no Docker call fails, no    *)
(* container dies and no verb starts leftovers: what runs with mounts is   *)
(* what ran when the rollout listed, until all of that is stopped; and a   *)
(* verb that starts containers finds one with mounts.                      *)
WriterInv ==
    /\ \A c, d \in Up \cap data : c = d
    /\ \A c \in Ids : cont[c] # "restarting"
    /\ pc \in Verbing \ {"stopTile"} => \A c, d \in (Exists \cup todo) \cap data : c = d
    /\ pc \notin Verbing \cup {"idle"} => \A c, d \in oldUp \cap data : c = d
    /\ pc \in {"create", "stop", "revive"} => Up \cap data \subseteq oldUp
    /\ mode = "overlap" /\ pc \in Overlapping \cup Finishing => Up \cap data \subseteq oldUp
    /\ pc = "stop" => Up \cap data \subseteq todo
    /\ mode = "stopFirst" /\ pc \in {"launched"} \cup Finishing => Up \cap data \subseteq {cur}

(* Why a refused rollout restores: whatever ran when it listed runs, or is *)
(* noted as stopped until revive starts it.                                *)
RestoreInv ==
    mode = "stopFirst" /\ ~dead /\ faults = 0 /\ deaths = 0 =>
        /\ pc = "create" => oldUp \subseteq Up
        /\ pc \in {"stop", "launched", "revive"} => oldUp \subseteq Up \cup stopped
        /\ pc = "idle" /\ result = "failed" => oldUp \subseteq Up

(* Why a rollout that succeeds leaves nothing behind: it listed every      *)
(* container there was, so what exists is listed, past the gate or at      *)
(* hand, until remove has gone through the list; and what a rebuild reads  *)
(* after the last route are the new replicas.                              *)
CleanInv ==
    /\ result = "ok" =>
         /\ pc = "idle" /\ Exists = new /\ new \subseteq gated /\ vip \subseteq new
         /\ tick = "read" => rows \subseteq new
    /\ pc \in {"start", "gate", "create", "stop", "launched"} \cup Finishing =>
         new \subseteq Exists \cap gated
    /\ pc \in {"start", "create", "route"} => Exists \subseteq old \cup new
    /\ pc \in {"gate", "stop", "launched"} => Exists \subseteq old \cup new \cup {cur}
    /\ pc = "remove" => Exists \subseteq todo \cup new
    /\ pc = "route2" => Exists \subseteq new

(***************************************************************************)
(* What comments and docs say and the code does not do                     *)
(***************************************************************************)

(* "The VIP is not touched: the flow calls Route when the rollout says so": *)
(* no traffic goes to a replica before it passed the gate.                 *)
NoTrafficBeforeGate == vip \cap Up \subseteq gated

(* "never has two containers on one volume", deaths of containers included: *)
(* the stop loop skips a replica between two restarts.                     *)
NeverTwoContainers == faults = 0 /\ ~doubled => \A c, d \in Up \cap data : c = d

(* The same with every Docker call answered and no container dying, after  *)
(* a verb: start and restart bring a crashed rollout's leftover up beside  *)
(* the running replica.                                                    *)
VerbsKeepOneWriter == faults = 0 /\ deaths = 0 => \A c, d \in Up \cap data : c = d

(* "so the tile is never left with nothing": a failed rollout, with every  *)
(* Docker call answered, of a tile that ran leaves it running something.   *)
NeverLeftWithNothing ==
    result = "failed" /\ faults = 0 /\ deaths = 0 /\ oldUp # {} => Up # {}

=============================================================================
