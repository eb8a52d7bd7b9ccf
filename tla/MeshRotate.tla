----------------------------- MODULE MeshRotate -----------------------------
(***************************************************************************)
(* Rotation of the mesh keys.  A worker makes its new key itself, switches *)
(* to it and hands it to the controller through the panel's public URL; it *)
(* goes back to the old one when the panel does not take it in time.  The  *)
(* controller stages its new keys, pushes every worker the new public key, *)
(* then switches.  The mesh's own syncs and the workers' recovery calls go *)
(* on meanwhile, calls get lost, the panel and the workers restart.        *)
(*                                                                         *)
(* The key a rotation makes is named after the rotation: key 0 is the one  *)
(* a node joined with.  A spec is what every node needs to know of the     *)
(* others: the controller's key and the workers'.                          *)
(***************************************************************************)
EXTENDS Naturals

CONSTANTS
    Workers,
    Ctl,          \* the controller's own node
    MaxRotations, \* bound: rotations asked for
    MaxFaults,    \* bound: calls lost, files not written, rules not applied
    MaxCrashes    \* bound: deaths of the panel or of a worker

ASSUME RotateAssumption ==
    /\ Ctl \notin Workers
    /\ MaxRotations \in Nat /\ MaxFaults \in Nat /\ MaxCrashes \in Nat

Nodes == Workers \cup {Ctl}
Rotations == 1..MaxRotations
Keys == 0..MaxRotations

(* No key: nothing read yet, no file.                                      *)
NoKey == MaxRotations + 1
Pairs == [wg : Keys \cup {NoKey}, exit : Keys \cup {NoKey}]
Unknown == [wg |-> NoKey, exit |-> NoKey]
Both(k) == [wg |-> k, exit |-> k]

Specs == [ctl : Keys \cup {NoKey}, rows : [Workers -> Keys]]

(* Who makes recovery calls: a worker's recover loop, a rotation's worker. *)
Callers == Workers \cup Rotations

VARIABLES
    row,     \* nodes.wg_public_key of each worker, in the store
    up,      \* the panel runs
    rec,     \* meshSvc.wgPK and exitPK of the controller
    specs,   \* meshSvc.specs, from the last plan
    sync,    \* who holds syncMu, the spec planned, the nodes to push
    rot,     \* who holds rotation.mu: its step, the rotation, the keys before
    made,    \* rotations asked for so far
    keep,    \* the controller's key files
    staged,  \* its *.next files
    uses,    \* the key each node's interface runs with
    holds,   \* the spec each node's interface runs with
    file,    \* each worker's key file
    prev,    \* each worker's *.prev file
    task,    \* the worker's side of each rotation: its worker and its step
    req,     \* each caller's recovery call: step, key carried, answer
    faults, crashes

panelVars == <<up, rec, specs, sync, rot>>
ctlVars == <<keep, staged>>
ifaceVars == <<uses, holds>>
workerVars == <<file, prev, task>>
budgets == <<faults, crashes>>
vars == <<row, panelVars, made, ctlVars, ifaceVars, workerVars, req, budgets>>

Spec0 == [ctl |-> 0, rows |-> [w \in Workers |-> 0]]
Unlocked == [by |-> "free", caller |-> Ctl, spec |-> Spec0, todo |-> {}, force |-> FALSE]
IdleRot == [at |-> "idle", id |-> 0, old |-> Unknown]
NoTask == [at |-> "none", node |-> Ctl]
NoReq == [at |-> "none", key |-> 0, ans |-> Spec0]

Init ==
    /\ row = [w \in Workers |-> 0]
    /\ up = TRUE /\ rec = Both(0) /\ specs = Spec0
    /\ sync = Unlocked /\ rot = IdleRot /\ made = 0
    /\ keep = Both(0) /\ staged = Unknown
    /\ uses = [n \in Nodes |-> 0] /\ holds = [n \in Nodes |-> Spec0]
    /\ file = [w \in Workers |-> 0] /\ prev = [w \in Workers |-> NoKey]
    /\ task = [r \in Rotations |-> NoTask]
    /\ req = [c \in Callers |-> NoReq]
    /\ faults = 0 /\ crashes = 0

Fault == faults < MaxFaults /\ faults' = faults + 1 /\ UNCHANGED crashes
Crash == crashes < MaxCrashes /\ crashes' = crashes + 1 /\ UNCHANGED faults

(* A tunnel carries traffic when each end has the key the other runs with. *)
Tunnel(w) == holds[Ctl].rows[w] = uses[w] /\ holds[w].ctl = uses[Ctl]

(* meshNet runs the interface with the key on disk.                        *)
KeyOf(n) == IF n = Ctl THEN keep.wg ELSE file[n]

Apply(n, spec) ==
    /\ holds' = [holds EXCEPT ![n] = spec]
    /\ uses' = [uses EXCEPT ![n] = KeyOf(n)]

(***************************************************************************)
(* The mesh service                                                        *)
(***************************************************************************)

(* Mutant: the controller's keys are never read.                           *)
RefreshedNever(known) == known

(* refresh reads the controller's keys once, when it knows none.           *)
Refreshed(known) == IF known.exit = NoKey THEN keep ELSE known

(* plan: what gather finds, kept as the last sync's.                       *)
Planned(known) == [ctl |-> Refreshed(known).wg, rows |-> row]

Plan(known, by, caller, todo, force) ==
    /\ rec' = Refreshed(known)
    /\ specs' = Planned(known)
    /\ sync' = [by |-> by, caller |-> caller, spec |-> Planned(known), todo |-> todo, force |-> force]

SyncMuFree == sync.by = "free"

(* Run's timer pass: everybody, forced.                                    *)
RunSync ==
    /\ up /\ SyncMuFree
    /\ Plan(rec, "run", Ctl, Nodes, TRUE)
    /\ UNCHANGED <<row, up, rot, made, ctlVars, ifaceVars, workerVars, req, budgets>>

(* Run's sync is over with its last push.                                  *)
Pushed(n) == sync' = IF sync.by = "run" /\ sync.todo = {n} THEN Unlocked
                     ELSE [sync EXCEPT !.todo = @ \ {n}]

(* ApplyMesh on the controller is in process, on a worker a call over the  *)
(* tunnel.  The caller learns no more than that it is over.                *)
Reaches(n) == n = Ctl \/ Tunnel(n)

Push(n) ==
    /\ up /\ n \in sync.todo
    /\ Pushed(n)
    /\ IF Reaches(n) THEN Apply(n, sync.spec) ELSE UNCHANGED ifaceVars
    /\ UNCHANGED <<row, up, rec, specs, rot, made, ctlVars, workerVars, req, budgets>>

PushLost(n) ==
    /\ up /\ n \in sync.todo
    /\ Pushed(n) /\ Fault
    /\ UNCHANGED <<row, up, rec, specs, rot, made, ctlVars, ifaceVars, workerVars, req>>

(* A spec that looks unchanged is skipped unless the push is forced.       *)
PushSkipped(n) ==
    /\ up /\ n \in sync.todo /\ ~sync.force
    /\ Pushed(n)
    /\ UNCHANGED <<row, up, rec, specs, rot, made, ctlVars, ifaceVars, workerVars, req, budgets>>

(***************************************************************************)
(* A worker's rotation                                                     *)
(***************************************************************************)

(* rotateOne on a worker: the call arrives over the tunnel, the answer at  *)
(* once, the rest goes on by itself.                                       *)
RotateWorker(w) ==
    /\ up /\ rot.at = "idle" /\ made < MaxRotations
    /\ Tunnel(w)
    /\ made' = made + 1
    /\ rot' = [IdleRot EXCEPT !.at = "await"]
    /\ task' = [task EXCEPT ![made'] = [at |-> "swap", node |-> w]]
    /\ UNCHANGED <<row, up, rec, specs, sync, ctlVars, ifaceVars, file, prev, req, budgets>>

(* It waits for the key to change, or until rotateWait has passed.         *)
RotateAwaited ==
    /\ up /\ rot.at = "await"
    /\ rot' = IdleRot
    /\ UNCHANGED <<row, up, rec, specs, sync, made, ctlVars, ifaceVars, workerVars, req, budgets>>

Step(r, at) == task' = [task EXCEPT ![r].at = at]
TaskOver(r) == task' = [task EXCEPT ![r] = NoTask]

(* swapKeys: the old key becomes *.prev, a new one is written and the last *)
(* spec applied with it.                                                   *)
SwapKeys(r) ==
    /\ task[r].at = "swap"
    /\ LET w == task[r].node IN
       /\ prev' = [prev EXCEPT ![w] = file[w]]
       /\ file' = [file EXCEPT ![w] = r]
       /\ uses' = [uses EXCEPT ![w] = r]
    /\ Step(r, "hand")
    /\ UNCHANGED <<row, panelVars, made, ctlVars, holds, req, budgets>>

(* It fails before the new key is written, or in the re-apply: the key on  *)
(* disk is then ahead of the interface.  Either way the rotation is over.  *)
SwapFails(r) ==
    /\ task[r].at = "swap" /\ Fault
    /\ LET w == task[r].node IN
       /\ prev' = [prev EXCEPT ![w] = file[w]]
       /\ file' \in {file, [file EXCEPT ![w] = r]}
    /\ TaskOver(r)
    /\ UNCHANGED <<row, panelVars, made, ctlVars, ifaceVars, req>>

(* RotateRevertAfter has passed without a call that went through: back to  *)
(* the *.prev key, and one more call.  Without a *.prev file only the call *)
(* is left.                                                                *)
RevertKeys(r) ==
    /\ task[r].at = "late"
    /\ LET w == task[r].node IN
       IF prev[w] = NoKey
       THEN UNCHANGED <<file, prev, uses>>
       ELSE /\ file' = [file EXCEPT ![w] = prev[w]]
            /\ prev' = [prev EXCEPT ![w] = NoKey]
            /\ uses' = [uses EXCEPT ![w] = prev[w]]
    /\ Step(r, "last")
    /\ UNCHANGED <<row, panelVars, made, ctlVars, holds, req, budgets>>

(* It fails before the old key is written back, or in the re-apply: *.prev *)
(* stays and only the call is left.                                        *)
RevertFails(r) ==
    /\ task[r].at = "late" /\ Fault
    /\ LET w == task[r].node IN
       \/ UNCHANGED file
       \/ prev[w] # NoKey /\ file' = [file EXCEPT ![w] = prev[w]]
    /\ Step(r, "last")
    /\ UNCHANGED <<row, panelVars, made, ctlVars, ifaceVars, prev, req>>

(***************************************************************************)
(* A recovery call (recoverOnce and RecoverNode)                           *)
(***************************************************************************)

WorkerOf(c) == IF c \in Workers THEN c ELSE task[c].node

Waiting(c) == IF c \in Workers THEN TRUE ELSE task[c].at \in {"hand", "last"}

(* What the caller does next: the rotation's worker is done when a call    *)
(* went through, tries again or gives up when it did not.                  *)
CallOver(c, ok) ==
    /\ req' = [req EXCEPT ![c] = NoReq]
    /\ IF c \in Workers THEN UNCHANGED <<task, prev>>
       ELSE IF task[c].at = "last" THEN TaskOver(c) /\ UNCHANGED prev
       ELSE IF ok THEN TaskOver(c) /\ prev' = [prev EXCEPT ![task[c].node] = NoKey]
       ELSE (UNCHANGED task \/ Step(c, "late")) /\ UNCHANGED prev

(* The call carries the public half of the key on disk.                    *)
Call(c) ==
    /\ Waiting(c) /\ req[c].at = "none"
    /\ req' = [req EXCEPT ![c] = [NoReq EXCEPT !.at = "sent", !.key = file[WorkerOf(c)]]]
    /\ UNCHANGED <<row, panelVars, made, ctlVars, ifaceVars, workerVars, budgets>>

(* recoverStep calls once the controller has been quiet: it reaches a      *)
(* worker every minute while their tunnel is up.                           *)
RecoverStep(w) == ~Tunnel(w) /\ Call(w)

(* The controller is quiet for another reason.                             *)
QuietSpell(w) ==
    /\ Tunnel(w) /\ req[w].at = "none" /\ Fault
    /\ req' = [req EXCEPT ![w] = [NoReq EXCEPT !.at = "sent", !.key = file[w]]]
    /\ UNCHANGED <<row, panelVars, made, ctlVars, ifaceVars, workerVars>>

(* Mutant: a key is taken only while a rotation waits for one.             *)
TakeNodeKeysAwaited(c) ==
    /\ up /\ req[c].at = "sent"
    /\ row' = IF rot.at = "await" THEN [row EXCEPT ![WorkerOf(c)] = req[c].key] ELSE row
    /\ req' = [req EXCEPT ![c] = [NoReq EXCEPT !.at = "took"]]
    /\ UNCHANGED <<panelVars, made, ctlVars, ifaceVars, workerVars, budgets>>

(* takeNodeKeys, when the key differs from the row; its force is the       *)
(* sync's that follows.                                                    *)
TakeNodeKeys(c) ==
    /\ up /\ req[c].at = "sent"
    /\ row' = [row EXCEPT ![WorkerOf(c)] = req[c].key]
    /\ req' = [req EXCEPT ![c] = [NoReq EXCEPT !.at = IF row[WorkerOf(c)] = req[c].key THEN "check" ELSE "took"]]
    /\ UNCHANGED <<panelVars, made, ctlVars, ifaceVars, workerVars, budgets>>

Syncs(c) == sync.by = "call" /\ sync.caller = c

RecoverSync(c) ==
    /\ up /\ req[c].at \in {"check", "took"} /\ SyncMuFree
    /\ Plan(rec, "call", c, Nodes, req[c].at = "took")
    /\ req' = [req EXCEPT ![c].at = "sync"]
    /\ UNCHANGED <<row, up, rot, made, ctlVars, ifaceVars, workerVars, budgets>>

(* The plan fails; the call goes on with the one before.                   *)
RecoverSyncFails(c) ==
    /\ up /\ req[c].at \in {"check", "took"} /\ SyncMuFree /\ Fault
    /\ req' = [req EXCEPT ![c].at = "spec"]
    /\ UNCHANGED <<row, panelVars, made, ctlVars, ifaceVars, workerVars>>

RecoverSynced(c) ==
    /\ up /\ Syncs(c) /\ sync.todo = {}
    /\ sync' = Unlocked
    /\ req' = [req EXCEPT ![c].at = "spec"]
    /\ UNCHANGED <<row, up, rec, specs, rot, made, ctlVars, ifaceVars, workerVars, budgets>>

(* The answer is the node's spec of the last plan, whoever made it; busy   *)
(* when there was none yet.                                                *)
RecoverAnswer(c) ==
    /\ up /\ req[c].at = "spec"
    /\ req' = [req EXCEPT ![c].at = IF specs.ctl = NoKey THEN "cut" ELSE "answered",
                           ![c].ans = IF specs.ctl = NoKey THEN @ ELSE specs]
    /\ UNCHANGED <<row, panelVars, made, ctlVars, ifaceVars, workerVars, budgets>>

Recovered(c) ==
    /\ req[c].at = "answered"
    /\ Apply(WorkerOf(c), req[c].ans)
    /\ CallOver(c, TRUE)
    /\ UNCHANGED <<row, panelVars, made, ctlVars, file, budgets>>

(* Applied, and yet an error: the exits or the save failed.                *)
RecoveredBadly(c) ==
    /\ req[c].at = "answered" /\ Fault
    /\ Apply(WorkerOf(c), req[c].ans)
    /\ CallOver(c, FALSE)
    /\ UNCHANGED <<row, panelVars, made, ctlVars, file>>

(* The call is cut off, wherever it is; the handler's context dies with it *)
(* and a sync of its own stops there.                                      *)
CallLost(c) ==
    /\ req[c].at # "none" /\ Fault
    /\ CallOver(c, FALSE)
    /\ sync' = IF Syncs(c) THEN Unlocked ELSE sync
    /\ UNCHANGED <<row, up, rec, specs, rot, made, ctlVars, ifaceVars, file>>

(* Nobody listens, or the panel died or answered busy.                     *)
CallRefused(c) ==
    /\ req[c].at = "cut" \/ (req[c].at = "sent" /\ ~up)
    /\ CallOver(c, FALSE)
    /\ UNCHANGED <<row, panelVars, made, ctlVars, ifaceVars, file, budgets>>

(***************************************************************************)
(* The controller's rotation                                               *)
(***************************************************************************)

(* StageKeys, before syncMu is taken.                                      *)
StageKeys ==
    /\ up /\ rot.at = "idle" /\ made < MaxRotations
    /\ made' = made + 1
    /\ staged' = Both(made')
    /\ rot' = [IdleRot EXCEPT !.at = "staged", !.id = made']
    /\ UNCHANGED <<row, up, rec, specs, sync, keep, ifaceVars, workerVars, req, budgets>>

RotGoto(at) == rot' = [rot EXCEPT !.at = at]

(* syncMu, tookKeys with the staged pair, and the plan made of it.         *)
TakeStaged ==
    /\ up /\ rot.at = "staged" /\ SyncMuFree
    /\ rot' = [rot EXCEPT !.at = "push", !.old = rec]
    /\ Plan(staged, "rotate", Ctl, Workers, TRUE)
    /\ UNCHANGED <<row, up, made, ctlVars, ifaceVars, workerVars, req, budgets>>

(* Mutant: the rollback announces the staged pair.                         *)
RollbackKeeps(old) == Plan(staged, "rotate", Ctl, Workers, TRUE)

(* tookKeys with the old pair; the workers hear of it unless the plan of   *)
(* the rollback fails.                                                     *)
Rollback(old) ==
    \/ Plan(old, "rotate", Ctl, Workers, TRUE)
    \/ /\ rec' = old /\ sync' = [Unlocked EXCEPT !.by = "rotate"]
       /\ UNCHANGED specs

PlanFails ==
    /\ up /\ rot.at = "staged" /\ SyncMuFree /\ Fault
    /\ rot' = [rot EXCEPT !.at = "back", !.old = rec]
    /\ Rollback(rec)
    /\ UNCHANGED <<row, up, made, ctlVars, ifaceVars, workerVars, req>>

(* PromoteKeys: both files, the interface, then the own spec.              *)
PromoteKeys ==
    /\ up /\ rot.at = "push" /\ sync.todo = {}
    /\ keep' = staged /\ staged' = Unknown
    /\ uses' = [uses EXCEPT ![Ctl] = staged.wg]
    /\ sync' = [sync EXCEPT !.todo = {Ctl}]
    /\ RotGoto("own")
    /\ UNCHANGED <<row, up, rec, specs, made, holds, workerVars, req, budgets>>

(* It fails before the mesh key was replaced.                              *)
PromoteFails ==
    /\ up /\ rot.at = "push" /\ sync.todo = {} /\ Fault
    /\ RotGoto("back")
    /\ Rollback(rot.old)
    /\ UNCHANGED <<row, up, made, ctlVars, ifaceVars, workerVars, req>>

(* It fails once the mesh key was replaced: at the exit key, or at the     *)
(* re-apply.  The new key is the truth.                                    *)
PromoteTorn ==
    /\ up /\ rot.at = "push" /\ sync.todo = {} /\ Fault
    /\ \/ keep' = [keep EXCEPT !.wg = staged.wg] /\ staged' = [staged EXCEPT !.wg = NoKey]
       \/ keep' = staged /\ staged' = Unknown
    /\ sync' = [sync EXCEPT !.todo = {Ctl}]
    /\ RotGoto("own")
    /\ UNCHANGED <<row, up, rec, specs, made, ifaceVars, workerVars, req>>

ControllerRotated ==
    /\ up /\ rot.at \in {"own", "back"} /\ sync.todo = {}
    /\ sync' = Unlocked /\ rot' = IdleRot
    /\ UNCHANGED <<row, up, rec, specs, made, ctlVars, ifaceVars, workerVars, req, budgets>>

(***************************************************************************)
(* Restarts                                                                *)
(***************************************************************************)

(* The panel dies; what the kernel runs stays.                             *)
PanelDies ==
    /\ up /\ Crash
    /\ up' = FALSE /\ sync' = Unlocked /\ rot' = IdleRot
    /\ rec' = Unknown /\ specs' = [Spec0 EXCEPT !.ctl = NoKey]
    /\ req' = [c \in Callers |-> IF req[c].at \in {"none", "answered"} THEN req[c]
                                 ELSE [NoReq EXCEPT !.at = "cut"]]
    /\ UNCHANGED <<row, made, ctlVars, ifaceVars, workerVars>>

(* Run's first sync follows at once.                                       *)
PanelBoots ==
    /\ ~up /\ up' = TRUE
    /\ UNCHANGED <<row, rec, specs, sync, rot, made, ctlVars, ifaceVars, workerVars, req, budgets>>

(* A worker restarts: its rotation is forgotten, the saved spec replayed   *)
(* with the key on disk.                                                   *)
WorkerRestarts(w) ==
    /\ Crash
    /\ task' = [r \in Rotations |-> IF task[r].node = w THEN NoTask ELSE task[r]]
    /\ req' = [c \in Callers |-> IF WorkerOf(c) = w THEN NoReq ELSE req[c]]
    /\ sync' = IF sync.by = "call" /\ WorkerOf(sync.caller) = w THEN Unlocked ELSE sync
    /\ uses' = [uses EXCEPT ![w] = file[w]]
    /\ UNCHANGED <<row, up, rec, specs, rot, made, ctlVars, holds, file, prev>>

(***************************************************************************)
(* The specification                                                       *)
(***************************************************************************)

(* The worker's side of rotation r, between its calls.                     *)
Task(r) == SwapKeys(r) \/ RevertKeys(r)

(* A recovery call, from its sending to what the worker makes of it.       *)
Calling(c) ==
    \/ IF c \in Workers THEN RecoverStep(c) ELSE Call(c)
    \/ TakeNodeKeys(c) \/ RecoverSynced(c) \/ RecoverAnswer(c) \/ Recovered(c) \/ CallRefused(c)

Syncing == \E n \in Nodes : Push(n)

Rotating == RotateAwaited \/ PromoteKeys \/ ControllerRotated

Next ==
    \/ RunSync \/ Syncing
    \/ \E n \in Nodes : PushLost(n) \/ PushSkipped(n)
    \/ \E w \in Workers : RotateWorker(w) \/ QuietSpell(w) \/ WorkerRestarts(w)
    \/ \E r \in Rotations : Task(r) \/ SwapFails(r) \/ RevertFails(r)
    \/ \E c \in Callers : \/ Calling(c) \/ RecoverSync(c) \/ RecoverSyncFails(c)
                          \/ RecoveredBadly(c) \/ CallLost(c)
    \/ StageKeys \/ TakeStaged \/ PlanFails \/ Rotating \/ PromoteFails \/ PromoteTorn
    \/ PanelDies \/ PanelBoots

Spec == Init /\ [][Next]_vars

(* Every process goes on, and a Go mutex hands itself to its waiters in    *)
(* turn: whoever waits for syncMu gets it.                                 *)
Fairness ==
    /\ WF_vars(PanelBoots) /\ WF_vars(Syncing) /\ WF_vars(Rotating)
    /\ SF_vars(RunSync) /\ SF_vars(TakeStaged)
    /\ \A r \in Rotations : WF_vars(Task(r))
    /\ \A c \in Callers : WF_vars(Calling(c)) /\ SF_vars(RecoverSync(c))

FairSpec == Spec /\ Fairness

(***************************************************************************)
(* Properties                                                              *)
(***************************************************************************)

(* The variables have their types, and a plan that is pushed names a key   *)
(* for the controller.                                                     *)
TypeOK ==
    /\ row \in [Workers -> Keys] /\ up \in BOOLEAN
    /\ rec \in Pairs /\ specs \in Specs
    /\ sync \in [by : {"free", "run", "call", "rotate"}, caller : Callers \cup {Ctl},
                 spec : Specs, todo : SUBSET Nodes, force : BOOLEAN]
    /\ sync.spec.ctl # NoKey
    /\ rot \in [at : {"idle", "await", "staged", "push", "own", "back"}, id : Keys, old : Pairs]
    /\ made \in Keys
    /\ keep \in [wg : Keys, exit : Keys] /\ staged \in Pairs
    /\ uses \in [Nodes -> Keys] /\ holds \in [Nodes -> [ctl : Keys, rows : [Workers -> Keys]]]
    /\ file \in [Workers -> Keys] /\ prev \in [Workers -> Keys \cup {NoKey}]
    /\ task \in [Rotations -> [at : {"none", "swap", "hand", "late", "last"}, node : Nodes]]
    /\ req \in [Callers -> [at : {"none", "sent", "check", "took", "sync", "spec", "answered", "cut"},
                           key : Keys, ans : Specs]]
    /\ faults \in 0..MaxFaults /\ crashes \in 0..MaxCrashes

(* Outside a rotation of its own keys, the key the mesh service names for  *)
(* the controller is the one on its disk: a failed switch or a restart     *)
(* never leaves the syncs telling the workers a key nobody holds           *)
(* (rollback, refresh).                                                    *)
RecordedIsHeld ==
    up /\ sync.by # "rotate" /\ rec # Unknown => rec.wg = keep.wg

(* Everybody has everybody's key.                                          *)
Agreed ==
    /\ up /\ uses[Ctl] = keep.wg
    /\ \A w \in Workers : uses[w] = file[w] /\ row[w] = file[w]
    /\ \A n \in Nodes : holds[n] = [ctl |-> keep.wg, rows |-> row]

(* Whatever is lost, fails or dies during rotations, the mesh ends up with *)
(* every tunnel on the keys both ends hold.                                *)
KeysAgree == <>[]Agreed

(***************************************************************************)
(* What comments say and the code does not do                              *)
(***************************************************************************)

(* "The new key is the truth": RecordedIsHeld of the exit key, which a     *)
(* promotion that fails between the two files leaves behind.               *)
ExitRecordedIsHeld ==
    up /\ sync.by # "rotate" /\ rec # Unknown => rec.exit = keep.exit

(* A rollback that could make its plan has told the workers: none is left  *)
(* on the key the controller did not take.                                 *)
RollbackTells ==
    rot.at = "back" /\ sync.todo = {} /\ specs.ctl = rot.old.wg =>
        \A w \in Workers : holds[w].ctl # rot.id

(* A worker that has not yet handed its new key over can still go back:    *)
(* the key the controller has for it is the one on its disk or the *.prev. *)
WayBack ==
    \A r \in Rotations : task[r].at = "hand" =>
        row[task[r].node] \in {file[task[r].node], prev[task[r].node]}

=============================================================================
