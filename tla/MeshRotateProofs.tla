--------------------------- MODULE MeshRotateProofs ---------------------------
(***************************************************************************)
(* Theorems about the rotation of the mesh keys, for any number of workers,*)
(* rotations, lost calls and restarts.                                     *)
(***************************************************************************)
EXTENDS MeshRotate, TLAPS

(***************************************************************************)
(* The inductive invariant                                                 *)
(***************************************************************************)

(* A rotation under way has its worker, and a rotation not asked for yet   *)
(* has none; a rotation's call is made by a worker that is handing its key *)
(* over; a sync for a call is held by a call that waits for it; what a     *)
(* call is answered with names a key for the controller.                   *)
CallsPlaced ==
    /\ \A r \in Rotations : task[r].at # "none" => task[r].node \in Workers
    /\ \A r \in Rotations : r > made => task[r].at = "none"
    /\ \A c \in Callers \ Workers : req[c].at # "none" => task[c].at \in {"hand", "last"}
    /\ sync.by = "call" => sync.caller \in Callers /\ req[sync.caller].at = "sync"
    /\ \A c \in Callers : req[c].at = "answered" => req[c].ans.ctl # NoKey

(* A pair the mesh service has for the controller: none, or both keys, and *)
(* the mesh key is the one on disk.                                        *)
IsHeld(p) == p = Unknown \/ (p.exit # NoKey /\ p.wg = keep.wg)

(* The controller's rotation holds syncMu from the moment it takes the     *)
(* staged pair to its end; until the promotion the pair before is the one  *)
(* on disk, after it the staged one is.                                    *)
RotationHolds ==
    /\ sync.by = "rotate" <=> rot.at \in {"push", "own", "back"}
    /\ rot.at \in {"staged", "push"} => staged = Both(rot.id)
    /\ rot.at = "push" => rec = Both(rot.id) /\ IsHeld(rot.old)
    /\ rot.at # "push" => IsHeld(rec)

MeshInv == TypeOK /\ CallsPlaced /\ RotationHolds

(***************************************************************************)
(* Types                                                                   *)
(***************************************************************************)

RowType == row \in [Workers -> Keys] /\ up \in BOOLEAN /\ made \in Keys
PlanType == rec \in Pairs /\ specs \in Specs
SyncType ==
    /\ sync \in [by : {"free", "run", "call", "rotate"}, caller : Callers \cup {Ctl},
                 spec : Specs, todo : SUBSET Nodes, force : BOOLEAN]
    /\ sync.spec.ctl # NoKey
RotType == rot \in [at : {"idle", "await", "staged", "push", "own", "back"}, id : Keys, old : Pairs]
CtlType == keep \in [wg : Keys, exit : Keys] /\ staged \in Pairs
IfaceType == uses \in [Nodes -> Keys] /\ holds \in [Nodes -> [ctl : Keys, rows : [Workers -> Keys]]]
FileType == file \in [Workers -> Keys] /\ prev \in [Workers -> Keys \cup {NoKey}]
TaskType == task \in [Rotations -> [at : {"none", "swap", "hand", "late", "last"}, node : Nodes]]
ReqType ==
    req \in [Callers -> [at : {"none", "sent", "check", "took", "sync", "spec", "answered", "cut"},
                         key : Keys, ans : Specs]]
BudgetType == faults \in 0..MaxFaults /\ crashes \in 0..MaxCrashes

(* The type invariant in the parts that the steps disturb.                 *)
LEMMA TypeParts ==
    TypeOK <=> /\ RowType /\ PlanType /\ SyncType /\ RotType /\ CtlType
               /\ IfaceType /\ FileType /\ TaskType /\ ReqType /\ BudgetType
  BY DEF TypeOK, RowType, PlanType, SyncType, RotType, CtlType, IfaceType, FileType, TaskType,
     ReqType, BudgetType

(* Keys, pairs and specs.                                                  *)
LEMMA KeyFacts ==
    /\ 0 \in Keys /\ NoKey \notin Keys /\ Rotations \subseteq Keys
    /\ Spec0 \in Specs /\ Spec0.ctl = 0 /\ Spec0.ctl # NoKey
    /\ Unknown \in Pairs
    /\ \A k \in Keys : Both(k) \in Pairs
<1>1. 0 \in Keys /\ NoKey \notin Keys /\ Rotations \subseteq Keys
  BY RotateAssumption DEF Keys, NoKey, Rotations
<1> QED
  BY <1>1 DEF Spec0, Specs, Unknown, Pairs, Both

(* A spec with a key for the controller is one an interface can run with.  *)
LEMMA SpecFacts ==
    ASSUME NEW spec \in Specs, spec.ctl # NoKey
    PROVE  spec \in [ctl : Keys, rows : [Workers -> Keys]]
  BY DEF Specs

(* A fault or a death takes one from its budget.                           *)
LEMMA FaultTypes ==
    ASSUME MeshInv, Fault \/ Crash \/ UNCHANGED budgets PROVE BudgetType'
  BY RotateAssumption DEF MeshInv, TypeOK, BudgetType, Fault, Crash, budgets

(* syncMu is let go.                                                       *)
LEMMA UnlockedTypes == ASSUME sync' = Unlocked PROVE SyncType'
  BY KeyFacts DEF SyncType, Unlocked

(* rotation.mu is let go.                                                  *)
LEMMA IdleRotTypes == ASSUME rot' = IdleRot PROVE RotType'
  BY KeyFacts DEF RotType, IdleRot

(* A plan is made of known keys: those in memory, or those on disk.        *)
LEMMA PlanTypes ==
    ASSUME MeshInv, NEW known \in Pairs, known.exit # NoKey => known.wg # NoKey,
           NEW by \in {"run", "call", "rotate"}, NEW caller \in Callers \cup {Ctl},
           NEW todo \in SUBSET Nodes, NEW force \in BOOLEAN,
           Plan(known, by, caller, todo, force)
    PROVE  PlanType' /\ SyncType'
<1>1. keep \in [wg : Keys, exit : Keys] /\ row \in [Workers -> Keys]
  BY DEF MeshInv, TypeOK
<1>2. Refreshed(known) \in Pairs /\ Refreshed(known).wg \in Keys
  BY <1>1, KeyFacts DEF Refreshed, Pairs
<1>3. Planned(known) \in Specs /\ Planned(known).ctl # NoKey
  BY <1>1, <1>2, KeyFacts DEF Planned, Specs
<1> QED
  BY <1>2, <1>3 DEF Plan, PlanType, SyncType

(* A push takes its node off the sync's list.                              *)
LEMMA PushedTypes == ASSUME MeshInv, NEW n \in Nodes, Pushed(n) PROVE SyncType'
<1>1. CASE sync' = Unlocked
  BY <1>1, UnlockedTypes
<1>2. CASE sync' = [sync EXCEPT !.todo = @ \ {n}]
  BY <1>2 DEF MeshInv, TypeOK, SyncType
<1> QED
  BY <1>1, <1>2 DEF Pushed

(* An interface runs with the key on disk and the spec it was given.       *)
LEMMA ApplyTypes ==
    ASSUME MeshInv, NEW n \in Nodes, NEW spec \in Specs, spec.ctl # NoKey, Apply(n, spec)
    PROVE  IfaceType'
<1>1. KeyOf(n) \in Keys
  BY DEF MeshInv, TypeOK, KeyOf, Nodes
<1>2. spec \in [ctl : Keys, rows : [Workers -> Keys]]
  BY SpecFacts
<1>3. /\ uses \in [Nodes -> Keys] /\ holds \in [Nodes -> [ctl : Keys, rows : [Workers -> Keys]]]
  BY DEF MeshInv, TypeOK
<1>4. uses' \in [Nodes -> Keys]
  BY <1>1, <1>3 DEF Apply
<1>5. holds' \in [Nodes -> [ctl : Keys, rows : [Workers -> Keys]]]
  BY <1>2, <1>3 DEF Apply
<1> QED
  BY <1>4, <1>5 DEF IfaceType

(* Step and TaskOver keep a rotation's worker or clear it.                 *)
LEMMA TaskTypes ==
    ASSUME MeshInv, NEW r \in Rotations,
           \/ TaskOver(r)
           \/ \E at \in {"swap", "hand", "late", "last"} : Step(r, at)
           \/ UNCHANGED task
    PROVE  /\ TaskType'
           /\ \A s \in Rotations \ {r} : task'[s] = task[s]
           /\ task'[r].at # "none" => task'[r].node = task[r].node
<1>1. task \in [Rotations -> [at : {"none", "swap", "hand", "late", "last"}, node : Nodes]]
  BY DEF MeshInv, TypeOK
<1>2. CASE TaskOver(r)
  BY <1>1, <1>2 DEF TaskType, TaskOver, NoTask, Nodes
<1>3. ASSUME NEW at \in {"swap", "hand", "late", "last"}, Step(r, at)
      PROVE  /\ TaskType'
             /\ \A s \in Rotations \ {r} : task'[s] = task[s]
             /\ task'[r].at # "none" => task'[r].node = task[r].node
  BY <1>1, <1>3 DEF TaskType, Step
<1>4. CASE UNCHANGED task
  BY <1>1, <1>4 DEF TaskType
<1> QED
  BY <1>2, <1>3, <1>4

(* A call moves on.                                                        *)
LEMMA ReqTypes ==
    ASSUME MeshInv, NEW c \in Callers, NEW at \in {"sync", "spec", "cut"},
           req' = [req EXCEPT ![c].at = at]
    PROVE  ReqType'
<1>1. req[c] \in [at : {"none", "sent", "check", "took", "sync", "spec", "answered", "cut"},
                 key : Keys, ans : Specs]
  BY DEF MeshInv, TypeOK
<1>2. [req[c] EXCEPT !.at = at] \in
        [at : {"none", "sent", "check", "took", "sync", "spec", "answered", "cut"},
         key : Keys, ans : Specs]
  BY <1>1
<1>3. req' = [req EXCEPT ![c] = [req[c] EXCEPT !.at = at]]
  OBVIOUS
<1> QED
  BY <1>2, <1>3 DEF MeshInv, TypeOK, ReqType

(* A call that is over leaves its caller free.                             *)
LEMMA CallOverTypes ==
    ASSUME MeshInv, NEW c \in Callers, NEW ok \in BOOLEAN, req[c].at # "none", CallOver(c, ok),
           UNCHANGED file
    PROVE  ReqType' /\ TaskType' /\ FileType'
<1>1. ReqType'
  BY KeyFacts DEF MeshInv, TypeOK, ReqType, CallOver, NoReq
<1>2. TaskType'
  BY TaskTypes DEF MeshInv, TypeOK, TaskType, CallOver, Callers
<1>3. FileType'
  BY DEF MeshInv, TypeOK, FileType, CallOver
<1> QED
  BY <1>1, <1>2, <1>3

(* A caller is, or runs on, a worker while its call is out.                *)
LEMMA CallerWorker ==
    ASSUME MeshInv, NEW c \in Callers, req[c].at # "none" \/ Waiting(c)
    PROVE  WorkerOf(c) \in Workers
  BY DEF MeshInv, CallsPlaced, WorkerOf, Waiting, Callers

(* Every action keeps the types.                                           *)
LEMMA TypeStep == MeshInv /\ [Next]_vars => TypeOK'
<1> SUFFICES ASSUME MeshInv, [Next]_vars PROVE TypeOK'
  OBVIOUS
<1>1. ASSUME RunSync
      PROVE  TypeOK'
  <2>1. PlanType' /\ SyncType'
    <3>1. rec \in Pairs /\ (rec.exit # NoKey => rec.wg # NoKey)
      BY <1>1, KeyFacts DEF MeshInv, TypeOK, RotationHolds, IsHeld, Unknown, RunSync, SyncMuFree
    <3> QED
      BY <1>1, <3>1, PlanTypes DEF RunSync, Nodes
  <2>2. RowType' /\ RotType' /\ CtlType' /\ IfaceType' /\ FileType' /\ TaskType' /\ ReqType' /\ BudgetType'
    BY <1>1, TypeParts DEF MeshInv, RowType, RotType, CtlType, IfaceType, FileType,
       TaskType, ReqType, BudgetType, RunSync, panelVars, ctlVars, ifaceVars,
       workerVars, budgets
  <2> QED
    BY <2>1, <2>2 DEF TypeOK, RowType, PlanType, SyncType, RotType, CtlType,
       IfaceType, FileType, TaskType, ReqType, BudgetType
<1>2. ASSUME NEW n \in Nodes, Push(n)
      PROVE  TypeOK'
  <2>1. SyncType'
    BY <1>2, PushedTypes DEF Push
  <2>2. IfaceType'
    <3>1. sync.spec \in Specs /\ sync.spec.ctl # NoKey
      BY DEF MeshInv, TypeOK
    <3>2. CASE Reaches(n)
      BY <1>2, <3>1, <3>2, ApplyTypes DEF Push
    <3>3. CASE ~Reaches(n)
      BY <1>2, <3>3 DEF MeshInv, TypeOK, IfaceType, Push, ifaceVars
    <3> QED
      BY <3>2, <3>3
  <2>3. RowType' /\ PlanType' /\ RotType' /\ CtlType' /\ FileType' /\ TaskType' /\ ReqType' /\ BudgetType'
    BY <1>2, TypeParts DEF MeshInv, RowType, PlanType, RotType, CtlType, FileType,
       TaskType, ReqType, BudgetType, Push, panelVars, ctlVars, ifaceVars,
       workerVars, budgets
  <2> QED
    BY <2>1, <2>2, <2>3 DEF TypeOK, RowType, PlanType, SyncType, RotType, CtlType,
       IfaceType, FileType, TaskType, ReqType, BudgetType
<1>3. ASSUME NEW n \in Nodes, PushLost(n)
      PROVE  TypeOK'
  <2>1. SyncType'
    BY <1>3, PushedTypes DEF PushLost
  <2>2. BudgetType'
    BY <1>3, FaultTypes DEF PushLost
  <2>3. RowType' /\ PlanType' /\ RotType' /\ CtlType' /\ IfaceType' /\ FileType' /\ TaskType' /\ ReqType'
    BY <1>3, TypeParts DEF MeshInv, RowType, PlanType, RotType, CtlType, IfaceType,
       FileType, TaskType, ReqType, PushLost, panelVars, ctlVars, ifaceVars,
       workerVars, budgets
  <2> QED
    BY <2>1, <2>2, <2>3 DEF TypeOK, RowType, PlanType, SyncType, RotType, CtlType,
       IfaceType, FileType, TaskType, ReqType, BudgetType
<1>4. ASSUME NEW n \in Nodes, PushSkipped(n)
      PROVE  TypeOK'
  <2>1. SyncType'
    BY <1>4, PushedTypes DEF PushSkipped
  <2>2. RowType' /\ PlanType' /\ RotType' /\ CtlType' /\ IfaceType' /\ FileType' /\ TaskType' /\ ReqType' /\ BudgetType'
    BY <1>4, TypeParts DEF MeshInv, RowType, PlanType, RotType, CtlType, IfaceType,
       FileType, TaskType, ReqType, BudgetType, PushSkipped, panelVars, ctlVars,
       ifaceVars, workerVars, budgets
  <2> QED
    BY <2>1, <2>2 DEF TypeOK, RowType, PlanType, SyncType, RotType, CtlType,
       IfaceType, FileType, TaskType, ReqType, BudgetType
<1>5. ASSUME NEW w \in Workers, RotateWorker(w)
      PROVE  TypeOK'
  <2>1. RowType'
    BY <1>5, RotateAssumption DEF MeshInv, TypeOK, RowType, RotateWorker, Keys
  <2>2. RotType'
    BY <1>5, KeyFacts DEF RotType, RotateWorker, IdleRot
  <2>3. TaskType'
    <3>1. made' \in Rotations
      BY <1>5, RotateAssumption DEF MeshInv, TypeOK, RotateWorker, Keys, Rotations
    <3> QED
      BY <1>5, <3>1 DEF MeshInv, TypeOK, TaskType, RotateWorker, Nodes
  <2>4. PlanType' /\ SyncType' /\ CtlType' /\ IfaceType' /\ FileType' /\ ReqType' /\ BudgetType'
    BY <1>5, TypeParts DEF MeshInv, PlanType, SyncType, CtlType, IfaceType, FileType,
       ReqType, BudgetType, RotateWorker, panelVars, ctlVars, ifaceVars, workerVars,
       budgets
  <2> QED
    BY <2>1, <2>2, <2>3, <2>4 DEF TypeOK, RowType, PlanType, SyncType, RotType, CtlType,
       IfaceType, FileType, TaskType, ReqType, BudgetType
<1>6. ASSUME NEW w \in Workers, QuietSpell(w)
      PROVE  TypeOK'
  <2>1. ReqType'
    BY <1>6, KeyFacts DEF MeshInv, TypeOK, ReqType, QuietSpell, NoReq, Callers
  <2>2. BudgetType'
    BY <1>6, FaultTypes DEF QuietSpell
  <2>3. RowType' /\ PlanType' /\ SyncType' /\ RotType' /\ CtlType' /\ IfaceType' /\ FileType' /\ TaskType'
    BY <1>6, TypeParts DEF MeshInv, RowType, PlanType, SyncType, RotType, CtlType,
       IfaceType, FileType, TaskType, QuietSpell, panelVars, ctlVars, ifaceVars,
       workerVars, budgets
  <2> QED
    BY <2>1, <2>2, <2>3 DEF TypeOK, RowType, PlanType, SyncType, RotType, CtlType,
       IfaceType, FileType, TaskType, ReqType, BudgetType
<1>7. ASSUME NEW w \in Workers, WorkerRestarts(w)
      PROVE  TypeOK'
  <2>1. TaskType'
    BY <1>7 DEF MeshInv, TypeOK, TaskType, WorkerRestarts, NoTask, Nodes
  <2>2. ReqType'
    BY <1>7, KeyFacts DEF MeshInv, TypeOK, ReqType, WorkerRestarts, NoReq
  <2>3. SyncType'
    <3>1. CASE sync' = Unlocked
      BY <3>1, UnlockedTypes
    <3>2. CASE sync' = sync
      BY <3>2 DEF MeshInv, TypeOK, SyncType
    <3> QED
      BY <1>7, <3>1, <3>2 DEF WorkerRestarts
  <2>4. IfaceType'
    BY <1>7 DEF MeshInv, TypeOK, IfaceType, WorkerRestarts, Nodes
  <2>5. BudgetType'
    BY <1>7, FaultTypes DEF WorkerRestarts
  <2>6. RowType' /\ PlanType' /\ RotType' /\ CtlType' /\ FileType'
    BY <1>7, TypeParts DEF MeshInv, RowType, PlanType, RotType, CtlType, FileType,
       WorkerRestarts, panelVars, ctlVars, ifaceVars, workerVars, budgets
  <2> QED
    BY <2>1, <2>2, <2>3, <2>4, <2>5, <2>6 DEF TypeOK, RowType, PlanType, SyncType, RotType, CtlType,
       IfaceType, FileType, TaskType, ReqType, BudgetType
<1>8. ASSUME NEW r \in Rotations, SwapKeys(r)
      PROVE  TypeOK'
  <2>1. FileType' /\ IfaceType'
    <3>1. task[r].node \in Workers
      BY <1>8 DEF MeshInv, CallsPlaced, SwapKeys
    <3> QED
      BY <1>8, <3>1, KeyFacts DEF MeshInv, TypeOK, FileType, IfaceType, SwapKeys, Nodes
  <2>2. TaskType'
    BY <1>8, TaskTypes DEF SwapKeys
  <2>3. RowType' /\ PlanType' /\ SyncType' /\ RotType' /\ CtlType' /\ ReqType' /\ BudgetType'
    BY <1>8, TypeParts DEF MeshInv, RowType, PlanType, SyncType, RotType, CtlType,
       ReqType, BudgetType, SwapKeys, panelVars, ctlVars, ifaceVars, workerVars,
       budgets
  <2> QED
    BY <2>1, <2>2, <2>3 DEF TypeOK, RowType, PlanType, SyncType, RotType, CtlType,
       IfaceType, FileType, TaskType, ReqType, BudgetType
<1>9. ASSUME NEW r \in Rotations, RevertKeys(r)
      PROVE  TypeOK'
  <2>1. FileType' /\ IfaceType'
    <3>1. task[r].node \in Workers
      BY <1>9 DEF MeshInv, CallsPlaced, RevertKeys
    <3> QED
      BY <1>9, <3>1, KeyFacts DEF MeshInv, TypeOK, FileType, IfaceType, RevertKeys, Nodes
  <2>2. TaskType'
    BY <1>9, TaskTypes DEF RevertKeys
  <2>3. RowType' /\ PlanType' /\ SyncType' /\ RotType' /\ CtlType' /\ ReqType' /\ BudgetType'
    BY <1>9, TypeParts DEF MeshInv, RowType, PlanType, SyncType, RotType, CtlType,
       ReqType, BudgetType, RevertKeys, panelVars, ctlVars, ifaceVars, workerVars,
       budgets
  <2> QED
    BY <2>1, <2>2, <2>3 DEF TypeOK, RowType, PlanType, SyncType, RotType, CtlType,
       IfaceType, FileType, TaskType, ReqType, BudgetType
<1>10. ASSUME NEW r \in Rotations, SwapFails(r)
      PROVE  TypeOK'
  <2>1. FileType'
    <3>1. task[r].node \in Workers /\ r \in Keys
      BY <1>10, KeyFacts DEF MeshInv, CallsPlaced, SwapFails
    <3>2. file' \in [Workers -> Keys]
      BY <1>10, <3>1 DEF MeshInv, TypeOK, SwapFails
    <3>3. prev' \in [Workers -> Keys \cup {NoKey}]
      BY <1>10, <3>1 DEF MeshInv, TypeOK, SwapFails
    <3> QED
      BY <3>2, <3>3 DEF FileType
  <2>2. TaskType'
    BY <1>10, TaskTypes DEF SwapFails
  <2>3. BudgetType'
    BY <1>10, FaultTypes DEF SwapFails
  <2>4. RowType' /\ PlanType' /\ SyncType' /\ RotType' /\ CtlType' /\ IfaceType' /\ ReqType'
    BY <1>10, TypeParts DEF MeshInv, RowType, PlanType, SyncType, RotType, CtlType,
       IfaceType, ReqType, SwapFails, panelVars, ctlVars, ifaceVars, workerVars,
       budgets
  <2> QED
    BY <2>1, <2>2, <2>3, <2>4 DEF TypeOK, RowType, PlanType, SyncType, RotType, CtlType,
       IfaceType, FileType, TaskType, ReqType, BudgetType
<1>11. ASSUME NEW r \in Rotations, RevertFails(r)
      PROVE  TypeOK'
  <2>1. FileType'
    <3>1. task[r].node \in Workers
      BY <1>11 DEF MeshInv, CallsPlaced, RevertFails
    <3> QED
      BY <1>11, <3>1, KeyFacts DEF MeshInv, TypeOK, FileType, RevertFails, Nodes
  <2>2. TaskType'
    BY <1>11, TaskTypes DEF RevertFails
  <2>3. BudgetType'
    BY <1>11, FaultTypes DEF RevertFails
  <2>4. RowType' /\ PlanType' /\ SyncType' /\ RotType' /\ CtlType' /\ IfaceType' /\ ReqType'
    BY <1>11, TypeParts DEF MeshInv, RowType, PlanType, SyncType, RotType, CtlType,
       IfaceType, ReqType, RevertFails, panelVars, ctlVars, ifaceVars, workerVars,
       budgets
  <2> QED
    BY <2>1, <2>2, <2>3, <2>4 DEF TypeOK, RowType, PlanType, SyncType, RotType, CtlType,
       IfaceType, FileType, TaskType, ReqType, BudgetType
<1>12. ASSUME NEW c \in Callers, Call(c)
      PROVE  TypeOK'
  <2>1. ReqType'
    <3>1. file[WorkerOf(c)] \in Keys
      BY <1>12, CallerWorker DEF MeshInv, TypeOK, Call
    <3> QED
      BY <1>12, <3>1, KeyFacts DEF MeshInv, TypeOK, ReqType, Call, NoReq
  <2>2. RowType' /\ PlanType' /\ SyncType' /\ RotType' /\ CtlType' /\ IfaceType' /\ FileType' /\ TaskType' /\ BudgetType'
    BY <1>12, TypeParts DEF MeshInv, RowType, PlanType, SyncType, RotType, CtlType,
       IfaceType, FileType, TaskType, BudgetType, Call, panelVars, ctlVars,
       ifaceVars, workerVars, budgets
  <2> QED
    BY <2>1, <2>2 DEF TypeOK, RowType, PlanType, SyncType, RotType, CtlType,
       IfaceType, FileType, TaskType, ReqType, BudgetType
<1>13. ASSUME NEW c \in Callers, TakeNodeKeys(c)
      PROVE  TypeOK'
  <2>1. ReqType'
    BY <1>13, KeyFacts DEF MeshInv, TypeOK, ReqType, TakeNodeKeys, NoReq
  <2>2. RowType'
    <3>1. WorkerOf(c) \in Workers /\ req[c].key \in Keys
      BY <1>13, CallerWorker DEF MeshInv, TypeOK, TakeNodeKeys
    <3> QED
      BY <1>13, <3>1 DEF MeshInv, TypeOK, RowType, TakeNodeKeys, panelVars
  <2>3. PlanType' /\ SyncType' /\ RotType' /\ CtlType' /\ IfaceType' /\ FileType' /\ TaskType' /\ BudgetType'
    BY <1>13, TypeParts DEF MeshInv, PlanType, SyncType, RotType, CtlType, IfaceType,
       FileType, TaskType, BudgetType, TakeNodeKeys, panelVars, ctlVars, ifaceVars,
       workerVars, budgets
  <2> QED
    BY <2>1, <2>2, <2>3 DEF TypeOK, RowType, PlanType, SyncType, RotType, CtlType,
       IfaceType, FileType, TaskType, ReqType, BudgetType
<1>14. ASSUME NEW c \in Callers, RecoverSync(c)
      PROVE  TypeOK'
  <2>1. PlanType' /\ SyncType'
    <3>1. rec \in Pairs /\ (rec.exit # NoKey => rec.wg # NoKey)
      BY <1>14, KeyFacts DEF MeshInv, TypeOK, RotationHolds, IsHeld, Unknown, RecoverSync,
         SyncMuFree
    <3> QED
      BY <1>14, <3>1, PlanTypes DEF RecoverSync, Nodes
  <2>2. ReqType'
    BY <1>14, ReqTypes DEF RecoverSync
  <2>3. RowType' /\ RotType' /\ CtlType' /\ IfaceType' /\ FileType' /\ TaskType' /\ BudgetType'
    BY <1>14, TypeParts DEF MeshInv, RowType, RotType, CtlType, IfaceType, FileType,
       TaskType, BudgetType, RecoverSync, panelVars, ctlVars, ifaceVars, workerVars,
       budgets
  <2> QED
    BY <2>1, <2>2, <2>3 DEF TypeOK, RowType, PlanType, SyncType, RotType, CtlType,
       IfaceType, FileType, TaskType, ReqType, BudgetType
<1>15. ASSUME NEW c \in Callers, RecoverSyncFails(c)
      PROVE  TypeOK'
  <2>1. ReqType'
    BY <1>15, ReqTypes DEF RecoverSyncFails
  <2>2. BudgetType'
    BY <1>15, FaultTypes DEF RecoverSyncFails
  <2>3. RowType' /\ PlanType' /\ SyncType' /\ RotType' /\ CtlType' /\ IfaceType' /\ FileType' /\ TaskType'
    BY <1>15, TypeParts DEF MeshInv, RowType, PlanType, SyncType, RotType, CtlType,
       IfaceType, FileType, TaskType, RecoverSyncFails, panelVars, ctlVars,
       ifaceVars, workerVars, budgets
  <2> QED
    BY <2>1, <2>2, <2>3 DEF TypeOK, RowType, PlanType, SyncType, RotType, CtlType,
       IfaceType, FileType, TaskType, ReqType, BudgetType
<1>16. ASSUME NEW c \in Callers, RecoverSynced(c)
      PROVE  TypeOK'
  <2>1. SyncType'
    BY <1>16, UnlockedTypes DEF RecoverSynced
  <2>2. ReqType'
    BY <1>16, ReqTypes DEF RecoverSynced
  <2>3. RowType' /\ PlanType' /\ RotType' /\ CtlType' /\ IfaceType' /\ FileType' /\ TaskType' /\ BudgetType'
    BY <1>16, TypeParts DEF MeshInv, RowType, PlanType, RotType, CtlType, IfaceType,
       FileType, TaskType, BudgetType, RecoverSynced, panelVars, ctlVars, ifaceVars,
       workerVars, budgets
  <2> QED
    BY <2>1, <2>2, <2>3 DEF TypeOK, RowType, PlanType, SyncType, RotType, CtlType,
       IfaceType, FileType, TaskType, ReqType, BudgetType
<1>17. ASSUME NEW c \in Callers, RecoverAnswer(c)
      PROVE  TypeOK'
  <2>1. ReqType'
    <3>1. req[c] \in [at : {"none", "sent", "check", "took", "sync", "spec", "answered", "cut"},
                     key : Keys, ans : Specs] /\ specs \in Specs
      BY DEF MeshInv, TypeOK
    <3>2. PICK at \in {"cut", "answered"}, ans \in Specs :
            req' = [req EXCEPT ![c] = [req[c] EXCEPT !.at = at, !.ans = ans]]
      BY <1>17, <3>1 DEF RecoverAnswer
    <3>3. [req[c] EXCEPT !.at = at, !.ans = ans] \in
            [at : {"none", "sent", "check", "took", "sync", "spec", "answered", "cut"},
             key : Keys, ans : Specs]
      BY <3>1, <3>2
    <3> QED
      BY <3>2, <3>3 DEF MeshInv, TypeOK, ReqType
  <2>2. RowType' /\ PlanType' /\ SyncType' /\ RotType' /\ CtlType' /\ IfaceType' /\ FileType' /\ TaskType' /\ BudgetType'
    BY <1>17, TypeParts DEF MeshInv, RowType, PlanType, SyncType, RotType, CtlType,
       IfaceType, FileType, TaskType, BudgetType, RecoverAnswer, panelVars, ctlVars,
       ifaceVars, workerVars, budgets
  <2> QED
    BY <2>1, <2>2 DEF TypeOK, RowType, PlanType, SyncType, RotType, CtlType,
       IfaceType, FileType, TaskType, ReqType, BudgetType
<1>18. ASSUME NEW c \in Callers, Recovered(c)
      PROVE  TypeOK'
  <2>1. IfaceType'
    <3>1. WorkerOf(c) \in Nodes /\ req[c].ans \in Specs /\ req[c].ans.ctl # NoKey
      BY <1>18, CallerWorker DEF MeshInv, TypeOK, CallsPlaced, Recovered, Nodes
    <3> QED
      BY <1>18, <3>1, ApplyTypes DEF Recovered
  <2>2. ReqType' /\ TaskType' /\ FileType'
    BY <1>18, CallOverTypes DEF Recovered
  <2>3. RowType' /\ PlanType' /\ SyncType' /\ RotType' /\ CtlType' /\ BudgetType'
    BY <1>18, TypeParts DEF MeshInv, RowType, PlanType, SyncType, RotType, CtlType,
       BudgetType, Recovered, panelVars, ctlVars, ifaceVars, workerVars, budgets
  <2> QED
    BY <2>1, <2>2, <2>3 DEF TypeOK, RowType, PlanType, SyncType, RotType, CtlType,
       IfaceType, FileType, TaskType, ReqType, BudgetType
<1>19. ASSUME NEW c \in Callers, RecoveredBadly(c)
      PROVE  TypeOK'
  <2>1. IfaceType'
    <3>1. WorkerOf(c) \in Nodes /\ req[c].ans \in Specs /\ req[c].ans.ctl # NoKey
      BY <1>19, CallerWorker DEF MeshInv, TypeOK, CallsPlaced, RecoveredBadly, Nodes
    <3> QED
      BY <1>19, <3>1, ApplyTypes DEF RecoveredBadly
  <2>2. ReqType' /\ TaskType' /\ FileType'
    BY <1>19, CallOverTypes DEF RecoveredBadly
  <2>3. BudgetType'
    BY <1>19, FaultTypes DEF RecoveredBadly
  <2>4. RowType' /\ PlanType' /\ SyncType' /\ RotType' /\ CtlType'
    BY <1>19, TypeParts DEF MeshInv, RowType, PlanType, SyncType, RotType, CtlType,
       RecoveredBadly, panelVars, ctlVars, ifaceVars, workerVars, budgets
  <2> QED
    BY <2>1, <2>2, <2>3, <2>4 DEF TypeOK, RowType, PlanType, SyncType, RotType, CtlType,
       IfaceType, FileType, TaskType, ReqType, BudgetType
<1>20. ASSUME NEW c \in Callers, CallLost(c)
      PROVE  TypeOK'
  <2>1. ReqType' /\ TaskType' /\ FileType'
    BY <1>20, CallOverTypes DEF CallLost
  <2>2. BudgetType'
    BY <1>20, FaultTypes DEF CallLost
  <2>3. SyncType'
    <3>1. CASE sync' = Unlocked
      BY <3>1, UnlockedTypes
    <3>2. CASE sync' = sync
      BY <3>2 DEF MeshInv, TypeOK, SyncType
    <3> QED
      BY <1>20, <3>1, <3>2 DEF CallLost
  <2>4. RowType' /\ PlanType' /\ RotType' /\ CtlType' /\ IfaceType'
    BY <1>20, TypeParts DEF MeshInv, RowType, PlanType, RotType, CtlType, IfaceType,
       CallLost, panelVars, ctlVars, ifaceVars, workerVars, budgets
  <2> QED
    BY <2>1, <2>2, <2>3, <2>4 DEF TypeOK, RowType, PlanType, SyncType, RotType, CtlType,
       IfaceType, FileType, TaskType, ReqType, BudgetType
<1>21. ASSUME NEW c \in Callers, CallRefused(c)
      PROVE  TypeOK'
  <2>1. ReqType' /\ TaskType' /\ FileType'
    BY <1>21, CallOverTypes DEF CallRefused
  <2>2. RowType' /\ PlanType' /\ SyncType' /\ RotType' /\ CtlType' /\ IfaceType' /\ BudgetType'
    BY <1>21, TypeParts DEF MeshInv, RowType, PlanType, SyncType, RotType, CtlType,
       IfaceType, BudgetType, CallRefused, panelVars, ctlVars, ifaceVars, workerVars,
       budgets
  <2> QED
    BY <2>1, <2>2 DEF TypeOK, RowType, PlanType, SyncType, RotType, CtlType,
       IfaceType, FileType, TaskType, ReqType, BudgetType
<1>22. ASSUME StageKeys
      PROVE  TypeOK'
  <2>1. RowType' /\ RotType' /\ CtlType'
    <3>1. made' \in Keys
      BY <1>22, RotateAssumption DEF MeshInv, TypeOK, StageKeys, Keys
    <3> QED
      BY <1>22, <3>1, KeyFacts DEF MeshInv, TypeOK, RowType, RotType, CtlType, StageKeys, IdleRot
  <2>2. PlanType' /\ SyncType' /\ IfaceType' /\ FileType' /\ TaskType' /\ ReqType' /\ BudgetType'
    BY <1>22, TypeParts DEF MeshInv, PlanType, SyncType, IfaceType, FileType, TaskType,
       ReqType, BudgetType, StageKeys, panelVars, ctlVars, ifaceVars, workerVars,
       budgets
  <2> QED
    BY <2>1, <2>2 DEF TypeOK, RowType, PlanType, SyncType, RotType, CtlType,
       IfaceType, FileType, TaskType, ReqType, BudgetType
<1>23. ASSUME TakeStaged
      PROVE  TypeOK'
  <2>1. PlanType' /\ SyncType'
    <3>1. staged \in Pairs /\ staged.wg # NoKey
      BY <1>23, KeyFacts DEF MeshInv, TypeOK, RotationHolds, Both, TakeStaged
    <3> QED
      BY <1>23, <3>1, PlanTypes DEF TakeStaged, Nodes
  <2>2. RotType'
    BY <1>23 DEF MeshInv, TypeOK, RotType, TakeStaged
  <2>3. RowType' /\ CtlType' /\ IfaceType' /\ FileType' /\ TaskType' /\ ReqType' /\ BudgetType'
    BY <1>23, TypeParts DEF MeshInv, RowType, CtlType, IfaceType, FileType, TaskType,
       ReqType, BudgetType, TakeStaged, panelVars, ctlVars, ifaceVars, workerVars,
       budgets
  <2> QED
    BY <2>1, <2>2, <2>3 DEF TypeOK, RowType, PlanType, SyncType, RotType, CtlType,
       IfaceType, FileType, TaskType, ReqType, BudgetType
<1>24. ASSUME PlanFails
      PROVE  TypeOK'
  <2>1. PlanType' /\ SyncType'
    <3>1. rec \in Pairs /\ (rec.exit # NoKey => rec.wg # NoKey)
      BY <1>24, KeyFacts DEF MeshInv, TypeOK, RotationHolds, IsHeld, Unknown, PlanFails, SyncMuFree
    <3>2. CASE Plan(rec, "rotate", Ctl, Workers, TRUE)
      BY <3>1, <3>2, PlanTypes DEF Nodes
    <3>3. CASE rec' = rec /\ sync' = [Unlocked EXCEPT !.by = "rotate"] /\ UNCHANGED specs
      BY <3>1, <3>3, KeyFacts DEF MeshInv, TypeOK, PlanType, SyncType, Unlocked
    <3> QED
      BY <1>24, <3>2, <3>3 DEF PlanFails, Rollback
  <2>2. RotType'
    BY <1>24 DEF MeshInv, TypeOK, RotType, PlanFails
  <2>3. BudgetType'
    BY <1>24, FaultTypes DEF PlanFails
  <2>4. RowType' /\ CtlType' /\ IfaceType' /\ FileType' /\ TaskType' /\ ReqType'
    BY <1>24, TypeParts DEF MeshInv, RowType, CtlType, IfaceType, FileType, TaskType,
       ReqType, PlanFails, panelVars, ctlVars, ifaceVars, workerVars, budgets
  <2> QED
    BY <2>1, <2>2, <2>3, <2>4 DEF TypeOK, RowType, PlanType, SyncType, RotType, CtlType,
       IfaceType, FileType, TaskType, ReqType, BudgetType
<1>25. ASSUME RotateAwaited
      PROVE  TypeOK'
  <2>1. RotType'
    BY <1>25, IdleRotTypes DEF RotateAwaited
  <2>2. RowType' /\ PlanType' /\ SyncType' /\ CtlType' /\ IfaceType' /\ FileType' /\ TaskType' /\ ReqType' /\ BudgetType'
    BY <1>25, TypeParts DEF MeshInv, RowType, PlanType, SyncType, CtlType, IfaceType,
       FileType, TaskType, ReqType, BudgetType, RotateAwaited, panelVars, ctlVars,
       ifaceVars, workerVars, budgets
  <2> QED
    BY <2>1, <2>2 DEF TypeOK, RowType, PlanType, SyncType, RotType, CtlType,
       IfaceType, FileType, TaskType, ReqType, BudgetType
<1>26. ASSUME PromoteKeys
      PROVE  TypeOK'
  <2>1. CtlType' /\ IfaceType'
    <3>1. staged.wg \in Keys /\ staged \in [wg : Keys, exit : Keys]
      BY <1>26 DEF MeshInv, TypeOK, RotationHolds, Both, PromoteKeys
    <3> QED
      BY <1>26, <3>1, KeyFacts DEF MeshInv, TypeOK, CtlType, IfaceType, PromoteKeys, Nodes
  <2>2. SyncType'
    BY <1>26 DEF MeshInv, TypeOK, SyncType, PromoteKeys, Nodes
  <2>3. RotType'
    BY <1>26 DEF MeshInv, TypeOK, RotType, PromoteKeys, RotGoto
  <2>4. RowType' /\ PlanType' /\ FileType' /\ TaskType' /\ ReqType' /\ BudgetType'
    BY <1>26, TypeParts DEF MeshInv, RowType, PlanType, FileType, TaskType, ReqType,
       BudgetType, PromoteKeys, panelVars, ctlVars, ifaceVars, workerVars, budgets
  <2> QED
    BY <2>1, <2>2, <2>3, <2>4 DEF TypeOK, RowType, PlanType, SyncType, RotType, CtlType,
       IfaceType, FileType, TaskType, ReqType, BudgetType
<1>27. ASSUME PromoteFails
      PROVE  TypeOK'
  <2>1. PlanType' /\ SyncType'
    <3>1. rot.old \in Pairs /\ (rot.old.exit # NoKey => rot.old.wg # NoKey)
      BY <1>27, KeyFacts DEF MeshInv, TypeOK, RotationHolds, IsHeld, Unknown, PromoteFails
    <3>2. CASE Plan(rot.old, "rotate", Ctl, Workers, TRUE)
      BY <3>1, <3>2, PlanTypes DEF Nodes
    <3>3. CASE rec' = rot.old /\ sync' = [Unlocked EXCEPT !.by = "rotate"] /\ UNCHANGED specs
      BY <3>1, <3>3, KeyFacts DEF MeshInv, TypeOK, PlanType, SyncType, Unlocked
    <3> QED
      BY <1>27, <3>2, <3>3 DEF PromoteFails, Rollback
  <2>2. RotType'
    BY <1>27 DEF MeshInv, TypeOK, RotType, PromoteFails, RotGoto
  <2>3. BudgetType'
    BY <1>27, FaultTypes DEF PromoteFails
  <2>4. RowType' /\ CtlType' /\ IfaceType' /\ FileType' /\ TaskType' /\ ReqType'
    BY <1>27, TypeParts DEF MeshInv, RowType, CtlType, IfaceType, FileType, TaskType,
       ReqType, PromoteFails, panelVars, ctlVars, ifaceVars, workerVars, budgets
  <2> QED
    BY <2>1, <2>2, <2>3, <2>4 DEF TypeOK, RowType, PlanType, SyncType, RotType, CtlType,
       IfaceType, FileType, TaskType, ReqType, BudgetType
<1>28. ASSUME PromoteTorn
      PROVE  TypeOK'
  <2>1. CtlType'
    <3>1. staged.wg \in Keys /\ staged \in [wg : Keys, exit : Keys]
      BY <1>28 DEF MeshInv, TypeOK, RotationHolds, Both, PromoteTorn
    <3> QED
      BY <1>28, <3>1, KeyFacts DEF MeshInv, TypeOK, CtlType, PromoteTorn, Pairs
  <2>2. SyncType'
    BY <1>28 DEF MeshInv, TypeOK, SyncType, PromoteTorn, Nodes
  <2>3. RotType'
    BY <1>28 DEF MeshInv, TypeOK, RotType, PromoteTorn, RotGoto
  <2>4. BudgetType'
    BY <1>28, FaultTypes DEF PromoteTorn
  <2>5. RowType' /\ PlanType' /\ IfaceType' /\ FileType' /\ TaskType' /\ ReqType'
    BY <1>28, TypeParts DEF MeshInv, RowType, PlanType, IfaceType, FileType, TaskType,
       ReqType, PromoteTorn, panelVars, ctlVars, ifaceVars, workerVars, budgets
  <2> QED
    BY <2>1, <2>2, <2>3, <2>4, <2>5 DEF TypeOK, RowType, PlanType, SyncType, RotType, CtlType,
       IfaceType, FileType, TaskType, ReqType, BudgetType
<1>29. ASSUME ControllerRotated
      PROVE  TypeOK'
  <2>1. SyncType'
    BY <1>29, UnlockedTypes DEF ControllerRotated
  <2>2. RotType'
    BY <1>29, IdleRotTypes DEF ControllerRotated
  <2>3. RowType' /\ PlanType' /\ CtlType' /\ IfaceType' /\ FileType' /\ TaskType' /\ ReqType' /\ BudgetType'
    BY <1>29, TypeParts DEF MeshInv, RowType, PlanType, CtlType, IfaceType, FileType,
       TaskType, ReqType, BudgetType, ControllerRotated, panelVars, ctlVars,
       ifaceVars, workerVars, budgets
  <2> QED
    BY <2>1, <2>2, <2>3 DEF TypeOK, RowType, PlanType, SyncType, RotType, CtlType,
       IfaceType, FileType, TaskType, ReqType, BudgetType
<1>30. ASSUME PanelDies
      PROVE  TypeOK'
  <2>1. SyncType'
    BY <1>30, UnlockedTypes DEF PanelDies
  <2>2. RotType'
    BY <1>30, IdleRotTypes DEF PanelDies
  <2>3. PlanType'
    BY <1>30, KeyFacts DEF PlanType, PanelDies, Spec0, Specs
  <2>4. ReqType'
    BY <1>30, KeyFacts DEF MeshInv, TypeOK, ReqType, PanelDies, NoReq
  <2>5. RowType'
    BY <1>30 DEF MeshInv, TypeOK, RowType, PanelDies
  <2>6. BudgetType'
    BY <1>30, FaultTypes DEF PanelDies
  <2>7. CtlType' /\ IfaceType' /\ FileType' /\ TaskType'
    BY <1>30, TypeParts DEF MeshInv, CtlType, IfaceType, FileType, TaskType, PanelDies,
       panelVars, ctlVars, ifaceVars, workerVars, budgets
  <2> QED
    BY <2>1, <2>2, <2>3, <2>4, <2>5, <2>6, <2>7 DEF TypeOK, RowType, PlanType, SyncType,
       RotType, CtlType,
       IfaceType, FileType, TaskType, ReqType, BudgetType
<1>31. ASSUME PanelBoots
      PROVE  TypeOK'
  <2>1. RowType' /\ PlanType' /\ SyncType' /\ RotType' /\ CtlType' /\ IfaceType' /\ FileType' /\ TaskType' /\ ReqType' /\ BudgetType'
    BY <1>31, TypeParts DEF MeshInv, RowType, PlanType, SyncType, RotType, CtlType,
       IfaceType, FileType, TaskType, ReqType, BudgetType, PanelBoots, panelVars,
       ctlVars, ifaceVars, workerVars, budgets
  <2> QED
    BY <2>1 DEF TypeOK, RowType, PlanType, SyncType, RotType, CtlType,
       IfaceType, FileType, TaskType, ReqType, BudgetType
<1>32. CASE UNCHANGED vars
  BY <1>32 DEF MeshInv, TypeOK, vars, panelVars, ctlVars, ifaceVars, workerVars, budgets
<1> QED
  BY <1>1, <1>2, <1>3, <1>4, <1>5, <1>6, <1>7, <1>8, <1>9, <1>10, <1>11, <1>12, <1>13,
     <1>14, <1>15, <1>16, <1>17, <1>18, <1>19, <1>20, <1>21, <1>22, <1>23, <1>24, <1>25, <1>26,
     <1>27, <1>28, <1>29, <1>30, <1>31, <1>32 DEF Next, Syncing, Task, Calling, RecoverStep,
     Rotating

(* A rotation's call that is over leaves every other call where it was.    *)
LEMMA CallOverPlaced ==
  ASSUME MeshInv,
         NEW c \in Rotations,
         task[c].at \in {"hand", "last"},
         c <= made,
         made' = made,
         req'[c].at = "none",
         \A d \in Callers \ {c} : req'[d] = req[d],
         \A s \in Rotations \ {c} : task'[s] = task[s],
         task'[c].at # "none" => task'[c].node = task[c].node,
         sync'.by = "call" => sync' = sync /\ sync.caller # c
  PROVE  CallsPlaced'
<1>0. CallsPlaced /\ made \in Nat
  BY RotateAssumption DEF MeshInv, TypeOK, Keys
<1>1. \A r \in Rotations : task'[r].at # "none" => task'[r].node \in Workers
  <2> TAKE r \in Rotations
  <2>1. task[r].at # "none" => task[r].node \in Workers
    BY <1>0 DEF CallsPlaced
  <2>2. CASE r = c
    BY <2>1, <2>2
  <2>3. CASE r # c
    BY <2>1, <2>3
  <2> QED
    BY <2>2, <2>3
<1>2. \A r \in Rotations : r > made' => task'[r].at = "none"
  <2> TAKE r \in Rotations
  <2> HAVE r > made'
  <2>1. task[r].at = "none"
    BY <1>0 DEF CallsPlaced
  <2>2. r # c
    BY <2>1
  <2> QED
    BY <2>1, <2>2
<1>3. \A d \in Callers \ Workers : req'[d].at # "none" => task'[d].at \in {"hand", "last"}
  <2> TAKE d \in Callers \ Workers
  <2> HAVE req'[d].at # "none"
  <2>1. d # c /\ d \in Rotations
    BY DEF Callers
  <2>2. req'[d] = req[d] /\ task'[d] = task[d]
    BY <2>1
  <2>3. task[d].at \in {"hand", "last"}
    BY <1>0, <2>2 DEF CallsPlaced
  <2> QED
    BY <2>2, <2>3
<1>4. sync'.by = "call" => sync'.caller \in Callers /\ req'[sync'.caller].at = "sync"
  <2> HAVE sync'.by = "call"
  <2>1. sync' = sync /\ sync.caller # c /\ sync.caller \in Callers
        /\ req[sync.caller].at = "sync"
    BY <1>0 DEF CallsPlaced
  <2>2. req'[sync.caller] = req[sync.caller]
    BY <2>1
  <2> QED
    BY <2>1, <2>2
<1>5. \A d \in Callers : req'[d].at = "answered" => req'[d].ans.ctl # NoKey
  <2> TAKE d \in Callers
  <2> HAVE req'[d].at = "answered"
  <2>1. d # c
    OBVIOUS
  <2>2. req'[d] = req[d]
    BY <2>1
  <2> QED
    BY <1>0, <2>2 DEF CallsPlaced
<1> QED
  BY <1>1, <1>2, <1>3, <1>4, <1>5 DEF CallsPlaced

(* A call stays with the worker that made it, and an answer names a key.   *)
LEMMA CallsStep == MeshInv /\ [Next]_vars => CallsPlaced'
<1> SUFFICES ASSUME MeshInv, [Next]_vars PROVE CallsPlaced'
  OBVIOUS
<1>1. ASSUME RunSync
      PROVE  CallsPlaced'
  BY <1>1, RotateAssumption DEF MeshInv, TypeOK, CallsPlaced, Specs, Keys, NoKey,
     Callers, Rotations, Nodes, Spec0, RunSync, Plan, Planned, Refreshed, SyncMuFree,
     panelVars, ctlVars, ifaceVars, workerVars, budgets
<1>2. ASSUME NEW n \in Nodes, Push(n)
      PROVE  CallsPlaced'
  BY <1>2, RotateAssumption DEF MeshInv, TypeOK, CallsPlaced, Specs, Keys, NoKey,
     Callers, Rotations, Nodes, Spec0, Push, Pushed, Apply, KeyOf, Unlocked, Reaches,
     panelVars, ctlVars, ifaceVars, workerVars, budgets
<1>3. ASSUME NEW n \in Nodes, PushLost(n)
      PROVE  CallsPlaced'
  BY <1>3, RotateAssumption DEF MeshInv, TypeOK, CallsPlaced, Specs, Keys, NoKey,
     Callers, Rotations, Nodes, Spec0, PushLost, Pushed, Fault, Unlocked, panelVars,
     ctlVars, ifaceVars, workerVars, budgets
<1>4. ASSUME NEW n \in Nodes, PushSkipped(n)
      PROVE  CallsPlaced'
  BY <1>4, RotateAssumption DEF MeshInv, TypeOK, CallsPlaced, Specs, Keys, NoKey,
     Callers, Rotations, Nodes, Spec0, PushSkipped, Pushed, Unlocked, panelVars,
     ctlVars, ifaceVars, workerVars, budgets
<1>5. ASSUME NEW w \in Workers, RotateWorker(w)
      PROVE  CallsPlaced'
  <2>1. made' = made + 1 /\ made \in Nat /\ made' \in Rotations
    BY <1>5, RotateAssumption DEF MeshInv, TypeOK, RotateWorker, Keys, Rotations
  <2>2. /\ task'[made'] = [at |-> "swap", node |-> w]
        /\ \A r \in Rotations \ {made'} : task'[r] = task[r]
    BY <1>5, <2>1 DEF MeshInv, TypeOK, RotateWorker
  <2>3. task[made'].at = "none"
    BY <2>1 DEF MeshInv, CallsPlaced
  <2>4. \A c \in Callers \ Workers : req[c].at # "none" => c # made'
    BY <2>3 DEF MeshInv, CallsPlaced
  <2>5. req' = req /\ sync' = sync
    BY <1>5 DEF RotateWorker
  <2> QED
    BY <2>1, <2>2, <2>4, <2>5 DEF MeshInv, CallsPlaced, Rotations, Callers
<1>6. ASSUME NEW w \in Workers, QuietSpell(w)
      PROVE  CallsPlaced'
  <2>1. task' = task /\ made' = made /\ sync' = sync
    BY <1>6 DEF QuietSpell, workerVars, panelVars
  <2>2. w \in Callers /\ req[w].at = "none"
    BY <1>6 DEF QuietSpell, Callers
  <2>3. req'[w].at = "sent" /\ \A d \in Callers \ {w} : req'[d] = req[d]
    BY <1>6, <2>2 DEF MeshInv, TypeOK, QuietSpell, NoReq
  <2>4. w \in Callers \ Workers => task[w].at \in {"hand", "last"}
    BY <1>6 DEF QuietSpell
  <2> QED
    BY <2>1, <2>2, <2>3, <2>4 DEF MeshInv, CallsPlaced
<1>7. ASSUME NEW w \in Workers, WorkerRestarts(w)
      PROVE  CallsPlaced'
  BY <1>7, RotateAssumption DEF MeshInv, TypeOK, CallsPlaced, Specs, Keys, NoKey,
     Callers, Rotations, Nodes, Spec0, WorkerRestarts, Crash, NoTask, NoReq,
     Unlocked, WorkerOf, panelVars, ctlVars, ifaceVars, workerVars, budgets
<1>8. ASSUME NEW r \in Rotations, SwapKeys(r)
      PROVE  CallsPlaced'
  <2>1. /\ req' = req /\ made' = made /\ sync' = sync
        /\ \A s \in Rotations \ {r} : task'[s] = task[s]
        /\ task'[r].at # "none" => task'[r].node = task[r].node
    BY <1>8, TaskTypes DEF SwapKeys, panelVars
  <2>2. r <= made /\ task[r].at \notin {"none", "hand", "last"}
    BY <1>8 DEF MeshInv, TypeOK, CallsPlaced, Rotations, Keys, SwapKeys
  <2> QED
    BY <2>1, <2>2 DEF MeshInv, CallsPlaced, Rotations, Callers
<1>9. ASSUME NEW r \in Rotations, RevertKeys(r)
      PROVE  CallsPlaced'
  <2>1. /\ req' = req /\ made' = made /\ sync' = sync
        /\ \A s \in Rotations \ {r} : task'[s] = task[s]
        /\ task'[r].at # "none" => task'[r].node = task[r].node
    BY <1>9, TaskTypes DEF RevertKeys, panelVars
  <2>2. r <= made /\ task[r].at \notin {"none", "hand", "last"}
    BY <1>9 DEF MeshInv, TypeOK, CallsPlaced, Rotations, Keys, RevertKeys
  <2> QED
    BY <2>1, <2>2 DEF MeshInv, CallsPlaced, Rotations, Callers
<1>10. ASSUME NEW r \in Rotations, SwapFails(r)
      PROVE  CallsPlaced'
  <2>1. /\ req' = req /\ made' = made /\ sync' = sync
        /\ \A s \in Rotations \ {r} : task'[s] = task[s]
        /\ task'[r].at # "none" => task'[r].node = task[r].node
    BY <1>10, TaskTypes DEF SwapFails, panelVars
  <2>2. r <= made /\ task[r].at \notin {"none", "hand", "last"}
    BY <1>10 DEF MeshInv, TypeOK, CallsPlaced, Rotations, Keys, SwapFails
  <2> QED
    BY <2>1, <2>2 DEF MeshInv, CallsPlaced, Rotations, Callers
<1>11. ASSUME NEW r \in Rotations, RevertFails(r)
      PROVE  CallsPlaced'
  <2>1. /\ req' = req /\ made' = made /\ sync' = sync
        /\ \A s \in Rotations \ {r} : task'[s] = task[s]
        /\ task'[r].at # "none" => task'[r].node = task[r].node
    BY <1>11, TaskTypes DEF RevertFails, panelVars
  <2>2. r <= made /\ task[r].at \notin {"none", "hand", "last"}
    BY <1>11 DEF MeshInv, TypeOK, CallsPlaced, Rotations, Keys, RevertFails
  <2> QED
    BY <2>1, <2>2 DEF MeshInv, CallsPlaced, Rotations, Callers
<1>12. ASSUME NEW c \in Callers, Call(c)
      PROVE  CallsPlaced'
  <2>1. task' = task /\ made' = made /\ sync' = sync
    BY <1>12 DEF Call, workerVars, panelVars
  <2>2. c \in Callers /\ req[c].at = "none"
    BY <1>12 DEF Call, Callers
  <2>3. req'[c].at = "sent" /\ \A d \in Callers \ {c} : req'[d] = req[d]
    BY <1>12, <2>2 DEF MeshInv, TypeOK, Call, NoReq
  <2>4. c \in Callers \ Workers => task[c].at \in {"hand", "last"}
    BY <1>12 DEF Call, Waiting
  <2> QED
    BY <2>1, <2>2, <2>3, <2>4 DEF MeshInv, CallsPlaced
<1>13. ASSUME NEW c \in Callers, TakeNodeKeys(c)
      PROVE  CallsPlaced'
  BY <1>13, RotateAssumption DEF MeshInv, TypeOK, CallsPlaced, Specs, Keys, NoKey,
     Callers, Rotations, Nodes, Spec0, TakeNodeKeys, NoReq, WorkerOf, panelVars,
     ctlVars, ifaceVars, workerVars, budgets
<1>14. ASSUME NEW c \in Callers, RecoverSync(c)
      PROVE  CallsPlaced'
  <2>1. task' = task /\ made' = made
    BY <1>14 DEF RecoverSync, workerVars
  <2>2. /\ \A d \in Callers \ {c} : req'[d] = req[d]
        /\ req'[c].at # "answered" \/ req'[c].ans.ctl # NoKey
        /\ req[c].at \notin {"none", "sync"}
        /\ sync' = sync \/ (sync'.caller = c /\ req'[c].at = "sync")
    BY <1>14 DEF MeshInv, TypeOK, RecoverSync, Plan
  <2> QED
    BY <2>1, <2>2 DEF MeshInv, CallsPlaced
<1>15. ASSUME NEW c \in Callers, RecoverSyncFails(c)
      PROVE  CallsPlaced'
  <2>1. task' = task /\ made' = made
    BY <1>15 DEF RecoverSyncFails, workerVars
  <2>2. /\ \A d \in Callers \ {c} : req'[d] = req[d]
        /\ req'[c].at # "answered" \/ req'[c].ans.ctl # NoKey
        /\ req[c].at \notin {"none", "sync"}
        /\ sync' = sync \/ (sync'.caller = c /\ req'[c].at = "sync")
    BY <1>15 DEF MeshInv, TypeOK, RecoverSyncFails, panelVars
  <2> QED
    BY <2>1, <2>2 DEF MeshInv, CallsPlaced
<1>16. ASSUME NEW c \in Callers, RecoverSynced(c)
      PROVE  CallsPlaced'
  <2>1. task' = task /\ made' = made
    BY <1>16 DEF RecoverSynced, workerVars
  <2>2. /\ \A d \in Callers \ {c} : req'[d] = req[d]
        /\ req'[c].at = "spec" /\ sync'.by = "free"
    BY <1>16 DEF MeshInv, TypeOK, RecoverSynced, Unlocked
  <2>3. req[c].at # "none"
    BY <1>16 DEF MeshInv, CallsPlaced, RecoverSynced, Syncs
  <2> QED
    BY <2>1, <2>2, <2>3 DEF MeshInv, CallsPlaced
<1>17. ASSUME NEW c \in Callers, RecoverAnswer(c)
      PROVE  CallsPlaced'
  <2>1. task' = task /\ made' = made
    BY <1>17 DEF RecoverAnswer, workerVars
  <2>2. /\ \A d \in Callers \ {c} : req'[d] = req[d]
        /\ req'[c].at # "answered" \/ req'[c].ans.ctl # NoKey
        /\ req[c].at \notin {"none", "sync"}
        /\ sync' = sync \/ (sync'.caller = c /\ req'[c].at = "sync")
    BY <1>17 DEF MeshInv, TypeOK, RecoverAnswer, panelVars
  <2> QED
    BY <2>1, <2>2 DEF MeshInv, CallsPlaced
<1>18. ASSUME NEW c \in Callers, Recovered(c)
      PROVE  CallsPlaced'
  <2>1. req[c].at # "none" /\ made' = made
    BY <1>18 DEF Recovered
  <2>2. req'[c].at = "none" /\ \A d \in Callers \ {c} : req'[d] = req[d]
    BY <1>18 DEF MeshInv, TypeOK, Recovered, CallOver, NoReq
  <2>0. sync'.by = "call" => sync' = sync /\ sync.caller # c
    BY <1>18, <2>1 DEF MeshInv, CallsPlaced, Recovered, Syncs, Unlocked, panelVars
  <2>3. CASE c \in Workers
    BY <1>18, <2>1, <2>2, <2>3, <2>0 DEF MeshInv, CallsPlaced, Recovered, CallOver
  <2>4. CASE c \notin Workers
    <3>1. c \in Rotations /\ task[c].at \in {"hand", "last"} /\ c <= made
      BY <2>1, <2>4 DEF MeshInv, TypeOK, CallsPlaced, Callers, Rotations, Keys
    <3>2. /\ \A s \in Rotations \ {c} : task'[s] = task[s]
          /\ task'[c].at # "none" => task'[c].node = task[c].node
      BY <1>18, <2>4, <3>1, TaskTypes DEF Recovered, CallOver
    <3> QED
      BY <2>1, <2>2, <2>0, <3>1, <3>2, CallOverPlaced
  <2> QED
    BY <2>3, <2>4
<1>19. ASSUME NEW c \in Callers, RecoveredBadly(c)
      PROVE  CallsPlaced'
  <2>1. req[c].at # "none" /\ made' = made
    BY <1>19 DEF RecoveredBadly
  <2>2. req'[c].at = "none" /\ \A d \in Callers \ {c} : req'[d] = req[d]
    BY <1>19 DEF MeshInv, TypeOK, RecoveredBadly, CallOver, NoReq
  <2>0. sync'.by = "call" => sync' = sync /\ sync.caller # c
    BY <1>19, <2>1 DEF MeshInv, CallsPlaced, RecoveredBadly, Syncs, Unlocked, panelVars
  <2>3. CASE c \in Workers
    BY <1>19, <2>1, <2>2, <2>3, <2>0 DEF MeshInv, CallsPlaced, RecoveredBadly, CallOver
  <2>4. CASE c \notin Workers
    <3>1. c \in Rotations /\ task[c].at \in {"hand", "last"} /\ c <= made
      BY <2>1, <2>4 DEF MeshInv, TypeOK, CallsPlaced, Callers, Rotations, Keys
    <3>2. /\ \A s \in Rotations \ {c} : task'[s] = task[s]
          /\ task'[c].at # "none" => task'[c].node = task[c].node
      BY <1>19, <2>4, <3>1, TaskTypes DEF RecoveredBadly, CallOver
    <3> QED
      BY <2>1, <2>2, <2>0, <3>1, <3>2, CallOverPlaced
  <2> QED
    BY <2>3, <2>4
<1>20. ASSUME NEW c \in Callers, CallLost(c)
      PROVE  CallsPlaced'
  <2>1. req[c].at # "none" /\ made' = made
    BY <1>20 DEF CallLost
  <2>2. req'[c].at = "none" /\ \A d \in Callers \ {c} : req'[d] = req[d]
    BY <1>20 DEF MeshInv, TypeOK, CallLost, CallOver, NoReq
  <2>0. sync'.by = "call" => sync' = sync /\ sync.caller # c
    BY <1>20, <2>1 DEF MeshInv, CallsPlaced, CallLost, Syncs, Unlocked, panelVars
  <2>3. CASE c \in Workers
    BY <1>20, <2>1, <2>2, <2>3, <2>0 DEF MeshInv, CallsPlaced, CallLost, CallOver
  <2>4. CASE c \notin Workers
    <3>1. c \in Rotations /\ task[c].at \in {"hand", "last"} /\ c <= made
      BY <2>1, <2>4 DEF MeshInv, TypeOK, CallsPlaced, Callers, Rotations, Keys
    <3>2. /\ \A s \in Rotations \ {c} : task'[s] = task[s]
          /\ task'[c].at # "none" => task'[c].node = task[c].node
      BY <1>20, <2>4, <3>1, TaskTypes DEF CallLost, CallOver
    <3> QED
      BY <2>1, <2>2, <2>0, <3>1, <3>2, CallOverPlaced
  <2> QED
    BY <2>3, <2>4
<1>21. ASSUME NEW c \in Callers, CallRefused(c)
      PROVE  CallsPlaced'
  <2>1. req[c].at # "none" /\ made' = made
    BY <1>21 DEF CallRefused
  <2>2. req'[c].at = "none" /\ \A d \in Callers \ {c} : req'[d] = req[d]
    BY <1>21 DEF MeshInv, TypeOK, CallRefused, CallOver, NoReq
  <2>0. sync'.by = "call" => sync' = sync /\ sync.caller # c
    BY <1>21, <2>1 DEF MeshInv, CallsPlaced, CallRefused, Syncs, Unlocked, panelVars
  <2>3. CASE c \in Workers
    BY <1>21, <2>1, <2>2, <2>3, <2>0 DEF MeshInv, CallsPlaced, CallRefused, CallOver
  <2>4. CASE c \notin Workers
    <3>1. c \in Rotations /\ task[c].at \in {"hand", "last"} /\ c <= made
      BY <2>1, <2>4 DEF MeshInv, TypeOK, CallsPlaced, Callers, Rotations, Keys
    <3>2. /\ \A s \in Rotations \ {c} : task'[s] = task[s]
          /\ task'[c].at # "none" => task'[c].node = task[c].node
      BY <1>21, <2>4, <3>1, TaskTypes DEF CallRefused, CallOver
    <3> QED
      BY <2>1, <2>2, <2>0, <3>1, <3>2, CallOverPlaced
  <2> QED
    BY <2>3, <2>4
<1>22. ASSUME StageKeys
      PROVE  CallsPlaced'
  BY <1>22, RotateAssumption DEF MeshInv, TypeOK, CallsPlaced, Specs, Keys, NoKey,
     Callers, Rotations, Nodes, Spec0, StageKeys, IdleRot, Both, panelVars, ctlVars,
     ifaceVars, workerVars, budgets
<1>23. ASSUME TakeStaged
      PROVE  CallsPlaced'
  BY <1>23, RotateAssumption DEF MeshInv, TypeOK, CallsPlaced, Specs, Keys, NoKey,
     Callers, Rotations, Nodes, Spec0, TakeStaged, Plan, Planned, Refreshed,
     SyncMuFree, panelVars, ctlVars, ifaceVars, workerVars, budgets
<1>24. ASSUME PlanFails
      PROVE  CallsPlaced'
  BY <1>24, RotateAssumption DEF MeshInv, TypeOK, CallsPlaced, Specs, Keys, NoKey,
     Callers, Rotations, Nodes, Spec0, PlanFails, Plan, Planned, Refreshed, Rollback,
     Fault, Unlocked, SyncMuFree, panelVars, ctlVars, ifaceVars, workerVars, budgets
<1>25. ASSUME RotateAwaited
      PROVE  CallsPlaced'
  BY <1>25, RotateAssumption DEF MeshInv, TypeOK, CallsPlaced, Specs, Keys, NoKey,
     Callers, Rotations, Nodes, Spec0, RotateAwaited, IdleRot, panelVars, ctlVars,
     ifaceVars, workerVars, budgets
<1>26. ASSUME PromoteKeys
      PROVE  CallsPlaced'
  BY <1>26, RotateAssumption DEF MeshInv, TypeOK, CallsPlaced, Specs, Keys, NoKey,
     Callers, Rotations, Nodes, Spec0, PromoteKeys, RotGoto, panelVars, ctlVars,
     ifaceVars, workerVars, budgets
<1>27. ASSUME PromoteFails
      PROVE  CallsPlaced'
  BY <1>27, RotateAssumption DEF MeshInv, TypeOK, CallsPlaced, Specs, Keys, NoKey,
     Callers, Rotations, Nodes, Spec0, PromoteFails, RotGoto, Fault, Rollback,
     Unlocked, Plan, Planned, Refreshed, panelVars, ctlVars, ifaceVars, workerVars,
     budgets
<1>28. ASSUME PromoteTorn
      PROVE  CallsPlaced'
  BY <1>28, RotateAssumption DEF MeshInv, TypeOK, CallsPlaced, Specs, Keys, NoKey,
     Callers, Rotations, Nodes, Spec0, PromoteTorn, RotGoto, Fault, panelVars,
     ctlVars, ifaceVars, workerVars, budgets
<1>29. ASSUME ControllerRotated
      PROVE  CallsPlaced'
  BY <1>29, RotateAssumption DEF MeshInv, TypeOK, CallsPlaced, Specs, Keys, NoKey,
     Callers, Rotations, Nodes, Spec0, ControllerRotated, Unlocked, IdleRot,
     panelVars, ctlVars, ifaceVars, workerVars, budgets
<1>30. ASSUME PanelDies
      PROVE  CallsPlaced'
  BY <1>30, RotateAssumption DEF MeshInv, TypeOK, CallsPlaced, Specs, Keys, NoKey,
     Callers, Rotations, Nodes, Spec0, PanelDies, Crash, Unlocked, IdleRot, NoReq,
     panelVars, ctlVars, ifaceVars, workerVars, budgets
<1>31. ASSUME PanelBoots
      PROVE  CallsPlaced'
  BY <1>31, RotateAssumption DEF MeshInv, TypeOK, CallsPlaced, Specs, Keys, NoKey,
     Callers, Rotations, Nodes, Spec0, PanelBoots, panelVars, ctlVars, ifaceVars,
     workerVars, budgets
<1>32. CASE UNCHANGED vars
  BY <1>32 DEF MeshInv, TypeOK, CallsPlaced, Specs, Keys, NoKey, Callers, Rotations,
     Nodes, Spec0, vars, panelVars, ctlVars, ifaceVars, workerVars, budgets
<1> QED
  BY <1>1, <1>2, <1>3, <1>4, <1>5, <1>6, <1>7, <1>8, <1>9, <1>10, <1>11, <1>12, <1>13,
     <1>14, <1>15, <1>16, <1>17, <1>18, <1>19, <1>20, <1>21, <1>22, <1>23, <1>24, <1>25, <1>26,
     <1>27, <1>28, <1>29, <1>30, <1>31, <1>32 DEF Next, Syncing, Task, Calling, RecoverStep,
     Rotating

(* Whatever fails or dies, the pair the service knows outside a switch is  *)
(* the one on disk.                                                        *)
LEMMA RotationStep == MeshInv /\ [Next]_vars => RotationHolds'
<1> SUFFICES ASSUME MeshInv, [Next]_vars PROVE RotationHolds'
  OBVIOUS
<1>1. ASSUME RunSync
      PROVE  RotationHolds'
  BY <1>1, RotateAssumption DEF MeshInv, TypeOK, RotationHolds, IsHeld, Specs, Pairs,
     Keys, NoKey, Both, Unknown, RunSync, Plan, Planned, Refreshed, SyncMuFree,
     panelVars, ctlVars, ifaceVars, workerVars, budgets
<1>2. ASSUME NEW n \in Nodes, Push(n)
      PROVE  RotationHolds'
  BY <1>2, RotateAssumption DEF MeshInv, TypeOK, RotationHolds, IsHeld, Specs, Pairs,
     Keys, NoKey, Both, Unknown, Push, Pushed, Apply, KeyOf, Unlocked, Reaches,
     panelVars, ctlVars, ifaceVars, workerVars, budgets
<1>3. ASSUME NEW n \in Nodes, PushLost(n)
      PROVE  RotationHolds'
  BY <1>3, RotateAssumption DEF MeshInv, TypeOK, RotationHolds, IsHeld, Specs, Pairs,
     Keys, NoKey, Both, Unknown, PushLost, Pushed, Fault, Unlocked, panelVars,
     ctlVars, ifaceVars, workerVars, budgets
<1>4. ASSUME NEW n \in Nodes, PushSkipped(n)
      PROVE  RotationHolds'
  BY <1>4, RotateAssumption DEF MeshInv, TypeOK, RotationHolds, IsHeld, Specs, Pairs,
     Keys, NoKey, Both, Unknown, PushSkipped, Pushed, Unlocked, panelVars, ctlVars,
     ifaceVars, workerVars, budgets
<1>5. ASSUME NEW w \in Workers, RotateWorker(w)
      PROVE  RotationHolds'
  BY <1>5, RotateAssumption DEF MeshInv, TypeOK, RotationHolds, IsHeld, Specs, Pairs,
     Keys, NoKey, Both, Unknown, RotateWorker, IdleRot, panelVars, ctlVars,
     ifaceVars, workerVars, budgets
<1>6. ASSUME NEW w \in Workers, QuietSpell(w)
      PROVE  RotationHolds'
  BY <1>6, RotateAssumption DEF MeshInv, TypeOK, RotationHolds, IsHeld, Specs, Pairs,
     Keys, NoKey, Both, Unknown, QuietSpell, Fault, NoReq, panelVars, ctlVars,
     ifaceVars, workerVars, budgets
<1>7. ASSUME NEW w \in Workers, WorkerRestarts(w)
      PROVE  RotationHolds'
  BY <1>7, RotateAssumption DEF MeshInv, TypeOK, RotationHolds, IsHeld, Specs, Pairs,
     Keys, NoKey, Both, Unknown, WorkerRestarts, Crash, NoTask, NoReq, Unlocked,
     WorkerOf, panelVars, ctlVars, ifaceVars, workerVars, budgets
<1>8. ASSUME NEW r \in Rotations, SwapKeys(r)
      PROVE  RotationHolds'
  BY <1>8, RotateAssumption DEF MeshInv, TypeOK, RotationHolds, IsHeld, Specs, Pairs,
     Keys, NoKey, Both, Unknown, SwapKeys, Step, panelVars, ctlVars, ifaceVars,
     workerVars, budgets
<1>9. ASSUME NEW r \in Rotations, RevertKeys(r)
      PROVE  RotationHolds'
  BY <1>9, RotateAssumption DEF MeshInv, TypeOK, RotationHolds, IsHeld, Specs, Pairs,
     Keys, NoKey, Both, Unknown, RevertKeys, Step, panelVars, ctlVars, ifaceVars,
     workerVars, budgets
<1>10. ASSUME NEW r \in Rotations, SwapFails(r)
      PROVE  RotationHolds'
  BY <1>10, RotateAssumption DEF MeshInv, TypeOK, RotationHolds, IsHeld, Specs,
     Pairs, Keys, NoKey, Both, Unknown, SwapFails, TaskOver, NoTask, Fault,
     panelVars, ctlVars, ifaceVars, workerVars, budgets
<1>11. ASSUME NEW r \in Rotations, RevertFails(r)
      PROVE  RotationHolds'
  BY <1>11, RotateAssumption DEF MeshInv, TypeOK, RotationHolds, IsHeld, Specs,
     Pairs, Keys, NoKey, Both, Unknown, RevertFails, Step, Fault, panelVars, ctlVars,
     ifaceVars, workerVars, budgets
<1>12. ASSUME NEW c \in Callers, Call(c)
      PROVE  RotationHolds'
  BY <1>12, RotateAssumption DEF MeshInv, TypeOK, RotationHolds, IsHeld, Specs,
     Pairs, Keys, NoKey, Both, Unknown, Call, Waiting, NoReq, WorkerOf, panelVars,
     ctlVars, ifaceVars, workerVars, budgets
<1>13. ASSUME NEW c \in Callers, TakeNodeKeys(c)
      PROVE  RotationHolds'
  BY <1>13, RotateAssumption DEF MeshInv, TypeOK, RotationHolds, IsHeld, Specs,
     Pairs, Keys, NoKey, Both, Unknown, TakeNodeKeys, NoReq, WorkerOf, panelVars,
     ctlVars, ifaceVars, workerVars, budgets
<1>14. ASSUME NEW c \in Callers, RecoverSync(c)
      PROVE  RotationHolds'
  BY <1>14, RotateAssumption DEF MeshInv, TypeOK, RotationHolds, IsHeld, Specs,
     Pairs, Keys, NoKey, Both, Unknown, RecoverSync, Plan, Planned, Refreshed,
     SyncMuFree, panelVars, ctlVars, ifaceVars, workerVars, budgets
<1>15. ASSUME NEW c \in Callers, RecoverSyncFails(c)
      PROVE  RotationHolds'
  BY <1>15, RotateAssumption DEF MeshInv, TypeOK, RotationHolds, IsHeld, Specs,
     Pairs, Keys, NoKey, Both, Unknown, RecoverSyncFails, Fault, panelVars, ctlVars,
     ifaceVars, workerVars, budgets
<1>16. ASSUME NEW c \in Callers, RecoverSynced(c)
      PROVE  RotationHolds'
  BY <1>16, RotateAssumption DEF MeshInv, TypeOK, RotationHolds, IsHeld, Specs,
     Pairs, Keys, NoKey, Both, Unknown, RecoverSynced, Unlocked, Syncs, panelVars,
     ctlVars, ifaceVars, workerVars, budgets
<1>17. ASSUME NEW c \in Callers, RecoverAnswer(c)
      PROVE  RotationHolds'
  BY <1>17, RotateAssumption DEF MeshInv, TypeOK, RotationHolds, IsHeld, Specs,
     Pairs, Keys, NoKey, Both, Unknown, RecoverAnswer, panelVars, ctlVars, ifaceVars,
     workerVars, budgets
<1>18. ASSUME NEW c \in Callers, Recovered(c)
      PROVE  RotationHolds'
  BY <1>18, RotateAssumption DEF MeshInv, TypeOK, RotationHolds, IsHeld, Specs,
     Pairs, Keys, NoKey, Both, Unknown, Recovered, Apply, KeyOf, CallOver, NoReq,
     TaskOver, Step, NoTask, WorkerOf, panelVars, ctlVars, ifaceVars, workerVars,
     budgets
<1>19. ASSUME NEW c \in Callers, RecoveredBadly(c)
      PROVE  RotationHolds'
  BY <1>19, RotateAssumption DEF MeshInv, TypeOK, RotationHolds, IsHeld, Specs,
     Pairs, Keys, NoKey, Both, Unknown, RecoveredBadly, Apply, KeyOf, CallOver,
     NoReq, TaskOver, Step, NoTask, Fault, WorkerOf, panelVars, ctlVars, ifaceVars,
     workerVars, budgets
<1>20. ASSUME NEW c \in Callers, CallLost(c)
      PROVE  RotationHolds'
  BY <1>20, RotateAssumption DEF MeshInv, TypeOK, RotationHolds, IsHeld, Specs,
     Pairs, Keys, NoKey, Both, Unknown, CallLost, CallOver, NoReq, TaskOver, Step,
     NoTask, Fault, Unlocked, Syncs, WorkerOf, panelVars, ctlVars, ifaceVars,
     workerVars, budgets
<1>21. ASSUME NEW c \in Callers, CallRefused(c)
      PROVE  RotationHolds'
  BY <1>21, RotateAssumption DEF MeshInv, TypeOK, RotationHolds, IsHeld, Specs,
     Pairs, Keys, NoKey, Both, Unknown, CallRefused, CallOver, NoReq, TaskOver, Step,
     NoTask, WorkerOf, panelVars, ctlVars, ifaceVars, workerVars, budgets
<1>22. ASSUME StageKeys
      PROVE  RotationHolds'
  BY <1>22, RotateAssumption DEF MeshInv, TypeOK, RotationHolds, IsHeld, Specs,
     Pairs, Keys, NoKey, Both, Unknown, StageKeys, IdleRot, panelVars, ctlVars,
     ifaceVars, workerVars, budgets
<1>23. ASSUME TakeStaged
      PROVE  RotationHolds'
  BY <1>23, RotateAssumption DEF MeshInv, TypeOK, RotationHolds, IsHeld, Specs,
     Pairs, Keys, NoKey, Both, Unknown, TakeStaged, Plan, Planned, Refreshed,
     SyncMuFree, panelVars, ctlVars, ifaceVars, workerVars, budgets
<1>24. ASSUME PlanFails
      PROVE  RotationHolds'
  BY <1>24, RotateAssumption DEF MeshInv, TypeOK, RotationHolds, IsHeld, Specs,
     Pairs, Keys, NoKey, Both, Unknown, PlanFails, Plan, Planned, Refreshed,
     Rollback, Fault, Unlocked, SyncMuFree, panelVars, ctlVars, ifaceVars,
     workerVars, budgets
<1>25. ASSUME RotateAwaited
      PROVE  RotationHolds'
  BY <1>25, RotateAssumption DEF MeshInv, TypeOK, RotationHolds, IsHeld, Specs,
     Pairs, Keys, NoKey, Both, Unknown, RotateAwaited, IdleRot, panelVars, ctlVars,
     ifaceVars, workerVars, budgets
<1>26. ASSUME PromoteKeys
      PROVE  RotationHolds'
  BY <1>26, RotateAssumption DEF MeshInv, TypeOK, RotationHolds, IsHeld, Specs,
     Pairs, Keys, NoKey, Both, Unknown, PromoteKeys, RotGoto, panelVars, ctlVars,
     ifaceVars, workerVars, budgets
<1>27. ASSUME PromoteFails
      PROVE  RotationHolds'
  BY <1>27, RotateAssumption DEF MeshInv, TypeOK, RotationHolds, IsHeld, Specs,
     Pairs, Keys, NoKey, Both, Unknown, PromoteFails, RotGoto, Fault, Rollback,
     Unlocked, Plan, Planned, Refreshed, panelVars, ctlVars, ifaceVars, workerVars,
     budgets
<1>28. ASSUME PromoteTorn
      PROVE  RotationHolds'
  BY <1>28, RotateAssumption DEF MeshInv, TypeOK, RotationHolds, IsHeld, Specs,
     Pairs, Keys, NoKey, Both, Unknown, PromoteTorn, RotGoto, Fault, panelVars,
     ctlVars, ifaceVars, workerVars, budgets
<1>29. ASSUME ControllerRotated
      PROVE  RotationHolds'
  BY <1>29, RotateAssumption DEF MeshInv, TypeOK, RotationHolds, IsHeld, Specs,
     Pairs, Keys, NoKey, Both, Unknown, ControllerRotated, Unlocked, IdleRot,
     panelVars, ctlVars, ifaceVars, workerVars, budgets
<1>30. ASSUME PanelDies
      PROVE  RotationHolds'
  BY <1>30, RotateAssumption DEF MeshInv, TypeOK, RotationHolds, IsHeld, Specs,
     Pairs, Keys, NoKey, Both, Unknown, PanelDies, Crash, Unlocked, IdleRot, NoReq,
     panelVars, ctlVars, ifaceVars, workerVars, budgets
<1>31. ASSUME PanelBoots
      PROVE  RotationHolds'
  BY <1>31, RotateAssumption DEF MeshInv, TypeOK, RotationHolds, IsHeld, Specs,
     Pairs, Keys, NoKey, Both, Unknown, PanelBoots, panelVars, ctlVars, ifaceVars,
     workerVars, budgets
<1>32. CASE UNCHANGED vars
  BY <1>32 DEF MeshInv, TypeOK, RotationHolds, IsHeld, Specs, Pairs, Keys, NoKey,
     Both, Unknown, vars, panelVars, ctlVars, ifaceVars, workerVars, budgets
<1> QED
  BY <1>1, <1>2, <1>3, <1>4, <1>5, <1>6, <1>7, <1>8, <1>9, <1>10, <1>11, <1>12, <1>13,
     <1>14, <1>15, <1>16, <1>17, <1>18, <1>19, <1>20, <1>21, <1>22, <1>23, <1>24, <1>25, <1>26,
     <1>27, <1>28, <1>29, <1>30, <1>31, <1>32 DEF Next, Syncing, Task, Calling, RecoverStep,
     Rotating

(* A joined cluster satisfies the invariant.                               *)
LEMMA MeshInit == Init => MeshInv
<1> SUFFICES ASSUME Init PROVE MeshInv
  OBVIOUS
<1>1. RowType /\ SyncType /\ RotType /\ BudgetType
  BY KeyFacts, RotateAssumption
     DEF Init, RowType, SyncType, RotType, BudgetType, Unlocked, IdleRot
<1>2. PlanType /\ CtlType
  BY KeyFacts DEF Init, PlanType, CtlType, Both
<1>3. IfaceType /\ FileType
  BY KeyFacts, SpecFacts DEF Init, IfaceType, FileType
<1>4. TaskType /\ ReqType
  BY KeyFacts DEF Init, TaskType, ReqType, NoTask, NoReq, Nodes
<1>5. CallsPlaced
  BY DEF Init, CallsPlaced, NoTask, NoReq, Callers, Unlocked
<1>6. RotationHolds
  BY KeyFacts DEF Init, RotationHolds, IsHeld, Unlocked, IdleRot, Both
<1> QED
  BY <1>1, <1>2, <1>3, <1>4, <1>5, <1>6, TypeParts DEF MeshInv

(* The inductive invariant holds throughout.                               *)
THEOREM MeshInvariant == Spec => []MeshInv
<1>1. MeshInv /\ [Next]_vars => MeshInv'
  BY TypeStep, CallsStep, RotationStep DEF MeshInv
<1> QED
  BY MeshInit, <1>1, PTL DEF Spec

(* Keys, plans, interfaces, rotations and calls keep their types, and no   *)
(* plan is pushed without a key for the controller.                        *)
THEOREM MeshTypes == Spec => []TypeOK
<1>1. MeshInv => TypeOK
  BY DEF MeshInv
<1> QED
  BY <1>1, MeshInvariant, PTL

(* rollback and refresh: outside a rotation of the controller's own keys   *)
(* the mesh service names the key on the controller's disk, whichever      *)
(* write failed and wherever the panel died.                               *)
THEOREM MeshRecordedIsHeld == Spec => []RecordedIsHeld
<1>1. MeshInv => RecordedIsHeld
  BY DEF MeshInv, RotationHolds, IsHeld, RecordedIsHeld
<1> QED
  BY <1>1, MeshInvariant, PTL

=============================================================================
