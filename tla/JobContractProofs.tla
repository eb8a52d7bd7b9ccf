-------------------------- MODULE JobContractProofs --------------------------
(***************************************************************************)
(* The job queue implements JobContract, starts each tile's jobs in order  *)
(* and stays within its workers, for every set of requests, every workers  *)
(* setting and every bound on rows, faults and boots.                      *)
(***************************************************************************)
EXTENDS JobQueueProofs, WellFoundedInduction

(***************************************************************************)
(* The refinement, step by step                                            *)
(***************************************************************************)

(* What a step of the queue is to its contract.                            *)
ContractStep == Contract!CNext \/ UNCHANGED Contract!cvars

(* A step that changes no job's phase, no lock and no stop is none of the  *)
(* contract's.                                                             *)
LEMMA SamePhases ==
    ASSUME \A i \in Ids : Phase(i)' = Phase(i), UNCHANGED <<lock, pressed, replaced>>
    PROVE  ContractStep
<1>1. [i \in Ids |-> Phase(i)]' = [i \in Ids |-> Phase(i)]
  OBVIOUS
<1> QED
  BY <1>1 DEF ContractStep, Contract!cvars

(* A row and its handler are what a phase depends on.                      *)
LEMMA SameRows ==
    ASSUME UNCHANGED <<state, running, lock, pressed, replaced>>
    PROVE  ContractStep
<1>1. \A i \in Ids : Phase(i)' = Phase(i)
  BY DEF Phase
<1> QED
  BY <1>1, SamePhases

(* A pass begins jobs nobody stopped and whose tiles nobody holds.         *)
LEMMA PassBegins ==
    ASSUME IInv, NEW n \in Workers, Pass(n)
    PROVE  ContractStep
<1>1. PICK S \in SUBSET StartSet(n) : StartAll(S)
  BY PassStarts DEF IInv
<1>2. \A j \in S : j \in Ids /\ Startable(j) /\ state[j] = "queued" /\ j \notin running
  BY DEF StartSet, Startable, IInv, RunningRows
<1>3. \A i \in Ids : Phase(i)' = IF i \in S THEN "active" ELSE Phase(i)
  BY <1>1, <1>2 DEF StartAll, Phase
<1>4. S \in SUBSET Contract!In("pending") /\ S \cap (pressed \cup replaced) = {}
  BY <1>2 DEF Contract!In, Phase, IInv, StoppedStaysStopped
<1>5. Contract!In("active") \subseteq running
  BY DEF Contract!In, Phase
<1>6. \A i \in S : \A k \in (S \cup Contract!In("active")) \ {i} : ~Contract!Clash(lock[i], lock[k])
  <2> SUFFICES ASSUME NEW i \in S, NEW k \in S \cup running, k # i
               PROVE  ~Overlaps(lock[i], lock[k])
    BY <1>5 DEF Contract!Clash, Overlaps
  <2>1. CASE k \in running
    BY <1>2, <2>1 DEF Startable
  <2>2. CASE k \in S
    <3>1. i < k \/ k < i
      BY <1>2, <2>2, QueueAssumption DEF Ids
    <3>2. i \in Queued /\ k \in Queued
      BY <1>2, <2>2 DEF Queued
    <3> QED
      BY <1>2, <2>2, <3>1, <3>2 DEF Startable, Overlaps
  <2> QED
    BY <2>1, <2>2
<1>7. [i \in Ids |-> Phase(i)]' = [i \in Ids |-> IF i \in S THEN "active" ELSE [k \in Ids |-> Phase(k)][i]]
  BY <1>3
<1>8. UNCHANGED <<lock, pressed, replaced>>
  BY DEF Pass
<1>9. Contract!Begin
  BY <1>4, <1>6, <1>7, <1>8 DEF Contract!Begin
<1> QED
  BY <1>9 DEF ContractStep, Contract!CNext

(* An Enqueue submits a job, ends the parked victims and stops the ones    *)
(* that build.                                                             *)
LEMMA EnqueueSubmits ==
    ASSUME IInv, NEW req \in Requests \cup Children, EnqueueFrom(req), UNCHANGED <<running, pressed>>
    PROVE  ContractStep
<1>1. PICK V \in SUBSET Victims(req) :
            /\ EnqueueRow(req, V)
            /\ last + 1 \in Ids
            /\ state[last + 1] = "none" /\ last + 1 \notin running
  BY EnqueueEffect
<1>2. \A i \in Parked(V) : i \in Ids /\ i \notin running /\ state[i] \in {"queued", "waiting"}
  BY DEF Parked, Cancellable, Victims
<1>3. \A i \in Building(V) : i \in Ids /\ i \in running /\ state[i] = "running"
  BY DEF Building, Victims, IInv, RunningRows
<1>4. Parked(V) \in SUBSET Contract!In("pending") /\ Building(V) \in SUBSET Contract!In("active")
  BY <1>2, <1>3 DEF Contract!In, Phase
<1>5. Phase(last + 1) = "absent"
  BY <1>1 DEF Phase
<1>6. \A i \in Ids : Phase(i)' = IF i = last + 1 THEN "pending"
                                 ELSE IF i \in Parked(V) THEN "over" ELSE Phase(i)
  BY <1>1, <1>2 DEF EnqueueRow, Phase
<1>7. [i \in Ids |-> Phase(i)]' =
         [i \in Ids |-> IF i = last + 1 THEN "pending"
                        ELSE IF i \in Parked(V) THEN "over" ELSE [k \in Ids |-> Phase(k)][i]]
  BY <1>6
<1>8. /\ \A i \in Ids \ {last + 1} : lock'[i] = lock[i]
      /\ pressed' \cup replaced' = (pressed \cup replaced) \cup Parked(V) \cup Building(V)
  BY <1>1 DEF EnqueueRow, IInv, TypeOK
<1>9. Contract!Submit(last + 1)
  BY <1>1, <1>4, <1>5, <1>7, <1>8 DEF Contract!Submit
<1> QED
  BY <1>1, <1>9 DEF ContractStep, Contract!CNext

(* A skipped run is submitted and over, or pending when its second write   *)
(* failed.                                                                 *)
LEMMA SkipSubmits ==
    ASSUME IInv, NEW req \in Requests, Skip(req)
    PROVE  ContractStep
<1>1. PICK new \in Ids : new = last + 1 /\ state[new] = "none" /\ new \notin running
  BY QueueAssumption DEF IInv, TypeOK, RowsInv, RunningRows, Skip, Ids
<1>2. PICK s \in {"skipped", "queued"} : state' = [state EXCEPT ![new] = s]
  BY <1>1 DEF Skip
<1>3. PICK p \in {"pending", "over"} : Phase(new)' = p
  BY <1>1, <1>2 DEF Phase, IInv, TypeOK
<1>4. \A i \in Ids : Phase(i)' = IF i = new THEN p ELSE Phase(i)
  BY <1>1, <1>2, <1>3 DEF Phase, Skip, runVars, IInv, TypeOK
<1>5. [i \in Ids |-> Phase(i)]' =
         [i \in Ids |-> IF i = new THEN p
                        ELSE IF i \in {} THEN "over" ELSE [k \in Ids |-> Phase(k)][i]]
  BY <1>4
<1>6. Phase(new) = "absent"
  BY <1>1 DEF Phase
<1>7. /\ \A i \in Ids \ {new} : lock'[i] = lock[i]
      /\ pressed' \cup replaced' = (pressed \cup replaced) \cup {} \cup {}
  BY <1>1 DEF Skip, IInv, TypeOK
<1>8. {} \in SUBSET Contract!In("pending") /\ {} \in SUBSET Contract!In("active")
  OBVIOUS
<1>9. Contract!Submit(new)
  BY <1>1, <1>5, <1>6, <1>7, <1>8 DEF Contract!Submit
<1> QED
  BY <1>1, <1>9 DEF ContractStep, Contract!CNext

(* Cancel is a stop.                                                       *)
LEMMA CancelStops ==
    ASSUME IInv, NEW j \in Ids, Cancel(j)
    PROVE  ContractStep
<1>1. /\ Phase(j) \in {"pending", "active"}
      /\ Phase(j)' = IF Phase(j) = "pending" THEN "over" ELSE Phase(j)
  BY DEF Phase, Cancel, Cancellable, IInv, TypeOK, RunningRows
<1>2. \A i \in Ids \ {j} : Phase(i)' = Phase(i)
  BY DEF Phase, Cancel, IInv, TypeOK
<1>3. UNCHANGED <<lock, replaced>> /\ pressed' = pressed \cup {j}
  BY DEF Cancel
<1>4. [i \in Ids |-> Phase(i)]' =
         [[i \in Ids |-> Phase(i)] EXCEPT ![j] = IF @ = "pending" THEN "over" ELSE @]
  BY <1>1, <1>2
<1>5. Contract!Stop(j)
  BY <1>1, <1>3, <1>4 DEF Contract!Stop
<1> QED
  BY <1>5 DEF ContractStep, Contract!CNext

(* A job leaves when run records it; one whose write failed is lost.       *)
LEMMA RecordLeaves ==
    ASSUME IInv, NEW j \in Ids, Record(j)
    PROVE  ContractStep
<1>1. /\ j \in running /\ outcome[j] # "none" /\ state[j] = "running"
      /\ running' = running \ {j} /\ UNCHANGED <<lock, pressed, replaced>>
  BY DEF Record, LeaveRunning, IInv, RunningRows
<1>2. Recorded(j) \in TerminalStates \cup {"waiting"}
  BY <1>1, RecordedType DEF IInv
<1>3. state' = state \/ state' = [state EXCEPT ![j] = Recorded(j)]
  BY <1>1, RecordEffect DEF Record
<1>4. Recorded(j) = "waiting" => j \notin pressed \cup replaced
  BY <1>1 DEF Recorded, IInv, StopInv
<1>5. PICK p \in {"pending", "over", "lost"} :
         Phase(j)' = p /\ (p = "pending" => j \notin pressed \cup replaced)
  BY <1>1, <1>2, <1>3, <1>4 DEF Phase, TerminalStates, IInv, TypeOK
<1>6. \A i \in Ids \ {j} : Phase(i)' = Phase(i)
  BY <1>1, <1>3 DEF Phase, IInv, TypeOK
<1>7. [i \in Ids |-> Phase(i)]' = [[i \in Ids |-> Phase(i)] EXCEPT ![j] = p]
  BY <1>5, <1>6
<1>8. Phase(j) = "active"
  BY <1>1 DEF Phase
<1>9. Contract!Leave(j)
  BY <1>1, <1>5, <1>7, <1>8 DEF Contract!Leave
<1> QED
  BY <1>9 DEF ContractStep, Contract!CNext

(* A requeue, by unpark or by an approval, leaves a pending job pending.   *)
LEMMA RequeueIsNone ==
    ASSUME IInv, NEW j \in Ids, Requeue(j) \/ UNCHANGED state,
           UNCHANGED <<running, lock, pressed, replaced>>
    PROVE  ContractStep
<1>1. \A i \in Ids : Phase(i)' = Phase(i)
  BY DEF Phase, Requeue, IInv, TypeOK
<1> QED
  BY <1>1, SamePhases

(* The process dies; the write it was in may have landed.                  *)
LEMMA DownDies ==
    ASSUME IInv, NEW landed \in SUBSET Ids, NEW s \in TerminalStates \cup {"waiting"}, Down,
           \A i, k \in landed : i = k,
           state' = [i \in Ids |-> IF i \in landed THEN s ELSE state[i]],
           \A i \in landed : i \in running \/ Cancellable(state[i]),
           s = "waiting" => landed \cap (pressed \cup replaced) = {},
           pressed' \in {pressed, pressed \cup landed}
    PROVE  ContractStep
<1>1. UNCHANGED <<lock, replaced>> /\ running' = {}
  BY DEF Down
<1>2. PICK p \in {"pending", "over"} :
         /\ p = "pending" => s = "waiting"
         /\ \A i \in landed : Phase(i)' = p
  <2>1. CASE s = "waiting"
    BY <2>1 DEF Phase
  <2>2. CASE s # "waiting"
    BY <2>2 DEF Phase, TerminalStates
  <2> QED
    BY <2>1, <2>2
<1>3. \A i \in landed : Phase(i) \in {"active", "pending"}
  BY DEF Phase, Cancellable, IInv, RunningRows
<1>4. \A i \in Ids \ landed : Phase(i)' = IF Phase(i) = "active" THEN "lost" ELSE Phase(i)
  BY <1>1 DEF Phase
<1>5. [i \in Ids |-> Phase(i)]' =
         [i \in Ids |-> IF i \in landed THEN p
                        ELSE IF [k \in Ids |-> Phase(k)][i] = "active" THEN "lost"
                             ELSE [k \in Ids |-> Phase(k)][i]]
  BY <1>2, <1>4
<1>6. \A i \in landed : /\ [k \in Ids |-> Phase(k)][i] \in {"active", "pending"}
                        /\ p = "pending" => i \notin pressed \cup replaced
  BY <1>2, <1>3
<1>7. pressed' \cup replaced' \in {pressed \cup replaced, (pressed \cup replaced) \cup landed}
  BY <1>1
<1>8. Contract!Die
  BY <1>1, <1>5, <1>6, <1>7 DEF Contract!Die
<1> QED
  BY <1>8 DEF ContractStep, Contract!CNext

(* Boot buries what the dead process left running.                         *)
LEMMA BootBuries ==
    ASSUME IInv, NEW j \in Ids, BootFail(j)
    PROVE  ContractStep
<1>1. state[j] = "running" /\ running = {} /\ UNCHANGED <<running, lock, pressed, replaced>>
  BY DEF BootFail, IInv, AliveInv, runVars, envVars
<1>2. PICK s \in {"failed", "done"} : state' = [state EXCEPT ![j] = s]
  BY DEF BootFail, BootStates
<1>3. Phase(j) = "lost" /\ Phase(j)' = "over"
  BY <1>1, <1>2 DEF Phase, IInv, TypeOK
<1>4. \A i \in Ids \ {j} : Phase(i)' = Phase(i)
  BY <1>1, <1>2 DEF Phase, IInv, TypeOK
<1>5. [i \in Ids |-> Phase(i)]' = [[i \in Ids |-> Phase(i)] EXCEPT ![j] = "over"]
  BY <1>3, <1>4
<1>6. Contract!Bury(j)
  BY <1>1, <1>3, <1>5 DEF Contract!Bury
<1> QED
  BY <1>6 DEF ContractStep, Contract!CNext

(* Every step of the queue is a step of the contract or none.              *)
LEMMA StepRefines == IInv /\ [Next]_vars => ContractStep
<1> SUFFICES ASSUME IInv, [Next]_vars PROVE ContractStep
  OBVIOUS
<1>1. ASSUME NEW n \in Workers, Pass(n)
      PROVE  ContractStep
  BY <1>1, PassBegins
<1>2. ASSUME NEW req \in Requests, Enqueue(req)
      PROVE  ContractStep
  BY <1>2, EnqueueSubmits DEF Enqueue
<1>3. ASSUME NEW req \in Requests, Skip(req)
      PROVE  ContractStep
  BY <1>3, SkipSubmits
<1>4. ASSUME NEW j \in Ids, Cancel(j)
      PROVE  ContractStep
  BY <1>4, CancelStops
<1>5. ASSUME NEW j \in Ids, Swap(j)
      PROVE  ContractStep
  BY <1>5, SameRows DEF Swap, rowVars, envVars
<1>6. ASSUME NEW j \in Ids, NEW err \in Results, Return(j, err)
      PROVE  ContractStep
  BY <1>6, SameRows DEF Return
<1>7. ASSUME NEW j \in Ids, Deadline(j)
      PROVE  ContractStep
  BY <1>7, SameRows DEF Deadline, rowVars, envVars
<1>8. ASSUME NEW j \in Ids, NEW req \in Children, EnqueueChild(j, req)
      PROVE  ContractStep
  BY <1>8, EnqueueSubmits DEF EnqueueChild
<1>9. ASSUME NEW j \in Ids, BeginWait(j)
      PROVE  ContractStep
  BY <1>9, SameRows DEF BeginWait, rowVars, envVars
<1>10. ASSUME NEW j \in Ids, AwaitRead(j)
      PROVE  ContractStep
  BY <1>10, SameRows DEF AwaitRead, rowVars, envVars
<1>11. ASSUME NEW j \in Ids, AwaitEnds(j)
      PROVE  ContractStep
  BY <1>11, SameRows DEF AwaitEnds, rowVars, envVars
<1>12. ASSUME NEW j \in Ids, Record(j)
      PROVE  ContractStep
  BY <1>12, RecordLeaves
<1>13. ASSUME NEW j \in Ids, UnparkOne(j)
      PROVE  ContractStep
  BY <1>13, RequeueIsNone DEF UnparkOne, runVars
<1>14. ASSUME NEW j \in Ids, ApproveRequeue(j)
      PROVE  ContractStep
  BY <1>14, RequeueIsNone DEF ApproveRequeue, runVars, envVars
<1>15. ASSUME NEW j \in Ids, CrashInFinish(j)
      PROVE  ContractStep
  <2>1. PICK s \in TerminalStates \cup {"waiting"} :
           /\ state' = [state EXCEPT ![j] = s]
           /\ s = "waiting" => j \notin pressed \cup replaced
    <3>1. CASE j \in running /\ outcome[j] # "none" /\ WriteRecord(j)
      <4>1. Recorded(j) = "waiting" => j \notin pressed \cup replaced
        BY <3>1 DEF Recorded, IInv, StopInv
      <4> QED
        BY <3>1, <4>1, RecordEffect
    <3>2. CASE state' = [state EXCEPT ![j] = "cancelled"]
      BY <3>2 DEF TerminalStates
    <3> QED
      BY <1>15, <3>1, <3>2 DEF CrashInFinish
  <2>2. state' = [i \in Ids |-> IF i \in {j} THEN s ELSE state[i]]
    BY <2>1 DEF IInv, TypeOK
  <2>3. Down /\ pressed' \in {pressed, pressed \cup {j}} /\ (j \in running \/ Cancellable(state[j]))
    BY <1>15 DEF CrashInFinish
  <2>4. /\ {j} \in SUBSET Ids /\ \A i, k \in {j} : i = k
        /\ \A i \in {j} : i \in running \/ Cancellable(state[i])
        /\ s = "waiting" => {j} \cap (pressed \cup replaced) = {}
    BY <2>1, <2>3
  <2> QED
    BY <2>2, <2>3, <2>4, DownDies
<1>16. ASSUME NEW j \in Ids, BootFail(j)
      PROVE  ContractStep
  BY <1>16, BootBuries
<1>17. ASSUME NEW j \in Ids, RollBackUpgrade(j)
      PROVE  ContractStep
  <2>1. \A i \in Ids : Phase(i)' = Phase(i)
    BY <1>17 DEF RollBackUpgrade, Phase, IInv, TypeOK, runVars
  <2> QED
    BY <1>17, <2>1, SamePhases DEF RollBackUpgrade, envVars
<1>18. CASE UnparkList
  BY <1>18, SameRows DEF UnparkList, rowVars, runVars
<1>19. CASE HoldEnds
  BY <1>19, SameRows DEF HoldEnds, rowVars, runVars
<1>20. CASE Close
  BY <1>20, SameRows DEF Close, rowVars
<1>21. CASE Crash \/ CrashInSpool
  <2>1. Down /\ UNCHANGED <<state, pressed>>
    BY <1>21 DEF Crash, CrashInSpool
  <2>2. state' = [i \in Ids |-> IF i \in {} THEN "done" ELSE state[i]]
    BY <2>1 DEF IInv, TypeOK
  <2>3. /\ {} \in SUBSET Ids /\ "done" \in TerminalStates \cup {"waiting"}
        /\ \A i, k \in {} : i = k
        /\ \A i \in {} : i \in running \/ Cancellable(state[i])
        /\ {} \cap (pressed \cup replaced) = {}
    BY DEF TerminalStates
  <2> QED
    BY <2>1, <2>2, <2>3, DownDies
<1>22. CASE Boot
  BY <1>22, SameRows DEF Boot, runVars
<1>23. CASE BootDone
  BY <1>23, SameRows DEF BootDone, rowVars, runVars
<1>24. CASE UNCHANGED vars
  BY <1>24, SameRows DEF vars, rowVars, runVars, envVars
<1> QED
  BY <1>1, <1>2, <1>3, <1>4, <1>5, <1>6, <1>7, <1>8, <1>9, <1>10, <1>11, <1>12, <1>13,
     <1>14, <1>15, <1>16, <1>17, <1>18, <1>19, <1>20, <1>21, <1>22, <1>23, <1>24 DEF Next

(* The queue implements its contract: seen from outside, with whatever is  *)
(* superseded, parked, cancelled, cut off by a crash or not recorded, a    *)
(* job is pending, active alone on its tiles and over once, stopped jobs   *)
(* never become pending again and lost ones are never resumed.             *)
THEOREM QueueImplementsContract == Spec => ImplementsContract
<1>1. Init => Contract!CInit
  BY DEF Init, Contract!CInit, Phase
<1>2. IInv /\ [Next]_vars => [Contract!CNext]_(Contract!cvars)
  BY StepRefines DEF ContractStep
<1> QED
  BY <1>1, <1>2, Invariant, PTL DEF Spec, ImplementsContract, Contract!CSpec

(***************************************************************************)
(* Order and room                                                          *)
(***************************************************************************)

(* When a job first starts, every older one on its tiles has started or is *)
(* over.                                                                   *)
InOrder ==
    \A k \in started' \ started : \A o \in 1..(k - 1) :
        Overlaps(lock[o], lock[k]) => o \in started \/ state[o] \in TerminalStates

(* Only a pass starts jobs, and pass looks at the older queued ones.       *)
LEMMA StartsInOrder == IInv /\ LifeInv /\ [Next]_vars => InOrder
<1> SUFFICES ASSUME IInv, LifeInv, [Next]_vars, NEW k \in started' \ started,
                    NEW o \in 1..(k - 1), Overlaps(lock[o], lock[k]),
                    o \notin started
             PROVE  state[o] \in TerminalStates
  BY DEF InOrder
<1>1. PICK n \in Workers : Pass(n)
  BY DEF Next, vars, rowVars, envVars, Enqueue, Skip, Cancel, Swap, Return, Deadline, EnqueueChild,
     BeginWait, AwaitRead, AwaitEnds, Record, UnparkOne, ApproveRequeue, CrashInFinish, BootFail,
     RollBackUpgrade, UnparkList, HoldEnds, Close, Crash, CrashInSpool, Down, Boot, BootDone
<1>2. Startable(k) /\ k \in Ids
  <2>1. PICK S \in SUBSET StartSet(n) : StartAll(S)
    BY <1>1, PassStarts DEF IInv
  <2> QED
    BY <2>1 DEF StartAll, StartSet
<1>3. k <= last
  BY <1>2, QueueAssumption DEF Startable, IInv, RowsInv, TypeOK, Ids
<1>4. o \in Ids /\ o < k /\ o <= last
  BY <1>2, <1>3, QueueAssumption DEF Ids, IInv, TypeOK
<1>5. state[o] # "queued"
  BY <1>2, <1>4 DEF Startable, Queued, Overlaps
<1> QED
  BY <1>4, <1>5 DEF LifeInv, BornInv, IInv, TypeOK, States, LiveStates

(* Each tile sees its jobs start in order, behind parked, superseded and   *)
(* failed ones and over any restart.                                       *)
THEOREM JobsStartInOrder == Spec => FirstStartsInOrder
<1>1. IInv /\ LifeInv /\ [Next]_vars => InOrder
  BY StartsInOrder
<1>2. Spec => [][InOrder]_vars
  BY <1>1, QueueInvariant, PTL DEF Spec
<1> QED
  BY <1>2 DEF FirstStartsInOrder, InOrder

(* A set of ids has a youngest.                                            *)
LEMMA YoungestExists ==
    ASSUME NEW S \in SUBSET Ids, S # {}
    PROVE  \E m \in S : \A i \in S : i <= m
<1> DEFINE T == {n \in Nat : \E i \in S : n = MaxJobs - i}
           less == OpToRel(<, Nat)
<1>1. T \subseteq Nat /\ T # {}
  <2>1. PICK i \in S : TRUE
    OBVIOUS
  <2>2. MaxJobs - i \in T
    BY <2>1, QueueAssumption DEF Ids
  <2> QED
    BY <2>2
<1>2. PICK x \in T : \A y \in T : ~(<<y, x>> \in less)
  <2> HIDE DEF T
  <2> QED
    BY <1>1, WFMin, NatLessThanWellFounded
<1>3. PICK m \in S : x = MaxJobs - m
  BY <1>2
<1>4. ASSUME NEW i \in S PROVE i <= m
  <2>1. MaxJobs - i \in T /\ i \in Nat /\ m \in Nat
    BY QueueAssumption DEF Ids
  <2>2. ~(MaxJobs - i < x)
    BY <1>1, <1>2, <2>1 DEF OpToRel
  <2> QED
    BY <1>3, <2>1, <2>2, QueueAssumption
<1> QED
  BY <1>4

(* A pass fills the workers up, one startable job after the other.         *)
LEMMA PassWithinWorkers ==
    ASSUME IInv, NEW n \in Workers, NEW S \in SUBSET StartSet(n), S # {}
    PROVE  Cardinality((running \cup S) \ idle) <= n
<1>1. S \subseteq Ids /\ (\A i \in S : Startable(i))
  BY DEF StartSet
<1>2. PICK m \in S : \A i \in S : i <= m
  BY <1>1, YoungestExists
<1> DEFINE B == {i \in Ids : i < m /\ Startable(i)}
           W == running \ idle
<1>3. Cardinality(W) + Cardinality(B) < n
  BY <1>2 DEF StartSet, busyWorkers
<1>4. (running \cup S) \ idle \subseteq (W \cup B) \cup {m}
  <2>1. \A i \in S : i \in B \cup {m}
    BY <1>1, <1>2, QueueAssumption DEF Ids
  <2> QED
    BY <2>1
<1>5. /\ IsFiniteSet(W) /\ IsFiniteSet(B)
      /\ Cardinality(W) \in Nat /\ Cardinality(B) \in Nat
  <2>1. IsFiniteSet(Ids)
    BY FS_Interval, QueueAssumption DEF Ids
  <2>2. W \subseteq Ids /\ B \subseteq Ids
    BY DEF IInv, TypeOK
  <2> QED
    BY <2>1, <2>2, FS_Subset, FS_CardinalityType
<1> HIDE DEF B, W
<1>6. /\ IsFiniteSet(W \cup B) /\ Cardinality(W \cup B) \in Nat
      /\ Cardinality(W \cup B) <= Cardinality(W) + Cardinality(B)
  <2>1. IsFiniteSet(W \cap B)
    BY <1>5, FS_Subset
  <2>2. Cardinality(W \cap B) \in Nat
    BY <2>1, FS_CardinalityType
  <2>3. /\ IsFiniteSet(W \cup B)
        /\ Cardinality(W \cup B) = Cardinality(W) + Cardinality(B) - Cardinality(W \cap B)
    BY <1>5, FS_Union
  <2>4. Cardinality(W \cup B) \in Nat
    BY <2>3, FS_CardinalityType
  <2> QED
    BY <1>5, <2>2, <2>3, <2>4
<1>7. /\ IsFiniteSet((W \cup B) \cup {m})
      /\ Cardinality((W \cup B) \cup {m}) \in {Cardinality(W \cup B), Cardinality(W \cup B) + 1}
  BY <1>6, FS_AddElement
<1>8. /\ Cardinality((running \cup S) \ idle) <= Cardinality((W \cup B) \cup {m})
      /\ Cardinality((running \cup S) \ idle) \in Nat
  BY <1>4, <1>7, FS_Subset, FS_CardinalityType
<1>9. n \in Nat
  BY QueueAssumption
<1> QED
  BY <1>3, <1>5, <1>6, <1>7, <1>8, <1>9

(* A job starts only where the busy handlers stay within some setting.     *)
WithinWorkers ==
    \A j \in running' \ running : \E n \in Workers : Cardinality(running' \ idle') <= n

(* Only a pass puts jobs into the Runner's map.                            *)
LEMMA StartsWithin == IInv /\ [Next]_vars => WithinWorkers
<1> SUFFICES ASSUME IInv, [Next]_vars, NEW j \in running' \ running
             PROVE  \E n \in Workers : Cardinality(running' \ idle') <= n
  BY DEF WithinWorkers
<1>1. PICK n \in Workers : Pass(n)
  BY DEF Next, vars, runVars, Enqueue, Skip, Cancel, Swap, Return, Deadline, EnqueueChild,
     BeginWait, AwaitRead, AwaitEnds, Record, LeaveRunning, UnparkOne, ApproveRequeue, CrashInFinish,
     BootFail, RollBackUpgrade, UnparkList, HoldEnds, Close, Crash, CrashInSpool, Down, Boot, BootDone
<1>2. PICK S \in SUBSET StartSet(n) : StartAll(S)
  BY <1>1, PassStarts DEF IInv
<1>3. running' = running \cup S /\ S # {} /\ idle' = idle
  BY <1>1, <1>2 DEF StartAll, Pass
<1> QED
  BY <1>3, PassWithinWorkers

(* A start never raises the handlers that do work above the largest        *)
(* workers setting, beside applies that wait idle.                         *)
THEOREM PassKeepsToWorkers == Spec => StartsWithinWorkers
<1>1. IInv /\ [Next]_vars => WithinWorkers
  BY StartsWithin
<1>2. Spec => [][WithinWorkers]_vars
  BY <1>1, Invariant, PTL DEF Spec
<1> QED
  BY <1>2 DEF StartsWithinWorkers, WithinWorkers

=============================================================================
