--------------------------- MODULE JobQueueProofs ---------------------------
(***************************************************************************)
(* Theorems about the job queue, for every set of requests, every number   *)
(* of workers and every bound on rows, faults and boots.                   *)
(***************************************************************************)
EXTENDS JobQueue, TLAPS, FiniteSetTheorems

(* Whichever of its writes fails, Enqueue writes the new row and stops     *)
(* some of its victims.                                                    *)
LEMMA EnqueueFromFacts ==
    ASSUME TypeOK, NEW req \in Requests \cup Children, EnqueueFrom(req)
    PROVE  /\ \E V \in SUBSET Victims(req) : EnqueueRow(req, V)
           /\ last + 1 \in Ids
           /\ dump' \subseteq Ids
           /\ faults' \in 0..MaxFaults
<1>1. ASSUME NEW V, EnqueueRow(req, V)
      PROVE  last + 1 \in Ids
  BY <1>1, QueueAssumption DEF TypeOK, EnqueueRow, Ids
<1>2. ASSUME NEW V, NEW ok \in BOOLEAN, last + 1 \in Ids, EnqueueDump(req, V, ok)
      PROVE  dump' \subseteq Ids
  BY <1>2 DEF TypeOK, EnqueueDump
<1>3. CASE /\ EnqueueRow(req, Victims(req))
           /\ EnqueueDump(req, Victims(req), TRUE)
           /\ UNCHANGED faults
  BY <1>1, <1>2, <1>3 DEF TypeOK
<1>4. ASSUME NEW f \in Parked(Victims(req)), faults < MaxFaults, faults' = faults + 1,
             EnqueueRow(req, {o \in Victims(req) : o < f}),
             EnqueueDump(req, {o \in Victims(req) : o < f}, FALSE)
      PROVE  /\ \E V \in SUBSET Victims(req) : EnqueueRow(req, V)
             /\ last + 1 \in Ids
             /\ dump' \subseteq Ids
             /\ faults' \in 0..MaxFaults
  <2>1. {o \in Victims(req) : o < f} \in SUBSET Victims(req)
    OBVIOUS
  <2>2. faults' \in 0..MaxFaults
    BY <1>4, QueueAssumption DEF TypeOK
  <2> QED
    BY <1>1, <1>2, <1>4, <2>1, <2>2
<1> QED
  BY <1>3, <1>4 DEF EnqueueFrom

(* The typed variables EnqueueRow writes keep their types.                 *)
LEMMA EnqueueRowTypes ==
    ASSUME TypeOK, NEW req \in Requests \cup Children, NEW V \in SUBSET Ids, EnqueueRow(req, V)
    PROVE  /\ last' \in 0..MaxJobs
           /\ kind' \in [Ids -> {r.kind : r \in Requests \cup Children} \cup {"none"}]
           /\ lock' \in [Ids -> {r.lock : r \in Requests \cup Children} \cup {{}}]
           /\ state' \in [Ids -> States]
           /\ parent' \in [Ids -> Causes \ {"deadline"}]
           /\ ctx' \in [Ids -> Causes]
           /\ superseded' \subseteq running
           /\ replaced' \subseteq Ids
<1>1. last + 1 \in Ids /\ last' = last + 1
  BY QueueAssumption DEF TypeOK, EnqueueRow, Ids
<1>2. kind' \in [Ids -> {r.kind : r \in Requests \cup Children} \cup {"none"}]
  BY <1>1 DEF TypeOK, EnqueueRow
<1>3. lock' \in [Ids -> {r.lock : r \in Requests \cup Children} \cup {{}}]
  BY <1>1 DEF TypeOK, EnqueueRow
<1>4. state' \in [Ids -> States]
  BY <1>1 DEF TypeOK, EnqueueRow, States, LiveStates, TerminalStates
<1>5. parent' \in [Ids -> Causes \ {"deadline"}] /\ ctx' \in [Ids -> Causes]
  BY DEF TypeOK, EnqueueRow, FirstCause, Causes
<1>6. superseded' \subseteq running /\ replaced' \subseteq Ids
  BY DEF TypeOK, EnqueueRow, Building, Parked
<1> QED
  BY <1>1, <1>2, <1>3, <1>4, <1>5, <1>6 DEF Ids

(* What a handler's result becomes is an outcome.                          *)
LEMMA OutcomeType ==
    ASSUME NEW err \in Results, NEW cause \in Causes
    PROVE  Outcome(err, cause) \in Outcomes \ {"none"}
  BY DEF Outcome, Results, Causes, Outcomes

(* What run writes is a state, and never queued or running.                *)
LEMMA RecordedType ==
    ASSUME TypeOK, NEW j \in Ids, outcome[j] # "none"
    PROVE  Recorded(j) \in TerminalStates \cup {"waiting"}
  BY DEF TypeOK, Recorded, Outcomes, TerminalStates

(* A pass starts some of the jobs that may start, whichever write fails.   *)
LEMMA PassStarts ==
    ASSUME TypeOK, NEW n \in Workers, Pass(n)
    PROVE  \E S \in SUBSET StartSet(n) : StartAll(S) /\ faults' \in 0..MaxFaults
<1>1. CASE StartAll(StartSet(n)) /\ UNCHANGED faults
  BY <1>1 DEF TypeOK
<1>2. ASSUME NEW f \in StartSet(n), faults < MaxFaults, faults' = faults + 1,
             StartAll({j \in StartSet(n) : j < f})
      PROVE  \E S \in SUBSET StartSet(n) : StartAll(S) /\ faults' \in 0..MaxFaults
  <2>1. {j \in StartSet(n) : j < f} \in SUBSET StartSet(n)
    OBVIOUS
  <2>2. faults' \in 0..MaxFaults
    BY <1>2, QueueAssumption DEF TypeOK
  <2> QED
    BY <1>2, <2>1, <2>2
<1> QED
  BY <1>1, <1>2 DEF Pass

(* Every action keeps the types.                                           *)
LEMMA TypeStep == TypeOK /\ [Next]_vars => TypeOK'
<1> SUFFICES ASSUME TypeOK, [Next]_vars PROVE TypeOK'
  OBVIOUS
<1>e. ASSUME NEW req \in Requests \cup Children, EnqueueFrom(req)
      PROVE  /\ last' \in 0..MaxJobs
             /\ kind' \in [Ids -> {r.kind : r \in Requests \cup Children} \cup {"none"}]
             /\ lock' \in [Ids -> {r.lock : r \in Requests \cup Children} \cup {{}}]
             /\ state' \in [Ids -> States]
             /\ parent' \in [Ids -> Causes \ {"deadline"}]
             /\ ctx' \in [Ids -> Causes]
             /\ superseded' \subseteq running
             /\ replaced' \subseteq Ids
             /\ last + 1 \in Ids
             /\ dump' \subseteq Ids
             /\ faults' \in 0..MaxFaults
  <2>1. PICK V \in SUBSET Victims(req) : EnqueueRow(req, V)
    BY <1>e, EnqueueFromFacts
  <2>2. V \in SUBSET Ids
    BY DEF Victims
  <2> QED
    BY <1>e, <2>1, <2>2, EnqueueFromFacts, EnqueueRowTypes
<1>1. ASSUME NEW n \in Workers, Pass(n)
      PROVE  TypeOK'
  <2>1. PICK S \in SUBSET StartSet(n) : StartAll(S) /\ faults' \in 0..MaxFaults
    BY <1>1, PassStarts
  <2>2. state' \in [Ids -> States] /\ started' \subseteq Ids /\ running' \subseteq Ids
        /\ running \subseteq running'
    BY <2>1 DEF TypeOK, StartAll, StartSet, States, LiveStates
  <2> QED
    BY <1>1, <2>1, <2>2 DEF TypeOK, Pass
<1>2. ASSUME NEW req \in Requests, Enqueue(req)
      PROVE  TypeOK'
  BY <1>2, <1>e DEF TypeOK, Enqueue
<1>3. ASSUME NEW req \in Requests, Skip(req)
      PROVE  TypeOK'
  <2>1. last + 1 \in Ids /\ last' = last + 1 /\ last' \in 0..MaxJobs
    BY <1>3, QueueAssumption DEF TypeOK, Skip, Ids
  <2>2. kind' \in [Ids -> {r.kind : r \in Requests \cup Children} \cup {"none"}]
    BY <1>3, <2>1 DEF TypeOK, Skip
  <2>3. lock' \in [Ids -> {r.lock : r \in Requests \cup Children} \cup {{}}]
    BY <1>3, <2>1 DEF TypeOK, Skip
  <2>4. state' \in [Ids -> States] /\ faults' \in 0..MaxFaults
    BY <1>3, <2>1, QueueAssumption DEF TypeOK, Skip, States, LiveStates, TerminalStates
  <2> QED
    BY <1>3, <2>1, <2>2, <2>3, <2>4 DEF TypeOK, Skip, runVars
<1>4. ASSUME NEW j \in Ids, Cancel(j)
      PROVE  TypeOK'
  <2>1. parent' \in [Ids -> Causes \ {"deadline"}] /\ ctx' \in [Ids -> Causes]
    BY <1>4 DEF TypeOK, Cancel, FirstCause, Causes
  <2>2. state' \in [Ids -> States] /\ dump' \subseteq Ids /\ pressed' \subseteq Ids
    BY <1>4 DEF TypeOK, Cancel, States, TerminalStates
  <2> QED
    BY <1>4, <2>1, <2>2 DEF TypeOK, Cancel
<1>5. ASSUME NEW j \in Ids, Swap(j)
      PROVE  TypeOK'
  BY <1>5 DEF TypeOK, Swap, MaySwap, Working, rowVars, runVars, envVars
<1>6. ASSUME NEW j \in Ids, NEW err \in Results, Return(j, err)
      PROVE  TypeOK'
  BY <1>6, OutcomeType DEF TypeOK, Return, Working, rowVars, runVars, envVars
<1>7. ASSUME NEW j \in Ids, Deadline(j)
      PROVE  TypeOK'
  BY <1>7 DEF TypeOK, Deadline, CapRunsOut, Causes, rowVars, runVars, envVars
<1>8. ASSUME NEW j \in Ids, NEW req \in Children, EnqueueChild(j, req)
      PROVE  TypeOK'
  BY <1>8, <1>e DEF TypeOK, EnqueueChild
<1>9. ASSUME NEW j \in Ids, BeginWait(j)
      PROVE  TypeOK'
  BY <1>9 DEF TypeOK, BeginWait, Working, rowVars, runVars, envVars
<1>10. ASSUME NEW j \in Ids, AwaitRead(j)
      PROVE  TypeOK'
  BY <1>10 DEF TypeOK, AwaitRead, Unread, rowVars, runVars, envVars
<1>11. ASSUME NEW j \in Ids, AwaitEnds(j)
      PROVE  TypeOK'
  <2>1. \E err \in Results : outcome' = [outcome EXCEPT ![j] = Outcome(err, ctx[j])]
    BY <1>11 DEF AwaitEnds, AwaitResult, Results
  <2> QED
    BY <1>11, <2>1, OutcomeType DEF TypeOK, AwaitEnds, rowVars, envVars
<1>12. ASSUME NEW j \in Ids, Record(j)
      PROVE  TypeOK'
  BY <1>12, QueueAssumption, RecordedType DEF TypeOK, Record, LeaveRunning, WriteRecord,
     States, LiveStates, Causes, Outcomes, rowVars, runVars, envVars
<1>13. ASSUME NEW j \in Ids, UnparkOne(j)
      PROVE  TypeOK'
  BY <1>13 DEF TypeOK, UnparkOne, Requeue, States, LiveStates, rowVars, runVars, envVars
<1>14. ASSUME NEW j \in Ids, ApproveRequeue(j)
      PROVE  TypeOK'
  BY <1>14 DEF TypeOK, ApproveRequeue, Requeue, States, LiveStates, rowVars, runVars, envVars
<1>15. ASSUME NEW j \in Ids, CrashInFinish(j)
      PROVE  TypeOK'
  <2>1. state' \in [Ids -> States] /\ pressed' \subseteq Ids
    BY <1>15, RecordedType DEF TypeOK, CrashInFinish, WriteRecord, States, LiveStates,
       TerminalStates
  <2> QED
    BY <1>15, <2>1 DEF TypeOK, CrashInFinish, Down, Causes, Outcomes
<1>16. ASSUME NEW j \in Ids, BootFail(j)
      PROVE  TypeOK'
  BY <1>16 DEF TypeOK, BootFail, BootStates, States, TerminalStates, rowVars, runVars, envVars
<1>17. ASSUME NEW j \in Ids, RollBackUpgrade(j)
      PROVE  TypeOK'
  BY <1>17 DEF TypeOK, RollBackUpgrade, States, TerminalStates, rowVars, runVars, envVars
<1>18. CASE UnparkList
  BY <1>18 DEF TypeOK, UnparkList, rowVars, runVars, envVars
<1>19. CASE HoldEnds
  BY <1>19 DEF TypeOK, HoldEnds, rowVars, runVars, envVars
<1>20. CASE Close
  BY <1>20 DEF TypeOK, Close, FirstCause, Causes, rowVars, runVars, envVars
<1>21. CASE Crash
  BY <1>21 DEF TypeOK, Crash, Down, Causes, Outcomes, rowVars, runVars, envVars
<1>22. CASE CrashInSpool
  <2>1. dump' \subseteq Ids
    BY <1>22, QueueAssumption DEF TypeOK, CrashInSpool, Ids
  <2> QED
    BY <1>22, <2>1 DEF TypeOK, CrashInSpool, Down, Causes, Outcomes
<1>23. CASE Boot
  <2>1. hold' \in BOOLEAN
    BY <1>23 DEF Boot
  <2>2. boots' \in 0..MaxBoots /\ dump' \subseteq Ids
    BY <1>23, QueueAssumption DEF TypeOK, Boot, Swept
  <2> QED
    BY <1>23, <2>1, <2>2 DEF TypeOK, Boot, runVars
<1>24. CASE BootDone
  BY <1>24 DEF TypeOK, BootDone, BootReady, rowVars, runVars, envVars
<1>25. CASE UNCHANGED vars
  BY <1>25 DEF TypeOK, vars, rowVars, runVars, envVars
<1> QED
  BY <1>1, <1>2, <1>3, <1>4, <1>5, <1>6, <1>7, <1>8, <1>9, <1>10, <1>11, <1>12, <1>13,
     <1>14, <1>15, <1>16, <1>17, <1>18, <1>19, <1>20, <1>21, <1>22, <1>23, <1>24, <1>25 DEF
     Next

(* The parts of the invariant beyond the types.                            *)
Rest ==
    /\ RowsInv
    /\ AliveInv
    /\ RunningRows
    /\ MutualExclusion
    /\ SupersededNeverSwaps
    /\ StopInv
    /\ StoppedStaysStopped

(* An Enqueue that stops the victims V keeps the invariant.               *)
LEMMA EnqueueRest ==
    ASSUME IInv, NEW req, NEW V \in SUBSET Victims(req), EnqueueRow(req, V),
           last + 1 \in Ids, UNCHANGED <<running, swapping, proc, pressed>>
    PROVE  Rest'
<1>1. last' = last + 1 /\ last \in Nat
  BY DEF IInv, TypeOK, EnqueueRow
<1>2. state[last + 1] = "none" /\ last + 1 \notin running \cup pressed \cup replaced
  BY <1>1 DEF IInv, RowsInv, RunningRows, StopInv, TypeOK, Ids
<1>3. \A j \in Parked(V) : j \in Ids /\ j \notin running /\ state[j] \in {"queued", "waiting"} /\ j <= last
  BY <1>1, QueueAssumption DEF IInv, RowsInv, TypeOK, Ids, Parked, Cancellable, Victims
<1>4. \A j \in Building(V) : j \in running /\ j \notin swapping /\ j <= last /\ j \in Ids
  BY <1>1, QueueAssumption DEF IInv, RowsInv, RunningRows, TypeOK, Ids, Building, Victims
<1>5. /\ state' = [j \in Ids |-> IF j = last + 1 THEN "queued"
                                 ELSE IF j \in Parked(V) THEN "superseded" ELSE state[j]]
      /\ superseded' = superseded \cup Building(V)
      /\ replaced' = replaced \cup Building(V) \cup Parked(V)
      /\ parent' = [j \in Ids |-> IF j \in Building(V) THEN FirstCause(parent[j], "superseded")
                                  ELSE parent[j]]
  BY DEF EnqueueRow
<1>6. RowsInv' /\ AliveInv' /\ RunningRows' /\ SupersededNeverSwaps'
  <2>1. RowsInv'
    <3> SUFFICES ASSUME NEW j \in Ids, j > last + 1 PROVE state'[j] = "none"
      BY <1>1 DEF RowsInv
    <3>1. j > last /\ j # last + 1
      BY <1>1, QueueAssumption DEF Ids
    <3>2. state[j] = "none"
      BY <3>1 DEF IInv, RowsInv
    <3> QED
      BY <1>3, <1>5, <3>1, <3>2
  <2>2. AliveInv' /\ SupersededNeverSwaps'
    BY <1>4, <1>5 DEF IInv, AliveInv, SupersededNeverSwaps
  <2>3. RunningRows'
    BY <1>2, <1>3, <1>5 DEF IInv, TypeOK, RunningRows
  <2> QED
    BY <2>1, <2>2, <2>3
<1>7. MutualExclusion'
  BY <1>2 DEF IInv, TypeOK, EnqueueRow, MutualExclusion
<1>8. StopInv'
  <2> SUFFICES ASSUME NEW j \in pressed \cup replaced'
               PROVE  j <= last + 1 /\ (j \in running => parent'[j] # "none")
    BY <1>1 DEF StopInv
  <2>1. j \in Ids /\ j <= last
    BY <1>3, <1>4, <1>5 DEF IInv, TypeOK, StopInv
  <2>2. j <= last + 1
    BY <1>1, <2>1, QueueAssumption DEF Ids
  <2>3. j \in running => parent'[j] # "none"
    BY <1>3, <1>5, <2>1 DEF IInv, StopInv, FirstCause
  <2> QED
    BY <2>2, <2>3
<1>9. StoppedStaysStopped'
  <2>1. \A j \in Building(V) : state'[j] = "running"
    BY <1>2, <1>3, <1>4, <1>5 DEF IInv, RunningRows
  <2> QED
    BY <1>2, <1>3, <1>5, <2>1 DEF IInv, TypeOK, StoppedStaysStopped
<1> QED
  BY <1>6, <1>7, <1>8, <1>9 DEF Rest

(* Every action keeps the parts of the invariant beyond the types.         *)
LEMMA RestStep == IInv /\ [Next]_vars => Rest'
<1> SUFFICES ASSUME IInv, [Next]_vars PROVE Rest'
  OBVIOUS
<1>1. ASSUME NEW n \in Workers, Pass(n)
      PROVE  Rest'
  <2>1. PICK S \in SUBSET StartSet(n) : StartAll(S)
    BY <1>1, PassStarts DEF IInv
  <2>2. /\ state' = [j \in Ids |-> IF j \in S THEN "running" ELSE state[j]]
        /\ running' = running \cup S
        /\ UNCHANGED <<last, lock, proc, parent, swapping, superseded, pressed, replaced>>
        /\ proc = "up"
    BY <1>1, <2>1 DEF Pass, StartAll, MayStart
  <2>3. \A j \in S : j \in Ids /\ Startable(j)
    BY DEF StartSet
  <2>4. RowsInv' /\ AliveInv' /\ RunningRows' /\ SupersededNeverSwaps'
    BY <2>2, <2>3 DEF IInv, TypeOK, RowsInv, AliveInv, RunningRows, SupersededNeverSwaps, Startable
  <2>5. StopInv' /\ StoppedStaysStopped'
    BY <2>2, <2>3 DEF IInv, TypeOK, StopInv, StoppedStaysStopped, Startable
  <2>6. MutualExclusion'
    <3>1. \A i \in S, r \in running : ~Overlaps(lock[i], lock[r]) /\ ~Overlaps(lock[r], lock[i])
      BY <2>3 DEF Startable, Overlaps
    <3>2. \A i, k \in S : i # k => ~Overlaps(lock[i], lock[k])
      <4> SUFFICES ASSUME NEW i \in S, NEW k \in S, i # k PROVE ~Overlaps(lock[i], lock[k])
        OBVIOUS
      <4>1. i < k \/ k < i
        BY <2>3, QueueAssumption DEF Ids
      <4>2. i \in Queued /\ k \in Queued
        BY <2>3 DEF Startable, Queued
      <4> QED
        BY <2>3, <4>1, <4>2 DEF Startable, Overlaps
    <3> QED
      BY <2>2, <3>1, <3>2 DEF IInv, MutualExclusion
  <2> QED
    BY <2>4, <2>5, <2>6 DEF Rest
<1>2. ASSUME NEW req \in Requests, Enqueue(req)
      PROVE  Rest'
  BY <1>2, EnqueueRest, EnqueueFromFacts DEF IInv, Enqueue
<1>3. ASSUME NEW req \in Requests, Skip(req)
      PROVE  Rest'
  <2>1. last + 1 \in Ids /\ last' = last + 1 /\ last \in Nat
    BY <1>3, QueueAssumption DEF IInv, TypeOK, Skip, Ids
  <2>2. state[last + 1] = "none" /\ last + 1 \notin running \cup pressed \cup replaced
    BY <2>1 DEF IInv, RowsInv, RunningRows, StopInv, TypeOK, Ids
  <2>3. RowsInv' /\ AliveInv' /\ RunningRows' /\ SupersededNeverSwaps'
    <3>1. RowsInv'
      <4> SUFFICES ASSUME NEW j \in Ids, j > last + 1 PROVE state'[j] = "none"
        BY <2>1 DEF RowsInv
      <4>1. j > last /\ j # last + 1
        BY <2>1, QueueAssumption DEF Ids
      <4> QED
        BY <1>3, <4>1 DEF IInv, TypeOK, RowsInv, Skip
    <3> QED
      BY <1>3, <2>2, <3>1 DEF IInv, TypeOK, Skip, AliveInv, RunningRows,
         SupersededNeverSwaps, runVars
  <2>4. MutualExclusion'
    BY <1>3, <2>2 DEF IInv, TypeOK, Skip, MutualExclusion, runVars
  <2>5. StopInv' /\ StoppedStaysStopped'
    BY <1>3, <2>1, <2>2, QueueAssumption DEF IInv, TypeOK, Ids, Skip, StopInv,
       StoppedStaysStopped, runVars
  <2> QED
    BY <2>3, <2>4, <2>5 DEF Rest
<1>4. ASSUME NEW j \in Ids, Cancel(j)
      PROVE  Rest'
  <2>1. RowsInv' /\ AliveInv' /\ RunningRows' /\ MutualExclusion' /\ SupersededNeverSwaps'
    BY <1>4 DEF IInv, TypeOK, Cancel, Cancellable, RowsInv, AliveInv, RunningRows,
       MutualExclusion, SupersededNeverSwaps
  <2>2. j <= last
    BY <1>4, QueueAssumption DEF IInv, TypeOK, Cancel, Cancellable, RowsInv, RunningRows, Ids
  <2>3. StopInv'
    BY <1>4, <2>2 DEF IInv, TypeOK, Cancel, FirstCause, StopInv
  <2>4. StoppedStaysStopped'
    BY <1>4 DEF IInv, TypeOK, Cancel, RunningRows, StoppedStaysStopped
  <2> QED
    BY <2>1, <2>3, <2>4 DEF Rest
<1>5. ASSUME NEW j \in Ids, Swap(j)
      PROVE  Rest'
  BY <1>5 DEF IInv, Rest, TypeOK, RowsInv, AliveInv, RunningRows, MutualExclusion,
     SupersededNeverSwaps, StopInv, StoppedStaysStopped, Swap, MaySwap, rowVars, runVars,
     envVars
<1>6. ASSUME NEW j \in Ids, NEW err \in Results, Return(j, err)
      PROVE  Rest'
  BY <1>6 DEF IInv, Rest, TypeOK, RowsInv, AliveInv, RunningRows, MutualExclusion,
     SupersededNeverSwaps, StopInv, StoppedStaysStopped, Return, rowVars, runVars, envVars
<1>7. ASSUME NEW j \in Ids, Deadline(j)
      PROVE  Rest'
  BY <1>7 DEF IInv, Rest, TypeOK, RowsInv, AliveInv, RunningRows, MutualExclusion,
     SupersededNeverSwaps, StopInv, StoppedStaysStopped, Deadline, CapRunsOut, rowVars,
     runVars, envVars
<1>8. ASSUME NEW j \in Ids, NEW req \in Children, EnqueueChild(j, req)
      PROVE  Rest'
  BY <1>8, EnqueueRest, EnqueueFromFacts DEF IInv, EnqueueChild
<1>9. ASSUME NEW j \in Ids, BeginWait(j)
      PROVE  Rest'
  BY <1>9 DEF IInv, Rest, TypeOK, RowsInv, AliveInv, RunningRows, MutualExclusion,
     SupersededNeverSwaps, StopInv, StoppedStaysStopped, BeginWait, rowVars, runVars, envVars
<1>10. ASSUME NEW j \in Ids, AwaitRead(j)
      PROVE  Rest'
  BY <1>10 DEF IInv, Rest, TypeOK, RowsInv, AliveInv, RunningRows, MutualExclusion,
     SupersededNeverSwaps, StopInv, StoppedStaysStopped, AwaitRead, rowVars, runVars, envVars
<1>11. ASSUME NEW j \in Ids, AwaitEnds(j)
      PROVE  Rest'
  BY <1>11 DEF IInv, Rest, TypeOK, RowsInv, AliveInv, RunningRows, MutualExclusion,
     SupersededNeverSwaps, StopInv, StoppedStaysStopped, AwaitEnds, rowVars, runVars, envVars
<1>12. ASSUME NEW j \in Ids, Record(j)
      PROVE  Rest'
  <2>1. Recorded(j) \in TerminalStates \cup {"waiting"} /\ state[j] = "running"
    BY <1>12, RecordedType DEF IInv, Record, RunningRows
  <2>2. j \in pressed \cup replaced => Recorded(j) # "waiting"
    BY <1>12 DEF IInv, StopInv, Record, Recorded
  <2>3. state' \in {state, [state EXCEPT ![j] = Recorded(j)]}
    BY <1>12, <2>1 DEF Record, WriteRecord
  <2>4. RowsInv' /\ AliveInv' /\ RunningRows' /\ MutualExclusion' /\ SupersededNeverSwaps'
    BY <1>12, <2>1, <2>3 DEF IInv, TypeOK, Record, LeaveRunning, RowsInv, AliveInv,
       RunningRows, MutualExclusion, SupersededNeverSwaps
  <2>5. StopInv'
    BY <1>12 DEF IInv, TypeOK, Record, LeaveRunning, StopInv
  <2>6. StoppedStaysStopped'
    BY <1>12, <2>1, <2>2, <2>3 DEF IInv, TypeOK, Record, StoppedStaysStopped, TerminalStates
  <2> QED
    BY <2>4, <2>5, <2>6 DEF Rest
<1>13. ASSUME NEW j \in Ids, UnparkOne(j)
      PROVE  Rest'
  BY <1>13 DEF IInv, Rest, TypeOK, RowsInv, AliveInv, RunningRows, MutualExclusion,
     SupersededNeverSwaps, StopInv, StoppedStaysStopped, UnparkOne, Requeue, rowVars, runVars,
     envVars
<1>14. ASSUME NEW j \in Ids, ApproveRequeue(j)
      PROVE  Rest'
  BY <1>14 DEF IInv, Rest, TypeOK, RowsInv, AliveInv, RunningRows, MutualExclusion,
     SupersededNeverSwaps, StopInv, StoppedStaysStopped, ApproveRequeue, Requeue, rowVars,
     runVars, envVars
<1>15. ASSUME NEW j \in Ids, CrashInFinish(j)
      PROVE  Rest'
  <2>1. PICK s \in TerminalStates \cup {"waiting"} :
           /\ state' = [state EXCEPT ![j] = s]
           /\ j \in pressed' \cup replaced => s # "waiting"
    <3>1. CASE j \in running /\ outcome[j] # "none" /\ WriteRecord(j) /\ UNCHANGED pressed
      <4>1. Recorded(j) \in TerminalStates \cup {"waiting"} /\ state[j] = "running"
        BY <3>1, RecordedType DEF IInv, RunningRows
      <4>2. j \in pressed \cup replaced => Recorded(j) # "waiting"
        BY <3>1 DEF IInv, StopInv, Recorded
      <4> QED
        BY <3>1, <4>1, <4>2 DEF WriteRecord
    <3>2. CASE state' = [state EXCEPT ![j] = "cancelled"]
      BY <3>2 DEF TerminalStates
    <3> QED
      BY <1>15, <3>1, <3>2 DEF CrashInFinish
  <2>2. running' = {} /\ superseded' = {} /\ UNCHANGED <<last, replaced>> /\ proc' = "down"
    BY <1>15 DEF CrashInFinish, Down
  <2>3. j <= last /\ pressed' \in {pressed, pressed \cup {j}}
    BY <1>15, QueueAssumption DEF CrashInFinish, IInv, TypeOK, Cancellable, RowsInv,
       RunningRows, Ids
  <2>4. RowsInv' /\ AliveInv' /\ RunningRows' /\ MutualExclusion' /\ SupersededNeverSwaps'
    BY <2>1, <2>2, <2>3, QueueAssumption DEF IInv, TypeOK, Ids, RowsInv, AliveInv,
       RunningRows, MutualExclusion, SupersededNeverSwaps
  <2>5. StopInv' /\ StoppedStaysStopped'
    BY <2>1, <2>2, <2>3 DEF IInv, TypeOK, StopInv, StoppedStaysStopped, TerminalStates
  <2> QED
    BY <2>4, <2>5 DEF Rest
<1>16. ASSUME NEW j \in Ids, BootFail(j)
      PROVE  Rest'
  BY <1>16 DEF IInv, Rest, TypeOK, RowsInv, AliveInv, RunningRows, MutualExclusion,
     SupersededNeverSwaps, StopInv, StoppedStaysStopped, BootFail, BootStates, rowVars,
     runVars, envVars
<1>17. ASSUME NEW j \in Ids, RollBackUpgrade(j)
      PROVE  Rest'
  BY <1>17 DEF IInv, Rest, TypeOK, RowsInv, AliveInv, RunningRows, MutualExclusion,
     SupersededNeverSwaps, StopInv, StoppedStaysStopped, RollBackUpgrade, rowVars, runVars,
     envVars
<1>18. CASE UnparkList
  BY <1>18 DEF IInv, Rest, TypeOK, RowsInv, AliveInv, RunningRows, MutualExclusion,
     SupersededNeverSwaps, StopInv, StoppedStaysStopped, UnparkList, rowVars, runVars, envVars
<1>19. CASE HoldEnds
  BY <1>19 DEF IInv, Rest, TypeOK, RowsInv, AliveInv, RunningRows, MutualExclusion,
     SupersededNeverSwaps, StopInv, StoppedStaysStopped, HoldEnds, rowVars, runVars, envVars
<1>20. CASE Close
  BY <1>20 DEF IInv, Rest, TypeOK, RowsInv, AliveInv, RunningRows, MutualExclusion,
     SupersededNeverSwaps, StopInv, StoppedStaysStopped, Close, FirstCause, rowVars, runVars,
     envVars
<1>21. CASE Crash
  BY <1>21 DEF IInv, Rest, TypeOK, RowsInv, AliveInv, RunningRows, MutualExclusion,
     SupersededNeverSwaps, StopInv, StoppedStaysStopped, Crash, Down, rowVars, runVars, envVars
<1>22. CASE CrashInSpool
  BY <1>22 DEF IInv, Rest, TypeOK, RowsInv, AliveInv, RunningRows, MutualExclusion,
     SupersededNeverSwaps, StopInv, StoppedStaysStopped, CrashInSpool, Down, rowVars, runVars,
     envVars
<1>23. CASE Boot
  BY <1>23 DEF IInv, Rest, TypeOK, RowsInv, AliveInv, RunningRows, MutualExclusion,
     SupersededNeverSwaps, StopInv, StoppedStaysStopped, Boot, rowVars, runVars, envVars
<1>24. CASE BootDone
  BY <1>24 DEF IInv, Rest, TypeOK, RowsInv, AliveInv, RunningRows, MutualExclusion,
     SupersededNeverSwaps, StopInv, StoppedStaysStopped, BootDone, BootReady, rowVars, runVars,
     envVars
<1>25. CASE UNCHANGED vars
  BY <1>25 DEF IInv, Rest, RowsInv, AliveInv, RunningRows, MutualExclusion,
     SupersededNeverSwaps, StopInv, StoppedStaysStopped, vars, rowVars, runVars, envVars
<1> QED
  BY <1>1, <1>2, <1>3, <1>4, <1>5, <1>6, <1>7, <1>8, <1>9, <1>10, <1>11, <1>12, <1>13,
     <1>14, <1>15, <1>16, <1>17, <1>18, <1>19, <1>20, <1>21, <1>22, <1>23, <1>24, <1>25 DEF
     Next

(* The invariant holds at first and every step keeps it.                   *)
LEMMA InvariantInit == Init => IInv
<1> SUFFICES ASSUME Init PROVE IInv
  OBVIOUS
<1>1. TypeOK
  <2>1. kind \in [Ids -> {r.kind : r \in Requests \cup Children} \cup {"none"}]
    BY DEF Init
  <2>2. lock \in [Ids -> {r.lock : r \in Requests \cup Children} \cup {{}}]
    BY DEF Init
  <2>3. awaits \in [Ids -> SUBSET Ids]
    BY DEF Init
  <2>4. last \in 0..MaxJobs /\ faults \in 0..MaxFaults /\ boots \in 0..MaxBoots
    BY QueueAssumption DEF Init
  <2>5. /\ state \in [Ids -> States] /\ seen \in [Ids -> States]
        /\ parent \in [Ids -> Causes \ {"deadline"}] /\ ctx \in [Ids -> Causes]
        /\ outcome \in [Ids -> Outcomes]
    BY DEF Init, States, Causes, Outcomes
  <2> QED
    BY <2>1, <2>2, <2>3, <2>4, <2>5 DEF Init, TypeOK
<1>2. RowsInv /\ AliveInv /\ RunningRows /\ MutualExclusion /\ SupersededNeverSwaps
  BY DEF Init, RowsInv, AliveInv, RunningRows, MutualExclusion, SupersededNeverSwaps
<1>3. StopInv /\ StoppedStaysStopped
  BY DEF Init, StopInv, StoppedStaysStopped
<1> QED
  BY <1>1, <1>2, <1>3 DEF IInv

(* Every step keeps the invariant.                                         *)
LEMMA InvariantStep == IInv /\ [Next]_vars => IInv'
  BY TypeStep, RestStep DEF IInv, Rest

(* The invariant holds throughout.                                         *)
LEMMA Invariant == Spec => []IInv
<1>1. Init => IInv
  BY InvariantInit
<1>2. IInv /\ [Next]_vars => IInv'
  BY InvariantStep
<1> QED
  BY <1>1, <1>2, PTL DEF Spec

(* The queue's variables keep their types.                                 *)
THEOREM TypeCorrect == Spec => []TypeOK
  BY Invariant, PTL DEF IInv

(* Two jobs that share a tile never run at once (pass and start under the  *)
(* Runner's mutex), for any lock sets, requests and crashes.               *)
THEOREM LocksExclude == Spec => []MutualExclusion
  BY Invariant, PTL DEF IInv

(* A job in the Runner's map is running in the jobs table.                 *)
THEOREM HandlersHaveRows == Spec => []RunningRows
  BY Invariant, PTL DEF IInv

(* Swap and Enqueue agree: a superseded job never enters its swap phase.   *)
THEOREM SwapRace == Spec => []SupersededNeverSwaps
  BY Invariant, PTL DEF IInv

(* A stop that Cancel or Enqueue made is final: neither run's park nor an  *)
(* unpark puts the job back in line.                                       *)
THEOREM StopsHold == Spec => []StoppedStaysStopped
  BY Invariant, PTL DEF IInv

(* A step leaves terminal rows as they are, or rolls an upgrade back.      *)
Fin ==
    \A j \in Ids :
        state[j] \in TerminalStates =>
            \/ state'[j] = state[j]
            \/ kind[j] \in UpgradeKinds /\ state[j] = "done" /\ state'[j] = "failed"

(* Finish and the boot's writes touch rows that are not terminal, but for  *)
(* the rolled back upgrade's.                                              *)
LEMMA FinStep == IInv /\ [Next]_vars => Fin
<1> SUFFICES ASSUME IInv, [Next]_vars PROVE Fin
  OBVIOUS
<1>1. ASSUME NEW n \in Workers, Pass(n)
      PROVE  Fin
  <2>1. PICK S \in SUBSET StartSet(n) : StartAll(S)
    BY <1>1, PassStarts DEF IInv
  <2> QED
    BY <2>1 DEF IInv, TypeOK, Fin, StartAll, StartSet, Startable, TerminalStates
<1>2. ASSUME NEW req \in Requests, Enqueue(req)
      PROVE  Fin
  <2>1. PICK V \in SUBSET Victims(req) : EnqueueRow(req, V)
    BY <1>2, EnqueueFromFacts DEF IInv, Enqueue
  <2>2. last + 1 \in Ids /\ state[last + 1] = "none"
    BY <1>2, EnqueueFromFacts DEF IInv, Enqueue, TypeOK, RowsInv
  <2> QED
    BY <2>1, <2>2 DEF IInv, TypeOK, Fin, EnqueueRow, Parked, Cancellable, TerminalStates
<1>3. ASSUME NEW req \in Requests, Skip(req)
      PROVE  Fin
  <2>1. last + 1 \in Ids /\ state[last + 1] = "none"
    BY <1>3, QueueAssumption DEF IInv, TypeOK, RowsInv, Skip, Ids
  <2> QED
    BY <1>3, <2>1 DEF IInv, TypeOK, Fin, Skip, TerminalStates
<1>4. ASSUME NEW j \in Ids, Cancel(j)
      PROVE  Fin
  BY <1>4 DEF IInv, TypeOK, Fin, Cancel, Cancellable, TerminalStates
<1>5. ASSUME NEW j \in Ids, Swap(j)
      PROVE  Fin
  BY <1>5 DEF Fin, Swap, rowVars
<1>6. ASSUME NEW j \in Ids, NEW err \in Results, Return(j, err)
      PROVE  Fin
  BY <1>6 DEF Fin, Return, rowVars
<1>7. ASSUME NEW j \in Ids, Deadline(j)
      PROVE  Fin
  BY <1>7 DEF Fin, Deadline, rowVars
<1>8. ASSUME NEW j \in Ids, NEW req \in Children, EnqueueChild(j, req)
      PROVE  Fin
  <2>1. PICK V \in SUBSET Victims(req) : EnqueueRow(req, V)
    BY <1>8, EnqueueFromFacts DEF IInv, EnqueueChild
  <2>2. last + 1 \in Ids /\ state[last + 1] = "none"
    BY <1>8, EnqueueFromFacts DEF IInv, EnqueueChild, TypeOK, RowsInv
  <2> QED
    BY <2>1, <2>2 DEF IInv, TypeOK, Fin, EnqueueRow, Parked, Cancellable, TerminalStates
<1>9. ASSUME NEW j \in Ids, BeginWait(j)
      PROVE  Fin
  BY <1>9 DEF Fin, BeginWait, rowVars
<1>10. ASSUME NEW j \in Ids, AwaitRead(j)
      PROVE  Fin
  BY <1>10 DEF Fin, AwaitRead, rowVars
<1>11. ASSUME NEW j \in Ids, AwaitEnds(j)
      PROVE  Fin
  BY <1>11 DEF Fin, AwaitEnds, rowVars
<1>12. ASSUME NEW j \in Ids, Record(j)
      PROVE  Fin
  BY <1>12 DEF IInv, TypeOK, Fin, Record, WriteRecord, RunningRows, TerminalStates
<1>13. ASSUME NEW j \in Ids, UnparkOne(j)
      PROVE  Fin
  BY <1>13 DEF IInv, TypeOK, Fin, UnparkOne, Requeue, TerminalStates
<1>14. ASSUME NEW j \in Ids, ApproveRequeue(j)
      PROVE  Fin
  BY <1>14 DEF IInv, TypeOK, Fin, ApproveRequeue, Requeue, TerminalStates
<1>15. ASSUME NEW j \in Ids, CrashInFinish(j)
      PROVE  Fin
  BY <1>15 DEF IInv, TypeOK, Fin, CrashInFinish, WriteRecord, RunningRows, Cancellable,
     TerminalStates
<1>16. ASSUME NEW j \in Ids, BootFail(j)
      PROVE  Fin
  BY <1>16 DEF IInv, TypeOK, Fin, BootFail, TerminalStates
<1>17. ASSUME NEW j \in Ids, RollBackUpgrade(j)
      PROVE  Fin
  BY <1>17 DEF IInv, TypeOK, Fin, RollBackUpgrade, TerminalStates
<1>18. CASE UnparkList
  BY <1>18 DEF Fin, UnparkList, rowVars
<1>19. CASE HoldEnds
  BY <1>19 DEF Fin, HoldEnds, rowVars
<1>20. CASE Close
  BY <1>20 DEF Fin, Close, rowVars
<1>21. CASE Crash
  BY <1>21 DEF Fin, Crash, rowVars
<1>22. CASE CrashInSpool
  BY <1>22 DEF Fin, CrashInSpool, rowVars
<1>23. CASE Boot
  BY <1>23 DEF Fin, Boot, rowVars
<1>24. CASE BootDone
  BY <1>24 DEF Fin, BootDone, rowVars
<1>25. CASE UNCHANGED vars
  BY <1>25 DEF Fin, vars, rowVars
<1> QED
  BY <1>1, <1>2, <1>3, <1>4, <1>5, <1>6, <1>7, <1>8, <1>9, <1>10, <1>11, <1>12, <1>13,
     <1>14, <1>15, <1>16, <1>17, <1>18, <1>19, <1>20, <1>21, <1>22, <1>23, <1>24, <1>25 DEF
     Next

(* A terminal row is final but for the rolled back upgrade: no late        *)
(* handler, requeue, boot or second stop revives a job.                    *)
THEOREM TerminalRowsAreFinal == Spec => TerminalIsFinal
<1>1. IInv /\ [Next]_vars => Fin
  BY FinStep
<1>2. Spec => [][Fin]_vars
  BY <1>1, Invariant, PTL DEF Spec
<1> QED
  BY <1>2 DEF TerminalIsFinal, Fin

(***************************************************************************)
(* A second inductive invariant, over IInv: rows, dumps, upgrades, applies *)
(***************************************************************************)

(* A created row has a state, one that runs or waits was started, and only *)
(* a job in the Runner's map has an unwritten outcome.                     *)
BornInv ==
    \A j \in Ids :
        /\ j <= last => state[j] # "none"
        /\ state[j] \in {"running", "waiting"} => j \in started
        /\ outcome[j] # "none" => j \in running

(* From the sweep at boot on, a dump on disk belongs to a live row.        *)
DumpInv == proc # "down" => \A j \in dump : Live(state[j])

(* An upgrade never parks and its row has the lock that excludes all.      *)
UpgradeInv ==
    /\ UpgradeIsAlone
    /\ \A j \in Ids : kind[j] \in UpgradeKinds =>
          /\ "waiting" \notin {state[j], outcome[j]}
          /\ state[j] # "none" => All \in lock[j]

(* Only applies note redeploys, which are no upgrades; what await read of  *)
(* one stays true unless it was parked; and an apply that succeeded has    *)
(* read every one of them, none as failed.                                 *)
ApplyInv ==
    /\ \A p \in Ids :
          /\ awaits[p] # {} => kind[p] \in AwaitKinds /\ p <= last
          /\ \A c \in awaits[p] : c <= last /\ kind[c] \notin UpgradeKinds
          /\ "done" \in {state[p], outcome[p]} =>
                \A c \in awaits[p] : seen[c] \notin {"none", "failed"}
    /\ \A c \in Ids : seen[c] # "none" =>
          /\ c <= last
          /\ kind[c] \notin UpgradeKinds
          /\ seen[c] # "waiting" => seen[c] \in TerminalStates /\ state[c] = seen[c]

(* What a job goes through, from its row's creation to its last write.     *)
LifeInv == BornInv /\ DumpInv /\ OrphanRows /\ UpgradeInv /\ ApplyInv

(* What Enqueue does, whichever of its writes fails: the new row, the      *)
(* victims V stopped, the dumps of finished ones dropped.                  *)
LEMMA EnqueueEffect ==
    ASSUME IInv, NEW req \in Requests \cup Children, EnqueueFrom(req)
    PROVE  \E V \in SUBSET Victims(req) :
              /\ EnqueueRow(req, V)
              /\ dump' \subseteq (dump \ Parked(V)) \cup {last + 1}
              /\ faults' \in Nat /\ faults <= faults'
              /\ last + 1 \in Ids /\ last' = last + 1 /\ last \in Nat
              /\ state[last + 1] = "none" /\ last + 1 \notin running
<1>1. /\ last + 1 \in Ids /\ last' = last + 1 /\ last \in Nat
      /\ state[last + 1] = "none" /\ last + 1 \notin running
  <2>1. last + 1 \in Ids /\ last \in Nat
    BY EnqueueFromFacts DEF IInv, TypeOK
  <2>2. last' = last + 1
    BY DEF EnqueueFrom, EnqueueRow
  <2> QED
    BY <2>1, <2>2 DEF IInv, RowsInv, RunningRows
<1>2. CASE /\ EnqueueRow(req, Victims(req))
           /\ EnqueueDump(req, Victims(req), TRUE)
           /\ UNCHANGED faults
  BY <1>1, <1>2 DEF EnqueueDump, IInv, TypeOK
<1>3. ASSUME NEW f \in Parked(Victims(req)), faults < MaxFaults, faults' = faults + 1,
             EnqueueRow(req, {o \in Victims(req) : o < f}),
             EnqueueDump(req, {o \in Victims(req) : o < f}, FALSE)
      PROVE  \E V \in SUBSET Victims(req) :
                /\ EnqueueRow(req, V)
                /\ dump' \subseteq (dump \ Parked(V)) \cup {last + 1}
                /\ faults' \in Nat /\ faults <= faults'
  <2>1. {o \in Victims(req) : o < f} \in SUBSET Victims(req)
    OBVIOUS
  <2>2. dump' \subseteq (dump \ Parked({o \in Victims(req) : o < f})) \cup {last + 1}
    BY <1>3 DEF EnqueueDump
  <2>3. faults' \in Nat /\ faults <= faults'
    BY <1>3 DEF IInv, TypeOK
  <2> QED
    BY <1>3, <2>1, <2>2, <2>3
<1> QED
  BY <1>1, <1>2, <1>3 DEF EnqueueFrom

(* Every step keeps the rows' histories.                                   *)
LEMMA BornStep == IInv /\ BornInv /\ [Next]_vars => BornInv'
<1> SUFFICES ASSUME IInv /\ BornInv, [Next]_vars PROVE BornInv'
  OBVIOUS
<1>1. ASSUME NEW n \in Workers, Pass(n)
      PROVE  BornInv'
  <2>1. PICK S \in SUBSET StartSet(n) : StartAll(S)
    BY <1>1, PassStarts DEF IInv
  <2> QED
    BY <1>1, <2>1, QueueAssumption DEF BornInv, Ids, Pass, StartAll, StartSet,
       Startable, MayStart, IInv, TypeOK
<1>2. ASSUME NEW req \in Requests, Enqueue(req)
      PROVE  BornInv'
  <2>1. PICK V \in SUBSET Victims(req) :
              /\ EnqueueRow(req, V)
              /\ dump' \subseteq (dump \ Parked(V)) \cup {last + 1}
              /\ faults' \in Nat /\ faults <= faults'
              /\ last + 1 \in Ids /\ last' = last + 1 /\ last \in Nat
              /\ state[last + 1] = "none" /\ last + 1 \notin running
    BY <1>2, EnqueueEffect DEF Enqueue
  <2>2. UNCHANGED <<started, proc, hold, running, swapping, idle, awaits, seen, outcome, parkList,
                    pressed, boots>>
    BY <1>2 DEF Enqueue
  <2> QED
    BY <2>1, <2>2, QueueAssumption DEF BornInv, Ids, EnqueueRow, Parked,
       Building, Cancellable, IInv, TypeOK
<1>3. ASSUME NEW req \in Requests, Skip(req)
      PROVE  BornInv'
  <2>1. last + 1 \in Ids /\ last' = last + 1 /\ last \in Nat /\ state[last + 1] = "none"
        /\ last + 1 \notin running
    BY <1>3, QueueAssumption DEF IInv, TypeOK, RowsInv, RunningRows, Skip, Ids
  <2>2. \A j \in Ids : j <= last + 1 => j <= last \/ j = last + 1
    BY <2>1, QueueAssumption DEF Ids
  <2>3. \A j \in Ids \ {last + 1} : state'[j] = state[j]
    BY <1>3, <2>1 DEF Skip, IInv, TypeOK
  <2>4. state'[last + 1] \in {"skipped", "queued"}
    BY <1>3, <2>1 DEF Skip, IInv, TypeOK
  <2> QED
    BY <1>3, <2>1, <2>2, <2>3, <2>4 DEF BornInv, Skip, runVars
<1>4. ASSUME NEW j \in Ids, Cancel(j)
      PROVE  BornInv'
  BY <1>4, OutcomeType DEF BornInv, Ids, IInv, TypeOK, RunningRows, States,
     TerminalStates, Cancel, Cancellable, FirstCause, rowVars, runVars, envVars
<1>5. ASSUME NEW j \in Ids, Swap(j)
      PROVE  BornInv'
  BY <1>5, OutcomeType DEF BornInv, Ids, IInv, TypeOK, RunningRows, States,
     TerminalStates, Swap, MaySwap, Working, rowVars, runVars, envVars
<1>6. ASSUME NEW j \in Ids, NEW err \in Results, Return(j, err)
      PROVE  BornInv'
  BY <1>6, OutcomeType DEF BornInv, Ids, IInv, TypeOK, RunningRows, States,
     TerminalStates, Return, Working, rowVars, runVars, envVars
<1>7. ASSUME NEW j \in Ids, Deadline(j)
      PROVE  BornInv'
  BY <1>7, OutcomeType DEF BornInv, Ids, IInv, TypeOK, RunningRows, States,
     TerminalStates, Deadline, CapRunsOut, rowVars, runVars, envVars
<1>8. ASSUME NEW j \in Ids, NEW req \in Children, EnqueueChild(j, req)
      PROVE  BornInv'
  <2>1. PICK V \in SUBSET Victims(req) :
              /\ EnqueueRow(req, V)
              /\ dump' \subseteq (dump \ Parked(V)) \cup {last + 1}
              /\ faults' \in Nat /\ faults <= faults'
              /\ last + 1 \in Ids /\ last' = last + 1 /\ last \in Nat
              /\ state[last + 1] = "none" /\ last + 1 \notin running
    BY <1>8, EnqueueEffect DEF EnqueueChild
  <2> QED
    BY <1>8, <2>1, QueueAssumption DEF BornInv, Ids, EnqueueChild, EnqueueRow, Parked,
       Building, Cancellable, IInv, TypeOK
<1>9. ASSUME NEW j \in Ids, BeginWait(j)
      PROVE  BornInv'
  BY <1>9, OutcomeType DEF BornInv, Ids, IInv, TypeOK, RunningRows, States,
     TerminalStates, BeginWait, Working, rowVars, runVars, envVars
<1>10. ASSUME NEW j \in Ids, AwaitRead(j)
      PROVE  BornInv'
  BY <1>10, OutcomeType DEF BornInv, Ids, IInv, TypeOK, RunningRows, States,
     TerminalStates, AwaitRead, Unread, rowVars, runVars, envVars
<1>11. ASSUME NEW j \in Ids, AwaitEnds(j)
      PROVE  BornInv'
  BY <1>11, OutcomeType DEF BornInv, Ids, IInv, TypeOK, RunningRows, States,
     TerminalStates, AwaitEnds, Unread, rowVars, runVars, envVars
<1>12. ASSUME NEW j \in Ids, Record(j)
      PROVE  BornInv'
  BY <1>12, RecordedType, QueueAssumption DEF BornInv, Ids, Record, LeaveRunning,
     WriteRecord, RunningRows, IInv, TypeOK, TerminalStates
<1>13. ASSUME NEW j \in Ids, UnparkOne(j)
      PROVE  BornInv'
  BY <1>13, OutcomeType DEF BornInv, Ids, IInv, TypeOK, RunningRows, States,
     TerminalStates, UnparkOne, Requeue, rowVars, runVars, envVars
<1>14. ASSUME NEW j \in Ids, ApproveRequeue(j)
      PROVE  BornInv'
  BY <1>14, OutcomeType DEF BornInv, Ids, IInv, TypeOK, RunningRows, States,
     TerminalStates, ApproveRequeue, Requeue, Serving, rowVars, runVars, envVars
<1>15. ASSUME NEW j \in Ids, CrashInFinish(j)
      PROVE  BornInv'
  BY <1>15, RecordedType, QueueAssumption DEF BornInv, Ids, CrashInFinish, Down,
     WriteRecord, Cancellable, RunningRows, IInv, TypeOK, TerminalStates
<1>16. ASSUME NEW j \in Ids, BootFail(j)
      PROVE  BornInv'
  BY <1>16, OutcomeType DEF BornInv, Ids, IInv, TypeOK, RunningRows, States,
     TerminalStates, BootFail, BootStates, rowVars, runVars, envVars
<1>17. ASSUME NEW j \in Ids, RollBackUpgrade(j)
      PROVE  BornInv'
  BY <1>17, OutcomeType DEF BornInv, Ids, IInv, TypeOK, RunningRows, States,
     TerminalStates, RollBackUpgrade, rowVars, runVars, envVars
<1>18. ASSUME UnparkList
      PROVE  BornInv'
  BY <1>18, OutcomeType DEF BornInv, Ids, IInv, TypeOK, RunningRows, States,
     TerminalStates, UnparkList, rowVars, runVars, envVars
<1>19. ASSUME HoldEnds
      PROVE  BornInv'
  BY <1>19, OutcomeType DEF BornInv, Ids, IInv, TypeOK, RunningRows, States,
     TerminalStates, HoldEnds, rowVars, runVars, envVars
<1>20. ASSUME Close
      PROVE  BornInv'
  BY <1>20, OutcomeType DEF BornInv, Ids, IInv, TypeOK, RunningRows, States,
     TerminalStates, Close, FirstCause, rowVars, runVars, envVars
<1>21. ASSUME Crash
      PROVE  BornInv'
  BY <1>21, OutcomeType DEF BornInv, Ids, IInv, TypeOK, RunningRows, States,
     TerminalStates, Crash, Down, rowVars, runVars, envVars
<1>22. ASSUME CrashInSpool
      PROVE  BornInv'
  BY <1>22, OutcomeType DEF BornInv, Ids, IInv, TypeOK, RunningRows, States,
     TerminalStates, CrashInSpool, Down, rowVars, runVars, envVars
<1>23. ASSUME Boot
      PROVE  BornInv'
  BY <1>23, OutcomeType DEF BornInv, Ids, IInv, TypeOK, RunningRows, States,
     TerminalStates, Boot, Swept, rowVars, runVars, envVars
<1>24. ASSUME BootDone
      PROVE  BornInv'
  BY <1>24, OutcomeType DEF BornInv, Ids, IInv, TypeOK, RunningRows, States,
     TerminalStates, BootDone, BootReady, rowVars, runVars, envVars
<1>25. CASE UNCHANGED vars
  BY <1>25 DEF BornInv, Ids, IInv, TypeOK, RunningRows, States, TerminalStates, vars,
     rowVars, runVars, envVars
<1> QED
  BY <1>1, <1>2, <1>3, <1>4, <1>5, <1>6, <1>7, <1>8, <1>9, <1>10, <1>11, <1>12, <1>13,
     <1>14, <1>15, <1>16, <1>17, <1>18, <1>19, <1>20, <1>21, <1>22, <1>23, <1>24, <1>25 DEF
     Next

(* Every step leaves only dumps of live rows while the process is not      *)
(* down.                                                                   *)
LEMMA DumpStep == IInv /\ DumpInv /\ [Next]_vars => DumpInv'
<1> SUFFICES ASSUME IInv /\ DumpInv, [Next]_vars PROVE DumpInv'
  OBVIOUS
<1>1. ASSUME NEW n \in Workers, Pass(n)
      PROVE  DumpInv'
  <2>1. PICK S \in SUBSET StartSet(n) : StartAll(S)
    BY <1>1, PassStarts DEF IInv
  <2> QED
    BY <1>1, <2>1 DEF DumpInv, Live, LiveStates, RowsInv, Pass, StartAll, StartSet,
       Startable, MayStart, IInv, TypeOK
<1>2. ASSUME NEW req \in Requests, Enqueue(req)
      PROVE  DumpInv'
  <2>1. PICK V \in SUBSET Victims(req) :
              /\ EnqueueRow(req, V)
              /\ dump' \subseteq (dump \ Parked(V)) \cup {last + 1}
              /\ faults' \in Nat /\ faults <= faults'
              /\ last + 1 \in Ids /\ last' = last + 1 /\ last \in Nat
              /\ state[last + 1] = "none" /\ last + 1 \notin running
    BY <1>2, EnqueueEffect DEF Enqueue
  <2> QED
    BY <1>2, <2>1 DEF DumpInv, Live, LiveStates, RowsInv, Enqueue, EnqueueRow, Parked,
       Building, Cancellable, IInv, TypeOK
<1>3. ASSUME NEW req \in Requests, Skip(req)
      PROVE  DumpInv'
  <2>1. last + 1 \in Ids /\ last' = last + 1 /\ last \in Nat /\ state[last + 1] = "none"
        /\ last + 1 \notin running
    BY <1>3, QueueAssumption DEF IInv, TypeOK, RowsInv, RunningRows, Skip, Ids
  <2> QED
    BY <1>3, <2>1 DEF DumpInv, Live, LiveStates, RowsInv, Skip, IInv, TypeOK, rowVars,
       runVars, envVars
<1>4. ASSUME NEW j \in Ids, Cancel(j)
      PROVE  DumpInv'
  BY <1>4 DEF DumpInv, Live, LiveStates, IInv, TypeOK, RowsInv, Serving, Cancel,
     Cancellable, FirstCause, rowVars, runVars, envVars
<1>5. ASSUME NEW j \in Ids, Swap(j)
      PROVE  DumpInv'
  BY <1>5 DEF DumpInv, Live, LiveStates, IInv, TypeOK, RowsInv, Serving, Swap,
     MaySwap, Working, rowVars, runVars, envVars
<1>6. ASSUME NEW j \in Ids, NEW err \in Results, Return(j, err)
      PROVE  DumpInv'
  BY <1>6 DEF DumpInv, Live, LiveStates, IInv, TypeOK, RowsInv, Serving, Return,
     Working, rowVars, runVars, envVars
<1>7. ASSUME NEW j \in Ids, Deadline(j)
      PROVE  DumpInv'
  BY <1>7 DEF DumpInv, Live, LiveStates, IInv, TypeOK, RowsInv, Serving, Deadline,
     CapRunsOut, rowVars, runVars, envVars
<1>8. ASSUME NEW j \in Ids, NEW req \in Children, EnqueueChild(j, req)
      PROVE  DumpInv'
  <2>1. PICK V \in SUBSET Victims(req) :
              /\ EnqueueRow(req, V)
              /\ dump' \subseteq (dump \ Parked(V)) \cup {last + 1}
              /\ faults' \in Nat /\ faults <= faults'
              /\ last + 1 \in Ids /\ last' = last + 1 /\ last \in Nat
              /\ state[last + 1] = "none" /\ last + 1 \notin running
    BY <1>8, EnqueueEffect DEF EnqueueChild
  <2> QED
    BY <1>8, <2>1 DEF DumpInv, Live, LiveStates, RowsInv, EnqueueChild, EnqueueRow,
       Parked, Building, Cancellable, IInv, TypeOK
<1>9. ASSUME NEW j \in Ids, BeginWait(j)
      PROVE  DumpInv'
  BY <1>9 DEF DumpInv, Live, LiveStates, IInv, TypeOK, RowsInv, Serving, BeginWait,
     Working, rowVars, runVars, envVars
<1>10. ASSUME NEW j \in Ids, AwaitRead(j)
      PROVE  DumpInv'
  BY <1>10 DEF DumpInv, Live, LiveStates, IInv, TypeOK, RowsInv, Serving, AwaitRead,
     Unread, rowVars, runVars, envVars
<1>11. ASSUME NEW j \in Ids, AwaitEnds(j)
      PROVE  DumpInv'
  BY <1>11 DEF DumpInv, Live, LiveStates, IInv, TypeOK, RowsInv, Serving, AwaitEnds,
     Unread, rowVars, runVars, envVars
<1>12. ASSUME NEW j \in Ids, Record(j)
      PROVE  DumpInv'
  BY <1>12, RecordedType DEF DumpInv, Live, LiveStates, RowsInv, Record, LeaveRunning,
     WriteRecord, RunningRows, IInv, TypeOK, TerminalStates
<1>13. ASSUME NEW j \in Ids, UnparkOne(j)
      PROVE  DumpInv'
  BY <1>13 DEF DumpInv, Live, LiveStates, IInv, TypeOK, RowsInv, Serving, UnparkOne,
     Requeue, rowVars, runVars, envVars
<1>14. ASSUME NEW j \in Ids, ApproveRequeue(j)
      PROVE  DumpInv'
  BY <1>14 DEF DumpInv, Live, LiveStates, IInv, TypeOK, RowsInv, Serving,
     ApproveRequeue, Requeue, rowVars, runVars, envVars
<1>15. ASSUME NEW j \in Ids, CrashInFinish(j)
      PROVE  DumpInv'
  BY <1>15, RecordedType DEF DumpInv, Live, LiveStates, RowsInv, CrashInFinish, Down,
     WriteRecord, Cancellable, RunningRows, IInv, TypeOK, TerminalStates
<1>16. ASSUME NEW j \in Ids, BootFail(j)
      PROVE  DumpInv'
  BY <1>16 DEF DumpInv, Live, LiveStates, IInv, TypeOK, RowsInv, Serving, BootFail,
     BootStates, rowVars, runVars, envVars
<1>17. ASSUME NEW j \in Ids, RollBackUpgrade(j)
      PROVE  DumpInv'
  BY <1>17 DEF DumpInv, Live, LiveStates, IInv, TypeOK, RowsInv, Serving,
     RollBackUpgrade, rowVars, runVars, envVars
<1>18. ASSUME UnparkList
      PROVE  DumpInv'
  BY <1>18 DEF DumpInv, Live, LiveStates, IInv, TypeOK, RowsInv, Serving, UnparkList,
     rowVars, runVars, envVars
<1>19. ASSUME HoldEnds
      PROVE  DumpInv'
  BY <1>19 DEF DumpInv, Live, LiveStates, IInv, TypeOK, RowsInv, Serving, HoldEnds,
     rowVars, runVars, envVars
<1>20. ASSUME Close
      PROVE  DumpInv'
  BY <1>20 DEF DumpInv, Live, LiveStates, IInv, TypeOK, RowsInv, Serving, Close,
     FirstCause, rowVars, runVars, envVars
<1>21. ASSUME Crash
      PROVE  DumpInv'
  BY <1>21 DEF DumpInv, Live, LiveStates, IInv, TypeOK, RowsInv, Serving, Crash,
     Down, rowVars, runVars, envVars
<1>22. ASSUME CrashInSpool
      PROVE  DumpInv'
  BY <1>22 DEF DumpInv, Live, LiveStates, IInv, TypeOK, RowsInv, Serving,
     CrashInSpool, Down, rowVars, runVars, envVars
<1>23. ASSUME Boot
      PROVE  DumpInv'
  BY <1>23 DEF DumpInv, Live, LiveStates, IInv, TypeOK, RowsInv, Serving, Boot,
     Swept, rowVars, runVars, envVars
<1>24. ASSUME BootDone
      PROVE  DumpInv'
  BY <1>24 DEF DumpInv, Live, LiveStates, IInv, TypeOK, RowsInv, Serving, BootDone,
     BootReady, rowVars, runVars, envVars
<1>25. CASE UNCHANGED vars
  BY <1>25 DEF DumpInv, Live, LiveStates, IInv, TypeOK, RowsInv, Serving, vars,
     rowVars, runVars, envVars
<1> QED
  BY <1>1, <1>2, <1>3, <1>4, <1>5, <1>6, <1>7, <1>8, <1>9, <1>10, <1>11, <1>12, <1>13,
     <1>14, <1>15, <1>16, <1>17, <1>18, <1>19, <1>20, <1>21, <1>22, <1>23, <1>24, <1>25 DEF
     Next

(* Rows the table says run and no handler works on.                        *)
Orphans == {j \in Ids : state[j] = "running" /\ j \notin running}

(* How a step changes them: not at all or to fewer; none are left when a   *)
(* boot ends; and a write that fails is counted and makes one more.        *)
OrphanEffect ==
    /\ Serving' => Serving \/ Orphans' = {}
    /\ faults' \in Nat
    /\ \/ ~Serving'
       \/ Orphans' \subseteq Orphans /\ faults <= faults'
       \/ faults' = faults + 1 /\ \E j \in Ids : Orphans' \subseteq Orphans \cup {j}

(* Every step changes the orphan rows in one of these ways.                *)
LEMMA OrphanStep == IInv /\ [Next]_vars => OrphanEffect
<1> SUFFICES ASSUME IInv, [Next]_vars PROVE OrphanEffect
  OBVIOUS
<1>1. ASSUME NEW n \in Workers, Pass(n)
      PROVE  OrphanEffect
  <2>1. PICK S \in SUBSET StartSet(n) : StartAll(S)
    BY <1>1, PassStarts DEF IInv
  <2>2. Orphans' \subseteq Orphans
    BY <2>1 DEF Orphans, StartAll
  <2>3. faults' \in Nat /\ faults <= faults'
    <3>1. faults' = faults \/ faults' = faults + 1
      BY <1>1 DEF Pass
    <3>2. faults \in Nat
      BY DEF IInv, TypeOK
    <3> QED
      BY <3>1, <3>2
  <2> QED
    BY <1>1, <2>2, <2>3 DEF OrphanEffect, Pass, Serving
<1>2. ASSUME NEW req \in Requests, Enqueue(req)
      PROVE  OrphanEffect
  <2>1. PICK V \in SUBSET Victims(req) :
              /\ EnqueueRow(req, V)
              /\ dump' \subseteq (dump \ Parked(V)) \cup {last + 1}
              /\ faults' \in Nat /\ faults <= faults'
              /\ last + 1 \in Ids /\ last' = last + 1 /\ last \in Nat
              /\ state[last + 1] = "none" /\ last + 1 \notin running
    BY <1>2, EnqueueEffect DEF Enqueue
  <2> QED
    BY <1>2, <2>1 DEF OrphanEffect, Orphans, Serving, RunningRows, Enqueue, EnqueueRow,
       Parked, Building, Cancellable, IInv, TypeOK
<1>3. ASSUME NEW req \in Requests, Skip(req)
      PROVE  OrphanEffect
  <2>1. last + 1 \in Ids /\ last' = last + 1 /\ last \in Nat /\ state[last + 1] = "none"
        /\ last + 1 \notin running
    BY <1>3, QueueAssumption DEF IInv, TypeOK, RowsInv, RunningRows, Skip, Ids
  <2> QED
    BY <1>3, <2>1 DEF OrphanEffect, Orphans, Serving, RunningRows, Skip, IInv, TypeOK,
       rowVars, runVars, envVars
<1>4. ASSUME NEW j \in Ids, Cancel(j)
      PROVE  OrphanEffect
  BY <1>4 DEF OrphanEffect, Orphans, Serving, IInv, TypeOK, RunningRows, AliveInv,
     Cancel, Cancellable, FirstCause, rowVars, runVars, envVars
<1>5. ASSUME NEW j \in Ids, Swap(j)
      PROVE  OrphanEffect
  BY <1>5 DEF OrphanEffect, Orphans, Serving, IInv, TypeOK, RunningRows, AliveInv,
     Swap, MaySwap, Working, rowVars, runVars, envVars
<1>6. ASSUME NEW j \in Ids, NEW err \in Results, Return(j, err)
      PROVE  OrphanEffect
  BY <1>6 DEF OrphanEffect, Orphans, Serving, IInv, TypeOK, RunningRows, AliveInv,
     Return, Working, rowVars, runVars, envVars
<1>7. ASSUME NEW j \in Ids, Deadline(j)
      PROVE  OrphanEffect
  BY <1>7 DEF OrphanEffect, Orphans, Serving, IInv, TypeOK, RunningRows, AliveInv,
     Deadline, CapRunsOut, rowVars, runVars, envVars
<1>8. ASSUME NEW j \in Ids, NEW req \in Children, EnqueueChild(j, req)
      PROVE  OrphanEffect
  <2>1. PICK V \in SUBSET Victims(req) :
              /\ EnqueueRow(req, V)
              /\ dump' \subseteq (dump \ Parked(V)) \cup {last + 1}
              /\ faults' \in Nat /\ faults <= faults'
              /\ last + 1 \in Ids /\ last' = last + 1 /\ last \in Nat
              /\ state[last + 1] = "none" /\ last + 1 \notin running
    BY <1>8, EnqueueEffect DEF EnqueueChild
  <2> QED
    BY <1>8, <2>1 DEF OrphanEffect, Orphans, Serving, RunningRows, EnqueueChild,
       EnqueueRow, Parked, Building, Cancellable, IInv, TypeOK
<1>9. ASSUME NEW j \in Ids, BeginWait(j)
      PROVE  OrphanEffect
  BY <1>9 DEF OrphanEffect, Orphans, Serving, IInv, TypeOK, RunningRows, AliveInv,
     BeginWait, Working, rowVars, runVars, envVars
<1>10. ASSUME NEW j \in Ids, AwaitRead(j)
      PROVE  OrphanEffect
  BY <1>10 DEF OrphanEffect, Orphans, Serving, IInv, TypeOK, RunningRows, AliveInv,
     AwaitRead, Unread, rowVars, runVars, envVars
<1>11. ASSUME NEW j \in Ids, AwaitEnds(j)
      PROVE  OrphanEffect
  BY <1>11 DEF OrphanEffect, Orphans, Serving, IInv, TypeOK, RunningRows, AliveInv,
     AwaitEnds, Unread, rowVars, runVars, envVars
<1>12. ASSUME NEW j \in Ids, Record(j)
      PROVE  OrphanEffect
  <2>1. Orphans' \subseteq Orphans \cup {j}
    BY <1>12 DEF Orphans, Record, LeaveRunning, WriteRecord, IInv, TypeOK
  <2>2. CASE UNCHANGED faults
    <3>1. Recorded(j) # "running"
      BY <1>12, RecordedType DEF IInv, Record, TerminalStates
    <3>2. state'[j] # "running"
      BY <1>12, <2>2, <3>1 DEF Record, WriteRecord, IInv, TypeOK, RunningRows
    <3>3. Orphans' \subseteq Orphans
      BY <2>1, <3>2 DEF Orphans
    <3> QED
      BY <1>12, <2>2, <3>3 DEF OrphanEffect, Record, Serving, IInv, TypeOK
  <2>3. CASE faults' = faults + 1
    BY <1>12, <2>1, <2>3 DEF OrphanEffect, Record, Serving, IInv, TypeOK
  <2> QED
    BY <1>12, <2>2, <2>3 DEF Record
<1>13. ASSUME NEW j \in Ids, UnparkOne(j)
      PROVE  OrphanEffect
  BY <1>13 DEF OrphanEffect, Orphans, Serving, IInv, TypeOK, RunningRows, AliveInv,
     UnparkOne, Requeue, rowVars, runVars, envVars
<1>14. ASSUME NEW j \in Ids, ApproveRequeue(j)
      PROVE  OrphanEffect
  BY <1>14 DEF OrphanEffect, Orphans, Serving, IInv, TypeOK, RunningRows, AliveInv,
     ApproveRequeue, Requeue, rowVars, runVars, envVars
<1>15. ASSUME NEW j \in Ids, CrashInFinish(j)
      PROVE  OrphanEffect
  BY <1>15, RecordedType DEF OrphanEffect, Orphans, Serving, RunningRows, CrashInFinish,
     Down, WriteRecord, Cancellable, IInv, TypeOK, TerminalStates
<1>16. ASSUME NEW j \in Ids, BootFail(j)
      PROVE  OrphanEffect
  BY <1>16 DEF OrphanEffect, Orphans, Serving, IInv, TypeOK, RunningRows, AliveInv,
     BootFail, BootStates, rowVars, runVars, envVars
<1>17. ASSUME NEW j \in Ids, RollBackUpgrade(j)
      PROVE  OrphanEffect
  BY <1>17 DEF OrphanEffect, Orphans, Serving, IInv, TypeOK, RunningRows, AliveInv,
     RollBackUpgrade, rowVars, runVars, envVars
<1>18. ASSUME UnparkList
      PROVE  OrphanEffect
  BY <1>18 DEF OrphanEffect, Orphans, Serving, IInv, TypeOK, RunningRows, AliveInv,
     UnparkList, rowVars, runVars, envVars
<1>19. ASSUME HoldEnds
      PROVE  OrphanEffect
  BY <1>19 DEF OrphanEffect, Orphans, Serving, IInv, TypeOK, RunningRows, AliveInv,
     HoldEnds, rowVars, runVars, envVars
<1>20. ASSUME Close
      PROVE  OrphanEffect
  BY <1>20 DEF OrphanEffect, Orphans, Serving, IInv, TypeOK, RunningRows, AliveInv,
     Close, FirstCause, rowVars, runVars, envVars
<1>21. ASSUME Crash
      PROVE  OrphanEffect
  BY <1>21 DEF OrphanEffect, Orphans, Serving, IInv, TypeOK, RunningRows, AliveInv,
     Crash, Down, rowVars, runVars, envVars
<1>22. ASSUME CrashInSpool
      PROVE  OrphanEffect
  BY <1>22 DEF OrphanEffect, Orphans, Serving, IInv, TypeOK, RunningRows, AliveInv,
     CrashInSpool, Down, rowVars, runVars, envVars
<1>23. ASSUME Boot
      PROVE  OrphanEffect
  BY <1>23 DEF OrphanEffect, Orphans, Serving, IInv, TypeOK, RunningRows, AliveInv,
     Boot, Swept, rowVars, runVars, envVars
<1>24. ASSUME BootDone
      PROVE  OrphanEffect
  BY <1>24 DEF OrphanEffect, Orphans, Serving, IInv, TypeOK, RunningRows, AliveInv,
     BootDone, BootReady, rowVars, runVars, envVars
<1>25. CASE UNCHANGED vars
  BY <1>25 DEF OrphanEffect, Orphans, Serving, IInv, TypeOK, RunningRows, AliveInv,
     vars, rowVars, runVars, envVars
<1> QED
  BY <1>1, <1>2, <1>3, <1>4, <1>5, <1>6, <1>7, <1>8, <1>9, <1>10, <1>11, <1>12, <1>13,
     <1>14, <1>15, <1>16, <1>17, <1>18, <1>19, <1>20, <1>21, <1>22, <1>23, <1>24, <1>25 DEF
     Next

(* A step of that effect keeps the orphan rows within the failed writes.   *)
LEMMA OrphansCounted == IInv /\ OrphanRows /\ OrphanEffect => OrphanRows'
<1> SUFFICES ASSUME IInv, OrphanRows, OrphanEffect, Serving'
             PROVE  Cardinality(Orphans') <= faults'
  BY DEF OrphanRows, Orphans
<1>1. IsFiniteSet(Orphans) /\ Cardinality(Orphans) \in Nat /\ IsFiniteSet(Ids)
  <2>1. IsFiniteSet(Ids)
    BY FS_Interval, QueueAssumption DEF Ids
  <2>2. Orphans \subseteq Ids
    BY DEF Orphans
  <2> QED
    BY <2>1, <2>2, FS_Subset, FS_CardinalityType
<1>2. faults \in Nat /\ faults' \in Nat
  BY DEF IInv, TypeOK, OrphanEffect
<1>3. CASE Orphans' = {}
  BY <1>2, <1>3, FS_EmptySet
<1>4. CASE Serving
  <2>1. Cardinality(Orphans) <= faults
    BY <1>4 DEF OrphanRows, Orphans
  <2>2. CASE Orphans' \subseteq Orphans /\ faults <= faults'
    <3>1. Cardinality(Orphans') <= Cardinality(Orphans) /\ Cardinality(Orphans') \in Nat
      BY <1>1, <2>2, FS_Subset, FS_CardinalityType
    <3> QED
      BY <1>1, <1>2, <2>1, <2>2, <3>1
  <2>3. ASSUME faults' = faults + 1, NEW j \in Ids, Orphans' \subseteq Orphans \cup {j}
        PROVE  Cardinality(Orphans') <= faults'
    <3>1. /\ IsFiniteSet(Orphans \cup {j})
          /\ Cardinality(Orphans \cup {j}) \in {Cardinality(Orphans), Cardinality(Orphans) + 1}
      BY <1>1, FS_AddElement
    <3>2. /\ Cardinality(Orphans') <= Cardinality(Orphans \cup {j})
          /\ Cardinality(Orphans') \in Nat
      BY <2>3, <3>1, FS_Subset, FS_CardinalityType
    <3> QED
      BY <1>1, <1>2, <2>1, <2>3, <3>1, <3>2
  <2> QED
    BY <2>2, <2>3 DEF OrphanEffect
<1> QED
  BY <1>3, <1>4 DEF OrphanEffect

(* What a write of run's leaves: the handler's outcome, or the stop that   *)
(* came after it, over the running row.                                    *)
LEMMA RecordEffect ==
    ASSUME IInv, NEW j \in running, outcome[j] # "none", WriteRecord(j)
    PROVE  /\ state' = [state EXCEPT ![j] = Recorded(j)]
           /\ Recorded(j) \in TerminalStates \cup {"waiting"}
           /\ Recorded(j) \in {"waiting", "done"} => outcome[j] = Recorded(j)
<1>1. j \in Ids /\ state[j] = "running"
  BY DEF IInv, TypeOK, RunningRows
<1>2. Recorded(j) \in TerminalStates \cup {"waiting"}
  BY <1>1, RecordedType DEF IInv
<1>3. Recorded(j) \in {"waiting", "done"} => outcome[j] = Recorded(j)
  BY DEF Recorded
<1> QED
  BY <1>1, <1>2, <1>3 DEF WriteRecord

(* Every step keeps an upgrade alone.                                      *)
LEMMA UpgradeStep == IInv /\ BornInv /\ UpgradeInv /\ [Next]_vars => UpgradeInv'
<1> SUFFICES ASSUME IInv /\ BornInv /\ UpgradeInv, [Next]_vars PROVE UpgradeInv'
  OBVIOUS
<1>1. ASSUME NEW n \in Workers, Pass(n)
      PROVE  UpgradeInv'
  <2>1. PICK S \in SUBSET StartSet(n) : StartAll(S)
    BY <1>1, PassStarts DEF IInv
  <2> QED
    BY <1>1, <2>1, KindAssumption DEF UpgradeInv, UpgradeIsAlone, RunningRows,
       UpgradeUnderway, BornInv, Pass, StartAll, StartSet, Startable, MayStart, IInv,
       TypeOK
<1>2. ASSUME NEW req \in Requests, Enqueue(req)
      PROVE  UpgradeInv'
  <2>1. PICK V \in SUBSET Victims(req) :
              /\ EnqueueRow(req, V)
              /\ dump' \subseteq (dump \ Parked(V)) \cup {last + 1}
              /\ faults' \in Nat /\ faults <= faults'
              /\ last + 1 \in Ids /\ last' = last + 1 /\ last \in Nat
              /\ state[last + 1] = "none" /\ last + 1 \notin running
    BY <1>2, EnqueueEffect DEF Enqueue
  <2>2. UNCHANGED <<hold, running, outcome>>
    BY <1>2 DEF Enqueue
  <2>3. blind \subseteq blind'
    BY <1>2 DEF Enqueue
  <2>4. req.kind \in UpgradeKinds /\ UpgradeLive => last + 1 \in blind'
    BY <1>2 DEF Enqueue
  <2>5. req.kind \in UpgradeKinds => All \in req.lock
    BY KindAssumption
  <2>6. /\ kind' = [kind EXCEPT ![last + 1] = req.kind]
        /\ lock' = [lock EXCEPT ![last + 1] = req.lock]
        /\ state'[last + 1] = "queued"
        /\ \A j \in Ids \ {last + 1} : state'[j] \in {state[j], "superseded"}
                                       /\ (state[j] = "none" => state'[j] = "none")
    BY <2>1 DEF EnqueueRow, Parked, Cancellable
  <2>7. DOMAIN kind = Ids /\ DOMAIN lock = Ids /\ running \subseteq Ids
        /\ outcome[last + 1] = "none"
    BY <2>1 DEF IInv, TypeOK, BornInv
  <2>8. UpgradeIsAlone'
    <3>1. ASSUME NEW i \in Ids \ blind', NEW j \in Ids \ blind',
                 kind'[i] \in UpgradeKinds, state'[i] \in {"queued", "running"},
                 kind'[j] \in UpgradeKinds, state'[j] \in {"queued", "running"}
          PROVE  i = j
      BY <3>1, <2>3, <2>4, <2>6, <2>7 DEF UpgradeInv, UpgradeIsAlone, UpgradeLive
    <3>2. hold' => \A j \in running' : kind'[j] \in UpgradeKinds
      BY <2>1, <2>2, <2>6, <2>7 DEF UpgradeInv, UpgradeIsAlone
    <3> QED
      BY <3>1, <3>2 DEF UpgradeIsAlone
  <2> QED
    BY <2>2, <2>5, <2>6, <2>7, <2>8 DEF UpgradeInv
<1>3. ASSUME NEW req \in Requests, Skip(req)
      PROVE  UpgradeInv'
  <2>1. last + 1 \in Ids /\ last' = last + 1 /\ last \in Nat /\ state[last + 1] = "none"
        /\ last + 1 \notin running
    BY <1>3, QueueAssumption DEF IInv, TypeOK, RowsInv, RunningRows, Skip, Ids
  <2> QED
    BY <1>3, <2>1, KindAssumption DEF UpgradeInv, UpgradeIsAlone, RunningRows,
       UpgradeUnderway, BornInv, Skip, IInv, TypeOK, rowVars, runVars, envVars
<1>4. ASSUME NEW j \in Ids, Cancel(j)
      PROVE  UpgradeInv'
  BY <1>4, KindAssumption DEF UpgradeInv, UpgradeIsAlone, IInv, TypeOK, RunningRows,
     Cancel, Cancellable, FirstCause, rowVars, runVars, envVars
<1>5. ASSUME NEW j \in Ids, Swap(j)
      PROVE  UpgradeInv'
  BY <1>5, KindAssumption DEF UpgradeInv, UpgradeIsAlone, IInv, TypeOK, RunningRows,
     Swap, MaySwap, Working, rowVars, runVars, envVars
<1>6. ASSUME NEW j \in Ids, NEW err \in Results, Return(j, err)
      PROVE  UpgradeInv'
  <2>1. kind[j] \in UpgradeKinds => \A i \in running : i = j
    BY <1>6 DEF Return, Working, UpgradeInv, IInv, TypeOK, MutualExclusion, Overlaps, RunningRows
  <2>2. \A i \in Ids : kind[i] \in UpgradeKinds => outcome'[i] # "waiting"
    BY <1>6 DEF Return, Outcome, Results, UpgradeInv, IInv, TypeOK
  <2>3. hold' => \A i \in running : kind[i] \in UpgradeKinds
    BY <1>6, <2>1 DEF Return, UpgradeInv, UpgradeIsAlone
  <2> QED
    BY <1>6, <2>2, <2>3 DEF Return, UpgradeInv, UpgradeIsAlone
<1>7. ASSUME NEW j \in Ids, Deadline(j)
      PROVE  UpgradeInv'
  BY <1>7, KindAssumption DEF UpgradeInv, UpgradeIsAlone, IInv, TypeOK, RunningRows,
     Deadline, CapRunsOut, rowVars, runVars, envVars
<1>8. ASSUME NEW j \in Ids, NEW req \in Children, EnqueueChild(j, req)
      PROVE  UpgradeInv'
  <2>1. PICK V \in SUBSET Victims(req) :
              /\ EnqueueRow(req, V)
              /\ dump' \subseteq (dump \ Parked(V)) \cup {last + 1}
              /\ faults' \in Nat /\ faults <= faults'
              /\ last + 1 \in Ids /\ last' = last + 1 /\ last \in Nat
              /\ state[last + 1] = "none" /\ last + 1 \notin running
    BY <1>8, EnqueueEffect DEF EnqueueChild
  <2> QED
    BY <1>8, <2>1, KindAssumption DEF UpgradeInv, UpgradeIsAlone, RunningRows,
       UpgradeUnderway, BornInv, EnqueueChild, EnqueueRow, Parked, Building,
       Cancellable, IInv, TypeOK
<1>9. ASSUME NEW j \in Ids, BeginWait(j)
      PROVE  UpgradeInv'
  BY <1>9, KindAssumption DEF UpgradeInv, UpgradeIsAlone, IInv, TypeOK, RunningRows,
     BeginWait, Working, rowVars, runVars, envVars
<1>10. ASSUME NEW j \in Ids, AwaitRead(j)
      PROVE  UpgradeInv'
  BY <1>10, KindAssumption DEF UpgradeInv, UpgradeIsAlone, IInv, TypeOK, RunningRows,
     AwaitRead, Unread, rowVars, runVars, envVars
<1>11. ASSUME NEW j \in Ids, AwaitEnds(j)
      PROVE  UpgradeInv'
  <2>1. \A i \in Ids : kind[i] \in UpgradeKinds => outcome'[i] # "waiting"
    BY <1>11 DEF AwaitEnds, AwaitResult, Outcome, UpgradeInv, IInv, TypeOK
  <2> QED
    BY <1>11, <2>1 DEF AwaitEnds, UpgradeInv, UpgradeIsAlone, rowVars, envVars
<1>12. ASSUME NEW j \in Ids, Record(j)
      PROVE  UpgradeInv'
  <2>1. state' \in {state, [state EXCEPT ![j] = Recorded(j)]}
        /\ Recorded(j) \in TerminalStates \cup {"waiting"}
        /\ (Recorded(j) = "waiting" => outcome[j] = "waiting")
    BY <1>12, RecordEffect, RecordedType DEF Record, IInv, Recorded
  <2> QED
    BY <1>12, <2>1 DEF UpgradeInv, UpgradeIsAlone, IInv, TypeOK, RunningRows, Record,
       LeaveRunning, TerminalStates
<1>13. ASSUME NEW j \in Ids, UnparkOne(j)
      PROVE  UpgradeInv'
  BY <1>13, KindAssumption DEF UpgradeInv, UpgradeIsAlone, IInv, TypeOK, RunningRows,
     UnparkOne, Requeue, rowVars, runVars, envVars
<1>14. ASSUME NEW j \in Ids, ApproveRequeue(j)
      PROVE  UpgradeInv'
  BY <1>14, KindAssumption DEF UpgradeInv, UpgradeIsAlone, IInv, TypeOK, RunningRows,
     ApproveRequeue, Requeue, Serving, rowVars, runVars, envVars
<1>15. ASSUME NEW j \in Ids, CrashInFinish(j)
      PROVE  UpgradeInv'
  <2>1. PICK s \in TerminalStates \cup {"waiting"} :
           state' = [state EXCEPT ![j] = s] /\ (s = "waiting" => outcome[j] = "waiting")
    BY <1>15, RecordEffect DEF CrashInFinish, TerminalStates
  <2>2. \A i \in Ids : state'[i] = state[i] \/ (i = j /\ state'[i] = s)
    BY <2>1 DEF IInv, TypeOK
  <2>3. UNCHANGED <<kind, lock, blind>> /\ running' = {} /\ outcome' = [i \in Ids |-> "none"]
    BY <1>15 DEF CrashInFinish, Down
  <2>4. state[j] # "none"
    BY <1>15 DEF CrashInFinish, Cancellable, IInv, RunningRows
  <2>5. UpgradeIsAlone'
    BY <2>1, <2>2, <2>3 DEF UpgradeInv, UpgradeIsAlone, TerminalStates
  <2> QED
    BY <2>1, <2>2, <2>3, <2>4, <2>5 DEF UpgradeInv
<1>16. ASSUME NEW j \in Ids, BootFail(j)
      PROVE  UpgradeInv'
  BY <1>16, KindAssumption DEF UpgradeInv, UpgradeIsAlone, IInv, TypeOK, RunningRows,
     BootFail, BootStates, rowVars, runVars, envVars
<1>17. ASSUME NEW j \in Ids, RollBackUpgrade(j)
      PROVE  UpgradeInv'
  BY <1>17, KindAssumption DEF UpgradeInv, UpgradeIsAlone, IInv, TypeOK, RunningRows,
     RollBackUpgrade, rowVars, runVars, envVars
<1>18. ASSUME UnparkList
      PROVE  UpgradeInv'
  BY <1>18, KindAssumption DEF UpgradeInv, UpgradeIsAlone, IInv, TypeOK, RunningRows,
     UnparkList, rowVars, runVars, envVars
<1>19. ASSUME HoldEnds
      PROVE  UpgradeInv'
  BY <1>19, KindAssumption DEF UpgradeInv, UpgradeIsAlone, IInv, TypeOK, RunningRows,
     HoldEnds, rowVars, runVars, envVars
<1>20. ASSUME Close
      PROVE  UpgradeInv'
  BY <1>20, KindAssumption DEF UpgradeInv, UpgradeIsAlone, IInv, TypeOK, RunningRows,
     Close, FirstCause, rowVars, runVars, envVars
<1>21. ASSUME Crash
      PROVE  UpgradeInv'
  BY <1>21, KindAssumption DEF UpgradeInv, UpgradeIsAlone, IInv, TypeOK, RunningRows,
     Crash, Down, rowVars, runVars, envVars
<1>22. ASSUME CrashInSpool
      PROVE  UpgradeInv'
  BY <1>22, KindAssumption DEF UpgradeInv, UpgradeIsAlone, IInv, TypeOK, RunningRows,
     CrashInSpool, Down, rowVars, runVars, envVars
<1>23. ASSUME Boot
      PROVE  UpgradeInv'
  BY <1>23 DEF UpgradeInv, UpgradeIsAlone, IInv, TypeOK, RunningRows, Boot, AliveInv,
     runVars
<1>24. ASSUME BootDone
      PROVE  UpgradeInv'
  BY <1>24, KindAssumption DEF UpgradeInv, UpgradeIsAlone, IInv, TypeOK, RunningRows,
     BootDone, BootReady, rowVars, runVars, envVars
<1>25. CASE UNCHANGED vars
  BY <1>25 DEF UpgradeInv, UpgradeIsAlone, IInv, TypeOK, RunningRows, vars, rowVars,
     runVars, envVars
<1> QED
  BY <1>1, <1>2, <1>3, <1>4, <1>5, <1>6, <1>7, <1>8, <1>9, <1>10, <1>11, <1>12, <1>13,
     <1>14, <1>15, <1>16, <1>17, <1>18, <1>19, <1>20, <1>21, <1>22, <1>23, <1>24, <1>25 DEF
     Next

(* What a step does to the applies: a created row keeps its kind; an apply *)
(* that works notes a redeploy it just queued; await reads a redeploy that *)
(* has settled; and an apply succeeds with no redeploys or with each read, *)
(* none as failed.                                                         *)
ApplyEffect ==
    /\ last <= last' /\ last \in Nat /\ last' \in Nat
    /\ \A c \in Ids : c <= last => kind'[c] = kind[c]
    /\ \A p \in Ids :
          \/ awaits'[p] = awaits[p]
          \/ /\ kind[p] \in AwaitKinds /\ p <= last
             /\ "done" \notin {state'[p], outcome'[p]}
             /\ \E c \in Ids : awaits'[p] = awaits[p] \cup {c} /\ c <= last' /\ kind'[c] \notin UpgradeKinds
    /\ \A c \in Ids :
          \/ seen'[c] = seen[c]
          \/ /\ seen[c] = "none" /\ seen'[c] = state[c] /\ state'[c] = state[c]
             /\ state[c] \in TerminalStates \cup {"waiting"}
             /\ \E p \in Ids : c \in awaits[p]
    /\ \A p \in Ids : "done" \in {state'[p], outcome'[p]} =>
          \/ "done" \in {state[p], outcome[p]}
          \/ \A c \in awaits[p] : seen[c] \notin {"none", "failed"}

(* Every step has such an effect.                                          *)
LEMMA ApplyEffectStep == IInv /\ BornInv /\ ApplyInv /\ [Next]_vars => ApplyEffect
<1> SUFFICES ASSUME IInv /\ BornInv /\ ApplyInv, [Next]_vars PROVE ApplyEffect
  OBVIOUS
<1>1. ASSUME NEW n \in Workers, Pass(n)
      PROVE  ApplyEffect
  <2>1. PICK S \in SUBSET StartSet(n) : StartAll(S)
    BY <1>1, PassStarts DEF IInv
  <2> QED
    BY <1>1, <2>1, KindAssumption DEF ApplyEffect, RunningRows, BornInv, ApplyInv, Pass,
       StartAll, StartSet, Startable, MayStart, IInv, TypeOK
<1>2. ASSUME NEW req \in Requests, Enqueue(req)
      PROVE  ApplyEffect
  <2>1. PICK V \in SUBSET Victims(req) :
              /\ EnqueueRow(req, V)
              /\ dump' \subseteq (dump \ Parked(V)) \cup {last + 1}
              /\ faults' \in Nat /\ faults <= faults'
              /\ last + 1 \in Ids /\ last' = last + 1 /\ last \in Nat
              /\ state[last + 1] = "none" /\ last + 1 \notin running
    BY <1>2, EnqueueEffect DEF Enqueue
  <2>2. \A p \in Ids : state'[p] = "done" => state[p] = "done"
    BY <2>1 DEF EnqueueRow
  <2>3. \A c \in Ids : c <= last => kind'[c] = kind[c]
    BY <2>1 DEF EnqueueRow, IInv, TypeOK
  <2> QED
    BY <1>2, <2>1, <2>2, <2>3 DEF ApplyEffect, Enqueue
<1>3. ASSUME NEW req \in Requests, Skip(req)
      PROVE  ApplyEffect
  <2>1. last + 1 \in Ids /\ last' = last + 1 /\ last \in Nat /\ state[last + 1] = "none"
        /\ last + 1 \notin running
    BY <1>3, QueueAssumption DEF IInv, TypeOK, RowsInv, RunningRows, Skip, Ids
  <2> QED
    BY <1>3, <2>1, KindAssumption DEF ApplyEffect, RunningRows, BornInv, ApplyInv, Skip,
       IInv, TypeOK, rowVars, runVars, envVars
<1>4. ASSUME NEW j \in Ids, Cancel(j)
      PROVE  ApplyEffect
  BY <1>4 DEF ApplyEffect, IInv, TypeOK, Cancel, Cancellable, FirstCause, rowVars,
     runVars, envVars
<1>5. ASSUME NEW j \in Ids, Swap(j)
      PROVE  ApplyEffect
  BY <1>5 DEF ApplyEffect, IInv, TypeOK, Swap, MaySwap, Working, rowVars, runVars,
     envVars
<1>6. ASSUME NEW j \in Ids, NEW err \in Results, Return(j, err)
      PROVE  ApplyEffect
  <2>1. outcome'[j] = "done" => awaits[j] = {}
    BY <1>6 DEF Return, Outcome, Results, ApplyInv, IInv, TypeOK
  <2> QED
    BY <1>6, <2>1 DEF Return, ApplyEffect, IInv, TypeOK
<1>7. ASSUME NEW j \in Ids, Deadline(j)
      PROVE  ApplyEffect
  BY <1>7 DEF ApplyEffect, IInv, TypeOK, Deadline, CapRunsOut, rowVars, runVars,
     envVars
<1>8. ASSUME NEW j \in Ids, NEW req \in Children, EnqueueChild(j, req)
      PROVE  ApplyEffect
  <2>1. PICK V \in SUBSET Victims(req) :
              /\ EnqueueRow(req, V)
              /\ dump' \subseteq (dump \ Parked(V)) \cup {last + 1}
              /\ faults' \in Nat /\ faults <= faults'
              /\ last + 1 \in Ids /\ last' = last + 1 /\ last \in Nat
              /\ state[last + 1] = "none" /\ last + 1 \notin running
    BY <1>8, EnqueueEffect DEF EnqueueChild
  <2>2. \A p \in Ids : state'[p] = "done" => state[p] = "done"
    BY <2>1 DEF EnqueueRow
  <2>3. \A c \in Ids : c <= last => kind'[c] = kind[c]
    BY <2>1 DEF EnqueueRow, IInv, TypeOK
  <2>4. kind'[last + 1] \notin UpgradeKinds
    BY <2>1, KindAssumption DEF EnqueueRow, IInv, TypeOK
  <2>5. j <= last
    BY <1>8, <2>1, QueueAssumption DEF EnqueueChild, Working, IInv, TypeOK, RowsInv,
       RunningRows, Ids
  <2>6. "done" \notin {state'[j], outcome'[j]}
    BY <1>8, <2>2 DEF EnqueueChild, Working, IInv, TypeOK, RunningRows
  <2>7. awaits' \in {awaits, [awaits EXCEPT ![j] = awaits[j] \cup {last + 1}]}
    BY <1>8 DEF EnqueueChild, IInv, TypeOK
  <2> QED
    BY <1>8, <2>1, <2>2, <2>3, <2>4, <2>5, <2>6, <2>7 DEF ApplyEffect, EnqueueChild, IInv, TypeOK
<1>9. ASSUME NEW j \in Ids, BeginWait(j)
      PROVE  ApplyEffect
  BY <1>9 DEF ApplyEffect, IInv, TypeOK, BeginWait, Working, rowVars, runVars, envVars
<1>10. ASSUME NEW j \in Ids, AwaitRead(j)
      PROVE  ApplyEffect
  <2>1. PICK c \in Unread(j) : seen' = [seen EXCEPT ![c] = state[c]] /\ state[c] \notin {"queued", "running"}
    BY <1>10 DEF AwaitRead
  <2>2. c \in Ids /\ c \in awaits[j] /\ seen[c] = "none"
    BY <2>1 DEF Unread, IInv, TypeOK
  <2>3. state[c] \in TerminalStates \cup {"waiting"}
    BY <2>1, <2>2 DEF ApplyInv, BornInv, IInv, TypeOK, States, LiveStates
  <2> QED
    BY <1>10, <2>1, <2>2, <2>3 DEF AwaitRead, ApplyEffect, IInv, TypeOK, rowVars, envVars
<1>11. ASSUME NEW j \in Ids, AwaitEnds(j)
      PROVE  ApplyEffect
  <2>1. outcome'[j] = "done" => \A c \in awaits[j] : seen[c] \notin {"none", "failed"}
    BY <1>11 DEF AwaitEnds, AwaitResult, Unread, Outcome, IInv, TypeOK
  <2> QED
    BY <1>11, <2>1 DEF AwaitEnds, ApplyEffect, IInv, TypeOK, rowVars, envVars
<1>12. ASSUME NEW j \in Ids, Record(j)
      PROVE  ApplyEffect
  <2>1. state' \in {state, [state EXCEPT ![j] = Recorded(j)]}
        /\ Recorded(j) \in TerminalStates \cup {"waiting"}
        /\ (Recorded(j) = "done" => outcome[j] = "done")
    BY <1>12, RecordEffect, RecordedType DEF Record, IInv, Recorded
  <2> QED
    BY <1>12, <2>1 DEF ApplyEffect, IInv, TypeOK, Record, LeaveRunning
<1>13. ASSUME NEW j \in Ids, UnparkOne(j)
      PROVE  ApplyEffect
  BY <1>13 DEF ApplyEffect, IInv, TypeOK, UnparkOne, Requeue, rowVars, runVars,
     envVars
<1>14. ASSUME NEW j \in Ids, ApproveRequeue(j)
      PROVE  ApplyEffect
  BY <1>14 DEF ApplyEffect, IInv, TypeOK, ApproveRequeue, Requeue, Serving, rowVars,
     runVars, envVars
<1>15. ASSUME NEW j \in Ids, CrashInFinish(j)
      PROVE  ApplyEffect
  <2>1. PICK s \in TerminalStates \cup {"waiting"} :
           state' = [state EXCEPT ![j] = s] /\ (s = "done" => outcome[j] = "done")
    BY <1>15, RecordEffect DEF CrashInFinish, TerminalStates
  <2> QED
    BY <1>15, <2>1 DEF ApplyEffect, IInv, TypeOK, CrashInFinish, Down
<1>16. ASSUME NEW j \in Ids, BootFail(j)
      PROVE  ApplyEffect
  <2>1. kind[j] \in UpgradeKinds => awaits[j] = {}
    BY KindAssumption DEF ApplyInv
  <2> QED
    BY <1>16, <2>1 DEF BootFail, BootStates, ApplyEffect, IInv, TypeOK, runVars, envVars
<1>17. ASSUME NEW j \in Ids, RollBackUpgrade(j)
      PROVE  ApplyEffect
  BY <1>17 DEF ApplyEffect, IInv, TypeOK, RollBackUpgrade, rowVars, runVars, envVars
<1>18. ASSUME UnparkList
      PROVE  ApplyEffect
  BY <1>18 DEF ApplyEffect, IInv, TypeOK, UnparkList, rowVars, runVars, envVars
<1>19. ASSUME HoldEnds
      PROVE  ApplyEffect
  BY <1>19 DEF ApplyEffect, IInv, TypeOK, HoldEnds, rowVars, runVars, envVars
<1>20. ASSUME Close
      PROVE  ApplyEffect
  BY <1>20 DEF ApplyEffect, IInv, TypeOK, Close, FirstCause, rowVars, runVars, envVars
<1>21. ASSUME Crash
      PROVE  ApplyEffect
  BY <1>21 DEF ApplyEffect, IInv, TypeOK, Crash, Down, rowVars, runVars, envVars
<1>22. ASSUME CrashInSpool
      PROVE  ApplyEffect
  BY <1>22 DEF ApplyEffect, IInv, TypeOK, CrashInSpool, Down, rowVars, runVars,
     envVars
<1>23. ASSUME Boot
      PROVE  ApplyEffect
  BY <1>23 DEF ApplyEffect, IInv, TypeOK, Boot, Swept, rowVars, runVars, envVars
<1>24. ASSUME BootDone
      PROVE  ApplyEffect
  BY <1>24 DEF ApplyEffect, IInv, TypeOK, BootDone, BootReady, rowVars, runVars,
     envVars
<1>25. CASE UNCHANGED vars
  BY <1>25 DEF ApplyEffect, IInv, TypeOK, vars, rowVars, runVars, envVars
<1> QED
  BY <1>1, <1>2, <1>3, <1>4, <1>5, <1>6, <1>7, <1>8, <1>9, <1>10, <1>11, <1>12, <1>13,
     <1>14, <1>15, <1>16, <1>17, <1>18, <1>19, <1>20, <1>21, <1>22, <1>23, <1>24, <1>25 DEF
     Next

(* A step of that effect keeps what was read of a redeploy true and a      *)
(* successful apply without a failed one.                                  *)
LEMMA ApplyStep == IInv /\ ApplyInv /\ ApplyEffect /\ Fin /\ IInv' => ApplyInv'
<1> SUFFICES ASSUME IInv, ApplyInv, ApplyEffect, Fin, IInv' PROVE ApplyInv'
  OBVIOUS
<1>1. /\ last \in Nat /\ last' \in Nat /\ last <= last' /\ Ids \subseteq Nat
      /\ awaits \in [Ids -> SUBSET Ids] /\ awaits' \in [Ids -> SUBSET Ids]
  BY QueueAssumption DEF ApplyEffect, IInv, TypeOK, Ids
<1>2. \A c \in Ids : c <= last => kind'[c] = kind[c] /\ c <= last'
  BY <1>1 DEF ApplyEffect
<1>3. ASSUME NEW p \in Ids
      PROVE  /\ awaits'[p] # {} => kind'[p] \in AwaitKinds /\ p <= last'
             /\ \A c \in awaits'[p] : c <= last' /\ kind'[c] \notin UpgradeKinds
  <2>1. CASE awaits'[p] = awaits[p]
    BY <1>1, <1>2, <2>1 DEF ApplyInv
  <2>2. ASSUME kind[p] \in AwaitKinds, p <= last, NEW c \in Ids,
               awaits'[p] = awaits[p] \cup {c}, c <= last', kind'[c] \notin UpgradeKinds
        PROVE  /\ kind'[p] \in AwaitKinds /\ p <= last'
               /\ \A d \in awaits'[p] : d <= last' /\ kind'[d] \notin UpgradeKinds
    BY <1>1, <1>2, <2>2 DEF ApplyInv
  <2> QED
    BY <2>1, <2>2 DEF ApplyEffect
<1>4. ASSUME NEW p \in Ids, "done" \in {state'[p], outcome'[p]}
      PROVE  \A c \in awaits'[p] : seen'[c] \notin {"none", "failed"}
  <2>1. awaits'[p] = awaits[p]
    BY <1>4 DEF ApplyEffect
  <2>2. \A c \in awaits[p] : seen[c] \notin {"none", "failed"}
    BY <1>4 DEF ApplyInv, ApplyEffect
  <2>3. \A c \in awaits[p] : seen'[c] = seen[c]
    BY <1>1, <2>2 DEF ApplyEffect
  <2> QED
    BY <2>1, <2>2, <2>3
<1>5. ASSUME NEW c \in Ids, seen'[c] # "none"
      PROVE  /\ c <= last'
             /\ kind'[c] \notin UpgradeKinds
             /\ seen'[c] # "waiting" => seen'[c] \in TerminalStates /\ state'[c] = seen'[c]
  <2>1. CASE seen'[c] = seen[c]
    BY <1>2, <1>5, <2>1 DEF ApplyInv, Fin
  <2>2. CASE seen'[c] # seen[c]
    BY <1>2, <1>5, <2>2 DEF ApplyInv, ApplyEffect
  <2> QED
    BY <2>1, <2>2
<1> QED
  BY <1>3, <1>4, <1>5 DEF ApplyInv

(* The first state satisfies the second invariant.                         *)
LEMMA LifeInit == Init => LifeInv
<1> SUFFICES ASSUME Init PROVE LifeInv
  OBVIOUS
<1>1. BornInv
  BY DEF Init, BornInv, Ids
<1>2. DumpInv /\ UpgradeInv /\ ApplyInv
  BY DEF Init, DumpInv, UpgradeInv, UpgradeIsAlone, ApplyInv
<1>3. OrphanRows
  <2>1. {j \in Ids : state[j] = "running" /\ j \notin running} = {}
    BY DEF Init
  <2> QED
    BY <2>1, FS_EmptySet DEF Init, OrphanRows
<1> QED
  BY <1>1, <1>2, <1>3 DEF LifeInv

(* Every step keeps it.                                                    *)
LEMMA LifeStep == IInv /\ LifeInv /\ [Next]_vars => LifeInv'
<1> SUFFICES ASSUME IInv, LifeInv, [Next]_vars PROVE LifeInv'
  OBVIOUS
<1>1. BornInv /\ DumpInv /\ OrphanRows /\ UpgradeInv /\ ApplyInv
  BY DEF LifeInv
<1>2. BornInv' /\ DumpInv' /\ UpgradeInv'
  BY <1>1, BornStep, DumpStep, UpgradeStep
<1>3. OrphanRows'
  BY <1>1, OrphanStep, OrphansCounted
<1>4. ApplyInv'
  BY <1>1, ApplyEffectStep, ApplyStep, FinStep, InvariantStep
<1> QED
  BY <1>2, <1>3, <1>4 DEF LifeInv

(* Both invariants hold of every state of every behaviour.                 *)
THEOREM QueueInvariant == Spec => [](IInv /\ LifeInv)
<1>1. Init => IInv /\ LifeInv
  BY InvariantInit, LifeInit
<1>2. IInv /\ LifeInv /\ [Next]_vars => (IInv /\ LifeInv)'
  BY InvariantStep, LifeStep
<1> QED
  BY <1>1, <1>2, PTL DEF Spec

(* While the panel serves, every spooled dump belongs to a live seed job:  *)
(* Finish, the end hook, runSeed and the sweep at boot leave none behind,  *)
(* whichever of them a crash or a failed write cut off.                    *)
THEOREM DumpsAreReleased == Spec => []DumpReleased
<1>1. IInv /\ LifeInv => DumpReleased
  BY DEF LifeInv, DumpInv, DumpReleased, Serving
<1> QED
  BY <1>1, QueueInvariant, PTL

(* A running row no handler works on is one whose last write failed, and   *)
(* boot leaves none of an earlier process.                                 *)
THEOREM OrphansAreCounted == Spec => []OrphanRows
<1>1. LifeInv => OrphanRows
  BY DEF LifeInv
<1> QED
  BY <1>1, QueueInvariant, PTL

(* However often Update is pressed, whatever fails and whenever the panel  *)
(* dies: of the upgrades the check let through one at most is queued or    *)
(* running, those let through beside another by a failing read left out;   *)
(* and beside a running helper no other job's handler is, failing reads or *)
(* not.                                                                    *)
THEOREM UpgradesAreAlone == Spec => []UpgradeIsAlone
<1>1. LifeInv => UpgradeIsAlone
  BY DEF LifeInv, UpgradeInv
<1> QED
  BY <1>1, QueueInvariant, PTL

(* An apply that reads done has no failed redeploy among those it noted,   *)
(* except one that was parked when await looked at it.                     *)
THEOREM AppliesSeeFailures == Spec => []ApplyOverFailed
<1>1. ASSUME IInv, LifeInv, NEW p \in Ids, state[p] = "done", NEW c \in awaits[p],
             state[c] = "failed"
      PROVE  seen[c] = "waiting"
  <2>1. c \in Ids /\ seen[c] \notin {"none", "failed"}
    BY <1>1 DEF LifeInv, ApplyInv, IInv, TypeOK
  <2> QED
    BY <1>1, <2>1 DEF LifeInv, ApplyInv
<1>2. IInv /\ LifeInv => ApplyOverFailed
  BY <1>1 DEF ApplyOverFailed
<1> QED
  BY <1>2, QueueInvariant, PTL

=============================================================================
