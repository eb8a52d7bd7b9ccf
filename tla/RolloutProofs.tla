---------------------------- MODULE RolloutProofs ----------------------------
(***************************************************************************)
(* Proofs about Rollout, for every bound and every set of modes, replica   *)
(* counts and verbs.                                                       *)
(***************************************************************************)
EXTENDS Rollout, TLAPS

(***************************************************************************)
(* Types                                                                   *)
(***************************************************************************)

(* A failed Docker call stays within the budget of faults.                 *)
LEMMA FaultType ==
    ASSUME TypeOK, Fault
    PROVE  faults' \in 0..MaxFaults
  BY RolloutAssumption DEF TypeOK, Fault

(* A call on the job's context keeps the types of what it may change.      *)
LEMMA CallType ==
    ASSUME TypeOK, Done \/ NotDone \/ DoneUnheard
    PROVE  faults' \in 0..MaxFaults /\ dead' \in BOOLEAN
<1>1. faults' \in 0..MaxFaults
  BY FaultType DEF TypeOK, Done, NotDone, DoneUnheard
<1>2. dead' \in BOOLEAN
  BY Zenon DEF TypeOK, Done, NotDone, DoneUnheard
<1> QED
  BY <1>1, <1>2

(* A container changes to a state of Docker's.                             *)
LEMMA SetType ==
    ASSUME TypeOK, NEW c \in Ids, NEW s \in ContainerStates, Set(c, s)
    PROVE  cont' \in [Ids -> ContainerStates]
  BY DEF TypeOK, Set

(* A StopRemove whose error is ignored keeps the types.                    *)
LEMMA DropType ==
    ASSUME TypeOK, NEW c \in Ids, Drop(c)
    PROVE  cont' \in [Ids -> ContainerStates] /\ faults' \in 0..MaxFaults
<1>1. faults' \in 0..MaxFaults
  BY FaultType DEF TypeOK, Drop
<1>2. cont' \in [Ids -> ContainerStates]
  BY SetType DEF TypeOK, Drop, ContainerStates
<1> QED
  BY <1>1, <1>2

(* The replica at hand is a container.                                     *)
LEMMA CurIsId ==
    ASSUME TypeOK, cur # 0
    PROVE  cur \in Ids
  BY RolloutAssumption DEF TypeOK, Ids

(* Every step keeps the types.                                             *)
LEMMA TypeStep ==
    ASSUME TypeOK, [Next]_vars
    PROVE  TypeOK'
<1> USE DEF TypeOK, dockVars, vipVars, jobVars, budgets
<1> DEFINE ResultType == result' \in {"none", "ok", "failed", "crashed", "verb"}
<1>1. ASSUME NEW m \in Modes, NEW n \in (IF m = "overlap" THEN Replicas ELSE {1}), Begin(m,
             n)
      PROVE  TypeOK'
  <2>1. want' \in Nat
    BY <1>1, RolloutAssumption DEF Begin
  <2>2. served' \in BOOLEAN /\ dead' \in BOOLEAN
    BY <1>1, Zenon DEF Begin
  <2>3. old' \subseteq Ids /\ oldUp' \subseteq Ids
    BY <1>1 DEF Begin, Listed, Up, Exists
  <2>4. cur' \in 0..made'
    BY <1>1 DEF Begin
  <2> QED
    BY <1>1, <2>1, <2>2, <2>3, <2>4 DEF Begin, Pcs
<1>2. CASE StartReplica
  <2>1. made + 1 \in Ids /\ made' \in 0..MaxMade /\ cur' \in 0..made'
        /\ (pc' = "gate" => cur' # 0)
    BY <1>2, RolloutAssumption DEF StartReplica, Ids
  <2>2. faults' \in 0..MaxFaults /\ dead' \in BOOLEAN
    BY <1>2, CallType DEF StartReplica
  <2>3. cont' \in [Ids -> ContainerStates]
    BY <1>2, <2>1, SetType DEF StartReplica, ContainerStates
  <2>4. pc' \in {"gate", "undo"} /\ todo' \subseteq Ids
    BY <1>2 DEF StartReplica
  <2> QED
    BY <1>2, <2>1, <2>2, <2>3, <2>4 DEF StartReplica, Pcs
<1>3. CASE Gate
  <2>1. cur \in Ids
    BY <1>3, CurIsId DEF Gate
  <2>2. faults' \in 0..MaxFaults /\ dead' \in BOOLEAN
    BY <1>3, <2>1, CallType, DropType DEF Gate
  <2>3. cont' \in [Ids -> ContainerStates]
    BY <1>3, <2>1, DropType DEF Gate
  <2>4. pc' \in {"start", "route", "undo"} /\ todo' \subseteq Ids
    BY <1>3 DEF Gate
  <2>5. gated' \subseteq Ids /\ new' \subseteq Ids
    BY <1>3, <2>1 DEF Gate
  <2> QED
    BY <1>3, <2>2, <2>3, <2>4, <2>5 DEF Gate, Pcs
<1>4. CASE UndoEnds
  BY <1>4 DEF UndoEnds, End, Pcs
<1>5. CASE Route
  <2>1. faults' \in 0..MaxFaults /\ dead' \in BOOLEAN
    BY <1>5, CallType DEF Route
  <2>2. vip' \subseteq Ids
    BY <1>5 DEF Route, Up
  <2>3. \/ End("ok") \/ End("failed")
        \/ Goto("remove") /\ todo' = old /\ UNCHANGED <<cur, stopped>>
    BY <1>5 DEF Route, AfterFirstRoute
  <2>4. pc' \in {"idle", "remove"} /\ ResultType /\ want' \in Nat /\ old' \subseteq Ids
        /\ todo' \subseteq Ids /\ cur' \in 0..made /\ stopped' \subseteq oldUp
    BY <2>3 DEF End, Goto
  <2> QED
    BY <1>5, <2>1, <2>2, <2>4 DEF Route, Pcs
<1>6. CASE RemoveEnds
  BY <1>6 DEF RemoveEnds, Pcs
<1>7. CASE Create
  <2>1. made + 1 \in Ids /\ made' \in 0..MaxMade /\ cur' \in 0..made'
        /\ (pc' = "stop" => cur' # 0)
    BY <1>7, RolloutAssumption DEF Create, Ids, End
  <2>2. faults' \in 0..MaxFaults /\ dead' \in BOOLEAN
    BY <1>7, CallType DEF Create
  <2>3. cont' \in [Ids -> ContainerStates]
    BY <1>7, <2>1, SetType DEF Create, ContainerStates
  <2>4. pc' \in {"stop", "idle"} /\ ResultType /\ want' \in Nat /\ old' \subseteq Ids
        /\ todo' \subseteq Ids /\ stopped' \subseteq oldUp
        /\ (pc' = "stop" => todo' \subseteq oldUp)
    BY <1>7 DEF Create, End, Goto, ToStop
  <2>5. data' \subseteq Ids
    BY <1>7, <2>1 DEF Create
  <2> QED
    BY <1>7, <2>1, <2>2, <2>3, <2>4, <2>5 DEF Create, Pcs
<1>8. CASE Launch
  <2>1. cur \in Ids
    BY <1>8, CurIsId DEF Launch
  <2>2. faults' \in 0..MaxFaults /\ dead' \in BOOLEAN
    BY <1>8, <2>1, CallType, DropType DEF Launch
  <2>3. cont' \in [Ids -> ContainerStates]
    BY <1>8, <2>1, DropType, SetType DEF Launch, ContainerStates
  <2>4. cur' \in 0..made' /\ (pc' = "launched" => cur' # 0)
    BY <1>8 DEF Launch
  <2> QED
    BY <1>8, <2>2, <2>3, <2>4 DEF Launch, Pcs
<1>9. CASE LaunchGate
  <2>1. cur \in Ids
    BY <1>9, CurIsId DEF LaunchGate
  <2>2. faults' \in 0..MaxFaults /\ dead' \in BOOLEAN
    BY <1>9, <2>1, CallType, DropType DEF LaunchGate
  <2>3. cont' \in [Ids -> ContainerStates]
    BY <1>9, <2>1, DropType DEF LaunchGate
  <2>4. gated' \subseteq Ids /\ new' \subseteq Ids
    BY <1>9, <2>1 DEF LaunchGate
  <2>5. cur' \in 0..made'
    BY <1>9 DEF LaunchGate
  <2> QED
    BY <1>9, <2>2, <2>3, <2>4, <2>5 DEF LaunchGate, Pcs
<1>10. CASE ReviveDrop
  <2>1. cont' \in [Ids -> ContainerStates] /\ faults' \in 0..MaxFaults
    BY <1>10, CurIsId, DropType DEF ReviveDrop
  <2> QED
    BY <1>10, <2>1 DEF ReviveDrop, Pcs
<1>11. CASE ReviveRoute
  <2>1. faults' \in 0..MaxFaults /\ vip' \subseteq Ids
    BY <1>11, FaultType DEF ReviveRoute, Up
  <2> QED
    BY <1>11, <2>1 DEF ReviveRoute, End, Pcs
<1>12. ASSUME NEW v \in Verbs, BeginVerb(v)
       PROVE  TypeOK'
  <2>1. pc' \in Pcs /\ pc' \notin {"gate", "stop", "launched"}
    BY <1>12, RolloutAssumption DEF BeginVerb, Pcs
  <2>2. todo' \subseteq Ids
    BY <1>12 DEF BeginVerb, Exists
  <2> QED
    BY <1>12, <2>1, <2>2 DEF BeginVerb
<1>13. CASE VerbEnds
  BY <1>13 DEF VerbEnds, End, Pcs
<1>14. CASE TickRead
  BY <1>14 DEF TickRead, RowsRunning, Up
<1>15. CASE TickSet
  BY <1>15, FaultType DEF TickSet
<1>16. CASE ContextDies
  BY <1>16 DEF ContextDies
<1>17. CASE PanelDies
  <2>1. crashes' \in 0..MaxCrashes
    BY <1>17, RolloutAssumption DEF PanelDies
  <2>2. pc' = "idle" /\ ResultType /\ want' \in Nat /\ old' \subseteq Ids
        /\ todo' \subseteq Ids /\ cur' \in 0..made /\ stopped' \subseteq oldUp
    BY <1>17 DEF PanelDies, End
  <2> QED
    BY <1>17, <2>1, <2>2 DEF PanelDies, Pcs
<1>18. ASSUME NEW c \in Ids, Undo(c)
       PROVE  TypeOK'
  BY <1>18, DropType DEF Undo
<1>19. ASSUME NEW c \in Ids, RemoveOld(c)
       PROVE  TypeOK'
  <2>1. faults' \in 0..MaxFaults /\ dead' \in BOOLEAN
    BY <1>19, CallType DEF RemoveOld
  <2>2. cont' \in [Ids -> ContainerStates]
    BY <1>19, SetType DEF RemoveOld, ContainerStates
  <2>3. pc' \in {"idle", "remove"} /\ ResultType /\ want' \in Nat /\ old' \subseteq Ids
        /\ todo' \subseteq Ids /\ cur' \in 0..made /\ stopped' \subseteq oldUp
    BY <1>19 DEF RemoveOld, End, Goto
  <2> QED
    BY <1>19, <2>1, <2>2, <2>3 DEF RemoveOld, Pcs
<1>20. ASSUME NEW c \in Ids, StopOld(c)
       PROVE  TypeOK'
  <2>1. faults' \in 0..MaxFaults /\ dead' \in BOOLEAN
    BY <1>20, CallType DEF StopOld
  <2>2. cont' \in [Ids -> ContainerStates]
    BY <1>20, SetType DEF StopOld, ContainerStates
  <2>3. stopped' \subseteq oldUp /\ todo' \subseteq oldUp
    BY <1>20 DEF StopOld
  <2> QED
    BY <1>20, <2>1, <2>2, <2>3 DEF StopOld, Pcs
<1>21. ASSUME NEW c \in Ids, Revive(c)
       PROVE  TypeOK'
  <2>1. faults' \in 0..MaxFaults /\ cont' \in [Ids -> ContainerStates]
    BY <1>21, FaultType, SetType DEF Revive, ReviveStart, ContainerStates
  <2> QED
    BY <1>21, <2>1 DEF Revive
<1>22. ASSUME NEW c \in Ids, Verb(c)
       PROVE  TypeOK'
  <2>1. faults' \in 0..MaxFaults /\ dead' \in BOOLEAN
    BY <1>22, CallType DEF Verb
  <2>2. cont' \in [Ids -> ContainerStates]
    BY <1>22, SetType DEF Verb, Verbed, ContainerStates
  <2> QED
    BY <1>22, <2>1, <2>2 DEF Verb
<1>23. ASSUME NEW c \in Ids, ContainerDies(c)
       PROVE  TypeOK'
  <2>1. deaths' \in 0..MaxDeaths
    BY <1>23, RolloutAssumption DEF ContainerDies
  <2>2. cont' \in [Ids -> ContainerStates]
    BY <1>23, SetType DEF ContainerDies, ContainerStates
  <2> QED
    BY <1>23, <2>1, <2>2 DEF ContainerDies
<1>24. ASSUME NEW c \in Ids, ContainerRestarts(c)
       PROVE  TypeOK'
  BY <1>24, SetType DEF ContainerRestarts, ContainerStates
<1>25. CASE UNCHANGED vars
  BY <1>25 DEF vars
<1> QED
  BY <1>1, <1>2, <1>3, <1>4, <1>5, <1>6, <1>7, <1>8, <1>9, <1>10, <1>11,
     <1>12, <1>13, <1>14, <1>15, <1>16, <1>17, <1>18, <1>19, <1>20, <1>21,
     <1>22, <1>23, <1>24, <1>25 DEF Next

(* At the start, no tile job has run and there is no container.            *)
LEMMA TypeInit ==
    ASSUME Init
    PROVE  TypeOK
<1>1. dead \in BOOLEAN /\ served \in BOOLEAN
  BY Zenon DEF Init
<1>2. cont \in [Ids -> ContainerStates]
  BY DEF Init, ContainerStates
<1>3. /\ made \in 0..MaxMade
      /\ faults \in 0..MaxFaults
      /\ crashes \in 0..MaxCrashes
      /\ deaths \in 0..MaxDeaths
      /\ cur \in 0..made
  BY RolloutAssumption DEF Init
<1> QED
  BY <1>1, <1>2, <1>3 DEF Init, TypeOK, Pcs

(* The state of a tile, of its VIP and of the job on it keeps its types:   *)
(* in particular the replica that is gated, launched or about to be        *)
(* launched exists, and only replicas that ran when the rollout listed     *)
(* them are stopped and revived.                                           *)
THEOREM TypeCorrect == Spec => []TypeOK
<1>1. Init => TypeOK
  BY TypeInit
<1>2. TypeOK /\ [Next]_vars => TypeOK'
  BY TypeStep
<1> QED
  BY <1>1, <1>2, PTL DEF Spec

(***************************************************************************)
(* Ages and loops                                                          *)
(***************************************************************************)

(* Every step keeps the numbering: a new container takes the next id.      *)
LEMMA AgeStep ==
    ASSUME TypeOK, AgeInv, LoopInv, [Next]_vars
    PROVE  AgeInv'
<1> USE RolloutAssumption DEF TypeOK, AgeInv, LoopInv, ContainerStates, Ids, Up, Exists,
   Verbing, Overlapping, Stopping, Finishing, dockVars, vipVars, jobVars, budgets
<1>1. ASSUME NEW m \in Modes, NEW n \in (IF m = "overlap" THEN Replicas ELSE {1}), Begin(m,
             n)
      PROVE  AgeInv'
  BY <1>1 DEF Begin, Listed
<1>2. CASE StartReplica
  BY <1>2 DEF StartReplica, Done, DoneUnheard, Fault, Set
<1>3. CASE Gate
  BY <1>3 DEF Gate, Done, PassesGate, Drop, Set, Fault
<1>4. CASE UndoEnds
  BY <1>4 DEF UndoEnds, End
<1>5. CASE Route
  BY <1>5 DEF Route, LockFree, Done, AfterFirstRoute, End, Goto, NotDone, DoneUnheard, Fault
<1>6. CASE RemoveEnds
  BY <1>6 DEF RemoveEnds
<1>7. CASE Create
  <2>1. made' \in {made, made + 1} /\ data' \subseteq data \cup {made'}
        /\ data' \subseteq Ids
    BY <1>7 DEF Create, Ids
  <2>2. data' \subseteq 1..made'
    BY <2>1 DEF Ids
  <2>3. \A c \in Ids : c > made' => cont'[c] = "none"
    BY <1>7, <2>1 DEF Create, Set, Ids
  <2> QED
    BY <2>2, <2>3
<1>8. CASE Launch
  BY <1>8 DEF Launch, Done, Set, Drop, Fault
<1>9. CASE LaunchGate
  BY <1>9 DEF LaunchGate, Done, PassesGate, Drop, Set, Fault
<1>10. CASE ReviveDrop
  BY <1>10 DEF ReviveDrop, Drop, Set, Fault
<1>11. CASE ReviveRoute
  BY <1>11 DEF ReviveRoute, LockFree, End, Fault
<1>12. ASSUME NEW v \in Verbs, BeginVerb(v)
      PROVE  AgeInv'
  BY <1>12 DEF BeginVerb
<1>13. CASE VerbEnds
  BY <1>13 DEF VerbEnds, End
<1>14. CASE TickRead
  BY <1>14 DEF TickRead, RowsRunning
<1>15. CASE TickSet
  BY <1>15 DEF TickSet, Fault
<1>16. CASE ContextDies
  BY <1>16 DEF ContextDies
<1>17. CASE PanelDies
  BY <1>17 DEF PanelDies, End
<1>18. ASSUME NEW c \in Ids, Undo(c)
      PROVE  AgeInv'
  BY <1>18 DEF Undo, Drop, Set, Fault
<1>19. ASSUME NEW c \in Ids, RemoveOld(c)
      PROVE  AgeInv'
  BY <1>19 DEF RemoveOld, Done, Set, Goto, End, NotDone, DoneUnheard, Fault
<1>20. ASSUME NEW c \in Ids, StopOld(c)
      PROVE  AgeInv'
  <2>1. c \in 1..made
    BY <1>20 DEF StopOld
  <2> QED
    BY <1>20, <2>1 DEF StopOld, Set
<1>21. ASSUME NEW c \in Ids, Revive(c)
      PROVE  AgeInv'
  <2>1. c \in 1..made
    BY <1>21 DEF Revive
  <2> QED
    BY <1>21, <2>1 DEF Revive, ReviveStart, Set
<1>22. ASSUME NEW c \in Ids, Verb(c)
      PROVE  AgeInv'
  <2>1. c \in 1..made
    BY <1>22 DEF Verb
  <2> QED
    BY <1>22, <2>1 DEF Verb, Set
<1>23. ASSUME NEW c \in Ids, ContainerDies(c)
      PROVE  AgeInv'
  BY <1>23 DEF ContainerDies, Set
<1>24. ASSUME NEW c \in Ids, ContainerRestarts(c)
      PROVE  AgeInv'
  BY <1>24 DEF ContainerRestarts, Set
<1>25. CASE UNCHANGED vars
  BY <1>25 DEF vars
<1> QED
  BY <1>1, <1>2, <1>3, <1>4, <1>5, <1>6, <1>7, <1>8, <1>9, <1>10, <1>11,
     <1>12, <1>13, <1>14, <1>15, <1>16, <1>17, <1>18, <1>19, <1>20, <1>21,
     <1>22, <1>23, <1>24, <1>25 DEF Next

(* Every step of a rollout keeps its loops on their sets.                  *)
LEMMA LoopStep ==
    ASSUME TypeOK, AgeInv, LoopInv, [Next]_vars
    PROVE  LoopInv'
<1> USE RolloutAssumption DEF LoopInv, Verbing, Overlapping, Stopping, Finishing,
   dockVars, vipVars, jobVars, budgets
<1>1. ASSUME NEW m \in Modes, NEW n \in (IF m = "overlap" THEN Replicas ELSE {1}), Begin(m,
             n)
      PROVE  LoopInv'
  <2>1. Exists \subseteq 1..made
    BY RolloutAssumption DEF TypeOK, AgeInv, Exists, Ids
  <2>2. Up \subseteq Exists
    BY DEF Up, Exists
  <2>3. m = "overlap" \/ m = "stopFirst"
    BY RolloutAssumption
  <2>4. 0 \notin 1..made
    BY DEF TypeOK
  <2> QED
    BY <1>1, <2>1, <2>2, <2>3, <2>4 DEF Begin, Listed
<1>2. CASE StartReplica
  <2>1. made' \in {made, made + 1} /\ made + 1 \notin old /\ 1..made \subseteq 1..made'
    BY <1>2 DEF StartReplica, TypeOK
  <2>2. cur' \notin old
    BY <1>2, <2>1 DEF StartReplica
  <2>3. old' = old /\ oldUp' = oldUp /\ new' = new /\ mode' = mode
        /\ ((pc' = "undo" /\ todo' = new) \/ pc' = "gate")
    BY <1>2 DEF StartReplica
  <2> QED
    BY <1>2, <2>1, <2>2, <2>3 DEF StartReplica
<1>3. CASE Gate
  BY <1>3 DEF Gate, Done, PassesGate, Drop, Set, Fault
<1>4. CASE UndoEnds
  BY <1>4 DEF UndoEnds, End
<1>5. CASE Route
  BY <1>5 DEF Route, LockFree, Done, AfterFirstRoute, End, Goto, NotDone, DoneUnheard, Fault
<1>6. CASE RemoveEnds
  BY <1>6 DEF RemoveEnds
<1>7. CASE Create
  <2>1. made' \in {made, made + 1} /\ made + 1 \notin old /\ 1..made \subseteq 1..made'
    BY <1>7 DEF Create, TypeOK
  <2>2. CASE pc' = "stop"
    BY <1>7, <2>1, <2>2 DEF Create, Goto, End
  <2>3. CASE pc' = "idle"
    BY <1>7, <2>3 DEF Create
  <2> QED
    BY <1>7, <2>2, <2>3 DEF Create, Goto, End
<1>8. CASE Launch
  BY <1>8 DEF Launch, Done, Set, Drop, Fault
<1>9. CASE LaunchGate
  BY <1>9 DEF LaunchGate, Done, PassesGate, Drop, Set, Fault
<1>10. CASE ReviveDrop
  BY <1>10 DEF ReviveDrop, Drop, Set, Fault
<1>11. CASE ReviveRoute
  BY <1>11 DEF ReviveRoute, LockFree, End, Fault
<1>12. ASSUME NEW v \in Verbs, BeginVerb(v)
      PROVE  LoopInv'
  <2>1. Exists \subseteq 1..made
    BY RolloutAssumption DEF TypeOK, AgeInv, Exists, Ids
  <2> QED
    BY <1>12, <2>1 DEF BeginVerb
<1>13. CASE VerbEnds
  BY <1>13 DEF VerbEnds, End
<1>14. CASE TickRead
  BY <1>14 DEF TickRead, RowsRunning
<1>15. CASE TickSet
  BY <1>15 DEF TickSet, Fault
<1>16. CASE ContextDies
  BY <1>16 DEF ContextDies
<1>17. CASE PanelDies
  BY <1>17 DEF PanelDies, End
<1>18. ASSUME NEW c \in Ids, Undo(c)
      PROVE  LoopInv'
  BY <1>18 DEF Undo, Drop, Set, Fault
<1>19. ASSUME NEW c \in Ids, RemoveOld(c)
      PROVE  LoopInv'
  BY <1>19 DEF RemoveOld, Done, Set, Goto, End, NotDone, DoneUnheard, Fault
<1>20. ASSUME NEW c \in Ids, StopOld(c)
      PROVE  LoopInv'
  BY <1>20 DEF StopOld, Done, Set, NotDone, DoneUnheard, Fault
<1>21. ASSUME NEW c \in Ids, Revive(c)
      PROVE  LoopInv'
  BY <1>21 DEF Revive, ReviveStart, Set, Fault
<1>22. ASSUME NEW c \in Ids, Verb(c)
      PROVE  LoopInv'
  BY <1>22 DEF Verb, Done, DoneUnheard, NotDone, Fault, Set, Verbed
<1>23. ASSUME NEW c \in Ids, ContainerDies(c)
      PROVE  LoopInv'
  BY <1>23 DEF ContainerDies, Set
<1>24. ASSUME NEW c \in Ids, ContainerRestarts(c)
      PROVE  LoopInv'
  BY <1>24 DEF ContainerRestarts, Set
<1>25. CASE UNCHANGED vars
  BY <1>25 DEF vars
<1> QED
  BY <1>1, <1>2, <1>3, <1>4, <1>5, <1>6, <1>7, <1>8, <1>9, <1>10, <1>11,
     <1>12, <1>13, <1>14, <1>15, <1>16, <1>17, <1>18, <1>19, <1>20, <1>21,
     <1>22, <1>23, <1>24, <1>25 DEF Next

(***************************************************************************)
(* What runs                                                               *)
(***************************************************************************)

(* How a changed container changes what runs.                              *)
LEMMA UpSet ==
    ASSUME TypeOK, NEW c \in Ids, NEW s, Set(c, s)
    PROVE  Up' = IF s = "up" THEN Up \cup {c} ELSE Up \ {c}
  BY DEF TypeOK, Set, Up

(* A StopRemove whose error is ignored stops that container or none.       *)
LEMMA UpDrop ==
    ASSUME TypeOK, NEW c \in Ids, Drop(c)
    PROVE  Up' = Up \/ Up' = Up \ {c}
<1>1. CASE Set(c, "none") \/ Set(c, "down")
  BY <1>1, UpSet
<1>2. CASE UNCHANGED cont
  BY <1>2 DEF Up
<1> QED
  BY <1>1, <1>2 DEF Drop

(* What runs is Docker's state alone.                                      *)
LEMMA UpSame ==
    ASSUME UNCHANGED cont
    PROVE  Up' = Up
  BY DEF Up

(***************************************************************************)
(* Overlap: the tile serves throughout                                     *)
(***************************************************************************)

(* Every step keeps an overlap rollout's tile served: the old replicas run *)
(* until the VIP names the new ones, a removal touches neither.            *)
LEMMA ServeStep ==
    ASSUME TypeOK, AgeInv, LoopInv, ServeInv, [Next]_vars
    PROVE  ServeInv'
<1> SUFFICES ASSUME Rolled'
             PROVE  Serves'
  BY DEF ServeInv
<1> USE RolloutAssumption DEF ServeInv, Rolled, Serves, LoopInv, Verbing, Overlapping,
   Stopping, Finishing, dockVars, vipVars, jobVars, budgets
<1>1. ASSUME NEW m \in Modes, NEW n \in (IF m = "overlap" THEN Replicas ELSE {1}), Begin(m,
             n)
      PROVE  Serves'
  <2>1. Up' = Up
    BY <1>1, UpSame DEF Begin
  <2> QED
    BY <1>1, <2>1 DEF Begin
<1>2. CASE StartReplica
  <2>a. made + 1 \in Ids /\ made + 1 \notin Up
    BY <1>2 DEF StartReplica, AgeInv, TypeOK, Up
  <2>b. UNCHANGED cont \/ Set(made + 1, "up") \/ Set(made + 1, "created")
    BY <1>2 DEF StartReplica
  <2>1. Up \subseteq Up'
    BY <2>a, <2>b, UpSet, UpSame
  <2>2. Rolled /\ Serves /\ pc = "start" /\ pc' \in {"gate", "undo"}
    BY <1>2 DEF StartReplica
  <2> QED
    BY <1>2, <2>1, <2>2 DEF StartReplica
<1>3. CASE Gate
  <2>1. Rolled /\ Serves /\ pc = "gate"
    BY <1>3 DEF Gate
  <2>2. CASE pc' = "undo"
    <3>1. Up' = Up \/ Up' = Up \ {cur}
      BY <1>3, <2>2, UpDrop, CurIsId DEF Gate, TypeOK
    <3>2. oldUp \subseteq Up'
      BY <1>3, <2>1, <3>1 DEF Gate
    <3> QED
      BY <1>3, <2>1, <2>2, <3>2 DEF Gate
  <2>3. CASE pc' # "undo"
    <3>1. Up' = Up /\ cur \in Up /\ gated' = gated \cup {cur} /\ new' = new \cup {cur}
          /\ pc' \in {"start", "route"}
      BY <1>3, <2>3, UpSame, CurIsId DEF Gate, PassesGate, Up, TypeOK
    <3> QED
      BY <1>3, <2>1, <3>1 DEF Gate
  <2> QED
    BY <2>2, <2>3
<1>4. CASE UndoEnds
  <2>1. Up' = Up /\ pc' = "idle" /\ Rolled /\ Serves
    BY <1>4, UpSame DEF UndoEnds, End
  <2> QED
    BY <1>4, <2>1 DEF UndoEnds
<1>5. CASE Route
  <2>1. Up' = Up /\ Rolled /\ Serves /\ tick' = "idle" /\ pc \in {"route", "route2"}
    BY <1>5, UpSame DEF Route, LockFree
  <2>2. vip' = vip \/ vip' = Up
    BY <1>5 DEF Route
  <2>3. CASE pc' = "idle"
    BY <1>5, <2>1, <2>2, <2>3 DEF Route
  <2>4. CASE pc' # "idle"
    <3>1. vip' = Up /\ pc' = "remove"
      BY <1>5, <2>4 DEF Route, End, Goto, AfterFirstRoute
    <3> QED
      BY <1>5, <2>1, <3>1 DEF Route
  <2> QED
    BY <2>3, <2>4
<1>6. CASE RemoveEnds
  BY <1>6, UpSame DEF RemoveEnds, TypeOK
<1>7. CASE Create
  BY <1>7, UpSame, UpSet DEF Create, Done, Goto, ToStop, End, DoneUnheard, Fault
<1>8. CASE Launch
  BY <1>8, UpSame, UpDrop, CurIsId, UpSet DEF Launch, Done, Fault
<1>9. CASE LaunchGate
  BY <1>9, UpSame, UpDrop, CurIsId DEF LaunchGate, Done, PassesGate, Fault
<1>10. CASE ReviveDrop
  BY <1>10, UpSame, UpDrop, CurIsId DEF ReviveDrop, Fault
<1>11. CASE ReviveRoute
  BY <1>11, UpSame DEF ReviveRoute, LockFree, End, Fault
<1>12. ASSUME NEW v \in Verbs, BeginVerb(v)
      PROVE  Serves'
  BY <1>12, UpSame DEF BeginVerb, TypeOK
<1>13. CASE VerbEnds
  BY <1>13, UpSame DEF VerbEnds, End
<1>14. CASE TickRead
  BY <1>14, UpSame DEF TickRead, RowsRunning
<1>15. CASE TickSet
  BY <1>15, UpSame DEF TickSet, Fault
<1>16. CASE ContextDies
  BY <1>16, UpSame DEF ContextDies, TypeOK
<1>17. CASE PanelDies
  BY <1>17, UpSame DEF PanelDies, End
<1>18. ASSUME NEW c \in Ids, Undo(c)
      PROVE  Serves'
  BY <1>18, UpSame, UpDrop DEF Undo, Fault
<1>19. ASSUME NEW c \in Ids, RemoveOld(c)
      PROVE  Serves'
  <2>1. Rolled /\ Serves /\ pc = "remove" /\ c \notin new /\ pc' \in {"remove", "idle"}
    BY <1>19 DEF RemoveOld, Goto, End
  <2>2. Up \ {c} \subseteq Up'
    BY <1>19, UpSet, UpSame DEF RemoveOld
  <2>3. new \subseteq Up' /\ new # {}
    BY <2>1, <2>2
  <2> QED
    BY <1>19, <2>1, <2>3 DEF RemoveOld
<1>20. ASSUME NEW c \in Ids, StopOld(c)
      PROVE  Serves'
  BY <1>20, UpSame, UpSet DEF StopOld, Done, NotDone, DoneUnheard, Fault
<1>21. ASSUME NEW c \in Ids, Revive(c)
      PROVE  Serves'
  BY <1>21, UpSame, UpSet DEF Revive, ReviveStart, Fault
<1>22. ASSUME NEW c \in Ids, Verb(c)
      PROVE  Serves'
  BY <1>22, UpSame, UpSet DEF Verb, Done, DoneUnheard, NotDone, Fault, Verbed
<1>23. ASSUME NEW c \in Ids, ContainerDies(c)
      PROVE  Serves'
  <2>1. deaths' # 0
    BY <1>23 DEF ContainerDies, TypeOK
  <2> QED
    BY <2>1
<1>24. ASSUME NEW c \in Ids, ContainerRestarts(c)
      PROVE  Serves'
  <2>1. Up \subseteq Up'
    BY <1>24, UpSet DEF ContainerRestarts
  <2> QED
    BY <1>24, <2>1 DEF ContainerRestarts
<1>25. CASE UNCHANGED vars
  BY <1>25, UpSame DEF vars
<1> QED
  BY <1>1, <1>2, <1>3, <1>4, <1>5, <1>6, <1>7, <1>8, <1>9, <1>10, <1>11,
     <1>12, <1>13, <1>14, <1>15, <1>16, <1>17, <1>18, <1>19, <1>20, <1>21,
     <1>22, <1>23, <1>24, <1>25 DEF Next

(* A tile that rolls with overlap never stops serving: whatever Docker     *)
(* call fails or loses its answer, whenever the context or the panel dies  *)
(* and however old the rows of a VIP rebuild are, the VIP leads to a gated *)
(* running replica from the rollout's begin to the next tile verb.         *)
THEOREM OverlapKeepsServing == Spec => []OverlapServes
<1> DEFINE Inv == TypeOK /\ AgeInv /\ LoopInv /\ ServeInv
<1>1. Init => Inv
  <2>1. Init => AgeInv
    BY DEF Init, AgeInv
  <2>2. Init => LoopInv
    BY DEF Init, LoopInv, Overlapping, Stopping, Finishing, Verbing
  <2>3. Init => ServeInv
    BY DEF Init, ServeInv, Rolled
  <2> QED
    BY <2>1, <2>2, <2>3, TypeInit
<1>2. Inv /\ [Next]_vars => Inv'
  BY TypeStep, AgeStep, LoopStep, ServeStep
<1>3. Inv => OverlapServes
  BY DEF ServeInv, Serves, OverlapServes
<1> QED
  BY <1>1, <1>2, <1>3, PTL DEF Spec

(***************************************************************************)
(* stopFirst: one writer                                                   *)
(***************************************************************************)

(* How a changed container changes what exists.                            *)
LEMMA ExistsSet ==
    ASSUME TypeOK, NEW c \in Ids, NEW s, Set(c, s)
    PROVE  Exists' = IF s = "none" THEN Exists \ {c} ELSE Exists \cup {c}
  BY DEF TypeOK, Set, Exists

(* A StopRemove whose error is ignored removes that container or none.     *)
LEMMA ExistsDrop ==
    ASSUME TypeOK, NEW c \in Ids, Drop(c)
    PROVE  Exists' = Exists \/ Exists' = Exists \ {c}
<1>1. CASE Set(c, "none")
  BY <1>1, ExistsSet
<1>2. CASE UNCHANGED cont
  BY <1>2 DEF Exists
<1>3. CASE cont[c] = "up" /\ Set(c, "down")
  BY <1>3, ExistsSet DEF Exists
<1> QED
  BY <1>1, <1>2, <1>3 DEF Drop

(* What exists is Docker's state alone.                                    *)
LEMMA ExistsSame ==
    ASSUME UNCHANGED cont
    PROVE  Exists' = Exists
  BY DEF Exists

(* What runs exists.                                                       *)
LEMMA UpExists == Up \subseteq Exists
  BY DEF Up, Exists

(* A step that leaves the faults at none has no call that fails by itself. *)
LEMMA NoFault ==
    ASSUME faults = 0, faults' = 0
    PROVE  ~Fault
  BY DEF Fault

(* Then StopRemove works, and leaves no container restarting that was not. *)
LEMMA DropWorks ==
    ASSUME faults = 0, faults' = 0, TypeOK, NEW c \in Ids, Drop(c)
    PROVE  Up' = Up \ {c} /\ faults' = faults
           /\ \A d \in Ids : cont[d] # "restarting" => cont'[d] # "restarting"
<1>1. Set(c, "none") /\ faults' = faults
  BY NoFault DEF Drop
<1> QED
  BY <1>1, UpSet DEF Set, TypeOK

(* A container told to start or stop is not restarting.                    *)
LEMMA NotRestarting ==
    ASSUME TypeOK, NEW c \in Ids, NEW s, Set(c, s), s # "restarting",
           \A d \in Ids : cont[d] # "restarting"
    PROVE  \A d \in Ids : cont'[d] # "restarting"
  BY DEF Set, TypeOK

(* Every step keeps the one writer: nothing with mounts runs that did not  *)
(* run when the rollout listed, until all of that is stopped.              *)
LEMMA WriterStep ==
    ASSUME faults = 0, deaths = 0, faults' = 0, deaths' = 0, ~doubled, ~doubled', TypeOK,
           AgeInv, LoopInv, WriterInv, [Next]_vars
    PROVE  WriterInv'
<1> USE RolloutAssumption DEF WriterInv, LoopInv, Verbing, Overlapping,
   Stopping, Finishing, dockVars, vipVars, jobVars, budgets
<1>1. ASSUME NEW m \in Modes, NEW n \in (IF m = "overlap" THEN Replicas ELSE {1}), Begin(m,
             n)
      PROVE  WriterInv'
  BY <1>1, NoFault, UpSame DEF Begin, Listed
<1>2. CASE StartReplica
  <2>1. made + 1 \in Ids /\ made + 1 \notin data /\ made + 1 \notin Up
    BY <1>2 DEF StartReplica, AgeInv, TypeOK, Up
  <2>2. faults' = faults
    BY <1>2, NoFault DEF StartReplica, Done, DoneUnheard
  <2>3. UNCHANGED cont \/ Set(made + 1, "up") \/ Set(made + 1, "created")
    BY <1>2 DEF StartReplica
  <2>4. Up' \cap data = Up \cap data
    BY <2>1, <2>3, UpSet, UpSame
  <2>5. \A d \in Ids : cont'[d] # "restarting"
    BY <2>1, <2>3, NotRestarting
  <2>6. pc' \in {"gate", "undo"} /\ UNCHANGED <<mode, data, oldUp>>
    BY <1>2 DEF StartReplica
  <2> QED
    BY <1>2, <2>2, <2>4, <2>5, <2>6 DEF StartReplica
<1>3. CASE Gate
  <2>1. (Up' = Up \/ Up' = Up \ {cur}) /\ faults' = faults
        /\ \A d \in Ids : cont'[d] # "restarting"
    BY <1>3, DropWorks, CurIsId, UpSame DEF Gate, Done, TypeOK
  <2>2. pc' \in {"start", "route", "undo"} /\ pc = "gate" /\ UNCHANGED <<mode, data, oldUp>>
    BY <1>3 DEF Gate
  <2> QED
    BY <2>1, <2>2
<1>4. CASE UndoEnds
  BY <1>4, NoFault, UpSame DEF UndoEnds, End
<1>5. CASE Route
  BY <1>5, NoFault, UpSame DEF Route, LockFree, Done, AfterFirstRoute, End, Goto, NotDone,
     DoneUnheard
<1>6. CASE RemoveEnds
  BY <1>6, NoFault, UpSame DEF RemoveEnds
<1>7. CASE Create
  <2>1. made + 1 \in Ids /\ made + 1 \notin Up /\ made + 1 \notin oldUp
    BY <1>7 DEF Create, AgeInv, TypeOK, Up
  <2>2. faults' = faults
    BY <1>7, NoFault DEF Create, Done, DoneUnheard
  <2>3. UNCHANGED cont \/ Set(made + 1, "created")
    BY <1>7 DEF Create
  <2>4. data' = data \/ data' = data \cup {made + 1}
    BY <1>7 DEF Create
  <2>5. Up' \cap data' = Up \cap data /\ oldUp \cap data' = oldUp \cap data
    BY <2>1, <2>3, <2>4, UpSet, UpSame
  <2>6. \A d \in Ids : cont'[d] # "restarting"
    BY <2>1, <2>3, NotRestarting
  <2>7. pc = "create" /\ oldUp' = oldUp
        /\ (pc' = "idle" \/ (pc' = "stop" /\ todo' = oldUp /\ mode' = "stopFirst"))
    BY <1>7 DEF Create, Goto, End, ToStop
  <2> QED
    BY <2>2, <2>5, <2>6, <2>7
<1>8. CASE Launch
  <2>1. cur \in Ids /\ Up \cap data = {} /\ UNCHANGED <<mode, data, oldUp>>
    BY <1>8, CurIsId DEF Launch, TypeOK
  <2>2. CASE pc' = "launched"
    <3>1. Up' = Up \cup {cur} /\ cur' = cur /\ faults' = faults
          /\ \A d \in Ids : cont'[d] # "restarting"
      BY <1>8, <2>1, <2>2, UpSet, NotRestarting DEF Launch, Done
    <3> QED
      BY <1>8, <2>1, <2>2, <3>1 DEF Launch
  <2>3. CASE pc' # "launched"
    <3>1. Up' = Up \ {cur} /\ faults' = faults /\ pc' = "revive"
          /\ \A d \in Ids : cont'[d] # "restarting"
      BY <1>8, <2>1, <2>3, DropWorks DEF Launch
    <3> QED
      BY <1>8, <2>1, <3>1 DEF Launch
  <2> QED
    BY <2>2, <2>3
<1>9. CASE LaunchGate
  <2>1. Up \cap data \subseteq {cur} /\ pc = "launched" /\ UNCHANGED <<mode, data, oldUp>>
    BY <1>9 DEF LaunchGate
  <2>2. CASE pc' = "route"
    <3>1. Up' = Up /\ cur' = cur /\ faults' = faults /\ cont' = cont
      BY <1>9, <2>2, UpSame DEF LaunchGate, Done
    <3> QED
      BY <2>1, <2>2, <3>1
  <2>3. CASE pc' # "route"
    <3>1. Up' = Up \ {cur} /\ faults' = faults /\ pc' = "revive"
          /\ \A d \in Ids : cont'[d] # "restarting"
      BY <1>9, <2>3, DropWorks, CurIsId DEF LaunchGate, TypeOK
    <3> QED
      BY <2>1, <3>1
  <2> QED
    BY <2>2, <2>3
<1>10. CASE ReviveDrop
  BY <1>10, NoFault, UpSame, DropWorks, CurIsId DEF ReviveDrop
<1>11. CASE ReviveRoute
  BY <1>11, NoFault, UpSame DEF ReviveRoute, LockFree, End
<1>12. ASSUME NEW v \in Verbs, BeginVerb(v)
      PROVE  WriterInv'
  <2>1. v # "stopTile" => \A c, d \in Exists \cap data : c = d
    BY <1>12, Zenon DEF BeginVerb
  <2>2. Up' = Up /\ Exists' = Exists /\ todo' = Exists /\ pc' = v
        /\ UNCHANGED <<cont, data, oldUp, mode, faults>>
    BY <1>12, UpSame, ExistsSame DEF BeginVerb
  <2> QED
    BY <2>1, <2>2
<1>13. CASE VerbEnds
  BY <1>13, NoFault, UpSame DEF VerbEnds, End
<1>14. CASE TickRead
  BY <1>14, NoFault, UpSame, ExistsSame DEF TickRead, RowsRunning
<1>15. CASE TickSet
  BY <1>15, NoFault, UpSame, ExistsSame DEF TickSet
<1>16. CASE ContextDies
  BY <1>16, NoFault, UpSame, ExistsSame DEF ContextDies
<1>17. CASE PanelDies
  BY <1>17, NoFault, UpSame DEF PanelDies, End
<1>18. ASSUME NEW c \in Ids, Undo(c)
      PROVE  WriterInv'
  BY <1>18, NoFault, UpSame, DropWorks DEF Undo
<1>19. ASSUME NEW c \in Ids, RemoveOld(c)
      PROVE  WriterInv'
  BY <1>19, NoFault, UpSame, UpSet, NotRestarting DEF RemoveOld, Done, Goto, End, NotDone,
     DoneUnheard
<1>20. ASSUME NEW c \in Ids, StopOld(c)
      PROVE  WriterInv'
  BY <1>20, NoFault, UpSame, UpSet, NotRestarting DEF StopOld, Done, NotDone, DoneUnheard
<1>21. ASSUME NEW c \in Ids, Revive(c)
      PROVE  WriterInv'
  <2>1. c \in oldUp /\ pc = "revive" /\ UNCHANGED <<pc, mode, data, oldUp>>
    BY <1>21 DEF Revive, TypeOK
  <2>2. Up' \subseteq Up \cup {c} /\ faults' = faults
        /\ \A d \in Ids : cont'[d] # "restarting"
    BY <1>21, NoFault, UpSet, NotRestarting DEF Revive, ReviveStart
  <2> QED
    BY <2>1, <2>2
<1>22. ASSUME NEW c \in Ids, Verb(c)
      PROVE  WriterInv'
  <2>1. faults' = faults /\ pc' = pc /\ todo' = todo \ {c} /\ c \in todo
        /\ UNCHANGED <<data, oldUp, mode>> /\ pc \in Verbing
    BY <1>22, NoFault DEF Verb, Done, DoneUnheard, NotDone
  <2>2. UNCHANGED cont \/ Set(c, Verbed(c))
    BY <1>22 DEF Verb
  <2>3. Verbed(c) \in {"up", "created", "down"} /\ (pc = "stopTile" => Verbed(c) # "up")
    BY DEF Verbed
  <2>4. \A d \in Ids : cont'[d] # "restarting"
    BY <2>2, <2>3, NotRestarting
  <2>5. CASE pc = "stopTile"
    <3>1. Up' \subseteq Up
      BY <2>2, <2>3, <2>5, UpSet, UpSame
    <3> QED
      BY <2>1, <2>4, <2>5, <3>1
  <2>6. CASE pc # "stopTile"
    <3>1. Up' \subseteq Up \cup {c} /\ Exists' \subseteq Exists \cup {c}
      BY <2>2, <2>3, UpSet, UpSame, ExistsSet, ExistsSame
    <3> QED
      BY <2>1, <2>4, <2>6, <3>1, UpExists
  <2> QED
    BY <2>5, <2>6
<1>23. ASSUME NEW c \in Ids, ContainerDies(c)
      PROVE  WriterInv'
  BY <1>23 DEF ContainerDies, TypeOK
<1>24. ASSUME NEW c \in Ids, ContainerRestarts(c)
      PROVE  WriterInv'
  BY <1>24, NoFault, UpSame DEF ContainerRestarts
<1>25. CASE UNCHANGED vars
  BY <1>25, UpSame, ExistsSame DEF vars
<1> QED
  BY <1>1, <1>2, <1>3, <1>4, <1>5, <1>6, <1>7, <1>8, <1>9, <1>10, <1>11,
     <1>12, <1>13, <1>14, <1>15, <1>16, <1>17, <1>18, <1>19, <1>20, <1>21,
     <1>22, <1>23, <1>24, <1>25 DEF Next

(* The faults and the deaths only grow.                                    *)
LEMMA WeatherGrows ==
    ASSUME TypeOK, TypeOK', [Next]_vars
    PROVE  (faults' = 0 => faults = 0) /\ (deaths' = 0 => deaths = 0)
<1> USE DEF dockVars, vipVars, jobVars, budgets
<1>1. deaths' = deaths \/ deaths' = deaths + 1
  BY DEF Next, vars, Begin, StartReplica, Gate, UndoEnds, Route, RemoveEnds, Create, Launch,
     LaunchGate, ReviveDrop, ReviveRoute, BeginVerb, VerbEnds, TickRead, TickSet, ContextDies,
     PanelDies, Undo, RemoveOld, StopOld, Revive, Verb, ContainerDies, ContainerRestarts
<1>2. faults' = faults \/ faults' = faults + 1
  BY DEF Next, vars, Begin, StartReplica, Gate, UndoEnds, Route, RemoveEnds, Create, Launch,
     LaunchGate, ReviveDrop, ReviveRoute, BeginVerb, VerbEnds, TickRead, TickSet, ContextDies,
     PanelDies, Undo, RemoveOld, StopOld, Revive, Verb, ContainerDies, ContainerRestarts,
     Fault, Done, NotDone, DoneUnheard, Drop, ReviveStart
<1> QED
  BY <1>1, <1>2 DEF TypeOK

(***************************************************************************)
(* stopFirst: a refusal restores                                           *)
(***************************************************************************)

(* Every step keeps what a refused rollout restores from.                  *)
LEMMA RestoreStep ==
    ASSUME TypeOK, TypeOK', AgeInv, LoopInv, RestoreInv, [Next]_vars
    PROVE  RestoreInv'
<1> SUFFICES ASSUME mode' = "stopFirst", ~dead', faults' = 0, deaths' = 0
             PROVE  /\ pc' = "create" => oldUp' \subseteq Up'
                    /\ pc' \in {"stop", "launched", "revive"} => oldUp' \subseteq Up' \cup stopped'
                    /\ pc' = "idle" /\ result' = "failed" => oldUp' \subseteq Up'
  BY DEF RestoreInv
<1> DEFINE Goal == /\ pc' = "create" => oldUp' \subseteq Up'
                   /\ pc' \in {"stop", "launched", "revive"} => oldUp' \subseteq Up' \cup stopped'
                   /\ pc' = "idle" /\ result' = "failed" => oldUp' \subseteq Up'
<1>0. faults = 0 /\ deaths = 0 /\ ~Fault
  BY WeatherGrows, NoFault
<1> USE <1>0, RolloutAssumption DEF RestoreInv, LoopInv, Verbing, Overlapping, Stopping, Finishing,
   dockVars, vipVars, jobVars, budgets
<1>1. ASSUME NEW m \in Modes, NEW n \in (IF m = "overlap" THEN Replicas ELSE {1}), Begin(m, n)
      PROVE  Goal
  BY <1>1, UpSame DEF Begin
<1>2. CASE StartReplica
  BY <1>2 DEF StartReplica
<1>3. CASE Gate
  BY <1>3 DEF Gate
<1>4. CASE UndoEnds
  BY <1>4 DEF UndoEnds
<1>5. CASE Route
  BY <1>5 DEF Route, Done, AfterFirstRoute, End, Goto, NotDone, DoneUnheard
<1>6. CASE RemoveEnds
  BY <1>6 DEF RemoveEnds
<1>7. CASE Create
  <2>1. made + 1 \in Ids /\ made + 1 \notin Up
    BY <1>7 DEF Create, AgeInv, TypeOK, Up
  <2>2. UNCHANGED cont \/ Set(made + 1, "created")
    BY <1>7 DEF Create
  <2>3. Up' = Up
    <3>1. CASE UNCHANGED cont
      BY <3>1, UpSame
    <3>2. CASE Set(made + 1, "created")
      <4>1. Up' = IF "created" = "up" THEN Up \cup {made + 1} ELSE Up \ {made + 1}
        BY ONLY <2>1, <3>2, TypeOK, UpSet
      <4> QED
        BY ONLY <2>1, <4>1
    <3> QED
      BY ONLY <2>2, <3>1, <3>2
  <2>4. oldUp \subseteq Up /\ oldUp' = oldUp
    BY <1>7 DEF Create, Done, DoneUnheard
  <2> QED
    BY <2>3, <2>4
<1>8. CASE Launch
  <2>1. oldUp \subseteq Up \cup stopped /\ cur \notin oldUp /\ cur \in Ids
    BY <1>8, CurIsId DEF Launch, Done, TypeOK
  <2>2. Up' = Up \cup {cur} \/ Up' = Up \ {cur}
    BY <1>8, <2>1, UpSet, DropWorks DEF Launch
  <2> QED
    BY <1>8, <2>1, <2>2 DEF Launch
<1>9. CASE LaunchGate
  <2>1. oldUp \subseteq Up \cup stopped /\ cur \notin oldUp /\ cur \in Ids
    BY <1>9, CurIsId DEF LaunchGate, Done, TypeOK
  <2>2. Up' = Up \/ Up' = Up \ {cur}
    BY <1>9, <2>1, UpSame, DropWorks DEF LaunchGate
  <2> QED
    BY <1>9, <2>1, <2>2 DEF LaunchGate
<1>10. CASE ReviveDrop
  <2>1. oldUp \subseteq Up \cup stopped /\ cur \notin oldUp /\ cur \in Ids
    BY <1>10, CurIsId DEF ReviveDrop, TypeOK
  <2>2. Up' = Up \ {cur}
    BY <1>10, <2>1, DropWorks DEF ReviveDrop
  <2> QED
    BY <1>10, <2>1, <2>2 DEF ReviveDrop
<1>11. CASE ReviveRoute
  BY <1>11, UpSame DEF ReviveRoute, End
<1>12. ASSUME NEW v \in Verbs, BeginVerb(v)
      PROVE  Goal
  BY <1>12 DEF BeginVerb
<1>13. CASE VerbEnds
  BY <1>13 DEF VerbEnds, End
<1>14. CASE TickRead
  BY <1>14, UpSame DEF TickRead
<1>15. CASE TickSet
  BY <1>15, UpSame DEF TickSet
<1>16. CASE ContextDies
  BY <1>16 DEF ContextDies
<1>17. CASE PanelDies
  BY <1>17, UpSame DEF PanelDies, End
<1>18. ASSUME NEW c \in Ids, Undo(c)
      PROVE  Goal
  BY <1>18 DEF Undo
<1>19. ASSUME NEW c \in Ids, RemoveOld(c)
      PROVE  Goal
  BY <1>19 DEF RemoveOld, Done, Goto, End, NotDone, DoneUnheard
<1>20. ASSUME NEW c \in Ids, StopOld(c)
      PROVE  Goal
  <2>1. Done /\ Set(c, "down") /\ stopped' = stopped \cup {c} /\ pc' = "stop"
    BY <1>20 DEF StopOld, NotDone, DoneUnheard
  <2>2. Up' = Up \ {c} /\ oldUp \subseteq Up \cup stopped /\ oldUp' = oldUp
    BY <1>20, <2>1, UpSet DEF StopOld, Done
  <2> QED
    BY <2>1, <2>2
<1>21. ASSUME NEW c \in Ids, Revive(c)
      PROVE  Goal
  <2>1. Up' = Up \cup {c} /\ stopped' = stopped \ {c}
    BY <1>21, UpSet DEF Revive, ReviveStart
  <2>2. oldUp \subseteq Up \cup stopped /\ oldUp' = oldUp /\ pc' = "revive"
    BY <1>21 DEF Revive
  <2> QED
    BY <2>1, <2>2
<1>22. ASSUME NEW c \in Ids, Verb(c)
      PROVE  Goal
  BY <1>22 DEF Verb
<1>23. ASSUME NEW c \in Ids, ContainerDies(c)
      PROVE  Goal
  BY <1>23 DEF ContainerDies, TypeOK
<1>24. ASSUME NEW c \in Ids, ContainerRestarts(c)
      PROVE  Goal
  <2>1. Up' = Up \cup {c}
    BY <1>24, UpSet DEF ContainerRestarts
  <2> QED
    BY <1>24, <2>1 DEF ContainerRestarts
<1>25. CASE UNCHANGED vars
  BY <1>25, UpSame DEF vars
<1> QED
  BY <1>1, <1>2, <1>3, <1>4, <1>5, <1>6, <1>7, <1>8, <1>9, <1>10, <1>11,
     <1>12, <1>13, <1>14, <1>15, <1>16, <1>17, <1>18, <1>19, <1>20, <1>21,
     <1>22, <1>23, <1>24, <1>25 DEF Next

(* A data-holding tile whose rollout is refused at create, start or gate   *)
(* runs what it ran before, for any number of containers and crashes.      *)
THEOREM RefusedIsRestored == Spec => []RefusalRestores
<1> DEFINE Inv == TypeOK /\ AgeInv /\ LoopInv /\ RestoreInv
<1>1. Init => Inv
  <2>1. Init => AgeInv
    BY DEF Init, AgeInv
  <2>2. Init => LoopInv
    BY DEF Init, LoopInv, Overlapping, Stopping, Finishing, Verbing
  <2>3. Init => RestoreInv
    BY DEF Init, RestoreInv
  <2> QED
    BY <2>1, <2>2, <2>3, TypeInit
<1>2. Inv /\ [Next]_vars => Inv'
  BY TypeStep, AgeStep, LoopStep, RestoreStep
<1>3. Inv => RefusalRestores
  BY DEF TypeOK, LoopInv, RestoreInv, RefusalRestores, Verbing, Pcs
<1> QED
  BY <1>1, <1>2, <1>3, PTL DEF Spec

(***************************************************************************)
(* Success is clean                                                        *)
(***************************************************************************)

(* Every step keeps a rollout on the way to a clean success: what exists   *)
(* stays accounted for, a verb forgets the success, and a rebuild after it *)
(* reads only new replicas.                                                *)
LEMMA CleanStep ==
    ASSUME TypeOK, AgeInv, LoopInv, CleanInv, [Next]_vars
    PROVE  CleanInv'
<1> USE RolloutAssumption DEF CleanInv, LoopInv, Verbing, Overlapping, Stopping, Finishing,
   dockVars, vipVars, jobVars, budgets
<1>1. ASSUME NEW m \in Modes, NEW n \in (IF m = "overlap" THEN Replicas ELSE {1}), Begin(m,
             n)
      PROVE  CleanInv'
  <2>1. Exists' = Exists /\ old' = Exists /\ new' = {} /\ pc' \in {"start", "create"}
        /\ result' = "none"
    BY <1>1, ExistsSame DEF Begin, Listed
  <2> QED
    BY <2>1
<1>2. CASE StartReplica
  <2>1. CASE pc' = "undo"
    BY <1>2, <2>1 DEF StartReplica
  <2>2. CASE pc' = "gate"
    <3>1. Set(made + 1, "up") /\ cur' = made + 1 /\ made + 1 \in Ids
      BY <1>2, <2>2 DEF StartReplica
    <3>2. Exists' = Exists \cup {cur'}
      BY <3>1, ExistsSet
    <3> QED
      BY <1>2, <2>2, <3>2 DEF StartReplica
  <2> QED
    BY <1>2, <2>1, <2>2 DEF StartReplica
<1>3. CASE Gate
  <2>1. CASE pc' = "undo"
    BY <1>3, <2>1 DEF Gate
  <2>2. CASE pc' # "undo"
    <3>1. PassesGate(cur) /\ gated' = gated \cup {cur} /\ new' = new \cup {cur}
          /\ pc' \in {"start", "route"} /\ cont' = cont
      BY <1>3, <2>2 DEF Gate
    <3>2. cur \in Exists
      BY <1>3, <3>1, CurIsId DEF Gate, PassesGate, Exists, TypeOK
    <3>3. Exists' = Exists
      BY <3>1, ExistsSame
    <3> QED
      BY <1>3, <3>1, <3>2, <3>3 DEF Gate
  <2> QED
    BY <2>1, <2>2
<1>4. CASE UndoEnds
  BY <1>4 DEF UndoEnds, End
<1>5. CASE Route
  <2>1. Exists' = Exists
    BY <1>5, ExistsSame DEF Route
  <2>2. gated' = gated /\ new' = new /\ tick' = "idle"
    BY <1>5 DEF Route, LockFree
  <2>3. CASE result' = "failed" /\ pc' = "idle"
    BY <2>3
  <2>4. CASE End("ok")
    <3>1. vip' = Up
      BY <1>5, <2>4 DEF Route, End
    <3>2. pc = "route" => old = {}
      BY <1>5, <2>4 DEF Route, AfterFirstRoute, End, Goto
    <3>3. Exists = new /\ new \subseteq gated
      BY <1>5, <3>2 DEF Route
    <3>4. vip' \subseteq new
      BY <3>1, <3>3, UpExists
    <3> QED
      BY <2>1, <2>2, <2>4, <3>3, <3>4 DEF End
  <2>5. CASE pc' = "remove"
    <3>1. pc = "route" /\ todo' = old /\ result' = result
      BY <1>5, <2>5 DEF Route, AfterFirstRoute, End, Goto
    <3> QED
      BY <2>1, <2>2, <2>5, <3>1
  <2> QED
    BY <1>5, <2>3, <2>4, <2>5 DEF Route, AfterFirstRoute, End, Goto
<1>6. CASE RemoveEnds
  <2>1. Exists' = Exists
    BY <1>6, ExistsSame DEF RemoveEnds
  <2> QED
    BY <1>6, <2>1 DEF RemoveEnds
<1>7. CASE Create
  <2>1. CASE pc' = "idle"
    BY <1>7, <2>1 DEF Create, End, Goto
  <2>2. CASE pc' = "stop"
    <3>1. Set(made + 1, "created") /\ cur' = made + 1 /\ made + 1 \in Ids
      BY <1>7, <2>2 DEF Create, End
    <3>2. Exists' = Exists \cup {cur'}
      BY <3>1, ExistsSet
    <3> QED
      BY <1>7, <2>2, <3>2 DEF Create, End, Goto
  <2> QED
    BY <1>7, <2>1, <2>2 DEF Create, End, Goto
<1>8. CASE Launch
  <2>1. CASE pc' = "revive"
    BY <1>8, <2>1 DEF Launch
  <2>2. CASE pc' = "launched"
    <3>1. Set(cur, "up") /\ cur' = cur
      BY <1>8, <2>2 DEF Launch
    <3>2. Exists' = Exists \cup {cur'}
      BY <1>8, <3>1, ExistsSet, CurIsId DEF Launch, TypeOK
    <3> QED
      BY <1>8, <2>2, <3>1, <3>2 DEF Launch
  <2> QED
    BY <1>8, <2>1, <2>2 DEF Launch
<1>9. CASE LaunchGate
  <2>1. CASE pc' = "revive"
    BY <1>9, <2>1 DEF LaunchGate
  <2>2. CASE pc' = "route"
    <3>1. PassesGate(cur) /\ gated' = gated \cup {cur} /\ new' = new \cup {cur}
          /\ cont' = cont
      BY <1>9, <2>2 DEF LaunchGate
    <3>2. cur \in Exists
      BY <1>9, <3>1, CurIsId DEF LaunchGate, PassesGate, Exists, TypeOK
    <3>3. Exists' = Exists
      BY <3>1, ExistsSame
    <3> QED
      BY <1>9, <2>2, <3>1, <3>2, <3>3 DEF LaunchGate
  <2> QED
    BY <1>9, <2>1, <2>2 DEF LaunchGate
<1>10. CASE ReviveDrop
  BY <1>10 DEF ReviveDrop
<1>11. CASE ReviveRoute
  BY <1>11 DEF ReviveRoute, End
<1>12. ASSUME NEW v \in Verbs, BeginVerb(v)
      PROVE  CleanInv'
  BY <1>12 DEF BeginVerb
<1>13. CASE VerbEnds
  BY <1>13 DEF VerbEnds, End
<1>14. CASE TickRead
  <2>1. Exists' = Exists /\ rows' \subseteq Exists
    BY <1>14, ExistsSame, UpExists DEF TickRead, RowsRunning
  <2> QED
    BY <1>14, <2>1 DEF TickRead
<1>15. CASE TickSet
  <2>1. Exists' = Exists
    BY <1>15, ExistsSame DEF TickSet
  <2> QED
    BY <1>15, <2>1 DEF TickSet
<1>16. CASE ContextDies
  <2>1. Exists' = Exists
    BY <1>16, ExistsSame DEF ContextDies
  <2> QED
    BY <1>16, <2>1 DEF ContextDies
<1>17. CASE PanelDies
  <2>1. Exists' = Exists
    BY <1>17, ExistsSame DEF PanelDies
  <2> QED
    BY <1>17, <2>1 DEF PanelDies, End
<1>18. ASSUME NEW c \in Ids, Undo(c)
      PROVE  CleanInv'
  BY <1>18 DEF Undo
<1>19. ASSUME NEW c \in Ids, RemoveOld(c)
      PROVE  CleanInv'
  <2>1. CASE pc' = "idle"
    BY <1>19, <2>1 DEF RemoveOld, End, Goto
  <2>2. CASE pc' = "remove"
    <3>1. Set(c, "none") /\ todo' = todo \ {c} /\ result' = result
      BY <1>19, <2>2 DEF RemoveOld, End, Goto
    <3>2. Exists' = Exists \ {c}
      BY <3>1, ExistsSet
    <3>3. c \notin new
      BY <1>19 DEF RemoveOld
    <3> QED
      BY <1>19, <2>2, <3>1, <3>2, <3>3 DEF RemoveOld
  <2> QED
    BY <1>19, <2>1, <2>2 DEF RemoveOld, End, Goto
<1>20. ASSUME NEW c \in Ids, StopOld(c)
      PROVE  CleanInv'
  <2>1. CASE pc' = "revive"
    BY <1>20, <2>1 DEF StopOld
  <2>2. CASE pc' = "stop"
    <3>1. Set(c, "down") /\ c \in old
      BY <1>20, <2>2 DEF StopOld, TypeOK
    <3>2. Exists' = Exists \cup {c}
      BY <3>1, ExistsSet
    <3> QED
      BY <1>20, <2>2, <3>1, <3>2 DEF StopOld
  <2> QED
    BY <1>20, <2>1, <2>2 DEF StopOld
<1>21. ASSUME NEW c \in Ids, Revive(c)
      PROVE  CleanInv'
  BY <1>21 DEF Revive
<1>22. ASSUME NEW c \in Ids, Verb(c)
      PROVE  CleanInv'
  BY <1>22 DEF Verb
<1>23. ASSUME NEW c \in Ids, ContainerDies(c)
      PROVE  CleanInv'
  <2>1. Exists' = Exists
    BY <1>23, ExistsSet DEF ContainerDies, Exists
  <2> QED
    BY <1>23, <2>1 DEF ContainerDies
<1>24. ASSUME NEW c \in Ids, ContainerRestarts(c)
      PROVE  CleanInv'
  <2>1. Exists' = Exists
    BY <1>24, ExistsSet DEF ContainerRestarts, Exists
  <2> QED
    BY <1>24, <2>1 DEF ContainerRestarts
<1>25. CASE UNCHANGED vars
  <2>1. Exists' = Exists
    BY <1>25, ExistsSame DEF vars
  <2> QED
    BY <1>25, <2>1 DEF vars
<1> QED
  BY <1>1, <1>2, <1>3, <1>4, <1>5, <1>6, <1>7, <1>8, <1>9, <1>10, <1>11,
     <1>12, <1>13, <1>14, <1>15, <1>16, <1>17, <1>18, <1>19, <1>20, <1>21,
     <1>22, <1>23, <1>24, <1>25 DEF Next

(* A rollout that reports success leaves its new, gated replicas and no    *)
(* other, and a VIP that names nothing else, whatever crashes, lost        *)
(* answers and stale rebuilds went before it.                              *)
THEOREM SuccessIsClean == Spec => []CleanAfterSuccess
<1> DEFINE Inv == TypeOK /\ AgeInv /\ LoopInv /\ CleanInv
<1>1. Init => Inv
  <2>1. Init => AgeInv
    BY DEF Init, AgeInv
  <2>2. Init => LoopInv
    BY DEF Init, LoopInv, Overlapping, Stopping, Finishing, Verbing
  <2>3. Init => CleanInv
    BY DEF Init, CleanInv, Finishing
  <2> QED
    BY <2>1, <2>2, <2>3, TypeInit
<1>2. Inv /\ [Next]_vars => Inv'
  BY TypeStep, AgeStep, LoopStep, CleanStep
<1>3. Inv => CleanAfterSuccess
  BY DEF CleanInv, CleanAfterSuccess
<1> QED
  BY <1>1, <1>2, <1>3, PTL DEF Spec

(***************************************************************************)
(* One writer, also past a verb                                            *)
(***************************************************************************)

(* A container that Docker is told to start, stop or remove is not         *)
(* restarting.                                                             *)
LEMMA QuietStep ==
    ASSUME TypeOK, TypeOK', QuietInv, [Next]_vars
    PROVE  QuietInv'
<1> DEFINE Told == {"none", "created", "up", "down"}
<1> SUFFICES ASSUME deaths = 0, deaths' = 0, NEW d \in Ids PROVE cont'[d] # "restarting"
  BY WeatherGrows DEF QuietInv
<1>1. cont[d] # "restarting" /\ cont \in [Ids -> ContainerStates]
  BY DEF QuietInv, TypeOK
<1>2. cont' = cont \/ \E c : \E s \in Told : Set(c, s)
  <2>1. ASSUME NEW c \in Ids, Verb(c) PROVE cont' = cont \/ \E s \in Told : Set(c, s)
    BY <2>1 DEF Verb, Verbed
  <2>2. ASSUME NEW c, Drop(c) PROVE cont' = cont \/ \E s \in Told : Set(c, s)
    BY <2>2 DEF Drop
  <2>3. StartReplica \/ Create \/ Launch \/ (\E c \in Ids : StopOld(c) \/ RemoveOld(c))
          => cont' = cont \/ \E c : \E s \in Told : Set(c, s)
    BY <2>2 DEF StartReplica, Create, Launch, StopOld, RemoveOld
  <2>4. Gate \/ LaunchGate \/ ReviveDrop \/ (\E c \in Ids : Undo(c) \/ Revive(c))
          => cont' = cont \/ \E c : \E s \in Told : Set(c, s)
    BY <2>2 DEF Gate, LaunchGate, ReviveDrop, Undo, Revive, ReviveStart
  <2>5. (\E c \in Ids : ContainerDies(c) \/ ContainerRestarts(c))
          => cont' = cont \/ \E c : \E s \in Told : Set(c, s)
    BY DEF ContainerDies, ContainerRestarts
  <2>6. UndoEnds \/ Route \/ RemoveEnds \/ ReviveRoute \/ VerbEnds \/ TickRead \/ TickSet
        \/ ContextDies \/ PanelDies \/ UNCHANGED vars \/ (\E v \in Verbs : BeginVerb(v))
        \/ (\E m, n : Begin(m, n))
          => cont' = cont
    BY DEF vars, dockVars, UndoEnds, Route, RemoveEnds, ReviveRoute, VerbEnds, TickRead,
       TickSet, ContextDies, PanelDies, BeginVerb, Begin
  <2> HIDE DEF Told
  <2> QED
    BY <2>1, <2>3, <2>4, <2>5, <2>6 DEF Next
<1> QED
  BY <1>1, <1>2 DEF Set

(* Every step keeps what a rollout's replicas are.                         *)
LEMMA FreshStep ==
    ASSUME TypeOK, AgeInv, LoopInv, FreshInv, [Next]_vars
    PROVE  FreshInv'
<1> USE RolloutAssumption DEF FreshInv, LoopInv, Verbing, Overlapping, Stopping, Finishing,
   dockVars, vipVars, jobVars, budgets
<1>1. ASSUME NEW m \in Modes, NEW n \in (IF m = "overlap" THEN Replicas ELSE {1}), Begin(m, n)
      PROVE  FreshInv'
  BY <1>1 DEF Begin
<1>2. CASE StartReplica
  BY <1>2 DEF StartReplica, AgeInv, TypeOK
<1>3. CASE Gate
  BY <1>3 DEF Gate
<1>4. CASE UndoEnds
  BY <1>4 DEF UndoEnds, End
<1>5. CASE Route
  BY <1>5 DEF Route, AfterFirstRoute, End, Goto
<1>6. CASE RemoveEnds
  BY <1>6 DEF RemoveEnds
<1>7. CASE Create
  BY <1>7 DEF Create, End, Goto
<1>8. CASE Launch
  BY <1>8 DEF Launch
<1>9. CASE LaunchGate
  BY <1>9 DEF LaunchGate
<1>10. CASE ReviveDrop
  BY <1>10 DEF ReviveDrop
<1>11. CASE ReviveRoute
  BY <1>11 DEF ReviveRoute, End
<1>12. ASSUME NEW v \in Verbs, BeginVerb(v)
      PROVE  FreshInv'
  BY <1>12 DEF BeginVerb
<1>13. CASE VerbEnds
  BY <1>13 DEF VerbEnds, End
<1>14. CASE TickRead
  BY <1>14 DEF TickRead
<1>15. CASE TickSet
  BY <1>15 DEF TickSet
<1>16. CASE ContextDies
  BY <1>16 DEF ContextDies
<1>17. CASE PanelDies
  BY <1>17 DEF PanelDies, End
<1>18. ASSUME NEW c \in Ids, Undo(c)
      PROVE  FreshInv'
  BY <1>18 DEF Undo
<1>19. ASSUME NEW c \in Ids, RemoveOld(c)
      PROVE  FreshInv'
  BY <1>19 DEF RemoveOld, End, Goto
<1>20. ASSUME NEW c \in Ids, StopOld(c)
      PROVE  FreshInv'
  BY <1>20 DEF StopOld
<1>21. ASSUME NEW c \in Ids, Revive(c)
      PROVE  FreshInv'
  BY <1>21 DEF Revive
<1>22. ASSUME NEW c \in Ids, Verb(c)
      PROVE  FreshInv'
  BY <1>22 DEF Verb
<1>23. ASSUME NEW c \in Ids, ContainerDies(c)
      PROVE  FreshInv'
  BY <1>23 DEF ContainerDies
<1>24. ASSUME NEW c \in Ids, ContainerRestarts(c)
      PROVE  FreshInv'
  BY <1>24 DEF ContainerRestarts
<1>25. CASE UNCHANGED vars
  BY <1>25 DEF vars
<1> QED
  BY <1>1, <1>2, <1>3, <1>4, <1>5, <1>6, <1>7, <1>8, <1>9, <1>10, <1>11,
     <1>12, <1>13, <1>14, <1>15, <1>16, <1>17, <1>18, <1>19, <1>20, <1>21,
     <1>22, <1>23, <1>24, <1>25 DEF Next

(* The rollout that mends what a verb doubled leaves one writer: all that  *)
(* exists is what it made.                                                 *)
LEMMA MendStep ==
    ASSUME doubled, ~doubled', deaths' = 0, TypeOK, LoopInv, FreshInv, QuietInv',
           CleanInv', [Next]_vars
    PROVE  WriterInv'
<1>1. Route /\ result' = "ok"
  BY DEF Next, vars, jobVars, Begin, StartReplica, Gate, UndoEnds, Route, RemoveEnds, Create,
     Launch, LaunchGate, ReviveDrop, ReviveRoute, BeginVerb, VerbEnds, TickRead, TickSet, ContextDies,
     PanelDies, Undo, RemoveOld, StopOld, Revive, Verb, ContainerDies, ContainerRestarts
<1>2. pc \in Finishing /\ mode \in {"overlap", "stopFirst"}
  BY <1>1, RolloutAssumption DEF Route, Finishing, LoopInv, TypeOK
<1>3. \A c, d \in new \cap data : c = d
  BY <1>2 DEF FreshInv
<1>4. UNCHANGED <<new, data>>
  BY <1>1 DEF Route, dockVars
<1>5. pc' = "idle" /\ Exists' = new'
  BY <1>1 DEF CleanInv
<1>6. Up' \subseteq Exists'
  BY DEF Up, Exists
<1>7. \A c \in Ids : cont'[c] # "restarting"
  BY DEF QuietInv
<1> QED
  BY <1>3, <1>4, <1>5, <1>6, <1>7 DEF WriterInv, Verbing, Overlapping, Finishing

(* Two containers with a tile's mounts never run at once, whatever jobs    *)
(* and verbs run on the tile and wherever the context or the panel dies,   *)
(* as long as no Docker call fails by itself and no container dies; a      *)
(* start or restart verb that found two containers with mounts suspends it *)
(* until the next rollout that succeeds.                                   *)
THEOREM DataHasOneWriter == Spec => []OneWriter
<1> DEFINE Calm == faults = 0 /\ deaths = 0 /\ ~doubled
           Inv == TypeOK /\ AgeInv /\ LoopInv /\ CleanInv /\ FreshInv /\ QuietInv
                  /\ (Calm => WriterInv)
<1>1. Init => Inv
  <2>1. Init => AgeInv
    BY DEF Init, AgeInv
  <2>2. Init => LoopInv
    BY DEF Init, LoopInv, Overlapping, Stopping, Finishing, Verbing
  <2>3. Init => WriterInv
    BY DEF Init, WriterInv, Overlapping, Finishing, Verbing, Up
  <2>4. Init => CleanInv
    BY DEF Init, CleanInv, Finishing
  <2>5. Init => FreshInv /\ QuietInv
    BY DEF Init, FreshInv, QuietInv, Overlapping, Stopping, Finishing
  <2> QED
    BY <2>1, <2>2, <2>3, <2>4, <2>5, TypeInit
<1>2. Inv /\ [Next]_vars => Inv'
  <2> SUFFICES ASSUME Inv, [Next]_vars PROVE Inv'
    OBVIOUS
  <2>1. TypeOK' /\ AgeInv' /\ LoopInv' /\ CleanInv'
    BY TypeStep, AgeStep, LoopStep, CleanStep
  <2>2. FreshInv' /\ QuietInv'
    BY <2>1, FreshStep, QuietStep
  <2>3. ASSUME Calm' PROVE WriterInv'
    <3>1. faults = 0 /\ deaths = 0
      BY <2>1, <2>3, WeatherGrows
    <3>2. CASE doubled
      BY <2>1, <2>2, <2>3, <3>2, MendStep
    <3>3. CASE ~doubled
      BY <2>3, <3>1, <3>3, WriterStep
    <3> QED
      BY <3>2, <3>3
  <2> QED
    BY <2>1, <2>2, <2>3
<1>3. Inv => OneWriter
  BY DEF WriterInv, OneWriter
<1> QED
  BY <1>1, <1>2, <1>3, PTL DEF Spec

=============================================================================
