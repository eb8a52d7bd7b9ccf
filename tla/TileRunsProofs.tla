---------------------------- MODULE TileRunsProofs ----------------------------
(***************************************************************************)
(* Theorems about the runs of a cron or function tile, for any number of   *)
(* requests, rows, stops, failing writes and deaths of the panel.          *)
(***************************************************************************)
EXTENDS TileRuns, TLAPS, WellFoundedInduction

(***************************************************************************)
(* The inductive invariant                                                 *)
(***************************************************************************)

(* A call past its insert carries the row it wrote.                        *)
Carries(c) == call[c].step \in {"refuse", "enqueue", "link", "body"}

(* A row not yet written has no job, no body and no container.             *)
Ahead ==
    \A r \in Ids : r > last =>
        row[r] = "none" /\ job[r] = "none" /\ at[r] = "no" /\ r \notin inline \cup linked

(* Callers carry written rows, each its own; what a caller has not queued  *)
(* yet has no job, and a row with a link has or had one.                   *)
CallsApart ==
    /\ \A c \in Everyone : Carries(c) => call[c].run \in 1..last
    /\ \A c, d \in Everyone : Carries(c) /\ Carries(d) /\ call[c].run = call[d].run => c = d
    /\ \A c \in Everyone : call[c].step = "enqueue" =>
          job[call[c].run] = "none" /\ call[c].run \notin inline
    /\ \A c \in Everyone : call[c].step = "link" => job[call[c].run] # "none"
    /\ \A c \in Everyone : call[c].step = "body" => call[c].run \in inline
    /\ \A r \in linked : job[r] # "none"

(* A body runs under a running job, or inside a deploy; the lock set keeps *)
(* the bodies of two jobs apart.                                           *)
BodiesApart ==
    /\ \A r \in inline : job[r] = "none"
    /\ \A r \in Ids \ inline : at[r] # "no" => job[r] = "running"
    /\ \A r, s \in Ids \ inline : at[r] # "no" /\ at[s] # "no" => r = s

(* While Docker obeys and the panel lives, a container has its waiter.     *)
Awaited == crashes = 0 /\ faults = 0 => \A r \in cont : at[r] = "wait"

(* A body that returns no error leaves its row closed.                     *)
NilIsClosed == \A r \in Ids : at[r] = "end" /\ verdict[r] = "nil" => ~Open(row[r])

(* While every write succeeds, an open row has a link or is carried.       *)
OpenIsHeld ==
    faults = 0 => \A r \in Ids : Open(row[r]) /\ r \notin linked =>
                      \E c \in Everyone : Carries(c) /\ call[c].run = r

(* The runs whose job StopRun has cancelled.                               *)
CancelledRuns == stopped \cup {r \in Ids : stop.step = "close" /\ stop.link /\ stop.run = r}

(* A job StopRun has cancelled does not start again, and a body that still *)
(* runs under it has a dead context.                                       *)
CancelHolds ==
    /\ stop.link => stop.run \in linked
    /\ stop.step = "cancel" => stop.link
    /\ \A r \in CancelledRuns :
          r \in linked /\ job[r] \in {"running", "over"} /\ (at[r] # "no" => r \in dead)

RunsInv ==
    /\ TypeOK /\ Ahead /\ CallsApart /\ BodiesApart
    /\ Awaited /\ NilIsClosed /\ OpenIsHeld /\ CancelHolds

(***************************************************************************)
(* Types                                                                   *)
(***************************************************************************)

RowType == row \in [Ids -> {"none", "queued", "running", "ok", "failed", "cancelled", "gone"}]

CallType ==
    /\ call \in [Everyone -> [step : CallSteps, run : 0..MaxRuns, busy : BOOLEAN]]
    /\ \A c \in Everyone : call[c].step \in {"refuse", "enqueue", "link", "body"} => call[c].run # 0

BudgetType == stops \in 0..MaxStops /\ faults \in 0..MaxFaults /\ crashes \in 0..MaxCrashes

(* A failing write counts one fault and nothing else.                      *)
LEMMA FaultTypes ==
    ASSUME TypeOK, Fault \/ UNCHANGED budgets PROVE BudgetType'
  BY RunsAssumption DEF TypeOK, Fault, budgets, BudgetType

(* Finish closes the row, leaves a closed one, or fails.                   *)
LEMMA FinishTypes ==
    ASSUME TypeOK, NEW r \in Ids, NEW s \in {"ok", "failed", "cancelled"}, Finish(r, s)
    PROVE  RowType' /\ BudgetType'
<1>1. CASE row' = Finished(row, r, s) /\ UNCHANGED budgets
  BY <1>1, FaultTypes DEF TypeOK, RowType, Finished
<1>2. CASE UNCHANGED row /\ Fault
  BY <1>2, FaultTypes DEF TypeOK, RowType
<1> QED
  BY <1>1, <1>2 DEF Finish

(* A caller's step to a record of the right shape keeps the calls' type.   *)
LEMMA CallTypes ==
    ASSUME TypeOK, NEW c \in Everyone,
           NEW st \in CallSteps, NEW n \in 0..MaxRuns, NEW b \in BOOLEAN,
           st \in {"refuse", "enqueue", "link", "body"} => n # 0,
           call' = [call EXCEPT ![c] = [step |-> st, run |-> n, busy |-> b]]
    PROVE  CallType'
  BY DEF TypeOK, CallType

(* A call that ends leaves no row behind.                                  *)
LEMMA CallEndsTypes ==
    ASSUME TypeOK, NEW c \in Everyone, CallEnds(c) PROVE CallType'
<1>1. "idle" \in CallSteps /\ 0 \in 0..MaxRuns /\ FALSE \in BOOLEAN
  BY RunsAssumption DEF CallSteps
<1> QED
  BY <1>1, CallTypes DEF CallEnds, NoCall

(* Active finds a row or none: a finite set of open rows has a newest.     *)
LEMMA NewestType ==
    ASSUME TypeOK PROVE Newest \in 0..MaxRuns
<1>1. CASE \E r \in Ids : Open(row[r])
  <2> DEFINE T == {n \in Nat : \E r \in Ids : Open(row[r]) /\ n = MaxRuns - r}
             less == OpToRel(<, Nat)
  <2>1. T \subseteq Nat /\ T # {}
    <3>1. PICK r \in Ids : Open(row[r])
      BY <1>1
    <3>2. MaxRuns - r \in T
      BY <3>1, RunsAssumption DEF Ids
    <3> QED
      BY <3>2
  <2>2. PICK x \in T : \A y \in T : ~(<<y, x>> \in less)
    <3> HIDE DEF T
    <3> QED
      BY <2>1, WFMin, NatLessThanWellFounded
  <2>3. \A y \in T : ~(y < x)
    <3> SUFFICES ASSUME NEW y \in T, y < x PROVE FALSE
      OBVIOUS
    <3>1. <<y, x>> \in less
      BY DEF OpToRel
    <3> QED
      BY <2>2, <3>1
  <2>4. PICK r \in Ids : Open(row[r]) /\ x = MaxRuns - r
    OBVIOUS
  <2>5. ASSUME NEW s \in Ids, Open(row[s]) PROVE s <= r
    <3>1. MaxRuns - s \in T
      BY <2>5, RunsAssumption DEF Ids
    <3>2. ~(MaxRuns - s < x)
      BY <2>3, <3>1
    <3> QED
      BY <2>4, <3>2, RunsAssumption DEF Ids
  <2>6. Newest \in Ids
    BY <1>1, <2>4, <2>5 DEF Newest
  <2> QED
    BY <2>6, RunsAssumption DEF Ids
<1>2. CASE ~\E r \in Ids : Open(row[r])
  BY <1>2, RunsAssumption DEF Newest
<1> QED
  BY <1>1, <1>2

(* Insert writes the next row as queued; of the others it prunes only      *)
(* closed ones.                                                            *)
LEMMA InsertFacts ==
    ASSUME TypeOK, NEW c \in Everyone, Insert(c)
    PROVE  /\ last' = last + 1 /\ last' \in Ids
           /\ RowType'
           /\ row'[last'] = "queued"
           /\ \A r \in Ids \ {last'} :
                 row'[r] = row[r] \/ (Closed(row[r]) /\ row'[r] = "gone")
<1>1. last' = last + 1 /\ last' \in Ids
  BY RunsAssumption DEF TypeOK, Insert, Ids
<1> DEFINE f == [row EXCEPT ![last'] = "queued"]
<1>2. row' = [r \in Ids |-> IF r \in Pruned(f, last') THEN "gone" ELSE f[r]]
  BY DEF Insert
<1>3. last' \notin Pruned(f, last')
  BY <1>1, <1>2 DEF TypeOK, Pruned, Closed
<1>4. \A r \in Ids \ {last'} : r \in Pruned(f, last') => Closed(row[r])
  BY <1>1, <1>2 DEF TypeOK, Pruned
<1> QED
  BY <1>1, <1>2, <1>3, <1>4 DEF TypeOK, RowType

(* Every action keeps the types.                                           *)
LEMMA TypeStep == TypeOK /\ [Next]_vars => TypeOK'
<1> SUFFICES ASSUME TypeOK, [Next]_vars PROVE TypeOK'
  OBVIOUS
<1>1. ASSUME NEW c \in Everyone, Trigger(c)
      PROVE  TypeOK'
  BY <1>1, RunsAssumption DEF TypeOK, Ids, Steps, CallSteps, NoCall, NoStop,
     Trigger, Goto, rowVars, bodyVars, budgets
<1>2. ASSUME NEW c \in Everyone, ReadActive(c)
      PROVE  TypeOK'
  <2>1. CallType'
    <3> DEFINE b == Newest # 0 /\ Newest \notin linked
    <3>1. "job" \in CallSteps /\ b \in BOOLEAN
      BY DEF CallSteps
    <3>2. call' = [call EXCEPT ![c] = [step |-> "job", run |-> Newest, busy |-> b]]
      BY <1>2 DEF ReadActive
    <3> QED
      BY <3>1, <3>2, NewestType, CallTypes
  <2> QED
    BY <1>2, <2>1 DEF TypeOK, RowType, CallType, BudgetType, ReadActive, rowVars, bodyVars, budgets
<1>3. ASSUME NEW c \in Everyone, ReadJob(c)
      PROVE  TypeOK'
  <2>1. CallType'
    <3>1. ASSUME NEW b \in BOOLEAN, call' = [call EXCEPT ![c] = [step |-> "insert", run |-> 0, busy |-> b]]
          PROVE  CallType'
      <4>1. "insert" \in CallSteps /\ 0 \in 0..MaxRuns
        BY RunsAssumption DEF CallSteps
      <4> QED
        BY <3>1, <4>1, CallTypes
    <3> QED
      BY <1>3, <3>1, CallEndsTypes DEF ReadJob, TypeOK
  <2>2. RowType' /\ BudgetType'
    <3>1. CASE UNCHANGED row
      BY <1>3, <3>1, FaultTypes DEF ReadJob, TypeOK, RowType
    <3>2. CASE row' = Finished(row, call[c].run, "cancelled")
      BY <1>3, <3>2, FaultTypes DEF ReadJob, TypeOK, RowType, Finished
    <3> QED
      BY <1>3, <3>1, <3>2 DEF ReadJob
  <2> QED
    BY <1>3, <2>1, <2>2 DEF TypeOK, RowType, CallType, BudgetType, ReadJob, bodyVars
<1>4. ASSUME NEW c \in Everyone, Insert(c)
      PROVE  TypeOK'
  <2>1. /\ last' = last + 1 /\ last' \in Ids /\ RowType'
    BY <1>4, InsertFacts
  <2>2. CallType'
    <3>1. ASSUME NEW st \in {"refuse", "enqueue", "body"},
                 call' = [call EXCEPT ![c] = [step |-> st, run |-> last', busy |-> FALSE]]
          PROVE  CallType'
      <4>1. st \in CallSteps /\ last' \in 0..MaxRuns /\ last' # 0
        BY <2>1, RunsAssumption DEF CallSteps, Ids
      <4> QED
        BY <3>1, <4>1, CallTypes
    <3> QED
      BY <1>4, <3>1, CallEndsTypes DEF Insert
  <2>3. BudgetType'
    BY <1>4, FaultTypes DEF Insert
  <2>4. inline' \subseteq Ids /\ at' \in [Ids -> Steps] /\ \A r \in Ids : at[r] # "no" => at'[r] # "no"
    BY <1>4, <2>1 DEF TypeOK, Insert, Steps
  <2> QED
    BY <1>4, <2>1, <2>2, <2>3, <2>4, RunsAssumption DEF TypeOK, RowType, CallType,
       BudgetType, Insert, Ids
<1>5. ASSUME NEW c \in Everyone, Refuse(c)
      PROVE  TypeOK'
  <2>1. RowType' /\ BudgetType'
    BY <1>5, FinishTypes DEF TypeOK, Refuse, Ids
  <2>2. CallType'
    BY <1>5, CallEndsTypes DEF Refuse
  <2> QED
    BY <1>5, <2>1, <2>2 DEF TypeOK, RowType, CallType, BudgetType, Refuse, bodyVars
<1>6. ASSUME NEW c \in Everyone, Enqueue(c)
      PROVE  TypeOK'
  <2>1. call[c].run \in Ids
    BY <1>6 DEF TypeOK, Enqueue, Ids
  <2>2. CallType' /\ RowType' /\ BudgetType'
    <3>1. CASE Goto(c, "link") /\ UNCHANGED <<row, budgets>>
      <4>1. CallType'
        BY <1>6, <3>1 DEF TypeOK, CallType, Enqueue, Goto, CallSteps
      <4> QED
        BY <3>1, <4>1, FaultTypes DEF TypeOK, RowType
    <3>2. CASE Finish(call[c].run, "failed") /\ CallEnds(c)
      BY <2>1, <3>2, FinishTypes, CallEndsTypes
    <3> QED
      BY <1>6, <3>1, <3>2 DEF Enqueue
  <2>3. job' \in [Ids -> {"none", "queued", "waiting", "running", "over"}]
    BY <1>6, <2>1 DEF TypeOK, Enqueue
  <2> QED
    BY <1>6, <2>2, <2>3 DEF TypeOK, RowType, CallType, BudgetType, Enqueue, bodyVars
<1>7. ASSUME NEW c \in Everyone, Link(c)
      PROVE  TypeOK'
  <2>1. CallType' /\ BudgetType'
    BY <1>7, CallEndsTypes, FaultTypes DEF Link
  <2>2. RowType' /\ linked' \subseteq Ids
    <3>1. call[c].run \in Ids
      BY <1>7 DEF TypeOK, Link, Ids
    <3> QED
      BY <1>7, <3>1 DEF TypeOK, Link, LinkedRow, RowType
  <2> QED
    BY <1>7, <2>1, <2>2 DEF TypeOK, RowType, CallType, BudgetType, Link, bodyVars
<1>8. ASSUME NEW c \in Everyone, InlineEnds(c)
      PROVE  TypeOK'
  <2>1. CallType' /\ BudgetType'
    BY <1>8, CallEndsTypes, FaultTypes DEF InlineEnds
  <2>2. RowType'
    BY <1>8 DEF TypeOK, InlineEnds, InlineClosed, Finished, RowType, Ids
  <2>3. /\ at' \in [Ids -> Steps]
        /\ verdict' \in [Ids -> {"none", "nil", "error", "unset", "ok", "failed"}]
        /\ dead' \subseteq {r \in Ids : at'[r] # "no"}
    BY <1>8 DEF TypeOK, InlineEnds, BodyIsOver, BodyGoto, Steps
  <2> QED
    BY <1>8, <2>1, <2>2, <2>3 DEF TypeOK, RowType, CallType, BudgetType, InlineEnds
<1>9. ASSUME NEW r \in Ids, StartJob(r)
      PROVE  TypeOK'
  BY <1>9, RunsAssumption DEF TypeOK, Ids, Steps, CallSteps, NoCall, NoStop,
     StartJob, TileFree, BodyGoto, rowVars, bodyVars, budgets
<1>10. ASSUME NEW r \in Ids, BodyGet(r)
      PROVE  TypeOK'
  BY <1>10, RunsAssumption DEF TypeOK, Ids, Steps, CallSteps, NoCall, NoStop,
     BodyGet, Bodys, BodyGoto, BodyReturns, Open, rowVars, bodyVars, budgets
<1>11. ASSUME NEW r \in Ids, BodySkips(r)
      PROVE  TypeOK'
  BY <1>11, RunsAssumption DEF TypeOK, Ids, Steps, CallSteps, NoCall, NoStop,
     BodySkips, Bodys, BodyGoto, BodyReturns, Finish, Fault, Finished, Open,
     rowVars, bodyVars, budgets
<1>12. ASSUME NEW r \in Ids, BodyFails(r)
      PROVE  TypeOK'
  BY <1>12, RunsAssumption DEF TypeOK, Ids, Steps, CallSteps, NoCall, NoStop,
     BodyFails, Bodys, BodyGoto, BodyReturns, Finish, Fault, Finished, Open,
     rowVars, bodyVars, budgets
<1>13. ASSUME NEW r \in Ids, BodyUnset(r)
      PROVE  TypeOK'
  BY <1>13, RunsAssumption DEF TypeOK, Ids, Steps, CallSteps, NoCall, NoStop,
     BodyUnset, Bodys, BodyGoto, BodyReturns, rowVars, bodyVars, budgets
<1>14. ASSUME NEW r \in Ids, BodyBegins(r)
      PROVE  TypeOK'
  <2>1. RowType' /\ BudgetType'
    BY <1>14, FaultTypes DEF BodyBegins, TypeOK, RowType
  <2>2. at' \in [Ids -> Steps] /\ at'[r] # "no" /\ \A s \in Ids \ {r} : at'[s] = at[s]
    BY <1>14 DEF TypeOK, BodyBegins, BodyReturns, BodyGoto, Steps
  <2>3. verdict' \in [Ids -> {"none", "nil", "error", "unset", "ok", "failed"}] /\ cont' \subseteq Ids
    BY <1>14 DEF TypeOK, BodyBegins, BodyReturns
  <2> QED
    BY <1>14, <2>1, <2>2, <2>3 DEF TypeOK, RowType, CallType, BudgetType, BodyBegins, Bodys
<1>15. ASSUME NEW r \in Ids, BodyRuns(r)
      PROVE  TypeOK'
  BY <1>15, RunsAssumption DEF TypeOK, Ids, Steps, CallSteps, NoCall, NoStop,
     BodyRuns, Bodys, BodyGoto, rowVars, bodyVars, budgets
<1>16. ASSUME NEW r \in Ids, BodyWaited(r)
      PROVE  TypeOK'
  <2>1. RowType' /\ BudgetType'
    BY <1>16, FaultTypes DEF BodyWaited, TypeOK, RowType
  <2>2. at' \in [Ids -> Steps] /\ at'[r] # "no" /\ \A s \in Ids \ {r} : at'[s] = at[s]
    BY <1>16 DEF TypeOK, BodyWaited, BodyReturns, BodyGoto, Steps
  <2>3. verdict' \in [Ids -> {"none", "nil", "error", "unset", "ok", "failed"}] /\ cont' \subseteq Ids
    BY <1>16 DEF TypeOK, BodyWaited, BodyReturns
  <2> QED
    BY <1>16, <2>1, <2>2, <2>3 DEF TypeOK, RowType, CallType, BudgetType, BodyWaited, Bodys
<1>17. ASSUME NEW r \in Ids, BodyCloses(r)
      PROVE  TypeOK'
  <2>1. RowType' /\ BudgetType'
    <3>1. CASE Finish(r, IF r \in dead THEN "cancelled" ELSE "failed")
      BY <3>1, FinishTypes
    <3>2. CASE row' = Finished(row, r, "ok") /\ UNCHANGED budgets
      BY <3>2, FinishTypes DEF Finish
    <3>3. CASE UNCHANGED row /\ (Fault \/ UNCHANGED budgets)
      BY <3>3, FaultTypes DEF TypeOK, RowType
    <3> QED
      BY <1>17, <3>1, <3>2, <3>3 DEF BodyCloses, budgets
  <2>2. at' \in [Ids -> Steps] /\ at'[r] # "no" /\ \A s \in Ids \ {r} : at'[s] = at[s]
    BY <1>17 DEF TypeOK, BodyCloses, BodyReturns, BodyGoto, Steps
  <2>3. verdict' \in [Ids -> {"none", "nil", "error", "unset", "ok", "failed"}] /\ cont' \subseteq Ids
    BY <1>17 DEF TypeOK, BodyCloses, BodyReturns
  <2> QED
    BY <1>17, <2>1, <2>2, <2>3 DEF TypeOK, RowType, CallType, BudgetType, BodyCloses, Bodys
<1>18. ASSUME NEW r \in Ids, JobEnds(r)
      PROVE  TypeOK'
  BY <1>18, RunsAssumption DEF TypeOK, Ids, Steps, CallSteps, NoCall, NoStop,
     JobEnds, BodyIsOver, BodyGoto, Fault, rowVars, bodyVars, budgets
<1>19. ASSUME NEW r \in Ids, ContainerExits(r)
      PROVE  TypeOK'
  BY <1>19, RunsAssumption DEF TypeOK, Ids, Steps, CallSteps, NoCall, NoStop,
     ContainerExits, rowVars, bodyVars, budgets
<1>20. ASSUME NEW r \in Ids, Unpark(r)
      PROVE  TypeOK'
  BY <1>20, RunsAssumption DEF TypeOK, Ids, Steps, CallSteps, NoCall, NoStop,
     Unpark, rowVars, bodyVars, budgets
<1>21. ASSUME NEW r \in Ids, PressStop(r)
      PROVE  TypeOK'
  <2>1. stops' \in 0..MaxStops
    BY <1>21, RunsAssumption DEF TypeOK, PressStop
  <2>2. job' \in [Ids -> {"none", "queued", "waiting", "running", "over"}]
    BY <1>21 DEF TypeOK, PressStop, Cancel
  <2>3. dead' \subseteq {s \in Ids : at[s] # "no"}
    BY <1>21 DEF TypeOK, PressStop, Cancel
  <2> QED
    BY <1>21, <2>1, <2>2, <2>3 DEF TypeOK, PressStop, rowVars
<1>22. ASSUME NEW r \in Ids, StopRead(r)
      PROVE  TypeOK'
  BY <1>22, RunsAssumption DEF TypeOK, Ids, Steps, CallSteps, NoCall, NoStop,
     StopRead, Open, rowVars, bodyVars, budgets
<1>23. ASSUME StopJob
      PROVE  TypeOK'
  <2>1. stop.run \in Ids
    BY <1>23 DEF TypeOK, StopJob, Ids
  <2>2. BudgetType'
    BY <1>23, FaultTypes DEF StopJob
  <2>3. job' \in [Ids -> {"none", "queued", "waiting", "running", "over"}]
    BY <1>23, <2>1 DEF TypeOK, StopJob, StopCancels, Cancel
  <2>4. dead' \subseteq {s \in Ids : at[s] # "no"}
    BY <1>23, <2>1 DEF TypeOK, StopJob, StopCancels, Cancel
  <2>5. /\ stop' \in [step : {"idle", "cancel", "close"}, run : 0..MaxRuns, link : BOOLEAN]
        /\ stop'.step # "idle" => stop'.run # 0
    <3>1. CASE stop' = [stop EXCEPT !.step = "close"]
      BY <2>1, <3>1 DEF TypeOK, Ids
    <3>2. CASE stop' = NoStop
      BY <3>2, RunsAssumption DEF NoStop
    <3> QED
      BY <1>23, <3>1, <3>2 DEF StopJob
  <2> QED
    BY <1>23, <2>2, <2>3, <2>4, <2>5 DEF TypeOK, BudgetType, StopJob, rowVars
<1>24. ASSUME StopClose
      PROVE  TypeOK'
  <2>1. stop.run \in Ids
    BY <1>24 DEF TypeOK, StopClose, Ids
  <2>2. RowType' /\ BudgetType'
    BY <1>24, <2>1, FinishTypes DEF StopClose
  <2>3. stop' \in [step : {"idle", "cancel", "close"}, run : 0..MaxRuns, link : BOOLEAN] /\ stop'.step = "idle"
    BY <1>24, RunsAssumption DEF StopClose, NoStop
  <2>4. stopped' \subseteq Ids
    BY <1>24, <2>1 DEF TypeOK, StopClose
  <2> QED
    BY <1>24, <2>2, <2>3, <2>4 DEF TypeOK, RowType, BudgetType, StopClose, bodyVars
<1>25. ASSUME PanelDies
      PROVE  TypeOK'
  BY <1>25, RunsAssumption DEF TypeOK, Ids, Steps, CallSteps, NoCall, NoStop,
     PanelDies, Interrupted, rowVars, bodyVars, budgets
<1>26. CASE UNCHANGED vars
  BY <1>26 DEF TypeOK, Ids, Steps, CallSteps, NoCall, NoStop, vars, rowVars, bodyVars, budgets
<1> QED
  BY <1>1, <1>2, <1>3, <1>4, <1>5, <1>6, <1>7, <1>8, <1>9, <1>10, <1>11, <1>12, <1>13,
     <1>14, <1>15, <1>16, <1>17, <1>18, <1>19, <1>20, <1>21, <1>22, <1>23, <1>24, <1>25, <1>26
     DEF Next, Body

(* A row not yet written stays untouched.                                  *)
LEMMA AheadStep == RunsInv /\ [Next]_vars => Ahead'
<1> SUFFICES ASSUME RunsInv, [Next]_vars PROVE Ahead'
  OBVIOUS
<1>1. ASSUME NEW c \in Everyone, Trigger(c)
      PROVE  Ahead'
  BY <1>1, RunsAssumption DEF RunsInv, TypeOK, Ids, Ahead, CallsApart, Carries,
     Trigger, Goto, rowVars, bodyVars, budgets
<1>2. ASSUME NEW c \in Everyone, ReadActive(c)
      PROVE  Ahead'
  BY <1>2, RunsAssumption DEF RunsInv, TypeOK, Ids, Ahead, CallsApart, Carries,
     ReadActive, rowVars, bodyVars, budgets
<1>3. ASSUME NEW c \in Everyone, ReadJob(c)
      PROVE  Ahead'
  BY <1>3, RunsAssumption DEF RunsInv, TypeOK, Ids, Ahead, CallsApart, Carries,
     ReadJob, Fault, CallEnds, NoCall, Finished, Open, rowVars, bodyVars, budgets
<1>4. ASSUME NEW c \in Everyone, Insert(c)
      PROVE  Ahead'
  BY <1>4, RunsAssumption DEF RunsInv, TypeOK, Ids, Ahead, CallsApart, Carries,
     Insert, Fault, CallEnds, NoCall, Pruned, Closed, Open, rowVars, bodyVars,
     budgets
<1>5. ASSUME NEW c \in Everyone, Refuse(c)
      PROVE  Ahead'
  BY <1>5, RunsAssumption DEF RunsInv, TypeOK, Ids, Ahead, CallsApart, Carries,
     Refuse, Finish, Fault, Finished, Open, CallEnds, NoCall, rowVars, bodyVars,
     budgets
<1>6. ASSUME NEW c \in Everyone, Enqueue(c)
      PROVE  Ahead'
  BY <1>6, RunsAssumption DEF RunsInv, TypeOK, Ids, Ahead, CallsApart, Carries,
     Enqueue, Finish, Fault, Finished, Open, Goto, CallEnds, NoCall, rowVars,
     bodyVars, budgets
<1>7. ASSUME NEW c \in Everyone, Link(c)
      PROVE  Ahead'
  BY <1>7, RunsAssumption DEF RunsInv, TypeOK, Ids, Ahead, CallsApart, Carries,
     Link, Fault, LinkedRow, CallEnds, NoCall, rowVars, bodyVars, budgets
<1>8. ASSUME NEW c \in Everyone, InlineEnds(c)
      PROVE  Ahead'
  BY <1>8, RunsAssumption DEF RunsInv, TypeOK, Ids, Ahead, CallsApart, Carries,
     InlineEnds, BodyIsOver, BodyGoto, CallEnds, NoCall, Fault, InlineClosed,
     Finished, Open, rowVars, bodyVars, budgets
<1>9. ASSUME NEW r \in Ids, StartJob(r)
      PROVE  Ahead'
  BY <1>9, RunsAssumption DEF RunsInv, TypeOK, Ids, Ahead, CallsApart, Carries,
     StartJob, TileFree, BodyGoto, rowVars, bodyVars, budgets
<1>10. ASSUME NEW r \in Ids, BodyGet(r)
      PROVE  Ahead'
  BY <1>10, RunsAssumption DEF RunsInv, TypeOK, Ids, Ahead, CallsApart, Carries,
     BodyGet, Bodys, BodyGoto, BodyReturns, Open, rowVars, bodyVars, budgets
<1>11. ASSUME NEW r \in Ids, BodySkips(r)
      PROVE  Ahead'
  BY <1>11, RunsAssumption DEF RunsInv, TypeOK, Ids, Ahead, CallsApart, Carries,
     BodySkips, Bodys, BodyGoto, BodyReturns, Finish, Fault, Finished, Open,
     rowVars, bodyVars, budgets
<1>12. ASSUME NEW r \in Ids, BodyFails(r)
      PROVE  Ahead'
  BY <1>12, RunsAssumption DEF RunsInv, TypeOK, Ids, Ahead, CallsApart, Carries,
     BodyFails, Bodys, BodyGoto, BodyReturns, Finish, Fault, Finished, Open,
     rowVars, bodyVars, budgets
<1>13. ASSUME NEW r \in Ids, BodyUnset(r)
      PROVE  Ahead'
  BY <1>13, RunsAssumption DEF RunsInv, TypeOK, Ids, Ahead, CallsApart, Carries,
     BodyUnset, Bodys, BodyGoto, BodyReturns, rowVars, bodyVars, budgets
<1>14. ASSUME NEW r \in Ids, BodyBegins(r)
      PROVE  Ahead'
  BY <1>14, RunsAssumption DEF RunsInv, TypeOK, Ids, Ahead, CallsApart, Carries,
     BodyBegins, Bodys, BodyGoto, BodyReturns, Fault, Open, rowVars, bodyVars,
     budgets
<1>15. ASSUME NEW r \in Ids, BodyRuns(r)
      PROVE  Ahead'
  BY <1>15, RunsAssumption DEF RunsInv, TypeOK, Ids, Ahead, CallsApart, Carries,
     BodyRuns, Bodys, BodyGoto, rowVars, bodyVars, budgets
<1>16. ASSUME NEW r \in Ids, BodyWaited(r)
      PROVE  Ahead'
  BY <1>16, RunsAssumption DEF RunsInv, TypeOK, Ids, Ahead, CallsApart, Carries,
     BodyWaited, Bodys, BodyGoto, Fault, rowVars, bodyVars, budgets
<1>17. ASSUME NEW r \in Ids, BodyCloses(r)
      PROVE  Ahead'
  BY <1>17, RunsAssumption DEF RunsInv, TypeOK, Ids, Ahead, CallsApart, Carries,
     BodyCloses, Bodys, BodyGoto, BodyReturns, Finish, Fault, Finished, Open,
     rowVars, bodyVars, budgets
<1>18. ASSUME NEW r \in Ids, JobEnds(r)
      PROVE  Ahead'
  BY <1>18, RunsAssumption DEF RunsInv, TypeOK, Ids, Ahead, CallsApart, Carries,
     JobEnds, BodyIsOver, BodyGoto, Fault, rowVars, bodyVars, budgets
<1>19. ASSUME NEW r \in Ids, ContainerExits(r)
      PROVE  Ahead'
  BY <1>19, RunsAssumption DEF RunsInv, TypeOK, Ids, Ahead, CallsApart, Carries,
     ContainerExits, rowVars, bodyVars, budgets
<1>20. ASSUME NEW r \in Ids, Unpark(r)
      PROVE  Ahead'
  BY <1>20, RunsAssumption DEF RunsInv, TypeOK, Ids, Ahead, CallsApart, Carries,
     Unpark, rowVars, bodyVars, budgets
<1>21. ASSUME NEW r \in Ids, PressStop(r)
      PROVE  Ahead'
  BY <1>21, RunsAssumption DEF RunsInv, TypeOK, Ids, Ahead, CallsApart, Carries,
     PressStop, Live, Cancel, rowVars, bodyVars, budgets
<1>22. ASSUME NEW r \in Ids, StopRead(r)
      PROVE  Ahead'
  BY <1>22, RunsAssumption DEF RunsInv, TypeOK, Ids, Ahead, CallsApart, Carries,
     StopRead, Open, rowVars, bodyVars, budgets
<1>23. ASSUME StopJob
      PROVE  Ahead'
  BY <1>23, RunsAssumption DEF RunsInv, TypeOK, Ids, Ahead, CallsApart, Carries,
     StopJob, StopCancels, Cancel, Fault, NoStop, rowVars, bodyVars, budgets
<1>24. ASSUME StopClose
      PROVE  Ahead'
  BY <1>24, RunsAssumption DEF RunsInv, TypeOK, Ids, Ahead, CallsApart, Carries,
     StopClose, Finish, Fault, Finished, Open, NoStop, rowVars, bodyVars, budgets
<1>25. ASSUME PanelDies
      PROVE  Ahead'
  BY <1>25, RunsAssumption DEF RunsInv, TypeOK, Ids, Ahead, CallsApart, Carries,
     PanelDies, Interrupted, NoCall, NoStop, rowVars, bodyVars, budgets
<1>26. CASE UNCHANGED vars
  BY <1>26 DEF RunsInv, TypeOK, Ids, Ahead, CallsApart, Carries, vars, rowVars, bodyVars, budgets
<1> QED
  BY <1>1, <1>2, <1>3, <1>4, <1>5, <1>6, <1>7, <1>8, <1>9, <1>10, <1>11, <1>12, <1>13,
     <1>14, <1>15, <1>16, <1>17, <1>18, <1>19, <1>20, <1>21, <1>22, <1>23, <1>24, <1>25, <1>26
     DEF Next, Body

(* Two callers never come to carry one row, and a job is queued once.      *)
LEMMA CallsStep == RunsInv /\ [Next]_vars => CallsApart'
<1> SUFFICES ASSUME RunsInv, [Next]_vars PROVE CallsApart'
  OBVIOUS
<1>1. ASSUME NEW c \in Everyone, Trigger(c)
      PROVE  CallsApart'
  BY <1>1, RunsAssumption DEF RunsInv, TypeOK, Ids, Ahead, CallsApart, Carries,
     BodiesApart, Trigger, Goto, rowVars, bodyVars, budgets
<1>2. ASSUME NEW c \in Everyone, ReadActive(c)
      PROVE  CallsApart'
  BY <1>2, RunsAssumption DEF RunsInv, TypeOK, Ids, Ahead, CallsApart, Carries,
     BodiesApart, ReadActive, rowVars, bodyVars, budgets
<1>3. ASSUME NEW c \in Everyone, ReadJob(c)
      PROVE  CallsApart'
  <2>1. ~Carries(c)' /\ ~Carries(c) /\ \A d \in Everyone \ {c} : call'[d] = call[d]
    BY <1>3 DEF RunsInv, TypeOK, ReadJob, Carries, CallEnds, NoCall
  <2>2. \A d \in Everyone : Carries(d)' => Carries(d) /\ call'[d] = call[d]
    BY <2>1 DEF Carries
  <2>3. last' = last /\ inline' = inline /\ job' = job /\ linked' = linked
    BY <1>3 DEF ReadJob
  <2> QED
    BY <2>1, <2>2, <2>3 DEF RunsInv, CallsApart, Carries
<1>4. ASSUME NEW c \in Everyone, Insert(c)
      PROVE  CallsApart'
  <2>1. last' = last + 1 /\ last' \in Ids /\ last \in Nat
    BY <1>4, InsertFacts DEF RunsInv, TypeOK
  <2>2. \A d \in Everyone \ {c} : call'[d] = call[d]
    BY <1>4 DEF RunsInv, TypeOK, Insert, CallEnds
  <2>3. Carries(c)' => call'[c].run = last'
    BY <1>4 DEF RunsInv, TypeOK, Insert, CallEnds, NoCall, Carries
  <2>4. /\ call'[c].step # "link"
        /\ call'[c].step = "body" => last' \in inline'
        /\ call'[c].step = "enqueue" => inline' = inline
        /\ inline' \in {inline, inline \cup {last'}}
    BY <1>4 DEF RunsInv, TypeOK, Insert, CallEnds, NoCall
  <2>5. job[last'] = "none" /\ last' \notin inline
    BY <2>1 DEF RunsInv, Ahead
  <2>6. \A d \in Everyone \ {c} : Carries(d)' => call'[d].run \in 1..last
    BY <2>2 DEF RunsInv, CallsApart, Carries
  <2>7. \A d, e \in Everyone : Carries(d)' /\ Carries(e)' /\ call'[d].run = call'[e].run => d = e
    BY <2>1, <2>2, <2>3, <2>6 DEF RunsInv, CallsApart, Carries
  <2>8. \A d \in Everyone : call'[d].step = "enqueue" => job[call'[d].run] = "none" /\ call'[d].run \notin inline'
    BY <2>1, <2>2, <2>3, <2>4, <2>5, <2>6 DEF RunsInv, CallsApart, Carries
  <2> QED
    BY <1>4, <2>1, <2>2, <2>3, <2>4, <2>6, <2>7, <2>8 DEF RunsInv, CallsApart, Carries, Insert
<1>5. ASSUME NEW c \in Everyone, Refuse(c)
      PROVE  CallsApart'
  BY <1>5, RunsAssumption DEF RunsInv, TypeOK, Ids, Ahead, CallsApart, Carries,
     BodiesApart, Refuse, Finish, Fault, Finished, Open, CallEnds, NoCall, rowVars,
     bodyVars, budgets
<1>6. ASSUME NEW c \in Everyone, Enqueue(c)
      PROVE  CallsApart'
  <2>1. CASE job' = [job EXCEPT ![call[c].run] = "queued"] /\ Goto(c, "link")
    <3>1. Carries(c) /\ call[c].run \in Ids
      BY <1>6 DEF RunsInv, TypeOK, Enqueue, Carries, Ids
    <3>2. call'[c].step = "link" /\ call'[c].run = call[c].run /\ \A d \in Everyone \ {c} : call'[d] = call[d]
      BY <2>1 DEF RunsInv, TypeOK, Goto
    <3>3. job'[call[c].run] = "queued" /\ \A r \in Ids \ {call[c].run} : job'[r] = job[r]
      BY <2>1, <3>1 DEF RunsInv, TypeOK
    <3>4. \A d \in Everyone \ {c} : Carries(d) => call[d].run \in Ids \ {call[c].run}
      BY <3>1 DEF RunsInv, TypeOK, CallsApart, Carries, Ids
    <3> QED
      BY <1>6, <3>1, <3>2, <3>3, <3>4 DEF RunsInv, TypeOK, CallsApart, Carries, Enqueue
  <2>2. CASE CallEnds(c) /\ UNCHANGED job
    BY <1>6, <2>2 DEF RunsInv, TypeOK, CallsApart, Carries, Enqueue, CallEnds, NoCall
  <2> QED
    BY <1>6, <2>1, <2>2 DEF Enqueue
<1>7. ASSUME NEW c \in Everyone, Link(c)
      PROVE  CallsApart'
  <2>1. ~Carries(c)' /\ Carries(c) /\ \A d \in Everyone \ {c} : call'[d] = call[d]
    BY <1>7 DEF RunsInv, TypeOK, Link, Carries, CallEnds, NoCall
  <2>2. linked' \subseteq linked \cup {call[c].run} /\ job[call[c].run] # "none"
    BY <1>7 DEF RunsInv, CallsApart, Link
  <2>3. \A r \in linked' : job[r] # "none"
    BY <2>2 DEF RunsInv, CallsApart
  <2>4. \A d \in Everyone : Carries(d)' => Carries(d) /\ call'[d] = call[d]
    BY <2>1 DEF Carries
  <2>5. last' = last /\ inline' = inline /\ job' = job
    BY <1>7 DEF Link
  <2> QED
    BY <2>1, <2>3, <2>4, <2>5 DEF RunsInv, CallsApart, Carries
<1>8. ASSUME NEW c \in Everyone, InlineEnds(c)
      PROVE  CallsApart'
  BY <1>8, RunsAssumption DEF RunsInv, TypeOK, Ids, Ahead, CallsApart, Carries,
     BodiesApart, InlineEnds, BodyIsOver, BodyGoto, CallEnds, NoCall, Fault,
     InlineClosed, Finished, Open, rowVars, bodyVars, budgets
<1>9. ASSUME NEW r \in Ids, StartJob(r)
      PROVE  CallsApart'
  BY <1>9, RunsAssumption DEF RunsInv, TypeOK, Ids, Ahead, CallsApart, Carries,
     BodiesApart, StartJob, TileFree, BodyGoto, rowVars, bodyVars, budgets
<1>10. ASSUME NEW r \in Ids, BodyGet(r)
      PROVE  CallsApart'
  BY <1>10, RunsAssumption DEF RunsInv, TypeOK, Ids, Ahead, CallsApart, Carries,
     BodiesApart, BodyGet, Bodys, BodyGoto, BodyReturns, Open, rowVars, bodyVars,
     budgets
<1>11. ASSUME NEW r \in Ids, BodySkips(r)
      PROVE  CallsApart'
  BY <1>11, RunsAssumption DEF RunsInv, TypeOK, Ids, Ahead, CallsApart, Carries,
     BodiesApart, BodySkips, Bodys, BodyGoto, BodyReturns, Finish, Fault, Finished,
     Open, rowVars, bodyVars, budgets
<1>12. ASSUME NEW r \in Ids, BodyFails(r)
      PROVE  CallsApart'
  BY <1>12, RunsAssumption DEF RunsInv, TypeOK, Ids, Ahead, CallsApart, Carries,
     BodiesApart, BodyFails, Bodys, BodyGoto, BodyReturns, Finish, Fault, Finished,
     Open, rowVars, bodyVars, budgets
<1>13. ASSUME NEW r \in Ids, BodyUnset(r)
      PROVE  CallsApart'
  BY <1>13, RunsAssumption DEF RunsInv, TypeOK, Ids, Ahead, CallsApart, Carries,
     BodiesApart, BodyUnset, Bodys, BodyGoto, BodyReturns, rowVars, bodyVars,
     budgets
<1>14. ASSUME NEW r \in Ids, BodyBegins(r)
      PROVE  CallsApart'
  BY <1>14, RunsAssumption DEF RunsInv, TypeOK, Ids, Ahead, CallsApart, Carries,
     BodiesApart, BodyBegins, Bodys, BodyGoto, BodyReturns, Fault, Open, rowVars,
     bodyVars, budgets
<1>15. ASSUME NEW r \in Ids, BodyRuns(r)
      PROVE  CallsApart'
  BY <1>15, RunsAssumption DEF RunsInv, TypeOK, Ids, Ahead, CallsApart, Carries,
     BodiesApart, BodyRuns, Bodys, BodyGoto, rowVars, bodyVars, budgets
<1>16. ASSUME NEW r \in Ids, BodyWaited(r)
      PROVE  CallsApart'
  BY <1>16, RunsAssumption DEF RunsInv, TypeOK, Ids, Ahead, CallsApart, Carries,
     BodiesApart, BodyWaited, Bodys, BodyGoto, Fault, rowVars, bodyVars, budgets
<1>17. ASSUME NEW r \in Ids, BodyCloses(r)
      PROVE  CallsApart'
  BY <1>17, RunsAssumption DEF RunsInv, TypeOK, Ids, Ahead, CallsApart, Carries,
     BodiesApart, BodyCloses, Bodys, BodyGoto, BodyReturns, Finish, Fault,
     Finished, Open, rowVars, bodyVars, budgets
<1>18. ASSUME NEW r \in Ids, JobEnds(r)
      PROVE  CallsApart'
  BY <1>18, RunsAssumption DEF RunsInv, TypeOK, Ids, Ahead, CallsApart, Carries,
     BodiesApart, JobEnds, BodyIsOver, BodyGoto, Fault, rowVars, bodyVars, budgets
<1>19. ASSUME NEW r \in Ids, ContainerExits(r)
      PROVE  CallsApart'
  BY <1>19, RunsAssumption DEF RunsInv, TypeOK, Ids, Ahead, CallsApart, Carries,
     BodiesApart, ContainerExits, rowVars, bodyVars, budgets
<1>20. ASSUME NEW r \in Ids, Unpark(r)
      PROVE  CallsApart'
  BY <1>20, RunsAssumption DEF RunsInv, TypeOK, Ids, Ahead, CallsApart, Carries,
     BodiesApart, Unpark, rowVars, bodyVars, budgets
<1>21. ASSUME NEW r \in Ids, PressStop(r)
      PROVE  CallsApart'
  BY <1>21, RunsAssumption DEF RunsInv, TypeOK, Ids, Ahead, CallsApart, Carries,
     BodiesApart, PressStop, Live, Cancel, rowVars, bodyVars, budgets
<1>22. ASSUME NEW r \in Ids, StopRead(r)
      PROVE  CallsApart'
  BY <1>22, RunsAssumption DEF RunsInv, TypeOK, Ids, Ahead, CallsApart, Carries,
     BodiesApart, StopRead, Open, rowVars, bodyVars, budgets
<1>23. ASSUME StopJob
      PROVE  CallsApart'
  BY <1>23, RunsAssumption DEF RunsInv, TypeOK, Ids, Ahead, CallsApart, Carries,
     BodiesApart, StopJob, StopCancels, Cancel, Fault, NoStop, rowVars, bodyVars,
     budgets
<1>24. ASSUME StopClose
      PROVE  CallsApart'
  BY <1>24, RunsAssumption DEF RunsInv, TypeOK, Ids, Ahead, CallsApart, Carries,
     BodiesApart, StopClose, Finish, Fault, Finished, Open, NoStop, rowVars,
     bodyVars, budgets
<1>25. ASSUME PanelDies
      PROVE  CallsApart'
  BY <1>25, RunsAssumption DEF RunsInv, TypeOK, Ids, Ahead, CallsApart, Carries,
     BodiesApart, PanelDies, Interrupted, NoCall, NoStop, rowVars, bodyVars, budgets
<1>26. CASE UNCHANGED vars
  BY <1>26 DEF RunsInv, TypeOK, Ids, Ahead, CallsApart, Carries, BodiesApart, vars, rowVars,
     bodyVars, budgets
<1> QED
  BY <1>1, <1>2, <1>3, <1>4, <1>5, <1>6, <1>7, <1>8, <1>9, <1>10, <1>11, <1>12, <1>13,
     <1>14, <1>15, <1>16, <1>17, <1>18, <1>19, <1>20, <1>21, <1>22, <1>23, <1>24, <1>25, <1>26
     DEF Next, Body

(* The lock set keeps the bodies of two jobs apart.                        *)
LEMMA BodiesStep == RunsInv /\ [Next]_vars => BodiesApart'
<1> SUFFICES ASSUME RunsInv, [Next]_vars PROVE BodiesApart'
  OBVIOUS
<1>1. ASSUME NEW c \in Everyone, Trigger(c)
      PROVE  BodiesApart'
  BY <1>1, RunsAssumption DEF RunsInv, TypeOK, Ids, Ahead, CallsApart, Carries,
     BodiesApart, Trigger, Goto, rowVars, bodyVars, budgets
<1>2. ASSUME NEW c \in Everyone, ReadActive(c)
      PROVE  BodiesApart'
  BY <1>2, RunsAssumption DEF RunsInv, TypeOK, Ids, Ahead, CallsApart, Carries,
     BodiesApart, ReadActive, rowVars, bodyVars, budgets
<1>3. ASSUME NEW c \in Everyone, ReadJob(c)
      PROVE  BodiesApart'
  BY <1>3, RunsAssumption DEF RunsInv, TypeOK, Ids, Ahead, CallsApart, Carries,
     BodiesApart, ReadJob, Fault, CallEnds, NoCall, Finished, Open, rowVars,
     bodyVars, budgets
<1>4. ASSUME NEW c \in Everyone, Insert(c)
      PROVE  BodiesApart'
  <2>1. last' = last + 1 /\ last' \in Ids /\ job[last'] = "none" /\ at[last'] = "no"
    BY <1>4, InsertFacts DEF RunsInv, TypeOK, Ahead
  <2>2. \/ UNCHANGED <<inline, at>>
        \/ inline' = inline \cup {last'} /\ at' = [at EXCEPT ![last'] = "get"]
    BY <1>4 DEF Insert
  <2>3. \A r \in Ids \ inline' : at'[r] = at[r] /\ r \notin inline
    BY <2>1, <2>2 DEF RunsInv, TypeOK
  <2> QED
    BY <1>4, <2>1, <2>2, <2>3 DEF RunsInv, BodiesApart, Insert
<1>5. ASSUME NEW c \in Everyone, Refuse(c)
      PROVE  BodiesApart'
  BY <1>5, RunsAssumption DEF RunsInv, TypeOK, Ids, Ahead, CallsApart, Carries,
     BodiesApart, Refuse, Finish, Fault, Finished, Open, CallEnds, NoCall, rowVars,
     bodyVars, budgets
<1>6. ASSUME NEW c \in Everyone, Enqueue(c)
      PROVE  BodiesApart'
  BY <1>6, RunsAssumption DEF RunsInv, TypeOK, Ids, Ahead, CallsApart, Carries,
     BodiesApart, Enqueue, Finish, Fault, Finished, Open, Goto, CallEnds, NoCall,
     rowVars, bodyVars, budgets
<1>7. ASSUME NEW c \in Everyone, Link(c)
      PROVE  BodiesApart'
  BY <1>7, RunsAssumption DEF RunsInv, TypeOK, Ids, Ahead, CallsApart, Carries,
     BodiesApart, Link, Fault, LinkedRow, CallEnds, NoCall, rowVars, bodyVars,
     budgets
<1>8. ASSUME NEW c \in Everyone, InlineEnds(c)
      PROVE  BodiesApart'
  BY <1>8, RunsAssumption DEF RunsInv, TypeOK, Ids, Ahead, CallsApart, Carries,
     BodiesApart, InlineEnds, BodyIsOver, BodyGoto, CallEnds, NoCall, Fault,
     InlineClosed, Finished, Open, rowVars, bodyVars, budgets
<1>9. ASSUME NEW r \in Ids, StartJob(r)
      PROVE  BodiesApart'
  BY <1>9, RunsAssumption DEF RunsInv, TypeOK, Ids, Ahead, CallsApart, Carries,
     BodiesApart, StartJob, TileFree, BodyGoto, rowVars, bodyVars, budgets
<1>10. ASSUME NEW r \in Ids, BodyGet(r)
      PROVE  BodiesApart'
  BY <1>10, RunsAssumption DEF RunsInv, TypeOK, Ids, Ahead, CallsApart, Carries,
     BodiesApart, BodyGet, Bodys, BodyGoto, BodyReturns, Open, rowVars, bodyVars,
     budgets
<1>11. ASSUME NEW r \in Ids, BodySkips(r)
      PROVE  BodiesApart'
  BY <1>11, RunsAssumption DEF RunsInv, TypeOK, Ids, Ahead, CallsApart, Carries,
     BodiesApart, BodySkips, Bodys, BodyGoto, BodyReturns, Finish, Fault, Finished,
     Open, rowVars, bodyVars, budgets
<1>12. ASSUME NEW r \in Ids, BodyFails(r)
      PROVE  BodiesApart'
  BY <1>12, RunsAssumption DEF RunsInv, TypeOK, Ids, Ahead, CallsApart, Carries,
     BodiesApart, BodyFails, Bodys, BodyGoto, BodyReturns, Finish, Fault, Finished,
     Open, rowVars, bodyVars, budgets
<1>13. ASSUME NEW r \in Ids, BodyUnset(r)
      PROVE  BodiesApart'
  BY <1>13, RunsAssumption DEF RunsInv, TypeOK, Ids, Ahead, CallsApart, Carries,
     BodiesApart, BodyUnset, Bodys, BodyGoto, BodyReturns, rowVars, bodyVars,
     budgets
<1>14. ASSUME NEW r \in Ids, BodyBegins(r)
      PROVE  BodiesApart'
  BY <1>14, RunsAssumption DEF RunsInv, TypeOK, Ids, Ahead, CallsApart, Carries,
     BodiesApart, BodyBegins, Bodys, BodyGoto, BodyReturns, Fault, Open, rowVars,
     bodyVars, budgets
<1>15. ASSUME NEW r \in Ids, BodyRuns(r)
      PROVE  BodiesApart'
  BY <1>15, RunsAssumption DEF RunsInv, TypeOK, Ids, Ahead, CallsApart, Carries,
     BodiesApart, BodyRuns, Bodys, BodyGoto, rowVars, bodyVars, budgets
<1>16. ASSUME NEW r \in Ids, BodyWaited(r)
      PROVE  BodiesApart'
  BY <1>16, RunsAssumption DEF RunsInv, TypeOK, Ids, Ahead, CallsApart, Carries,
     BodiesApart, BodyWaited, Bodys, BodyGoto, Fault, rowVars, bodyVars, budgets
<1>17. ASSUME NEW r \in Ids, BodyCloses(r)
      PROVE  BodiesApart'
  BY <1>17, RunsAssumption DEF RunsInv, TypeOK, Ids, Ahead, CallsApart, Carries,
     BodiesApart, BodyCloses, Bodys, BodyGoto, BodyReturns, Finish, Fault,
     Finished, Open, rowVars, bodyVars, budgets
<1>18. ASSUME NEW r \in Ids, JobEnds(r)
      PROVE  BodiesApart'
  BY <1>18, RunsAssumption DEF RunsInv, TypeOK, Ids, Ahead, CallsApart, Carries,
     BodiesApart, JobEnds, BodyIsOver, BodyGoto, Fault, rowVars, bodyVars, budgets
<1>19. ASSUME NEW r \in Ids, ContainerExits(r)
      PROVE  BodiesApart'
  BY <1>19, RunsAssumption DEF RunsInv, TypeOK, Ids, Ahead, CallsApart, Carries,
     BodiesApart, ContainerExits, rowVars, bodyVars, budgets
<1>20. ASSUME NEW r \in Ids, Unpark(r)
      PROVE  BodiesApart'
  BY <1>20, RunsAssumption DEF RunsInv, TypeOK, Ids, Ahead, CallsApart, Carries,
     BodiesApart, Unpark, rowVars, bodyVars, budgets
<1>21. ASSUME NEW r \in Ids, PressStop(r)
      PROVE  BodiesApart'
  BY <1>21, RunsAssumption DEF RunsInv, TypeOK, Ids, Ahead, CallsApart, Carries,
     BodiesApart, PressStop, Live, Cancel, rowVars, bodyVars, budgets
<1>22. ASSUME NEW r \in Ids, StopRead(r)
      PROVE  BodiesApart'
  BY <1>22, RunsAssumption DEF RunsInv, TypeOK, Ids, Ahead, CallsApart, Carries,
     BodiesApart, StopRead, Open, rowVars, bodyVars, budgets
<1>23. ASSUME StopJob
      PROVE  BodiesApart'
  BY <1>23, RunsAssumption DEF RunsInv, TypeOK, Ids, Ahead, CallsApart, Carries,
     BodiesApart, StopJob, StopCancels, Cancel, Fault, NoStop, rowVars, bodyVars,
     budgets
<1>24. ASSUME StopClose
      PROVE  BodiesApart'
  BY <1>24, RunsAssumption DEF RunsInv, TypeOK, Ids, Ahead, CallsApart, Carries,
     BodiesApart, StopClose, Finish, Fault, Finished, Open, NoStop, rowVars,
     bodyVars, budgets
<1>25. ASSUME PanelDies
      PROVE  BodiesApart'
  BY <1>25, RunsAssumption DEF RunsInv, TypeOK, Ids, Ahead, CallsApart, Carries,
     BodiesApart, PanelDies, Interrupted, NoCall, NoStop, rowVars, bodyVars, budgets
<1>26. CASE UNCHANGED vars
  BY <1>26 DEF RunsInv, TypeOK, Ids, Ahead, CallsApart, Carries, BodiesApart, vars, rowVars,
     bodyVars, budgets
<1> QED
  BY <1>1, <1>2, <1>3, <1>4, <1>5, <1>6, <1>7, <1>8, <1>9, <1>10, <1>11, <1>12, <1>13,
     <1>14, <1>15, <1>16, <1>17, <1>18, <1>19, <1>20, <1>21, <1>22, <1>23, <1>24, <1>25, <1>26
     DEF Next, Body

(* A container that Docker removes when told to never outlives its waiter. *)
LEMMA AwaitedStep == RunsInv /\ [Next]_vars => Awaited'
<1> SUFFICES ASSUME RunsInv, [Next]_vars PROVE Awaited'
  OBVIOUS
<1>1. ASSUME NEW c \in Everyone, Trigger(c)
      PROVE  Awaited'
  BY <1>1, RunsAssumption DEF RunsInv, TypeOK, Ids, Ahead, Awaited, BodiesApart,
     Trigger, Goto, rowVars, bodyVars, budgets
<1>2. ASSUME NEW c \in Everyone, ReadActive(c)
      PROVE  Awaited'
  BY <1>2, RunsAssumption DEF RunsInv, TypeOK, Ids, Ahead, Awaited, BodiesApart,
     ReadActive, rowVars, bodyVars, budgets
<1>3. ASSUME NEW c \in Everyone, ReadJob(c)
      PROVE  Awaited'
  BY <1>3, RunsAssumption DEF RunsInv, TypeOK, Ids, Ahead, Awaited, BodiesApart,
     ReadJob, Fault, CallEnds, NoCall, Finished, Open, rowVars, bodyVars, budgets
<1>4. ASSUME NEW c \in Everyone, Insert(c)
      PROVE  Awaited'
  BY <1>4, RunsAssumption DEF RunsInv, TypeOK, Ids, Ahead, Awaited, BodiesApart,
     Insert, Fault, CallEnds, NoCall, Pruned, Closed, Open, rowVars, bodyVars,
     budgets
<1>5. ASSUME NEW c \in Everyone, Refuse(c)
      PROVE  Awaited'
  BY <1>5, RunsAssumption DEF RunsInv, TypeOK, Ids, Ahead, Awaited, BodiesApart,
     Refuse, Finish, Fault, Finished, Open, CallEnds, NoCall, rowVars, bodyVars,
     budgets
<1>6. ASSUME NEW c \in Everyone, Enqueue(c)
      PROVE  Awaited'
  BY <1>6, RunsAssumption DEF RunsInv, TypeOK, Ids, Ahead, Awaited, BodiesApart,
     Enqueue, Finish, Fault, Finished, Open, Goto, CallEnds, NoCall, rowVars,
     bodyVars, budgets
<1>7. ASSUME NEW c \in Everyone, Link(c)
      PROVE  Awaited'
  BY <1>7, RunsAssumption DEF RunsInv, TypeOK, Ids, Ahead, Awaited, BodiesApart,
     Link, Fault, LinkedRow, CallEnds, NoCall, rowVars, bodyVars, budgets
<1>8. ASSUME NEW c \in Everyone, InlineEnds(c)
      PROVE  Awaited'
  BY <1>8, RunsAssumption DEF RunsInv, TypeOK, Ids, Ahead, Awaited, BodiesApart,
     InlineEnds, BodyIsOver, BodyGoto, CallEnds, NoCall, Fault, InlineClosed,
     Finished, Open, rowVars, bodyVars, budgets
<1>9. ASSUME NEW r \in Ids, StartJob(r)
      PROVE  Awaited'
  BY <1>9, RunsAssumption DEF RunsInv, TypeOK, Ids, Ahead, Awaited, BodiesApart,
     StartJob, TileFree, BodyGoto, rowVars, bodyVars, budgets
<1>10. ASSUME NEW r \in Ids, BodyGet(r)
      PROVE  Awaited'
  BY <1>10, RunsAssumption DEF RunsInv, TypeOK, Ids, Ahead, Awaited, BodiesApart,
     BodyGet, Bodys, BodyGoto, BodyReturns, Open, rowVars, bodyVars, budgets
<1>11. ASSUME NEW r \in Ids, BodySkips(r)
      PROVE  Awaited'
  BY <1>11, RunsAssumption DEF RunsInv, TypeOK, Ids, Ahead, Awaited, BodiesApart,
     BodySkips, Bodys, BodyGoto, BodyReturns, Finish, Fault, Finished, Open,
     rowVars, bodyVars, budgets
<1>12. ASSUME NEW r \in Ids, BodyFails(r)
      PROVE  Awaited'
  BY <1>12, RunsAssumption DEF RunsInv, TypeOK, Ids, Ahead, Awaited, BodiesApart,
     BodyFails, Bodys, BodyGoto, BodyReturns, Finish, Fault, Finished, Open,
     rowVars, bodyVars, budgets
<1>13. ASSUME NEW r \in Ids, BodyUnset(r)
      PROVE  Awaited'
  BY <1>13, RunsAssumption DEF RunsInv, TypeOK, Ids, Ahead, Awaited, BodiesApart,
     BodyUnset, Bodys, BodyGoto, BodyReturns, rowVars, bodyVars, budgets
<1>14. ASSUME NEW r \in Ids, BodyBegins(r)
      PROVE  Awaited'
  BY <1>14, RunsAssumption DEF RunsInv, TypeOK, Ids, Ahead, Awaited, BodiesApart,
     BodyBegins, Bodys, BodyGoto, BodyReturns, Fault, Open, rowVars, bodyVars,
     budgets
<1>15. ASSUME NEW r \in Ids, BodyRuns(r)
      PROVE  Awaited'
  BY <1>15, RunsAssumption DEF RunsInv, TypeOK, Ids, Ahead, Awaited, BodiesApart,
     BodyRuns, Bodys, BodyGoto, rowVars, bodyVars, budgets
<1>16. ASSUME NEW r \in Ids, BodyWaited(r)
      PROVE  Awaited'
  <2>1. \A s \in Ids \ {r} : at'[s] = at[s]
    BY <1>16 DEF RunsInv, TypeOK, BodyWaited, BodyGoto
  <2>2. faults' = 0 => cont' = cont \ {r} /\ UNCHANGED budgets
    BY <1>16 DEF RunsInv, TypeOK, BodyWaited, Fault
  <2> QED
    BY <1>16, <2>1, <2>2 DEF RunsInv, TypeOK, Awaited, budgets
<1>17. ASSUME NEW r \in Ids, BodyCloses(r)
      PROVE  Awaited'
  BY <1>17, RunsAssumption DEF RunsInv, TypeOK, Ids, Ahead, Awaited, BodiesApart,
     BodyCloses, Bodys, BodyGoto, BodyReturns, Finish, Fault, Finished, Open,
     rowVars, bodyVars, budgets
<1>18. ASSUME NEW r \in Ids, JobEnds(r)
      PROVE  Awaited'
  BY <1>18, RunsAssumption DEF RunsInv, TypeOK, Ids, Ahead, Awaited, BodiesApart,
     JobEnds, BodyIsOver, BodyGoto, Fault, rowVars, bodyVars, budgets
<1>19. ASSUME NEW r \in Ids, ContainerExits(r)
      PROVE  Awaited'
  BY <1>19, RunsAssumption DEF RunsInv, TypeOK, Ids, Ahead, Awaited, BodiesApart,
     ContainerExits, rowVars, bodyVars, budgets
<1>20. ASSUME NEW r \in Ids, Unpark(r)
      PROVE  Awaited'
  BY <1>20, RunsAssumption DEF RunsInv, TypeOK, Ids, Ahead, Awaited, BodiesApart,
     Unpark, rowVars, bodyVars, budgets
<1>21. ASSUME NEW r \in Ids, PressStop(r)
      PROVE  Awaited'
  BY <1>21, RunsAssumption DEF RunsInv, TypeOK, Ids, Ahead, Awaited, BodiesApart,
     PressStop, Live, Cancel, rowVars, bodyVars, budgets
<1>22. ASSUME NEW r \in Ids, StopRead(r)
      PROVE  Awaited'
  BY <1>22, RunsAssumption DEF RunsInv, TypeOK, Ids, Ahead, Awaited, BodiesApart,
     StopRead, Open, rowVars, bodyVars, budgets
<1>23. ASSUME StopJob
      PROVE  Awaited'
  BY <1>23, RunsAssumption DEF RunsInv, TypeOK, Ids, Ahead, Awaited, BodiesApart,
     StopJob, StopCancels, Cancel, Fault, NoStop, rowVars, bodyVars, budgets
<1>24. ASSUME StopClose
      PROVE  Awaited'
  BY <1>24, RunsAssumption DEF RunsInv, TypeOK, Ids, Ahead, Awaited, BodiesApart,
     StopClose, Finish, Fault, Finished, Open, NoStop, rowVars, bodyVars, budgets
<1>25. ASSUME PanelDies
      PROVE  Awaited'
  BY <1>25, RunsAssumption DEF RunsInv, TypeOK, Ids, Ahead, Awaited, BodiesApart,
     PanelDies, Interrupted, NoCall, NoStop, rowVars, bodyVars, budgets
<1>26. CASE UNCHANGED vars
  BY <1>26 DEF RunsInv, TypeOK, Ids, Ahead, Awaited, BodiesApart, vars, rowVars, bodyVars, budgets
<1> QED
  BY <1>1, <1>2, <1>3, <1>4, <1>5, <1>6, <1>7, <1>8, <1>9, <1>10, <1>11, <1>12, <1>13,
     <1>14, <1>15, <1>16, <1>17, <1>18, <1>19, <1>20, <1>21, <1>22, <1>23, <1>24, <1>25, <1>26
     DEF Next, Body

(* No later write reopens the row of a body that returned no error.        *)
LEMMA NilStep == RunsInv /\ [Next]_vars => NilIsClosed'
<1> SUFFICES ASSUME RunsInv, [Next]_vars PROVE NilIsClosed'
  OBVIOUS
<1>1. ASSUME NEW c \in Everyone, Trigger(c)
      PROVE  NilIsClosed'
  BY <1>1, RunsAssumption DEF RunsInv, TypeOK, Ids, Ahead, NilIsClosed, Open,
     BodiesApart, Trigger, Goto, rowVars, bodyVars, budgets
<1>2. ASSUME NEW c \in Everyone, ReadActive(c)
      PROVE  NilIsClosed'
  BY <1>2, RunsAssumption DEF RunsInv, TypeOK, Ids, Ahead, NilIsClosed, Open,
     BodiesApart, ReadActive, rowVars, bodyVars, budgets
<1>3. ASSUME NEW c \in Everyone, ReadJob(c)
      PROVE  NilIsClosed'
  BY <1>3, RunsAssumption DEF RunsInv, TypeOK, Ids, Ahead, NilIsClosed, Open,
     BodiesApart, ReadJob, Fault, CallEnds, NoCall, Finished, rowVars, bodyVars,
     budgets
<1>4. ASSUME NEW c \in Everyone, Insert(c)
      PROVE  NilIsClosed'
  BY <1>4, RunsAssumption DEF RunsInv, TypeOK, Ids, Ahead, NilIsClosed, Open,
     BodiesApart, Insert, Fault, CallEnds, NoCall, Pruned, Closed, rowVars,
     bodyVars, budgets
<1>5. ASSUME NEW c \in Everyone, Refuse(c)
      PROVE  NilIsClosed'
  BY <1>5, RunsAssumption DEF RunsInv, TypeOK, Ids, Ahead, NilIsClosed, Open,
     BodiesApart, Refuse, Finish, Fault, Finished, CallEnds, NoCall, rowVars,
     bodyVars, budgets
<1>6. ASSUME NEW c \in Everyone, Enqueue(c)
      PROVE  NilIsClosed'
  BY <1>6, RunsAssumption DEF RunsInv, TypeOK, Ids, Ahead, NilIsClosed, Open,
     BodiesApart, Enqueue, Finish, Fault, Finished, Goto, CallEnds, NoCall,
     rowVars, bodyVars, budgets
<1>7. ASSUME NEW c \in Everyone, Link(c)
      PROVE  NilIsClosed'
  BY <1>7, RunsAssumption DEF RunsInv, TypeOK, Ids, Ahead, NilIsClosed, Open,
     BodiesApart, Link, Fault, LinkedRow, CallEnds, NoCall, rowVars, bodyVars,
     budgets
<1>8. ASSUME NEW c \in Everyone, InlineEnds(c)
      PROVE  NilIsClosed'
  BY <1>8, RunsAssumption DEF RunsInv, TypeOK, Ids, Ahead, NilIsClosed, Open,
     BodiesApart, InlineEnds, BodyIsOver, BodyGoto, CallEnds, NoCall, Fault,
     InlineClosed, Finished, rowVars, bodyVars, budgets
<1>9. ASSUME NEW r \in Ids, StartJob(r)
      PROVE  NilIsClosed'
  BY <1>9, RunsAssumption DEF RunsInv, TypeOK, Ids, Ahead, NilIsClosed, Open,
     BodiesApart, StartJob, TileFree, BodyGoto, rowVars, bodyVars, budgets
<1>10. ASSUME NEW r \in Ids, BodyGet(r)
      PROVE  NilIsClosed'
  <2>1. \A s \in Ids \ {r} : at'[s] = at[s] /\ verdict'[s] = verdict[s]
    BY <1>10 DEF RunsInv, TypeOK, BodyGet, BodyGoto, BodyReturns
  <2>2. at'[r] = "end" /\ verdict'[r] = "nil" => ~Open(row[r])
    BY <1>10 DEF RunsInv, TypeOK, BodyGet, BodyGoto, BodyReturns
  <2> QED
    BY <1>10, <2>1, <2>2 DEF RunsInv, NilIsClosed, BodyGet
<1>11. ASSUME NEW r \in Ids, BodySkips(r)
      PROVE  NilIsClosed'
  BY <1>11, RunsAssumption DEF RunsInv, TypeOK, Ids, Ahead, NilIsClosed, Open,
     BodiesApart, BodySkips, Bodys, BodyGoto, BodyReturns, Finish, Fault, Finished,
     rowVars, bodyVars, budgets
<1>12. ASSUME NEW r \in Ids, BodyFails(r)
      PROVE  NilIsClosed'
  BY <1>12, RunsAssumption DEF RunsInv, TypeOK, Ids, Ahead, NilIsClosed, Open,
     BodiesApart, BodyFails, Bodys, BodyGoto, BodyReturns, Finish, Fault, Finished,
     rowVars, bodyVars, budgets
<1>13. ASSUME NEW r \in Ids, BodyUnset(r)
      PROVE  NilIsClosed'
  BY <1>13, RunsAssumption DEF RunsInv, TypeOK, Ids, Ahead, NilIsClosed, Open,
     BodiesApart, BodyUnset, Bodys, BodyGoto, BodyReturns, rowVars, bodyVars,
     budgets
<1>14. ASSUME NEW r \in Ids, BodyBegins(r)
      PROVE  NilIsClosed'
  BY <1>14, RunsAssumption DEF RunsInv, TypeOK, Ids, Ahead, NilIsClosed, Open,
     BodiesApart, BodyBegins, Bodys, BodyGoto, BodyReturns, Fault, rowVars,
     bodyVars, budgets
<1>15. ASSUME NEW r \in Ids, BodyRuns(r)
      PROVE  NilIsClosed'
  BY <1>15, RunsAssumption DEF RunsInv, TypeOK, Ids, Ahead, NilIsClosed, Open,
     BodiesApart, BodyRuns, Bodys, BodyGoto, rowVars, bodyVars, budgets
<1>16. ASSUME NEW r \in Ids, BodyWaited(r)
      PROVE  NilIsClosed'
  <2>1. \A s \in Ids \ {r} : at'[s] = at[s] /\ verdict'[s] = verdict[s]
    BY <1>16 DEF RunsInv, TypeOK, BodyWaited, BodyGoto
  <2>2. at'[r] = "close"
    BY <1>16 DEF RunsInv, TypeOK, BodyWaited, BodyGoto
  <2> QED
    BY <1>16, <2>1, <2>2 DEF RunsInv, NilIsClosed, BodyWaited
<1>17. ASSUME NEW r \in Ids, BodyCloses(r)
      PROVE  NilIsClosed'
  BY <1>17, RunsAssumption DEF RunsInv, TypeOK, Ids, Ahead, NilIsClosed, Open,
     BodiesApart, BodyCloses, Bodys, BodyGoto, BodyReturns, Finish, Fault,
     Finished, rowVars, bodyVars, budgets
<1>18. ASSUME NEW r \in Ids, JobEnds(r)
      PROVE  NilIsClosed'
  BY <1>18, RunsAssumption DEF RunsInv, TypeOK, Ids, Ahead, NilIsClosed, Open,
     BodiesApart, JobEnds, BodyIsOver, BodyGoto, Fault, rowVars, bodyVars, budgets
<1>19. ASSUME NEW r \in Ids, ContainerExits(r)
      PROVE  NilIsClosed'
  BY <1>19, RunsAssumption DEF RunsInv, TypeOK, Ids, Ahead, NilIsClosed, Open,
     BodiesApart, ContainerExits, rowVars, bodyVars, budgets
<1>20. ASSUME NEW r \in Ids, Unpark(r)
      PROVE  NilIsClosed'
  BY <1>20, RunsAssumption DEF RunsInv, TypeOK, Ids, Ahead, NilIsClosed, Open,
     BodiesApart, Unpark, rowVars, bodyVars, budgets
<1>21. ASSUME NEW r \in Ids, PressStop(r)
      PROVE  NilIsClosed'
  BY <1>21, RunsAssumption DEF RunsInv, TypeOK, Ids, Ahead, NilIsClosed, Open,
     BodiesApart, PressStop, Live, Cancel, rowVars, bodyVars, budgets
<1>22. ASSUME NEW r \in Ids, StopRead(r)
      PROVE  NilIsClosed'
  BY <1>22, RunsAssumption DEF RunsInv, TypeOK, Ids, Ahead, NilIsClosed, Open,
     BodiesApart, StopRead, rowVars, bodyVars, budgets
<1>23. ASSUME StopJob
      PROVE  NilIsClosed'
  BY <1>23, RunsAssumption DEF RunsInv, TypeOK, Ids, Ahead, NilIsClosed, Open,
     BodiesApart, StopJob, StopCancels, Cancel, Fault, NoStop, rowVars, bodyVars,
     budgets
<1>24. ASSUME StopClose
      PROVE  NilIsClosed'
  BY <1>24, RunsAssumption DEF RunsInv, TypeOK, Ids, Ahead, NilIsClosed, Open,
     BodiesApart, StopClose, Finish, Fault, Finished, NoStop, rowVars, bodyVars,
     budgets
<1>25. ASSUME PanelDies
      PROVE  NilIsClosed'
  BY <1>25, RunsAssumption DEF RunsInv, TypeOK, Ids, Ahead, NilIsClosed, Open,
     BodiesApart, PanelDies, Interrupted, NoCall, NoStop, rowVars, bodyVars, budgets
<1>26. CASE UNCHANGED vars
  BY <1>26 DEF RunsInv, TypeOK, Ids, Ahead, NilIsClosed, Open, BodiesApart, vars, rowVars,
     bodyVars, budgets
<1> QED
  BY <1>1, <1>2, <1>3, <1>4, <1>5, <1>6, <1>7, <1>8, <1>9, <1>10, <1>11, <1>12, <1>13,
     <1>14, <1>15, <1>16, <1>17, <1>18, <1>19, <1>20, <1>21, <1>22, <1>23, <1>24, <1>25, <1>26
     DEF Next, Body

(* While every write succeeds, no step leaves an open row without a        *)
(* holder.                                                                 *)
LEMMA HeldStep == RunsInv /\ [Next]_vars => OpenIsHeld'
<1> SUFFICES ASSUME RunsInv, [Next]_vars PROVE OpenIsHeld'
  OBVIOUS
<1>1. ASSUME NEW c \in Everyone, Trigger(c)
      PROVE  OpenIsHeld'
  BY <1>1, RunsAssumption DEF RunsInv, TypeOK, Ids, Ahead, CallsApart, Carries,
     OpenIsHeld, NilIsClosed, Open, Trigger, Goto, rowVars, bodyVars, budgets
<1>2. ASSUME NEW c \in Everyone, ReadActive(c)
      PROVE  OpenIsHeld'
  BY <1>2, RunsAssumption DEF RunsInv, TypeOK, Ids, Ahead, CallsApart, Carries,
     OpenIsHeld, NilIsClosed, Open, ReadActive, rowVars, bodyVars, budgets
<1>3. ASSUME NEW c \in Everyone, ReadJob(c)
      PROVE  OpenIsHeld'
  BY <1>3, RunsAssumption DEF RunsInv, TypeOK, Ids, Ahead, CallsApart, Carries,
     OpenIsHeld, NilIsClosed, Open, ReadJob, Fault, CallEnds, NoCall, Finished,
     rowVars, bodyVars, budgets
<1>4. ASSUME NEW c \in Everyone, Insert(c)
      PROVE  OpenIsHeld'
  <2>1. SUFFICES ASSUME faults' = 0, NEW r \in Ids, Open(row'[r]), r \notin linked'
                 PROVE  \E d \in Everyone : Carries(d)' /\ call'[d].run = r
    BY DEF OpenIsHeld, Carries
  <2>2. faults = 0 /\ Carries(c)' /\ call'[c].run = last'
    BY <1>4, <2>1 DEF RunsInv, TypeOK, Insert, Fault, Carries, budgets
  <2>3. CASE r = last'
    BY <2>2, <2>3
  <2>4. CASE r # last'
    <3>1. Open(row[r]) /\ r \notin linked
      BY <1>4, <2>1, <2>4, InsertFacts DEF RunsInv, Open, Insert
    <3>2. PICK d \in Everyone : Carries(d) /\ call[d].run = r
      BY <2>2, <3>1 DEF RunsInv, OpenIsHeld
    <3>3. d # c /\ call'[d] = call[d]
      BY <1>4, <3>2 DEF RunsInv, TypeOK, Insert, Carries, CallEnds
    <3> QED
      BY <3>2, <3>3 DEF Carries
  <2> QED
    BY <2>3, <2>4
<1>5. ASSUME NEW c \in Everyone, Refuse(c)
      PROVE  OpenIsHeld'
  BY <1>5, RunsAssumption DEF RunsInv, TypeOK, Ids, Ahead, CallsApart, Carries,
     OpenIsHeld, NilIsClosed, Open, Refuse, Finish, Fault, Finished, CallEnds,
     NoCall, rowVars, bodyVars, budgets
<1>6. ASSUME NEW c \in Everyone, Enqueue(c)
      PROVE  OpenIsHeld'
  <2>1. SUFFICES ASSUME faults' = 0, NEW r \in Ids, Open(row'[r]), r \notin linked'
                 PROVE  \E d \in Everyone : Carries(d)' /\ call'[d].run = r
    BY DEF OpenIsHeld, Carries
  <2>2. call[c].run \in Ids
    BY <1>6 DEF RunsInv, TypeOK, Enqueue, Ids
  <2>3. faults = 0 /\ Open(row[r]) /\ r \notin linked
    BY <1>6, <2>1, <2>2 DEF RunsInv, TypeOK, Enqueue, Finish, Finished, Fault, Open, budgets
  <2>4. PICK d \in Everyone : Carries(d) /\ call[d].run = r
    BY <2>3 DEF RunsInv, OpenIsHeld
  <2>5. CASE Goto(c, "link")
    BY <2>4, <2>5 DEF RunsInv, TypeOK, Goto, Carries
  <2>6. CASE Finish(call[c].run, "failed") /\ CallEnds(c)
    <3>1. r # call[c].run
      BY <2>1, <2>2, <2>6 DEF RunsInv, TypeOK, Finish, Finished, Fault, Open
    <3> QED
      BY <2>4, <2>6, <3>1 DEF RunsInv, TypeOK, CallEnds, Carries
  <2> QED
    BY <1>6, <2>5, <2>6 DEF Enqueue
<1>7. ASSUME NEW c \in Everyone, Link(c)
      PROVE  OpenIsHeld'
  BY <1>7, RunsAssumption DEF RunsInv, TypeOK, Ids, Ahead, CallsApart, Carries,
     OpenIsHeld, NilIsClosed, Open, Link, Fault, LinkedRow, CallEnds, NoCall,
     rowVars, bodyVars, budgets
<1>8. ASSUME NEW c \in Everyone, InlineEnds(c)
      PROVE  OpenIsHeld'
  BY <1>8, RunsAssumption DEF RunsInv, TypeOK, Ids, Ahead, CallsApart, Carries,
     OpenIsHeld, NilIsClosed, Open, InlineEnds, BodyIsOver, BodyGoto, CallEnds,
     NoCall, Fault, InlineClosed, Finished, rowVars, bodyVars, budgets
<1>9. ASSUME NEW r \in Ids, StartJob(r)
      PROVE  OpenIsHeld'
  BY <1>9, RunsAssumption DEF RunsInv, TypeOK, Ids, Ahead, CallsApart, Carries,
     OpenIsHeld, NilIsClosed, Open, StartJob, TileFree, BodyGoto, rowVars,
     bodyVars, budgets
<1>10. ASSUME NEW r \in Ids, BodyGet(r)
      PROVE  OpenIsHeld'
  BY <1>10, RunsAssumption DEF RunsInv, TypeOK, Ids, Ahead, CallsApart, Carries,
     OpenIsHeld, NilIsClosed, Open, BodyGet, Bodys, BodyGoto, BodyReturns, rowVars,
     bodyVars, budgets
<1>11. ASSUME NEW r \in Ids, BodySkips(r)
      PROVE  OpenIsHeld'
  BY <1>11, RunsAssumption DEF RunsInv, TypeOK, Ids, Ahead, CallsApart, Carries,
     OpenIsHeld, NilIsClosed, Open, BodySkips, Bodys, BodyGoto, BodyReturns,
     Finish, Fault, Finished, rowVars, bodyVars, budgets
<1>12. ASSUME NEW r \in Ids, BodyFails(r)
      PROVE  OpenIsHeld'
  BY <1>12, RunsAssumption DEF RunsInv, TypeOK, Ids, Ahead, CallsApart, Carries,
     OpenIsHeld, NilIsClosed, Open, BodyFails, Bodys, BodyGoto, BodyReturns,
     Finish, Fault, Finished, rowVars, bodyVars, budgets
<1>13. ASSUME NEW r \in Ids, BodyUnset(r)
      PROVE  OpenIsHeld'
  BY <1>13, RunsAssumption DEF RunsInv, TypeOK, Ids, Ahead, CallsApart, Carries,
     OpenIsHeld, NilIsClosed, Open, BodyUnset, Bodys, BodyGoto, BodyReturns,
     rowVars, bodyVars, budgets
<1>14. ASSUME NEW r \in Ids, BodyBegins(r)
      PROVE  OpenIsHeld'
  BY <1>14, RunsAssumption DEF RunsInv, TypeOK, Ids, Ahead, CallsApart, Carries,
     OpenIsHeld, NilIsClosed, Open, BodyBegins, Bodys, BodyGoto, BodyReturns,
     Fault, rowVars, bodyVars, budgets
<1>15. ASSUME NEW r \in Ids, BodyRuns(r)
      PROVE  OpenIsHeld'
  BY <1>15, RunsAssumption DEF RunsInv, TypeOK, Ids, Ahead, CallsApart, Carries,
     OpenIsHeld, NilIsClosed, Open, BodyRuns, Bodys, BodyGoto, rowVars, bodyVars,
     budgets
<1>16. ASSUME NEW r \in Ids, BodyWaited(r)
      PROVE  OpenIsHeld'
  BY <1>16, RunsAssumption DEF RunsInv, TypeOK, Ids, Ahead, CallsApart, Carries,
     OpenIsHeld, NilIsClosed, Open, BodyWaited, Bodys, BodyGoto, Fault, rowVars,
     bodyVars, budgets
<1>17. ASSUME NEW r \in Ids, BodyCloses(r)
      PROVE  OpenIsHeld'
  BY <1>17, RunsAssumption DEF RunsInv, TypeOK, Ids, Ahead, CallsApart, Carries,
     OpenIsHeld, NilIsClosed, Open, BodyCloses, Bodys, BodyGoto, BodyReturns,
     Finish, Fault, Finished, rowVars, bodyVars, budgets
<1>18. ASSUME NEW r \in Ids, JobEnds(r)
      PROVE  OpenIsHeld'
  BY <1>18, RunsAssumption DEF RunsInv, TypeOK, Ids, Ahead, CallsApart, Carries,
     OpenIsHeld, NilIsClosed, Open, JobEnds, BodyIsOver, BodyGoto, Fault, rowVars,
     bodyVars, budgets
<1>19. ASSUME NEW r \in Ids, ContainerExits(r)
      PROVE  OpenIsHeld'
  BY <1>19, RunsAssumption DEF RunsInv, TypeOK, Ids, Ahead, CallsApart, Carries,
     OpenIsHeld, NilIsClosed, Open, ContainerExits, rowVars, bodyVars, budgets
<1>20. ASSUME NEW r \in Ids, Unpark(r)
      PROVE  OpenIsHeld'
  BY <1>20, RunsAssumption DEF RunsInv, TypeOK, Ids, Ahead, CallsApart, Carries,
     OpenIsHeld, NilIsClosed, Open, Unpark, rowVars, bodyVars, budgets
<1>21. ASSUME NEW r \in Ids, PressStop(r)
      PROVE  OpenIsHeld'
  BY <1>21, RunsAssumption DEF RunsInv, TypeOK, Ids, Ahead, CallsApart, Carries,
     OpenIsHeld, NilIsClosed, Open, PressStop, Live, Cancel, rowVars, bodyVars,
     budgets
<1>22. ASSUME NEW r \in Ids, StopRead(r)
      PROVE  OpenIsHeld'
  BY <1>22, RunsAssumption DEF RunsInv, TypeOK, Ids, Ahead, CallsApart, Carries,
     OpenIsHeld, NilIsClosed, Open, StopRead, rowVars, bodyVars, budgets
<1>23. ASSUME StopJob
      PROVE  OpenIsHeld'
  BY <1>23, RunsAssumption DEF RunsInv, TypeOK, Ids, Ahead, CallsApart, Carries,
     OpenIsHeld, NilIsClosed, Open, StopJob, StopCancels, Cancel, Fault, NoStop,
     rowVars, bodyVars, budgets
<1>24. ASSUME StopClose
      PROVE  OpenIsHeld'
  BY <1>24, RunsAssumption DEF RunsInv, TypeOK, Ids, Ahead, CallsApart, Carries,
     OpenIsHeld, NilIsClosed, Open, StopClose, Finish, Fault, Finished, NoStop,
     rowVars, bodyVars, budgets
<1>25. ASSUME PanelDies
      PROVE  OpenIsHeld'
  BY <1>25, RunsAssumption DEF RunsInv, TypeOK, Ids, Ahead, CallsApart, Carries,
     OpenIsHeld, NilIsClosed, Open, PanelDies, Interrupted, NoCall, NoStop,
     rowVars, bodyVars, budgets
<1>26. CASE UNCHANGED vars
  BY <1>26 DEF RunsInv, TypeOK, Ids, Ahead, CallsApart, Carries, OpenIsHeld, NilIsClosed,
     Open, vars, rowVars, bodyVars, budgets
<1> QED
  BY <1>1, <1>2, <1>3, <1>4, <1>5, <1>6, <1>7, <1>8, <1>9, <1>10, <1>11, <1>12, <1>13,
     <1>14, <1>15, <1>16, <1>17, <1>18, <1>19, <1>20, <1>21, <1>22, <1>23, <1>24, <1>25, <1>26
     DEF Next, Body

(* No step starts a cancelled job again or gives its body a live context.  *)
LEMMA CancelStep == RunsInv /\ [Next]_vars => CancelHolds'
<1> SUFFICES ASSUME RunsInv, [Next]_vars PROVE CancelHolds'
  OBVIOUS
<1>1. ASSUME NEW c \in Everyone, Trigger(c)
      PROVE  CancelHolds'
  BY <1>1, RunsAssumption DEF RunsInv, TypeOK, Ids, Ahead, CallsApart, Carries,
     BodiesApart, CancelHolds, CancelledRuns, NoStop, Trigger, Goto, rowVars,
     bodyVars, budgets
<1>2. ASSUME NEW c \in Everyone, ReadActive(c)
      PROVE  CancelHolds'
  BY <1>2, RunsAssumption DEF RunsInv, TypeOK, Ids, Ahead, CallsApart, Carries,
     BodiesApart, CancelHolds, CancelledRuns, NoStop, ReadActive, rowVars,
     bodyVars, budgets
<1>3. ASSUME NEW c \in Everyone, ReadJob(c)
      PROVE  CancelHolds'
  BY <1>3, RunsAssumption DEF RunsInv, TypeOK, Ids, Ahead, CallsApart, Carries,
     BodiesApart, CancelHolds, CancelledRuns, NoStop, ReadJob, Fault, CallEnds,
     NoCall, Finished, Open, rowVars, bodyVars, budgets
<1>4. ASSUME NEW c \in Everyone, Insert(c)
      PROVE  CancelHolds'
  BY <1>4, RunsAssumption DEF RunsInv, TypeOK, Ids, Ahead, CallsApart, Carries,
     BodiesApart, CancelHolds, CancelledRuns, NoStop, Insert, Fault, CallEnds,
     NoCall, Pruned, Closed, Open, rowVars, bodyVars, budgets
<1>5. ASSUME NEW c \in Everyone, Refuse(c)
      PROVE  CancelHolds'
  BY <1>5, RunsAssumption DEF RunsInv, TypeOK, Ids, Ahead, CallsApart, Carries,
     BodiesApart, CancelHolds, CancelledRuns, NoStop, Refuse, Finish, Fault,
     Finished, Open, CallEnds, NoCall, rowVars, bodyVars, budgets
<1>6. ASSUME NEW c \in Everyone, Enqueue(c)
      PROVE  CancelHolds'
  BY <1>6, RunsAssumption DEF RunsInv, TypeOK, Ids, Ahead, CallsApart, Carries,
     BodiesApart, CancelHolds, CancelledRuns, NoStop, Enqueue, Finish, Fault,
     Finished, Open, Goto, CallEnds, NoCall, rowVars, bodyVars, budgets
<1>7. ASSUME NEW c \in Everyone, Link(c)
      PROVE  CancelHolds'
  BY <1>7, RunsAssumption DEF RunsInv, TypeOK, Ids, Ahead, CallsApart, Carries,
     BodiesApart, CancelHolds, CancelledRuns, NoStop, Link, Fault, LinkedRow,
     CallEnds, NoCall, rowVars, bodyVars, budgets
<1>8. ASSUME NEW c \in Everyone, InlineEnds(c)
      PROVE  CancelHolds'
  BY <1>8, RunsAssumption DEF RunsInv, TypeOK, Ids, Ahead, CallsApart, Carries,
     BodiesApart, CancelHolds, CancelledRuns, NoStop, InlineEnds, BodyIsOver,
     BodyGoto, CallEnds, NoCall, Fault, InlineClosed, Finished, Open, rowVars,
     bodyVars, budgets
<1>9. ASSUME NEW r \in Ids, StartJob(r)
      PROVE  CancelHolds'
  <2>1. r \notin CancelledRuns
    BY <1>9 DEF RunsInv, CancelHolds, StartJob
  <2>2. CancelledRuns' = CancelledRuns
    BY <1>9 DEF CancelledRuns, StartJob
  <2>3. \A s \in Ids \ {r} : at'[s] = at[s] /\ job'[s] = job[s]
    BY <1>9 DEF RunsInv, TypeOK, StartJob, BodyGoto
  <2>4. CancelledRuns \subseteq Ids
    BY DEF RunsInv, TypeOK, CancelledRuns
  <2> QED
    BY <1>9, <2>1, <2>2, <2>3, <2>4 DEF RunsInv, CancelHolds, StartJob, rowVars, budgets
<1>10. ASSUME NEW r \in Ids, BodyGet(r)
      PROVE  CancelHolds'
  BY <1>10, RunsAssumption DEF RunsInv, TypeOK, Ids, Ahead, CallsApart, Carries,
     BodiesApart, CancelHolds, CancelledRuns, NoStop, BodyGet, Bodys, BodyGoto,
     BodyReturns, Open, rowVars, bodyVars, budgets
<1>11. ASSUME NEW r \in Ids, BodySkips(r)
      PROVE  CancelHolds'
  BY <1>11, RunsAssumption DEF RunsInv, TypeOK, Ids, Ahead, CallsApart, Carries,
     BodiesApart, CancelHolds, CancelledRuns, NoStop, BodySkips, Bodys, BodyGoto,
     BodyReturns, Finish, Fault, Finished, Open, rowVars, bodyVars, budgets
<1>12. ASSUME NEW r \in Ids, BodyFails(r)
      PROVE  CancelHolds'
  BY <1>12, RunsAssumption DEF RunsInv, TypeOK, Ids, Ahead, CallsApart, Carries,
     BodiesApart, CancelHolds, CancelledRuns, NoStop, BodyFails, Bodys, BodyGoto,
     BodyReturns, Finish, Fault, Finished, Open, rowVars, bodyVars, budgets
<1>13. ASSUME NEW r \in Ids, BodyUnset(r)
      PROVE  CancelHolds'
  BY <1>13, RunsAssumption DEF RunsInv, TypeOK, Ids, Ahead, CallsApart, Carries,
     BodiesApart, CancelHolds, CancelledRuns, NoStop, BodyUnset, Bodys, BodyGoto,
     BodyReturns, rowVars, bodyVars, budgets
<1>14. ASSUME NEW r \in Ids, BodyBegins(r)
      PROVE  CancelHolds'
  BY <1>14, RunsAssumption DEF RunsInv, TypeOK, Ids, Ahead, CallsApart, Carries,
     BodiesApart, CancelHolds, CancelledRuns, NoStop, BodyBegins, Bodys, BodyGoto,
     BodyReturns, Fault, Open, rowVars, bodyVars, budgets
<1>15. ASSUME NEW r \in Ids, BodyRuns(r)
      PROVE  CancelHolds'
  BY <1>15, RunsAssumption DEF RunsInv, TypeOK, Ids, Ahead, CallsApart, Carries,
     BodiesApart, CancelHolds, CancelledRuns, NoStop, BodyRuns, Bodys, BodyGoto,
     rowVars, bodyVars, budgets
<1>16. ASSUME NEW r \in Ids, BodyWaited(r)
      PROVE  CancelHolds'
  BY <1>16, RunsAssumption DEF RunsInv, TypeOK, Ids, Ahead, CallsApart, Carries,
     BodiesApart, CancelHolds, CancelledRuns, NoStop, BodyWaited, Bodys, BodyGoto,
     Fault, rowVars, bodyVars, budgets
<1>17. ASSUME NEW r \in Ids, BodyCloses(r)
      PROVE  CancelHolds'
  BY <1>17, RunsAssumption DEF RunsInv, TypeOK, Ids, Ahead, CallsApart, Carries,
     BodiesApart, CancelHolds, CancelledRuns, NoStop, BodyCloses, Bodys, BodyGoto,
     BodyReturns, Finish, Fault, Finished, Open, rowVars, bodyVars, budgets
<1>18. ASSUME NEW r \in Ids, JobEnds(r)
      PROVE  CancelHolds'
  <2>1. CancelledRuns' = CancelledRuns /\ CancelledRuns \subseteq Ids
    BY <1>18 DEF RunsInv, TypeOK, CancelledRuns, JobEnds
  <2>2. /\ at'[r] = "no" /\ dead' = dead \ {r}
        /\ \A s \in Ids \ {r} : at'[s] = at[s] /\ job'[s] = job[s]
    BY <1>18 DEF RunsInv, TypeOK, JobEnds, BodyIsOver, BodyGoto
  <2>4. job[r] = "running"
    BY <1>18 DEF RunsInv, BodiesApart, JobEnds
  <2>5. r \in CancelledRuns => job'[r] \in {"running", "over"}
    <3>1. CASE Fault /\ UNCHANGED job
      BY <2>4, <3>1
    <3>2. CASE /\ job' = [job EXCEPT ![r] =
                        IF verdict[r] = "unset" /\ r \notin dead THEN "waiting" ELSE "over"]
               /\ UNCHANGED budgets
      BY <1>18, <3>2 DEF RunsInv, TypeOK, CancelHolds, JobEnds, budgets
    <3> QED
      BY <1>18, <3>1, <3>2 DEF JobEnds
  <2> QED
    BY <1>18, <2>1, <2>2, <2>5 DEF RunsInv, CancelHolds, JobEnds, rowVars
<1>19. ASSUME NEW r \in Ids, ContainerExits(r)
      PROVE  CancelHolds'
  BY <1>19, RunsAssumption DEF RunsInv, TypeOK, Ids, Ahead, CallsApart, Carries,
     BodiesApart, CancelHolds, CancelledRuns, NoStop, ContainerExits, rowVars,
     bodyVars, budgets
<1>20. ASSUME NEW r \in Ids, Unpark(r)
      PROVE  CancelHolds'
  BY <1>20, RunsAssumption DEF RunsInv, TypeOK, Ids, Ahead, CallsApart, Carries,
     BodiesApart, CancelHolds, CancelledRuns, NoStop, Unpark, rowVars, bodyVars,
     budgets
<1>21. ASSUME NEW r \in Ids, PressStop(r)
      PROVE  CancelHolds'
  BY <1>21, RunsAssumption DEF RunsInv, TypeOK, Ids, Ahead, CallsApart, Carries,
     BodiesApart, CancelHolds, CancelledRuns, NoStop, PressStop, Live, Cancel,
     rowVars, bodyVars, budgets
<1>22. ASSUME NEW r \in Ids, StopRead(r)
      PROVE  CancelHolds'
  BY <1>22, RunsAssumption DEF RunsInv, TypeOK, Ids, Ahead, CallsApart, Carries,
     BodiesApart, CancelHolds, CancelledRuns, NoStop, StopRead, Open, rowVars,
     bodyVars, budgets
<1>23. ASSUME StopJob
      PROVE  CancelHolds'
  BY <1>23, RunsAssumption DEF RunsInv, TypeOK, Ids, Ahead, CallsApart, Carries,
     BodiesApart, CancelHolds, CancelledRuns, NoStop, StopJob, StopCancels, Cancel,
     Fault, rowVars, bodyVars, budgets
<1>24. ASSUME StopClose
      PROVE  CancelHolds'
  BY <1>24, RunsAssumption DEF RunsInv, TypeOK, Ids, Ahead, CallsApart, Carries,
     BodiesApart, CancelHolds, CancelledRuns, NoStop, StopClose, Finish, Fault,
     Finished, Open, rowVars, bodyVars, budgets
<1>25. ASSUME PanelDies
      PROVE  CancelHolds'
  BY <1>25, RunsAssumption DEF RunsInv, TypeOK, Ids, Ahead, CallsApart, Carries,
     BodiesApart, CancelHolds, CancelledRuns, NoStop, PanelDies, Interrupted,
     NoCall, rowVars, bodyVars, budgets
<1>26. CASE UNCHANGED vars
  BY <1>26 DEF RunsInv, TypeOK, Ids, Ahead, CallsApart, Carries, BodiesApart, CancelHolds,
     CancelledRuns, NoStop, vars, rowVars, bodyVars, budgets
<1> QED
  BY <1>1, <1>2, <1>3, <1>4, <1>5, <1>6, <1>7, <1>8, <1>9, <1>10, <1>11, <1>12, <1>13,
     <1>14, <1>15, <1>16, <1>17, <1>18, <1>19, <1>20, <1>21, <1>22, <1>23, <1>24, <1>25, <1>26
     DEF Next, Body

(* Every action leaves a closed row as it is, or prunes it.                *)
LEMMA FinalStep == RunsInv /\ [Next]_vars => (\A s \in Ids : Closed(row[s]) => row'[s] \in {row[s], "gone"})
<1> SUFFICES ASSUME RunsInv, [Next]_vars PROVE (\A s \in Ids : Closed(row[s]) => row'[s] \in {row[s], "gone"})
  OBVIOUS
<1>1. ASSUME NEW c \in Everyone, Trigger(c)
      PROVE  (\A s \in Ids : Closed(row[s]) => row'[s] \in {row[s], "gone"})
  BY <1>1, RunsAssumption DEF RunsInv, TypeOK, Ids, Closed, Open, Trigger, Goto,
     rowVars, bodyVars, budgets
<1>2. ASSUME NEW c \in Everyone, ReadActive(c)
      PROVE  (\A s \in Ids : Closed(row[s]) => row'[s] \in {row[s], "gone"})
  BY <1>2, RunsAssumption DEF RunsInv, TypeOK, Ids, Closed, Open, ReadActive,
     rowVars, bodyVars, budgets
<1>3. ASSUME NEW c \in Everyone, ReadJob(c)
      PROVE  (\A s \in Ids : Closed(row[s]) => row'[s] \in {row[s], "gone"})
  BY <1>3, RunsAssumption DEF RunsInv, TypeOK, Ids, Closed, Open, ReadJob, Fault,
     CallEnds, NoCall, Finished, rowVars, bodyVars, budgets
<1>4. ASSUME NEW c \in Everyone, Insert(c)
      PROVE  (\A s \in Ids : Closed(row[s]) => row'[s] \in {row[s], "gone"})
  <2>1. row[last'] = "none" /\ last' \in Ids
    BY <1>4, InsertFacts DEF RunsInv, TypeOK, Ahead, Ids
  <2> QED
    BY <1>4, <2>1, InsertFacts DEF RunsInv, Closed
<1>5. ASSUME NEW c \in Everyone, Refuse(c)
      PROVE  (\A s \in Ids : Closed(row[s]) => row'[s] \in {row[s], "gone"})
  BY <1>5, RunsAssumption DEF RunsInv, TypeOK, Ids, Closed, Open, Refuse, Finish,
     Fault, Finished, CallEnds, NoCall, rowVars, bodyVars, budgets
<1>6. ASSUME NEW c \in Everyone, Enqueue(c)
      PROVE  (\A s \in Ids : Closed(row[s]) => row'[s] \in {row[s], "gone"})
  BY <1>6, RunsAssumption DEF RunsInv, TypeOK, Ids, Closed, Open, Enqueue, Finish,
     Fault, Finished, Goto, CallEnds, NoCall, rowVars, bodyVars, budgets
<1>7. ASSUME NEW c \in Everyone, Link(c)
      PROVE  (\A s \in Ids : Closed(row[s]) => row'[s] \in {row[s], "gone"})
  BY <1>7, RunsAssumption DEF RunsInv, TypeOK, Ids, Closed, Open, Link, Fault,
     LinkedRow, CallEnds, NoCall, rowVars, bodyVars, budgets
<1>8. ASSUME NEW c \in Everyone, InlineEnds(c)
      PROVE  (\A s \in Ids : Closed(row[s]) => row'[s] \in {row[s], "gone"})
  BY <1>8, RunsAssumption DEF RunsInv, TypeOK, Ids, Closed, Open, InlineEnds,
     BodyIsOver, BodyGoto, CallEnds, NoCall, Fault, InlineClosed, Finished,
     rowVars, bodyVars, budgets
<1>9. ASSUME NEW r \in Ids, StartJob(r)
      PROVE  (\A s \in Ids : Closed(row[s]) => row'[s] \in {row[s], "gone"})
  BY <1>9, RunsAssumption DEF RunsInv, TypeOK, Ids, Closed, Open, StartJob,
     TileFree, BodyGoto, rowVars, bodyVars, budgets
<1>10. ASSUME NEW r \in Ids, BodyGet(r)
      PROVE  (\A s \in Ids : Closed(row[s]) => row'[s] \in {row[s], "gone"})
  BY <1>10, RunsAssumption DEF RunsInv, TypeOK, Ids, Closed, Open, BodyGet, Bodys,
     BodyGoto, BodyReturns, rowVars, bodyVars, budgets
<1>11. ASSUME NEW r \in Ids, BodySkips(r)
      PROVE  (\A s \in Ids : Closed(row[s]) => row'[s] \in {row[s], "gone"})
  BY <1>11, RunsAssumption DEF RunsInv, TypeOK, Ids, Closed, Open, BodySkips,
     Bodys, BodyGoto, BodyReturns, Finish, Fault, Finished, rowVars, bodyVars,
     budgets
<1>12. ASSUME NEW r \in Ids, BodyFails(r)
      PROVE  (\A s \in Ids : Closed(row[s]) => row'[s] \in {row[s], "gone"})
  BY <1>12, RunsAssumption DEF RunsInv, TypeOK, Ids, Closed, Open, BodyFails,
     Bodys, BodyGoto, BodyReturns, Finish, Fault, Finished, rowVars, bodyVars,
     budgets
<1>13. ASSUME NEW r \in Ids, BodyUnset(r)
      PROVE  (\A s \in Ids : Closed(row[s]) => row'[s] \in {row[s], "gone"})
  BY <1>13, RunsAssumption DEF RunsInv, TypeOK, Ids, Closed, Open, BodyUnset,
     Bodys, BodyGoto, BodyReturns, rowVars, bodyVars, budgets
<1>14. ASSUME NEW r \in Ids, BodyBegins(r)
      PROVE  (\A s \in Ids : Closed(row[s]) => row'[s] \in {row[s], "gone"})
  BY <1>14, RunsAssumption DEF RunsInv, TypeOK, Ids, Closed, Open, BodyBegins,
     Bodys, BodyGoto, BodyReturns, Fault, rowVars, bodyVars, budgets
<1>15. ASSUME NEW r \in Ids, BodyRuns(r)
      PROVE  (\A s \in Ids : Closed(row[s]) => row'[s] \in {row[s], "gone"})
  BY <1>15, RunsAssumption DEF RunsInv, TypeOK, Ids, Closed, Open, BodyRuns, Bodys,
     BodyGoto, rowVars, bodyVars, budgets
<1>16. ASSUME NEW r \in Ids, BodyWaited(r)
      PROVE  (\A s \in Ids : Closed(row[s]) => row'[s] \in {row[s], "gone"})
  BY <1>16, RunsAssumption DEF RunsInv, TypeOK, Ids, Closed, Open, BodyWaited,
     Bodys, BodyGoto, Fault, rowVars, bodyVars, budgets
<1>17. ASSUME NEW r \in Ids, BodyCloses(r)
      PROVE  (\A s \in Ids : Closed(row[s]) => row'[s] \in {row[s], "gone"})
  BY <1>17, RunsAssumption DEF RunsInv, TypeOK, Ids, Closed, Open, BodyCloses,
     Bodys, BodyGoto, BodyReturns, Finish, Fault, Finished, rowVars, bodyVars,
     budgets
<1>18. ASSUME NEW r \in Ids, JobEnds(r)
      PROVE  (\A s \in Ids : Closed(row[s]) => row'[s] \in {row[s], "gone"})
  BY <1>18, RunsAssumption DEF RunsInv, TypeOK, Ids, Closed, Open, JobEnds,
     BodyIsOver, BodyGoto, Fault, rowVars, bodyVars, budgets
<1>19. ASSUME NEW r \in Ids, ContainerExits(r)
      PROVE  (\A s \in Ids : Closed(row[s]) => row'[s] \in {row[s], "gone"})
  BY <1>19, RunsAssumption DEF RunsInv, TypeOK, Ids, Closed, Open, ContainerExits,
     rowVars, bodyVars, budgets
<1>20. ASSUME NEW r \in Ids, Unpark(r)
      PROVE  (\A s \in Ids : Closed(row[s]) => row'[s] \in {row[s], "gone"})
  BY <1>20, RunsAssumption DEF RunsInv, TypeOK, Ids, Closed, Open, Unpark, rowVars,
     bodyVars, budgets
<1>21. ASSUME NEW r \in Ids, PressStop(r)
      PROVE  (\A s \in Ids : Closed(row[s]) => row'[s] \in {row[s], "gone"})
  BY <1>21, RunsAssumption DEF RunsInv, TypeOK, Ids, Closed, Open, PressStop, Live,
     Cancel, rowVars, bodyVars, budgets
<1>22. ASSUME NEW r \in Ids, StopRead(r)
      PROVE  (\A s \in Ids : Closed(row[s]) => row'[s] \in {row[s], "gone"})
  BY <1>22, RunsAssumption DEF RunsInv, TypeOK, Ids, Closed, Open, StopRead,
     rowVars, bodyVars, budgets
<1>23. ASSUME StopJob
      PROVE  (\A s \in Ids : Closed(row[s]) => row'[s] \in {row[s], "gone"})
  BY <1>23, RunsAssumption DEF RunsInv, TypeOK, Ids, Closed, Open, StopJob,
     StopCancels, Cancel, Fault, NoStop, rowVars, bodyVars, budgets
<1>24. ASSUME StopClose
      PROVE  (\A s \in Ids : Closed(row[s]) => row'[s] \in {row[s], "gone"})
  BY <1>24, RunsAssumption DEF RunsInv, TypeOK, Ids, Closed, Open, StopClose,
     Finish, Fault, Finished, NoStop, rowVars, bodyVars, budgets
<1>25. ASSUME PanelDies
      PROVE  (\A s \in Ids : Closed(row[s]) => row'[s] \in {row[s], "gone"})
  BY <1>25, RunsAssumption DEF RunsInv, TypeOK, Ids, Closed, Open, PanelDies,
     Interrupted, NoCall, NoStop, rowVars, bodyVars, budgets
<1>26. CASE UNCHANGED vars
  BY <1>26 DEF RunsInv, TypeOK, Ids, Closed, Open, vars, rowVars, bodyVars, budgets
<1> QED
  BY <1>1, <1>2, <1>3, <1>4, <1>5, <1>6, <1>7, <1>8, <1>9, <1>10, <1>11, <1>12, <1>13,
     <1>14, <1>15, <1>16, <1>17, <1>18, <1>19, <1>20, <1>21, <1>22, <1>23, <1>24, <1>25, <1>26
     DEF Next, Body

(* A tile with no runs satisfies the invariant.                            *)
LEMMA RunsInit == Init => RunsInv
<1> SUFFICES ASSUME Init PROVE RunsInv
  OBVIOUS
<1>1. TypeOK
  BY RunsAssumption DEF Init, TypeOK, Ids, Steps, CallSteps, NoCall, NoStop
<1>2. Ahead /\ BodiesApart /\ Awaited /\ NilIsClosed
  BY DEF Init, Ahead, BodiesApart, Awaited, NilIsClosed, Ids
<1>3. \A c \in Everyone : ~Carries(c)
  BY DEF Init, Carries, NoCall
<1>4. CallsApart
  BY <1>3 DEF Init, CallsApart, Carries, NoCall
<1>5. OpenIsHeld /\ CancelHolds
  BY DEF Init, OpenIsHeld, Open, CancelHolds, CancelledRuns, NoStop
<1> QED
  BY <1>1, <1>2, <1>4, <1>5 DEF RunsInv

(* The inductive invariant holds throughout.                               *)
THEOREM RunsInvariant == Spec => []RunsInv
<1>1. RunsInv /\ [Next]_vars => RunsInv'
  <2> SUFFICES ASSUME RunsInv, [Next]_vars PROVE RunsInv'
    OBVIOUS
  <2>1. TypeOK'
    BY TypeStep DEF RunsInv
  <2> QED
    BY <2>1, AheadStep, CallsStep, BodiesStep, AwaitedStep, NilStep, HeldStep, CancelStep
       DEF RunsInv
<1> QED
  BY RunsInit, <1>1, PTL DEF Spec

(* The rows, jobs, bodies and calls keep their types, whatever the         *)
(* interleaving of triggers, bodies, stops and deaths.                     *)
THEOREM RunsTypes == Spec => []TypeOK
<1>1. RunsInv => TypeOK
  BY DEF RunsInv
<1> QED
  BY <1>1, RunsInvariant, PTL

(* While every write succeeds an open row is held by its link, its job,    *)
(* its body or its caller (busy and Interrupted close the others).         *)
THEOREM RunsNotBlocked == Spec => []NotBlocked
<1>1. RunsInv => NotBlocked
  BY DEF RunsInv, OpenIsHeld, NotBlocked, Held, Carries
<1> QED
  BY <1>1, RunsInvariant, PTL

(* The tile's lock set keeps the containers of two queued runs apart, with *)
(* any number of triggers that found the tile idle.                        *)
THEOREM RunsOneAtATime == Spec => []OneRunAtATime
<1>1. RunsInv => OneRunAtATime
  BY DEF RunsInv, TypeOK, Awaited, BodiesApart, OneRunAtATime
<1> QED
  BY <1>1, RunsInvariant, PTL

(* Once StopRun has returned for a run whose job it read, no container of  *)
(* the run is without a dying body that removes it.                        *)
THEOREM RunsStopReaches == Spec => []StopReaches
<1>1. RunsInv => StopReaches
  BY DEF RunsInv, TypeOK, Awaited, CancelHolds, CancelledRuns, StopReaches
<1> QED
  BY <1>1, RunsInvariant, PTL

(* No step reopens or rewrites a closed row: not SetJob, Begin, Finish,    *)
(* StopRun, the next trigger's clean-up nor boot.                          *)
THEOREM RunsClosedIsFinal == Spec => ClosedIsFinal
<1>1. RunsInv /\ [Next]_vars =>
        [\A r \in Ids : Closed(row[r]) => row'[r] \in {row[r], "gone"}]_vars
  BY FinalStep
<1> QED
  BY <1>1, RunsInvariant, PTL DEF Spec, ClosedIsFinal

=============================================================================
