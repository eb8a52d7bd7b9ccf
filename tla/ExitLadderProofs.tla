---------------------------- MODULE ExitLadderProofs ----------------------------
(***************************************************************************)
(* The exit ladder's safety, for any number of rungs and any thresholds.   *)
(***************************************************************************)
EXTENDS ExitLadder, TLAPS

USE LadderAssumption

(* The streaks stay within what they are compared with.                    *)
LEMMA ProbeTypes ==
    ASSUME TypeOK, NEW i \in Rungs, Probe(i)
    PROVE  /\ good' \in [Rungs -> 0..RecoverAfter]
           /\ bad' \in [Rungs -> 0..FailAfter]
<1>1. \A n \in 0..RecoverAfter : More(n, RecoverAfter) \in 0..RecoverAfter
  BY DEF More
<1>2. \A n \in 0..FailAfter : More(n, FailAfter) \in 0..FailAfter
  BY DEF More
<1> QED
  BY <1>1, <1>2 DEF TypeOK, Probe

(* A ping leaves its rung a streak, and the others theirs.                 *)
LEMMA ProbeLeaves ==
    ASSUME TypeOK, NEW i \in Rungs, Probe(i)
    PROVE  /\ \A j \in Rungs : j # i => good'[j] = good[j] /\ bad'[j] = bad[j]
           /\ i \in answers => good'[i] > 0
           /\ i \notin answers => bad'[i] > 0
<1>1. \A n \in 0..RecoverAfter : More(n, RecoverAfter) > 0
  BY DEF More
<1>2. \A n \in 0..FailAfter : More(n, FailAfter) > 0
  BY DEF More
<1> QED
  BY <1>1, <1>2 DEF TypeOK, Probe

(* A pass that decides holds its choice.                                   *)
LEMMA Decides ==
    ASSUME NEW n \in Choices, Decide(n)
    PROVE  /\ tick' \in [pc : {"decided"}, i : {0}, next : Choices]
           /\ tick'.pc = "decided" /\ tick'.next = n
  BY DEF Decide

(* A pass that looks further is at the rung it looks at.                   *)
LEMMA LooksAt ==
    ASSUME TypeOK, NEW pc \in {"first", "above", "live", "below"}, NEW i \in 0..(N + 1), LookAt(pc, i)
    PROVE  /\ tick' \in [pc : {"first", "above", "live", "below"}, i : 0..(N + 1), next : Choices]
           /\ tick'.pc = pc /\ tick'.i = i
  BY DEF TypeOK, LookAt

(***************************************************************************)
(* The variables have their types                                          *)
(***************************************************************************)

(* A fresh ladder has its types (NewLadder).                               *)
LEMMA TypeInit == Init => TypeOK
<1> SUFFICES ASSUME Init
             PROVE  TypeOK
  OBVIOUS
<1>1. good \in [Rungs -> 0..RecoverAfter] /\ bad \in [Rungs -> 0..FailAfter]
  BY DEF Init
<1>2. Idle \in [pc : {"idle"}, i : {0}, next : {0}] /\ 0 \in Choices /\ Uplink \in Routes
  BY DEF Idle, Choices, Uplink, Routes
<1>3. tick \in [pc : {"idle", "first", "above", "live", "below", "decided", "add"},
              i : 0..(N + 1), next : Choices]
  BY <1>2 DEF Init
<1>4. init \in BOOLEAN /\ down \in BOOLEAN /\ torn \in BOOLEAN /\ failed \in BOOLEAN
  BY DEF Init
<1>5. /\ faults \in 0..MaxFaults /\ restarts \in 0..MaxRestarts
      /\ active \in Choices /\ route \in Routes /\ answers \subseteq Rungs
  BY <1>2 DEF Init
<1> QED
  BY <1>1, <1>3, <1>4, <1>5 DEF TypeOK

(* Every step of the ladder keeps the types; that the rung looked at is on *)
(* the ladder takes where the pass is.                                     *)
LEMMA TypeStep ==
    ASSUME TypeOK, PassInv, [Next]_vars
    PROVE  TypeOK'
<1>0. /\ tick.i \in 0..(N + 1) /\ tick.next \in Choices /\ active \in 0..N
      /\ tick \in [pc : {"idle", "first", "above", "live", "below", "decided", "add"},
                   i : 0..(N + 1), next : Choices]
      /\ Choices = 0..N /\ Idle \in [pc : {"idle"}, i : {0}, next : {0}]
  BY DEF TypeOK, Choices, Idle
<1> USE DEF TypeOK, state, counts, history, budgets, TickUnchanged
<1>1. CASE UNCHANGED vars
  BY <1>1 DEF vars
<1>2. CASE StartTick
  <2>1. tick' \in [pc : {"first", "above"}, i : {1}, next : Choices]
    BY <1>2 DEF StartTick
  <2> QED
    BY <1>2, <2>1 DEF StartTick
<1>3. CASE ProbeFirst
  <2>1. CASE tick.i \in Rungs
    <3>1. tick.i \in Rungs /\ tick.i \in Choices /\ tick.i + 1 \in 0..(N + 1)
      BY ONLY <1>0, <1>3, <2>1, PassInv, LadderAssumption DEF ProbeFirst, PassInv, Rungs
    <3>2. good' \in [Rungs -> 0..RecoverAfter] /\ bad' \in [Rungs -> 0..FailAfter]
      BY <1>3, <2>1, <3>1, ProbeTypes DEF ProbeFirst
    <3>3. tick' \in [pc : {"first", "above", "live", "below", "decided"}, i : 0..(N + 1), next : Choices]
      BY <1>3, <2>1, <3>1, Decides, LooksAt DEF ProbeFirst
    <3> QED
      BY <1>3, <3>2, <3>3 DEF ProbeFirst
  <2>2. CASE tick.i \notin Rungs
    <3>0. 0 \in Choices /\ Rungs \subseteq Choices /\ active \in 0..(N + 1)
      BY ONLY <1>0, LadderAssumption DEF Rungs
    <3>1. tick' \in [pc : {"first", "above", "live", "below", "decided"}, i : 0..(N + 1), next : Choices]
      BY <1>3, <2>2, <3>0, Decides, LooksAt DEF ProbeFirst
    <3> QED
      BY <1>3, <2>2, <3>1 DEF ProbeFirst
  <2> QED
    BY <2>1, <2>2
<1>4. CASE ProbeAbove
  <2>1. CASE tick.i < active
    <3>1. tick.i \in Rungs /\ tick.i \in Choices /\ tick.i + 1 \in 0..(N + 1)
      BY ONLY <1>0, <1>4, <2>1, PassInv, LadderAssumption DEF ProbeAbove, PassInv, Rungs
    <3>2. good' \in [Rungs -> 0..RecoverAfter] /\ bad' \in [Rungs -> 0..FailAfter]
      BY <1>4, <2>1, <3>1, ProbeTypes DEF ProbeAbove
    <3>3. tick' \in [pc : {"first", "above", "live", "below", "decided"}, i : 0..(N + 1), next : Choices]
      BY <1>4, <2>1, <3>1, Decides, LooksAt DEF ProbeAbove
    <3> QED
      BY <1>4, <3>2, <3>3 DEF ProbeAbove
  <2>2. CASE ~(tick.i < active)
    <3>0. 0 \in Choices /\ Rungs \subseteq Choices /\ active \in 0..(N + 1)
      BY ONLY <1>0, LadderAssumption DEF Rungs
    <3>1. tick' \in [pc : {"first", "above", "live", "below", "decided"}, i : 0..(N + 1), next : Choices]
      BY <1>4, <2>2, <3>0, Decides, LooksAt DEF ProbeAbove
    <3> QED
      BY <1>4, <2>2, <3>1 DEF ProbeAbove
  <2> QED
    BY <2>1, <2>2
<1>5. CASE ProbeLive
  <2>1. active \in Rungs /\ active \in Choices /\ active + 1 \in 0..(N + 1)
    BY ONLY <1>0, <1>5, PassInv, LadderAssumption DEF ProbeLive, PassInv, Rungs
  <2>2. good' \in [Rungs -> 0..RecoverAfter] /\ bad' \in [Rungs -> 0..FailAfter]
    BY <1>5, <2>1, ProbeTypes DEF ProbeLive
  <2>3. tick' \in [pc : {"first", "above", "live", "below", "decided"}, i : 0..(N + 1), next : Choices]
    BY <1>5, <2>1, Decides, LooksAt DEF ProbeLive
  <2> QED
    BY <1>5, <2>2, <2>3 DEF ProbeLive
<1>6. CASE ProbeBelow
  <2>1. CASE tick.i \in Rungs
    <3>1. tick.i \in Rungs /\ tick.i \in Choices /\ tick.i + 1 \in 0..(N + 1)
      BY ONLY <1>0, <1>6, <2>1, PassInv, LadderAssumption DEF ProbeBelow, PassInv, Rungs
    <3>2. good' \in [Rungs -> 0..RecoverAfter] /\ bad' \in [Rungs -> 0..FailAfter]
      BY <1>6, <2>1, <3>1, ProbeTypes DEF ProbeBelow
    <3>3. tick' \in [pc : {"first", "above", "live", "below", "decided"}, i : 0..(N + 1), next : Choices]
      BY <1>6, <2>1, <3>1, Decides, LooksAt DEF ProbeBelow
    <3> QED
      BY <1>6, <3>2, <3>3 DEF ProbeBelow
  <2>2. CASE tick.i \notin Rungs
    <3>0. 0 \in Choices /\ Rungs \subseteq Choices /\ active \in 0..(N + 1)
      BY ONLY <1>0, LadderAssumption DEF Rungs
    <3>1. tick' \in [pc : {"first", "above", "live", "below", "decided"}, i : 0..(N + 1), next : Choices]
      BY <1>6, <2>2, <3>0, Decides, LooksAt DEF ProbeBelow
    <3> QED
      BY <1>6, <2>2, <3>1 DEF ProbeBelow
  <2> QED
    BY <2>1, <2>2
<1>7. CASE KeepRung
  <2>1. tick' \in [pc : {"idle", "first", "above", "live", "below", "decided", "add"}, i : 0..(N + 1), next : Choices]
    BY <1>0, <1>7 DEF KeepRung
  <2>2. failed' \in BOOLEAN
    BY <1>7 DEF KeepRung
  <2> QED
    BY <1>7, <2>1, <2>2 DEF KeepRung
<1>8. CASE ApplyClear
  <2>1. tick' \in [pc : {"idle", "add"}, i : 0..(N + 1), next : Choices]
    BY <1>8 DEF ApplyClear, Commit, Idle, Choices
  <2>2. active' \in Choices /\ down' \in BOOLEAN /\ init' \in BOOLEAN /\ torn' \in BOOLEAN /\ failed' \in BOOLEAN
    BY <1>8 DEF ApplyClear, Commit
  <2> QED
    BY <1>8, <2>1, <2>2 DEF ApplyClear, Uplink, Routes
<1>9. CASE ApplyAdd
  <2>1. route' \in Routes /\ tick' \in [pc : {"idle"}, i : {0}, next : {0}]
    BY <1>9 DEF ApplyAdd, Commit, Idle, RouteOf, Uplink, Blackhole, Routes, Choices
  <2>2. active' \in Choices /\ down' \in BOOLEAN /\ init' \in BOOLEAN /\ torn' \in BOOLEAN /\ failed' \in BOOLEAN
    BY <1>9 DEF ApplyAdd, Commit
  <2> QED
    BY <1>9, <2>1, <2>2 DEF ApplyAdd, Choices
<1>10. CASE ApplyFails
  BY <1>10 DEF ApplyFails, Idle, Choices
<1>11. CASE Weather
  BY <1>11 DEF Weather
<1>12. CASE Fresh
  <2>1. /\ good' \in [Rungs -> 0..RecoverAfter] /\ bad' \in [Rungs -> 0..FailAfter]
        /\ active' \in Choices
    BY <1>0, <1>12 DEF Fresh
  <2>2. tick' \in [pc : {"idle", "first", "above", "live", "below", "decided", "add"}, i : 0..(N + 1), next : Choices]
    BY <1>0, <1>12 DEF Fresh
  <2>3. init' \in BOOLEAN /\ down' \in BOOLEAN /\ torn' \in BOOLEAN /\ failed' \in BOOLEAN
    BY <1>12 DEF Fresh
  <2>4. restarts' \in 0..MaxRestarts
    BY <1>12 DEF Fresh
  <2> QED
    BY <1>12, <2>1, <2>2, <2>3, <2>4 DEF Fresh
<1> QED
  BY <1>1, <1>2, <1>3, <1>4, <1>5, <1>6, <1>7, <1>8, <1>9, <1>10, <1>11, <1>12 DEF Next, Pass

(***************************************************************************)
(* Where a pass is and what it asked                                       *)
(***************************************************************************)

(* Every step keeps what the place of the pass says of the streaks, and a  *)
(* pass gives up only when no rung answered its last ping.                 *)
LEMMA PassStep ==
    ASSUME TypeOK, PassInv, HoleWhenNoneAnswers, [Next]_vars
    PROVE  PassInv' /\ HoleWhenNoneAnswers'
<1> USE DEF PassInv, HoleWhenNoneAnswers, state, counts, history, budgets, TickUnchanged
<1>1. CASE UNCHANGED vars
  BY <1>1 DEF vars, Asked, Silent
<1>2. CASE StartTick
  <2>1. tick'.pc \in {"first", "above"} /\ tick'.i = 1 /\ (tick'.pc = "first" <=> active = 0) /\ active \in Choices
    BY <1>2 DEF StartTick, TypeOK
  <2> QED
    BY <1>2, <2>1 DEF StartTick, Asked, Silent, Choices
<1>3. CASE ProbeFirst
  <2>1. CASE tick.i \in Rungs
    <3>1. tick.i \in Choices /\ tick.i + 1 \in 0..(N + 1) /\ tick.i # 0
      BY <2>1 DEF Choices, Rungs
    <3>2. tick.i \notin answers => (\A i \in 1..tick.i : bad'[i] > 0)
      BY <1>3, <2>1, ProbeLeaves DEF ProbeFirst, Silent, Rungs
    <3>3. (1..tick.i) = 1..((tick.i + 1) - 1) /\ tick.i + 1 > 0
      BY <2>1 DEF Rungs
    <3> QED
      BY <1>3, <2>1, <3>1, <3>2, <3>3, Decides, LooksAt DEF ProbeFirst, Silent
  <2>2. CASE tick.i \notin Rungs
    <3>1. 0 \in Choices /\ tick.i = N + 1
      BY <1>3, <2>2 DEF ProbeFirst, TypeOK, Choices, Rungs
    <3> QED
      BY <1>3, <2>2, <3>1, Decides DEF ProbeFirst, Silent, Rungs
  <2> QED
    BY <2>1, <2>2
<1>4. CASE ProbeAbove
  <2>0. active \in Rungs /\ tick.i \in Nat
    BY <1>4 DEF ProbeAbove, TypeOK, Choices, Rungs
  <2>1. CASE tick.i < active
    <3>1. tick.i \in Rungs /\ tick.i \in Choices /\ tick.i + 1 \in 0..(N + 1) /\ tick.i + 1 \in 1..active /\ tick.i # 0
      BY <1>4, <2>0, <2>1 DEF ProbeAbove, Choices, Rungs
    <3>2. \A i \in 1..tick.i : good'[i] > 0 \/ bad'[i] > 0
      BY <1>4, <2>0, <2>1, <3>1, ProbeLeaves DEF ProbeAbove, Asked, Rungs
    <3>3. (1..tick.i) = 1..((tick.i + 1) - 1)
      BY <2>0
    <3> QED
      BY <1>4, <2>0, <2>1, <3>1, <3>2, <3>3, Decides, LooksAt DEF ProbeAbove, Asked
  <2>2. CASE ~(tick.i < active)
    <3>1. tick.i = active /\ active \in 0..(N + 1)
      BY <1>4, <2>0, <2>2 DEF ProbeAbove, Rungs
    <3> QED
      BY <1>4, <2>2, <3>1, LooksAt DEF ProbeAbove, Asked
  <2> QED
    BY <2>1, <2>2
<1>5. CASE ProbeLive
  <2>1. active \in Rungs /\ active \in Choices /\ active + 1 \in 0..(N + 1) /\ active # 0
    BY <1>5 DEF ProbeLive, TypeOK, Choices, Rungs
  <2>2. Asked(1..(active - 1))'
    BY <1>5, <2>1, ProbeLeaves DEF ProbeLive, Asked, Rungs
  <2>3. GivenUp => Silent(active..active)'
    BY <1>5, <2>1, ProbeLeaves DEF ProbeLive, GivenUp, Silent, Rungs
  <2>4. (active..active) = active..((active + 1) - 1) /\ active + 1 > active
    BY <2>1 DEF Rungs
  <2> QED
    BY <1>5, <2>1, <2>2, <2>3, <2>4, Decides, LooksAt DEF ProbeLive
<1>6. CASE ProbeBelow
  <2>0. active \in Rungs /\ tick.i \in Nat /\ tick.i <= N + 1
    BY <1>6 DEF ProbeBelow, TypeOK, Choices, Rungs
  <2>1. CASE tick.i \in Rungs
    <3>1. tick.i \in Choices /\ tick.i + 1 \in 0..(N + 1) /\ tick.i # 0 /\ tick.i + 1 > active
      BY <1>6, <2>0, <2>1 DEF ProbeBelow, Choices, Rungs
    <3>2. Asked(1..(active - 1))'
      BY <1>6, <2>0, <2>1, ProbeLeaves DEF ProbeBelow, Asked, Rungs
    <3>3. tick.i \notin answers => (\A i \in active..tick.i : bad'[i] > 0)
      BY <1>6, <2>0, <2>1, ProbeLeaves DEF ProbeBelow, Silent, Rungs
    <3>4. (active..tick.i) = active..((tick.i + 1) - 1)
      BY <2>0 DEF Rungs
    <3> QED
      BY <1>6, <2>1, <3>1, <3>2, <3>3, <3>4, Decides, LooksAt DEF ProbeBelow, Silent
  <2>2. CASE tick.i \notin Rungs
    <3>1. tick.i = N + 1
      BY <1>6, <2>0, <2>2 DEF ProbeBelow, Rungs
    <3>2. CASE AnsweredAbove = {}
      <4>1. \A i \in 1..(active - 1) : ~(good[i] > 0)
        BY <2>0, <3>2 DEF AnsweredAbove, Rungs
      <4>2. \A i \in Rungs : bad[i] > 0
        BY <1>6, <2>0, <3>1, <4>1 DEF ProbeBelow, Asked, Silent, Rungs
      <4> QED
        BY <1>6, <2>2, <3>2, <4>2, Decides DEF ProbeBelow, Choices
    <3>3. CASE AnsweredAbove # {}
      <4>1. PICK i \in Rungs : Decide(i)
        BY <1>6, <2>2, <3>3 DEF ProbeBelow
      <4>2. i \in Choices /\ i # 0
        BY DEF Choices, Rungs
      <4> QED
        BY <4>1, <4>2, Decides
    <3> QED
      BY <3>2, <3>3
  <2> QED
    BY <2>1, <2>2
<1>7. CASE KeepRung
  BY <1>7 DEF KeepRung, Idle
<1>8. CASE ApplyClear
  <2>1. CASE tick.next \in Own
    BY <1>8, <2>1 DEF ApplyClear, Commit, Idle
  <2>2. CASE tick.next \notin Own
    <3>1. tick'.pc = "add" /\ tick'.next = tick.next
      BY <1>8, <2>2 DEF ApplyClear, TypeOK
    <3> QED
      BY <1>8, <3>1 DEF ApplyClear
  <2> QED
    BY <2>1, <2>2
<1>9. CASE ApplyAdd
  BY <1>9 DEF ApplyAdd, Commit, Idle
<1>10. CASE ApplyFails
  BY <1>10 DEF ApplyFails, Idle
<1>11. CASE Weather
  BY <1>11 DEF Weather, Asked, Silent
<1>12. CASE Fresh
  BY <1>12 DEF Fresh, Idle
<1> QED
  BY <1>1, <1>2, <1>3, <1>4, <1>5, <1>6, <1>7, <1>8, <1>9, <1>10, <1>11, <1>12 DEF Next, Pass

(***************************************************************************)
(* The rules are those of the state                                        *)
(***************************************************************************)

(* Only an apply touches the rules or the state, and it records the state  *)
(* whose rules it put in.                                                  *)
LEMMA RulesStep ==
    ASSUME TypeOK, RulesMatch, [Next]_vars
    PROVE  RulesMatch'
<1> USE DEF RulesMatch, state, counts, history, budgets, TickUnchanged
<1>1. CASE UNCHANGED vars
  BY <1>1 DEF vars, RouteOf
<1>2. CASE StartTick \/ ProbeFirst \/ ProbeAbove \/ ProbeLive \/ ProbeBelow \/ KeepRung
  <2>1. UNCHANGED <<active, init, route, torn>>
    BY <1>2 DEF StartTick, ProbeFirst, ProbeAbove, ProbeLive, ProbeBelow, KeepRung
  <2>2. tick.pc # "add"
    BY <1>2 DEF StartTick, ProbeFirst, ProbeAbove, ProbeLive, ProbeBelow, KeepRung
  <2> QED
    BY <2>1, <2>2 DEF RouteOf
<1>3. CASE ApplyClear
  <2>1. CASE tick.next \in Own
    BY <1>3, <2>1 DEF ApplyClear, Commit, RouteOf
  <2>2. CASE tick.next \notin Own
    BY <1>3, <2>2 DEF ApplyClear, TypeOK
  <2> QED
    BY <2>1, <2>2
<1>4. CASE ApplyAdd
  BY <1>4 DEF ApplyAdd, Commit, RouteOf
<1>5. CASE ApplyFails
  BY <1>5 DEF ApplyFails
<1>6. CASE Weather
  BY <1>6 DEF Weather, RouteOf
<1>7. CASE Fresh
  BY <1>7 DEF Fresh
<1> QED
  BY <1>1, <1>2, <1>3, <1>4, <1>5, <1>6, <1>7 DEF Next, Pass

(***************************************************************************)
(* The theorems                                                            *)
(***************************************************************************)

(* The ladder's variables keep their types: a pass never looks past the    *)
(* rung after the last, for any number of rungs and any thresholds (Tick). *)
THEOREM LadderTypes == Spec => []TypeOK
<1>1. Init => TypeOK /\ PassInv /\ HoleWhenNoneAnswers
  BY TypeInit DEF Init, PassInv, HoleWhenNoneAnswers, Idle
<1>2. (TypeOK /\ PassInv /\ HoleWhenNoneAnswers) /\ [Next]_vars => (TypeOK /\ PassInv /\ HoleWhenNoneAnswers)'
  BY TypeStep, PassStep
<1> QED
  BY <1>1, <1>2, PTL DEF Spec

(* A pass chooses the blackhole only when no rung of the ladder answered   *)
(* the last ping it got, whatever changes between two pings (Tick).        *)
THEOREM NoHoleWhileOneAnswers == Spec => []HoleWhenNoneAnswers
<1>1. Init => TypeOK /\ PassInv /\ HoleWhenNoneAnswers
  BY TypeInit DEF Init, PassInv, HoleWhenNoneAnswers, Idle
<1>2. (TypeOK /\ PassInv /\ HoleWhenNoneAnswers) /\ [Next]_vars => (TypeOK /\ PassInv /\ HoleWhenNoneAnswers)'
  BY TypeStep, PassStep
<1> QED
  BY <1>1, <1>2, PTL DEF Spec

(* Outside an apply, and while none failed, the kernel routes the subject  *)
(* by the rung the ladder reports (Tick, apply).                           *)
THEOREM RulesAreTheState == Spec => []RulesMatch
<1>1. Init => RulesMatch
  BY DEF Init, RulesMatch
<1>2. TypeOK /\ RulesMatch /\ [Next]_vars => RulesMatch'
  BY RulesStep
<1> QED
  BY <1>1, <1>2, LadderTypes, PTL DEF Spec

=============================================================================
