--------------------------- MODULE CARolloverProofs ---------------------------
(***************************************************************************)
(* Theorems about the rollover of the cluster root, for any number of      *)
(* workers, roots, renewals, crashes, failing writes and lost answers.     *)
(***************************************************************************)
EXTENDS CARollover, TLAPS, WellFoundedInduction

(***************************************************************************)
(* The inductive invariant                                                 *)
(***************************************************************************)

(* Only a panel that is up rolls over or renews; a renewal's serial was    *)
(* issued before its row was announced.                                    *)
Underway ==
    /\ ~up => roll = IdleRoll /\ ren = IdleRen
    /\ ren.step # "idle" => ren.next \in Serials /\ issuer[ren.next] # 0

(* A row that records a rollover names the pair on disk, or the old root   *)
(* is dropped already.                                                     *)
RowFollows ==
    row.prev # 0 =>
        /\ row.cur = caCrt /\ caKey = caCrt
        /\ row.prev # caCrt /\ caPrev \in {0, row.prev}

(* A previous root on disk that is not the current one: the rotation's     *)
(* last rename is done and the signing pair is whole.                      *)
PairOnDisk == caPrev \notin {0, caCrt} => caKey = caCrt

(* The panel signs with the root on disk, but for the moment between the   *)
(* last rename and the swap, and trusts what the directory holds.          *)
MemoryFollows ==
    up => /\ sign.crt \in roots /\ sign.key \in {caKey, sign.crt}
          /\ roll.step # "swap" => sign.crt = caCrt
          /\ roll.step # "swap" /\ caPrev \notin {0, caCrt} => roots = {caCrt, caPrev}

(* How far the directory is at each step of the rotation and of the finish.*)
RotationAt ==
    /\ roll.step = "cross" => row.prev = 0 /\ caPrev = 0 /\ NextRoot \in Roots
    /\ roll.step \in {"prevcrt", "key", "crt", "swap"} =>
          row.prev = 0 /\ Whole(sign) /\ roll.next = NextRoot /\ NextRoot \in Roots
    /\ roll.step = "prevcrt" => caPrev = 0
    /\ roll.step \in {"key", "crt"} => caPrev = caCrt
    /\ roll.step = "crt" => caKey = roll.next
    /\ roll.step = "swap" => caPrev = sign.crt /\ caKey = roll.next /\ caCrt = roll.next
    /\ roll.step \in {"forget", "record"} => caPrev = 0

(* The files, the row and the memory name one pair of different roots.     *)
Agree ==
    /\ row = [cur |-> caCrt, prev |-> caPrev]
    /\ sign = [key |-> caKey, crt |-> caCrt] /\ Whole(sign)
    /\ roots = {row.cur, row.prev}
    /\ row.prev \notin {0, row.cur}

RootInv == TypeOK /\ Underway /\ RowFollows /\ PairOnDisk /\ MemoryFollows /\ RotationAt /\ ActsOnTruth

(* The workers that were neither given up on nor counted without a look.   *)
Followed == Workers \ (rejoin \cup stranded)

(* The certificates a worker may run with: of the current root, or of the  *)
(* previous one while that is on disk; all of the old root before the      *)
(* swap, all of the new one once it may be dropped.                        *)
WorkersFollow ==
    /\ \A w \in Workers : newest[w] = 0 => w \in rejoin
    /\ \A w \in Followed : w \in settled => hold[w] = newest[w]
    /\ \A w \in Followed : hold[w] \in {caCrt, caPrev} \ {0}
    /\ roll.step \in {"prevcrt", "key", "crt", "swap"} => \A w \in Followed : hold[w] = sign.crt
    /\ roll.step = "dropprev" => \A w \in Followed : hold[w] = caCrt

CAInv == RootInv /\ WorkersFollow

(***************************************************************************)
(* Types                                                                   *)
(***************************************************************************)

BudgetType == budget \in [{"renewals", "crashes", "faults", "lost", "away"} -> Nat]

(* A bounded event takes one from its own budget.                          *)
LEMMA SpendTypes ==
    ASSUME TypeOK, NEW b \in {"renewals", "crashes", "faults", "lost", "away"},
           Spend(b) \/ UNCHANGED budget
    PROVE  BudgetType'
  BY DEF TypeOK, BudgetType, Spend

(* The smallest serial not issued yet is a serial: the one issueController *)
(* makes was never announced before.                                       *)
LEMMA NextSerialType ==
    ASSUME TypeOK, Unissued # {} PROVE NextSerial \in Serials /\ issuer[NextSerial] = 0
<1> DEFINE less == OpToRel(<, Nat)
<1>1. Unissued \subseteq Nat
  BY DEF Unissued, Serials
<1>2. PICK x \in Unissued : \A y \in Unissued : ~(<<y, x>> \in less)
  BY <1>1, WFMin, NatLessThanWellFounded
<1>3. \A y \in Unissued : x <= y
  <2> SUFFICES ASSUME NEW y \in Unissued, y < x PROVE FALSE
    BY <1>1
  <2>1. <<y, x>> \in less
    BY <1>1 DEF OpToRel
  <2> QED
    BY <1>2, <2>1
<1>4. NextSerial \in Unissued
  BY <1>3 DEF NextSerial
<1> QED
  BY <1>4 DEF Unissued

(* A worker falls behind by at most two.                                   *)
LEMMA BehindType ==
    ASSUME TypeOK, NEW s, NEW n \in Nat PROVE Behind(s, n) \in [Workers -> 0..2]
  BY DEF TypeOK, Behind

(* Reconcile writes values of the right types.                             *)
LEMMA ReconcileTypes ==
    ASSUME TypeOK, Reconcile
    PROVE  /\ caPrev' \in Roots \cup {0} /\ cross' \in [by : Roots \cup {0}, of : Roots \cup {0}]
           /\ pctl' \in Pair(Serials) /\ prev' \in Serials \cup {0} /\ roots' \subseteq Roots
           /\ row' \in [cur : Roots \cup {0}, prev : Roots \cup {0}]
           /\ missed' \in [Workers -> 0..2] /\ BudgetType'
<1>1. BudgetType'
  BY SpendTypes DEF Reconcile
<1>2. missed' \in [Workers -> 0..2]
  BY BehindType DEF Reconcile, TypeOK
<1>3. /\ caPrev' \in Roots \cup {0} /\ roots' \subseteq Roots
      /\ row' \in [cur : Roots \cup {0}, prev : Roots \cup {0}]
  BY DEF Reconcile, TypeOK
<1>4. /\ cross' \in [by : Roots \cup {0}, of : Roots \cup {0}]
      /\ pctl' \in Pair(Serials) /\ prev' \in Serials \cup {0}
  BY DEF Reconcile, TypeOK, NoCross, NoPair, Pair
<1> QED
  BY <1>1, <1>2, <1>3, <1>4

(* A write that fails changes the budget.                                  *)
LEMMA SpendMoves ==
    ASSUME TypeOK, NEW b \in {"renewals", "crashes", "faults", "lost", "away"}, Spend(b)
    PROVE  budget' # budget
  BY DEF TypeOK, Spend

(* What reconcile answers with when its save succeeds: a rollover on which *)
(* files, row and memory agree, or no rollover and no previous root.       *)
LEMMA ReconcileTruth ==
    ASSUME RootInv, up, roll.step = "idle", Reconcile, budget' = budget,
           UNCHANGED <<caKey, caCrt, sign>>
    PROVE  IF Rolling(row') THEN Agree' ELSE row'.prev = 0 /\ caPrev' = 0
<1>1. sign.crt = caCrt /\ sign.key \in {caKey, sign.crt} /\ sign \in [key : Roots, crt : Roots]
  BY DEF RootInv, MemoryFollows, TypeOK
<1>2. caCrt # 0
  BY DEF RootInv, TypeOK, Roots
<1>3. ~Spend("faults")
  BY SpendMoves DEF RootInv
<1>4. CASE NothingRotated /\ caPrev' = 0 /\ row' = row
  BY <1>1, <1>4 DEF RootInv, RowFollows, NothingRotated, Rolling
<1>5. CASE /\ caPrev # 0 /\ ~NothingRotated /\ roots' = {sign.crt, caPrev}
           /\ row' = [cur |-> sign.crt, prev |-> caPrev] /\ caPrev' = caPrev
  BY <1>1, <1>2, <1>5 DEF RootInv, PairOnDisk, NothingRotated, Rolling, Agree, Whole
<1>6. CASE caPrev = 0 /\ row' = [row EXCEPT !.prev = 0] /\ caPrev' = caPrev
  BY <1>6 DEF RootInv, TypeOK, Rolling
<1>7. CASE ~NothingRotated /\ (caPrev = 0 <=> row.prev = 0) /\ UNCHANGED <<caPrev, roots, row>>
  <2>1. CASE row.prev = 0
    BY <1>7, <2>1 DEF Rolling
  <2>2. CASE row.prev # 0
    <3>1. row.cur = caCrt /\ caKey = caCrt /\ row.prev = caPrev /\ caPrev # caCrt
      BY <1>7, <2>2 DEF RootInv, RowFollows
    <3>2. roots = {caCrt, caPrev}
      BY <1>7, <2>2, <3>1 DEF RootInv, MemoryFollows
    <3>3. row = [cur |-> caCrt, prev |-> caPrev] /\ sign = [key |-> caKey, crt |-> caCrt]
      BY <1>1, <3>1 DEF RootInv, TypeOK
    <3> QED
      BY <1>2, <1>7, <2>2, <3>1, <3>2, <3>3 DEF Rolling, Agree, Whole
  <2> QED
    BY <2>1, <2>2
<1> QED
  BY <1>3, <1>4, <1>5, <1>6, <1>7 DEF Reconcile

(* issueController records its serial before it is announced.              *)
LEMMA ReissueFacts ==
    ASSUME RootInv, NEW revoke \in BOOLEAN, Reissue(revoke)
    PROVE  /\ issuer' \in [Serials -> Roots \cup {0}]
           /\ \A s \in Serials : issuer[s] # 0 => issuer'[s] # 0
           /\ list' \subseteq Serials
           /\ ren' \in [step : RenSteps, revoke : BOOLEAN, next : Serials \cup {0}]
           /\ ren'.step # "idle" => ren'.next \in Serials /\ issuer'[ren'.next] # 0
           /\ pctl' \in Pair(Serials) /\ prev' \in Serials \cup {0}
           /\ missed' \in [Workers -> 0..2]
<1>1. missed' \in [Workers -> 0..2]
  BY BehindType DEF RootInv, TypeOK, Reissue
<1>2. pctl' \in Pair(Serials) /\ prev' \in Serials \cup {0}
  BY DEF RootInv, TypeOK, Reissue, NoPair, Pair
<1>3. CASE Whole(sign)
  <2>1. NextSerial \in Serials /\ sign.crt \in Roots /\ 0 \notin Roots
    BY <1>3, NextSerialType DEF RootInv, TypeOK, Reissue, Roots
  <2>2. /\ issuer' = [issuer EXCEPT ![NextSerial] = sign.crt]
        /\ list' = {own, NextSerial}
        /\ ren' = [step |-> IF revoke THEN "savekey" ELSE "keepkey", revoke |-> revoke,
                   next |-> NextSerial]
    BY <1>3 DEF Reissue
  <2> HIDE DEF NextSerial
  <2>3. issuer' \in [Serials -> Roots \cup {0}] /\ \A s \in Serials : issuer[s] # 0 => issuer'[s] # 0
    BY <2>1, <2>2 DEF RootInv, TypeOK
  <2>4. ren' \in [step : RenSteps, revoke : BOOLEAN, next : Serials \cup {0}]
    BY <2>1, <2>2 DEF RenSteps
  <2>5. issuer'[ren'.next] # 0 /\ ren'.next \in Serials
    BY <2>1, <2>2 DEF RootInv, TypeOK
  <2> QED
    BY <1>1, <1>2, <2>1, <2>2, <2>3, <2>4, <2>5 DEF RootInv, TypeOK
<1>4. CASE ~Whole(sign)
  BY <1>1, <1>2, <1>4 DEF RootInv, TypeOK, Underway, Reissue
<1> QED
  BY <1>3, <1>4

(* Every action keeps the types.                                           *)
LEMMA TypeStep == RootInv /\ [Next]_vars => TypeOK'
<1> SUFFICES ASSUME RootInv, [Next]_vars PROVE TypeOK'
  OBVIOUS
<1>1. ASSUME RotateRoot
      PROVE  TypeOK'
  <2>1. Reconcile
    BY <1>1 DEF RotateRoot, Begin
  <2>2. roll' \in [step : RollSteps, next : Roots \cup {0}]
    BY <1>1 DEF RotateRoot, RollEnds, Answered, IdleRoll, RollSteps
  <2> QED
    BY <1>1, <2>1, <2>2, ReconcileTypes DEF RootInv, TypeOK, BudgetType, RotateRoot, Begin,
       workerVars
<1>2. ASSUME RootRolloverTick
      PROVE  TypeOK'
  <2>1. Reconcile
    BY <1>2 DEF RootRolloverTick, Begin
  <2>2. roll' \in [step : RollSteps, next : Roots \cup {0}]
    BY <1>2 DEF RootRolloverTick, RollEnds, Answered, IdleRoll, RollSteps
  <2> QED
    BY <1>2, <2>1, <2>2, ReconcileTypes DEF RootInv, TypeOK, BudgetType, RootRolloverTick,
       Begin, workerVars
<1>3. ASSUME FinishRollover
      PROVE  TypeOK'
  <2>1. Reconcile
    BY <1>3 DEF FinishRollover, Begin
  <2>2. roll' \in [step : RollSteps, next : Roots \cup {0}]
    BY <1>3 DEF FinishRollover, RollEnds, Answered, IdleRoll, RollSteps
  <2> QED
    BY <1>3, <2>1, <2>2, ReconcileTypes DEF RootInv, TypeOK, BudgetType, FinishRollover,
       Begin, workerVars
<1>4. ASSUME AnnounceControllerCert
      PROVE  TypeOK'
  <2>1. CASE Reannounce
    BY <1>4, <2>1 DEF RootInv, TypeOK, AnnounceControllerCert, Reannounce, RenUnchanged, workerVars
  <2>2. ASSUME NEW revoke \in BOOLEAN, Reissue(revoke), Spend("renewals") \/ UNCHANGED budget
        PROVE  TypeOK'
    <3>1. BudgetType'
      BY <2>2, SpendTypes DEF RootInv
    <3>2. ctl' = ctl
      BY <2>2 DEF Reissue
    <3> QED
      BY <1>4, <2>2, <3>1, <3>2, ReissueFacts
         DEF RootInv, TypeOK, BudgetType, AnnounceControllerCert, RenUnchanged, workerVars
  <2> QED
    BY <1>4, <2>1, <2>2 DEF AnnounceControllerCert
<1>5. ASSUME RotateFails
      PROVE  TypeOK'
  BY <1>5, CAAssumption DEF RootInv, TypeOK, Underway, RotationAt, Pair, Roots,
     RollSteps, RenSteps, NextRoot, NoPair, NoCross, RotateFails, Spend, RollEnds,
     IdleRoll, diskVars, rowVars, memVars, workerVars, histVars
<1>6. ASSUME WriteCross
      PROVE  TypeOK'
  BY <1>6, CAAssumption DEF RootInv, TypeOK, Underway, RotationAt, Pair, Roots,
     RollSteps, RenSteps, NextRoot, NoPair, NoCross, WriteCross, Whole, RollEnds,
     IdleRoll, RollMuFree, diskVars, rowVars, memVars, workerVars, histVars
<1>7. ASSUME RotatePrev
      PROVE  TypeOK'
  BY <1>7, CAAssumption DEF RootInv, TypeOK, Underway, RotationAt, Pair, Roots,
     RollSteps, RenSteps, NextRoot, NoPair, NoCross, RotatePrev, Goto, diskVars,
     rowVars, memVars, workerVars, histVars
<1>8. ASSUME RotateKey
      PROVE  TypeOK'
  BY <1>8, CAAssumption DEF RootInv, TypeOK, Underway, RotationAt, Pair, Roots,
     RollSteps, RenSteps, NextRoot, NoPair, NoCross, RotateKey, Goto, diskVars,
     rowVars, memVars, workerVars, histVars
<1>9. ASSUME RotateCrt
      PROVE  TypeOK'
  BY <1>9, CAAssumption DEF RootInv, TypeOK, Underway, RotationAt, Pair, Roots,
     RollSteps, RenSteps, NextRoot, NoPair, NoCross, RotateCrt, Goto, diskVars,
     rowVars, memVars, workerVars, histVars
<1>10. ASSUME SwapCA
      PROVE  TypeOK'
  BY <1>10, CAAssumption DEF RootInv, TypeOK, Underway, RotationAt, Pair, Roots,
     RollSteps, RenSteps, NextRoot, NoPair, NoCross, SwapCA, Both, IdleRoll,
     RollEnds, Spend, diskVars, rowVars, memVars, workerVars, histVars
<1>11. ASSUME AdvancePush
      PROVE  TypeOK'
  BY <1>11, CAAssumption DEF RootInv, TypeOK, Underway, RotationAt, Pair, Roots,
     RollSteps, RenSteps, NextRoot, NoPair, NoCross, AdvancePush, Goto, diskVars,
     rowVars, memVars, workerVars, histVars
<1>12. ASSUME AdvanceRenew
      PROVE  TypeOK'
  <2>1. roll' \in [step : RollSteps, next : Roots \cup {0}]
    BY <1>12 DEF RootInv, TypeOK, AdvanceRenew, Goto, RollSteps
  <2>2. CASE Reannounce
    BY <1>12, <2>1, <2>2 DEF RootInv, TypeOK, AdvanceRenew, Reannounce, RenUnchanged, workerVars
  <2>3. CASE Reissue(FALSE) /\ UNCHANGED budget
    <3>1. ctl' = ctl
      BY <2>3 DEF Reissue
    <3> QED
      BY <1>12, <2>1, <2>3, <3>1, ReissueFacts DEF RootInv, TypeOK, AdvanceRenew,
         RenUnchanged, workerVars
  <2> QED
    BY <1>12, <2>2, <2>3 DEF AdvanceRenew
<1>13. ASSUME AdvanceCheck
      PROVE  TypeOK'
  BY <1>13, CAAssumption DEF RootInv, TypeOK, Underway, RotationAt, Pair, Roots,
     RollSteps, RenSteps, NextRoot, NoPair, NoCross, AdvanceCheck, Goto, diskVars,
     rowVars, memVars, workerVars, histVars
<1>14. ASSUME MarkStraggler
      PROVE  TypeOK'
  BY <1>14, CAAssumption DEF RootInv, TypeOK, Underway, RotationAt, Pair, Roots,
     RollSteps, RenSteps, NextRoot, NoPair, NoCross, MarkStraggler, Goto,
     RootStragglers, diskVars, rowVars, memVars, workerVars, histVars
<1>15. ASSUME DropPrevCA
      PROVE  TypeOK'
  BY <1>15, CAAssumption DEF RootInv, TypeOK, Underway, RotationAt, Pair, Roots,
     RollSteps, RenSteps, NextRoot, NoPair, NoCross, DropPrevCA, Goto, RollMuFree,
     diskVars, rowVars, memVars, workerVars, histVars
<1>16. ASSUME ForgetPrev
      PROVE  TypeOK'
  <2>1. missed' \in [Workers -> 0..2]
    BY <1>16, BehindType DEF RootInv, ForgetPrev
  <2>2. roll' \in [step : RollSteps, next : Roots \cup {0}]
    BY <1>16 DEF RootInv, TypeOK, ForgetPrev, Goto, RollSteps
  <2>3. cross' \in [by : Roots \cup {0}, of : Roots \cup {0}] /\ pctl' \in Pair(Serials)
    BY <1>16 DEF ForgetPrev, NoCross, NoPair, Pair
  <2> QED
    BY <1>16, <2>1, <2>2, <2>3 DEF RootInv, TypeOK, ForgetPrev, rowVars, workerVars
<1>17. ASSUME RecordFinish
      PROVE  TypeOK'
  BY <1>17, CAAssumption DEF RootInv, TypeOK, Underway, RotationAt, Pair, Roots,
     RollSteps, RenSteps, NextRoot, NoPair, NoCross, RecordFinish, RollEnds,
     IdleRoll, Spend, diskVars, rowVars, memVars, workerVars, histVars
<1>18. ASSUME KeepPrev
      PROVE  TypeOK'
  <2>1. missed' \in [Workers -> 0..2]
    BY <1>18, BehindType DEF RootInv, TypeOK, KeepPrev
  <2>2. pctl' \in Pair(Serials)
    BY <1>18 DEF RootInv, TypeOK, KeepPrev, Pair
  <2>3. ren' \in [step : RenSteps, revoke : BOOLEAN, next : Serials \cup {0}]
    BY <1>18 DEF RootInv, TypeOK, KeepPrev, RenSteps
  <2> QED
    BY <1>18, <2>1, <2>2, <2>3 DEF RootInv, TypeOK, KeepPrev, RenUnchanged, workerVars
<1>19. ASSUME SaveController
      PROVE  TypeOK'
  <2>1. missed' \in [Workers -> 0..2]
    BY <1>19, BehindType DEF RootInv, TypeOK, SaveController
  <2>2. ctl' \in Pair(Serials)
    BY <1>19 DEF RootInv, TypeOK, SaveController, Pair
  <2>3. ren' \in [step : RenSteps, revoke : BOOLEAN, next : Serials \cup {0}]
    BY <1>19 DEF RootInv, TypeOK, SaveController, RenSteps
  <2> QED
    BY <1>19, <2>1, <2>2, <2>3 DEF RootInv, TypeOK, SaveController, RenUnchanged, workerVars
<1>20. ASSUME RenewalFails
      PROVE  TypeOK'
  BY <1>20, CAAssumption DEF RootInv, TypeOK, Underway, RotationAt, Pair, Roots,
     RollSteps, RenSteps, NextRoot, NoPair, NoCross, RenewalFails, RenEnds, IdleRen,
     IdleRoll, Spend, RenUnchanged, diskVars, rowVars, memVars, workerVars, histVars
<1>21. ASSUME SwitchController
      PROVE  TypeOK'
  BY <1>21, CAAssumption DEF RootInv, TypeOK, Underway, RotationAt, Pair, Roots,
     RollSteps, RenSteps, NextRoot, NoPair, NoCross, SwitchController, RenEnds,
     IdleRen, IdleRoll, RenUnchanged, diskVars, rowVars, memVars, workerVars, histVars
<1>22. ASSUME RefreshClients
      PROVE  TypeOK'
  BY <1>22, CAAssumption DEF RootInv, TypeOK, Underway, RotationAt, Pair, Roots,
     RollSteps, RenSteps, NextRoot, NoPair, NoCross, RefreshClients, diskVars,
     rowVars, memVars, workerVars, histVars
<1>23. ASSUME PanelDies
      PROVE  TypeOK'
  <2>1. BudgetType'
    BY <1>23, SpendTypes DEF RootInv, PanelDies
  <2> QED
    BY <1>23, <2>1 DEF RootInv, TypeOK, BudgetType, PanelDies, IdleRoll, IdleRen, RollSteps,
       RenSteps,
       diskVars, rowVars, workerVars, histVars
<1>24. ASSUME BootCluster
      PROVE  TypeOK'
  <2>1. ASSUME NEW s \in Serials, BootAs(s)
        PROVE  prev' \in Serials \cup {0} /\ sign' \in [key : Roots, crt : Roots] /\ roots' \subseteq Roots
    BY <2>1 DEF RootInv, TypeOK, BootAs, LoadPrev, Whole, Pair
  <2>2. CASE KeepsController /\ BootAs(ctl.crt) /\ UNCHANGED <<ctl, issuer, cut>>
    <3>1. ctl.crt \in Serials /\ issuer[ctl.crt] # 0
      BY <2>2 DEF RootInv, TypeOK, KeepsController, Whole, Pair, Roots
    <3> QED
      BY <2>1, <2>2, <3>1 DEF RootInv, TypeOK, BootAs, workerVars
  <2>3. CASE /\ Unissued # {} /\ issuer' = [issuer EXCEPT ![NextSerial] = caCrt]
             /\ ctl' = Both(NextSerial) /\ cut' = cut \cup {"boot"} /\ BootAs(NextSerial)
    <3>1. NextSerial \in Serials
      BY <2>3, NextSerialType DEF RootInv
    <3> HIDE DEF NextSerial
    <3>2. issuer' \in [Serials -> Roots \cup {0}] /\ issuer'[NextSerial] # 0
      BY <2>3, <3>1 DEF RootInv, TypeOK, Roots
    <3>3. ctl' \in Pair(Serials)
      BY <2>3, <3>1 DEF Both, Pair
    <3> QED
      BY <2>1, <2>3, <3>1, <3>2, <3>3 DEF RootInv, TypeOK, BootAs, workerVars
  <2> QED
    BY <1>24, <2>2, <2>3 DEF BootCluster
<1>25. ASSUME NEW w \in Workers, PushMesh(w)
      PROVE  TypeOK'
  BY <1>25, CAAssumption DEF RootInv, TypeOK, Underway, RotationAt, Pair, Roots,
     RollSteps, RenSteps, NextRoot, NoPair, NoCross, PushMesh, TakesSpec, diskVars,
     rowVars, memVars, workerVars, histVars
<1>26. ASSUME NEW w \in Workers, RecoverNode(w)
      PROVE  TypeOK'
  BY <1>26, CAAssumption DEF RootInv, TypeOK, Underway, RotationAt, Pair, Roots,
     RollSteps, RenSteps, NextRoot, NoPair, NoCross, RecoverNode, TakesSpec,
     diskVars, rowVars, memVars, workerVars, histVars
<1>27. ASSUME NEW w \in Workers, RenewAnswered(w)
      PROVE  TypeOK'
  BY <1>27, CAAssumption DEF RootInv, TypeOK, Underway, RotationAt, Pair, Roots,
     RollSteps, RenSteps, NextRoot, NoPair, NoCross, RenewAnswered, RenewNodeCert,
     diskVars, rowVars, memVars, workerVars, histVars
<1>28. ASSUME NEW w \in Workers, RenewLost(w)
      PROVE  TypeOK'
  BY <1>28, CAAssumption DEF RootInv, TypeOK, Underway, RotationAt, Pair, Roots,
     RollSteps, RenSteps, NextRoot, NoPair, NoCross, RenewLost, RenewNodeCert, Spend,
     diskVars, rowVars, memVars, workerVars, histVars
<1>29. ASSUME NEW w \in Workers, Settle(w)
      PROVE  TypeOK'
  BY <1>29, CAAssumption DEF RootInv, TypeOK, Underway, RotationAt, Pair, Roots,
     RollSteps, RenSteps, NextRoot, NoPair, NoCross, Settle, diskVars, rowVars,
     memVars, workerVars, histVars
<1>30. ASSUME NEW w \in Workers, GoesAway(w)
      PROVE  TypeOK'
  BY <1>30, CAAssumption DEF RootInv, TypeOK, Underway, RotationAt, Pair, Roots,
     RollSteps, RenSteps, NextRoot, NoPair, NoCross, GoesAway, Spend, diskVars,
     rowVars, memVars, workerVars, histVars
<1>31. ASSUME NEW w \in Workers, ComesBack(w)
      PROVE  TypeOK'
  BY <1>31, CAAssumption DEF RootInv, TypeOK, Underway, RotationAt, Pair, Roots,
     RollSteps, RenSteps, NextRoot, NoPair, NoCross, ComesBack, diskVars, rowVars,
     memVars, workerVars, histVars
<1>32. CASE UNCHANGED vars
  BY <1>32 DEF RootInv, TypeOK, Underway, RotationAt, Pair, Roots, RollSteps,
     RenSteps, NextRoot, NoPair, NoCross, vars, diskVars, rowVars, memVars,
     workerVars, histVars
<1> QED
  BY <1>1, <1>2, <1>3, <1>4, <1>5, <1>6, <1>7, <1>8, <1>9, <1>10, <1>11, <1>12, <1>13,
     <1>14, <1>15, <1>16, <1>17, <1>18, <1>19, <1>20, <1>21, <1>22, <1>23, <1>24, <1>25, <1>26,
     <1>27, <1>28, <1>29, <1>30, <1>31, <1>32 DEF Next, Rollover, Renewal

(* No rollover and no renewal outlives the panel, and a renewal never      *)
(* loses its serial.                                                       *)
LEMMA UnderwayStep == RootInv /\ [Next]_vars => Underway'
<1> SUFFICES ASSUME RootInv, [Next]_vars PROVE Underway'
  OBVIOUS
<1>1. ASSUME RotateRoot
      PROVE  Underway'
  BY <1>1, CAAssumption DEF RootInv, TypeOK, Underway, IdleRoll, IdleRen, RotateRoot,
     Begin, Reconcile, NothingRotated, Answered, RollEnds, Rolling, NextRoot, Spend,
     NoCross, NoPair, diskVars, rowVars, memVars, workerVars, histVars
<1>2. ASSUME RootRolloverTick
      PROVE  Underway'
  BY <1>2, CAAssumption DEF RootInv, TypeOK, Underway, IdleRoll, IdleRen,
     RootRolloverTick, Begin, Reconcile, NothingRotated, Answered, RollEnds, Rolling,
     NextRoot, Spend, NoCross, NoPair, diskVars, rowVars, memVars, workerVars,
     histVars
<1>3. ASSUME FinishRollover
      PROVE  Underway'
  BY <1>3, CAAssumption DEF RootInv, TypeOK, Underway, IdleRoll, IdleRen,
     FinishRollover, Begin, Reconcile, NothingRotated, Answered, RollEnds, Rolling,
     NextRoot, Spend, NoCross, NoPair, diskVars, rowVars, memVars, workerVars,
     histVars
<1>4. ASSUME AnnounceControllerCert
      PROVE  Underway'
  <2>1. CASE Reannounce
    BY <1>4, <2>1 DEF RootInv, Underway, AnnounceControllerCert, Reannounce, RenUnchanged
  <2>2. ASSUME NEW revoke \in BOOLEAN, Reissue(revoke) PROVE Underway'
    BY <1>4, <2>2, ReissueFacts DEF Underway, AnnounceControllerCert, RenUnchanged
  <2> QED
    BY <1>4, <2>1, <2>2 DEF AnnounceControllerCert
<1>5. ASSUME RotateFails
      PROVE  Underway'
  BY <1>5, CAAssumption DEF RootInv, TypeOK, Underway, IdleRoll, IdleRen,
     RotateFails, Spend, RollEnds, NoCross, diskVars, rowVars, memVars, workerVars,
     histVars
<1>6. ASSUME WriteCross
      PROVE  Underway'
  BY <1>6, CAAssumption DEF RootInv, TypeOK, Underway, IdleRoll, IdleRen, WriteCross,
     Whole, NextRoot, RollEnds, RollMuFree, diskVars, rowVars, memVars, workerVars,
     histVars
<1>7. ASSUME RotatePrev
      PROVE  Underway'
  BY <1>7, CAAssumption DEF RootInv, TypeOK, Underway, IdleRoll, IdleRen, RotatePrev,
     Goto, diskVars, rowVars, memVars, workerVars, histVars
<1>8. ASSUME RotateKey
      PROVE  Underway'
  BY <1>8, CAAssumption DEF RootInv, TypeOK, Underway, IdleRoll, IdleRen, RotateKey,
     Goto, diskVars, rowVars, memVars, workerVars, histVars
<1>9. ASSUME RotateCrt
      PROVE  Underway'
  BY <1>9, CAAssumption DEF RootInv, TypeOK, Underway, IdleRoll, IdleRen, RotateCrt,
     Goto, diskVars, rowVars, memVars, workerVars, histVars
<1>10. ASSUME SwapCA
      PROVE  Underway'
  BY <1>10, CAAssumption DEF RootInv, TypeOK, Underway, IdleRoll, IdleRen, SwapCA,
     Both, RollEnds, Spend, diskVars, rowVars, memVars, workerVars, histVars
<1>11. ASSUME AdvancePush
      PROVE  Underway'
  BY <1>11, CAAssumption DEF RootInv, TypeOK, Underway, IdleRoll, IdleRen,
     AdvancePush, Goto, diskVars, rowVars, memVars, workerVars, histVars
<1>12. ASSUME AdvanceRenew
      PROVE  Underway'
  <2>1. up' = up /\ up
    BY <1>12 DEF RootInv, Underway, AdvanceRenew, RenUnchanged, IdleRoll
  <2>2. CASE Reannounce
    BY <2>1, <2>2 DEF RootInv, Underway, Reannounce
  <2>3. CASE Reissue(FALSE)
    BY <2>1, <2>3, ReissueFacts DEF Underway
  <2> QED
    BY <1>12, <2>2, <2>3 DEF AdvanceRenew
<1>13. ASSUME AdvanceCheck
      PROVE  Underway'
  BY <1>13, CAAssumption DEF RootInv, TypeOK, Underway, IdleRoll, IdleRen,
     AdvanceCheck, Goto, diskVars, rowVars, memVars, workerVars, histVars
<1>14. ASSUME MarkStraggler
      PROVE  Underway'
  BY <1>14, CAAssumption DEF RootInv, TypeOK, Underway, IdleRoll, IdleRen,
     MarkStraggler, Goto, RootStragglers, diskVars, rowVars, memVars, workerVars,
     histVars
<1>15. ASSUME DropPrevCA
      PROVE  Underway'
  BY <1>15, CAAssumption DEF RootInv, TypeOK, Underway, IdleRoll, IdleRen,
     DropPrevCA, Goto, RollMuFree, diskVars, rowVars, memVars, workerVars, histVars
<1>16. ASSUME ForgetPrev
      PROVE  Underway'
  BY <1>16, CAAssumption DEF RootInv, TypeOK, Underway, IdleRoll, IdleRen,
     ForgetPrev, Goto, NoCross, NoPair, diskVars, rowVars, memVars, workerVars,
     histVars
<1>17. ASSUME RecordFinish
      PROVE  Underway'
  BY <1>17, CAAssumption DEF RootInv, TypeOK, Underway, IdleRoll, IdleRen,
     RecordFinish, RollEnds, Spend, diskVars, rowVars, memVars, workerVars, histVars
<1>18. ASSUME KeepPrev
      PROVE  Underway'
  BY <1>18, CAAssumption DEF RootInv, TypeOK, Underway, IdleRoll, IdleRen, KeepPrev,
     RenUnchanged, diskVars, rowVars, memVars, workerVars, histVars
<1>19. ASSUME SaveController
      PROVE  Underway'
  BY <1>19, CAAssumption DEF RootInv, TypeOK, Underway, IdleRoll, IdleRen,
     SaveController, RenUnchanged, diskVars, rowVars, memVars, workerVars, histVars
<1>20. ASSUME RenewalFails
      PROVE  Underway'
  BY <1>20, CAAssumption DEF RootInv, TypeOK, Underway, IdleRoll, IdleRen,
     RenewalFails, RenEnds, Spend, RenUnchanged, diskVars, rowVars, memVars,
     workerVars, histVars
<1>21. ASSUME SwitchController
      PROVE  Underway'
  BY <1>21, CAAssumption DEF RootInv, TypeOK, Underway, IdleRoll, IdleRen,
     SwitchController, RenEnds, RenUnchanged, diskVars, rowVars, memVars, workerVars,
     histVars
<1>22. ASSUME RefreshClients
      PROVE  Underway'
  BY <1>22, CAAssumption DEF RootInv, TypeOK, Underway, IdleRoll, IdleRen,
     RefreshClients, diskVars, rowVars, memVars, workerVars, histVars
<1>23. ASSUME PanelDies
      PROVE  Underway'
  BY <1>23, CAAssumption DEF RootInv, TypeOK, Underway, IdleRoll, IdleRen, PanelDies,
     Spend, diskVars, rowVars, memVars, workerVars, histVars
<1>24. ASSUME BootCluster
      PROVE  Underway'
  BY <1>24, CAAssumption DEF RootInv, TypeOK, Underway, IdleRoll, IdleRen,
     BootCluster, BootAs, LoadPrev, Whole, KeepsController, Both, diskVars, rowVars,
     memVars, workerVars, histVars
<1>25. ASSUME NEW w \in Workers, PushMesh(w)
      PROVE  Underway'
  BY <1>25, CAAssumption DEF RootInv, TypeOK, Underway, IdleRoll, IdleRen, PushMesh,
     TakesSpec, diskVars, rowVars, memVars, workerVars, histVars
<1>26. ASSUME NEW w \in Workers, RecoverNode(w)
      PROVE  Underway'
  BY <1>26, CAAssumption DEF RootInv, TypeOK, Underway, IdleRoll, IdleRen,
     RecoverNode, TakesSpec, diskVars, rowVars, memVars, workerVars, histVars
<1>27. ASSUME NEW w \in Workers, RenewAnswered(w)
      PROVE  Underway'
  BY <1>27, CAAssumption DEF RootInv, TypeOK, Underway, IdleRoll, IdleRen,
     RenewAnswered, RenewNodeCert, diskVars, rowVars, memVars, workerVars, histVars
<1>28. ASSUME NEW w \in Workers, RenewLost(w)
      PROVE  Underway'
  BY <1>28, CAAssumption DEF RootInv, TypeOK, Underway, IdleRoll, IdleRen, RenewLost,
     RenewNodeCert, Spend, diskVars, rowVars, memVars, workerVars, histVars
<1>29. ASSUME NEW w \in Workers, Settle(w)
      PROVE  Underway'
  BY <1>29, CAAssumption DEF RootInv, TypeOK, Underway, IdleRoll, IdleRen, Settle,
     diskVars, rowVars, memVars, workerVars, histVars
<1>30. ASSUME NEW w \in Workers, GoesAway(w)
      PROVE  Underway'
  BY <1>30, CAAssumption DEF RootInv, TypeOK, Underway, IdleRoll, IdleRen, GoesAway,
     Spend, diskVars, rowVars, memVars, workerVars, histVars
<1>31. ASSUME NEW w \in Workers, ComesBack(w)
      PROVE  Underway'
  BY <1>31, CAAssumption DEF RootInv, TypeOK, Underway, IdleRoll, IdleRen, ComesBack,
     diskVars, rowVars, memVars, workerVars, histVars
<1>32. CASE UNCHANGED vars
  BY <1>32 DEF RootInv, TypeOK, Underway, IdleRoll, IdleRen, vars, diskVars, rowVars,
     memVars, workerVars, histVars
<1> QED
  BY <1>1, <1>2, <1>3, <1>4, <1>5, <1>6, <1>7, <1>8, <1>9, <1>10, <1>11, <1>12, <1>13,
     <1>14, <1>15, <1>16, <1>17, <1>18, <1>19, <1>20, <1>21, <1>22, <1>23, <1>24, <1>25, <1>26,
     <1>27, <1>28, <1>29, <1>30, <1>31, <1>32 DEF Next, Rollover, Renewal

(* The row never names another pair than the directory.                    *)
LEMMA RowStep == RootInv /\ [Next]_vars => RowFollows'
<1> SUFFICES ASSUME RootInv, [Next]_vars PROVE RowFollows'
  OBVIOUS
<1>1. ASSUME RotateRoot
      PROVE  RowFollows'
  BY <1>1, CAAssumption DEF RootInv, TypeOK, Underway, RowFollows, PairOnDisk,
     MemoryFollows, RotationAt, ActsOnTruth, Whole, NextRoot, IdleRoll, IdleRen,
     RotateRoot, Begin, Reconcile, NothingRotated, Answered, RollEnds, Rolling,
     Spend, NoCross, NoPair, diskVars, rowVars, memVars, workerVars, histVars
<1>2. ASSUME RootRolloverTick
      PROVE  RowFollows'
  BY <1>2, CAAssumption DEF RootInv, TypeOK, Underway, RowFollows, PairOnDisk,
     MemoryFollows, RotationAt, ActsOnTruth, Whole, NextRoot, IdleRoll, IdleRen,
     RootRolloverTick, Begin, Reconcile, NothingRotated, Answered, RollEnds, Rolling,
     Spend, NoCross, NoPair, diskVars, rowVars, memVars, workerVars, histVars
<1>3. ASSUME FinishRollover
      PROVE  RowFollows'
  BY <1>3, CAAssumption DEF RootInv, TypeOK, Underway, RowFollows, PairOnDisk,
     MemoryFollows, RotationAt, ActsOnTruth, Whole, NextRoot, IdleRoll, IdleRen,
     FinishRollover, Begin, Reconcile, NothingRotated, Answered, RollEnds, Rolling,
     Spend, NoCross, NoPair, diskVars, rowVars, memVars, workerVars, histVars
<1>4. ASSUME AnnounceControllerCert
      PROVE  RowFollows'
  BY <1>4, CAAssumption DEF RootInv, TypeOK, Underway, RowFollows, PairOnDisk,
     MemoryFollows, RotationAt, ActsOnTruth, Whole, NextRoot, IdleRoll, IdleRen,
     AnnounceControllerCert, Reannounce, Reissue, Steady, Spend, RenUnchanged,
     NoPair, RollMuFree, diskVars, rowVars, memVars, workerVars, histVars
<1>5. ASSUME RotateFails
      PROVE  RowFollows'
  BY <1>5, CAAssumption DEF RootInv, TypeOK, Underway, RowFollows, PairOnDisk,
     MemoryFollows, RotationAt, ActsOnTruth, Whole, NextRoot, IdleRoll, IdleRen,
     RotateFails, Spend, RollEnds, NoCross, diskVars, rowVars, memVars, workerVars,
     histVars
<1>6. ASSUME WriteCross
      PROVE  RowFollows'
  BY <1>6, CAAssumption DEF RootInv, TypeOK, Underway, RowFollows, PairOnDisk,
     MemoryFollows, RotationAt, ActsOnTruth, Whole, NextRoot, IdleRoll, IdleRen,
     WriteCross, RollEnds, RollMuFree, diskVars, rowVars, memVars, workerVars,
     histVars
<1>7. ASSUME RotatePrev
      PROVE  RowFollows'
  BY <1>7, CAAssumption DEF RootInv, TypeOK, Underway, RowFollows, PairOnDisk,
     MemoryFollows, RotationAt, ActsOnTruth, Whole, NextRoot, IdleRoll, IdleRen,
     RotatePrev, Goto, diskVars, rowVars, memVars, workerVars, histVars
<1>8. ASSUME RotateKey
      PROVE  RowFollows'
  BY <1>8, CAAssumption DEF RootInv, TypeOK, Underway, RowFollows, PairOnDisk,
     MemoryFollows, RotationAt, ActsOnTruth, Whole, NextRoot, IdleRoll, IdleRen,
     RotateKey, Goto, diskVars, rowVars, memVars, workerVars, histVars
<1>9. ASSUME RotateCrt
      PROVE  RowFollows'
  BY <1>9, CAAssumption DEF RootInv, TypeOK, Underway, RowFollows, PairOnDisk,
     MemoryFollows, RotationAt, ActsOnTruth, Whole, NextRoot, IdleRoll, IdleRen,
     RotateCrt, Goto, diskVars, rowVars, memVars, workerVars, histVars
<1>10. ASSUME SwapCA
      PROVE  RowFollows'
  <2>1. caKey = caCrt /\ caPrev = sign.crt /\ sign.crt # caCrt /\ caCrt = roll.next /\ row.prev = 0
    BY <1>10, CAAssumption DEF RootInv, TypeOK, RotationAt, NextRoot, Roots, SwapCA
  <2> QED
    BY <1>10, <2>1 DEF RowFollows, SwapCA, diskVars
<1>11. ASSUME AdvancePush
      PROVE  RowFollows'
  BY <1>11, CAAssumption DEF RootInv, TypeOK, Underway, RowFollows, PairOnDisk,
     MemoryFollows, RotationAt, ActsOnTruth, Whole, NextRoot, IdleRoll, IdleRen,
     AdvancePush, Goto, diskVars, rowVars, memVars, workerVars, histVars
<1>12. ASSUME AdvanceRenew
      PROVE  RowFollows'
  BY <1>12, CAAssumption DEF RootInv, TypeOK, Underway, RowFollows, PairOnDisk,
     MemoryFollows, RotationAt, ActsOnTruth, Whole, NextRoot, IdleRoll, IdleRen,
     AdvanceRenew, Reannounce, Reissue, Steady, Goto, RenUnchanged, NoPair,
     RollMuFree, diskVars, rowVars, memVars, workerVars, histVars
<1>13. ASSUME AdvanceCheck
      PROVE  RowFollows'
  BY <1>13, CAAssumption DEF RootInv, TypeOK, Underway, RowFollows, PairOnDisk,
     MemoryFollows, RotationAt, ActsOnTruth, Whole, NextRoot, IdleRoll, IdleRen,
     AdvanceCheck, Goto, diskVars, rowVars, memVars, workerVars, histVars
<1>14. ASSUME MarkStraggler
      PROVE  RowFollows'
  BY <1>14, CAAssumption DEF RootInv, TypeOK, Underway, RowFollows, PairOnDisk,
     MemoryFollows, RotationAt, ActsOnTruth, Whole, NextRoot, IdleRoll, IdleRen,
     MarkStraggler, Goto, RootStragglers, diskVars, rowVars, memVars, workerVars,
     histVars
<1>15. ASSUME DropPrevCA
      PROVE  RowFollows'
  BY <1>15, CAAssumption DEF RootInv, TypeOK, Underway, RowFollows, PairOnDisk,
     MemoryFollows, RotationAt, ActsOnTruth, Whole, NextRoot, IdleRoll, IdleRen,
     DropPrevCA, Goto, RollMuFree, diskVars, rowVars, memVars, workerVars, histVars
<1>16. ASSUME ForgetPrev
      PROVE  RowFollows'
  BY <1>16, CAAssumption DEF RootInv, TypeOK, Underway, RowFollows, PairOnDisk,
     MemoryFollows, RotationAt, ActsOnTruth, Whole, NextRoot, IdleRoll, IdleRen,
     ForgetPrev, Goto, NoCross, NoPair, diskVars, rowVars, memVars, workerVars,
     histVars
<1>17. ASSUME RecordFinish
      PROVE  RowFollows'
  BY <1>17, CAAssumption DEF RootInv, TypeOK, Underway, RowFollows, PairOnDisk,
     MemoryFollows, RotationAt, ActsOnTruth, Whole, NextRoot, IdleRoll, IdleRen,
     RecordFinish, RollEnds, Spend, diskVars, rowVars, memVars, workerVars, histVars
<1>18. ASSUME KeepPrev
      PROVE  RowFollows'
  BY <1>18, CAAssumption DEF RootInv, TypeOK, Underway, RowFollows, PairOnDisk,
     MemoryFollows, RotationAt, ActsOnTruth, Whole, NextRoot, IdleRoll, IdleRen,
     KeepPrev, RenUnchanged, diskVars, rowVars, memVars, workerVars, histVars
<1>19. ASSUME SaveController
      PROVE  RowFollows'
  BY <1>19, CAAssumption DEF RootInv, TypeOK, Underway, RowFollows, PairOnDisk,
     MemoryFollows, RotationAt, ActsOnTruth, Whole, NextRoot, IdleRoll, IdleRen,
     SaveController, RenUnchanged, diskVars, rowVars, memVars, workerVars, histVars
<1>20. ASSUME RenewalFails
      PROVE  RowFollows'
  BY <1>20, CAAssumption DEF RootInv, TypeOK, Underway, RowFollows, PairOnDisk,
     MemoryFollows, RotationAt, ActsOnTruth, Whole, NextRoot, IdleRoll, IdleRen,
     RenewalFails, RenEnds, Spend, RenUnchanged, diskVars, rowVars, memVars,
     workerVars, histVars
<1>21. ASSUME SwitchController
      PROVE  RowFollows'
  BY <1>21, CAAssumption DEF RootInv, TypeOK, Underway, RowFollows, PairOnDisk,
     MemoryFollows, RotationAt, ActsOnTruth, Whole, NextRoot, IdleRoll, IdleRen,
     SwitchController, RenEnds, RenUnchanged, diskVars, rowVars, memVars, workerVars,
     histVars
<1>22. ASSUME RefreshClients
      PROVE  RowFollows'
  BY <1>22, CAAssumption DEF RootInv, TypeOK, Underway, RowFollows, PairOnDisk,
     MemoryFollows, RotationAt, ActsOnTruth, Whole, NextRoot, IdleRoll, IdleRen,
     RefreshClients, diskVars, rowVars, memVars, workerVars, histVars
<1>23. ASSUME PanelDies
      PROVE  RowFollows'
  BY <1>23, CAAssumption DEF RootInv, TypeOK, Underway, RowFollows, PairOnDisk,
     MemoryFollows, RotationAt, ActsOnTruth, Whole, NextRoot, IdleRoll, IdleRen,
     PanelDies, Spend, diskVars, rowVars, memVars, workerVars, histVars
<1>24. ASSUME BootCluster
      PROVE  RowFollows'
  BY <1>24, CAAssumption DEF RootInv, TypeOK, Underway, RowFollows, PairOnDisk,
     MemoryFollows, RotationAt, ActsOnTruth, Whole, NextRoot, IdleRoll, IdleRen,
     BootCluster, BootAs, LoadPrev, KeepsController, Both, diskVars, rowVars,
     memVars, workerVars, histVars
<1>25. ASSUME NEW w \in Workers, PushMesh(w)
      PROVE  RowFollows'
  BY <1>25, CAAssumption DEF RootInv, TypeOK, Underway, RowFollows, PairOnDisk,
     MemoryFollows, RotationAt, ActsOnTruth, Whole, NextRoot, IdleRoll, IdleRen,
     PushMesh, TakesSpec, diskVars, rowVars, memVars, workerVars, histVars
<1>26. ASSUME NEW w \in Workers, RecoverNode(w)
      PROVE  RowFollows'
  BY <1>26, CAAssumption DEF RootInv, TypeOK, Underway, RowFollows, PairOnDisk,
     MemoryFollows, RotationAt, ActsOnTruth, Whole, NextRoot, IdleRoll, IdleRen,
     RecoverNode, TakesSpec, diskVars, rowVars, memVars, workerVars, histVars
<1>27. ASSUME NEW w \in Workers, RenewAnswered(w)
      PROVE  RowFollows'
  BY <1>27, CAAssumption DEF RootInv, TypeOK, Underway, RowFollows, PairOnDisk,
     MemoryFollows, RotationAt, ActsOnTruth, Whole, NextRoot, IdleRoll, IdleRen,
     RenewAnswered, RenewNodeCert, diskVars, rowVars, memVars, workerVars, histVars
<1>28. ASSUME NEW w \in Workers, RenewLost(w)
      PROVE  RowFollows'
  BY <1>28, CAAssumption DEF RootInv, TypeOK, Underway, RowFollows, PairOnDisk,
     MemoryFollows, RotationAt, ActsOnTruth, Whole, NextRoot, IdleRoll, IdleRen,
     RenewLost, RenewNodeCert, Spend, diskVars, rowVars, memVars, workerVars, histVars
<1>29. ASSUME NEW w \in Workers, Settle(w)
      PROVE  RowFollows'
  BY <1>29, CAAssumption DEF RootInv, TypeOK, Underway, RowFollows, PairOnDisk,
     MemoryFollows, RotationAt, ActsOnTruth, Whole, NextRoot, IdleRoll, IdleRen,
     Settle, diskVars, rowVars, memVars, workerVars, histVars
<1>30. ASSUME NEW w \in Workers, GoesAway(w)
      PROVE  RowFollows'
  BY <1>30, CAAssumption DEF RootInv, TypeOK, Underway, RowFollows, PairOnDisk,
     MemoryFollows, RotationAt, ActsOnTruth, Whole, NextRoot, IdleRoll, IdleRen,
     GoesAway, Spend, diskVars, rowVars, memVars, workerVars, histVars
<1>31. ASSUME NEW w \in Workers, ComesBack(w)
      PROVE  RowFollows'
  BY <1>31, CAAssumption DEF RootInv, TypeOK, Underway, RowFollows, PairOnDisk,
     MemoryFollows, RotationAt, ActsOnTruth, Whole, NextRoot, IdleRoll, IdleRen,
     ComesBack, diskVars, rowVars, memVars, workerVars, histVars
<1>32. CASE UNCHANGED vars
  BY <1>32 DEF RootInv, TypeOK, Underway, RowFollows, PairOnDisk, MemoryFollows,
     RotationAt, ActsOnTruth, Whole, NextRoot, IdleRoll, IdleRen, vars, diskVars,
     rowVars, memVars, workerVars, histVars
<1> QED
  BY <1>1, <1>2, <1>3, <1>4, <1>5, <1>6, <1>7, <1>8, <1>9, <1>10, <1>11, <1>12, <1>13,
     <1>14, <1>15, <1>16, <1>17, <1>18, <1>19, <1>20, <1>21, <1>22, <1>23, <1>24, <1>25, <1>26,
     <1>27, <1>28, <1>29, <1>30, <1>31, <1>32 DEF Next, Rollover, Renewal

(* A previous root next to another current one is the mark of a whole      *)
(* rotation.                                                               *)
LEMMA PairStep == RootInv /\ [Next]_vars => PairOnDisk'
<1> SUFFICES ASSUME RootInv, [Next]_vars PROVE PairOnDisk'
  OBVIOUS
<1>1. ASSUME RotateRoot
      PROVE  PairOnDisk'
  BY <1>1, CAAssumption DEF RootInv, TypeOK, Underway, RowFollows, PairOnDisk,
     MemoryFollows, RotationAt, ActsOnTruth, Whole, NextRoot, IdleRoll, IdleRen,
     RotateRoot, Begin, Reconcile, NothingRotated, Answered, RollEnds, Rolling,
     Spend, NoCross, NoPair, diskVars, rowVars, memVars, workerVars, histVars
<1>2. ASSUME RootRolloverTick
      PROVE  PairOnDisk'
  BY <1>2, CAAssumption DEF RootInv, TypeOK, Underway, RowFollows, PairOnDisk,
     MemoryFollows, RotationAt, ActsOnTruth, Whole, NextRoot, IdleRoll, IdleRen,
     RootRolloverTick, Begin, Reconcile, NothingRotated, Answered, RollEnds, Rolling,
     Spend, NoCross, NoPair, diskVars, rowVars, memVars, workerVars, histVars
<1>3. ASSUME FinishRollover
      PROVE  PairOnDisk'
  BY <1>3, CAAssumption DEF RootInv, TypeOK, Underway, RowFollows, PairOnDisk,
     MemoryFollows, RotationAt, ActsOnTruth, Whole, NextRoot, IdleRoll, IdleRen,
     FinishRollover, Begin, Reconcile, NothingRotated, Answered, RollEnds, Rolling,
     Spend, NoCross, NoPair, diskVars, rowVars, memVars, workerVars, histVars
<1>4. ASSUME AnnounceControllerCert
      PROVE  PairOnDisk'
  BY <1>4, CAAssumption DEF RootInv, TypeOK, Underway, RowFollows, PairOnDisk,
     MemoryFollows, RotationAt, ActsOnTruth, Whole, NextRoot, IdleRoll, IdleRen,
     AnnounceControllerCert, Reannounce, Reissue, Steady, Spend, RenUnchanged,
     NoPair, RollMuFree, diskVars, rowVars, memVars, workerVars, histVars
<1>5. ASSUME RotateFails
      PROVE  PairOnDisk'
  BY <1>5, CAAssumption DEF RootInv, TypeOK, Underway, RowFollows, PairOnDisk,
     MemoryFollows, RotationAt, ActsOnTruth, Whole, NextRoot, IdleRoll, IdleRen,
     RotateFails, Spend, RollEnds, NoCross, diskVars, rowVars, memVars, workerVars,
     histVars
<1>6. ASSUME WriteCross
      PROVE  PairOnDisk'
  BY <1>6, CAAssumption DEF RootInv, TypeOK, Underway, RowFollows, PairOnDisk,
     MemoryFollows, RotationAt, ActsOnTruth, Whole, NextRoot, IdleRoll, IdleRen,
     WriteCross, RollEnds, RollMuFree, diskVars, rowVars, memVars, workerVars,
     histVars
<1>7. ASSUME RotatePrev
      PROVE  PairOnDisk'
  BY <1>7, CAAssumption DEF RootInv, TypeOK, Underway, RowFollows, PairOnDisk,
     MemoryFollows, RotationAt, ActsOnTruth, Whole, NextRoot, IdleRoll, IdleRen,
     RotatePrev, Goto, diskVars, rowVars, memVars, workerVars, histVars
<1>8. ASSUME RotateKey
      PROVE  PairOnDisk'
  BY <1>8, CAAssumption DEF RootInv, TypeOK, Underway, RowFollows, PairOnDisk,
     MemoryFollows, RotationAt, ActsOnTruth, Whole, NextRoot, IdleRoll, IdleRen,
     RotateKey, Goto, diskVars, rowVars, memVars, workerVars, histVars
<1>9. ASSUME RotateCrt
      PROVE  PairOnDisk'
  BY <1>9, CAAssumption DEF RootInv, TypeOK, Underway, RowFollows, PairOnDisk,
     MemoryFollows, RotationAt, ActsOnTruth, Whole, NextRoot, IdleRoll, IdleRen,
     RotateCrt, Goto, diskVars, rowVars, memVars, workerVars, histVars
<1>10. ASSUME SwapCA
      PROVE  PairOnDisk'
  BY <1>10, CAAssumption DEF RootInv, TypeOK, Underway, RowFollows, PairOnDisk,
     MemoryFollows, RotationAt, ActsOnTruth, Whole, NextRoot, IdleRoll, IdleRen,
     SwapCA, Both, RollEnds, Spend, diskVars, rowVars, memVars, workerVars, histVars
<1>11. ASSUME AdvancePush
      PROVE  PairOnDisk'
  BY <1>11, CAAssumption DEF RootInv, TypeOK, Underway, RowFollows, PairOnDisk,
     MemoryFollows, RotationAt, ActsOnTruth, Whole, NextRoot, IdleRoll, IdleRen,
     AdvancePush, Goto, diskVars, rowVars, memVars, workerVars, histVars
<1>12. ASSUME AdvanceRenew
      PROVE  PairOnDisk'
  BY <1>12, CAAssumption DEF RootInv, TypeOK, Underway, RowFollows, PairOnDisk,
     MemoryFollows, RotationAt, ActsOnTruth, Whole, NextRoot, IdleRoll, IdleRen,
     AdvanceRenew, Reannounce, Reissue, Steady, Goto, RenUnchanged, NoPair,
     RollMuFree, diskVars, rowVars, memVars, workerVars, histVars
<1>13. ASSUME AdvanceCheck
      PROVE  PairOnDisk'
  BY <1>13, CAAssumption DEF RootInv, TypeOK, Underway, RowFollows, PairOnDisk,
     MemoryFollows, RotationAt, ActsOnTruth, Whole, NextRoot, IdleRoll, IdleRen,
     AdvanceCheck, Goto, diskVars, rowVars, memVars, workerVars, histVars
<1>14. ASSUME MarkStraggler
      PROVE  PairOnDisk'
  BY <1>14, CAAssumption DEF RootInv, TypeOK, Underway, RowFollows, PairOnDisk,
     MemoryFollows, RotationAt, ActsOnTruth, Whole, NextRoot, IdleRoll, IdleRen,
     MarkStraggler, Goto, RootStragglers, diskVars, rowVars, memVars, workerVars,
     histVars
<1>15. ASSUME DropPrevCA
      PROVE  PairOnDisk'
  BY <1>15, CAAssumption DEF RootInv, TypeOK, Underway, RowFollows, PairOnDisk,
     MemoryFollows, RotationAt, ActsOnTruth, Whole, NextRoot, IdleRoll, IdleRen,
     DropPrevCA, Goto, RollMuFree, diskVars, rowVars, memVars, workerVars, histVars
<1>16. ASSUME ForgetPrev
      PROVE  PairOnDisk'
  BY <1>16, CAAssumption DEF RootInv, TypeOK, Underway, RowFollows, PairOnDisk,
     MemoryFollows, RotationAt, ActsOnTruth, Whole, NextRoot, IdleRoll, IdleRen,
     ForgetPrev, Goto, NoCross, NoPair, diskVars, rowVars, memVars, workerVars,
     histVars
<1>17. ASSUME RecordFinish
      PROVE  PairOnDisk'
  BY <1>17, CAAssumption DEF RootInv, TypeOK, Underway, RowFollows, PairOnDisk,
     MemoryFollows, RotationAt, ActsOnTruth, Whole, NextRoot, IdleRoll, IdleRen,
     RecordFinish, RollEnds, Spend, diskVars, rowVars, memVars, workerVars, histVars
<1>18. ASSUME KeepPrev
      PROVE  PairOnDisk'
  BY <1>18, CAAssumption DEF RootInv, TypeOK, Underway, RowFollows, PairOnDisk,
     MemoryFollows, RotationAt, ActsOnTruth, Whole, NextRoot, IdleRoll, IdleRen,
     KeepPrev, RenUnchanged, diskVars, rowVars, memVars, workerVars, histVars
<1>19. ASSUME SaveController
      PROVE  PairOnDisk'
  BY <1>19, CAAssumption DEF RootInv, TypeOK, Underway, RowFollows, PairOnDisk,
     MemoryFollows, RotationAt, ActsOnTruth, Whole, NextRoot, IdleRoll, IdleRen,
     SaveController, RenUnchanged, diskVars, rowVars, memVars, workerVars, histVars
<1>20. ASSUME RenewalFails
      PROVE  PairOnDisk'
  BY <1>20, CAAssumption DEF RootInv, TypeOK, Underway, RowFollows, PairOnDisk,
     MemoryFollows, RotationAt, ActsOnTruth, Whole, NextRoot, IdleRoll, IdleRen,
     RenewalFails, RenEnds, Spend, RenUnchanged, diskVars, rowVars, memVars,
     workerVars, histVars
<1>21. ASSUME SwitchController
      PROVE  PairOnDisk'
  BY <1>21, CAAssumption DEF RootInv, TypeOK, Underway, RowFollows, PairOnDisk,
     MemoryFollows, RotationAt, ActsOnTruth, Whole, NextRoot, IdleRoll, IdleRen,
     SwitchController, RenEnds, RenUnchanged, diskVars, rowVars, memVars, workerVars,
     histVars
<1>22. ASSUME RefreshClients
      PROVE  PairOnDisk'
  BY <1>22, CAAssumption DEF RootInv, TypeOK, Underway, RowFollows, PairOnDisk,
     MemoryFollows, RotationAt, ActsOnTruth, Whole, NextRoot, IdleRoll, IdleRen,
     RefreshClients, diskVars, rowVars, memVars, workerVars, histVars
<1>23. ASSUME PanelDies
      PROVE  PairOnDisk'
  BY <1>23, CAAssumption DEF RootInv, TypeOK, Underway, RowFollows, PairOnDisk,
     MemoryFollows, RotationAt, ActsOnTruth, Whole, NextRoot, IdleRoll, IdleRen,
     PanelDies, Spend, diskVars, rowVars, memVars, workerVars, histVars
<1>24. ASSUME BootCluster
      PROVE  PairOnDisk'
  BY <1>24, CAAssumption DEF RootInv, TypeOK, Underway, RowFollows, PairOnDisk,
     MemoryFollows, RotationAt, ActsOnTruth, Whole, NextRoot, IdleRoll, IdleRen,
     BootCluster, BootAs, LoadPrev, KeepsController, Both, diskVars, rowVars,
     memVars, workerVars, histVars
<1>25. ASSUME NEW w \in Workers, PushMesh(w)
      PROVE  PairOnDisk'
  BY <1>25, CAAssumption DEF RootInv, TypeOK, Underway, RowFollows, PairOnDisk,
     MemoryFollows, RotationAt, ActsOnTruth, Whole, NextRoot, IdleRoll, IdleRen,
     PushMesh, TakesSpec, diskVars, rowVars, memVars, workerVars, histVars
<1>26. ASSUME NEW w \in Workers, RecoverNode(w)
      PROVE  PairOnDisk'
  BY <1>26, CAAssumption DEF RootInv, TypeOK, Underway, RowFollows, PairOnDisk,
     MemoryFollows, RotationAt, ActsOnTruth, Whole, NextRoot, IdleRoll, IdleRen,
     RecoverNode, TakesSpec, diskVars, rowVars, memVars, workerVars, histVars
<1>27. ASSUME NEW w \in Workers, RenewAnswered(w)
      PROVE  PairOnDisk'
  BY <1>27, CAAssumption DEF RootInv, TypeOK, Underway, RowFollows, PairOnDisk,
     MemoryFollows, RotationAt, ActsOnTruth, Whole, NextRoot, IdleRoll, IdleRen,
     RenewAnswered, RenewNodeCert, diskVars, rowVars, memVars, workerVars, histVars
<1>28. ASSUME NEW w \in Workers, RenewLost(w)
      PROVE  PairOnDisk'
  BY <1>28, CAAssumption DEF RootInv, TypeOK, Underway, RowFollows, PairOnDisk,
     MemoryFollows, RotationAt, ActsOnTruth, Whole, NextRoot, IdleRoll, IdleRen,
     RenewLost, RenewNodeCert, Spend, diskVars, rowVars, memVars, workerVars, histVars
<1>29. ASSUME NEW w \in Workers, Settle(w)
      PROVE  PairOnDisk'
  BY <1>29, CAAssumption DEF RootInv, TypeOK, Underway, RowFollows, PairOnDisk,
     MemoryFollows, RotationAt, ActsOnTruth, Whole, NextRoot, IdleRoll, IdleRen,
     Settle, diskVars, rowVars, memVars, workerVars, histVars
<1>30. ASSUME NEW w \in Workers, GoesAway(w)
      PROVE  PairOnDisk'
  BY <1>30, CAAssumption DEF RootInv, TypeOK, Underway, RowFollows, PairOnDisk,
     MemoryFollows, RotationAt, ActsOnTruth, Whole, NextRoot, IdleRoll, IdleRen,
     GoesAway, Spend, diskVars, rowVars, memVars, workerVars, histVars
<1>31. ASSUME NEW w \in Workers, ComesBack(w)
      PROVE  PairOnDisk'
  BY <1>31, CAAssumption DEF RootInv, TypeOK, Underway, RowFollows, PairOnDisk,
     MemoryFollows, RotationAt, ActsOnTruth, Whole, NextRoot, IdleRoll, IdleRen,
     ComesBack, diskVars, rowVars, memVars, workerVars, histVars
<1>32. CASE UNCHANGED vars
  BY <1>32 DEF RootInv, TypeOK, Underway, RowFollows, PairOnDisk, MemoryFollows,
     RotationAt, ActsOnTruth, Whole, NextRoot, IdleRoll, IdleRen, vars, diskVars,
     rowVars, memVars, workerVars, histVars
<1> QED
  BY <1>1, <1>2, <1>3, <1>4, <1>5, <1>6, <1>7, <1>8, <1>9, <1>10, <1>11, <1>12, <1>13,
     <1>14, <1>15, <1>16, <1>17, <1>18, <1>19, <1>20, <1>21, <1>22, <1>23, <1>24, <1>25, <1>26,
     <1>27, <1>28, <1>29, <1>30, <1>31, <1>32 DEF Next, Rollover, Renewal

(* The panel's memory keeps up with the directory.                         *)
LEMMA MemoryStep == RootInv /\ [Next]_vars => MemoryFollows'
<1> SUFFICES ASSUME RootInv, [Next]_vars PROVE MemoryFollows'
  OBVIOUS
<1>1. ASSUME RotateRoot
      PROVE  MemoryFollows'
  BY <1>1, CAAssumption DEF RootInv, TypeOK, Underway, RowFollows, PairOnDisk,
     MemoryFollows, RotationAt, ActsOnTruth, Whole, NextRoot, IdleRoll, IdleRen,
     RotateRoot, Begin, Reconcile, NothingRotated, Answered, RollEnds, Rolling,
     Spend, NoCross, NoPair, diskVars, rowVars, memVars, workerVars, histVars
<1>2. ASSUME RootRolloverTick
      PROVE  MemoryFollows'
  BY <1>2, CAAssumption DEF RootInv, TypeOK, Underway, RowFollows, PairOnDisk,
     MemoryFollows, RotationAt, ActsOnTruth, Whole, NextRoot, IdleRoll, IdleRen,
     RootRolloverTick, Begin, Reconcile, NothingRotated, Answered, RollEnds, Rolling,
     Spend, NoCross, NoPair, diskVars, rowVars, memVars, workerVars, histVars
<1>3. ASSUME FinishRollover
      PROVE  MemoryFollows'
  BY <1>3, CAAssumption DEF RootInv, TypeOK, Underway, RowFollows, PairOnDisk,
     MemoryFollows, RotationAt, ActsOnTruth, Whole, NextRoot, IdleRoll, IdleRen,
     FinishRollover, Begin, Reconcile, NothingRotated, Answered, RollEnds, Rolling,
     Spend, NoCross, NoPair, diskVars, rowVars, memVars, workerVars, histVars
<1>4. ASSUME AnnounceControllerCert
      PROVE  MemoryFollows'
  BY <1>4, CAAssumption DEF RootInv, TypeOK, Underway, RowFollows, PairOnDisk,
     MemoryFollows, RotationAt, ActsOnTruth, Whole, NextRoot, IdleRoll, IdleRen,
     AnnounceControllerCert, Reannounce, Reissue, Steady, Spend, RenUnchanged,
     NoPair, RollMuFree, diskVars, rowVars, memVars, workerVars, histVars
<1>5. ASSUME RotateFails
      PROVE  MemoryFollows'
  BY <1>5, CAAssumption DEF RootInv, TypeOK, Underway, RowFollows, PairOnDisk,
     MemoryFollows, RotationAt, ActsOnTruth, Whole, NextRoot, IdleRoll, IdleRen,
     RotateFails, Spend, RollEnds, NoCross, diskVars, rowVars, memVars, workerVars,
     histVars
<1>6. ASSUME WriteCross
      PROVE  MemoryFollows'
  BY <1>6, CAAssumption DEF RootInv, TypeOK, Underway, RowFollows, PairOnDisk,
     MemoryFollows, RotationAt, ActsOnTruth, Whole, NextRoot, IdleRoll, IdleRen,
     WriteCross, RollEnds, RollMuFree, diskVars, rowVars, memVars, workerVars,
     histVars
<1>7. ASSUME RotatePrev
      PROVE  MemoryFollows'
  BY <1>7, CAAssumption DEF RootInv, TypeOK, Underway, RowFollows, PairOnDisk,
     MemoryFollows, RotationAt, ActsOnTruth, Whole, NextRoot, IdleRoll, IdleRen,
     RotatePrev, Goto, diskVars, rowVars, memVars, workerVars, histVars
<1>8. ASSUME RotateKey
      PROVE  MemoryFollows'
  BY <1>8, CAAssumption DEF RootInv, TypeOK, Underway, RowFollows, PairOnDisk,
     MemoryFollows, RotationAt, ActsOnTruth, Whole, NextRoot, IdleRoll, IdleRen,
     RotateKey, Goto, diskVars, rowVars, memVars, workerVars, histVars
<1>9. ASSUME RotateCrt
      PROVE  MemoryFollows'
  BY <1>9, CAAssumption DEF RootInv, TypeOK, Underway, RowFollows, PairOnDisk,
     MemoryFollows, RotationAt, ActsOnTruth, Whole, NextRoot, IdleRoll, IdleRen,
     RotateCrt, Goto, diskVars, rowVars, memVars, workerVars, histVars
<1>10. ASSUME SwapCA
      PROVE  MemoryFollows'
  BY <1>10, CAAssumption DEF RootInv, TypeOK, Underway, RowFollows, PairOnDisk,
     MemoryFollows, RotationAt, ActsOnTruth, Whole, NextRoot, IdleRoll, IdleRen,
     SwapCA, Both, RollEnds, Spend, diskVars, rowVars, memVars, workerVars, histVars
<1>11. ASSUME AdvancePush
      PROVE  MemoryFollows'
  BY <1>11, CAAssumption DEF RootInv, TypeOK, Underway, RowFollows, PairOnDisk,
     MemoryFollows, RotationAt, ActsOnTruth, Whole, NextRoot, IdleRoll, IdleRen,
     AdvancePush, Goto, diskVars, rowVars, memVars, workerVars, histVars
<1>12. ASSUME AdvanceRenew
      PROVE  MemoryFollows'
  BY <1>12, CAAssumption DEF RootInv, TypeOK, Underway, RowFollows, PairOnDisk,
     MemoryFollows, RotationAt, ActsOnTruth, Whole, NextRoot, IdleRoll, IdleRen,
     AdvanceRenew, Reannounce, Reissue, Steady, Goto, RenUnchanged, NoPair,
     RollMuFree, diskVars, rowVars, memVars, workerVars, histVars
<1>13. ASSUME AdvanceCheck
      PROVE  MemoryFollows'
  BY <1>13, CAAssumption DEF RootInv, TypeOK, Underway, RowFollows, PairOnDisk,
     MemoryFollows, RotationAt, ActsOnTruth, Whole, NextRoot, IdleRoll, IdleRen,
     AdvanceCheck, Goto, diskVars, rowVars, memVars, workerVars, histVars
<1>14. ASSUME MarkStraggler
      PROVE  MemoryFollows'
  BY <1>14, CAAssumption DEF RootInv, TypeOK, Underway, RowFollows, PairOnDisk,
     MemoryFollows, RotationAt, ActsOnTruth, Whole, NextRoot, IdleRoll, IdleRen,
     MarkStraggler, Goto, RootStragglers, diskVars, rowVars, memVars, workerVars,
     histVars
<1>15. ASSUME DropPrevCA
      PROVE  MemoryFollows'
  BY <1>15, CAAssumption DEF RootInv, TypeOK, Underway, RowFollows, PairOnDisk,
     MemoryFollows, RotationAt, ActsOnTruth, Whole, NextRoot, IdleRoll, IdleRen,
     DropPrevCA, Goto, RollMuFree, diskVars, rowVars, memVars, workerVars, histVars
<1>16. ASSUME ForgetPrev
      PROVE  MemoryFollows'
  BY <1>16, CAAssumption DEF RootInv, TypeOK, Underway, RowFollows, PairOnDisk,
     MemoryFollows, RotationAt, ActsOnTruth, Whole, NextRoot, IdleRoll, IdleRen,
     ForgetPrev, Goto, NoCross, NoPair, diskVars, rowVars, memVars, workerVars,
     histVars
<1>17. ASSUME RecordFinish
      PROVE  MemoryFollows'
  BY <1>17, CAAssumption DEF RootInv, TypeOK, Underway, RowFollows, PairOnDisk,
     MemoryFollows, RotationAt, ActsOnTruth, Whole, NextRoot, IdleRoll, IdleRen,
     RecordFinish, RollEnds, Spend, diskVars, rowVars, memVars, workerVars, histVars
<1>18. ASSUME KeepPrev
      PROVE  MemoryFollows'
  BY <1>18, CAAssumption DEF RootInv, TypeOK, Underway, RowFollows, PairOnDisk,
     MemoryFollows, RotationAt, ActsOnTruth, Whole, NextRoot, IdleRoll, IdleRen,
     KeepPrev, RenUnchanged, diskVars, rowVars, memVars, workerVars, histVars
<1>19. ASSUME SaveController
      PROVE  MemoryFollows'
  BY <1>19, CAAssumption DEF RootInv, TypeOK, Underway, RowFollows, PairOnDisk,
     MemoryFollows, RotationAt, ActsOnTruth, Whole, NextRoot, IdleRoll, IdleRen,
     SaveController, RenUnchanged, diskVars, rowVars, memVars, workerVars, histVars
<1>20. ASSUME RenewalFails
      PROVE  MemoryFollows'
  BY <1>20, CAAssumption DEF RootInv, TypeOK, Underway, RowFollows, PairOnDisk,
     MemoryFollows, RotationAt, ActsOnTruth, Whole, NextRoot, IdleRoll, IdleRen,
     RenewalFails, RenEnds, Spend, RenUnchanged, diskVars, rowVars, memVars,
     workerVars, histVars
<1>21. ASSUME SwitchController
      PROVE  MemoryFollows'
  BY <1>21, CAAssumption DEF RootInv, TypeOK, Underway, RowFollows, PairOnDisk,
     MemoryFollows, RotationAt, ActsOnTruth, Whole, NextRoot, IdleRoll, IdleRen,
     SwitchController, RenEnds, RenUnchanged, diskVars, rowVars, memVars, workerVars,
     histVars
<1>22. ASSUME RefreshClients
      PROVE  MemoryFollows'
  BY <1>22, CAAssumption DEF RootInv, TypeOK, Underway, RowFollows, PairOnDisk,
     MemoryFollows, RotationAt, ActsOnTruth, Whole, NextRoot, IdleRoll, IdleRen,
     RefreshClients, diskVars, rowVars, memVars, workerVars, histVars
<1>23. ASSUME PanelDies
      PROVE  MemoryFollows'
  BY <1>23, CAAssumption DEF RootInv, TypeOK, Underway, RowFollows, PairOnDisk,
     MemoryFollows, RotationAt, ActsOnTruth, Whole, NextRoot, IdleRoll, IdleRen,
     PanelDies, Spend, diskVars, rowVars, memVars, workerVars, histVars
<1>24. ASSUME BootCluster
      PROVE  MemoryFollows'
  <2>1. PICK s : BootAs(s)
    BY <1>24 DEF BootCluster
  <2>2. roll' = roll /\ roll.step = "idle"
    BY <1>24, <2>1 DEF RootInv, Underway, IdleRoll, BootAs, BootCluster
  <2>3. caCrt # 0 /\ sign'.crt = caCrt /\ sign'.key = caKey /\ roots' = {caCrt, caPrev} \ {0}
    BY <2>1 DEF RootInv, TypeOK, Roots, BootAs
  <2> QED
    BY <2>1, <2>2, <2>3 DEF MemoryFollows, BootAs
<1>25. ASSUME NEW w \in Workers, PushMesh(w)
      PROVE  MemoryFollows'
  BY <1>25, CAAssumption DEF RootInv, TypeOK, Underway, RowFollows, PairOnDisk,
     MemoryFollows, RotationAt, ActsOnTruth, Whole, NextRoot, IdleRoll, IdleRen,
     PushMesh, TakesSpec, diskVars, rowVars, memVars, workerVars, histVars
<1>26. ASSUME NEW w \in Workers, RecoverNode(w)
      PROVE  MemoryFollows'
  BY <1>26, CAAssumption DEF RootInv, TypeOK, Underway, RowFollows, PairOnDisk,
     MemoryFollows, RotationAt, ActsOnTruth, Whole, NextRoot, IdleRoll, IdleRen,
     RecoverNode, TakesSpec, diskVars, rowVars, memVars, workerVars, histVars
<1>27. ASSUME NEW w \in Workers, RenewAnswered(w)
      PROVE  MemoryFollows'
  BY <1>27, CAAssumption DEF RootInv, TypeOK, Underway, RowFollows, PairOnDisk,
     MemoryFollows, RotationAt, ActsOnTruth, Whole, NextRoot, IdleRoll, IdleRen,
     RenewAnswered, RenewNodeCert, diskVars, rowVars, memVars, workerVars, histVars
<1>28. ASSUME NEW w \in Workers, RenewLost(w)
      PROVE  MemoryFollows'
  BY <1>28, CAAssumption DEF RootInv, TypeOK, Underway, RowFollows, PairOnDisk,
     MemoryFollows, RotationAt, ActsOnTruth, Whole, NextRoot, IdleRoll, IdleRen,
     RenewLost, RenewNodeCert, Spend, diskVars, rowVars, memVars, workerVars, histVars
<1>29. ASSUME NEW w \in Workers, Settle(w)
      PROVE  MemoryFollows'
  BY <1>29, CAAssumption DEF RootInv, TypeOK, Underway, RowFollows, PairOnDisk,
     MemoryFollows, RotationAt, ActsOnTruth, Whole, NextRoot, IdleRoll, IdleRen,
     Settle, diskVars, rowVars, memVars, workerVars, histVars
<1>30. ASSUME NEW w \in Workers, GoesAway(w)
      PROVE  MemoryFollows'
  BY <1>30, CAAssumption DEF RootInv, TypeOK, Underway, RowFollows, PairOnDisk,
     MemoryFollows, RotationAt, ActsOnTruth, Whole, NextRoot, IdleRoll, IdleRen,
     GoesAway, Spend, diskVars, rowVars, memVars, workerVars, histVars
<1>31. ASSUME NEW w \in Workers, ComesBack(w)
      PROVE  MemoryFollows'
  BY <1>31, CAAssumption DEF RootInv, TypeOK, Underway, RowFollows, PairOnDisk,
     MemoryFollows, RotationAt, ActsOnTruth, Whole, NextRoot, IdleRoll, IdleRen,
     ComesBack, diskVars, rowVars, memVars, workerVars, histVars
<1>32. CASE UNCHANGED vars
  BY <1>32 DEF RootInv, TypeOK, Underway, RowFollows, PairOnDisk, MemoryFollows,
     RotationAt, ActsOnTruth, Whole, NextRoot, IdleRoll, IdleRen, vars, diskVars,
     rowVars, memVars, workerVars, histVars
<1> QED
  BY <1>1, <1>2, <1>3, <1>4, <1>5, <1>6, <1>7, <1>8, <1>9, <1>10, <1>11, <1>12, <1>13,
     <1>14, <1>15, <1>16, <1>17, <1>18, <1>19, <1>20, <1>21, <1>22, <1>23, <1>24, <1>25, <1>26,
     <1>27, <1>28, <1>29, <1>30, <1>31, <1>32 DEF Next, Rollover, Renewal

(* Each step of the rotation finds the directory as the one before left    *)
(* it.                                                                     *)
LEMMA RotationStep == RootInv /\ [Next]_vars => RotationAt'
<1> SUFFICES ASSUME RootInv, [Next]_vars PROVE RotationAt'
  OBVIOUS
<1>1. ASSUME RotateRoot
      PROVE  RotationAt'
  BY <1>1, CAAssumption DEF RootInv, TypeOK, Underway, RowFollows, PairOnDisk,
     MemoryFollows, RotationAt, ActsOnTruth, Whole, NextRoot, IdleRoll, IdleRen,
     RotateRoot, Begin, Reconcile, NothingRotated, Answered, RollEnds, Rolling,
     Spend, NoCross, NoPair, diskVars, rowVars, memVars, workerVars, histVars
<1>2. ASSUME RootRolloverTick
      PROVE  RotationAt'
  BY <1>2, CAAssumption DEF RootInv, TypeOK, Underway, RowFollows, PairOnDisk,
     MemoryFollows, RotationAt, ActsOnTruth, Whole, NextRoot, IdleRoll, IdleRen,
     RootRolloverTick, Begin, Reconcile, NothingRotated, Answered, RollEnds, Rolling,
     Spend, NoCross, NoPair, diskVars, rowVars, memVars, workerVars, histVars
<1>3. ASSUME FinishRollover
      PROVE  RotationAt'
  BY <1>3, CAAssumption DEF RootInv, TypeOK, Underway, RowFollows, PairOnDisk,
     MemoryFollows, RotationAt, ActsOnTruth, Whole, NextRoot, IdleRoll, IdleRen,
     FinishRollover, Begin, Reconcile, NothingRotated, Answered, RollEnds, Rolling,
     Spend, NoCross, NoPair, diskVars, rowVars, memVars, workerVars, histVars
<1>4. ASSUME AnnounceControllerCert
      PROVE  RotationAt'
  BY <1>4, CAAssumption DEF RootInv, TypeOK, Underway, RowFollows, PairOnDisk,
     MemoryFollows, RotationAt, ActsOnTruth, Whole, NextRoot, IdleRoll, IdleRen,
     AnnounceControllerCert, Reannounce, Reissue, Steady, Spend, RenUnchanged,
     NoPair, RollMuFree, diskVars, rowVars, memVars, workerVars, histVars
<1>5. ASSUME RotateFails
      PROVE  RotationAt'
  BY <1>5, CAAssumption DEF RootInv, TypeOK, Underway, RowFollows, PairOnDisk,
     MemoryFollows, RotationAt, ActsOnTruth, Whole, NextRoot, IdleRoll, IdleRen,
     RotateFails, Spend, RollEnds, NoCross, diskVars, rowVars, memVars, workerVars,
     histVars
<1>6. ASSUME WriteCross
      PROVE  RotationAt'
  BY <1>6, CAAssumption DEF RootInv, TypeOK, Underway, RowFollows, PairOnDisk,
     MemoryFollows, RotationAt, ActsOnTruth, Whole, NextRoot, IdleRoll, IdleRen,
     WriteCross, RollEnds, RollMuFree, diskVars, rowVars, memVars, workerVars,
     histVars
<1>7. ASSUME RotatePrev
      PROVE  RotationAt'
  BY <1>7, CAAssumption DEF RootInv, TypeOK, Underway, RowFollows, PairOnDisk,
     MemoryFollows, RotationAt, ActsOnTruth, Whole, NextRoot, IdleRoll, IdleRen,
     RotatePrev, Goto, diskVars, rowVars, memVars, workerVars, histVars
<1>8. ASSUME RotateKey
      PROVE  RotationAt'
  BY <1>8, CAAssumption DEF RootInv, TypeOK, Underway, RowFollows, PairOnDisk,
     MemoryFollows, RotationAt, ActsOnTruth, Whole, NextRoot, IdleRoll, IdleRen,
     RotateKey, Goto, diskVars, rowVars, memVars, workerVars, histVars
<1>9. ASSUME RotateCrt
      PROVE  RotationAt'
  BY <1>9, CAAssumption DEF RootInv, TypeOK, Underway, RowFollows, PairOnDisk,
     MemoryFollows, RotationAt, ActsOnTruth, Whole, NextRoot, IdleRoll, IdleRen,
     RotateCrt, Goto, diskVars, rowVars, memVars, workerVars, histVars
<1>10. ASSUME SwapCA
      PROVE  RotationAt'
  BY <1>10, CAAssumption DEF RootInv, TypeOK, Underway, RowFollows, PairOnDisk,
     MemoryFollows, RotationAt, ActsOnTruth, Whole, NextRoot, IdleRoll, IdleRen,
     SwapCA, Both, RollEnds, Spend, diskVars, rowVars, memVars, workerVars, histVars
<1>11. ASSUME AdvancePush
      PROVE  RotationAt'
  BY <1>11, CAAssumption DEF RootInv, TypeOK, Underway, RowFollows, PairOnDisk,
     MemoryFollows, RotationAt, ActsOnTruth, Whole, NextRoot, IdleRoll, IdleRen,
     AdvancePush, Goto, diskVars, rowVars, memVars, workerVars, histVars
<1>12. ASSUME AdvanceRenew
      PROVE  RotationAt'
  BY <1>12, CAAssumption DEF RootInv, TypeOK, Underway, RowFollows, PairOnDisk,
     MemoryFollows, RotationAt, ActsOnTruth, Whole, NextRoot, IdleRoll, IdleRen,
     AdvanceRenew, Reannounce, Reissue, Steady, Goto, RenUnchanged, NoPair,
     RollMuFree, diskVars, rowVars, memVars, workerVars, histVars
<1>13. ASSUME AdvanceCheck
      PROVE  RotationAt'
  BY <1>13, CAAssumption DEF RootInv, TypeOK, Underway, RowFollows, PairOnDisk,
     MemoryFollows, RotationAt, ActsOnTruth, Whole, NextRoot, IdleRoll, IdleRen,
     AdvanceCheck, Goto, diskVars, rowVars, memVars, workerVars, histVars
<1>14. ASSUME MarkStraggler
      PROVE  RotationAt'
  BY <1>14, CAAssumption DEF RootInv, TypeOK, Underway, RowFollows, PairOnDisk,
     MemoryFollows, RotationAt, ActsOnTruth, Whole, NextRoot, IdleRoll, IdleRen,
     MarkStraggler, Goto, RootStragglers, diskVars, rowVars, memVars, workerVars,
     histVars
<1>15. ASSUME DropPrevCA
      PROVE  RotationAt'
  BY <1>15, CAAssumption DEF RootInv, TypeOK, Underway, RowFollows, PairOnDisk,
     MemoryFollows, RotationAt, ActsOnTruth, Whole, NextRoot, IdleRoll, IdleRen,
     DropPrevCA, Goto, RollMuFree, diskVars, rowVars, memVars, workerVars, histVars
<1>16. ASSUME ForgetPrev
      PROVE  RotationAt'
  BY <1>16, CAAssumption DEF RootInv, TypeOK, Underway, RowFollows, PairOnDisk,
     MemoryFollows, RotationAt, ActsOnTruth, Whole, NextRoot, IdleRoll, IdleRen,
     ForgetPrev, Goto, NoCross, NoPair, diskVars, rowVars, memVars, workerVars,
     histVars
<1>17. ASSUME RecordFinish
      PROVE  RotationAt'
  BY <1>17, CAAssumption DEF RootInv, TypeOK, Underway, RowFollows, PairOnDisk,
     MemoryFollows, RotationAt, ActsOnTruth, Whole, NextRoot, IdleRoll, IdleRen,
     RecordFinish, RollEnds, Spend, diskVars, rowVars, memVars, workerVars, histVars
<1>18. ASSUME KeepPrev
      PROVE  RotationAt'
  BY <1>18, CAAssumption DEF RootInv, TypeOK, Underway, RowFollows, PairOnDisk,
     MemoryFollows, RotationAt, ActsOnTruth, Whole, NextRoot, IdleRoll, IdleRen,
     KeepPrev, RenUnchanged, diskVars, rowVars, memVars, workerVars, histVars
<1>19. ASSUME SaveController
      PROVE  RotationAt'
  BY <1>19, CAAssumption DEF RootInv, TypeOK, Underway, RowFollows, PairOnDisk,
     MemoryFollows, RotationAt, ActsOnTruth, Whole, NextRoot, IdleRoll, IdleRen,
     SaveController, RenUnchanged, diskVars, rowVars, memVars, workerVars, histVars
<1>20. ASSUME RenewalFails
      PROVE  RotationAt'
  BY <1>20, CAAssumption DEF RootInv, TypeOK, Underway, RowFollows, PairOnDisk,
     MemoryFollows, RotationAt, ActsOnTruth, Whole, NextRoot, IdleRoll, IdleRen,
     RenewalFails, RenEnds, Spend, RenUnchanged, diskVars, rowVars, memVars,
     workerVars, histVars
<1>21. ASSUME SwitchController
      PROVE  RotationAt'
  BY <1>21, CAAssumption DEF RootInv, TypeOK, Underway, RowFollows, PairOnDisk,
     MemoryFollows, RotationAt, ActsOnTruth, Whole, NextRoot, IdleRoll, IdleRen,
     SwitchController, RenEnds, RenUnchanged, diskVars, rowVars, memVars, workerVars,
     histVars
<1>22. ASSUME RefreshClients
      PROVE  RotationAt'
  BY <1>22, CAAssumption DEF RootInv, TypeOK, Underway, RowFollows, PairOnDisk,
     MemoryFollows, RotationAt, ActsOnTruth, Whole, NextRoot, IdleRoll, IdleRen,
     RefreshClients, diskVars, rowVars, memVars, workerVars, histVars
<1>23. ASSUME PanelDies
      PROVE  RotationAt'
  BY <1>23, CAAssumption DEF RootInv, TypeOK, Underway, RowFollows, PairOnDisk,
     MemoryFollows, RotationAt, ActsOnTruth, Whole, NextRoot, IdleRoll, IdleRen,
     PanelDies, Spend, diskVars, rowVars, memVars, workerVars, histVars
<1>24. ASSUME BootCluster
      PROVE  RotationAt'
  BY <1>24, CAAssumption DEF RootInv, TypeOK, Underway, RowFollows, PairOnDisk,
     MemoryFollows, RotationAt, ActsOnTruth, Whole, NextRoot, IdleRoll, IdleRen,
     BootCluster, BootAs, LoadPrev, KeepsController, Both, diskVars, rowVars,
     memVars, workerVars, histVars
<1>25. ASSUME NEW w \in Workers, PushMesh(w)
      PROVE  RotationAt'
  BY <1>25, CAAssumption DEF RootInv, TypeOK, Underway, RowFollows, PairOnDisk,
     MemoryFollows, RotationAt, ActsOnTruth, Whole, NextRoot, IdleRoll, IdleRen,
     PushMesh, TakesSpec, diskVars, rowVars, memVars, workerVars, histVars
<1>26. ASSUME NEW w \in Workers, RecoverNode(w)
      PROVE  RotationAt'
  BY <1>26, CAAssumption DEF RootInv, TypeOK, Underway, RowFollows, PairOnDisk,
     MemoryFollows, RotationAt, ActsOnTruth, Whole, NextRoot, IdleRoll, IdleRen,
     RecoverNode, TakesSpec, diskVars, rowVars, memVars, workerVars, histVars
<1>27. ASSUME NEW w \in Workers, RenewAnswered(w)
      PROVE  RotationAt'
  BY <1>27, CAAssumption DEF RootInv, TypeOK, Underway, RowFollows, PairOnDisk,
     MemoryFollows, RotationAt, ActsOnTruth, Whole, NextRoot, IdleRoll, IdleRen,
     RenewAnswered, RenewNodeCert, diskVars, rowVars, memVars, workerVars, histVars
<1>28. ASSUME NEW w \in Workers, RenewLost(w)
      PROVE  RotationAt'
  BY <1>28, CAAssumption DEF RootInv, TypeOK, Underway, RowFollows, PairOnDisk,
     MemoryFollows, RotationAt, ActsOnTruth, Whole, NextRoot, IdleRoll, IdleRen,
     RenewLost, RenewNodeCert, Spend, diskVars, rowVars, memVars, workerVars, histVars
<1>29. ASSUME NEW w \in Workers, Settle(w)
      PROVE  RotationAt'
  BY <1>29, CAAssumption DEF RootInv, TypeOK, Underway, RowFollows, PairOnDisk,
     MemoryFollows, RotationAt, ActsOnTruth, Whole, NextRoot, IdleRoll, IdleRen,
     Settle, diskVars, rowVars, memVars, workerVars, histVars
<1>30. ASSUME NEW w \in Workers, GoesAway(w)
      PROVE  RotationAt'
  BY <1>30, CAAssumption DEF RootInv, TypeOK, Underway, RowFollows, PairOnDisk,
     MemoryFollows, RotationAt, ActsOnTruth, Whole, NextRoot, IdleRoll, IdleRen,
     GoesAway, Spend, diskVars, rowVars, memVars, workerVars, histVars
<1>31. ASSUME NEW w \in Workers, ComesBack(w)
      PROVE  RotationAt'
  BY <1>31, CAAssumption DEF RootInv, TypeOK, Underway, RowFollows, PairOnDisk,
     MemoryFollows, RotationAt, ActsOnTruth, Whole, NextRoot, IdleRoll, IdleRen,
     ComesBack, diskVars, rowVars, memVars, workerVars, histVars
<1>32. CASE UNCHANGED vars
  BY <1>32 DEF RootInv, TypeOK, Underway, RowFollows, PairOnDisk, MemoryFollows,
     RotationAt, ActsOnTruth, Whole, NextRoot, IdleRoll, IdleRen, vars, diskVars,
     rowVars, memVars, workerVars, histVars
<1> QED
  BY <1>1, <1>2, <1>3, <1>4, <1>5, <1>6, <1>7, <1>8, <1>9, <1>10, <1>11, <1>12, <1>13,
     <1>14, <1>15, <1>16, <1>17, <1>18, <1>19, <1>20, <1>21, <1>22, <1>23, <1>24, <1>25, <1>26,
     <1>27, <1>28, <1>29, <1>30, <1>31, <1>32 DEF Next, Rollover, Renewal

(* A rollover is taken up only on what reconcile found to agree.           *)
LEMMA TruthStep == RootInv /\ [Next]_vars => ActsOnTruth'
<1> SUFFICES ASSUME RootInv, [Next]_vars PROVE ActsOnTruth'
  OBVIOUS
<1>1. ASSUME RotateRoot
      PROVE  ActsOnTruth'
  BY <1>1, CAAssumption DEF RootInv, TypeOK, Underway, RowFollows, PairOnDisk,
     MemoryFollows, RotationAt, ActsOnTruth, Whole, NextRoot, IdleRoll, IdleRen,
     RotateRoot, Begin, Reconcile, NothingRotated, Answered, RollEnds, Rolling,
     Spend, NoCross, NoPair, diskVars, rowVars, memVars, workerVars, histVars
<1>2. ASSUME RootRolloverTick
      PROVE  ActsOnTruth'
  <2>1. up /\ roll.step = "idle" /\ Reconcile /\ UNCHANGED <<caKey, caCrt, sign>>
    BY <1>2 DEF RootRolloverTick, Begin
  <2>2. CASE Rolling(row') /\ budget' = budget
    BY <2>1, <2>2, ReconcileTruth DEF Agree, ActsOnTruth
  <2>3. CASE ~(Rolling(row') /\ budget' = budget)
    BY <1>2, <2>3 DEF RootRolloverTick, RollEnds, Answered, IdleRoll, ActsOnTruth
  <2> QED
    BY <2>2, <2>3
<1>3. ASSUME FinishRollover
      PROVE  ActsOnTruth'
  <2>1. up /\ roll.step = "idle" /\ Reconcile /\ UNCHANGED <<caKey, caCrt, sign>>
    BY <1>3 DEF FinishRollover, Begin
  <2>2. CASE Rolling(row') /\ budget' = budget
    BY <2>1, <2>2, ReconcileTruth DEF Agree, ActsOnTruth
  <2>3. CASE ~(Rolling(row') /\ budget' = budget)
    BY <1>3, <2>3 DEF FinishRollover, RollEnds, Answered, IdleRoll, ActsOnTruth
  <2> QED
    BY <2>2, <2>3
<1>4. ASSUME AnnounceControllerCert
      PROVE  ActsOnTruth'
  BY <1>4, CAAssumption DEF RootInv, TypeOK, Underway, RowFollows, PairOnDisk,
     MemoryFollows, RotationAt, ActsOnTruth, Whole, NextRoot, IdleRoll, IdleRen,
     AnnounceControllerCert, Reannounce, Reissue, Steady, Spend, RenUnchanged,
     NoPair, RollMuFree, diskVars, rowVars, memVars, workerVars, histVars
<1>5. ASSUME RotateFails
      PROVE  ActsOnTruth'
  BY <1>5, CAAssumption DEF RootInv, TypeOK, Underway, RowFollows, PairOnDisk,
     MemoryFollows, RotationAt, ActsOnTruth, Whole, NextRoot, IdleRoll, IdleRen,
     RotateFails, Spend, RollEnds, NoCross, diskVars, rowVars, memVars, workerVars,
     histVars
<1>6. ASSUME WriteCross
      PROVE  ActsOnTruth'
  BY <1>6, CAAssumption DEF RootInv, TypeOK, Underway, RowFollows, PairOnDisk,
     MemoryFollows, RotationAt, ActsOnTruth, Whole, NextRoot, IdleRoll, IdleRen,
     WriteCross, RollEnds, RollMuFree, diskVars, rowVars, memVars, workerVars,
     histVars
<1>7. ASSUME RotatePrev
      PROVE  ActsOnTruth'
  BY <1>7, CAAssumption DEF RootInv, TypeOK, Underway, RowFollows, PairOnDisk,
     MemoryFollows, RotationAt, ActsOnTruth, Whole, NextRoot, IdleRoll, IdleRen,
     RotatePrev, Goto, diskVars, rowVars, memVars, workerVars, histVars
<1>8. ASSUME RotateKey
      PROVE  ActsOnTruth'
  BY <1>8, CAAssumption DEF RootInv, TypeOK, Underway, RowFollows, PairOnDisk,
     MemoryFollows, RotationAt, ActsOnTruth, Whole, NextRoot, IdleRoll, IdleRen,
     RotateKey, Goto, diskVars, rowVars, memVars, workerVars, histVars
<1>9. ASSUME RotateCrt
      PROVE  ActsOnTruth'
  BY <1>9, CAAssumption DEF RootInv, TypeOK, Underway, RowFollows, PairOnDisk,
     MemoryFollows, RotationAt, ActsOnTruth, Whole, NextRoot, IdleRoll, IdleRen,
     RotateCrt, Goto, diskVars, rowVars, memVars, workerVars, histVars
<1>10. ASSUME SwapCA
      PROVE  ActsOnTruth'
  <2>1. CASE /\ row' = [cur |-> roll.next, prev |-> sign.crt]
             /\ roll' = [IdleRoll EXCEPT !.step = "push"]
    <3>1. /\ caKey = roll.next /\ caCrt = roll.next /\ caPrev = sign.crt
          /\ sign.crt # roll.next /\ sign.crt # 0 /\ roll.next # 0
      BY <1>10, CAAssumption DEF RootInv, TypeOK, RotationAt, NextRoot, Roots, SwapCA
    <3> QED
      BY <1>10, <2>1, <3>1 DEF ActsOnTruth, SwapCA, Both, Whole, diskVars
  <2>2. CASE RollEnds
    BY <2>2 DEF ActsOnTruth, RollEnds, IdleRoll
  <2> QED
    BY <1>10, <2>1, <2>2 DEF SwapCA
<1>11. ASSUME AdvancePush
      PROVE  ActsOnTruth'
  BY <1>11, CAAssumption DEF RootInv, TypeOK, Underway, RowFollows, PairOnDisk,
     MemoryFollows, RotationAt, ActsOnTruth, Whole, NextRoot, IdleRoll, IdleRen,
     AdvancePush, Goto, diskVars, rowVars, memVars, workerVars, histVars
<1>12. ASSUME AdvanceRenew
      PROVE  ActsOnTruth'
  BY <1>12, CAAssumption DEF RootInv, TypeOK, Underway, RowFollows, PairOnDisk,
     MemoryFollows, RotationAt, ActsOnTruth, Whole, NextRoot, IdleRoll, IdleRen,
     AdvanceRenew, Reannounce, Reissue, Steady, Goto, RenUnchanged, NoPair,
     RollMuFree, diskVars, rowVars, memVars, workerVars, histVars
<1>13. ASSUME AdvanceCheck
      PROVE  ActsOnTruth'
  BY <1>13, CAAssumption DEF RootInv, TypeOK, Underway, RowFollows, PairOnDisk,
     MemoryFollows, RotationAt, ActsOnTruth, Whole, NextRoot, IdleRoll, IdleRen,
     AdvanceCheck, Goto, diskVars, rowVars, memVars, workerVars, histVars
<1>14. ASSUME MarkStraggler
      PROVE  ActsOnTruth'
  BY <1>14, CAAssumption DEF RootInv, TypeOK, Underway, RowFollows, PairOnDisk,
     MemoryFollows, RotationAt, ActsOnTruth, Whole, NextRoot, IdleRoll, IdleRen,
     MarkStraggler, Goto, RootStragglers, diskVars, rowVars, memVars, workerVars,
     histVars
<1>15. ASSUME DropPrevCA
      PROVE  ActsOnTruth'
  BY <1>15, CAAssumption DEF RootInv, TypeOK, Underway, RowFollows, PairOnDisk,
     MemoryFollows, RotationAt, ActsOnTruth, Whole, NextRoot, IdleRoll, IdleRen,
     DropPrevCA, Goto, RollMuFree, diskVars, rowVars, memVars, workerVars, histVars
<1>16. ASSUME ForgetPrev
      PROVE  ActsOnTruth'
  BY <1>16, CAAssumption DEF RootInv, TypeOK, Underway, RowFollows, PairOnDisk,
     MemoryFollows, RotationAt, ActsOnTruth, Whole, NextRoot, IdleRoll, IdleRen,
     ForgetPrev, Goto, NoCross, NoPair, diskVars, rowVars, memVars, workerVars,
     histVars
<1>17. ASSUME RecordFinish
      PROVE  ActsOnTruth'
  BY <1>17, CAAssumption DEF RootInv, TypeOK, Underway, RowFollows, PairOnDisk,
     MemoryFollows, RotationAt, ActsOnTruth, Whole, NextRoot, IdleRoll, IdleRen,
     RecordFinish, RollEnds, Spend, diskVars, rowVars, memVars, workerVars, histVars
<1>18. ASSUME KeepPrev
      PROVE  ActsOnTruth'
  BY <1>18, CAAssumption DEF RootInv, TypeOK, Underway, RowFollows, PairOnDisk,
     MemoryFollows, RotationAt, ActsOnTruth, Whole, NextRoot, IdleRoll, IdleRen,
     KeepPrev, RenUnchanged, diskVars, rowVars, memVars, workerVars, histVars
<1>19. ASSUME SaveController
      PROVE  ActsOnTruth'
  BY <1>19, CAAssumption DEF RootInv, TypeOK, Underway, RowFollows, PairOnDisk,
     MemoryFollows, RotationAt, ActsOnTruth, Whole, NextRoot, IdleRoll, IdleRen,
     SaveController, RenUnchanged, diskVars, rowVars, memVars, workerVars, histVars
<1>20. ASSUME RenewalFails
      PROVE  ActsOnTruth'
  BY <1>20, CAAssumption DEF RootInv, TypeOK, Underway, RowFollows, PairOnDisk,
     MemoryFollows, RotationAt, ActsOnTruth, Whole, NextRoot, IdleRoll, IdleRen,
     RenewalFails, RenEnds, Spend, RenUnchanged, diskVars, rowVars, memVars,
     workerVars, histVars
<1>21. ASSUME SwitchController
      PROVE  ActsOnTruth'
  BY <1>21, CAAssumption DEF RootInv, TypeOK, Underway, RowFollows, PairOnDisk,
     MemoryFollows, RotationAt, ActsOnTruth, Whole, NextRoot, IdleRoll, IdleRen,
     SwitchController, RenEnds, RenUnchanged, diskVars, rowVars, memVars, workerVars,
     histVars
<1>22. ASSUME RefreshClients
      PROVE  ActsOnTruth'
  BY <1>22, CAAssumption DEF RootInv, TypeOK, Underway, RowFollows, PairOnDisk,
     MemoryFollows, RotationAt, ActsOnTruth, Whole, NextRoot, IdleRoll, IdleRen,
     RefreshClients, diskVars, rowVars, memVars, workerVars, histVars
<1>23. ASSUME PanelDies
      PROVE  ActsOnTruth'
  BY <1>23, CAAssumption DEF RootInv, TypeOK, Underway, RowFollows, PairOnDisk,
     MemoryFollows, RotationAt, ActsOnTruth, Whole, NextRoot, IdleRoll, IdleRen,
     PanelDies, Spend, diskVars, rowVars, memVars, workerVars, histVars
<1>24. ASSUME BootCluster
      PROVE  ActsOnTruth'
  BY <1>24, CAAssumption DEF RootInv, TypeOK, Underway, RowFollows, PairOnDisk,
     MemoryFollows, RotationAt, ActsOnTruth, Whole, NextRoot, IdleRoll, IdleRen,
     BootCluster, BootAs, LoadPrev, KeepsController, Both, diskVars, rowVars,
     memVars, workerVars, histVars
<1>25. ASSUME NEW w \in Workers, PushMesh(w)
      PROVE  ActsOnTruth'
  BY <1>25, CAAssumption DEF RootInv, TypeOK, Underway, RowFollows, PairOnDisk,
     MemoryFollows, RotationAt, ActsOnTruth, Whole, NextRoot, IdleRoll, IdleRen,
     PushMesh, TakesSpec, diskVars, rowVars, memVars, workerVars, histVars
<1>26. ASSUME NEW w \in Workers, RecoverNode(w)
      PROVE  ActsOnTruth'
  BY <1>26, CAAssumption DEF RootInv, TypeOK, Underway, RowFollows, PairOnDisk,
     MemoryFollows, RotationAt, ActsOnTruth, Whole, NextRoot, IdleRoll, IdleRen,
     RecoverNode, TakesSpec, diskVars, rowVars, memVars, workerVars, histVars
<1>27. ASSUME NEW w \in Workers, RenewAnswered(w)
      PROVE  ActsOnTruth'
  BY <1>27, CAAssumption DEF RootInv, TypeOK, Underway, RowFollows, PairOnDisk,
     MemoryFollows, RotationAt, ActsOnTruth, Whole, NextRoot, IdleRoll, IdleRen,
     RenewAnswered, RenewNodeCert, diskVars, rowVars, memVars, workerVars, histVars
<1>28. ASSUME NEW w \in Workers, RenewLost(w)
      PROVE  ActsOnTruth'
  BY <1>28, CAAssumption DEF RootInv, TypeOK, Underway, RowFollows, PairOnDisk,
     MemoryFollows, RotationAt, ActsOnTruth, Whole, NextRoot, IdleRoll, IdleRen,
     RenewLost, RenewNodeCert, Spend, diskVars, rowVars, memVars, workerVars, histVars
<1>29. ASSUME NEW w \in Workers, Settle(w)
      PROVE  ActsOnTruth'
  BY <1>29, CAAssumption DEF RootInv, TypeOK, Underway, RowFollows, PairOnDisk,
     MemoryFollows, RotationAt, ActsOnTruth, Whole, NextRoot, IdleRoll, IdleRen,
     Settle, diskVars, rowVars, memVars, workerVars, histVars
<1>30. ASSUME NEW w \in Workers, GoesAway(w)
      PROVE  ActsOnTruth'
  BY <1>30, CAAssumption DEF RootInv, TypeOK, Underway, RowFollows, PairOnDisk,
     MemoryFollows, RotationAt, ActsOnTruth, Whole, NextRoot, IdleRoll, IdleRen,
     GoesAway, Spend, diskVars, rowVars, memVars, workerVars, histVars
<1>31. ASSUME NEW w \in Workers, ComesBack(w)
      PROVE  ActsOnTruth'
  BY <1>31, CAAssumption DEF RootInv, TypeOK, Underway, RowFollows, PairOnDisk,
     MemoryFollows, RotationAt, ActsOnTruth, Whole, NextRoot, IdleRoll, IdleRen,
     ComesBack, diskVars, rowVars, memVars, workerVars, histVars
<1>32. CASE UNCHANGED vars
  BY <1>32 DEF RootInv, TypeOK, Underway, RowFollows, PairOnDisk, MemoryFollows,
     RotationAt, ActsOnTruth, Whole, NextRoot, IdleRoll, IdleRen, vars, diskVars,
     rowVars, memVars, workerVars, histVars
<1> QED
  BY <1>1, <1>2, <1>3, <1>4, <1>5, <1>6, <1>7, <1>8, <1>9, <1>10, <1>11, <1>12, <1>13,
     <1>14, <1>15, <1>16, <1>17, <1>18, <1>19, <1>20, <1>21, <1>22, <1>23, <1>24, <1>25, <1>26,
     <1>27, <1>28, <1>29, <1>30, <1>31, <1>32 DEF Next, Rollover, Renewal

(* No step leaves a followed worker with a certificate of a root that is   *)
(* gone.                                                                   *)
LEMMA WorkersStep == CAInv /\ [Next]_vars => WorkersFollow'
<1> SUFFICES ASSUME CAInv, [Next]_vars PROVE WorkersFollow'
  OBVIOUS
<1>1. ASSUME RotateRoot
      PROVE  WorkersFollow'
  BY <1>1, CAAssumption DEF CAInv, WorkersFollow, Followed, RootInv, TypeOK,
     Underway, RowFollows, PairOnDisk, MemoryFollows, RotationAt, ActsOnTruth, Whole,
     NextRoot, IdleRoll, IdleRen, RotateRoot, Begin, Reconcile, NothingRotated,
     Answered, RollEnds, Rolling, Spend, NoCross, NoPair, diskVars, rowVars, memVars,
     workerVars, histVars
<1>2. ASSUME RootRolloverTick
      PROVE  WorkersFollow'
  BY <1>2, CAAssumption DEF CAInv, WorkersFollow, Followed, RootInv, TypeOK,
     Underway, RowFollows, PairOnDisk, MemoryFollows, RotationAt, ActsOnTruth, Whole,
     NextRoot, IdleRoll, IdleRen, RootRolloverTick, Begin, Reconcile, NothingRotated,
     Answered, RollEnds, Rolling, Spend, NoCross, NoPair, diskVars, rowVars, memVars,
     workerVars, histVars
<1>3. ASSUME FinishRollover
      PROVE  WorkersFollow'
  BY <1>3, CAAssumption DEF CAInv, WorkersFollow, Followed, RootInv, TypeOK,
     Underway, RowFollows, PairOnDisk, MemoryFollows, RotationAt, ActsOnTruth, Whole,
     NextRoot, IdleRoll, IdleRen, FinishRollover, Begin, Reconcile, NothingRotated,
     Answered, RollEnds, Rolling, Spend, NoCross, NoPair, diskVars, rowVars, memVars,
     workerVars, histVars
<1>4. ASSUME AnnounceControllerCert
      PROVE  WorkersFollow'
  BY <1>4, CAAssumption DEF CAInv, WorkersFollow, Followed, RootInv, TypeOK,
     Underway, RowFollows, PairOnDisk, MemoryFollows, RotationAt, ActsOnTruth, Whole,
     NextRoot, IdleRoll, IdleRen, AnnounceControllerCert, Reannounce, Reissue,
     Steady, Spend, RenUnchanged, NoPair, RollMuFree, diskVars, rowVars, memVars,
     workerVars, histVars
<1>5. ASSUME RotateFails
      PROVE  WorkersFollow'
  BY <1>5, CAAssumption DEF CAInv, WorkersFollow, Followed, RootInv, TypeOK,
     Underway, RowFollows, PairOnDisk, MemoryFollows, RotationAt, ActsOnTruth, Whole,
     NextRoot, IdleRoll, IdleRen, RotateFails, Spend, RollEnds, NoCross, diskVars,
     rowVars, memVars, workerVars, histVars
<1>6. ASSUME WriteCross
      PROVE  WorkersFollow'
  BY <1>6, CAAssumption DEF CAInv, WorkersFollow, Followed, RootInv, TypeOK,
     Underway, RowFollows, PairOnDisk, MemoryFollows, RotationAt, ActsOnTruth, Whole,
     NextRoot, IdleRoll, IdleRen, WriteCross, RollEnds, RollMuFree, diskVars,
     rowVars, memVars, workerVars, histVars
<1>7. ASSUME RotatePrev
      PROVE  WorkersFollow'
  BY <1>7, CAAssumption DEF CAInv, WorkersFollow, Followed, RootInv, TypeOK,
     Underway, RowFollows, PairOnDisk, MemoryFollows, RotationAt, ActsOnTruth, Whole,
     NextRoot, IdleRoll, IdleRen, RotatePrev, Goto, diskVars, rowVars, memVars,
     workerVars, histVars
<1>8. ASSUME RotateKey
      PROVE  WorkersFollow'
  BY <1>8, CAAssumption DEF CAInv, WorkersFollow, Followed, RootInv, TypeOK,
     Underway, RowFollows, PairOnDisk, MemoryFollows, RotationAt, ActsOnTruth, Whole,
     NextRoot, IdleRoll, IdleRen, RotateKey, Goto, diskVars, rowVars, memVars,
     workerVars, histVars
<1>9. ASSUME RotateCrt
      PROVE  WorkersFollow'
  BY <1>9, CAAssumption DEF CAInv, WorkersFollow, Followed, RootInv, TypeOK,
     Underway, RowFollows, PairOnDisk, MemoryFollows, RotationAt, ActsOnTruth, Whole,
     NextRoot, IdleRoll, IdleRen, RotateCrt, Goto, diskVars, rowVars, memVars,
     workerVars, histVars
<1>10. ASSUME SwapCA
      PROVE  WorkersFollow'
  BY <1>10, CAAssumption DEF CAInv, WorkersFollow, Followed, RootInv, TypeOK,
     Underway, RowFollows, PairOnDisk, MemoryFollows, RotationAt, ActsOnTruth, Whole,
     NextRoot, IdleRoll, IdleRen, SwapCA, Both, RollEnds, Spend, diskVars, rowVars,
     memVars, workerVars, histVars
<1>11. ASSUME AdvancePush
      PROVE  WorkersFollow'
  BY <1>11, CAAssumption DEF CAInv, WorkersFollow, Followed, RootInv, TypeOK,
     Underway, RowFollows, PairOnDisk, MemoryFollows, RotationAt, ActsOnTruth, Whole,
     NextRoot, IdleRoll, IdleRen, AdvancePush, Goto, diskVars, rowVars, memVars,
     workerVars, histVars
<1>12. ASSUME AdvanceRenew
      PROVE  WorkersFollow'
  BY <1>12, CAAssumption DEF CAInv, WorkersFollow, Followed, RootInv, TypeOK,
     Underway, RowFollows, PairOnDisk, MemoryFollows, RotationAt, ActsOnTruth, Whole,
     NextRoot, IdleRoll, IdleRen, AdvanceRenew, Reannounce, Reissue, Steady, Goto,
     RenUnchanged, NoPair, RollMuFree, diskVars, rowVars, memVars, workerVars,
     histVars
<1>13. ASSUME AdvanceCheck
      PROVE  WorkersFollow'
  <2>1. CASE RootStragglers(Workers \ settled) # {}
    BY <1>13, <2>1 DEF CAInv, RootInv, TypeOK, WorkersFollow, Followed, AdvanceCheck, Goto,
       diskVars, rowVars, memVars, workerVars, histVars
  <2>2. CASE RootStragglers(Workers \ settled) = {}
    <3>1. ASSUME NEW w \in Followed PROVE hold[w] = caCrt
      <4>1. newest[w] # 0 /\ w \in Workers \ rejoin
        BY DEF CAInv, WorkersFollow, Followed
      <4>2. newest[w] = row.cur /\ w \in settled
        BY <2>2, <4>1 DEF RootStragglers
      <4>3. row.cur = caCrt
        BY <1>13 DEF CAInv, RootInv, ActsOnTruth, AdvanceCheck
      <4> QED
        BY <4>2, <4>3 DEF CAInv, WorkersFollow
    <3>2. roll'.step = "dropprev"
      BY <1>13, <2>2 DEF CAInv, RootInv, TypeOK, AdvanceCheck, Goto
    <3> QED
      BY <1>13, <3>1, <3>2 DEF CAInv, WorkersFollow, Followed, AdvanceCheck,
         diskVars, rowVars, memVars, workerVars, histVars
  <2> QED
    BY <2>1, <2>2
<1>14. ASSUME MarkStraggler
      PROVE  WorkersFollow'
  BY <1>14, CAAssumption DEF CAInv, WorkersFollow, Followed, RootInv, TypeOK,
     Underway, RowFollows, PairOnDisk, MemoryFollows, RotationAt, ActsOnTruth, Whole,
     NextRoot, IdleRoll, IdleRen, MarkStraggler, Goto, RootStragglers, diskVars,
     rowVars, memVars, workerVars, histVars
<1>15. ASSUME DropPrevCA
      PROVE  WorkersFollow'
  BY <1>15, CAAssumption DEF CAInv, WorkersFollow, Followed, RootInv, TypeOK,
     Underway, RowFollows, PairOnDisk, MemoryFollows, RotationAt, ActsOnTruth, Whole,
     NextRoot, IdleRoll, IdleRen, DropPrevCA, Goto, RollMuFree, diskVars, rowVars,
     memVars, workerVars, histVars
<1>16. ASSUME ForgetPrev
      PROVE  WorkersFollow'
  BY <1>16, CAAssumption DEF CAInv, WorkersFollow, Followed, RootInv, TypeOK,
     Underway, RowFollows, PairOnDisk, MemoryFollows, RotationAt, ActsOnTruth, Whole,
     NextRoot, IdleRoll, IdleRen, ForgetPrev, Goto, NoCross, NoPair, diskVars,
     rowVars, memVars, workerVars, histVars
<1>17. ASSUME RecordFinish
      PROVE  WorkersFollow'
  BY <1>17, CAAssumption DEF CAInv, WorkersFollow, Followed, RootInv, TypeOK,
     Underway, RowFollows, PairOnDisk, MemoryFollows, RotationAt, ActsOnTruth, Whole,
     NextRoot, IdleRoll, IdleRen, RecordFinish, RollEnds, Spend, diskVars, rowVars,
     memVars, workerVars, histVars
<1>18. ASSUME KeepPrev
      PROVE  WorkersFollow'
  BY <1>18, CAAssumption DEF CAInv, WorkersFollow, Followed, RootInv, TypeOK,
     Underway, RowFollows, PairOnDisk, MemoryFollows, RotationAt, ActsOnTruth, Whole,
     NextRoot, IdleRoll, IdleRen, KeepPrev, RenUnchanged, diskVars, rowVars, memVars,
     workerVars, histVars
<1>19. ASSUME SaveController
      PROVE  WorkersFollow'
  BY <1>19, CAAssumption DEF CAInv, WorkersFollow, Followed, RootInv, TypeOK,
     Underway, RowFollows, PairOnDisk, MemoryFollows, RotationAt, ActsOnTruth, Whole,
     NextRoot, IdleRoll, IdleRen, SaveController, RenUnchanged, diskVars, rowVars,
     memVars, workerVars, histVars
<1>20. ASSUME RenewalFails
      PROVE  WorkersFollow'
  BY <1>20, CAAssumption DEF CAInv, WorkersFollow, Followed, RootInv, TypeOK,
     Underway, RowFollows, PairOnDisk, MemoryFollows, RotationAt, ActsOnTruth, Whole,
     NextRoot, IdleRoll, IdleRen, RenewalFails, RenEnds, Spend, RenUnchanged,
     diskVars, rowVars, memVars, workerVars, histVars
<1>21. ASSUME SwitchController
      PROVE  WorkersFollow'
  BY <1>21, CAAssumption DEF CAInv, WorkersFollow, Followed, RootInv, TypeOK,
     Underway, RowFollows, PairOnDisk, MemoryFollows, RotationAt, ActsOnTruth, Whole,
     NextRoot, IdleRoll, IdleRen, SwitchController, RenEnds, RenUnchanged, diskVars,
     rowVars, memVars, workerVars, histVars
<1>22. ASSUME RefreshClients
      PROVE  WorkersFollow'
  BY <1>22, CAAssumption DEF CAInv, WorkersFollow, Followed, RootInv, TypeOK,
     Underway, RowFollows, PairOnDisk, MemoryFollows, RotationAt, ActsOnTruth, Whole,
     NextRoot, IdleRoll, IdleRen, RefreshClients, diskVars, rowVars, memVars,
     workerVars, histVars
<1>23. ASSUME PanelDies
      PROVE  WorkersFollow'
  BY <1>23, CAAssumption DEF CAInv, WorkersFollow, Followed, RootInv, TypeOK,
     Underway, RowFollows, PairOnDisk, MemoryFollows, RotationAt, ActsOnTruth, Whole,
     NextRoot, IdleRoll, IdleRen, PanelDies, Spend, diskVars, rowVars, memVars,
     workerVars, histVars
<1>24. ASSUME BootCluster
      PROVE  WorkersFollow'
  BY <1>24, CAAssumption DEF CAInv, WorkersFollow, Followed, RootInv, TypeOK,
     Underway, RowFollows, PairOnDisk, MemoryFollows, RotationAt, ActsOnTruth, Whole,
     NextRoot, IdleRoll, IdleRen, BootCluster, BootAs, LoadPrev, KeepsController,
     Both, diskVars, rowVars, memVars, workerVars, histVars
<1>25. ASSUME NEW w \in Workers, PushMesh(w)
      PROVE  WorkersFollow'
  BY <1>25, CAAssumption DEF CAInv, WorkersFollow, Followed, RootInv, TypeOK,
     Underway, RowFollows, PairOnDisk, MemoryFollows, RotationAt, ActsOnTruth, Whole,
     NextRoot, IdleRoll, IdleRen, PushMesh, TakesSpec, diskVars, rowVars, memVars,
     workerVars, histVars
<1>26. ASSUME NEW w \in Workers, RecoverNode(w)
      PROVE  WorkersFollow'
  BY <1>26, CAAssumption DEF CAInv, WorkersFollow, Followed, RootInv, TypeOK,
     Underway, RowFollows, PairOnDisk, MemoryFollows, RotationAt, ActsOnTruth, Whole,
     NextRoot, IdleRoll, IdleRen, RecoverNode, TakesSpec, diskVars, rowVars, memVars,
     workerVars, histVars
<1>27. ASSUME NEW w \in Workers, RenewAnswered(w)
      PROVE  WorkersFollow'
  BY <1>27, CAAssumption DEF CAInv, WorkersFollow, Followed, RootInv, TypeOK,
     Underway, RowFollows, PairOnDisk, MemoryFollows, RotationAt, ActsOnTruth, Whole,
     NextRoot, IdleRoll, IdleRen, RenewAnswered, RenewNodeCert, diskVars, rowVars,
     memVars, workerVars, histVars
<1>28. ASSUME NEW w \in Workers, RenewLost(w)
      PROVE  WorkersFollow'
  BY <1>28, CAAssumption DEF CAInv, WorkersFollow, Followed, RootInv, TypeOK,
     Underway, RowFollows, PairOnDisk, MemoryFollows, RotationAt, ActsOnTruth, Whole,
     NextRoot, IdleRoll, IdleRen, RenewLost, RenewNodeCert, Spend, diskVars, rowVars,
     memVars, workerVars, histVars
<1>29. ASSUME NEW w \in Workers, Settle(w)
      PROVE  WorkersFollow'
  BY <1>29, CAAssumption DEF CAInv, WorkersFollow, Followed, RootInv, TypeOK,
     Underway, RowFollows, PairOnDisk, MemoryFollows, RotationAt, ActsOnTruth, Whole,
     NextRoot, IdleRoll, IdleRen, Settle, diskVars, rowVars, memVars, workerVars,
     histVars
<1>30. ASSUME NEW w \in Workers, GoesAway(w)
      PROVE  WorkersFollow'
  BY <1>30, CAAssumption DEF CAInv, WorkersFollow, Followed, RootInv, TypeOK,
     Underway, RowFollows, PairOnDisk, MemoryFollows, RotationAt, ActsOnTruth, Whole,
     NextRoot, IdleRoll, IdleRen, GoesAway, Spend, diskVars, rowVars, memVars,
     workerVars, histVars
<1>31. ASSUME NEW w \in Workers, ComesBack(w)
      PROVE  WorkersFollow'
  BY <1>31, CAAssumption DEF CAInv, WorkersFollow, Followed, RootInv, TypeOK,
     Underway, RowFollows, PairOnDisk, MemoryFollows, RotationAt, ActsOnTruth, Whole,
     NextRoot, IdleRoll, IdleRen, ComesBack, diskVars, rowVars, memVars, workerVars,
     histVars
<1>32. CASE UNCHANGED vars
  BY <1>32 DEF CAInv, WorkersFollow, Followed, RootInv, TypeOK, Underway, RowFollows,
     PairOnDisk, MemoryFollows, RotationAt, ActsOnTruth, Whole, NextRoot, IdleRoll,
     IdleRen, vars, diskVars, rowVars, memVars, workerVars, histVars
<1> QED
  BY <1>1, <1>2, <1>3, <1>4, <1>5, <1>6, <1>7, <1>8, <1>9, <1>10, <1>11, <1>12, <1>13,
     <1>14, <1>15, <1>16, <1>17, <1>18, <1>19, <1>20, <1>21, <1>22, <1>23, <1>24, <1>25, <1>26,
     <1>27, <1>28, <1>29, <1>30, <1>31, <1>32 DEF Next, Rollover, Renewal

(* The first boot satisfies the invariant.                                 *)
LEMMA CAInit == Init => CAInv
<1> SUFFICES ASSUME Init PROVE CAInv
  OBVIOUS
<1>1. 1 \in Roots /\ 1 \in Serials /\ 0 \notin Roots
  BY CAAssumption DEF Roots, Serials, MaxSerial
<1>2. /\ ctl \in Pair(Serials) /\ pctl \in Pair(Serials) /\ sign \in [key : Roots, crt : Roots]
      /\ cross \in [by : Roots \cup {0}, of : Roots \cup {0}]
      /\ row \in [cur : Roots \cup {0}, prev : Roots \cup {0}]
  BY <1>1 DEF Init, Pair, Both, NoPair, NoCross
<1>3. /\ roll \in [step : RollSteps, next : Roots \cup {0}]
      /\ ren \in [step : RenSteps, revoke : BOOLEAN, next : Serials \cup {0}]
  BY DEF Init, IdleRoll, IdleRen, RollSteps, RenSteps
<1>4. budget \in [{"renewals", "crashes", "faults", "lost", "away"} -> Nat]
  BY CAAssumption DEF Init
<1>5. issuer \in [Serials -> Roots \cup {0}] /\ issuer[own] # 0 /\ issuer[dial] # 0
  BY <1>1 DEF Init
<1>a. /\ newest \in [Workers -> Roots \cup {0}] /\ hold \in [Workers -> Roots]
      /\ trust \in [Workers -> SUBSET Roots] /\ allow \in [Workers -> SUBSET Serials]
      /\ missed \in [Workers -> 0..2]
  BY <1>1 DEF Init
<1>b. /\ settled \subseteq Workers /\ rejoin \subseteq Workers /\ away \subseteq Workers
      /\ stranded \subseteq Workers /\ up \in BOOLEAN /\ cut \subseteq {"boot", "finish", "torn"}
  BY DEF Init
<1>c. /\ caKey \in Roots /\ caCrt \in Roots /\ caPrev \in Roots \cup {0} /\ roots \subseteq Roots
      /\ own \in Serials /\ prev \in Serials \cup {0} /\ list \subseteq Serials /\ dial \in Serials
  BY <1>1 DEF Init
<1>6. TypeOK
  BY <1>2, <1>3, <1>4, <1>5, <1>a, <1>b, <1>c DEF TypeOK
<1>7. Underway /\ RowFollows /\ PairOnDisk /\ MemoryFollows /\ RotationAt /\ ActsOnTruth
  BY DEF Init, Underway, RowFollows, PairOnDisk, MemoryFollows, RotationAt, ActsOnTruth,
     IdleRoll, IdleRen, Both
<1>8. WorkersFollow
  BY DEF Init, WorkersFollow, Followed, IdleRoll
<1> QED
  BY <1>6, <1>7, <1>8 DEF CAInv, RootInv

(* The inductive invariant holds throughout.                               *)
THEOREM CAInvariant == Spec => []CAInv
<1>1. CAInv /\ [Next]_vars => CAInv'
  <2> SUFFICES ASSUME CAInv, [Next]_vars PROVE CAInv'
    OBVIOUS
  <2>1. RootInv
    BY DEF CAInv
  <2> QED
    BY <2>1, TypeStep, UnderwayStep, RowStep, PairStep, MemoryStep, RotationStep, TruthStep,
       WorkersStep DEF CAInv, RootInv
<1> QED
  BY CAInit, <1>1, PTL DEF Spec

(* Files, row, memory, renewals and workers keep their types, and every    *)
(* certificate the controller shows was issued, through crashes at any     *)
(* file move.                                                              *)
THEOREM CATypes == Spec => []TypeOK
<1>1. CAInv => TypeOK
  BY DEF CAInv, RootInv
<1> QED
  BY <1>1, CAInvariant, PTL

(* reconcileRollover: advanceRollover and finishRollover act only when the *)
(* key files, the row and the memory agree on two different roots.         *)
THEOREM CAActsOnTruth == Spec => []ActsOnTruth
<1>1. CAInv => ActsOnTruth
  BY DEF CAInv, RootInv
<1> QED
  BY <1>1, CAInvariant, PTL

(* Dropping the old root leaves every followed worker with a certificate   *)
(* the panel trusts, wherever the panel died and whatever answer was lost. *)
THEOREM CAHeldIsTrusted == Spec => []HeldIsTrusted
<1>1. CAInv => HeldIsTrusted
  <2> SUFFICES ASSUME CAInv, up, NEW w \in Followed PROVE hold[w] \in roots
    BY DEF HeldIsTrusted, Followed
  <2>1. hold[w] \in {caCrt, caPrev} \ {0}
    BY DEF CAInv, WorkersFollow
  <2>2. CASE roll.step = "swap"
    BY <2>2 DEF CAInv, WorkersFollow, RootInv, MemoryFollows
  <2>3. CASE roll.step # "swap"
    BY <2>1, <2>3 DEF CAInv, RootInv, MemoryFollows
  <2> QED
    BY <2>2, <2>3
<1> QED
  BY <1>1, CAInvariant, PTL

(***************************************************************************)
(* Workers stay in reach                                                   *)
(***************************************************************************)

(* A worker trusts the root of every serial it allows.                     *)
AllowedIsTrusted == \A w \in Workers : \A s \in allow[w] : issuer[s] \in trust[w]

(* The controller announces its own serial, and only serials of roots it   *)
(* trusts: of the root that signs alone, once its own cert is from it.     *)
Announced ==
    up => /\ own \in list
          /\ \A s \in list : issuer[s] \in roots /\ (Steady => issuer[s] = sign.crt)

(* The controller's cert is of the root that signs, or of the previous one *)
(* while the rollover keeps that.                                          *)
OwnRoot ==
    up /\ ~Steady => roll.step # "swap" /\ caPrev \notin {0, caCrt} /\ issuer[own] = caPrev

(* A renewal holds rollMu; its serial is announced beside the current one, *)
(* so whoever allows it allows both, and keepPrev comes before save.       *)
Renewing ==
    ren.step # "idle" =>
        /\ roll.step \notin Locked
        /\ ren.next # own /\ list = {own, ren.next} /\ issuer[ren.next] = sign.crt
        /\ \A w \in Workers : ren.next \in allow[w] => own \in allow[w]
        /\ ren.step \in {"keepkey", "keepcrt"} => ~ren.revoke
        /\ ren.step = "keepcrt" => pctl.key = own
        /\ ren.step \in {"savekey", "savecrt", "switch"} =>
             pctl = IF ren.revoke THEN NoPair ELSE Both(own)

(* The pair on disk is the controller's until save has renamed the key,    *)
(* then the cert.                                                          *)
PairFollows ==
    up => ctl = [key |-> IF ren.step \in {"savecrt", "switch"} THEN ren.next ELSE own,
                 crt |-> IF ren.step = "switch" THEN ren.next ELSE own]

(* With serial s current and p previous (0 for none) a worker that missed  *)
(* nothing allows s, one that missed one step s or p.                      *)
Reach(s, p) ==
    \A w \in Workers : /\ missed[w] = 0 => s \in allow[w]
                       /\ missed[w] < 2 => s \in allow[w] \/ p \in allow[w]

(* The memory reaches the workers, and so does what a boot would load.     *)
InReach ==
    /\ up => Reach(own, prev)
    /\ Whole(ctl) => Reach(ctl.crt, LoadPrev(ctl.crt))

AllInReach ==
    /\ AllowedIsTrusted /\ Announced /\ OwnRoot
    /\ Renewing /\ PairFollows /\ InReach

(* It lasts until a boot replaces the controller's cert, a finish takes    *)
(* its root or a rename tears its pair.                                    *)
ReachInv == cut = {} => AllInReach

(* The allow lists that do not have serial t fall behind: who had missed   *)
(* nothing of serial s missed one step now.                                *)
LEMMA BehindReach ==
    ASSUME TypeOK, NEW s, NEW p, Reach(s, p), NEW t, NEW n \in {1, 2}, missed' = Behind(t, n)
    PROVE  \A w \in Workers :
             /\ missed'[w] = 0 => t \in allow[w]
             /\ missed'[w] < 2 => t \in allow[w] \/ (n = 1 /\ s \in allow[w])
<1> SUFFICES ASSUME NEW w \in Workers, t \notin allow[w]
             PROVE  missed'[w] # 0 /\ (missed'[w] < 2 => n = 1 /\ s \in allow[w])
  OBVIOUS
<1>1. missed[w] \in 0..2
  BY DEF TypeOK
<1>2. missed'[w] = IF missed[w] + n > 2 THEN 2 ELSE missed[w] + n
  BY DEF Behind
<1>3. missed[w] = 0 => s \in allow[w]
  BY DEF Reach
<1> QED
  BY <1>1, <1>2, <1>3

(* No worker allows a serial that was not issued, and 0 is no serial.      *)
LEMMA AllowedIsIssued ==
    ASSUME TypeOK, AllowedIsTrusted, NEW w \in Workers, NEW s \in allow[w]
    PROVE  s \in Serials /\ issuer[s] # 0
  BY DEF TypeOK, AllowedIsTrusted, Roots

(* A worker without the current serial may still be reached by the         *)
(* previous one only when there is one.                                    *)
LEMMA NoPrevNoReach ==
    ASSUME TypeOK, NEW w \in Workers PROVE 0 \notin allow[w]
  BY DEF TypeOK, Serials

(* What loadPrev finds is nothing but a whole pair of another serial.      *)
LEMMA LoadsOther ==
    ASSUME NEW s, s # 0
    PROVE  /\ pctl = Both(s) => LoadPrev(s) = 0
           /\ pctl = NoPair => LoadPrev(s) = 0
           /\ pctl.key = s => LoadPrev(s) = 0
           /\ \A t : t # 0 /\ t # s /\ pctl = Both(t) => LoadPrev(s) = t
  BY DEF LoadPrev, Whole, Both, NoPair

(* What a step leaves alone when it touches no certificate, no list and no *)
(* previous root.                                                          *)
LEMMA CalmReach ==
    ASSUME AllInReach,
           UNCHANGED <<allow, trust, issuer, list, own, prev, up, sign, roots, caPrev, caCrt, ren,
                       pctl, ctl, missed>>,
           ren.step # "idle" => roll'.step \notin Locked,
           roll'.step = "swap" => Steady
    PROVE  AllInReach'
<1>1. AllowedIsTrusted'
  BY DEF AllInReach, AllowedIsTrusted
<1>2. Announced'
  BY DEF AllInReach, Announced, Steady
<1>3. OwnRoot'
  BY DEF AllInReach, OwnRoot, Steady
<1>4. Renewing'
  BY DEF AllInReach, Renewing
<1>5. PairFollows'
  BY DEF AllInReach, PairFollows
<1>6. InReach'
  BY DEF AllInReach, InReach, Reach, Whole, LoadPrev
<1> QED
  BY <1>1, <1>2, <1>3, <1>4, <1>5, <1>6 DEF AllInReach

(* A worker that takes the spec is told of the serials and of their roots. *)
LEMMA SpecReach ==
    ASSUME RootInv, AllInReach, up, NEW w \in Workers, TakesSpec(w)
    PROVE  AllInReach'
<1> USE DEF TakesSpec, diskVars, rowVars, memVars
<1>1. /\ \A v \in Workers \ {w} : trust'[v] = trust[v] /\ allow'[v] = allow[v] /\ missed'[v] = missed[v]
      /\ trust'[w] = roots /\ allow'[w] = list /\ missed'[w] = 0
  BY DEF RootInv, TypeOK
<1>2. AllowedIsTrusted'
  BY <1>1 DEF AllInReach, AllowedIsTrusted, Announced
<1>3. Announced' /\ OwnRoot' /\ PairFollows'
  BY DEF AllInReach, Announced, OwnRoot, PairFollows, Steady
<1>4. Renewing'
  BY <1>1 DEF AllInReach, Renewing
<1>5. Reach(own, prev)'
  BY <1>1 DEF AllInReach, InReach, Reach, Announced
<1>6. ASSUME Whole(ctl) PROVE Reach(ctl.crt, LoadPrev(ctl.crt))'
  <2>1. ctl.crt \in list
    BY DEF AllInReach, PairFollows, Renewing, Announced
  <2>2. Reach(ctl.crt, LoadPrev(ctl.crt))
    BY <1>6 DEF AllInReach, InReach
  <2> QED
    BY <1>1, <2>1, <2>2 DEF Reach, LoadPrev, Whole
<1> QED
  BY <1>2, <1>3, <1>4, <1>5, <1>6 DEF AllInReach, InReach, Whole

(* A step that moves the roots while nothing is renewed keeps the workers  *)
(* in reach when the announced serials and the controller's cert stay      *)
(* within the roots.                                                       *)
LEMMA RootsReach ==
    ASSUME AllInReach, ren.step = "idle", Announced', OwnRoot',
           UNCHANGED <<allow, trust, issuer, list, own, prev, up, ren, pctl, ctl, missed>>
    PROVE  AllInReach'
<1>1. AllowedIsTrusted' /\ PairFollows' /\ Renewing'
  BY DEF AllInReach, AllowedIsTrusted, PairFollows, Renewing
<1>2. InReach'
  BY DEF AllInReach, InReach, Reach, Whole, LoadPrev
<1> QED
  BY <1>1, <1>2 DEF AllInReach

(* The controller holds no cert of a root it has dropped: no rollover is   *)
(* on disk, so its cert is from the root that signs.                       *)
LEMMA SteadyAlone ==
    ASSUME AllInReach, up, caPrev \in {0, caCrt} PROVE Steady
  BY DEF AllInReach, OwnRoot

(* reconcileRollover drops a previous cert only together with the workers  *)
(* that know no other.                                                     *)
LEMMA BeginReach ==
    ASSUME RootInv, AllInReach, Begin, roll'.step \notin Locked
    PROVE  AllInReach'
<1> USE DEF Begin, workerVars
<1>1. ren.step = "idle" /\ roll.step = "idle" /\ sign.crt = caCrt /\ sign' = sign /\ up /\ up'
  BY DEF RollMuFree, RootInv, MemoryFollows
<1>2. Steady' <=> Steady
  BY DEF Steady
<1>3. AllowedIsTrusted' /\ PairFollows' /\ Renewing'
  BY <1>1 DEF AllInReach, AllowedIsTrusted, PairFollows, Renewing
<1>4. ASSUME Announced', OwnRoot' PROVE AllInReach'
  <2>1. CASE UNCHANGED <<pctl, prev, missed>>
    BY <1>3, <1>4, <2>1 DEF AllInReach, InReach, Reach, Whole, LoadPrev
  <2>2. CASE missed' = Behind(own, 1)
    <3>1. Reach(own, prev) /\ ctl.crt = own
      BY <1>1 DEF AllInReach, InReach, PairFollows
    <3>2. \A w \in Workers : missed'[w] < 2 => own \in allow[w]
      BY <2>2, <3>1, BehindReach DEF RootInv
    <3>3. \A w \in Workers : missed'[w] = 0 => missed'[w] < 2
      OBVIOUS
    <3>4. InReach'
      BY <3>1, <3>2, <3>3 DEF InReach, Reach
    <3> QED
      BY <1>3, <1>4, <3>4 DEF AllInReach
  <2> QED
    BY <2>1, <2>2 DEF Reconcile
<1>5. CASE NothingRotated /\ roots' = {sign.crt}
  <2>1. Steady
    BY <1>1, <1>5, SteadyAlone DEF NothingRotated
  <2>2. Announced' /\ OwnRoot'
    BY <1>2, <1>5, <2>1 DEF AllInReach, Announced, OwnRoot
  <2> QED
    BY <1>4, <2>2
<1>6. CASE caPrev # 0 /\ ~NothingRotated /\ roots' = {sign.crt, caPrev} /\ caPrev' = caPrev
  <2>1. roots' = roots
    BY <1>1, <1>6 DEF NothingRotated, RootInv, MemoryFollows
  <2>2. Announced' /\ OwnRoot'
    BY <1>1, <1>2, <1>6, <2>1 DEF AllInReach, Announced, OwnRoot, Locked
  <2> QED
    BY <1>4, <2>2
<1>7. CASE caPrev = 0 /\ roots' = {sign.crt}
  <2>1. Steady
    BY <1>1, <1>7, SteadyAlone
  <2>2. Announced' /\ OwnRoot'
    BY <1>2, <1>7, <2>1 DEF AllInReach, Announced, OwnRoot
  <2> QED
    BY <1>4, <2>2
<1>8. CASE UNCHANGED <<caPrev, roots>>
  <2>1. Announced' /\ OwnRoot'
    BY <1>1, <1>2, <1>8 DEF AllInReach, Announced, OwnRoot, Locked
  <2> QED
    BY <1>4, <2>1
<1> QED
  BY <1>5, <1>6, <1>7, <1>8 DEF Reconcile

(* The announce of the current serial alone.                               *)
LEMMA ReannounceReach ==
    ASSUME RootInv, AllInReach, up, RollMuFree, Reannounce, roll'.step \notin Locked,
           UNCHANGED <<RenUnchanged, own, workerVars>>
    PROVE  AllInReach'
<1> USE DEF Reannounce, RenUnchanged, workerVars
<1>1. Steady' /\ sign.crt \in roots
  BY DEF Steady, RootInv, MemoryFollows
<1>2. Announced' /\ OwnRoot'
  BY <1>1 DEF Announced, OwnRoot, Steady
<1>3. AllowedIsTrusted' /\ PairFollows' /\ Renewing'
  BY DEF AllInReach, AllowedIsTrusted, PairFollows, Renewing, RollMuFree
<1>4. InReach'
  BY DEF AllInReach, InReach, Reach, Whole, LoadPrev
<1> QED
  BY <1>2, <1>3, <1>4 DEF AllInReach

(* A new serial is announced beside the current one before anything is     *)
(* replaced; a revoke gives up who knows the previous one only.            *)
LEMMA ReissueReach ==
    ASSUME RootInv, AllInReach, up, RollMuFree, NEW revoke \in BOOLEAN, Reissue(revoke),
           roll'.step \notin Locked, UNCHANGED <<RenUnchanged, own, workerVars>>
    PROVE  AllInReach'
<1> USE DEF RenUnchanged, workerVars
<1>1. ren.step = "idle" /\ ctl' = ctl /\ ctl = Both(own)
  BY DEF RollMuFree, Reissue, AllInReach, PairFollows, Both
<1>2. InReach'
  <2>1. Reach(own, prev) /\ ctl.crt = own
    BY <1>1 DEF AllInReach, InReach, Both
  <2>2. CASE ~revoke
    BY <1>1, <2>2 DEF Reissue, AllInReach, InReach, Reach, Whole, LoadPrev
  <2>3. CASE revoke
    <3>1. \A w \in Workers : missed'[w] < 2 => own \in allow[w]
      <4>1. CASE prev # 0
        <5>1. missed' = Behind(own, 2)
          BY <2>3, <4>1 DEF Reissue
        <5> QED
          BY <2>1, <5>1, BehindReach DEF RootInv
      <4>2. CASE prev = 0
        BY <2>1, <2>3, <4>2, NoPrevNoReach DEF RootInv, Reissue, Reach
      <4> QED
        BY <4>1, <4>2
    <3>2. \A w \in Workers : missed'[w] = 0 => missed'[w] < 2
      OBVIOUS
    <3> QED
      BY <1>1, <2>1, <3>1, <3>2 DEF InReach, Reach
  <2> QED
    BY <2>2, <2>3
<1>3. CASE Whole(sign)
  <2> DEFINE n == NextSerial
  <2>1. n \in Serials /\ issuer[n] = 0
    BY <1>3, NextSerialType DEF RootInv, Reissue
  <2>2. /\ issuer' = [issuer EXCEPT ![n] = sign.crt]
        /\ list' = {own, n}
        /\ ren' = [step |-> IF revoke THEN "savekey" ELSE "keepkey", revoke |-> revoke, next |-> n]
        /\ revoke => pctl' = NoPair
    BY <1>3 DEF Reissue
  <2> HIDE DEF n
  <2>3. own # n /\ own \in Serials /\ sign.crt \in roots
    BY <2>1 DEF RootInv, TypeOK, MemoryFollows
  <2>4. issuer'[n] = sign.crt /\ \A s \in Serials \ {n} : issuer'[s] = issuer[s]
    BY <2>1, <2>2 DEF RootInv, TypeOK
  <2>5. \A w \in Workers : n \notin allow[w] /\ allow[w] \subseteq Serials
    BY <2>1, AllowedIsIssued DEF RootInv, TypeOK, AllInReach
  <2>6. AllowedIsTrusted'
    BY <2>4, <2>5 DEF AllInReach, AllowedIsTrusted
  <2>7. Announced'
    BY <2>2, <2>3, <2>4 DEF AllInReach, Announced, Steady
  <2>8. OwnRoot'
    BY <2>3, <2>4 DEF AllInReach, OwnRoot, Steady, Locked
  <2>9. Renewing'
    BY <2>2, <2>3, <2>4, <2>5 DEF Renewing
  <2>10. PairFollows'
    BY <1>1, <2>2 DEF PairFollows, Both
  <2> QED
    BY <1>2, <2>6, <2>7, <2>8, <2>9, <2>10 DEF AllInReach
<1>4. CASE ~Whole(sign)
  <2>1. UNCHANGED <<issuer, list, ren>>
    BY <1>4 DEF Reissue
  <2>2. AllowedIsTrusted' /\ Announced' /\ OwnRoot'
    BY <2>1 DEF AllInReach, AllowedIsTrusted, Announced, OwnRoot, Steady, Locked
  <2>3. Renewing' /\ PairFollows'
    BY <1>1, <2>1 DEF Renewing, PairFollows, Both
  <2> QED
    BY <1>2, <2>2, <2>3 DEF AllInReach
<1> QED
  BY <1>3, <1>4

(* The rollover's own steps move roots and the previous cert.              *)
LEMMA RolloverReach ==
    ASSUME RootInv, AllInReach, Rollover, cut' = {}
    PROVE  AllInReach'
<1> USE DEF diskVars, rowVars, memVars, workerVars, histVars
<1>1. roll.step # "idle" => up
  BY DEF RootInv, Underway, IdleRoll
<1>2. roll.step \in Locked => ren.step = "idle"
  BY DEF AllInReach, Renewing
<1>3. CASE RotateFails
  BY <1>3, CalmReach DEF RotateFails, RollEnds, IdleRoll, Locked
<1>4. CASE WriteCross
  <2>1. roll'.step \in {"prevcrt", "idle"}
    BY <1>4 DEF WriteCross, RollEnds, IdleRoll
  <2> QED
    BY <1>4, <2>1, CalmReach DEF WriteCross, RollMuFree
<1>5. CASE RotatePrev
  <2>1. Steady /\ ren.step = "idle"
    BY <1>1, <1>2, <1>5, SteadyAlone DEF RotatePrev, RootInv, RotationAt, Locked
  <2>2. Announced' /\ OwnRoot'
    BY <1>5, <2>1 DEF RotatePrev, AllInReach, Announced, OwnRoot, Steady
  <2> QED
    BY <1>5, <2>1, <2>2, RootsReach DEF RotatePrev
<1>6. CASE RotateKey
  <2>1. roll'.step = "crt"
    BY <1>6 DEF RotateKey, Goto, RootInv, TypeOK
  <2> QED
    BY <1>2, <1>6, <2>1, CalmReach DEF RotateKey, Locked
<1>7. CASE RotateCrt
  <2>1. Steady /\ ren.step = "idle"
    BY <1>1, <1>2, <1>7, SteadyAlone DEF RotateCrt, RootInv, RotationAt, Locked
  <2>2. Announced' /\ OwnRoot'
    BY <1>7, <2>1 DEF RotateCrt, AllInReach, Announced, OwnRoot, Steady
  <2> QED
    BY <1>7, <2>1, <2>2, RootsReach DEF RotateCrt
<1>8. CASE SwapCA
  <2>1. up /\ ren.step = "idle" /\ Steady
    BY <1>1, <1>2, <1>8 DEF SwapCA, AllInReach, OwnRoot, Locked
  <2>2. caPrev = sign.crt /\ caCrt = roll.next /\ roll.next = sign.crt + 1 /\ sign.crt \in Nat \ {0}
    BY <1>8 DEF SwapCA, RootInv, TypeOK, RotationAt, NextRoot, Roots
  <2>3. sign'.crt = roll.next /\ roots' = {roll.next, sign.crt} /\ roll'.step # "swap"
    BY <1>8 DEF SwapCA, Both, RollEnds, IdleRoll
  <2>4. \A s \in list : issuer[s] = sign.crt
    BY <2>1 DEF AllInReach, Announced
  <2>5. issuer[own] = sign.crt /\ own \in list
    BY <2>1 DEF Steady, AllInReach, Announced
  <2>6. roll.next # sign.crt /\ sign.crt # 0
    BY <2>2
  <2>7. ~Steady'
    BY <1>8, <2>3, <2>5, <2>6 DEF SwapCA, Steady
  <2>8. Announced'
    BY <1>8, <2>3, <2>4, <2>5, <2>7 DEF SwapCA, Announced
  <2>9. OwnRoot'
    BY <1>8, <2>2, <2>3, <2>5, <2>6 DEF SwapCA, OwnRoot
  <2> QED
    BY <1>8, <2>1, <2>8, <2>9, RootsReach DEF SwapCA
<1>9. CASE AdvancePush
  <2>1. roll'.step = "renew"
    BY <1>9 DEF AdvancePush, Goto, RootInv, TypeOK
  <2> QED
    BY <1>9, <2>1, CalmReach DEF AdvancePush, Locked
<1>10. CASE AdvanceRenew
  <2>1. roll'.step \in {"check", "wait", "idle"}
    BY <1>10 DEF AdvanceRenew, Goto, RootInv, TypeOK
  <2>2. up /\ RollMuFree /\ UNCHANGED <<RenUnchanged, own, workerVars>>
    BY <1>1, <1>10 DEF AdvanceRenew
  <2> QED
    BY <1>10, <2>1, <2>2, ReannounceReach, ReissueReach DEF AdvanceRenew, Locked
<1>11. CASE AdvanceCheck
  <2>1. roll'.step \in {"dropprev", "idle"}
    BY <1>11 DEF AdvanceCheck, Goto, RootInv, TypeOK
  <2> QED
    BY <1>11, <2>1, CalmReach DEF AdvanceCheck, Locked
<1>12. CASE MarkStraggler
  <2>1. roll'.step \in {"dropprev", "mark"}
    BY <1>12 DEF MarkStraggler, Goto, RootInv, TypeOK
  <2> QED
    BY <1>12, <2>1, CalmReach DEF MarkStraggler, Locked
<1>13. CASE DropPrevCA
  <2>1. Steady /\ ren.step = "idle"
    BY <1>13 DEF DropPrevCA, Steady, RollMuFree
  <2>2. Announced' /\ OwnRoot'
    BY <1>13, <2>1 DEF DropPrevCA, AllInReach, Announced, OwnRoot, Steady
  <2> QED
    BY <1>13, <2>1, <2>2, RootsReach DEF DropPrevCA
<1>14. CASE ForgetPrev
  <2>1. up /\ ren.step = "idle" /\ roll'.step = "record"
    BY <1>1, <1>2, <1>14 DEF ForgetPrev, Goto, Locked, RootInv, TypeOK
  <2>2. Reach(own, prev) /\ ctl.crt = own
    BY <2>1 DEF AllInReach, InReach, PairFollows
  <2>3. \A w \in Workers : missed'[w] < 2 => own \in allow[w]
    BY <1>14, <2>2, BehindReach DEF RootInv, ForgetPrev
  <2>4. \A w \in Workers : missed'[w] = 0 => missed'[w] < 2
    OBVIOUS
  <2>5. InReach'
    BY <1>14, <2>2, <2>3, <2>4 DEF ForgetPrev, InReach, Reach
  <2>6. AllowedIsTrusted' /\ Announced' /\ OwnRoot'
    BY <1>14, <2>1 DEF ForgetPrev, AllInReach, AllowedIsTrusted, Announced, OwnRoot, Steady
  <2>7. Renewing' /\ PairFollows'
    BY <1>14, <2>1 DEF ForgetPrev, AllInReach, Renewing, PairFollows
  <2> QED
    BY <2>5, <2>6, <2>7 DEF AllInReach
<1>15. CASE RecordFinish
  <2>1. Steady /\ ren.step = "idle"
    BY <1>1, <1>2, <1>15, SteadyAlone DEF RecordFinish, RootInv, RotationAt, Locked
  <2>2. Announced' /\ OwnRoot'
    BY <1>15, <2>1 DEF RecordFinish, AllInReach, Announced, OwnRoot, Steady
  <2> QED
    BY <1>15, <2>1, <2>2, RootsReach DEF RecordFinish
<1> QED
  BY <1>3, <1>4, <1>5, <1>6, <1>7, <1>8, <1>9, <1>10, <1>11, <1>12, <1>13, <1>14, <1>15
     DEF Rollover

(* A renewal writes the pair it keeps before the one it switches to, and a *)
(* death between any two renames leaves a boot that reaches the same       *)
(* workers or has to replace the cert.                                     *)
LEMMA RenewalReach ==
    ASSUME RootInv, AllInReach, Renewal, cut' = {}
    PROVE  AllInReach'
<1> USE DEF workerVars, histVars, RenUnchanged
<1>1. ren.step # "idle" /\ up
  BY DEF Renewal, KeepPrev, SaveController, RenewalFails, SwitchController, RootInv, Underway,
     IdleRen
<1>2. /\ roll.step \notin Locked /\ ren.next # own /\ list = {own, ren.next}
      /\ issuer[ren.next] = sign.crt /\ own # 0 /\ ren.next # 0
  BY <1>1 DEF AllInReach, Renewing, RootInv, TypeOK, Underway, Serials
<1>3. Reach(own, prev)
  BY <1>1 DEF AllInReach, InReach
<1>4. \A w \in Workers : missed'[w] = 0 => missed'[w] < 2
  OBVIOUS
<1>5. ren \in [step : RenSteps, revoke : BOOLEAN, next : Serials \cup {0}]
      /\ pctl \in Pair(Serials) /\ ctl \in Pair(Serials)
  BY DEF RootInv, TypeOK
<1>6. ASSUME UNCHANGED <<allow, trust, issuer, list, own, up, sign, roots, caPrev, caCrt, roll>>
      PROVE  AllowedIsTrusted' /\ Announced' /\ OwnRoot'
  BY <1>6 DEF AllInReach, AllowedIsTrusted, Announced, OwnRoot, Steady
<1>7. CASE KeepPrev /\ ren.step = "keepkey"
  <2>1. /\ pctl'.key = own /\ ren'.step = "keepcrt" /\ ren'.next = ren.next
        /\ ren'.revoke = ren.revoke /\ missed' = Behind(own, 1) /\ ctl.crt = own /\ ctl' = ctl
    BY <1>1, <1>5, <1>7 DEF KeepPrev, AllInReach, PairFollows, Pair
  <2>2. \A w \in Workers : missed'[w] < 2 => own \in allow[w]
    BY <1>3, <2>1, BehindReach DEF RootInv
  <2>3. InReach'
    BY <1>4, <1>7, <2>1, <2>2 DEF KeepPrev, InReach, Reach
  <2>4. Renewing' /\ PairFollows'
    BY <1>7, <2>1 DEF KeepPrev, AllInReach, Renewing, PairFollows
  <2> QED
    BY <1>6, <1>7, <2>3, <2>4 DEF KeepPrev, AllInReach
<1>8. CASE KeepPrev /\ ren.step = "keepcrt"
  <2>1. pctl.key = own /\ ctl.crt = own /\ ~ren.revoke
    BY <1>1, <1>8 DEF AllInReach, Renewing, PairFollows
  <2>2. /\ pctl' = Both(own) /\ ren'.step = "savekey" /\ ren'.next = ren.next
        /\ ~ren'.revoke /\ missed' = missed /\ ctl' = ctl
    BY <1>5, <1>8, <2>1 DEF KeepPrev, Both, Pair
  <2>3. LoadPrev(own) = 0
    BY <1>2, <2>1, LoadsOther
  <2>4. \A w \in Workers : missed[w] < 2 => own \in allow[w]
    BY <1>1, <1>2, <1>8, <2>1, <2>3, NoPrevNoReach
       DEF RootInv, AllInReach, InReach, Reach, Whole, PairFollows
  <2>5. InReach'
    BY <1>4, <1>8, <2>1, <2>2, <2>4 DEF KeepPrev, InReach, Reach
  <2>6. Renewing' /\ PairFollows'
    BY <1>8, <2>2 DEF KeepPrev, AllInReach, Renewing, PairFollows
  <2> QED
    BY <1>6, <1>8, <2>5, <2>6 DEF KeepPrev, AllInReach
<1>9. CASE SaveController /\ ren.step = "savekey"
  <2>1. /\ ctl'.key = ren.next /\ ctl'.crt = own /\ ctl' = [key |-> ren.next, crt |-> own]
        /\ ren'.step = "savecrt" /\ ren'.next = ren.next /\ ren'.revoke = ren.revoke
        /\ UNCHANGED <<missed, pctl, own, prev, allow, up>>
    BY <1>1, <1>5, <1>9 DEF SaveController, AllInReach, PairFollows, Pair
  <2>2. InReach'
    BY <1>2, <1>3, <2>1 DEF InReach, Reach, Whole
  <2>3. Renewing' /\ PairFollows'
    BY <1>9, <2>1 DEF SaveController, AllInReach, Renewing, PairFollows
  <2> QED
    BY <1>6, <1>9, <2>2, <2>3 DEF SaveController, AllInReach
<1>10. CASE SaveController /\ ren.step = "savecrt"
  <2>1. /\ ctl' = Both(ren.next) /\ ctl'.crt = ren.next
        /\ ren'.step = "switch" /\ ren'.next = ren.next /\ ren'.revoke = ren.revoke
        /\ UNCHANGED <<pctl, own, prev, allow, up>>
        /\ missed' = Behind(ren.next, IF ren.revoke THEN 2 ELSE 1)
    BY <1>1, <1>5, <1>10 DEF SaveController, AllInReach, PairFollows, Pair, Both
  <2>2. pctl = IF ren.revoke THEN NoPair ELSE Both(own)
    BY <1>10 DEF AllInReach, Renewing
  <2>3. ~ren.revoke => LoadPrev(ren.next)' = own
    BY <1>2, <2>1, <2>2 DEF LoadPrev, Whole, Both
  <2>4. \A w \in Workers :
          /\ missed'[w] = 0 => ren.next \in allow[w]
          /\ missed'[w] < 2 => ren.next \in allow[w] \/ (~ren.revoke /\ own \in allow[w])
    <3>1. CASE ren.revoke
      BY <1>3, <2>1, <3>1, BehindReach DEF RootInv
    <3>2. CASE ~ren.revoke
      BY <1>3, <2>1, <3>2, BehindReach DEF RootInv
    <3> QED
      BY <3>1, <3>2
  <2>5. \A w \in Workers : ren.next \in allow[w] => own \in allow[w]
    BY <1>1 DEF AllInReach, Renewing
  <2>6. Reach(own, prev)'
    BY <1>4, <2>1, <2>4, <2>5 DEF Reach
  <2>7. Reach(ctl.crt, LoadPrev(ctl.crt))'
    BY <2>1, <2>3, <2>4 DEF Reach, LoadPrev
  <2>8. Renewing' /\ PairFollows'
    BY <1>10, <2>1 DEF SaveController, AllInReach, Renewing, PairFollows, Both
  <2> QED
    BY <1>6, <1>10, <2>6, <2>7, <2>8 DEF SaveController, AllInReach, InReach
<1>11. CASE RenewalFails
  <2>1. ren.step # "savecrt"
    BY <1>11 DEF RenewalFails
  <2>2. ren'.step = "idle" /\ ctl = Both(own) /\ roll'.step \notin Locked
    BY <1>1, <1>2, <1>11, <2>1 DEF RenewalFails, RenEnds, IdleRen, IdleRoll, Locked, AllInReach,
       PairFollows, Both
  <2>3. AllowedIsTrusted' /\ Announced' /\ OwnRoot'
    BY <1>11, <2>2 DEF RenewalFails, AllInReach, AllowedIsTrusted, Announced, OwnRoot,
       Steady, Locked
  <2>4. Renewing' /\ PairFollows'
    BY <1>11, <2>2 DEF RenewalFails, Renewing, PairFollows, Both
  <2>5. InReach'
    BY <1>11 DEF RenewalFails, AllInReach, InReach, Reach, Whole, LoadPrev
  <2> QED
    BY <2>3, <2>4, <2>5 DEF AllInReach
<1>12. CASE SwitchController
  <2>1. /\ own' = ren.next /\ list' = {ren.next} /\ ren'.step = "idle"
        /\ prev' = (IF ren.revoke THEN 0 ELSE own) /\ roll'.step \notin Locked
        /\ UNCHANGED <<ctl, pctl, missed, allow, trust, issuer, up, sign, roots>>
    BY <1>2, <1>12 DEF SwitchController, RenEnds, IdleRen, IdleRoll, Locked
  <2>2. ctl = Both(ren.next) /\ pctl = IF ren.revoke THEN NoPair ELSE Both(own)
    BY <1>1, <1>12 DEF SwitchController, AllInReach, PairFollows, Renewing, Both
  <2>3. ctl.crt = ren.next /\ Whole(ctl) /\ LoadPrev(ren.next) = IF ren.revoke THEN 0 ELSE own
    BY <1>2, <2>2, LoadsOther DEF Both, Whole
  <2>4. Steady' /\ sign.crt \in roots
    BY <1>1, <1>2, <2>1 DEF Steady, RootInv, MemoryFollows
  <2>5. Announced' /\ OwnRoot'
    BY <2>1, <2>4 DEF Announced, OwnRoot, Steady
  <2>6. AllowedIsTrusted' /\ Renewing' /\ PairFollows'
    BY <2>1, <2>2 DEF AllInReach, AllowedIsTrusted, Renewing, PairFollows, Both
  <2>7. Reach(ren.next, LoadPrev(ren.next))
    BY <2>3 DEF AllInReach, InReach
  <2>8. InReach'
    BY <2>1, <2>3, <2>7 DEF InReach, Reach, LoadPrev, Whole
  <2> QED
    BY <2>5, <2>6, <2>8 DEF AllInReach
<1> QED
  BY <1>7, <1>8, <1>9, <1>10, <1>11, <1>12 DEF Renewal, KeepPrev, SaveController

(* A boot that keeps the controller's cert reaches whom its files reached. *)
LEMMA BootReach ==
    ASSUME RootInv, AllInReach, BootCluster, cut' = {}
    PROVE  AllInReach'
<1> USE DEF BootAs, workerVars
<1>1. KeepsController /\ BootAs(ctl.crt) /\ UNCHANGED <<ctl, issuer>> /\ ~up
  BY DEF BootCluster
<1>2. Whole(ctl) /\ issuer[ctl.crt] = caCrt /\ caCrt # 0
  BY <1>1 DEF KeepsController, RootInv, TypeOK, Roots
<1>3. ctl = Both(ctl.crt)
  BY <1>2 DEF Whole, Both, RootInv, TypeOK, Pair
<1>4. ren.step = "idle" /\ ren' = ren
  BY <1>1 DEF RootInv, Underway, IdleRen
<1>5. Announced' /\ OwnRoot'
  BY <1>1, <1>2 DEF Announced, OwnRoot, Steady
<1>6. AllowedIsTrusted' /\ Renewing'
  BY <1>1, <1>4 DEF AllInReach, AllowedIsTrusted, Renewing
<1>7. PairFollows'
  BY <1>1, <1>3, <1>4 DEF PairFollows, Both
<1>8. InReach'
  BY <1>1, <1>2 DEF AllInReach, InReach, Reach, Whole, LoadPrev
<1> QED
  BY <1>5, <1>6, <1>7, <1>8 DEF AllInReach

(* The death of the panel leaves its files.                                *)
LEMMA DeathReach ==
    ASSUME RootInv, AllInReach, PanelDies
    PROVE  AllInReach'
<1> USE DEF PanelDies, diskVars, rowVars, workerVars, histVars
<1>1. AllowedIsTrusted' /\ Announced' /\ OwnRoot' /\ PairFollows' /\ Renewing'
  BY DEF AllInReach, AllowedIsTrusted, Announced, OwnRoot, PairFollows, Renewing, IdleRen
<1>2. InReach'
  BY DEF AllInReach, InReach, Reach, Whole, LoadPrev
<1> QED
  BY <1>1, <1>2 DEF AllInReach

(* A controller's cert that was cut off stays so in the books.             *)
LEMMA CutStays ==
    ASSUME [Next]_vars PROVE cut \subseteq cut'
  BY DEF Next, vars, RotateRoot, RootRolloverTick, FinishRollover, Begin,
     AnnounceControllerCert, Rollover, RotateFails, WriteCross, RotatePrev, RotateKey,
     RotateCrt, SwapCA, AdvancePush, AdvanceRenew, AdvanceCheck, MarkStraggler, DropPrevCA,
     ForgetPrev, RecordFinish, Renewal, KeepPrev, SaveController, RenewalFails,
     SwitchController, RefreshClients, PanelDies, BootCluster, PushMesh, RecoverNode,
     TakesSpec, RenewAnswered, RenewLost, RenewNodeCert, Settle, GoesAway, ComesBack, histVars

(* Every step keeps the workers in reach until the cert is cut off.        *)
LEMMA ReachStep == RootInv /\ ReachInv /\ [Next]_vars => ReachInv'
<1> SUFFICES ASSUME RootInv, AllInReach, [Next]_vars, cut' = {}
             PROVE  AllInReach'
  BY CutStays DEF ReachInv, RootInv
<1> USE DEF diskVars, rowVars, memVars, workerVars, histVars
<1>1. CASE RotateRoot \/ RootRolloverTick \/ FinishRollover
  <2>1. Begin /\ roll'.step \in {"idle", "cross", "push", "mark"}
    BY <1>1 DEF RotateRoot, RootRolloverTick, FinishRollover, Answered, RollEnds, IdleRoll
  <2> QED
    BY <2>1, BeginReach DEF Locked
<1>2. CASE AnnounceControllerCert
  <2>1. up /\ RollMuFree /\ roll'.step \notin Locked /\ UNCHANGED <<RenUnchanged, own, workerVars>>
    BY <1>2 DEF AnnounceControllerCert, RollMuFree
  <2> QED
    BY <1>2, <2>1, ReannounceReach, ReissueReach DEF AnnounceControllerCert
<1>3. CASE Rollover
  BY <1>3, RolloverReach
<1>4. CASE Renewal
  BY <1>4, RenewalReach
<1>5. CASE BootCluster
  BY <1>5, BootReach
<1>6. CASE PanelDies
  BY <1>6, DeathReach
<1>7. ASSUME NEW w \in Workers, PushMesh(w) \/ RecoverNode(w)
      PROVE  AllInReach'
  BY <1>7, SpecReach DEF PushMesh, RecoverNode
<1>8. CASE \/ RefreshClients \/ UNCHANGED vars
           \/ \E w \in Workers : \/ RenewAnswered(w) \/ RenewLost(w) \/ Settle(w)
                                 \/ GoesAway(w) \/ ComesBack(w)
  <2>1. UNCHANGED <<allow, trust, issuer, list, own, prev, up, sign, roots, caPrev, caCrt, ren,
                    pctl, ctl, missed, roll>>
    BY <1>8 DEF RefreshClients, vars, RenewAnswered, RenewLost, RenewNodeCert, Settle,
       GoesAway, ComesBack
  <2>2. ren.step # "idle" => roll'.step \notin Locked
    BY <2>1 DEF AllInReach, Renewing
  <2>3. roll'.step = "swap" => Steady
    BY <2>1 DEF AllInReach, OwnRoot, RootInv, Underway, IdleRoll
  <2> QED
    BY <2>1, <2>2, <2>3, CalmReach
<1> QED
  BY <1>1, <1>2, <1>3, <1>4, <1>5, <1>6, <1>7, <1>8 DEF Next

(* RecoverAnswer: a worker that missed at most one step of the             *)
(* controller's certs can take the panel's recovery answer, through        *)
(* renewals, revokes, rollovers and deaths between any two renames, until  *)
(* the controller's cert is replaced by a boot, torn by a failing rename   *)
(* or outlived by its root.                                                *)
THEOREM CAKeptInReach == Spec => []KeptInReach
<1>1. Init => ReachInv
  <2> SUFFICES ASSUME Init PROVE AllInReach
    BY DEF ReachInv
  <2>1. 1 \in Serials /\ issuer[1] = 1
    BY CAAssumption DEF Init, Serials, MaxSerial
  <2>2. AllowedIsTrusted /\ Announced /\ OwnRoot
    BY <2>1 DEF Init, AllowedIsTrusted, Announced, OwnRoot, Steady, Both
  <2>3. Renewing /\ PairFollows
    BY DEF Init, Renewing, PairFollows, IdleRen, Both
  <2>4. InReach
    BY DEF Init, InReach, Reach, Both
  <2> QED
    BY <2>2, <2>3, <2>4 DEF AllInReach
<1>2. CAInv /\ CAInv' /\ ReachInv /\ [Next]_vars => ReachInv'
  BY ReachStep DEF CAInv
<1>3. CAInv /\ ReachInv => KeptInReach
  <2> SUFFICES ASSUME CAInv, ReachInv, up, cut = {}, NEW w \in Workers, missed[w] < 2
               PROVE  Answers(w)
    BY DEF KeptInReach, EachAnswered
  <2>1. AllInReach /\ TypeOK
    BY DEF ReachInv, CAInv, RootInv
  <2>2. PICK s \in {own, prev} : s \in allow[w]
    BY <2>1 DEF AllInReach, InReach, Reach
  <2>3. s # 0 /\ issuer[s] \in trust[w]
    BY <2>1, <2>2, NoPrevNoReach DEF AllInReach, AllowedIsTrusted
  <2> QED
    BY <2>2, <2>3 DEF Answers, Vouched
<1> QED
  BY <1>1, <1>2, <1>3, CAInvariant, PTL DEF Spec

=============================================================================
