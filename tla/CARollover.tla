------------------------------ MODULE CARollover ------------------------------
(***************************************************************************)
(* The rollover of the cluster root: the controller makes a new root, signs*)
(* with it, trusts old and new, replaces its own certificate, waits until  *)
(* every worker asked for a certificate from the new root and drops the    *)
(* old one.  The panel may die between any two file moves.                 *)
(*                                                                         *)
(* Roots and controller serials are numbered in the order they are made.   *)
(* Two locks: rolloverMu is held while roll.step is not "idle"; rollMu by  *)
(* the renewal of the controller's certificate (ren) and by the steps of   *)
(* the rollover in Locked.  Certificates do not run out here: whether one  *)
(* is due is a choice.                                                     *)
(***************************************************************************)
EXTENDS Naturals, FiniteSets

CONSTANTS
    Workers,
    MaxRoots,      \* bound: roots ever made, the first included
    MaxRenewals,   \* bound: controller renewals for age, and revokes
    MaxCrashes,    \* bound: deaths of the panel
    MaxFaults,     \* bound: writes that fail
    MaxLost,       \* bound: renewal answers a worker never gets or keeps
    MaxAway        \* bound: times workers go offline

ASSUME CAAssumption ==
    /\ MaxRoots \in Nat \ {0} /\ MaxRenewals \in Nat /\ MaxCrashes \in Nat
    /\ MaxFaults \in Nat /\ MaxLost \in Nat /\ MaxAway \in Nat

VARIABLES
    \* the data directory
    caKey, caCrt,     \* the signing pair, by root
    caPrev,           \* the previous root's cert, 0 = none
    cross,            \* the new root signed by the old one
    ctl, pctl,        \* the controller's pair and its previous one, by serial
    \* the database
    row,              \* cluster_ca
    issuer,           \* node_certs of the controller: the root of a serial, 0 = not issued
    newest,           \* the root of a worker's newest live cert, 0 = all revoked
    settled,          \* workers whose newest cert is older than rolloverSettle
    rejoin,           \* workers marked needs-rejoin
    \* the panel's memory
    up,
    sign, roots,      \* the signing pair and the trust list
    own, prev, list,  \* the controller's certs, and the serials it announces
    dial,             \* the cert its worker clients were built with
    roll, ren,        \* where a rollover and a controller renewal are
    \* the workers
    hold,             \* the root of the cert a worker runs with
    trust,            \* its trust list; the root that signs, its first, is the newest
    allow,            \* its allow list
    away,             \* workers that are offline
    \* history
    missed,           \* steps of the controller's certs a worker was not told of
    cut,              \* what cut the workers off: "boot" issued the controller another
                      \* cert, an admin's "finish" dropped the root its cert is from,
                      \* a failed rename left its pair "torn" on disk
    stranded,         \* workers counted as moved without their newest cert, by the
                      \* settle time or by an admin's finish
    budget            \* what is left of each bound

diskVars == <<caKey, caCrt, caPrev, cross, ctl, pctl>>
rowVars == <<row, issuer, newest, settled, rejoin>>
memVars == <<up, sign, roots, own, prev, list, dial>>
workerVars == <<hold, trust, allow, away>>
histVars == <<missed, cut, stranded>>
vars == <<diskVars, rowVars, memVars, roll, ren, workerVars, histVars, budget>>

Roots == 1..MaxRoots
MaxSerial == MaxRoots + MaxRenewals + 2 * MaxCrashes + MaxFaults
Serials == 1..MaxSerial

NoCross == [by |-> 0, of |-> 0]
NoPair == [key |-> 0, crt |-> 0]
Both(s) == [key |-> s, crt |-> s]
Whole(p) == p.key = p.crt /\ p.crt # 0
IdleRoll == [step |-> "idle", next |-> 0]
IdleRen == [step |-> "idle", revoke |-> FALSE, next |-> 0]

Locked == {"prevcrt", "key", "crt", "swap", "forget", "record"}
RollMuFree == ren.step = "idle" /\ roll.step \notin Locked

Init ==
    /\ caKey = 1 /\ caCrt = 1 /\ caPrev = 0 /\ cross = NoCross
    /\ ctl = Both(1) /\ pctl = NoPair
    /\ row = [cur |-> 0, prev |-> 0]
    /\ issuer = [s \in Serials |-> IF s = 1 THEN 1 ELSE 0]
    /\ newest = [w \in Workers |-> 1] /\ settled = Workers /\ rejoin = {}
    /\ up = TRUE /\ sign = Both(1) /\ roots = {1}
    /\ own = 1 /\ prev = 0 /\ list = {1} /\ dial = 1
    /\ roll = IdleRoll /\ ren = IdleRen
    /\ hold = [w \in Workers |-> 1]
    /\ trust = [w \in Workers |-> {1}]
    /\ allow = [w \in Workers |-> {1}]
    /\ away = {}
    /\ missed = [w \in Workers |-> 0] /\ cut = {} /\ stranded = {}
    /\ budget = [renewals |-> MaxRenewals, crashes |-> MaxCrashes, faults |-> MaxFaults,
                 lost |-> MaxLost, away |-> MaxAway]

Spend(b) == budget[b] > 0 /\ budget' = [budget EXCEPT ![b] = @ - 1]

(* The allow lists that do not have serial s fall behind by n.             *)
Behind(s, n) ==
    [w \in Workers |-> IF s \in allow[w] THEN 0 ELSE IF missed[w] + n > 2 THEN 2 ELSE missed[w] + n]

Goto(s) == roll' = [roll EXCEPT !.step = s]
RollEnds == roll' = IdleRoll

(***************************************************************************)
(* reconcileRollover: the key files are the truth, the row follows them.   *)
(***************************************************************************)

(* Mutant: any previous root on disk is a rollover.                        *)
NothingRotatedNever == FALSE

(* A crash inside RotateCA: the previous root is the current one.          *)
NothingRotated == caPrev # 0 /\ caPrev = sign.crt

Reconcile ==
    \/ /\ NothingRotated
       /\ caPrev' = 0 /\ cross' = NoCross /\ roots' = {sign.crt}
       /\ UNCHANGED <<pctl, prev, row, missed, budget>>
    \/ /\ caPrev # 0 /\ ~NothingRotated /\ row.prev = 0
       /\ roots' = {sign.crt, caPrev}
       /\ \/ row' = [cur |-> sign.crt, prev |-> caPrev] /\ UNCHANGED budget
          \/ UNCHANGED row /\ Spend("faults")
       /\ UNCHANGED <<caPrev, cross, pctl, prev, missed>>
    \/ /\ caPrev = 0 /\ row.prev # 0
       /\ cross' = NoCross /\ pctl' = NoPair /\ prev' = 0 /\ roots' = {sign.crt}
       /\ \/ row' = [row EXCEPT !.prev = 0] /\ UNCHANGED budget
          \/ UNCHANGED row /\ Spend("faults")
       /\ missed' = Behind(own, 1)
       /\ UNCHANGED caPrev
    \/ /\ ~NothingRotated /\ (caPrev = 0 <=> row.prev = 0)
       /\ UNCHANGED <<caPrev, cross, pctl, prev, roots, row, missed, budget>>

(* The row reconcile answers with; a failing save ends the caller.         *)
Answered(step) == roll' = IF budget' = budget THEN [IdleRoll EXCEPT !.step = step] ELSE IdleRoll

Begin ==
    /\ up /\ roll.step = "idle" /\ RollMuFree
    /\ Reconcile
    /\ UNCHANGED <<caKey, caCrt, ctl, issuer, newest, settled, rejoin, up, sign, own, list,
                   dial, ren, workerVars, cut, stranded>>

Rolling(r) == r.prev # 0

(* NewCA; nothing is kept of a root whose rotation fails.                  *)
NextRoot == sign.crt + 1

(* RotateRoot by an admin, or the tick when the root has under a year.     *)
RotateRoot ==
    /\ NextRoot \in Roots
    /\ Begin
    /\ IF Rolling(row') THEN RollEnds ELSE Answered("cross")

RootRolloverTick ==
    /\ Begin
    /\ IF Rolling(row') THEN Answered("push") ELSE RollEnds

FinishRollover ==
    /\ Begin
    /\ IF Rolling(row') THEN Answered("mark") ELSE RollEnds

(***************************************************************************)
(* startRollover                                                           *)
(***************************************************************************)

(* A failure inside RotateCA drops the cross cert and returns.             *)
RotateFails ==
    /\ roll.step \in {"prevcrt", "key", "crt"}
    /\ Spend("faults")
    /\ cross' = NoCross /\ RollEnds
    /\ UNCHANGED <<caKey, caCrt, caPrev, ctl, pctl, rowVars, memVars, ren, workerVars, histVars>>

(* writeCross signs with the old key, which x509 refuses when the pair in  *)
(* memory is torn.                                                         *)
WriteCross ==
    /\ roll.step = "cross" /\ RollMuFree
    /\ IF Whole(sign)
       THEN /\ cross' = [by |-> sign.crt, of |-> NextRoot]
            /\ roll' = [step |-> "prevcrt", next |-> NextRoot]
       ELSE RollEnds /\ UNCHANGED cross
    /\ UNCHANGED <<caKey, caCrt, caPrev, ctl, pctl, rowVars, memVars, ren, workerVars, histVars, budget>>

(* RotateCA: the previous cert, then SaveCA renames the key, then the cert.*)
RotatePrev ==
    /\ roll.step = "prevcrt"
    /\ caPrev' = caCrt /\ Goto("key")
    /\ UNCHANGED <<caKey, caCrt, cross, ctl, pctl, rowVars, memVars, ren, workerVars, histVars, budget>>

RotateKey ==
    /\ roll.step = "key"
    /\ caKey' = roll.next /\ Goto("crt")
    /\ UNCHANGED <<caCrt, caPrev, cross, ctl, pctl, rowVars, memVars, ren, workerVars, histVars, budget>>

RotateCrt ==
    /\ roll.step = "crt"
    /\ caCrt' = roll.next /\ Goto("swap")
    /\ UNCHANGED <<caKey, caPrev, cross, ctl, pctl, rowVars, memVars, ren, workerVars, histVars, budget>>

(* swapCA and the row; a failing save leaves the mending to reconcile.     *)
SwapCA ==
    /\ roll.step = "swap"
    /\ sign' = Both(roll.next) /\ roots' = {roll.next, sign.crt}
    /\ \/ /\ row' = [cur |-> roll.next, prev |-> sign.crt]
          /\ roll' = [IdleRoll EXCEPT !.step = "push"] /\ UNCHANGED budget
       \/ UNCHANGED row /\ RollEnds /\ Spend("faults")
    /\ UNCHANGED <<diskVars, issuer, newest, settled, rejoin, up, own, prev, list, dial, ren,
                   workerVars, histVars>>

(***************************************************************************)
(* The controller's own certificate (rollController)                       *)
(***************************************************************************)

Unissued == {s \in Serials : issuer[s] = 0}
NextSerial == CHOOSE s \in Unissued : \A t \in Unissued : s <= t

(* Not due and from the current root: the current serial is announced.     *)
Steady == issuer[own] = sign.crt

Reannounce ==
    /\ Steady /\ list' = {own}
    /\ UNCHANGED <<ctl, pctl, issuer, prev, ren, missed, budget>>

(* issueController, then current and next are announced.  A revoke forgets *)
(* the previous cert first.                                                *)
Reissue(revoke) ==
    /\ IF Whole(sign)
       THEN /\ Unissued # {}
            /\ issuer' = [issuer EXCEPT ![NextSerial] = sign.crt]
            /\ list' = {own, NextSerial}
            /\ ren' = [step |-> IF revoke THEN "savekey" ELSE "keepkey", revoke |-> revoke,
                       next |-> NextSerial]
       ELSE UNCHANGED <<issuer, list, ren>>
    /\ pctl' = IF revoke THEN NoPair ELSE pctl
    /\ prev' = IF revoke THEN 0 ELSE prev
    /\ missed' = IF revoke /\ prev # 0 THEN Behind(own, 2) ELSE missed
    /\ UNCHANGED ctl

RenUnchanged == <<caKey, caCrt, caPrev, cross, row, newest, settled, rejoin, up, sign, roots>>

(* The daily announce, a renewal for age, or RevokeControllerCert.         *)
AnnounceControllerCert ==
    /\ up /\ RollMuFree
    /\ \/ Reannounce
       \/ ~Steady /\ Reissue(FALSE) /\ UNCHANGED budget
       \/ \E revoke \in BOOLEAN : Reissue(revoke) /\ Spend("renewals")
    /\ UNCHANGED <<RenUnchanged, own, dial, roll, workerVars, cut, stranded>>

(* announceAcked waits for the reachable workers up to a bound, so the     *)
(* renewal may go on at any time.  keepPrev renames key, then cert; what   *)
(* it replaces signs for nobody after a boot.                              *)
KeepPrev ==
    /\ \/ /\ ren.step = "keepkey"
          /\ pctl' = [pctl EXCEPT !.key = ctl.key] /\ ren' = [ren EXCEPT !.step = "keepcrt"]
          /\ missed' = Behind(own, 1)
       \/ /\ ren.step = "keepcrt"
          /\ pctl' = [pctl EXCEPT !.crt = ctl.crt] /\ ren' = [ren EXCEPT !.step = "savekey"]
          /\ UNCHANGED missed
    /\ UNCHANGED <<RenUnchanged, ctl, issuer, own, prev, list, dial, roll, workerVars, cut, stranded, budget>>

(* save: the key, then the cert, which makes the next cert the one a boot  *)
(* comes up with.                                                          *)
SaveController ==
    /\ \/ /\ ren.step = "savekey"
          /\ ctl' = [ctl EXCEPT !.key = ren.next] /\ ren' = [ren EXCEPT !.step = "savecrt"]
          /\ UNCHANGED missed
       \/ /\ ren.step = "savecrt"
          /\ ctl' = [ctl EXCEPT !.crt = ren.next] /\ ren' = [ren EXCEPT !.step = "switch"]
          /\ missed' = Behind(ren.next, IF ren.revoke THEN 2 ELSE 1)
    /\ UNCHANGED <<RenUnchanged, pctl, issuer, own, prev, list, dial, roll, workerVars, cut,
                   stranded, budget>>

RenEnds(step) ==
    /\ ren' = IdleRen
    /\ roll' = IF roll.step = "wait" THEN [IdleRoll EXCEPT !.step = step] ELSE roll

(* A file that cannot be written ends the renewal; both serials stay       *)
(* announced.                                                              *)
RenewalFails ==
    /\ ren.step \in {"keepkey", "keepcrt", "savekey", "savecrt"}
    /\ Spend("faults")
    /\ RenEnds("idle")
    /\ cut' = IF ren.step = "savecrt" THEN cut \cup {"torn"} ELSE cut
    /\ UNCHANGED <<RenUnchanged, ctl, pctl, issuer, own, prev, list, dial, workerVars, missed, stranded>>

(* The switch in memory and the announce of the next serial alone.  The    *)
(* clients dial with the old cert until the next refresh.                  *)
SwitchController ==
    /\ ren.step = "switch"
    /\ prev' = IF ren.revoke THEN 0 ELSE own
    /\ own' = ren.next /\ list' = {ren.next}
    /\ RenEnds("check")
    /\ UNCHANGED <<RenUnchanged, ctl, pctl, issuer, dial, workerVars, histVars, budget>>

(* Mutant: the clients are rebuilt with the cert before the current one.   *)
RefreshClientsPrev ==
    /\ up /\ dial # own
    /\ dial' = prev
    /\ UNCHANGED <<diskVars, rowVars, up, sign, roots, own, prev, list, roll, ren, workerVars, histVars, budget>>

RefreshClients ==
    /\ up /\ dial # own
    /\ dial' = own
    /\ UNCHANGED <<diskVars, rowVars, up, sign, roots, own, prev, list, roll, ren, workerVars, histVars, budget>>

(***************************************************************************)
(* advanceRollover, finishRollover                                         *)
(***************************************************************************)

(* The push of the trust list is best effort: PushMesh is what it sends.   *)
AdvancePush ==
    /\ roll.step = "push"
    /\ Goto("renew")
    /\ UNCHANGED <<diskVars, rowVars, memVars, ren, workerVars, histVars, budget>>

AdvanceRenew ==
    /\ roll.step = "renew" /\ RollMuFree
    /\ \/ Reannounce /\ Goto("check")
       \/ /\ ~Steady /\ Reissue(FALSE)
          /\ Goto(IF Whole(sign) THEN "wait" ELSE "idle")
          /\ UNCHANGED budget
    /\ UNCHANGED <<RenUnchanged, own, dial, workerVars, cut, stranded>>

(* Mutant: a cert counts as soon as it is issued.                          *)
RootStragglersAtOnce(late) == {w \in Workers \ rejoin : newest[w] # 0 /\ newest[w] # row.cur}

(* rootStragglers, with the settle time or without.                        *)
RootStragglers(late) ==
    {w \in Workers \ rejoin : newest[w] # 0 /\ (newest[w] # row.cur \/ w \in late)}

AdvanceCheck ==
    /\ roll.step = "check"
    /\ Goto(IF RootStragglers(Workers \ settled) = {} THEN "dropprev" ELSE "idle")
    /\ UNCHANGED <<diskVars, rowVars, memVars, ren, workerVars, histVars, budget>>

(* FinishRollover gives up on the stragglers, one transaction each.  It    *)
(* does not look at the controller's own cert.                             *)
MarkStraggler ==
    /\ roll.step = "mark"
    /\ \/ /\ RootStragglers({}) = {} /\ Goto("dropprev")
          /\ stranded' = stranded \cup {w \in Workers : hold[w] # newest[w]}
          /\ UNCHANGED <<newest, rejoin>>
       \/ \E w \in RootStragglers({}) :
            /\ rejoin' = rejoin \cup {w} /\ newest' = [newest EXCEPT ![w] = 0]
            /\ UNCHANGED <<roll, stranded>>
    /\ UNCHANGED <<diskVars, row, issuer, settled, memVars, ren, workerVars, missed, cut, budget>>

DropPrevCA ==
    /\ roll.step = "dropprev" /\ RollMuFree
    /\ caPrev' = 0 /\ Goto("forget")
    /\ cut' = IF issuer[own] = sign.crt THEN cut ELSE cut \cup {"finish"}
    /\ UNCHANGED <<caKey, caCrt, cross, ctl, pctl, rowVars, memVars, ren, workerVars, missed, stranded, budget>>

(* dropCross and forgetPrev.                                               *)
ForgetPrev ==
    /\ roll.step = "forget"
    /\ cross' = NoCross /\ pctl' = NoPair /\ prev' = 0
    /\ missed' = Behind(own, 1)
    /\ Goto("record")
    /\ UNCHANGED <<caKey, caCrt, caPrev, ctl, rowVars, up, sign, roots, own, list, dial, ren, workerVars,
                   cut, stranded, budget>>

RecordFinish ==
    /\ roll.step = "record"
    /\ roots' = {sign.crt} /\ RollEnds
    /\ \/ row' = [row EXCEPT !.prev = 0] /\ UNCHANGED budget
       \/ UNCHANGED row /\ Spend("faults")
    /\ UNCHANGED <<diskVars, issuer, newest, settled, rejoin, up, sign, own, prev, list, dial, ren,
                   workerVars, histVars>>

(***************************************************************************)
(* The panel dies and boots                                                *)
(***************************************************************************)

PanelDies ==
    /\ up /\ Spend("crashes")
    /\ up' = FALSE /\ roll' = IdleRoll /\ ren' = IdleRen
    /\ UNCHANGED <<diskVars, rowVars, sign, roots, own, prev, list, dial, workerVars, histVars>>

(* Mutant: the previous pair is kept in memory only.                       *)
LoadPrevNever(current) == 0

(* loadPrev: a whole pair that is not the current one.                     *)
LoadPrev(current) == IF Whole(pctl) /\ pctl.crt # current THEN pctl.crt ELSE 0

(* controllerCert keeps a whole pair the current root signed and issues    *)
(* another otherwise, which x509 refuses when the root's pair is torn.     *)
KeepsController == Whole(ctl) /\ issuer[ctl.crt] = caCrt

BootAs(serial) ==
    /\ up' = TRUE
    /\ sign' = [key |-> caKey, crt |-> caCrt]
    /\ roots' = {caCrt, caPrev} \ {0}
    /\ own' = serial /\ dial' = serial /\ list' = {serial}
    /\ prev' = LoadPrev(serial)
    /\ UNCHANGED <<caKey, caCrt, caPrev, cross, pctl, row, newest, settled, rejoin, roll, ren,
                   workerVars, missed, stranded, budget>>

BootCluster ==
    /\ ~up
    /\ \/ /\ KeepsController
          /\ BootAs(ctl.crt)
          /\ UNCHANGED <<ctl, issuer, cut>>
       \/ /\ ~KeepsController /\ caKey = caCrt /\ Unissued # {}
          /\ issuer' = [issuer EXCEPT ![NextSerial] = caCrt]
          /\ ctl' = Both(NextSerial) /\ cut' = cut \cup {"boot"}
          /\ BootAs(NextSerial)

(***************************************************************************)
(* The workers                                                             *)
(***************************************************************************)

(* Trust.Apply of the spec's trust list and serials.                       *)
TakesSpec(w) ==
    /\ trust' = [trust EXCEPT ![w] = roots]
    /\ allow' = [allow EXCEPT ![w] = list]
    /\ missed' = [missed EXCEPT ![w] = 0]
    /\ UNCHANGED <<diskVars, rowVars, memVars, roll, ren, hold, away, cut, stranded, budget>>

(* A mesh sync pushes over the tunnel: both ends check the other's cert.   *)
PushMesh(w) ==
    /\ up /\ w \notin away \cup rejoin
    /\ hold[w] \in roots
    /\ dial \in allow[w] /\ issuer[dial] \in trust[w]
    /\ <<trust[w], allow[w]>> # <<roots, list>>
    /\ TakesSpec(w)

(* RecoverAnswer.Open: a signer on the allow list whose root the worker    *)
(* trusts, or that a root it trusts cross-signed.                          *)
Vouched(w, root) == root \in trust[w] \/ (cross.of = root /\ cross.by \in trust[w])

Answers(w) == \E s \in {own, prev} \ {0} : s \in allow[w] /\ Vouched(w, issuer[s])

(* RecoverNode, through the panel's public URL.                            *)
RecoverNode(w) ==
    /\ up /\ w \notin away \cup rejoin
    /\ hold[w] \in roots
    /\ Answers(w)
    /\ <<trust[w], allow[w]>> # <<roots, list>>
    /\ TakesSpec(w)

(* A worker asks over the tunnel or, without a check of the controller, at *)
(* the panel.  The row is written before the answer goes out.              *)
RenewNodeCert(w) ==
    /\ up /\ w \notin away \cup rejoin
    /\ hold[w] \in trust[w]
    /\ hold[w] \in roots /\ Cardinality(roots) > 1 /\ hold[w] # sign.crt
    /\ Whole(sign)
    /\ newest' = [newest EXCEPT ![w] = sign.crt]
    /\ settled' = settled \ {w}
    /\ UNCHANGED <<diskVars, row, issuer, rejoin, memVars, roll, ren, trust, allow, away, histVars>>

(* Mutant: the worker compares with the last root of the list.             *)
OffSigningRootLast(w) == \A r \in trust[w] : r > hold[w]

(* The cert is from an older root than the first of the trust list.        *)
OffSigningRoot(w) == \E r \in trust[w] : r > hold[w]

(* The worker checks the new cert against its own list and swaps to it ... *)
RenewAnswered(w) ==
    /\ OffSigningRoot(w) /\ RenewNodeCert(w)
    /\ sign.crt \in trust[w]
    /\ hold' = [hold EXCEPT ![w] = sign.crt]
    /\ UNCHANGED budget

(* ... or the answer is lost, the worker dies before the swap, or one that *)
(* asked for its cert's age does not trust the new root yet.               *)
RenewLost(w) ==
    /\ RenewNodeCert(w)
    /\ Spend("lost")
    /\ UNCHANGED hold

(* rolloverSettle passes over a cert.  A worker that is there asks every   *)
(* hour, so only one that is away is still without it.                     *)
Settle(w) ==
    /\ w \notin settled
    /\ hold[w] = newest[w] \/ w \in away
    /\ settled' = settled \cup {w}
    /\ stranded' = IF hold[w] = newest[w] THEN stranded ELSE stranded \cup {w}
    /\ UNCHANGED <<diskVars, row, issuer, newest, rejoin, memVars, roll, ren, workerVars, missed,
                   cut, budget>>

GoesAway(w) ==
    /\ w \notin away /\ Spend("away")
    /\ away' = away \cup {w}
    /\ UNCHANGED <<diskVars, rowVars, memVars, roll, ren, hold, trust, allow, histVars>>

ComesBack(w) ==
    /\ w \in away
    /\ away' = away \ {w}
    /\ UNCHANGED <<diskVars, rowVars, memVars, roll, ren, hold, trust, allow, histVars, budget>>

Rollover ==
    \/ RotateFails \/ WriteCross \/ RotatePrev \/ RotateKey \/ RotateCrt \/ SwapCA
    \/ AdvancePush \/ AdvanceRenew \/ AdvanceCheck \/ MarkStraggler
    \/ DropPrevCA \/ ForgetPrev \/ RecordFinish

Renewal == KeepPrev \/ SaveController \/ RenewalFails \/ SwitchController

Next ==
    \/ RotateRoot \/ RootRolloverTick \/ FinishRollover \/ AnnounceControllerCert
    \/ Rollover \/ Renewal \/ RefreshClients \/ PanelDies \/ BootCluster
    \/ \E w \in Workers :
         \/ PushMesh(w) \/ RecoverNode(w) \/ RenewAnswered(w) \/ RenewLost(w)
         \/ Settle(w) \/ GoesAway(w) \/ ComesBack(w)

Spec == Init /\ [][Next]_vars

(* The tick runs daily; goroutines run on; workers come back and ask again;*)
(* time passes.  Nobody has to press a button and nothing has to fail.     *)
Fairness ==
    /\ WF_vars(RootRolloverTick) /\ WF_vars(Rollover) /\ WF_vars(Renewal)
    /\ WF_vars(BootCluster) /\ WF_vars(RefreshClients)
    /\ \A w \in Workers :
         /\ WF_vars(PushMesh(w) \/ RecoverNode(w)) /\ WF_vars(RenewAnswered(w))
         /\ WF_vars(Settle(w)) /\ WF_vars(ComesBack(w))

FairSpec == Spec /\ Fairness

(***************************************************************************)
(* Properties                                                              *)
(***************************************************************************)

RollSteps == {"idle", "cross", "prevcrt", "key", "crt", "swap", "push", "renew", "wait", "check",
              "mark", "dropprev", "forget", "record"}
RenSteps == {"idle", "keepkey", "keepcrt", "savekey", "savecrt", "switch"}

Pair(S) == [key : S \cup {0}, crt : S \cup {0}]

(* The variables have their types, and the controller's certs in use were  *)
(* issued.                                                                 *)
TypeOK ==
    /\ caKey \in Roots /\ caCrt \in Roots /\ caPrev \in Roots \cup {0}
    /\ cross \in [by : Roots \cup {0}, of : Roots \cup {0}]
    /\ ctl \in Pair(Serials) /\ pctl \in Pair(Serials)
    /\ row \in [cur : Roots \cup {0}, prev : Roots \cup {0}]
    /\ issuer \in [Serials -> Roots \cup {0}]
    /\ newest \in [Workers -> Roots \cup {0}]
    /\ settled \subseteq Workers /\ rejoin \subseteq Workers
    /\ up \in BOOLEAN /\ sign \in [key : Roots, crt : Roots] /\ roots \subseteq Roots
    /\ own \in Serials /\ prev \in Serials \cup {0} /\ list \subseteq Serials /\ dial \in Serials
    /\ roll \in [step : RollSteps, next : Roots \cup {0}]
    /\ ren \in [step : RenSteps, revoke : BOOLEAN, next : Serials \cup {0}]
    /\ hold \in [Workers -> Roots] /\ trust \in [Workers -> SUBSET Roots]
    /\ allow \in [Workers -> SUBSET Serials] /\ away \subseteq Workers
    /\ missed \in [Workers -> 0..2] /\ cut \subseteq {"boot", "finish", "torn"}
    /\ stranded \subseteq Workers
    /\ budget \in [{"renewals", "crashes", "faults", "lost", "away"} -> Nat]
    /\ issuer[own] # 0 /\ issuer[dial] # 0

(* Whatever a crash or a failed write left of the files, the row and the   *)
(* memory, a rollover is advanced or finished only when the three agree on *)
(* one and the same pair of different roots (reconcileRollover).           *)
ActsOnTruth ==
    roll.step \in {"push", "renew", "wait", "check", "mark", "dropprev"} =>
        /\ row = [cur |-> caCrt, prev |-> caPrev]
        /\ sign = [key |-> caKey, crt |-> caCrt] /\ Whole(sign)
        /\ roots = {row.cur, row.prev}
        /\ row.prev \notin {0, row.cur}

(* Dropping the old root strands no worker: the panel trusts the cert each *)
(* one runs with.  Left out are the workers an admin's finish gave up on,  *)
(* and those whose renewal answer was lost and who were away for the whole *)
(* of the settle time or had not asked again at an admin's finish, which   *)
(* does not wait for it.                                                   *)
HeldIsTrusted ==
    up => \A w \in Workers \ (rejoin \cup stranded) : hold[w] \in roots

(* Each worker at most one step of the controller's certs behind can be    *)
(* told of the next.                                                       *)
EachAnswered == \A w \in Workers \ rejoin : missed[w] < 2 => Answers(w)

(* A worker at most one step of the controller's certs behind can take the *)
(* panel's recovery answer: the current cert or the previous one signs it  *)
(* (rollController keeps the previous one).  Three things end that: a boot *)
(* that has to issue the controller another cert, an admin's finish while  *)
(* the controller's own cert is still the old root's, and a rename of the  *)
(* controller's pair that fails after its key was renamed.                 *)
KeptInReach == up /\ cut = {} => EachAnswered

(* The same with the boots that replace the controller's cert.             *)
RestartKeepsReach == up => EachAnswered

(* "Workers still holding an old-root cert can no longer be reached": the  *)
(* same with an admin's finish, after which every other worker should be.  *)
FinishKeepsReach == up /\ cut \subseteq {"finish"} => EachAnswered

(* The root that signs and the certificate it signs for are a pair.        *)
CanSign == up => Whole(sign)

(* The old root is dropped only when every worker, offline ones included,  *)
(* holds a cert from the new one, or an admin gave it up.                  *)
DroppedWhenMoved ==
    up => \A w \in Workers \ rejoin : hold[w] \in roots

(* A rollover ends by itself, through crashes, lost answers and workers    *)
(* that leave and come back, unless a worker can no longer be told of the  *)
(* new root.                                                               *)
OutOfReach == cut # {} \/ \E w \in Workers : missed[w] = 2

RolloverEnds == Rolling(row) ~> (~Rolling(row) \/ OutOfReach)

=============================================================================
