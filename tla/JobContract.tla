----------------------------- MODULE JobContract -----------------------------
(***************************************************************************)
(* What the job queue promises whoever enqueues work, without workers,     *)
(* contexts, swap marks or a database: a job is pending until its tiles    *)
(* are free, active alone on its tiles, and over once; a job that was      *)
(* stopped never becomes pending again; and a job the process lost while   *)
(* active is never resumed, it only ends.                                  *)
(***************************************************************************)
EXTENDS Naturals

CONSTANTS Jobs, All

VARIABLES
    phase,    \* absent, pending, active, lost or over
    lock,     \* the tiles a job holds while active
    stopped   \* the jobs somebody, or a newer job, stopped

cvars == <<phase, lock, stopped>>

Phases == {"absent", "pending", "active", "lost", "over"}

Clash(a, b) == All \in a \/ All \in b \/ a \cap b # {}

In(p) == {j \in Jobs : phase[j] = p}

CInit ==
    /\ phase = [j \in Jobs |-> "absent"]
    /\ lock = [j \in Jobs |-> {}]
    /\ stopped = {}

(* A new job is pending, or over at once (a skipped one).  It ends pending *)
(* jobs and stops active ones it supersedes.                               *)
Submit(j) ==
    \E ended \in SUBSET In("pending"), halted \in SUBSET In("active"), p \in {"pending", "over"} :
        /\ phase[j] = "absent"
        /\ phase' = [i \in Jobs |-> IF i = j THEN p ELSE IF i \in ended THEN "over" ELSE phase[i]]
        /\ \A i \in Jobs \ {j} : lock'[i] = lock[i]
        /\ stopped' = stopped \cup ended \cup halted

(* Pending jobs whose tiles nobody active holds begin together.            *)
Begin ==
    \E S \in SUBSET In("pending") :
        /\ S \cap stopped = {}
        /\ \A i \in S : \A k \in (S \cup In("active")) \ {i} : ~Clash(lock[i], lock[k])
        /\ phase' = [i \in Jobs |-> IF i \in S THEN "active" ELSE phase[i]]
        /\ UNCHANGED <<lock, stopped>>

(* A stop ends a pending job and is only noted on an active one.           *)
Stop(j) ==
    /\ phase[j] \in {"pending", "active"}
    /\ phase' = [phase EXCEPT ![j] = IF @ = "pending" THEN "over" ELSE @]
    /\ stopped' = stopped \cup {j}
    /\ UNCHANGED lock

(* An active job ends, is lost with its unwritten result, or goes back to  *)
(* pending (it parked) unless it was stopped.                              *)
Leave(j) ==
    /\ phase[j] = "active"
    /\ \E p \in {"pending", "over", "lost"} :
         /\ p = "pending" => j \notin stopped
         /\ phase' = [phase EXCEPT ![j] = p]
    /\ UNCHANGED <<lock, stopped>>

(* The process dies: what was active is lost, except that the write one    *)
(* job was in may have landed.                                             *)
Die ==
    /\ \E landed \in SUBSET Jobs, p \in {"pending", "over"} :
         /\ \A j \in landed : phase[j] \in {"active", "pending"} /\ (p = "pending" => j \notin stopped)
         /\ \A i, j \in landed : i = j
         /\ phase' = [j \in Jobs |-> IF j \in landed THEN p
                                     ELSE IF phase[j] = "active" THEN "lost" ELSE phase[j]]
         /\ stopped' \in {stopped, stopped \cup landed}
    /\ UNCHANGED lock

(* A lost job is never resumed.                                            *)
Bury(j) ==
    /\ phase[j] = "lost"
    /\ phase' = [phase EXCEPT ![j] = "over"]
    /\ UNCHANGED <<lock, stopped>>

CNext ==
    \/ Begin
    \/ Die
    \/ \E j \in Jobs : Submit(j) \/ Stop(j) \/ Leave(j) \/ Bury(j)

CSpec == CInit /\ [][CNext]_cvars

=============================================================================
