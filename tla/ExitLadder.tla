------------------------------ MODULE ExitLadder ------------------------------
(***************************************************************************)
(* The exit ladder of one subject: the rungs an environment may leave a    *)
(* node by, best first, the health pass that moves it down when the live   *)
(* rung stops answering and up when a better one answers again, and the ip *)
(* rules it installs.                                                      *)
(*                                                                         *)
(* A pass pings one rung after the other, seconds apart, so what answers   *)
(* may change between two pings of one pass.  Each ip command is a step    *)
(* and may fail.  Rungs are numbered from 1; 0 is no rung, the blackhole.  *)
(***************************************************************************)
EXTENDS Naturals

CONSTANTS
    N,             \* rungs of the ladder
    Own,           \* the rungs that are the node's own uplink
    FailAfter,     \* failed pings in a row before the live rung is given up
    RecoverAfter,  \* good pings in a row before a better rung is taken back
    MaxFaults,     \* bound: ip commands that fail
    MaxRestarts    \* bound: fresh ladders, after a restart or a changed spec

ASSUME LadderAssumption ==
    /\ N \in Nat /\ Own \subseteq 1..N
    /\ FailAfter \in Nat \ {0} /\ RecoverAfter \in Nat \ {0}
    /\ MaxFaults \in Nat /\ MaxRestarts \in Nat

VARIABLES
    answers,   \* the rungs that answer a ping now
    active,    \* State.Active, 0 = none
    down,      \* State.Down
    init,      \* a pass has applied its rules
    good, bad, \* pings in a row, counted up to what is compared with
    tick,      \* where the pass is: its step, the rung it looks at, its choice
    route,     \* what the kernel does with the subject's traffic
    torn,      \* history: an apply failed since the last one that did not
    failed,    \* history: the last pass returned an error
    faults, restarts

state == <<active, down, init>>
counts == <<good, bad>>
history == <<torn, failed>>
budgets == <<faults, restarts>>
vars == <<answers, state, counts, tick, route, history, budgets>>

Rungs == 1..N

(* Without rules the traffic leaves by the own uplink.                     *)
Uplink == 0
Blackhole == N + 1
Routes == 0..(N + 1)

(* apply: Clear for the own uplink, Blackhole for none, else the table.    *)
RouteOf(i) == IF i = 0 THEN Blackhole ELSE IF i \in Own THEN Uplink ELSE i

Idle == [pc |-> "idle", i |-> 0, next |-> 0]

Init ==
    /\ answers \in SUBSET Rungs
    /\ active = 0 /\ down = FALSE /\ init = FALSE
    /\ good = [i \in Rungs |-> 0] /\ bad = [i \in Rungs |-> 0]
    /\ tick = Idle
    /\ route = Uplink
    /\ torn = FALSE /\ failed = FALSE
    /\ faults = 0 /\ restarts = 0

(* NewLadder: nothing is known, the rules of before are still there.       *)
Fresh ==
    /\ restarts < MaxRestarts /\ restarts' = restarts + 1
    /\ active' = 0 /\ down' = FALSE /\ init' = FALSE
    /\ good' = [i \in Rungs |-> 0] /\ bad' = [i \in Rungs |-> 0]
    /\ tick' = Idle
    /\ torn' = FALSE /\ failed' = FALSE
    /\ UNCHANGED <<answers, route, faults>>

(* A rung starts or stops answering.                                       *)
Weather ==
    /\ \E i \in Rungs : answers' = IF i \in answers THEN answers \ {i} ELSE answers \cup {i}
    /\ UNCHANGED <<state, counts, tick, route, history, budgets>>

(***************************************************************************)
(* Tick                                                                    *)
(***************************************************************************)

StartTick ==
    /\ tick.pc = "idle"
    /\ tick' = [pc |-> IF active = 0 THEN "first" ELSE "above", i |-> 1, next |-> active]
    /\ UNCHANGED <<answers, state, counts, route, history, budgets>>

More(n, most) == IF n < most THEN n + 1 ELSE n

(* Mutant: the streak of good pings is set, not counted.                   *)
ProbeOnce(i) ==
    /\ good' = [good EXCEPT ![i] = IF i \in answers THEN 1 ELSE 0]
    /\ bad' = [bad EXCEPT ![i] = IF i \in answers THEN 0 ELSE More(@, FailAfter)]

(* probe updates both streaks of a rung.                                   *)
Probe(i) ==
    /\ good' = [good EXCEPT ![i] = IF i \in answers THEN More(@, RecoverAfter) ELSE 0]
    /\ bad' = [bad EXCEPT ![i] = IF i \in answers THEN 0 ELSE More(@, FailAfter)]

Decide(n) == tick' = [pc |-> "decided", i |-> 0, next |-> n]
LookAt(pc, i) == tick' = [tick EXCEPT !.pc = pc, !.i = i]

TickUnchanged == <<answers, state, route, history, budgets>>

(* Down or fresh: the first rung that answers once.                        *)
ProbeFirst ==
    /\ tick.pc = "first"
    /\ IF tick.i \in Rungs
       THEN /\ Probe(tick.i)
            /\ IF tick.i \in answers THEN Decide(tick.i) ELSE LookAt("first", tick.i + 1)
       ELSE Decide(0) /\ UNCHANGED counts
    /\ UNCHANGED TickUnchanged

(* A better rung that answered RecoverAfter times in a row is taken back.  *)
Recovered(i) == i \in answers /\ good'[i] >= RecoverAfter

ProbeAbove ==
    /\ tick.pc = "above"
    /\ IF tick.i < active
       THEN /\ Probe(tick.i)
            /\ IF Recovered(tick.i) THEN Decide(tick.i) ELSE LookAt("above", tick.i + 1)
       ELSE LookAt("live", active) /\ UNCHANGED counts
    /\ UNCHANGED TickUnchanged

(* The live rung is given up after FailAfter failures in a row.            *)
GivenUp == active \notin answers /\ bad'[active] >= FailAfter

ProbeLive ==
    /\ tick.pc = "live"
    /\ Probe(active)
    /\ IF GivenUp THEN LookAt("below", active + 1) ELSE Decide(active)
    /\ UNCHANGED TickUnchanged

(* Mutant: only the rungs below are asked.                                 *)
AnsweredAboveNone == {}

(* A rung above that answered once is as good as one below.                *)
AnsweredAbove == {i \in Rungs : i < active /\ good[i] > 0}
Best(i, S) == i \in S /\ \A j \in S : i <= j

ProbeBelow ==
    /\ tick.pc = "below"
    /\ IF tick.i \in Rungs
       THEN /\ Probe(tick.i)
            /\ IF tick.i \in answers THEN Decide(tick.i) ELSE LookAt("below", tick.i + 1)
       ELSE /\ IF AnsweredAbove = {}
               THEN Decide(0)
               ELSE \E i \in Rungs : Best(i, AnsweredAbove) /\ Decide(i)
            /\ UNCHANGED counts
    /\ UNCHANGED TickUnchanged

(* The rung in use stays, or the blackhole does: no rule is touched.       *)
Unmoved == init /\ tick.next = active /\ (tick.next > 0 \/ down)

KeepRung ==
    /\ tick.pc = "decided" /\ Unmoved
    /\ tick' = Idle /\ failed' = FALSE
    /\ UNCHANGED <<answers, state, counts, route, torn, budgets>>

(* The new state is recorded once its rules are in.                        *)
Commit ==
    /\ active' = tick.next /\ down' = (tick.next = 0) /\ init' = TRUE
    /\ tick' = Idle
    /\ torn' = FALSE /\ failed' = FALSE

(* Mutant: the state is recorded before the rules are in.                  *)
ApplyClearCommits ==
    /\ tick.pc = "decided" /\ ~Unmoved
    /\ route' = Uplink
    /\ Commit
    /\ UNCHANGED <<answers, counts, budgets>>

(* apply clears the subject's rules first, which sends its traffic out the *)
(* own uplink until the new rules are in.                                  *)
ApplyClear ==
    /\ tick.pc = "decided" /\ ~Unmoved
    /\ route' = Uplink
    /\ IF tick.next \in Own
       THEN Commit
       ELSE tick' = [tick EXCEPT !.pc = "add"] /\ UNCHANGED <<state, history>>
    /\ UNCHANGED <<answers, counts, budgets>>

ApplyAdd ==
    /\ tick.pc = "add"
    /\ route' = RouteOf(tick.next)
    /\ Commit
    /\ UNCHANGED <<answers, counts, budgets>>

(* A command that fails ends the pass; the state stays the old one.        *)
ApplyFails ==
    /\ tick.pc = "add"
    /\ faults < MaxFaults /\ faults' = faults + 1
    /\ tick' = Idle
    /\ torn' = TRUE /\ failed' = TRUE
    /\ UNCHANGED <<answers, state, counts, route, restarts>>

Pass ==
    \/ StartTick \/ ProbeFirst \/ ProbeAbove \/ ProbeLive \/ ProbeBelow
    \/ KeepRung \/ ApplyClear \/ ApplyAdd

Next == Pass \/ ApplyFails \/ Weather \/ Fresh

Spec == Init /\ [][Next]_vars

(* The loop ticks on; a ping has a deadline.                               *)
FairSpec == Spec /\ WF_vars(Pass)

(***************************************************************************)
(* Properties                                                              *)
(***************************************************************************)

Choices == 0..N

(* The variables have their types.                                         *)
TypeOK ==
    /\ answers \subseteq Rungs
    /\ active \in Choices /\ down \in BOOLEAN /\ init \in BOOLEAN
    /\ good \in [Rungs -> 0..RecoverAfter] /\ bad \in [Rungs -> 0..FailAfter]
    /\ tick \in [pc : {"idle", "first", "above", "live", "below", "decided", "add"},
                 i : 0..(N + 1), next : Choices]
    /\ route \in Routes
    /\ torn \in BOOLEAN /\ failed \in BOOLEAN
    /\ faults \in 0..MaxFaults /\ restarts \in 0..MaxRestarts

(* What the ladder reports is what the kernel does, except while a pass is *)
(* between clearing and adding and after a command failed (Tick, apply).   *)
RulesMatch ==
    init /\ ~torn /\ tick.pc # "add" => route = RouteOf(active)

(* The subject is blackholed only when no rung answered its last ping:     *)
(* while one did, the pass chooses a rung.                                 *)
HoleWhenNoneAnswers ==
    tick.pc \in {"decided", "add"} /\ tick.next = 0 => \A i \in Rungs : bad[i] > 0

(* Where a pass is says which rungs it asked: going down the list, none    *)
(* has answered yet; above the live rung, each one has a streak.           *)
Asked(S) == \A i \in S : good[i] > 0 \/ bad[i] > 0
Silent(S) == \A i \in S : bad[i] > 0

PassInv ==
    /\ tick.pc = "first" => active = 0 /\ tick.i > 0 /\ Silent(1..(tick.i - 1))
    /\ tick.pc = "above" => active > 0 /\ tick.i \in 1..active /\ Asked(1..(tick.i - 1))
    /\ tick.pc = "live" => active > 0 /\ Asked(1..(active - 1))
    /\ tick.pc = "below" => /\ active > 0 /\ tick.i > active
                            /\ Asked(1..(active - 1)) /\ Silent(active..(tick.i - 1))

(* "The next tick tries again" (Tick): after a pass without an error the   *)
(* rules are those of the state it reports.                                *)
NextTickRepairs ==
    init /\ ~failed /\ tick.pc = "idle" => route = RouteOf(active)

(* A rung that answers from some time on is used, or a better one is: the  *)
(* ladder neither stays down nor stays below it, whatever the others do.   *)
TakesBack ==
    \A i \in Rungs : <>[](i \in answers) => <>[](active \in 1..i)

=============================================================================
