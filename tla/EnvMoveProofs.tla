---------------------------- MODULE EnvMoveProofs ----------------------------
(***************************************************************************)
(* Theorems about the moves of an environment, for any set of nodes and    *)
(* tiles and any number of requests, writes, failures, deaths and stops.   *)
(***************************************************************************)
EXTENDS EnvMove, TLAPS

(***************************************************************************)
(* The inductive invariant                                                 *)
(***************************************************************************)

(* The row inserted last.                                                  *)
NPhase == phase[newest]
NFrom == from[newest]
NTo == to[newest]

(* Rows, requests and jobs: rows are numbered as they were asked for, a    *)
(* job has a row, the running one an unfinished one, and boot resumes rows *)
(* before any request is served.                                           *)
RowFollows ==
    /\ newest <= moves
    /\ \A i \in 0..MaxMoves : i = 0 \/ i > moves => phase[i] = "none"
    /\ newest # 0 => NPhase \notin Rowless
    /\ from[0] = to[0]
    /\ \A i \in Rows : phase[i] # "none" => from[i] # to[i]
    /\ \A i \in 0..MaxMoves : job[i] # "none" => phase[i] \notin Rowless
    /\ \A i \in resume : phase[i] \notin Rowless
    /\ resume # {} => \A i \in Rows : phase[i] \notin {"asked", "checked"} /\ job[i] # "due"
    /\ cur = 0 <=> pc = "none"
    /\ cur # 0 => Unfinished(cur)

(* Without a race the newest row is the only unfinished one.               *)
Sole ==
    /\ \A i \in Rows : Unfinished(i) => i = newest
    /\ resume \subseteq {newest}
    /\ \A i \in Rows : job[i] = "due" => i = newest /\ NPhase = "queued" /\ cur = 0

(* The running job works on the phase its row names and rolls back from it *)
(* or from the one it could not write.                                     *)
JobFollows ==
    /\ pc \in {"take", "work", "record"} => mem = NPhase
    /\ pc = "take" => NPhase = "starting" /\ todo = Tiles
    /\ pc = "record" => NPhase = "queued" \/ todo = {}
    /\ pc \in Undoing => mem \in {NPhase, NextPhase(NPhase)} /\ NPhase # "cleaning"
    /\ pc = "undoRemove" => mem = "starting"
    /\ pc \in {"undoTake", "undoStart"} => ReachedStop(mem)
    /\ pc = "undoTake" => todo = Tiles
    /\ pc = "undoRecord" => mem \in {"queued", "syncing"}

(* Where the env is and what of it is up, in each phase; the loops of the  *)
(* job have done the tiles that are not in todo.                           *)
EnvWhole ==
    /\ NPhase \in {"none", "queued", "syncing", "stopping", "copying", "final", "rolled_back"} =>
          envNode = NFrom
    /\ NPhase \in {"none", "queued", "syncing", "rolled_back"} => \A t \in Tiles : Alive(NFrom, t)
    /\ NPhase \in {"cleaning", "done"} => envNode = NTo /\ \A t \in Tiles : Alive(NTo, t)
    /\ NPhase = "done" => \A t \in Tiles : cont[NFrom][t] = "none"
    /\ pc \in {"work", "record"} /\ NPhase = "starting" =>
          envNode = NTo /\ \A t \in Tiles \ todo : Alive(NTo, t)
    /\ pc \in {"work", "record"} /\ NPhase = "cleaning" =>
          \A t \in Tiles \ todo : cont[NFrom][t] = "none"
    /\ pc = "undoStart" => envNode = NFrom /\ \A t \in Tiles \ todo : Alive(NFrom, t)

(* Only a pressed stop or a resumed job of the same row kills the running  *)
(* one; an env that is not up has a job at its move, unless one was        *)
(* stopped or a counted call failed.                                       *)
Attended ==
    /\ stops = 0 /\ cur # 0 /\ dead => job[newest] = "queued"
    /\ stops = 0 /\ faults = 0 /\ ReachedStop(NPhase) =>
          \/ cur = newest \/ job[newest] = "queued" \/ newest \in resume
          \/ \A t \in Tiles : Alive(envNode, t)

(* What holds as long as no row raced.                                     *)
SoleInv == ~raced => Sole /\ JobFollows /\ EnvWhole /\ Attended

(* A volume with a consistent copy of every write that counts.             *)
HasData(n, t) == acked[t] \ late \subseteq vol[n][t] /\ <<n, t>> \notin torn

(* While the moves are calm, either the target holds no container or the   *)
(* source runs none.                                                       *)
Apart ==
    /\ \A n \in Nodes, t \in Tiles : cont[n][t] # "restarting"
    /\ \A n \in Nodes \ {NFrom, NTo}, t \in Tiles : cont[n][t] = "none"
    /\ \/ NPhase \in {"queued", "syncing", "stopping", "copying", "final", "rolled_back"}
       \/ pc \in {"undoTake", "undoStart"}
       => \A t \in Tiles : cont[NTo][t] = "none"
    /\ pc = "undoRemove" => \A t \in Tiles \ todo : cont[NTo][t] = "none"
    /\ NPhase \in {"copying", "final", "starting", "cleaning", "done"}
          /\ pc \notin {"undoTake", "undoStart"}
       => \A t \in Tiles : ~Runs(NFrom, t)
    /\ pc \in {"work", "record"} /\ NPhase = "stopping" => \A t \in Tiles \ todo : ~Runs(NFrom, t)

(* The volume of the node the env runs on, or is about to run on, has the  *)
(* data.                                                                   *)
DataFollows ==
    /\ NPhase \notin {"cleaning", "done"} => \A t \in Tiles : HasData(NFrom, t)
    /\ \/ NPhase \in {"cleaning", "done"}
       \/ NPhase = "starting" /\ pc \notin {"undoTake", "undoStart"}
       => \A t \in Tiles : HasData(NTo, t)
    /\ pc \in {"work", "record"} /\ NPhase \in {"copying", "final"} =>
          \A t \in Tiles \ todo : HasData(NTo, t)

(* What holds while nothing but stops and deaths of the panel disturbs the *)
(* moves.                                                                  *)
CalmInv == Calm => Apart /\ DataFollows

(* The inductive invariant of the moves.                                   *)
MoveInv == TypeOK /\ RowFollows /\ SoleInv /\ CalmInv

(***************************************************************************)
(* The newest row, seen through the steps                                  *)
(***************************************************************************)

(* The newest row has its columns' types.                                  *)
LEMMA NewestTyped == TypeOK => NPhase \in Phases /\ NFrom \in Nodes /\ NTo \in Nodes
  BY DEF TypeOK, NPhase, NFrom, NTo

(* Without a race the running job is at the newest row.                    *)
LEMMA JobRow ==
  TypeOK /\ RowFollows /\ Sole /\ pc # "none" =>
    /\ cur = newest /\ cur \in Rows /\ From = NFrom /\ To = NTo
    /\ NPhase \notin Rowless /\ ~Ended(NPhase)
<1> SUFFICES ASSUME TypeOK, RowFollows, Sole, pc # "none"
             PROVE  /\ cur = newest /\ cur \in Rows /\ From = NFrom /\ To = NTo
                    /\ NPhase \notin Rowless /\ ~Ended(NPhase)
  OBVIOUS
<1>1. cur \in Rows /\ Unfinished(cur)
  BY MoveAssumption DEF RowFollows, TypeOK, Rows
<1>2. cur = newest
  BY <1>1 DEF Sole
<1> QED
  BY <1>1, <1>2 DEF From, To, NFrom, NTo, NPhase, Unfinished

(* A row moves the env between two nodes.                                  *)
LEMMA Differ == TypeOK /\ RowFollows /\ NPhase \notin Rowless => newest \in Rows /\ NFrom # NTo
  BY MoveAssumption DEF TypeOK, RowFollows, NPhase, NFrom, NTo, Rows, Rowless

(* A step that leaves the rows alone leaves the newest alone.              *)
LEMMA KeptView ==
  UNCHANGED <<phase, from, to, newest>> =>
    NPhase' = NPhase /\ NFrom' = NFrom /\ NTo' = NTo
  BY DEF NPhase, NFrom, NTo

(* A step that leaves the nodes of the rows alone leaves the newest's.     *)
LEMMA UndoKept ==
  UNCHANGED <<from, to, newest>> =>
    NFrom' = NFrom /\ NTo' = NTo /\ (UNCHANGED phase => NPhase' = NPhase)
  BY DEF NPhase, NFrom, NTo

(* The running job's writes go to the newest row.                          *)
LEMMA WriteMem ==
  TypeOK /\ RowFollows /\ Sole /\ pc # "none" /\ SetPhase(cur, mem) /\ UNCHANGED newest =>
    NPhase' = mem
  BY JobRow DEF SetPhase, NPhase, TypeOK

(* The next phase goes to the newest row.                                  *)
LEMMA WriteNext ==
  /\ TypeOK /\ RowFollows /\ Sole /\ pc # "none"
  /\ SetPhase(cur, NextPhase(mem)) /\ UNCHANGED newest
  => NPhase' = NextPhase(mem)
  BY JobRow DEF SetPhase, NPhase, TypeOK

(* The rollback's end goes to the newest row.                              *)
LEMMA WriteBack ==
  /\ TypeOK /\ RowFollows /\ Sole /\ pc # "none"
  /\ SetPhase(cur, "rolled_back") /\ UNCHANGED newest
  => NPhase' = "rolled_back"
  BY JobRow DEF SetPhase, NPhase, TypeOK

(* A request without a row and a death of the panel leave the newest row.  *)
LEMMA QuietView ==
  /\ TypeOK /\ RowFollows
  /\ (\E n \in Nodes : Ask(n)) \/ (\E i \in Rows : Check(i) \/ CreateFails(i)) \/ PanelDies
  => NPhase' = NPhase /\ NFrom' = NFrom /\ NTo' = NTo
<1>1. ASSUME TypeOK, RowFollows, NEW n \in Nodes, Ask(n)
      PROVE  NPhase' = NPhase /\ NFrom' = NFrom /\ NTo' = NTo
  BY <1>1, MoveAssumption DEF TypeOK, RowFollows, Ask, SetPhase, NPhase, NFrom, NTo, history
<1>2. ASSUME TypeOK, RowFollows, NEW i \in Rows, Check(i) \/ CreateFails(i)
      PROVE  NPhase' = NPhase /\ NFrom' = NFrom /\ NTo' = NTo
  <2>1. i # newest /\ i # 0
    BY <1>2, MoveAssumption DEF RowFollows, Check, CreateFails, NPhase, Rows, Rowless
  <2> QED
    BY <1>2, <2>1 DEF TypeOK, Check, CreateFails, SetPhase, NPhase, NFrom, NTo, history
<1>3. ASSUME TypeOK, RowFollows, PanelDies
      PROVE  NPhase' = NPhase /\ NFrom' = NFrom /\ NTo' = NTo
  BY <1>3 DEF TypeOK, RowFollows, PanelDies, NPhase, NFrom, NTo, Rowless, history
<1> QED
  BY <1>1, <1>2, <1>3

(* A row inserted without a race finds every move ended, no job at work    *)
(* and the env on the node it was asked to leave.                          *)
LEMMA CreateView ==
  ASSUME TypeOK, RowFollows, NEW i \in Rows, NEW l \in LiveMoves, Create(i, l), ~raced'
  PROVE  /\ NPhase' = "queued" /\ NFrom' = envNode /\ NTo' \in Nodes \ {envNode}
         /\ cur = 0 /\ pc = "none"
         /\ NPhase \in {"none", "done", "rolled_back"}
         /\ NPhase = "none" => NFrom = NTo
         /\ i # newest
<1>1. MayBegin /\ from[i] = envNode
  BY DEF Create, TypeOK
<1>2. NPhase' = "queued" /\ NFrom' = envNode /\ NTo' = to[i]
  BY <1>1 DEF Create, SetPhase, TypeOK, NPhase, NFrom, NTo, Rows
<1>3. from[i] # to[i] /\ to[i] \in Nodes
  BY DEF Create, RowFollows, TypeOK, Rows
<1>4. cur = 0 /\ pc = "none"
  BY <1>1, MoveAssumption DEF RowFollows, MayBegin, TypeOK, Rows
<1>5. NPhase \in {"none", "done", "rolled_back"} /\ (NPhase = "none" => newest = 0)
  BY <1>1, MoveAssumption DEF RowFollows, MayBegin, Unfinished, Ended, Rowless, TypeOK, Rows, NPhase
<1>6. i # newest
  BY <1>5 DEF Create, NPhase
<1> QED
  BY <1>1, <1>2, <1>3, <1>4, <1>5, <1>6 DEF NFrom, NTo, RowFollows

(* A race is not undone.                                                   *)
LEMMA RacedBefore == TypeOK /\ ~raced' /\ [Next]_vars => ~raced
<1> SUFFICES ASSUME TypeOK /\ ~raced', [Next]_vars PROVE ~raced
  OBVIOUS
<1>1. ASSUME NEW n \in Nodes, Ask(n)
      PROVE  ~raced
  BY <1>1 DEF TypeOK, Ask, rowVars, queueVars, nodeVars, jobVars, history, budgets
<1>2. ASSUME NEW i \in Rows, NEW l \in LiveMoves, Create(i, l)
      PROVE  ~raced
  BY <1>2 DEF TypeOK, Create, MayBegin, rowVars, queueVars, nodeVars, jobVars,
     history, budgets
<1>3. ASSUME NEW i \in Rows, Check(i)
      PROVE  ~raced
  BY <1>3 DEF TypeOK, Check, MayBegin, rowVars, queueVars, nodeVars, jobVars,
     history, budgets
<1>4. ASSUME NEW i \in Rows, CreateFails(i)
      PROVE  ~raced
  BY <1>4 DEF TypeOK, CreateFails, rowVars, queueVars, nodeVars, jobVars, history,
     budgets
<1>5. ASSUME NEW i \in Rows, QueueJob(i)
      PROVE  ~raced
  BY <1>5 DEF TypeOK, QueueJob, Enqueue, rowVars, queueVars, nodeVars, jobVars,
     history, budgets
<1>6. ASSUME NEW i \in Rows, Resume(i)
      PROVE  ~raced
  BY <1>6 DEF TypeOK, Resume, Enqueue, Fault, rowVars, queueVars, nodeVars, jobVars,
     history, budgets
<1>7. ASSUME NEW i \in Rows, StartJob(i)
      PROVE  ~raced
  BY <1>7 DEF TypeOK, StartJob, Enter, Fault, rowVars, queueVars, nodeVars, jobVars,
     history, budgets
<1>8. ASSUME NEW i \in Rows, PressStop(i)
      PROVE  ~raced
  BY <1>8 DEF TypeOK, PressStop, rowVars, queueVars, nodeVars, jobVars, history,
     budgets
<1>9. ASSUME Prepare
      PROVE  ~raced
  BY <1>9 DEF TypeOK, Prepare, Working, Worked, Others, Fails, RollBack, Return,
     ReachedStop, rowVars, queueVars, nodeVars, jobVars, history, budgets
<1>10. ASSUME Take
      PROVE  ~raced
  BY <1>10 DEF TypeOK, Take, Others, Fails, RollBack, Return, ReachedStop, rowVars,
     queueVars, nodeVars, jobVars, history, budgets
<1>11. ASSUME LoopEnds
      PROVE  ~raced
  BY <1>11 DEF TypeOK, LoopEnds, Worked, Others, Fails, RollBack, Return,
     ReachedStop, rowVars, queueVars, nodeVars, jobVars, history, budgets
<1>12. ASSUME Record
      PROVE  ~raced
  BY <1>12 DEF TypeOK, Record, Recorded, NotRecorded, NextPhase, Live, Enter, Ended,
     Others, RollBack, Return, ReachedStop, rowVars, queueVars, nodeVars, jobVars,
     history, budgets
<1>13. ASSUME UndoRemoveEnds
      PROVE  ~raced
  BY <1>13 DEF TypeOK, UndoRemoveEnds, Fault, UndoOthers, rowVars, queueVars,
     nodeVars, jobVars, history, budgets
<1>14. ASSUME UndoTake
      PROVE  ~raced
  BY <1>14 DEF TypeOK, UndoTake, UndoFails, Fault, Return, UndoOthers, rowVars,
     queueVars, nodeVars, jobVars, history, budgets
<1>15. ASSUME UndoRecord
      PROVE  ~raced
  BY <1>15 DEF TypeOK, UndoRecord, Fault, Return, UndoOthers, rowVars, queueVars,
     nodeVars, jobVars, history, budgets
<1>16. ASSUME PanelDies
      PROVE  ~raced
  BY <1>16 DEF TypeOK, PanelDies, Return, Fault, rowVars, queueVars, nodeVars,
     jobVars, history, budgets
<1>17. ASSUME NEW t \in Tiles, Stop(t)
      PROVE  ~raced
  BY <1>17 DEF TypeOK, Stop, Working, Next1, Stops, Runs, SetCont, Others, rowVars,
     queueVars, nodeVars, jobVars, history, budgets
<1>18. ASSUME NEW t \in Tiles, Copy(t)
      PROVE  ~raced
  BY <1>18 DEF TypeOK, Copy, Copying, Copied, Next1, Runs, Others, rowVars,
     queueVars, nodeVars, jobVars, history, budgets
<1>19. ASSUME NEW t \in Tiles, CopyFails(t)
      PROVE  ~raced
  BY <1>19 DEF TypeOK, CopyFails, Copying, Others, Fails, RollBack, Return,
     ReachedStop, rowVars, queueVars, nodeVars, jobVars, history, budgets
<1>20. ASSUME NEW t \in Tiles, Start(t)
      PROVE  ~raced
  BY <1>20 DEF TypeOK, Start, Working, Next1, SetCont, Others, rowVars, queueVars,
     nodeVars, jobVars, history, budgets
<1>21. ASSUME NEW t \in Tiles, StartFails(t)
      PROVE  ~raced
  BY <1>21 DEF TypeOK, StartFails, Working, SetCont, Others, Fails, RollBack, Return,
     ReachedStop, rowVars, queueVars, nodeVars, jobVars, history, budgets
<1>22. ASSUME NEW t \in Tiles, Clean(t)
      PROVE  ~raced
  BY <1>22 DEF TypeOK, Clean, Working, Next1, SetCont, Others, rowVars, queueVars,
     nodeVars, jobVars, history, budgets
<1>23. ASSUME NEW t \in Tiles, UndoRemove(t)
      PROVE  ~raced
  BY <1>23 DEF TypeOK, UndoRemove, UndoClears, SetCont, UndoOthers, rowVars,
     queueVars, nodeVars, jobVars, history, budgets
<1>24. ASSUME NEW t \in Tiles, UndoStart(t)
      PROVE  ~raced
  BY <1>24 DEF TypeOK, UndoStart, SetCont, UndoFails, Fault, Return, UndoOthers,
     rowVars, queueVars, nodeVars, jobVars, history, budgets
<1>25. ASSUME NEW t \in Tiles, Deploy(t)
      PROVE  ~raced
  BY <1>25 DEF TypeOK, Deploy, SetCont, rowVars, queueVars, nodeVars, jobVars,
     history, budgets
<1>26. ASSUME NEW n \in Nodes, NEW t \in Tiles, Write(n, t)
      PROVE  ~raced
  BY <1>26 DEF TypeOK, Write, Runs, rowVars, queueVars, nodeVars, jobVars, history,
     budgets
<1>27. ASSUME NEW n \in Nodes, NEW t \in Tiles, Dies(n, t)
      PROVE  ~raced
  BY <1>27 DEF TypeOK, Dies, Runs, SetCont, rowVars, queueVars, nodeVars, jobVars,
     history, budgets
<1>28. ASSUME NEW n \in Nodes, NEW t \in Tiles, Restarts(n, t)
      PROVE  ~raced
  BY <1>28 DEF TypeOK, Restarts, SetCont, rowVars, queueVars, nodeVars, jobVars,
     history, budgets
<1>29. CASE UNCHANGED vars
  BY <1>29 DEF TypeOK, vars, rowVars, queueVars, nodeVars, jobVars, history, budgets
<1> QED
  BY <1>1, <1>2, <1>3, <1>4, <1>5, <1>6, <1>7, <1>8, <1>9, <1>10, <1>11, <1>12,
     <1>13, <1>14, <1>15, <1>16, <1>17, <1>18, <1>19, <1>20, <1>21, <1>22, <1>23,
     <1>24, <1>25, <1>26, <1>27, <1>28, <1>29 DEF Next

(***************************************************************************)
(* Types and rows                                                          *)
(***************************************************************************)

(* Setting one container's state keeps the type of all of them.            *)
LEMMA SetContType ==
  ASSUME TypeOK, NEW n \in Nodes, NEW t \in Tiles,
         NEW s \in {"none", "down", "up", "restarting"}, SetCont(n, t, s)
  PROVE  cont' \in [Nodes -> [Tiles -> {"none", "down", "up", "restarting"}]]
<1>1. cont \in [Nodes -> [Tiles -> {"none", "down", "up", "restarting"}]]
  BY DEF TypeOK
<1> QED
  BY <1>1 DEF SetCont

(* Writing one row's phase keeps the type of all of them.                  *)
LEMMA SetPhaseType ==
  ASSUME TypeOK, NEW i \in 0..MaxMoves, NEW p \in Phases, SetPhase(i, p)
  PROVE  phase' \in [0..MaxMoves -> Phases]
  BY DEF TypeOK, SetPhase

(* The running job's nodes.                                                *)
LEMMA FromTo == TypeOK => From \in Nodes /\ To \in Nodes
  BY DEF TypeOK, From, To

(* The types, by what holds the variables.                                 *)
RowTypes ==
    /\ phase \in [0..MaxMoves -> Phases]
    /\ from \in [0..MaxMoves -> Nodes] /\ to \in [0..MaxMoves -> Nodes]
    /\ live \in [0..MaxMoves -> BOOLEAN]

QueueTypes ==
    /\ job \in [0..MaxMoves -> {"none", "due", "queued"}]
    /\ resume \subseteq Rows

NodeTypes ==
    /\ envNode \in Nodes
    /\ cont \in [Nodes -> [Tiles -> {"none", "down", "up", "restarting"}]]
    /\ vol \in [Nodes -> [Tiles -> SUBSET (1..MaxWrites)]]
    /\ torn \subseteq Nodes \X Tiles

JobTypes ==
    /\ cur \in 0..MaxMoves
    /\ pc \in {"none", "take", "work", "record"} \cup Undoing
    /\ mem \in Phases
    /\ pc # "none" => mem \notin Rowless /\ ~Ended(mem)
    /\ todo \subseteq Tiles
    /\ dead \in BOOLEAN

CountTypes ==
    /\ acked \in [Tiles -> SUBSET (1..MaxWrites)]
    /\ late \subseteq 1..MaxWrites
    /\ newest \in 0..MaxMoves /\ raced \in BOOLEAN
    /\ moves \in 0..MaxMoves /\ writes \in 0..MaxWrites
    /\ faults \in Nat /\ crashes \in Nat /\ cuts \in Nat
    /\ stops \in Nat /\ deploys \in Nat /\ deaths \in Nat

(* The parts are the whole.                                                *)
LEMMA TypeParts == TypeOK <=> RowTypes /\ QueueTypes /\ NodeTypes /\ JobTypes /\ CountTypes
  BY DEF TypeOK, RowTypes, QueueTypes, NodeTypes, JobTypes, CountTypes

(* Every step keeps the types.                                             *)
LEMMA TypeStep == TypeOK /\ [Next]_vars => TypeOK'
<1> SUFFICES ASSUME TypeOK, [Next]_vars PROVE TypeOK'
  OBVIOUS
<1>1. ASSUME NEW n \in Nodes, Ask(n)
      PROVE  TypeOK'
  BY <1>1, FromTo, MoveAssumption DEF TypeOK, Phases, Rowless, Rows, Undoing,
     SetPhase, Unfinished, Ended, Ask, rowVars, queueVars, nodeVars, jobVars,
     history, budgets
<1>2. ASSUME NEW i \in Rows, NEW l \in LiveMoves, Create(i, l)
      PROVE  TypeOK'
  <2>1. RowTypes'
    BY <1>2, MoveAssumption, TypeParts DEF RowTypes, JobTypes, SetPhase, Phases,
       Rowless, Rows, Create, MayBegin, rowVars, queueVars, nodeVars, jobVars,
       history, budgets
  <2>2. QueueTypes'
    BY <1>2, TypeParts, MoveAssumption DEF QueueTypes, Rows, Create, MayBegin, rowVars,
       queueVars, nodeVars, jobVars, history, budgets
  <2>3. NodeTypes'
    BY <1>2, TypeParts, FromTo DEF NodeTypes, Create, MayBegin, rowVars, queueVars,
       nodeVars, jobVars, history, budgets
  <2>4. JobTypes'
    BY <1>2, TypeParts, MoveAssumption DEF JobTypes, RowTypes, Unfinished, Ended,
       Phases, Rowless, Undoing, Rows, Create, MayBegin, rowVars, queueVars,
       nodeVars, jobVars, history, budgets
  <2>5. CountTypes'
    BY <1>2, TypeParts, MoveAssumption DEF CountTypes, Rows, Create, MayBegin, rowVars,
       queueVars, nodeVars, jobVars, history, budgets
  <2> QED
    BY <2>1, <2>2, <2>3, <2>4, <2>5
       DEF TypeOK, RowTypes, QueueTypes, NodeTypes, JobTypes, CountTypes
<1>3. ASSUME NEW i \in Rows, Check(i)
      PROVE  TypeOK'
  <2>1. RowTypes'
    BY <1>3, MoveAssumption, TypeParts DEF RowTypes, JobTypes, SetPhase, Phases,
       Rowless, Rows, Check, MayBegin, rowVars, queueVars, nodeVars, jobVars,
       history, budgets
  <2>2. QueueTypes'
    BY <1>3, TypeParts, MoveAssumption DEF QueueTypes, Rows, Check, MayBegin, rowVars,
       queueVars, nodeVars, jobVars, history, budgets
  <2>3. NodeTypes'
    BY <1>3, TypeParts, FromTo DEF NodeTypes, Check, MayBegin, rowVars, queueVars,
       nodeVars, jobVars, history, budgets
  <2>4. JobTypes'
    BY <1>3, TypeParts, MoveAssumption DEF JobTypes, RowTypes, Unfinished, Ended,
       Phases, Rowless, Undoing, Rows, Check, MayBegin, rowVars, queueVars, nodeVars,
       jobVars, history, budgets
  <2>5. CountTypes'
    BY <1>3, TypeParts, MoveAssumption DEF CountTypes, Rows, Check, MayBegin, rowVars,
       queueVars, nodeVars, jobVars, history, budgets
  <2> QED
    BY <2>1, <2>2, <2>3, <2>4, <2>5
       DEF TypeOK, RowTypes, QueueTypes, NodeTypes, JobTypes, CountTypes
<1>4. ASSUME NEW i \in Rows, CreateFails(i)
      PROVE  TypeOK'
  BY <1>4, FromTo, MoveAssumption DEF TypeOK, Phases, Rowless, Rows, Undoing,
     SetPhase, Unfinished, Ended, CreateFails, rowVars, queueVars, nodeVars, jobVars,
     history, budgets
<1>5. ASSUME NEW i \in Rows, QueueJob(i)
      PROVE  TypeOK'
  <2>1. RowTypes'
    BY <1>5, MoveAssumption, TypeParts DEF RowTypes, JobTypes, SetPhase, Phases,
       Rowless, Rows, QueueJob, Enqueue, rowVars, queueVars, nodeVars, jobVars,
       history, budgets
  <2>2. QueueTypes'
    BY <1>5, TypeParts, MoveAssumption DEF QueueTypes, Rows, QueueJob, Enqueue, rowVars,
       queueVars, nodeVars, jobVars, history, budgets
  <2>3. NodeTypes'
    BY <1>5, TypeParts, FromTo DEF NodeTypes, QueueJob, Enqueue, rowVars, queueVars,
       nodeVars, jobVars, history, budgets
  <2>4. JobTypes'
    BY <1>5, TypeParts, MoveAssumption DEF JobTypes, RowTypes, Unfinished, Ended,
       Phases, Rowless, Undoing, Rows, QueueJob, Enqueue, rowVars, queueVars,
       nodeVars, jobVars, history, budgets
  <2>5. CountTypes'
    BY <1>5, TypeParts, MoveAssumption DEF CountTypes, Rows, QueueJob, Enqueue, rowVars,
       queueVars, nodeVars, jobVars, history, budgets
  <2> QED
    BY <2>1, <2>2, <2>3, <2>4, <2>5
       DEF TypeOK, RowTypes, QueueTypes, NodeTypes, JobTypes, CountTypes
<1>6. ASSUME NEW i \in Rows, Resume(i)
      PROVE  TypeOK'
  <2>1. RowTypes'
    BY <1>6, MoveAssumption, TypeParts DEF RowTypes, JobTypes, SetPhase, Phases,
       Rowless, Rows, Resume, Enqueue, Fault, rowVars, queueVars, nodeVars, jobVars,
       history, budgets
  <2>2. QueueTypes'
    BY <1>6, TypeParts, MoveAssumption DEF QueueTypes, Rows, Resume, Enqueue, Fault,
       rowVars, queueVars, nodeVars, jobVars, history, budgets
  <2>3. NodeTypes'
    BY <1>6, TypeParts, FromTo DEF NodeTypes, Resume, Enqueue, Fault, rowVars,
       queueVars, nodeVars, jobVars, history, budgets
  <2>4. JobTypes'
    BY <1>6, TypeParts, MoveAssumption DEF JobTypes, RowTypes, Unfinished, Ended,
       Phases, Rowless, Undoing, Rows, Resume, Enqueue, Fault, rowVars, queueVars,
       nodeVars, jobVars, history, budgets
  <2>5. CountTypes'
    BY <1>6, TypeParts, MoveAssumption DEF CountTypes, Rows, Resume, Enqueue, Fault,
       rowVars, queueVars, nodeVars, jobVars, history, budgets
  <2> QED
    BY <2>1, <2>2, <2>3, <2>4, <2>5
       DEF TypeOK, RowTypes, QueueTypes, NodeTypes, JobTypes, CountTypes
<1>7. ASSUME NEW i \in Rows, StartJob(i)
      PROVE  TypeOK'
  <2>1. RowTypes'
    BY <1>7, MoveAssumption, TypeParts DEF RowTypes, JobTypes, SetPhase, Phases,
       Rowless, Rows, StartJob, Enter, Fault, rowVars, queueVars, nodeVars, jobVars,
       history, budgets
  <2>2. QueueTypes'
    BY <1>7, TypeParts, MoveAssumption DEF QueueTypes, Rows, StartJob, Enter, Fault,
       rowVars, queueVars, nodeVars, jobVars, history, budgets
  <2>3. NodeTypes'
    BY <1>7, TypeParts, FromTo DEF NodeTypes, StartJob, Enter, Fault, rowVars,
       queueVars, nodeVars, jobVars, history, budgets
  <2>4. JobTypes'
    <3>1. CASE Unfinished(i) /\ cur' = i /\ Enter(phase[i])
      <4>1. phase[i] \in Phases /\ phase[i] \notin Rowless /\ ~Ended(phase[i])
        BY <3>1, TypeParts DEF RowTypes, Rows, Unfinished
      <4>2. cur' = i /\ mem' = phase[i] /\ pc' \in {"take", "work"} /\ todo' = Tiles /\ dead' = FALSE
        BY <1>7, <3>1 DEF StartJob, Enter
      <4>3. i \in 0..MaxMoves
        BY MoveAssumption DEF Rows
      <4>4. dead' \in BOOLEAN
        BY <4>2
      <4> QED
        BY <4>1, <4>2, <4>3, <4>4 DEF JobTypes, Rowless, Ended
    <3>2. CASE UNCHANGED <<cur, pc, mem, todo>>
      BY <1>7, <3>2, TypeParts DEF StartJob, JobTypes
    <3> QED
      BY <1>7, <3>1, <3>2 DEF StartJob
  <2>5. CountTypes'
    BY <1>7, TypeParts, MoveAssumption DEF CountTypes, Rows, StartJob, Enter, Fault,
       rowVars, queueVars, nodeVars, jobVars, history, budgets
  <2> QED
    BY <2>1, <2>2, <2>3, <2>4, <2>5
       DEF TypeOK, RowTypes, QueueTypes, NodeTypes, JobTypes, CountTypes
<1>8. ASSUME NEW i \in Rows, PressStop(i)
      PROVE  TypeOK'
  <2>1. RowTypes'
    BY <1>8, MoveAssumption, TypeParts DEF RowTypes, JobTypes, SetPhase, Phases,
       Rowless, Rows, PressStop, rowVars, queueVars, nodeVars, jobVars, history,
       budgets
  <2>2. QueueTypes'
    BY <1>8, TypeParts, MoveAssumption DEF QueueTypes, Rows, PressStop, rowVars,
       queueVars, nodeVars, jobVars, history, budgets
  <2>3. NodeTypes'
    BY <1>8, TypeParts, FromTo DEF NodeTypes, PressStop, rowVars, queueVars, nodeVars,
       jobVars, history, budgets
  <2>4. JobTypes'
    BY <1>8, TypeParts, MoveAssumption DEF JobTypes, RowTypes, Unfinished, Ended,
       Phases, Rowless, Undoing, Rows, PressStop, rowVars, queueVars, nodeVars,
       jobVars, history, budgets
  <2>5. CountTypes'
    BY <1>8, TypeParts, MoveAssumption DEF CountTypes, Rows, PressStop, rowVars,
       queueVars, nodeVars, jobVars, history, budgets
  <2> QED
    BY <2>1, <2>2, <2>3, <2>4, <2>5
       DEF TypeOK, RowTypes, QueueTypes, NodeTypes, JobTypes, CountTypes
<1>9. ASSUME Prepare
      PROVE  TypeOK'
  BY <1>9, FromTo, MoveAssumption DEF TypeOK, Phases, Rowless, Rows, Undoing,
     SetPhase, Unfinished, Ended, Prepare, Working, Worked, Others, Fails, RollBack,
     Return, ReachedStop, rowVars, queueVars, nodeVars, jobVars, history, budgets
<1>10. ASSUME Take
      PROVE  TypeOK'
  <2>1. RowTypes'
    BY <1>10, MoveAssumption, TypeParts DEF RowTypes, JobTypes, SetPhase, Phases,
       Rowless, Rows, Take, Others, Fails, RollBack, Return, ReachedStop, rowVars,
       queueVars, nodeVars, jobVars, history, budgets
  <2>2. QueueTypes'
    BY <1>10, TypeParts, MoveAssumption DEF QueueTypes, Rows, Take, Others, Fails,
       RollBack, Return, ReachedStop, rowVars, queueVars, nodeVars, jobVars, history,
       budgets
  <2>3. NodeTypes'
    BY <1>10, TypeParts, FromTo DEF NodeTypes, Take, Others, Fails, RollBack, Return,
       ReachedStop, rowVars, queueVars, nodeVars, jobVars, history, budgets
  <2>4. JobTypes'
    BY <1>10, TypeParts, MoveAssumption DEF JobTypes, RowTypes, Unfinished, Ended,
       Phases, Rowless, Undoing, Rows, Take, Others, Fails, RollBack, Return,
       ReachedStop, rowVars, queueVars, nodeVars, jobVars, history, budgets
  <2>5. CountTypes'
    BY <1>10, TypeParts, MoveAssumption DEF CountTypes, Rows, Take, Others, Fails,
       RollBack, Return, ReachedStop, rowVars, queueVars, nodeVars, jobVars, history,
       budgets
  <2> QED
    BY <2>1, <2>2, <2>3, <2>4, <2>5
       DEF TypeOK, RowTypes, QueueTypes, NodeTypes, JobTypes, CountTypes
<1>11. ASSUME LoopEnds
      PROVE  TypeOK'
  <2>1. RowTypes'
    BY <1>11, MoveAssumption, TypeParts DEF RowTypes, JobTypes, SetPhase, Phases,
       Rowless, Rows, LoopEnds, Worked, Others, Fails, RollBack, Return, ReachedStop,
       rowVars, queueVars, nodeVars, jobVars, history, budgets
  <2>2. QueueTypes'
    BY <1>11, TypeParts, MoveAssumption DEF QueueTypes, Rows, LoopEnds, Worked, Others,
       Fails, RollBack, Return, ReachedStop, rowVars, queueVars, nodeVars, jobVars,
       history, budgets
  <2>3. NodeTypes'
    BY <1>11, TypeParts, FromTo DEF NodeTypes, LoopEnds, Worked, Others, Fails, RollBack,
       Return, ReachedStop, rowVars, queueVars, nodeVars, jobVars, history, budgets
  <2>4. JobTypes'
    BY <1>11, TypeParts, MoveAssumption DEF JobTypes, RowTypes, Unfinished, Ended,
       Phases, Rowless, Undoing, Rows, LoopEnds, Worked, Others, Fails, RollBack,
       Return, ReachedStop, rowVars, queueVars, nodeVars, jobVars, history, budgets
  <2>5. CountTypes'
    BY <1>11, TypeParts, MoveAssumption DEF CountTypes, Rows, LoopEnds, Worked, Others,
       Fails, RollBack, Return, ReachedStop, rowVars, queueVars, nodeVars, jobVars,
       history, budgets
  <2> QED
    BY <2>1, <2>2, <2>3, <2>4, <2>5
       DEF TypeOK, RowTypes, QueueTypes, NodeTypes, JobTypes, CountTypes
<1>12. ASSUME Record
      PROVE  TypeOK'
  <2>1. RowTypes'
    BY <1>12, MoveAssumption, TypeParts DEF RowTypes, JobTypes, SetPhase, Phases,
       Rowless, Rows, Record, Recorded, NotRecorded, NextPhase, Live, Enter, Ended,
       Others, RollBack, Return, ReachedStop, rowVars, queueVars, nodeVars, jobVars,
       history, budgets
  <2>2. QueueTypes'
    BY <1>12, TypeParts, MoveAssumption DEF QueueTypes, Rows, Record, Recorded,
       NotRecorded, NextPhase, Live, Enter, Ended, Others, RollBack, Return,
       ReachedStop, rowVars, queueVars, nodeVars, jobVars, history, budgets
  <2>3. NodeTypes'
    BY <1>12, TypeParts, FromTo DEF NodeTypes, Record, Recorded, NotRecorded, NextPhase,
       Live, Enter, Ended, Others, RollBack, Return, ReachedStop, rowVars, queueVars,
       nodeVars, jobVars, history, budgets
  <2>4. JobTypes'
    BY <1>12, TypeParts, MoveAssumption DEF JobTypes, RowTypes, Unfinished, Ended,
       Phases, Rowless, Undoing, Rows, Record, Recorded, NotRecorded, NextPhase,
       Live, Enter, Others, RollBack, Return, ReachedStop, rowVars, queueVars,
       nodeVars, jobVars, history, budgets
  <2>5. CountTypes'
    BY <1>12, TypeParts, MoveAssumption DEF CountTypes, Rows, Record, Recorded,
       NotRecorded, NextPhase, Live, Enter, Ended, Others, RollBack, Return,
       ReachedStop, rowVars, queueVars, nodeVars, jobVars, history, budgets
  <2> QED
    BY <2>1, <2>2, <2>3, <2>4, <2>5
       DEF TypeOK, RowTypes, QueueTypes, NodeTypes, JobTypes, CountTypes
<1>13. ASSUME UndoRemoveEnds
      PROVE  TypeOK'
  <2>1. RowTypes'
    BY <1>13, MoveAssumption, TypeParts DEF RowTypes, JobTypes, SetPhase, Phases,
       Rowless, Rows, UndoRemoveEnds, Fault, UndoOthers, rowVars, queueVars,
       nodeVars, jobVars, history, budgets
  <2>2. QueueTypes'
    BY <1>13, TypeParts, MoveAssumption DEF QueueTypes, Rows, UndoRemoveEnds, Fault,
       UndoOthers, rowVars, queueVars, nodeVars, jobVars, history, budgets
  <2>3. NodeTypes'
    BY <1>13, TypeParts, FromTo DEF NodeTypes, UndoRemoveEnds, Fault, UndoOthers,
       rowVars, queueVars, nodeVars, jobVars, history, budgets
  <2>4. JobTypes'
    BY <1>13, TypeParts, MoveAssumption DEF JobTypes, RowTypes, Unfinished, Ended,
       Phases, Rowless, Undoing, Rows, UndoRemoveEnds, Fault, UndoOthers, rowVars,
       queueVars, nodeVars, jobVars, history, budgets
  <2>5. CountTypes'
    BY <1>13, TypeParts, MoveAssumption DEF CountTypes, Rows, UndoRemoveEnds, Fault,
       UndoOthers, rowVars, queueVars, nodeVars, jobVars, history, budgets
  <2> QED
    BY <2>1, <2>2, <2>3, <2>4, <2>5
       DEF TypeOK, RowTypes, QueueTypes, NodeTypes, JobTypes, CountTypes
<1>14. ASSUME UndoTake
      PROVE  TypeOK'
  <2>1. RowTypes'
    BY <1>14, MoveAssumption, TypeParts DEF RowTypes, JobTypes, SetPhase, Phases,
       Rowless, Rows, UndoTake, UndoFails, Fault, Return, UndoOthers, rowVars,
       queueVars, nodeVars, jobVars, history, budgets
  <2>2. QueueTypes'
    BY <1>14, TypeParts, MoveAssumption DEF QueueTypes, Rows, UndoTake, UndoFails, Fault,
       Return, UndoOthers, rowVars, queueVars, nodeVars, jobVars, history, budgets
  <2>3. NodeTypes'
    BY <1>14, TypeParts, FromTo DEF NodeTypes, UndoTake, UndoFails, Fault, Return,
       UndoOthers, rowVars, queueVars, nodeVars, jobVars, history, budgets
  <2>4. JobTypes'
    BY <1>14, TypeParts, MoveAssumption DEF JobTypes, RowTypes, Unfinished, Ended,
       Phases, Rowless, Undoing, Rows, UndoTake, UndoFails, Fault, Return,
       UndoOthers, rowVars, queueVars, nodeVars, jobVars, history, budgets
  <2>5. CountTypes'
    BY <1>14, TypeParts, MoveAssumption DEF CountTypes, Rows, UndoTake, UndoFails, Fault,
       Return, UndoOthers, rowVars, queueVars, nodeVars, jobVars, history, budgets
  <2> QED
    BY <2>1, <2>2, <2>3, <2>4, <2>5
       DEF TypeOK, RowTypes, QueueTypes, NodeTypes, JobTypes, CountTypes
<1>15. ASSUME UndoRecord
      PROVE  TypeOK'
  <2>1. RowTypes'
    BY <1>15, MoveAssumption, TypeParts DEF RowTypes, JobTypes, SetPhase, Phases,
       Rowless, Rows, UndoRecord, Fault, Return, UndoOthers, rowVars, queueVars,
       nodeVars, jobVars, history, budgets
  <2>2. QueueTypes'
    BY <1>15, TypeParts, MoveAssumption DEF QueueTypes, Rows, UndoRecord, Fault, Return,
       UndoOthers, rowVars, queueVars, nodeVars, jobVars, history, budgets
  <2>3. NodeTypes'
    BY <1>15, TypeParts, FromTo DEF NodeTypes, UndoRecord, Fault, Return, UndoOthers,
       rowVars, queueVars, nodeVars, jobVars, history, budgets
  <2>4. JobTypes'
    BY <1>15, TypeParts, MoveAssumption DEF JobTypes, RowTypes, Unfinished, Ended,
       Phases, Rowless, Undoing, Rows, UndoRecord, Fault, Return, UndoOthers,
       rowVars, queueVars, nodeVars, jobVars, history, budgets
  <2>5. CountTypes'
    BY <1>15, TypeParts, MoveAssumption DEF CountTypes, Rows, UndoRecord, Fault, Return,
       UndoOthers, rowVars, queueVars, nodeVars, jobVars, history, budgets
  <2> QED
    BY <2>1, <2>2, <2>3, <2>4, <2>5
       DEF TypeOK, RowTypes, QueueTypes, NodeTypes, JobTypes, CountTypes
<1>16. ASSUME PanelDies
      PROVE  TypeOK'
  <2>1. RowTypes'
    BY <1>16, MoveAssumption, TypeParts DEF RowTypes, JobTypes, SetPhase, Phases,
       Rowless, Rows, PanelDies, Return, Fault, rowVars, queueVars, nodeVars,
       jobVars, history, budgets
  <2>2. QueueTypes'
    BY <1>16, TypeParts, MoveAssumption DEF QueueTypes, Rows, PanelDies, Return, Fault,
       rowVars, queueVars, nodeVars, jobVars, history, budgets
  <2>3. NodeTypes'
    BY <1>16, TypeParts, FromTo DEF NodeTypes, PanelDies, Return, Fault, rowVars,
       queueVars, nodeVars, jobVars, history, budgets
  <2>4. JobTypes'
    <3>1. cur' = 0 /\ pc' = "none" /\ mem' = "none" /\ todo' = {} /\ dead' = FALSE
      BY <1>16 DEF PanelDies, Return
    <3>2. 0 \in 0..MaxMoves
      BY MoveAssumption
    <3>3. dead' \in BOOLEAN
      BY <3>1
    <3> QED
      BY <3>1, <3>2, <3>3 DEF JobTypes, Phases, Rowless, Ended
  <2>5. CountTypes'
    <3>1. CountTypes
      BY TypeParts
    <3>2. faults' \in Nat
      BY <1>16, <3>1 DEF PanelDies, Fault, CountTypes
    <3>3. cuts' \in Nat /\ crashes' \in Nat
      BY <1>16, <3>1 DEF PanelDies, CountTypes
    <3>4. UNCHANGED <<history, moves, writes, stops, deploys, deaths>>
      BY <1>16 DEF PanelDies
    <3> QED
      BY <3>1, <3>2, <3>3, <3>4 DEF CountTypes, history
  <2> QED
    BY <2>1, <2>2, <2>3, <2>4, <2>5
       DEF TypeOK, RowTypes, QueueTypes, NodeTypes, JobTypes, CountTypes
<1>17. ASSUME NEW t \in Tiles, Stop(t)
      PROVE  TypeOK'
  <2>1. CASE ~Runs(envNode, t)
    BY <1>17, <2>1, FromTo, MoveAssumption DEF TypeOK, Phases, Rowless, Rows, Undoing,
       SetPhase, Stop, Working, Next1, Stops, Runs, SetCont, Others, rowVars,
       queueVars, nodeVars, jobVars, history, budgets
  <2>2. CASE Runs(envNode, t)
    <3>1. cont' \in [Nodes -> [Tiles -> {"none", "down", "up", "restarting"}]]
      BY <1>17, <2>2, FromTo, SetContType DEF Stop, Stops, TypeOK
    <3> QED
      BY <1>17, <2>2, <3>1, FromTo, MoveAssumption DEF TypeOK, Phases, Rowless, Rows,
         Undoing, SetPhase, Stop, Working, Next1, Stops, Runs, SetCont, Others,
         rowVars, queueVars, nodeVars, jobVars, history, budgets
  <2> QED
    BY <1>17, <2>1, <2>2 DEF Stop, Stops
<1>18. ASSUME NEW t \in Tiles, Copy(t)
      PROVE  TypeOK'
  BY <1>18, FromTo, MoveAssumption DEF TypeOK, Phases, Rowless, Rows, Undoing,
     SetPhase, Unfinished, Ended, Copy, Copying, Copied, Next1, Runs, Others,
     rowVars, queueVars, nodeVars, jobVars, history, budgets
<1>19. ASSUME NEW t \in Tiles, CopyFails(t)
      PROVE  TypeOK'
  <2>1. RowTypes'
    BY <1>19, MoveAssumption, TypeParts DEF RowTypes, JobTypes, SetPhase, Phases,
       Rowless, Rows, CopyFails, Copying, Others, Fails, RollBack, Return,
       ReachedStop, rowVars, queueVars, nodeVars, jobVars, history, budgets
  <2>2. QueueTypes'
    BY <1>19, TypeParts, MoveAssumption DEF QueueTypes, Rows, CopyFails, Copying, Others,
       Fails, RollBack, Return, ReachedStop, rowVars, queueVars, nodeVars, jobVars,
       history, budgets
  <2>3. NodeTypes'
    BY <1>19, TypeParts, FromTo DEF NodeTypes, CopyFails, Copying, Others, Fails,
       RollBack, Return, ReachedStop, rowVars, queueVars, nodeVars, jobVars, history,
       budgets
  <2>4. JobTypes'
    BY <1>19, TypeParts, MoveAssumption DEF JobTypes, RowTypes, Unfinished, Ended,
       Phases, Rowless, Undoing, Rows, CopyFails, Copying, Others, Fails, RollBack,
       Return, ReachedStop, rowVars, queueVars, nodeVars, jobVars, history, budgets
  <2>5. CountTypes'
    BY <1>19, TypeParts, MoveAssumption DEF CountTypes, Rows, CopyFails, Copying, Others,
       Fails, RollBack, Return, ReachedStop, rowVars, queueVars, nodeVars, jobVars,
       history, budgets
  <2> QED
    BY <2>1, <2>2, <2>3, <2>4, <2>5
       DEF TypeOK, RowTypes, QueueTypes, NodeTypes, JobTypes, CountTypes
<1>20. ASSUME NEW t \in Tiles, Start(t)
      PROVE  TypeOK'
  <2>1. cont' \in [Nodes -> [Tiles -> {"none", "down", "up", "restarting"}]]
    BY <1>20, FromTo, SetContType DEF Start, Next1, UndoClears, TypeOK
  <2> QED
    BY <1>20, <2>1, FromTo, MoveAssumption DEF TypeOK, Phases, Rowless, Rows, Undoing,
       SetPhase, Start, Working, Next1, SetCont, Others, rowVars, queueVars,
       nodeVars, jobVars, history, budgets
<1>21. ASSUME NEW t \in Tiles, StartFails(t)
      PROVE  TypeOK'
  <2>1. CASE UNCHANGED cont
    BY <1>21, <2>1, FromTo, MoveAssumption DEF TypeOK, Phases, Rowless, Rows, Undoing,
       SetPhase, StartFails, Working, SetCont, Others, Fails, RollBack, Return,
       ReachedStop, rowVars, queueVars, nodeVars, jobVars, history, budgets
  <2>2. CASE SetCont(To, t, "up")
    <3>1. cont' \in [Nodes -> [Tiles -> {"none", "down", "up", "restarting"}]]
      BY <1>21, <2>2, FromTo, SetContType DEF StartFails, Stops, TypeOK
    <3> QED
      BY <1>21, <2>2, <3>1, FromTo, MoveAssumption DEF TypeOK, Phases, Rowless, Rows,
         Undoing, SetPhase, StartFails, Working, SetCont, Others, Fails, RollBack,
         Return, ReachedStop, rowVars, queueVars, nodeVars, jobVars, history, budgets
  <2> QED
    BY <1>21, <2>1, <2>2 DEF StartFails, Stops
<1>22. ASSUME NEW t \in Tiles, Clean(t)
      PROVE  TypeOK'
  <2>1. cont' \in [Nodes -> [Tiles -> {"none", "down", "up", "restarting"}]]
    BY <1>22, FromTo, SetContType DEF Clean, Next1, UndoClears, TypeOK
  <2> QED
    BY <1>22, <2>1, FromTo, MoveAssumption DEF TypeOK, Phases, Rowless, Rows, Undoing,
       SetPhase, Clean, Working, Next1, SetCont, Others, rowVars, queueVars,
       nodeVars, jobVars, history, budgets
<1>23. ASSUME NEW t \in Tiles, UndoRemove(t)
      PROVE  TypeOK'
  <2>1. cont' \in [Nodes -> [Tiles -> {"none", "down", "up", "restarting"}]]
    BY <1>23, FromTo, SetContType DEF UndoRemove, Next1, UndoClears, TypeOK
  <2> QED
    BY <1>23, <2>1, FromTo, MoveAssumption DEF TypeOK, Phases, Rowless, Rows, Undoing,
       SetPhase, UndoRemove, UndoClears, SetCont, UndoOthers, rowVars, queueVars,
       nodeVars, jobVars, history, budgets
<1>24. ASSUME NEW t \in Tiles, UndoStart(t)
      PROVE  TypeOK'
  <2>1. RowTypes'
    BY <1>24, MoveAssumption, TypeParts DEF RowTypes, JobTypes, SetPhase, Phases,
       Rowless, Rows, UndoStart, SetCont, UndoFails, Fault, Return, UndoOthers,
       rowVars, queueVars, nodeVars, jobVars, history, budgets
  <2>2. QueueTypes'
    BY <1>24, TypeParts, MoveAssumption DEF QueueTypes, Rows, UndoStart, SetCont,
       UndoFails, Fault, Return, UndoOthers, rowVars, queueVars, nodeVars, jobVars,
       history, budgets
  <2>3. NodeTypes'
    <3>1. cont' \in [Nodes -> [Tiles -> {"none", "down", "up", "restarting"}]]
      BY <1>24, FromTo, SetContType DEF UndoStart, TypeOK
    <3> QED
      BY <1>24, <3>1, TypeParts DEF UndoStart, NodeTypes
  <2>4. JobTypes'
    BY <1>24, TypeParts, MoveAssumption DEF JobTypes, RowTypes, Unfinished, Ended,
       Phases, Rowless, Undoing, Rows, UndoStart, SetCont, UndoFails, Fault, Return,
       UndoOthers, rowVars, queueVars, nodeVars, jobVars, history, budgets
  <2>5. CountTypes'
    BY <1>24, TypeParts, MoveAssumption DEF CountTypes, Rows, UndoStart, SetCont,
       UndoFails, Fault, Return, UndoOthers, rowVars, queueVars, nodeVars, jobVars,
       history, budgets
  <2> QED
    BY <2>1, <2>2, <2>3, <2>4, <2>5
       DEF TypeOK, RowTypes, QueueTypes, NodeTypes, JobTypes, CountTypes
<1>25. ASSUME NEW t \in Tiles, Deploy(t)
      PROVE  TypeOK'
  <2>1. cont' \in [Nodes -> [Tiles -> {"none", "down", "up", "restarting"}]]
    BY <1>25, FromTo, SetContType DEF Deploy, Next1, UndoClears, TypeOK
  <2> QED
    BY <1>25, <2>1, FromTo, MoveAssumption DEF TypeOK, Phases, Rowless, Rows, Undoing,
       SetPhase, Deploy, SetCont, rowVars, queueVars, nodeVars, jobVars, history,
       budgets
<1>26. ASSUME NEW n \in Nodes, NEW t \in Tiles, Write(n, t)
      PROVE  TypeOK'
  <2>1. RowTypes'
    BY <1>26, MoveAssumption, TypeParts DEF RowTypes, JobTypes, SetPhase, Phases,
       Rowless, Rows, Write, Runs, rowVars, queueVars, nodeVars, jobVars, history,
       budgets
  <2>2. QueueTypes'
    BY <1>26, TypeParts, MoveAssumption DEF QueueTypes, Rows, Write, Runs, rowVars,
       queueVars, nodeVars, jobVars, history, budgets
  <2>3. NodeTypes'
    BY <1>26, TypeParts, FromTo, MoveAssumption DEF NodeTypes, CountTypes, Write, Runs,
       rowVars, queueVars, nodeVars, jobVars, history, budgets
  <2>4. JobTypes'
    BY <1>26, TypeParts, MoveAssumption DEF JobTypes, RowTypes, Unfinished, Ended,
       Phases, Rowless, Undoing, Rows, Write, Runs, rowVars, queueVars, nodeVars,
       jobVars, history, budgets
  <2>5. CountTypes'
    BY <1>26, TypeParts, MoveAssumption DEF CountTypes, Rows, Write, Runs, rowVars,
       queueVars, nodeVars, jobVars, history, budgets
  <2> QED
    BY <2>1, <2>2, <2>3, <2>4, <2>5
       DEF TypeOK, RowTypes, QueueTypes, NodeTypes, JobTypes, CountTypes
<1>27. ASSUME NEW n \in Nodes, NEW t \in Tiles, Dies(n, t)
      PROVE  TypeOK'
  <2>1. cont' \in [Nodes -> [Tiles -> {"none", "down", "up", "restarting"}]]
    BY <1>27, FromTo, SetContType DEF Dies, Next1, UndoClears, TypeOK
  <2> QED
    BY <1>27, <2>1, FromTo, MoveAssumption DEF TypeOK, Phases, Rowless, Rows, Undoing,
       SetPhase, Dies, Runs, SetCont, rowVars, queueVars, nodeVars, jobVars, history,
       budgets
<1>28. ASSUME NEW n \in Nodes, NEW t \in Tiles, Restarts(n, t)
      PROVE  TypeOK'
  <2>1. cont' \in [Nodes -> [Tiles -> {"none", "down", "up", "restarting"}]]
    BY <1>28, FromTo, SetContType DEF Restarts, Next1, UndoClears, TypeOK
  <2> QED
    BY <1>28, <2>1, FromTo, MoveAssumption DEF TypeOK, Phases, Rowless, Rows, Undoing,
       SetPhase, Restarts, SetCont, rowVars, queueVars, nodeVars, jobVars, history,
       budgets
<1>29. CASE UNCHANGED vars
  BY <1>29 DEF TypeOK, Phases, Rowless, Rows, Undoing, SetPhase, Unfinished, Ended,
     vars, rowVars, queueVars, nodeVars, jobVars, history, budgets
<1> QED
  BY <1>1, <1>2, <1>3, <1>4, <1>5, <1>6, <1>7, <1>8, <1>9, <1>10, <1>11, <1>12,
     <1>13, <1>14, <1>15, <1>16, <1>17, <1>18, <1>19, <1>20, <1>21, <1>22, <1>23,
     <1>24, <1>25, <1>26, <1>27, <1>28, <1>29 DEF Next

(* The running job's write of its row keeps rows, requests and jobs.       *)
LEMMA RowWritten ==
  ASSUME TypeOK, RowFollows, pc # "none", UNCHANGED <<from, to, job, resume, newest, moves>>,
         UNCHANGED phase \/ \E p \in Phases \ Rowless : SetPhase(cur, p),
         \/ cur' = 0 /\ pc' = "none"
         \/ /\ cur' = cur /\ pc' # "none"
            /\ UNCHANGED phase \/ \E p \in Phases \ Rowless : ~Ended(p) /\ SetPhase(cur, p)
  PROVE  RowFollows'
<1>1. cur \in Rows /\ Unfinished(cur)
  BY MoveAssumption DEF RowFollows, TypeOK, Rows
<1>2. \A i \in 0..MaxMoves : i # cur => phase'[i] = phase[i]
  BY DEF SetPhase, TypeOK
<1>3. phase'[cur] \notin Rowless /\ phase[cur] \notin Rowless
  BY <1>1 DEF SetPhase, TypeOK, Rows, Unfinished
<1>4. cur' # 0 => cur' = cur /\ pc' # "none" /\ ~Ended(phase'[cur])
  BY <1>1 DEF SetPhase, TypeOK, Rows, Unfinished, RowFollows
<1>5. cur \in 0..MaxMoves /\ newest \in 0..MaxMoves /\ resume \subseteq 0..MaxMoves
  BY MoveAssumption DEF TypeOK, Rows
<1>6. cur # 0 /\ cur <= moves
  BY <1>3, <1>5, MoveAssumption DEF RowFollows, Rowless, TypeOK
<1> QED
  BY <1>1, <1>2, <1>3, <1>4, <1>5, <1>6, MoveAssumption
     DEF RowFollows, NPhase, Rowless, Rows, Unfinished

(* Every step keeps rows, requests and jobs together.                      *)
LEMMA RowStep == TypeOK /\ RowFollows /\ [Next]_vars => RowFollows'
<1> SUFFICES ASSUME TypeOK /\ RowFollows, [Next]_vars PROVE RowFollows'
  OBVIOUS
<1>1. ASSUME NEW n \in Nodes, Ask(n)
      PROVE  RowFollows'
  BY <1>1, MoveAssumption DEF RowFollows, TypeOK, Phases, Rows, Rowless, Unfinished,
     Ended, Undoing, NPhase, SetPhase, NextPhase, Live, Ask, rowVars, queueVars,
     nodeVars, jobVars, history, budgets
<1>2. ASSUME NEW i \in Rows, NEW l \in LiveMoves, Create(i, l)
      PROVE  RowFollows'
  BY <1>2, MoveAssumption DEF RowFollows, TypeOK, Phases, Rows, Rowless, Unfinished,
     Ended, Undoing, NPhase, SetPhase, NextPhase, Live, Create, MayBegin, rowVars,
     queueVars, nodeVars, jobVars, history, budgets
<1>3. ASSUME NEW i \in Rows, Check(i)
      PROVE  RowFollows'
  BY <1>3, MoveAssumption DEF RowFollows, TypeOK, Phases, Rows, Rowless, Unfinished,
     Ended, Undoing, NPhase, SetPhase, NextPhase, Live, Check, MayBegin, rowVars,
     queueVars, nodeVars, jobVars, history, budgets
<1>4. ASSUME NEW i \in Rows, CreateFails(i)
      PROVE  RowFollows'
  BY <1>4, MoveAssumption DEF RowFollows, TypeOK, Phases, Rows, Rowless, Unfinished,
     Ended, Undoing, NPhase, SetPhase, NextPhase, Live, CreateFails, rowVars,
     queueVars, nodeVars, jobVars, history, budgets
<1>5. ASSUME NEW i \in Rows, QueueJob(i)
      PROVE  RowFollows'
  BY <1>5, MoveAssumption DEF RowFollows, TypeOK, Phases, Rows, Rowless, Unfinished,
     Ended, Undoing, NPhase, SetPhase, NextPhase, Live, QueueJob, Enqueue, rowVars,
     queueVars, nodeVars, jobVars, history, budgets
<1>6. ASSUME NEW i \in Rows, Resume(i)
      PROVE  RowFollows'
  <2>1. i \in 0..MaxMoves /\ phase[i] \notin Rowless /\ resume' \subseteq resume
    BY <1>6, MoveAssumption DEF Resume, RowFollows, Rows
  <2>2. \A j \in 0..MaxMoves : job'[j] = job[j] \/ job'[j] = "none" \/ (j = i /\ job'[j] = "queued")
    BY <1>6 DEF Resume, Enqueue, TypeOK
  <2>3. UNCHANGED <<rowVars, cur, pc, newest, moves>>
    BY <1>6 DEF Resume, history
  <2>4. Rows \subseteq 0..MaxMoves
    BY MoveAssumption DEF Rows
  <2> QED
    BY <2>1, <2>2, <2>3, <2>4 DEF RowFollows, NPhase, Unfinished, rowVars, TypeOK, Rowless
<1>7. ASSUME NEW i \in Rows, StartJob(i)
      PROVE  RowFollows'
  BY <1>7, MoveAssumption DEF RowFollows, TypeOK, Phases, Rows, Rowless, Unfinished,
     Ended, Undoing, NPhase, SetPhase, NextPhase, Live, StartJob, Enter, Fault,
     rowVars, queueVars, nodeVars, jobVars, history, budgets
<1>8. ASSUME NEW i \in Rows, PressStop(i)
      PROVE  RowFollows'
  BY <1>8, MoveAssumption DEF RowFollows, TypeOK, Phases, Rows, Rowless, Unfinished,
     Ended, Undoing, NPhase, SetPhase, NextPhase, Live, PressStop, rowVars,
     queueVars, nodeVars, jobVars, history, budgets
<1>9. ASSUME Prepare
      PROVE  RowFollows'
  BY <1>9, MoveAssumption DEF RowFollows, TypeOK, Phases, Rows, Rowless, Unfinished,
     Ended, Undoing, NPhase, SetPhase, NextPhase, Live, Prepare, Working, Worked,
     Others, Fails, RollBack, Return, ReachedStop, rowVars, queueVars, nodeVars,
     jobVars, history, budgets
<1>10. ASSUME Take
      PROVE  RowFollows'
  BY <1>10, MoveAssumption DEF RowFollows, TypeOK, Phases, Rows, Rowless, Unfinished,
     Ended, Undoing, NPhase, SetPhase, NextPhase, Live, Take, Others, Fails,
     RollBack, Return, ReachedStop, rowVars, queueVars, nodeVars, jobVars, history,
     budgets
<1>11. ASSUME LoopEnds
      PROVE  RowFollows'
  BY <1>11, MoveAssumption DEF RowFollows, TypeOK, Phases, Rows, Rowless, Unfinished,
     Ended, Undoing, NPhase, SetPhase, NextPhase, Live, LoopEnds, Worked, Others,
     Fails, RollBack, Return, ReachedStop, rowVars, queueVars, nodeVars, jobVars,
     history, budgets
<1>12. ASSUME Record
      PROVE  RowFollows'
  <2>1. pc # "none" /\ UNCHANGED <<from, to, job, resume, newest, moves>>
    BY <1>12 DEF Record, Undoing, Others, UndoOthers, rowVars, queueVars, history, budgets
  <2>2. NextPhase(mem) \in Phases \ Rowless
    BY <1>12 DEF Record, TypeOK, NextPhase, Phases, Rowless
  <2>3. \/ cur' = 0 /\ pc' = "none"
        \/ /\ cur' = cur /\ pc' # "none"
           /\ UNCHANGED phase \/ \E p \in Phases \ Rowless : ~Ended(p) /\ SetPhase(cur, p)
    BY <1>12, <2>2 DEF Record, Recorded, NotRecorded, Return, Enter, RollBack
  <2>4. UNCHANGED phase \/ \E p \in Phases \ Rowless : SetPhase(cur, p)
    BY <1>12, <2>2 DEF Record, Recorded, NotRecorded
  <2> QED
    BY <2>1, <2>3, <2>4, RowWritten
<1>13. ASSUME UndoRemoveEnds
      PROVE  RowFollows'
  BY <1>13, MoveAssumption DEF RowFollows, TypeOK, Phases, Rows, Rowless, Unfinished,
     Ended, Undoing, NPhase, SetPhase, NextPhase, Live, UndoRemoveEnds, Fault,
     UndoOthers, rowVars, queueVars, nodeVars, jobVars, history, budgets
<1>14. ASSUME UndoTake
      PROVE  RowFollows'
  <2>0. mem \in Phases \ Rowless
    BY <1>14 DEF UndoTake, TypeOK, Undoing
  <2>1. pc # "none" /\ UNCHANGED <<from, to, job, resume, newest, moves>>
    BY <1>14 DEF UndoTake, Undoing, Others, UndoOthers, rowVars, queueVars, history,
       budgets
  <2>2. UNCHANGED phase \/ \E p \in Phases \ Rowless : SetPhase(cur, p)
    BY <1>14, <2>0 DEF UndoTake, UndoFails
  <2>3. \/ cur' = 0 /\ pc' = "none"
        \/ cur' = cur /\ pc' # "none" /\ UNCHANGED phase
    BY <1>14 DEF UndoTake, UndoFails, Return
  <2> QED
    BY <2>1, <2>2, <2>3, RowWritten
<1>15. ASSUME UndoRecord
      PROVE  RowFollows'
  BY <1>15, MoveAssumption DEF RowFollows, TypeOK, Phases, Rows, Rowless, Unfinished,
     Ended, Undoing, NPhase, SetPhase, NextPhase, Live, UndoRecord, Fault, Return,
     UndoOthers, rowVars, queueVars, nodeVars, jobVars, history, budgets
<1>16. ASSUME PanelDies
      PROVE  RowFollows'
  BY <1>16, MoveAssumption DEF RowFollows, TypeOK, Phases, Rows, Rowless, Unfinished,
     Ended, Undoing, NPhase, SetPhase, NextPhase, Live, PanelDies, Return, Fault,
     rowVars, queueVars, nodeVars, jobVars, history, budgets
<1>17. ASSUME NEW t \in Tiles, Stop(t)
      PROVE  RowFollows'
  BY <1>17, MoveAssumption DEF RowFollows, TypeOK, Phases, Rows, Rowless, Unfinished,
     Ended, Undoing, NPhase, SetPhase, NextPhase, Live, Stop, Working, Next1, Stops,
     Runs, SetCont, Others, rowVars, queueVars, nodeVars, jobVars, history, budgets
<1>18. ASSUME NEW t \in Tiles, Copy(t)
      PROVE  RowFollows'
  BY <1>18, MoveAssumption DEF RowFollows, TypeOK, Phases, Rows, Rowless, Unfinished,
     Ended, Undoing, NPhase, SetPhase, NextPhase, Live, Copy, Copying, Copied, Next1,
     Runs, Others, rowVars, queueVars, nodeVars, jobVars, history, budgets
<1>19. ASSUME NEW t \in Tiles, CopyFails(t)
      PROVE  RowFollows'
  BY <1>19, MoveAssumption DEF RowFollows, TypeOK, Phases, Rows, Rowless, Unfinished,
     Ended, Undoing, NPhase, SetPhase, NextPhase, Live, CopyFails, Copying, Others,
     Fails, RollBack, Return, ReachedStop, rowVars, queueVars, nodeVars, jobVars,
     history, budgets
<1>20. ASSUME NEW t \in Tiles, Start(t)
      PROVE  RowFollows'
  BY <1>20, MoveAssumption DEF RowFollows, TypeOK, Phases, Rows, Rowless, Unfinished,
     Ended, Undoing, NPhase, SetPhase, NextPhase, Live, Start, Working, Next1,
     SetCont, Others, rowVars, queueVars, nodeVars, jobVars, history, budgets
<1>21. ASSUME NEW t \in Tiles, StartFails(t)
      PROVE  RowFollows'
  BY <1>21, MoveAssumption DEF RowFollows, TypeOK, Phases, Rows, Rowless, Unfinished,
     Ended, Undoing, NPhase, SetPhase, NextPhase, Live, StartFails, Working, SetCont,
     Others, Fails, RollBack, Return, ReachedStop, rowVars, queueVars, nodeVars,
     jobVars, history, budgets
<1>22. ASSUME NEW t \in Tiles, Clean(t)
      PROVE  RowFollows'
  BY <1>22, MoveAssumption DEF RowFollows, TypeOK, Phases, Rows, Rowless, Unfinished,
     Ended, Undoing, NPhase, SetPhase, NextPhase, Live, Clean, Working, Next1,
     SetCont, Others, rowVars, queueVars, nodeVars, jobVars, history, budgets
<1>23. ASSUME NEW t \in Tiles, UndoRemove(t)
      PROVE  RowFollows'
  BY <1>23, MoveAssumption DEF RowFollows, TypeOK, Phases, Rows, Rowless, Unfinished,
     Ended, Undoing, NPhase, SetPhase, NextPhase, Live, UndoRemove, UndoClears,
     SetCont, UndoOthers, rowVars, queueVars, nodeVars, jobVars, history, budgets
<1>24. ASSUME NEW t \in Tiles, UndoStart(t)
      PROVE  RowFollows'
  <2>0. mem \in Phases \ Rowless
    BY <1>24 DEF UndoStart, TypeOK, Undoing
  <2>1. pc # "none" /\ UNCHANGED <<from, to, job, resume, newest, moves>>
    BY <1>24 DEF UndoStart, Undoing, Others, UndoOthers, rowVars, queueVars, history,
       budgets
  <2>2. UNCHANGED phase \/ \E p \in Phases \ Rowless : SetPhase(cur, p)
    BY <1>24, <2>0 DEF UndoStart, UndoFails
  <2>3. \/ cur' = 0 /\ pc' = "none"
        \/ cur' = cur /\ pc' # "none" /\ UNCHANGED phase
    BY <1>24 DEF UndoStart, UndoFails, Return
  <2> QED
    BY <2>1, <2>2, <2>3, RowWritten
<1>25. ASSUME NEW t \in Tiles, Deploy(t)
      PROVE  RowFollows'
  BY <1>25, MoveAssumption DEF RowFollows, TypeOK, Phases, Rows, Rowless, Unfinished,
     Ended, Undoing, NPhase, SetPhase, NextPhase, Live, Deploy, SetCont, rowVars,
     queueVars, nodeVars, jobVars, history, budgets
<1>26. ASSUME NEW n \in Nodes, NEW t \in Tiles, Write(n, t)
      PROVE  RowFollows'
  BY <1>26, MoveAssumption DEF RowFollows, TypeOK, Phases, Rows, Rowless, Unfinished,
     Ended, Undoing, NPhase, SetPhase, NextPhase, Live, Write, Runs, rowVars,
     queueVars, nodeVars, jobVars, history, budgets
<1>27. ASSUME NEW n \in Nodes, NEW t \in Tiles, Dies(n, t)
      PROVE  RowFollows'
  BY <1>27, MoveAssumption DEF RowFollows, TypeOK, Phases, Rows, Rowless, Unfinished,
     Ended, Undoing, NPhase, SetPhase, NextPhase, Live, Dies, Runs, SetCont, rowVars,
     queueVars, nodeVars, jobVars, history, budgets
<1>28. ASSUME NEW n \in Nodes, NEW t \in Tiles, Restarts(n, t)
      PROVE  RowFollows'
  BY <1>28, MoveAssumption DEF RowFollows, TypeOK, Phases, Rows, Rowless, Unfinished,
     Ended, Undoing, NPhase, SetPhase, NextPhase, Live, Restarts, SetCont, rowVars,
     queueVars, nodeVars, jobVars, history, budgets
<1>29. CASE UNCHANGED vars
  BY <1>29 DEF RowFollows, TypeOK, Phases, Rows, Rowless, Unfinished, Ended, Undoing,
     NPhase, SetPhase, NextPhase, Live, vars, rowVars, queueVars, nodeVars, jobVars,
     history, budgets
<1> QED
  BY <1>1, <1>2, <1>3, <1>4, <1>5, <1>6, <1>7, <1>8, <1>9, <1>10, <1>11, <1>12,
     <1>13, <1>14, <1>15, <1>16, <1>17, <1>18, <1>19, <1>20, <1>21, <1>22, <1>23,
     <1>24, <1>25, <1>26, <1>27, <1>28, <1>29 DEF Next

(* Without a race every step keeps the newest row the only unfinished one. *)
LEMMA SoleStep == TypeOK /\ RowFollows /\ Sole /\ ~raced' /\ [Next]_vars => Sole'
<1> SUFFICES ASSUME TypeOK /\ RowFollows /\ Sole /\ ~raced', [Next]_vars PROVE Sole'
  OBVIOUS
<1>1. ASSUME NEW n \in Nodes, Ask(n)
      PROVE  Sole'
  BY <1>1, MoveAssumption DEF Sole, RowFollows, TypeOK, Phases, Rows, Rowless,
     Unfinished, Ended, Undoing, NPhase, SetPhase, NextPhase, Live, Ask, rowVars,
     queueVars, nodeVars, jobVars, history, budgets
<1>2. ASSUME NEW i \in Rows, NEW l \in LiveMoves, Create(i, l)
      PROVE  Sole'
  <2>1. MayBegin /\ cur = 0
    BY <1>2, CreateView DEF Create, TypeOK
  <2>2. newest' = i /\ phase'[i] = "queued" /\ \A j \in Rows : j # i => phase'[j] = phase[j]
    BY <1>2 DEF Create, SetPhase, TypeOK, Rows
  <2>3. \A j \in Rows : j # i => job'[j] = job[j]
    BY <1>2 DEF Create, TypeOK, Rows
  <2>4. \A j \in Rows : job[j] # "due"
    BY <2>1 DEF Sole, MayBegin, Unfinished, NPhase, Rowless, Ended
  <2>5. cur' = 0 /\ resume' = {}
    BY <1>2, <2>1 DEF Create, jobVars, RowFollows
  <2> QED
    BY <2>1, <2>2, <2>3, <2>4, <2>5 DEF Sole, MayBegin, Unfinished, NPhase
<1>3. ASSUME NEW i \in Rows, Check(i)
      PROVE  Sole'
  BY <1>3, MoveAssumption DEF Sole, RowFollows, TypeOK, Phases, Rows, Rowless,
     Unfinished, Ended, Undoing, NPhase, SetPhase, NextPhase, Live, Check, MayBegin,
     rowVars, queueVars, nodeVars, jobVars, history, budgets
<1>4. ASSUME NEW i \in Rows, CreateFails(i)
      PROVE  Sole'
  BY <1>4, MoveAssumption DEF Sole, RowFollows, TypeOK, Phases, Rows, Rowless,
     Unfinished, Ended, Undoing, NPhase, SetPhase, NextPhase, Live, CreateFails,
     rowVars, queueVars, nodeVars, jobVars, history, budgets
<1>5. ASSUME NEW i \in Rows, QueueJob(i)
      PROVE  Sole'
  BY <1>5, MoveAssumption DEF Sole, RowFollows, TypeOK, Phases, Rows, Rowless,
     Unfinished, Ended, Undoing, NPhase, SetPhase, NextPhase, Live, QueueJob,
     Enqueue, rowVars, queueVars, nodeVars, jobVars, history, budgets
<1>6. ASSUME NEW i \in Rows, Resume(i)
      PROVE  Sole'
  <2>1. resume' \subseteq resume /\ UNCHANGED <<phase, newest, cur>>
    BY <1>6 DEF Resume, rowVars, history
  <2>2. \A j \in Rows : job'[j] = "due" => job[j] = "due"
    BY <1>6, MoveAssumption DEF Resume, Enqueue, TypeOK, Rows
  <2> QED
    BY <2>1, <2>2 DEF Sole, Unfinished, NPhase
<1>7. ASSUME NEW i \in Rows, StartJob(i)
      PROVE  Sole'
  BY <1>7, MoveAssumption DEF Sole, RowFollows, TypeOK, Phases, Rows, Rowless,
     Unfinished, Ended, Undoing, NPhase, SetPhase, NextPhase, Live, StartJob, Enter,
     Fault, rowVars, queueVars, nodeVars, jobVars, history, budgets
<1>8. ASSUME NEW i \in Rows, PressStop(i)
      PROVE  Sole'
  BY <1>8, MoveAssumption DEF Sole, RowFollows, TypeOK, Phases, Rows, Rowless,
     Unfinished, Ended, Undoing, NPhase, SetPhase, NextPhase, Live, PressStop,
     rowVars, queueVars, nodeVars, jobVars, history, budgets
<1>9. ASSUME Prepare
      PROVE  Sole'
  BY <1>9, MoveAssumption DEF Sole, RowFollows, TypeOK, Phases, Rows, Rowless,
     Unfinished, Ended, Undoing, NPhase, SetPhase, NextPhase, Live, Prepare, Working,
     Worked, Others, Fails, RollBack, Return, ReachedStop, rowVars, queueVars,
     nodeVars, jobVars, history, budgets
<1>10. ASSUME Take
      PROVE  Sole'
  BY <1>10, MoveAssumption DEF Sole, RowFollows, TypeOK, Phases, Rows, Rowless,
     Unfinished, Ended, Undoing, NPhase, SetPhase, NextPhase, Live, Take, Others,
     Fails, RollBack, Return, ReachedStop, rowVars, queueVars, nodeVars, jobVars,
     history, budgets
<1>11. ASSUME LoopEnds
      PROVE  Sole'
  BY <1>11, MoveAssumption DEF Sole, RowFollows, TypeOK, Phases, Rows, Rowless,
     Unfinished, Ended, Undoing, NPhase, SetPhase, NextPhase, Live, LoopEnds, Worked,
     Others, Fails, RollBack, Return, ReachedStop, rowVars, queueVars, nodeVars,
     jobVars, history, budgets
<1>12. ASSUME Record
      PROVE  Sole'
  BY <1>12, MoveAssumption DEF Sole, RowFollows, TypeOK, Phases, Rows, Rowless,
     Unfinished, Ended, Undoing, NPhase, SetPhase, NextPhase, Live, Record, Recorded,
     NotRecorded, Enter, Others, RollBack, Return, ReachedStop, rowVars, queueVars,
     nodeVars, jobVars, history, budgets
<1>13. ASSUME UndoRemoveEnds
      PROVE  Sole'
  BY <1>13, MoveAssumption DEF Sole, RowFollows, TypeOK, Phases, Rows, Rowless,
     Unfinished, Ended, Undoing, NPhase, SetPhase, NextPhase, Live, UndoRemoveEnds,
     Fault, UndoOthers, rowVars, queueVars, nodeVars, jobVars, history, budgets
<1>14. ASSUME UndoTake
      PROVE  Sole'
  BY <1>14, MoveAssumption DEF Sole, RowFollows, TypeOK, Phases, Rows, Rowless,
     Unfinished, Ended, Undoing, NPhase, SetPhase, NextPhase, Live, UndoTake,
     UndoFails, Fault, Return, UndoOthers, rowVars, queueVars, nodeVars, jobVars,
     history, budgets
<1>15. ASSUME UndoRecord
      PROVE  Sole'
  BY <1>15, MoveAssumption DEF Sole, RowFollows, TypeOK, Phases, Rows, Rowless,
     Unfinished, Ended, Undoing, NPhase, SetPhase, NextPhase, Live, UndoRecord,
     Fault, Return, UndoOthers, rowVars, queueVars, nodeVars, jobVars, history,
     budgets
<1>16. ASSUME PanelDies
      PROVE  Sole'
  <2>1. newest' = newest /\ \A i \in Rows : job'[i] # "due"
    BY <1>16, MoveAssumption DEF PanelDies, TypeOK, Rows, history
  <2>2. resume' \subseteq {i \in Rows : Unfinished(i)}
    BY <1>16 DEF PanelDies
  <2>3. \A i \in Rows : Unfinished(i)' => Unfinished(i)
    BY <1>16, MoveAssumption DEF PanelDies, TypeOK, Rows, Unfinished, Rowless, Ended
  <2> QED
    BY <2>1, <2>2, <2>3 DEF Sole
<1>17. ASSUME NEW t \in Tiles, Stop(t)
      PROVE  Sole'
  BY <1>17, MoveAssumption DEF Sole, RowFollows, TypeOK, Phases, Rows, Rowless,
     Unfinished, Ended, Undoing, NPhase, SetPhase, NextPhase, Live, Stop, Working,
     Next1, Stops, Runs, SetCont, Others, rowVars, queueVars, nodeVars, jobVars,
     history, budgets
<1>18. ASSUME NEW t \in Tiles, Copy(t)
      PROVE  Sole'
  BY <1>18, MoveAssumption DEF Sole, RowFollows, TypeOK, Phases, Rows, Rowless,
     Unfinished, Ended, Undoing, NPhase, SetPhase, NextPhase, Live, Copy, Copying,
     Copied, Next1, Runs, Others, rowVars, queueVars, nodeVars, jobVars, history,
     budgets
<1>19. ASSUME NEW t \in Tiles, CopyFails(t)
      PROVE  Sole'
  BY <1>19, MoveAssumption DEF Sole, RowFollows, TypeOK, Phases, Rows, Rowless,
     Unfinished, Ended, Undoing, NPhase, SetPhase, NextPhase, Live, CopyFails,
     Copying, Others, Fails, RollBack, Return, ReachedStop, rowVars, queueVars,
     nodeVars, jobVars, history, budgets
<1>20. ASSUME NEW t \in Tiles, Start(t)
      PROVE  Sole'
  BY <1>20, MoveAssumption DEF Sole, RowFollows, TypeOK, Phases, Rows, Rowless,
     Unfinished, Ended, Undoing, NPhase, SetPhase, NextPhase, Live, Start, Working,
     Next1, SetCont, Others, rowVars, queueVars, nodeVars, jobVars, history, budgets
<1>21. ASSUME NEW t \in Tiles, StartFails(t)
      PROVE  Sole'
  BY <1>21, MoveAssumption DEF Sole, RowFollows, TypeOK, Phases, Rows, Rowless,
     Unfinished, Ended, Undoing, NPhase, SetPhase, NextPhase, Live, StartFails,
     Working, SetCont, Others, Fails, RollBack, Return, ReachedStop, rowVars,
     queueVars, nodeVars, jobVars, history, budgets
<1>22. ASSUME NEW t \in Tiles, Clean(t)
      PROVE  Sole'
  BY <1>22, MoveAssumption DEF Sole, RowFollows, TypeOK, Phases, Rows, Rowless,
     Unfinished, Ended, Undoing, NPhase, SetPhase, NextPhase, Live, Clean, Working,
     Next1, SetCont, Others, rowVars, queueVars, nodeVars, jobVars, history, budgets
<1>23. ASSUME NEW t \in Tiles, UndoRemove(t)
      PROVE  Sole'
  BY <1>23, MoveAssumption DEF Sole, RowFollows, TypeOK, Phases, Rows, Rowless,
     Unfinished, Ended, Undoing, NPhase, SetPhase, NextPhase, Live, UndoRemove,
     UndoClears, SetCont, UndoOthers, rowVars, queueVars, nodeVars, jobVars, history,
     budgets
<1>24. ASSUME NEW t \in Tiles, UndoStart(t)
      PROVE  Sole'
  BY <1>24, MoveAssumption DEF Sole, RowFollows, TypeOK, Phases, Rows, Rowless,
     Unfinished, Ended, Undoing, NPhase, SetPhase, NextPhase, Live, UndoStart,
     SetCont, UndoFails, Fault, Return, UndoOthers, rowVars, queueVars, nodeVars,
     jobVars, history, budgets
<1>25. ASSUME NEW t \in Tiles, Deploy(t)
      PROVE  Sole'
  BY <1>25, MoveAssumption DEF Sole, RowFollows, TypeOK, Phases, Rows, Rowless,
     Unfinished, Ended, Undoing, NPhase, SetPhase, NextPhase, Live, Deploy, SetCont,
     rowVars, queueVars, nodeVars, jobVars, history, budgets
<1>26. ASSUME NEW n \in Nodes, NEW t \in Tiles, Write(n, t)
      PROVE  Sole'
  BY <1>26, MoveAssumption DEF Sole, RowFollows, TypeOK, Phases, Rows, Rowless,
     Unfinished, Ended, Undoing, NPhase, SetPhase, NextPhase, Live, Write, Runs,
     rowVars, queueVars, nodeVars, jobVars, history, budgets
<1>27. ASSUME NEW n \in Nodes, NEW t \in Tiles, Dies(n, t)
      PROVE  Sole'
  BY <1>27, MoveAssumption DEF Sole, RowFollows, TypeOK, Phases, Rows, Rowless,
     Unfinished, Ended, Undoing, NPhase, SetPhase, NextPhase, Live, Dies, Runs,
     SetCont, rowVars, queueVars, nodeVars, jobVars, history, budgets
<1>28. ASSUME NEW n \in Nodes, NEW t \in Tiles, Restarts(n, t)
      PROVE  Sole'
  BY <1>28, MoveAssumption DEF Sole, RowFollows, TypeOK, Phases, Rows, Rowless,
     Unfinished, Ended, Undoing, NPhase, SetPhase, NextPhase, Live, Restarts,
     SetCont, rowVars, queueVars, nodeVars, jobVars, history, budgets
<1>29. CASE UNCHANGED vars
  BY <1>29 DEF Sole, RowFollows, TypeOK, Phases, Rows, Rowless, Unfinished, Ended,
     Undoing, NPhase, SetPhase, NextPhase, Live, vars, rowVars, queueVars, nodeVars,
     jobVars, history, budgets
<1> QED
  BY <1>1, <1>2, <1>3, <1>4, <1>5, <1>6, <1>7, <1>8, <1>9, <1>10, <1>11, <1>12,
     <1>13, <1>14, <1>15, <1>16, <1>17, <1>18, <1>19, <1>20, <1>21, <1>22, <1>23,
     <1>24, <1>25, <1>26, <1>27, <1>28, <1>29 DEF Next

(* Without a race every step keeps the job on its row's phase.             *)
LEMMA JobStep ==
  TypeOK /\ RowFollows /\ Sole /\ JobFollows /\ ~raced' /\ [Next]_vars => JobFollows'
<1> SUFFICES ASSUME TypeOK /\ RowFollows /\ Sole /\ JobFollows /\ ~raced', [Next]_vars
             PROVE  JobFollows'
  OBVIOUS
<1>1. ASSUME NEW n \in Nodes, Ask(n)
      PROVE  JobFollows'
  BY <1>1, NewestTyped, QuietView DEF JobFollows, Unfinished, Ended, Undoing,
     NextPhase, Live, ReachedStop, TypeOK, Phases, Rowless, Ask, rowVars, queueVars,
     nodeVars, jobVars, history, budgets
<1>2. ASSUME NEW i \in Rows, NEW l \in LiveMoves, Create(i, l)
      PROVE  JobFollows'
  BY <1>2, NewestTyped, CreateView DEF JobFollows, Unfinished, Ended, Undoing,
     NextPhase, Live, ReachedStop, TypeOK, Phases, Rowless, Create, MayBegin,
     rowVars, queueVars, nodeVars, jobVars, history, budgets
<1>3. ASSUME NEW i \in Rows, Check(i)
      PROVE  JobFollows'
  BY <1>3, NewestTyped, QuietView DEF JobFollows, Unfinished, Ended, Undoing,
     NextPhase, Live, ReachedStop, TypeOK, Phases, Rowless, Check, MayBegin, rowVars,
     queueVars, nodeVars, jobVars, history, budgets
<1>4. ASSUME NEW i \in Rows, CreateFails(i)
      PROVE  JobFollows'
  BY <1>4, NewestTyped, QuietView DEF JobFollows, Unfinished, Ended, Undoing,
     NextPhase, Live, ReachedStop, TypeOK, Phases, Rowless, CreateFails, rowVars,
     queueVars, nodeVars, jobVars, history, budgets
<1>5. ASSUME NEW i \in Rows, QueueJob(i)
      PROVE  JobFollows'
  BY <1>5, NewestTyped, Differ, KeptView DEF JobFollows, Unfinished, Ended, Undoing,
     NextPhase, Live, ReachedStop, TypeOK, Phases, Rowless, QueueJob, Enqueue,
     rowVars, queueVars, nodeVars, jobVars, history, budgets
<1>6. ASSUME NEW i \in Rows, Resume(i)
      PROVE  JobFollows'
  BY <1>6, NewestTyped, Differ, KeptView DEF JobFollows, Unfinished, Ended, Undoing,
     NextPhase, Live, ReachedStop, TypeOK, Phases, Rowless, Resume, Enqueue, Fault,
     rowVars, queueVars, nodeVars, jobVars, history, budgets
<1>7. ASSUME NEW i \in Rows, StartJob(i)
      PROVE  JobFollows'
  <2>1. CASE Unfinished(i) /\ cur' = i /\ Enter(phase[i])
    <3>1. i = newest
      BY <2>1 DEF Sole
    <3>2. NPhase' = NPhase /\ mem' = NPhase /\ todo' = Tiles
          /\ pc' = IF NPhase = "starting" THEN "take" ELSE "work"
      BY <1>7, <2>1, <3>1 DEF StartJob, Enter, NPhase, rowVars, history
    <3> QED
      BY <3>2 DEF JobFollows, Undoing
  <2>2. CASE UNCHANGED <<cur, pc, mem, todo>>
    <3>1. pc' = "none"
      BY <1>7, <2>2 DEF StartJob, RowFollows
    <3> QED
      BY <3>1 DEF JobFollows, Undoing
  <2> QED
    BY <1>7, <2>1, <2>2 DEF StartJob
<1>8. ASSUME NEW i \in Rows, PressStop(i)
      PROVE  JobFollows'
  BY <1>8, NewestTyped, Differ, KeptView DEF JobFollows, Unfinished, Ended, Undoing,
     NextPhase, Live, ReachedStop, TypeOK, Phases, Rowless, PressStop, rowVars,
     queueVars, nodeVars, jobVars, history, budgets
<1>9. ASSUME Prepare
      PROVE  JobFollows'
  BY <1>9, NewestTyped, JobRow, Differ, KeptView DEF JobFollows, Unfinished, Ended,
     Undoing, NextPhase, Live, ReachedStop, TypeOK, Phases, Rowless, Prepare,
     Working, Worked, Others, Fails, RollBack, Return, rowVars, queueVars, nodeVars,
     jobVars, history, budgets
<1>10. ASSUME Take
      PROVE  JobFollows'
  BY <1>10, NewestTyped, JobRow, Differ, KeptView DEF JobFollows, Unfinished, Ended,
     Undoing, NextPhase, Live, ReachedStop, TypeOK, Phases, Rowless, Take, Others,
     Fails, RollBack, Return, rowVars, queueVars, nodeVars, jobVars, history, budgets
<1>11. ASSUME LoopEnds
      PROVE  JobFollows'
  BY <1>11, NewestTyped, JobRow, Differ, KeptView DEF JobFollows, Unfinished, Ended,
     Undoing, NextPhase, Live, ReachedStop, TypeOK, Phases, Rowless, LoopEnds,
     Worked, Others, Fails, RollBack, Return, rowVars, queueVars, nodeVars, jobVars,
     history, budgets
<1>12. ASSUME Record
      PROVE  JobFollows'
  BY <1>12, NewestTyped, JobRow, Differ, UndoKept, WriteNext DEF JobFollows,
     Unfinished, Ended, Undoing, NextPhase, Live, ReachedStop, TypeOK, Phases,
     Rowless, Record, Recorded, NotRecorded, Enter, Others, RollBack, Return,
     rowVars, queueVars, nodeVars, jobVars, history, budgets
<1>13. ASSUME UndoRemoveEnds
      PROVE  JobFollows'
  BY <1>13, NewestTyped, JobRow, Differ, KeptView DEF JobFollows, Unfinished, Ended,
     Undoing, NextPhase, Live, ReachedStop, TypeOK, Phases, Rowless, UndoRemoveEnds,
     Fault, UndoOthers, rowVars, queueVars, nodeVars, jobVars, history, budgets
<1>14. ASSUME UndoTake
      PROVE  JobFollows'
  BY <1>14, NewestTyped, JobRow, Differ, UndoKept, WriteMem DEF JobFollows,
     Unfinished, Ended, Undoing, NextPhase, Live, ReachedStop, TypeOK, Phases,
     Rowless, UndoTake, UndoFails, Fault, Return, UndoOthers, rowVars, queueVars,
     nodeVars, jobVars, history, budgets
<1>15. ASSUME UndoRecord
      PROVE  JobFollows'
  BY <1>15, NewestTyped, JobRow, Differ, UndoKept, WriteBack DEF JobFollows,
     Unfinished, Ended, Undoing, NextPhase, Live, ReachedStop, TypeOK, Phases,
     Rowless, UndoRecord, Fault, Return, UndoOthers, rowVars, queueVars, nodeVars,
     jobVars, history, budgets
<1>16. ASSUME PanelDies
      PROVE  JobFollows'
  BY <1>16, NewestTyped, QuietView DEF JobFollows, Unfinished, Ended, Undoing,
     NextPhase, Live, ReachedStop, TypeOK, Phases, Rowless, PanelDies, Return, Fault,
     rowVars, queueVars, nodeVars, jobVars, history, budgets
<1>17. ASSUME NEW t \in Tiles, Stop(t)
      PROVE  JobFollows'
  BY <1>17, NewestTyped, JobRow, Differ, KeptView DEF JobFollows, Unfinished, Ended,
     Undoing, NextPhase, Live, ReachedStop, TypeOK, Phases, Rowless, Stop, Working,
     Next1, Stops, Runs, SetCont, Others, rowVars, queueVars, nodeVars, jobVars,
     history, budgets
<1>18. ASSUME NEW t \in Tiles, Copy(t)
      PROVE  JobFollows'
  BY <1>18, NewestTyped, JobRow, Differ, KeptView DEF JobFollows, Unfinished, Ended,
     Undoing, NextPhase, Live, ReachedStop, TypeOK, Phases, Rowless, Copy, Copying,
     Copied, Next1, Runs, Others, rowVars, queueVars, nodeVars, jobVars, history,
     budgets
<1>19. ASSUME NEW t \in Tiles, CopyFails(t)
      PROVE  JobFollows'
  BY <1>19, NewestTyped, JobRow, Differ, KeptView DEF JobFollows, Unfinished, Ended,
     Undoing, NextPhase, Live, ReachedStop, TypeOK, Phases, Rowless, CopyFails,
     Copying, Others, Fails, RollBack, Return, rowVars, queueVars, nodeVars, jobVars,
     history, budgets
<1>20. ASSUME NEW t \in Tiles, Start(t)
      PROVE  JobFollows'
  BY <1>20, NewestTyped, JobRow, Differ, KeptView DEF JobFollows, Unfinished, Ended,
     Undoing, NextPhase, Live, ReachedStop, TypeOK, Phases, Rowless, Start, Working,
     Next1, SetCont, Others, rowVars, queueVars, nodeVars, jobVars, history, budgets
<1>21. ASSUME NEW t \in Tiles, StartFails(t)
      PROVE  JobFollows'
  BY <1>21, NewestTyped, JobRow, Differ, KeptView DEF JobFollows, Unfinished, Ended,
     Undoing, NextPhase, Live, ReachedStop, TypeOK, Phases, Rowless, StartFails,
     Working, SetCont, Others, Fails, RollBack, Return, rowVars, queueVars, nodeVars,
     jobVars, history, budgets
<1>22. ASSUME NEW t \in Tiles, Clean(t)
      PROVE  JobFollows'
  BY <1>22, NewestTyped, JobRow, Differ, KeptView DEF JobFollows, Unfinished, Ended,
     Undoing, NextPhase, Live, ReachedStop, TypeOK, Phases, Rowless, Clean, Working,
     Next1, SetCont, Others, rowVars, queueVars, nodeVars, jobVars, history, budgets
<1>23. ASSUME NEW t \in Tiles, UndoRemove(t)
      PROVE  JobFollows'
  BY <1>23, NewestTyped, JobRow, Differ, KeptView DEF JobFollows, Unfinished, Ended,
     Undoing, NextPhase, Live, ReachedStop, TypeOK, Phases, Rowless, UndoRemove,
     UndoClears, SetCont, UndoOthers, rowVars, queueVars, nodeVars, jobVars, history,
     budgets
<1>24. ASSUME NEW t \in Tiles, UndoStart(t)
      PROVE  JobFollows'
  BY <1>24, NewestTyped, JobRow, Differ, UndoKept, WriteMem DEF JobFollows,
     Unfinished, Ended, Undoing, NextPhase, Live, ReachedStop, TypeOK, Phases,
     Rowless, UndoStart, SetCont, UndoFails, Fault, Return, UndoOthers, rowVars,
     queueVars, nodeVars, jobVars, history, budgets
<1>25. ASSUME NEW t \in Tiles, Deploy(t)
      PROVE  JobFollows'
  BY <1>25, NewestTyped, Differ, KeptView DEF JobFollows, Unfinished, Ended, Undoing,
     NextPhase, Live, ReachedStop, TypeOK, Phases, Rowless, Deploy, SetCont, rowVars,
     queueVars, nodeVars, jobVars, history, budgets
<1>26. ASSUME NEW n \in Nodes, NEW t \in Tiles, Write(n, t)
      PROVE  JobFollows'
  BY <1>26, NewestTyped, Differ, KeptView DEF JobFollows, Unfinished, Ended, Undoing,
     NextPhase, Live, ReachedStop, TypeOK, Phases, Rowless, Write, Runs, rowVars,
     queueVars, nodeVars, jobVars, history, budgets
<1>27. ASSUME NEW n \in Nodes, NEW t \in Tiles, Dies(n, t)
      PROVE  JobFollows'
  BY <1>27, NewestTyped, Differ, KeptView DEF JobFollows, Unfinished, Ended, Undoing,
     NextPhase, Live, ReachedStop, TypeOK, Phases, Rowless, Dies, Runs, SetCont,
     rowVars, queueVars, nodeVars, jobVars, history, budgets
<1>28. ASSUME NEW n \in Nodes, NEW t \in Tiles, Restarts(n, t)
      PROVE  JobFollows'
  BY <1>28, NewestTyped, Differ, KeptView DEF JobFollows, Unfinished, Ended, Undoing,
     NextPhase, Live, ReachedStop, TypeOK, Phases, Rowless, Restarts, SetCont,
     rowVars, queueVars, nodeVars, jobVars, history, budgets
<1>29. CASE UNCHANGED vars
  BY <1>29, KeptView DEF JobFollows, Unfinished, Ended, Undoing, NextPhase, Live,
     ReachedStop, TypeOK, Phases, Rowless, vars, rowVars, queueVars, nodeVars,
     jobVars, history, budgets
<1> QED
  BY <1>1, <1>2, <1>3, <1>4, <1>5, <1>6, <1>7, <1>8, <1>9, <1>10, <1>11, <1>12,
     <1>13, <1>14, <1>15, <1>16, <1>17, <1>18, <1>19, <1>20, <1>21, <1>22, <1>23,
     <1>24, <1>25, <1>26, <1>27, <1>28, <1>29 DEF Next

(* Without a race every step keeps the env where its newest row says.      *)
LEMMA WholeStep ==
  TypeOK /\ RowFollows /\ Sole /\ JobFollows /\ EnvWhole /\ ~raced' /\ [Next]_vars => EnvWhole'
<1> SUFFICES ASSUME TypeOK /\ RowFollows /\ Sole /\ JobFollows /\ EnvWhole /\ ~raced', [Next]_vars
             PROVE  EnvWhole'
  OBVIOUS
<1>1. ASSUME NEW n \in Nodes, Ask(n)
      PROVE  EnvWhole'
  <2>1. UNCHANGED <<envNode, cont, pc, todo>>
    BY <1>1 DEF Ask, nodeVars, jobVars
  <2> QED
    BY <1>1, <2>1, QuietView DEF EnvWhole, Alive
<1>2. ASSUME NEW i \in Rows, NEW l \in LiveMoves, Create(i, l)
      PROVE  EnvWhole'
  BY <1>2, NewestTyped, CreateView DEF EnvWhole, Alive, JobFollows, Unfinished,
     Ended, Undoing, NextPhase, Live, ReachedStop, TypeOK, Phases, Rowless, Create,
     MayBegin, rowVars, queueVars, nodeVars, jobVars, history, budgets
<1>3. ASSUME NEW i \in Rows, Check(i)
      PROVE  EnvWhole'
  BY <1>3, NewestTyped, QuietView DEF EnvWhole, Alive, JobFollows, Unfinished, Ended,
     Undoing, NextPhase, Live, ReachedStop, TypeOK, Phases, Rowless, Check, MayBegin,
     rowVars, queueVars, nodeVars, jobVars, history, budgets
<1>4. ASSUME NEW i \in Rows, CreateFails(i)
      PROVE  EnvWhole'
  BY <1>4, NewestTyped, QuietView DEF EnvWhole, Alive, JobFollows, Unfinished, Ended,
     Undoing, NextPhase, Live, ReachedStop, TypeOK, Phases, Rowless, CreateFails,
     rowVars, queueVars, nodeVars, jobVars, history, budgets
<1>5. ASSUME NEW i \in Rows, QueueJob(i)
      PROVE  EnvWhole'
  BY <1>5, NewestTyped, Differ, KeptView DEF EnvWhole, Alive, JobFollows, Unfinished,
     Ended, Undoing, NextPhase, Live, ReachedStop, TypeOK, Phases, Rowless, QueueJob,
     Enqueue, rowVars, queueVars, nodeVars, jobVars, history, budgets
<1>6. ASSUME NEW i \in Rows, Resume(i)
      PROVE  EnvWhole'
  BY <1>6, NewestTyped, Differ, KeptView DEF EnvWhole, Alive, JobFollows, Unfinished,
     Ended, Undoing, NextPhase, Live, ReachedStop, TypeOK, Phases, Rowless, Resume,
     Enqueue, Fault, rowVars, queueVars, nodeVars, jobVars, history, budgets
<1>7. ASSUME NEW i \in Rows, StartJob(i)
      PROVE  EnvWhole'
  <2>1. UNCHANGED <<envNode, cont, NPhase, NFrom, NTo>>
    BY <1>7, KeptView DEF StartJob, rowVars, nodeVars, history
  <2>2. CASE Unfinished(i) /\ cur' = i /\ Enter(phase[i])
    <3>1. i = newest
      BY <2>2 DEF Sole
    <3>2. todo' = Tiles /\ pc' = IF NPhase = "starting" THEN "take" ELSE "work"
      BY <2>2, <3>1 DEF Enter, NPhase
    <3> QED
      BY <2>1, <3>2 DEF EnvWhole, Alive
  <2>3. CASE UNCHANGED <<cur, pc, mem, todo>>
    BY <2>1, <2>3 DEF EnvWhole, Alive
  <2> QED
    BY <1>7, <2>2, <2>3 DEF StartJob
<1>8. ASSUME NEW i \in Rows, PressStop(i)
      PROVE  EnvWhole'
  BY <1>8, NewestTyped, Differ, KeptView DEF EnvWhole, Alive, JobFollows, Unfinished,
     Ended, Undoing, NextPhase, Live, ReachedStop, TypeOK, Phases, Rowless,
     PressStop, rowVars, queueVars, nodeVars, jobVars, history, budgets
<1>9. ASSUME Prepare
      PROVE  EnvWhole'
  BY <1>9, NewestTyped, JobRow, Differ, KeptView DEF EnvWhole, Alive, JobFollows,
     Unfinished, Ended, Undoing, NextPhase, Live, ReachedStop, TypeOK, Phases,
     Rowless, Prepare, Working, Worked, Others, Fails, RollBack, Return, rowVars,
     queueVars, nodeVars, jobVars, history, budgets
<1>10. ASSUME Take
      PROVE  EnvWhole'
  BY <1>10, NewestTyped, JobRow, Differ, KeptView DEF EnvWhole, Alive, JobFollows,
     Unfinished, Ended, Undoing, NextPhase, Live, ReachedStop, TypeOK, Phases,
     Rowless, Take, Others, Fails, RollBack, Return, rowVars, queueVars, nodeVars,
     jobVars, history, budgets
<1>11. ASSUME LoopEnds
      PROVE  EnvWhole'
  BY <1>11, NewestTyped, JobRow, Differ, KeptView DEF EnvWhole, Alive, JobFollows,
     Unfinished, Ended, Undoing, NextPhase, Live, ReachedStop, TypeOK, Phases,
     Rowless, LoopEnds, Worked, Others, Fails, RollBack, Return, rowVars, queueVars,
     nodeVars, jobVars, history, budgets
<1>12. ASSUME Record
      PROVE  EnvWhole'
  BY <1>12, NewestTyped, JobRow, Differ, UndoKept, WriteNext DEF EnvWhole, Alive,
     JobFollows, Unfinished, Ended, Undoing, NextPhase, Live, ReachedStop, TypeOK,
     Phases, Rowless, Record, Recorded, NotRecorded, Enter, Others, RollBack, Return,
     rowVars, queueVars, nodeVars, jobVars, history, budgets
<1>13. ASSUME UndoRemoveEnds
      PROVE  EnvWhole'
  BY <1>13, NewestTyped, JobRow, Differ, KeptView DEF EnvWhole, Alive, JobFollows,
     Unfinished, Ended, Undoing, NextPhase, Live, ReachedStop, TypeOK, Phases,
     Rowless, UndoRemoveEnds, Fault, UndoOthers, rowVars, queueVars, nodeVars,
     jobVars, history, budgets
<1>14. ASSUME UndoTake
      PROVE  EnvWhole'
  BY <1>14, NewestTyped, JobRow, Differ, UndoKept, WriteMem DEF EnvWhole, Alive,
     JobFollows, Unfinished, Ended, Undoing, NextPhase, Live, ReachedStop, TypeOK,
     Phases, Rowless, UndoTake, UndoFails, Fault, Return, UndoOthers, rowVars,
     queueVars, nodeVars, jobVars, history, budgets
<1>15. ASSUME UndoRecord
      PROVE  EnvWhole'
  BY <1>15, NewestTyped, JobRow, Differ, UndoKept, WriteBack DEF EnvWhole, Alive,
     JobFollows, Unfinished, Ended, Undoing, NextPhase, Live, ReachedStop, TypeOK,
     Phases, Rowless, UndoRecord, Fault, Return, UndoOthers, rowVars, queueVars,
     nodeVars, jobVars, history, budgets
<1>16. ASSUME PanelDies
      PROVE  EnvWhole'
  BY <1>16, NewestTyped, QuietView DEF EnvWhole, Alive, JobFollows, Unfinished,
     Ended, Undoing, NextPhase, Live, ReachedStop, TypeOK, Phases, Rowless,
     PanelDies, Return, Fault, rowVars, queueVars, nodeVars, jobVars, history, budgets
<1>17. ASSUME NEW t \in Tiles, Stop(t)
      PROVE  EnvWhole'
  BY <1>17, NewestTyped, JobRow, Differ, KeptView DEF EnvWhole, Alive, JobFollows,
     Unfinished, Ended, Undoing, NextPhase, Live, ReachedStop, TypeOK, Phases,
     Rowless, Stop, Working, Next1, Stops, Runs, SetCont, Others, rowVars, queueVars,
     nodeVars, jobVars, history, budgets
<1>18. ASSUME NEW t \in Tiles, Copy(t)
      PROVE  EnvWhole'
  BY <1>18, NewestTyped, JobRow, Differ, KeptView DEF EnvWhole, Alive, JobFollows,
     Unfinished, Ended, Undoing, NextPhase, Live, ReachedStop, TypeOK, Phases,
     Rowless, Copy, Copying, Copied, Next1, Runs, Others, rowVars, queueVars,
     nodeVars, jobVars, history, budgets
<1>19. ASSUME NEW t \in Tiles, CopyFails(t)
      PROVE  EnvWhole'
  BY <1>19, NewestTyped, JobRow, Differ, KeptView DEF EnvWhole, Alive, JobFollows,
     Unfinished, Ended, Undoing, NextPhase, Live, ReachedStop, TypeOK, Phases,
     Rowless, CopyFails, Copying, Others, Fails, RollBack, Return, rowVars,
     queueVars, nodeVars, jobVars, history, budgets
<1>20. ASSUME NEW t \in Tiles, Start(t)
      PROVE  EnvWhole'
  BY <1>20, NewestTyped, JobRow, Differ, KeptView DEF EnvWhole, Alive, JobFollows,
     Unfinished, Ended, Undoing, NextPhase, Live, ReachedStop, TypeOK, Phases,
     Rowless, Start, Working, Next1, SetCont, Others, rowVars, queueVars, nodeVars,
     jobVars, history, budgets
<1>21. ASSUME NEW t \in Tiles, StartFails(t)
      PROVE  EnvWhole'
  BY <1>21, NewestTyped, JobRow, Differ, KeptView DEF EnvWhole, Alive, JobFollows,
     Unfinished, Ended, Undoing, NextPhase, Live, ReachedStop, TypeOK, Phases,
     Rowless, StartFails, Working, SetCont, Others, Fails, RollBack, Return, rowVars,
     queueVars, nodeVars, jobVars, history, budgets
<1>22. ASSUME NEW t \in Tiles, Clean(t)
      PROVE  EnvWhole'
  BY <1>22, NewestTyped, JobRow, Differ, KeptView DEF EnvWhole, Alive, JobFollows,
     Unfinished, Ended, Undoing, NextPhase, Live, ReachedStop, TypeOK, Phases,
     Rowless, Clean, Working, Next1, SetCont, Others, rowVars, queueVars, nodeVars,
     jobVars, history, budgets
<1>23. ASSUME NEW t \in Tiles, UndoRemove(t)
      PROVE  EnvWhole'
  BY <1>23, NewestTyped, JobRow, Differ, KeptView DEF EnvWhole, Alive, JobFollows,
     Unfinished, Ended, Undoing, NextPhase, Live, ReachedStop, TypeOK, Phases,
     Rowless, UndoRemove, UndoClears, SetCont, UndoOthers, rowVars, queueVars,
     nodeVars, jobVars, history, budgets
<1>24. ASSUME NEW t \in Tiles, UndoStart(t)
      PROVE  EnvWhole'
  <2>1. pc # "none" /\ pc = "undoStart" /\ t \in todo /\ UNCHANGED <<from, to, newest, envNode>>
    BY <1>24 DEF UndoStart, UndoOthers, history
  <2>2. NFrom' = NFrom /\ NTo' = NTo /\ From = NFrom /\ NFrom # NTo
    BY <2>1, UndoKept, JobRow, Differ
  <2>3. CASE UndoFails /\ UNCHANGED cont
    <3>1. NPhase' \in {NPhase, mem} /\ pc' = "none"
      BY <2>1, <2>3, UndoKept, WriteMem DEF UndoFails, Return
    <3> QED
      BY <2>1, <2>2, <2>3, <3>1, NewestTyped, JobRow
         DEF EnvWhole, Alive, JobFollows, Undoing, NextPhase, ReachedStop, Ended, Rowless, Phases
  <2>4. CASE ~(UndoFails /\ UNCHANGED cont)
    <3>1. SetCont(NFrom, t, "up") /\ todo' = todo \ {t} /\ UNCHANGED <<phase, pc, mem>>
      BY <1>24, <2>2, <2>4 DEF UndoStart
    <3>2. NPhase' = NPhase
      BY <2>1, <3>1, UndoKept
    <3>3. \A u \in Tiles : /\ cont'[NFrom][u] \in {"up", "restarting"} <=> u = t \/ Alive(NFrom, u)
                         /\ cont'[NTo][u] = cont[NTo][u]
      BY <2>2, <3>1, NewestTyped DEF SetCont, Alive, TypeOK
    <3> QED
      BY <2>1, <2>2, <3>1, <3>2, <3>3, JobRow DEF EnvWhole, JobFollows, Ended, Alive
  <2> QED
    BY <2>3, <2>4
<1>25. ASSUME NEW t \in Tiles, Deploy(t)
      PROVE  EnvWhole'
  BY <1>25, NewestTyped, Differ, KeptView DEF EnvWhole, Alive, JobFollows,
     Unfinished, Ended, Undoing, NextPhase, Live, ReachedStop, TypeOK, Phases,
     Rowless, Deploy, SetCont, rowVars, queueVars, nodeVars, jobVars, history, budgets
<1>26. ASSUME NEW n \in Nodes, NEW t \in Tiles, Write(n, t)
      PROVE  EnvWhole'
  BY <1>26, NewestTyped, Differ, KeptView DEF EnvWhole, Alive, JobFollows,
     Unfinished, Ended, Undoing, NextPhase, Live, ReachedStop, TypeOK, Phases,
     Rowless, Write, Runs, rowVars, queueVars, nodeVars, jobVars, history, budgets
<1>27. ASSUME NEW n \in Nodes, NEW t \in Tiles, Dies(n, t)
      PROVE  EnvWhole'
  BY <1>27, NewestTyped, Differ, KeptView DEF EnvWhole, Alive, JobFollows,
     Unfinished, Ended, Undoing, NextPhase, Live, ReachedStop, TypeOK, Phases,
     Rowless, Dies, Runs, SetCont, rowVars, queueVars, nodeVars, jobVars, history,
     budgets
<1>28. ASSUME NEW n \in Nodes, NEW t \in Tiles, Restarts(n, t)
      PROVE  EnvWhole'
  BY <1>28, NewestTyped, Differ, KeptView DEF EnvWhole, Alive, JobFollows,
     Unfinished, Ended, Undoing, NextPhase, Live, ReachedStop, TypeOK, Phases,
     Rowless, Restarts, SetCont, rowVars, queueVars, nodeVars, jobVars, history,
     budgets
<1>29. CASE UNCHANGED vars
  BY <1>29, KeptView DEF EnvWhole, Alive, JobFollows, Unfinished, Ended, Undoing,
     NextPhase, Live, ReachedStop, TypeOK, Phases, Rowless, vars, rowVars, queueVars,
     nodeVars, jobVars, history, budgets
<1> QED
  BY <1>1, <1>2, <1>3, <1>4, <1>5, <1>6, <1>7, <1>8, <1>9, <1>10, <1>11, <1>12,
     <1>13, <1>14, <1>15, <1>16, <1>17, <1>18, <1>19, <1>20, <1>21, <1>22, <1>23,
     <1>24, <1>25, <1>26, <1>27, <1>28, <1>29 DEF Next

(* Without a race every step keeps a job at an env that is down.           *)
LEMMA AttendedStep ==
  TypeOK /\ RowFollows /\ Sole /\ JobFollows /\ EnvWhole /\ Attended /\ ~raced' /\ [Next]_vars => Attended'
<1> SUFFICES ASSUME TypeOK /\ RowFollows /\ Sole /\ JobFollows /\ EnvWhole /\ Attended /\ ~raced', [Next]_vars
             PROVE  Attended'
  OBVIOUS
<1>1. ASSUME NEW n \in Nodes, Ask(n)
      PROVE  Attended'
  BY <1>1, NewestTyped, QuietView DEF Attended, Alive, EnvWhole, JobFollows,
     Unfinished, Ended, Undoing, NextPhase, Live, ReachedStop, TypeOK, Phases,
     Rowless, Ask, rowVars, queueVars, nodeVars, jobVars, history, budgets
<1>2. ASSUME NEW i \in Rows, NEW l \in LiveMoves, Create(i, l)
      PROVE  Attended'
  BY <1>2, NewestTyped, CreateView DEF Attended, Alive, EnvWhole, JobFollows,
     Unfinished, Ended, Undoing, NextPhase, Live, ReachedStop, TypeOK, Phases,
     Rowless, Create, MayBegin, rowVars, queueVars, nodeVars, jobVars, history,
     budgets
<1>3. ASSUME NEW i \in Rows, Check(i)
      PROVE  Attended'
  BY <1>3, NewestTyped, QuietView DEF Attended, Alive, EnvWhole, JobFollows,
     Unfinished, Ended, Undoing, NextPhase, Live, ReachedStop, TypeOK, Phases,
     Rowless, Check, MayBegin, rowVars, queueVars, nodeVars, jobVars, history, budgets
<1>4. ASSUME NEW i \in Rows, CreateFails(i)
      PROVE  Attended'
  BY <1>4, NewestTyped, QuietView DEF Attended, Alive, EnvWhole, JobFollows,
     Unfinished, Ended, Undoing, NextPhase, Live, ReachedStop, TypeOK, Phases,
     Rowless, CreateFails, rowVars, queueVars, nodeVars, jobVars, history, budgets
<1>5. ASSUME NEW i \in Rows, QueueJob(i)
      PROVE  Attended'
  <2>1. i = newest /\ NPhase = "queued" /\ cur = 0
    BY <1>5 DEF QueueJob, Sole
  <2>2. NPhase' = NPhase /\ cur' = cur
    BY <1>5, KeptView DEF QueueJob, rowVars, history
  <2> QED
    BY <2>1, <2>2 DEF Attended, ReachedStop
<1>6. ASSUME NEW i \in Rows, Resume(i)
      PROVE  Attended'
  <2>1. i = newest /\ i \in 0..MaxMoves
    BY <1>6, MoveAssumption DEF Resume, Sole, Rows
  <2>2. UNCHANGED <<NPhase, envNode, cont, cur, newest, stops>>
    BY <1>6, KeptView DEF Resume, rowVars, nodeVars, history
  <2>3. CASE Enqueue(i)
    BY <2>1, <2>2, <2>3 DEF Attended, Enqueue
  <2>4. CASE Fault /\ UNCHANGED <<job, dead>>
    BY <2>2, <2>4 DEF Attended, Fault, TypeOK
  <2> QED
    BY <1>6, <2>3, <2>4 DEF Resume
<1>7. ASSUME NEW i \in Rows, StartJob(i)
      PROVE  Attended'
  <2>1. UNCHANGED <<NPhase, envNode, cont, newest, stops, resume>> /\ dead' = FALSE
    BY <1>7, KeptView DEF StartJob, rowVars, nodeVars, history
  <2>2. CASE Unfinished(i) /\ cur' = i
    BY <2>1, <2>2 DEF Attended, Sole
  <2>3. CASE Ended(phase[i]) /\ UNCHANGED <<cur, faults>>
    <3>1. \A j \in 0..MaxMoves : j # i => job'[j] = job[j]
      BY <1>7 DEF StartJob, TypeOK
    <3>2. i = newest => ~ReachedStop(NPhase)
      BY <2>3 DEF NPhase, Ended, ReachedStop
    <3> QED
      BY <2>1, <2>3, <3>1, <3>2 DEF Attended, Alive, TypeOK, ReachedStop
  <2>4. CASE Fault
    BY <2>1, <2>4 DEF Attended, Fault, TypeOK
  <2> QED
    BY <1>7, <2>2, <2>3, <2>4 DEF StartJob
<1>8. ASSUME NEW i \in Rows, PressStop(i)
      PROVE  Attended'
  BY <1>8, NewestTyped, Differ, KeptView DEF Attended, Alive, EnvWhole, JobFollows,
     Unfinished, Ended, Undoing, NextPhase, Live, ReachedStop, TypeOK, Phases,
     Rowless, PressStop, rowVars, queueVars, nodeVars, jobVars, history, budgets
<1>9. ASSUME Prepare
      PROVE  Attended'
  BY <1>9, NewestTyped, JobRow, Differ, KeptView DEF Attended, Alive, EnvWhole,
     JobFollows, Unfinished, Ended, Undoing, NextPhase, Live, ReachedStop, TypeOK,
     Phases, Rowless, Prepare, Working, Worked, Others, Fails, RollBack, Return,
     rowVars, queueVars, nodeVars, jobVars, history, budgets
<1>10. ASSUME Take
      PROVE  Attended'
  BY <1>10, NewestTyped, JobRow, Differ, KeptView DEF Attended, Alive, EnvWhole,
     JobFollows, Unfinished, Ended, Undoing, NextPhase, Live, ReachedStop, TypeOK,
     Phases, Rowless, Take, Others, Fails, RollBack, Return, rowVars, queueVars,
     nodeVars, jobVars, history, budgets
<1>11. ASSUME LoopEnds
      PROVE  Attended'
  BY <1>11, NewestTyped, JobRow, Differ, KeptView DEF Attended, Alive, EnvWhole,
     JobFollows, Unfinished, Ended, Undoing, NextPhase, Live, ReachedStop, TypeOK,
     Phases, Rowless, LoopEnds, Worked, Others, Fails, RollBack, Return, rowVars,
     queueVars, nodeVars, jobVars, history, budgets
<1>12. ASSUME Record
      PROVE  Attended'
  BY <1>12, NewestTyped, JobRow, Differ, UndoKept, WriteNext DEF Attended, Alive,
     EnvWhole, JobFollows, Unfinished, Ended, Undoing, NextPhase, Live, ReachedStop,
     TypeOK, Phases, Rowless, Record, Recorded, NotRecorded, Enter, Others, RollBack,
     Return, rowVars, queueVars, nodeVars, jobVars, history, budgets
<1>13. ASSUME UndoRemoveEnds
      PROVE  Attended'
  BY <1>13, NewestTyped, JobRow, Differ, KeptView DEF Attended, Alive, EnvWhole,
     JobFollows, Unfinished, Ended, Undoing, NextPhase, Live, ReachedStop, TypeOK,
     Phases, Rowless, UndoRemoveEnds, Fault, UndoOthers, rowVars, queueVars,
     nodeVars, jobVars, history, budgets
<1>14. ASSUME UndoTake
      PROVE  Attended'
  BY <1>14, NewestTyped, JobRow, Differ, UndoKept, WriteMem DEF Attended, Alive,
     EnvWhole, JobFollows, Unfinished, Ended, Undoing, NextPhase, Live, ReachedStop,
     TypeOK, Phases, Rowless, UndoTake, UndoFails, Fault, Return, UndoOthers,
     rowVars, queueVars, nodeVars, jobVars, history, budgets
<1>15. ASSUME UndoRecord
      PROVE  Attended'
  BY <1>15, NewestTyped, JobRow, Differ, UndoKept, WriteBack DEF Attended, Alive,
     EnvWhole, JobFollows, Unfinished, Ended, Undoing, NextPhase, Live, ReachedStop,
     TypeOK, Phases, Rowless, UndoRecord, Fault, Return, UndoOthers, rowVars,
     queueVars, nodeVars, jobVars, history, budgets
<1>16. ASSUME PanelDies
      PROVE  Attended'
  <2>1. UNCHANGED <<NPhase, envNode, cont, newest, stops>> /\ cur' = 0
    BY <1>16, QuietView DEF PanelDies, Return, nodeVars, history
  <2>2. ReachedStop(NPhase) => newest \in Rows /\ Unfinished(newest)
    BY Differ DEF ReachedStop, Rowless, Unfinished, Ended, NPhase
  <2>3. CASE resume' = {i \in Rows : Unfinished(i)}
    BY <2>1, <2>2, <2>3 DEF Attended, ReachedStop
  <2>4. CASE Fault
    BY <2>1, <2>4 DEF Attended, Fault, TypeOK
  <2> QED
    BY <1>16, <2>3, <2>4 DEF PanelDies
<1>17. ASSUME NEW t \in Tiles, Stop(t)
      PROVE  Attended'
  BY <1>17, NewestTyped, JobRow, Differ, KeptView DEF Attended, Alive, EnvWhole,
     JobFollows, Unfinished, Ended, Undoing, NextPhase, Live, ReachedStop, TypeOK,
     Phases, Rowless, Stop, Working, Next1, Stops, Runs, SetCont, Others, rowVars,
     queueVars, nodeVars, jobVars, history, budgets
<1>18. ASSUME NEW t \in Tiles, Copy(t)
      PROVE  Attended'
  BY <1>18, NewestTyped, JobRow, Differ, KeptView DEF Attended, Alive, EnvWhole,
     JobFollows, Unfinished, Ended, Undoing, NextPhase, Live, ReachedStop, TypeOK,
     Phases, Rowless, Copy, Copying, Copied, Next1, Runs, Others, rowVars, queueVars,
     nodeVars, jobVars, history, budgets
<1>19. ASSUME NEW t \in Tiles, CopyFails(t)
      PROVE  Attended'
  BY <1>19, NewestTyped, JobRow, Differ, KeptView DEF Attended, Alive, EnvWhole,
     JobFollows, Unfinished, Ended, Undoing, NextPhase, Live, ReachedStop, TypeOK,
     Phases, Rowless, CopyFails, Copying, Others, Fails, RollBack, Return, rowVars,
     queueVars, nodeVars, jobVars, history, budgets
<1>20. ASSUME NEW t \in Tiles, Start(t)
      PROVE  Attended'
  BY <1>20, NewestTyped, JobRow, Differ, KeptView DEF Attended, Alive, EnvWhole,
     JobFollows, Unfinished, Ended, Undoing, NextPhase, Live, ReachedStop, TypeOK,
     Phases, Rowless, Start, Working, Next1, SetCont, Others, rowVars, queueVars,
     nodeVars, jobVars, history, budgets
<1>21. ASSUME NEW t \in Tiles, StartFails(t)
      PROVE  Attended'
  BY <1>21, NewestTyped, JobRow, Differ, KeptView DEF Attended, Alive, EnvWhole,
     JobFollows, Unfinished, Ended, Undoing, NextPhase, Live, ReachedStop, TypeOK,
     Phases, Rowless, StartFails, Working, SetCont, Others, Fails, RollBack, Return,
     rowVars, queueVars, nodeVars, jobVars, history, budgets
<1>22. ASSUME NEW t \in Tiles, Clean(t)
      PROVE  Attended'
  BY <1>22, NewestTyped, JobRow, Differ, KeptView DEF Attended, Alive, EnvWhole,
     JobFollows, Unfinished, Ended, Undoing, NextPhase, Live, ReachedStop, TypeOK,
     Phases, Rowless, Clean, Working, Next1, SetCont, Others, rowVars, queueVars,
     nodeVars, jobVars, history, budgets
<1>23. ASSUME NEW t \in Tiles, UndoRemove(t)
      PROVE  Attended'
  BY <1>23, NewestTyped, JobRow, Differ, KeptView DEF Attended, Alive, EnvWhole,
     JobFollows, Unfinished, Ended, Undoing, NextPhase, Live, ReachedStop, TypeOK,
     Phases, Rowless, UndoRemove, UndoClears, SetCont, UndoOthers, rowVars,
     queueVars, nodeVars, jobVars, history, budgets
<1>24. ASSUME NEW t \in Tiles, UndoStart(t)
      PROVE  Attended'
  BY <1>24, NewestTyped, JobRow, Differ, UndoKept, WriteMem DEF Attended, Alive,
     EnvWhole, JobFollows, Unfinished, Ended, Undoing, NextPhase, Live, ReachedStop,
     TypeOK, Phases, Rowless, UndoStart, SetCont, UndoFails, Fault, Return,
     UndoOthers, rowVars, queueVars, nodeVars, jobVars, history, budgets
<1>25. ASSUME NEW t \in Tiles, Deploy(t)
      PROVE  Attended'
  BY <1>25, NewestTyped, Differ, KeptView DEF Attended, Alive, EnvWhole, JobFollows,
     Unfinished, Ended, Undoing, NextPhase, Live, ReachedStop, TypeOK, Phases,
     Rowless, Deploy, SetCont, rowVars, queueVars, nodeVars, jobVars, history, budgets
<1>26. ASSUME NEW n \in Nodes, NEW t \in Tiles, Write(n, t)
      PROVE  Attended'
  BY <1>26, NewestTyped, Differ, KeptView DEF Attended, Alive, EnvWhole, JobFollows,
     Unfinished, Ended, Undoing, NextPhase, Live, ReachedStop, TypeOK, Phases,
     Rowless, Write, Runs, rowVars, queueVars, nodeVars, jobVars, history, budgets
<1>27. ASSUME NEW n \in Nodes, NEW t \in Tiles, Dies(n, t)
      PROVE  Attended'
  BY <1>27, NewestTyped, Differ, KeptView DEF Attended, Alive, EnvWhole, JobFollows,
     Unfinished, Ended, Undoing, NextPhase, Live, ReachedStop, TypeOK, Phases,
     Rowless, Dies, Runs, SetCont, rowVars, queueVars, nodeVars, jobVars, history,
     budgets
<1>28. ASSUME NEW n \in Nodes, NEW t \in Tiles, Restarts(n, t)
      PROVE  Attended'
  BY <1>28, NewestTyped, Differ, KeptView DEF Attended, Alive, EnvWhole, JobFollows,
     Unfinished, Ended, Undoing, NextPhase, Live, ReachedStop, TypeOK, Phases,
     Rowless, Restarts, SetCont, rowVars, queueVars, nodeVars, jobVars, history,
     budgets
<1>29. CASE UNCHANGED vars
  BY <1>29, KeptView DEF Attended, Alive, EnvWhole, JobFollows, Unfinished, Ended,
     Undoing, NextPhase, Live, ReachedStop, TypeOK, Phases, Rowless, vars, rowVars,
     queueVars, nodeVars, jobVars, history, budgets
<1> QED
  BY <1>1, <1>2, <1>3, <1>4, <1>5, <1>6, <1>7, <1>8, <1>9, <1>10, <1>11, <1>12,
     <1>13, <1>14, <1>15, <1>16, <1>17, <1>18, <1>19, <1>20, <1>21, <1>22, <1>23,
     <1>24, <1>25, <1>26, <1>27, <1>28, <1>29 DEF Next

(***************************************************************************)
(* The calm moves                                                          *)
(***************************************************************************)

(* What is calm has always been.                                           *)
LEMMA CalmBefore == TypeOK /\ Calm' /\ [Next]_vars => Calm
<1> SUFFICES ASSUME TypeOK /\ Calm', [Next]_vars PROVE Calm
  OBVIOUS
<1>1. ASSUME NEW n \in Nodes, Ask(n)
      PROVE  Calm
  BY <1>1, MoveAssumption DEF Calm, TypeOK, Ask, rowVars, queueVars, nodeVars,
     jobVars, history, budgets
<1>2. ASSUME NEW i \in Rows, NEW l \in LiveMoves, Create(i, l)
      PROVE  Calm
  BY <1>2, MoveAssumption DEF Calm, TypeOK, Create, MayBegin, rowVars, queueVars,
     nodeVars, jobVars, history, budgets
<1>3. ASSUME NEW i \in Rows, Check(i)
      PROVE  Calm
  BY <1>3, MoveAssumption DEF Calm, TypeOK, Check, MayBegin, rowVars, queueVars,
     nodeVars, jobVars, history, budgets
<1>4. ASSUME NEW i \in Rows, CreateFails(i)
      PROVE  Calm
  BY <1>4, MoveAssumption DEF Calm, TypeOK, CreateFails, rowVars, queueVars,
     nodeVars, jobVars, history, budgets
<1>5. ASSUME NEW i \in Rows, QueueJob(i)
      PROVE  Calm
  BY <1>5, MoveAssumption DEF Calm, TypeOK, QueueJob, Enqueue, rowVars, queueVars,
     nodeVars, jobVars, history, budgets
<1>6. ASSUME NEW i \in Rows, Resume(i)
      PROVE  Calm
  BY <1>6, MoveAssumption DEF Calm, TypeOK, Resume, Enqueue, Fault, rowVars,
     queueVars, nodeVars, jobVars, history, budgets
<1>7. ASSUME NEW i \in Rows, StartJob(i)
      PROVE  Calm
  BY <1>7, MoveAssumption DEF Calm, TypeOK, StartJob, Enter, Fault, rowVars,
     queueVars, nodeVars, jobVars, history, budgets
<1>8. ASSUME NEW i \in Rows, PressStop(i)
      PROVE  Calm
  BY <1>8, MoveAssumption DEF Calm, TypeOK, PressStop, rowVars, queueVars, nodeVars,
     jobVars, history, budgets
<1>9. ASSUME Prepare
      PROVE  Calm
  BY <1>9, MoveAssumption DEF Calm, TypeOK, Prepare, Working, Worked, Others, Fails,
     RollBack, Return, ReachedStop, rowVars, queueVars, nodeVars, jobVars, history,
     budgets
<1>10. ASSUME Take
      PROVE  Calm
  BY <1>10, MoveAssumption DEF Calm, TypeOK, Take, Others, Fails, RollBack, Return,
     ReachedStop, rowVars, queueVars, nodeVars, jobVars, history, budgets
<1>11. ASSUME LoopEnds
      PROVE  Calm
  BY <1>11, MoveAssumption DEF Calm, TypeOK, LoopEnds, Worked, Others, Fails,
     RollBack, Return, ReachedStop, rowVars, queueVars, nodeVars, jobVars, history,
     budgets
<1>12. ASSUME Record
      PROVE  Calm
  BY <1>12, MoveAssumption DEF Calm, TypeOK, Record, Recorded, NotRecorded,
     NextPhase, Live, Enter, Ended, Others, RollBack, Return, ReachedStop, rowVars,
     queueVars, nodeVars, jobVars, history, budgets
<1>13. ASSUME UndoRemoveEnds
      PROVE  Calm
  BY <1>13, MoveAssumption DEF Calm, TypeOK, UndoRemoveEnds, Fault, UndoOthers,
     rowVars, queueVars, nodeVars, jobVars, history, budgets
<1>14. ASSUME UndoTake
      PROVE  Calm
  BY <1>14, MoveAssumption DEF Calm, TypeOK, UndoTake, UndoFails, Fault, Return,
     UndoOthers, rowVars, queueVars, nodeVars, jobVars, history, budgets
<1>15. ASSUME UndoRecord
      PROVE  Calm
  BY <1>15, MoveAssumption DEF Calm, TypeOK, UndoRecord, Fault, Return, UndoOthers,
     rowVars, queueVars, nodeVars, jobVars, history, budgets
<1>16. ASSUME PanelDies
      PROVE  Calm
  BY <1>16, MoveAssumption DEF Calm, TypeOK, PanelDies, Return, Fault, rowVars,
     queueVars, nodeVars, jobVars, history, budgets
<1>17. ASSUME NEW t \in Tiles, Stop(t)
      PROVE  Calm
  BY <1>17, MoveAssumption DEF Calm, TypeOK, Stop, Working, Next1, Stops, Runs,
     SetCont, Others, rowVars, queueVars, nodeVars, jobVars, history, budgets
<1>18. ASSUME NEW t \in Tiles, Copy(t)
      PROVE  Calm
  BY <1>18, MoveAssumption DEF Calm, TypeOK, Copy, Copying, Copied, Next1, Runs,
     Others, rowVars, queueVars, nodeVars, jobVars, history, budgets
<1>19. ASSUME NEW t \in Tiles, CopyFails(t)
      PROVE  Calm
  BY <1>19, MoveAssumption DEF Calm, TypeOK, CopyFails, Copying, Others, Fails,
     RollBack, Return, ReachedStop, rowVars, queueVars, nodeVars, jobVars, history,
     budgets
<1>20. ASSUME NEW t \in Tiles, Start(t)
      PROVE  Calm
  BY <1>20, MoveAssumption DEF Calm, TypeOK, Start, Working, Next1, SetCont, Others,
     rowVars, queueVars, nodeVars, jobVars, history, budgets
<1>21. ASSUME NEW t \in Tiles, StartFails(t)
      PROVE  Calm
  BY <1>21, MoveAssumption DEF Calm, TypeOK, StartFails, Working, SetCont, Others,
     Fails, RollBack, Return, ReachedStop, rowVars, queueVars, nodeVars, jobVars,
     history, budgets
<1>22. ASSUME NEW t \in Tiles, Clean(t)
      PROVE  Calm
  BY <1>22, MoveAssumption DEF Calm, TypeOK, Clean, Working, Next1, SetCont, Others,
     rowVars, queueVars, nodeVars, jobVars, history, budgets
<1>23. ASSUME NEW t \in Tiles, UndoRemove(t)
      PROVE  Calm
  BY <1>23, MoveAssumption DEF Calm, TypeOK, UndoRemove, UndoClears, SetCont,
     UndoOthers, rowVars, queueVars, nodeVars, jobVars, history, budgets
<1>24. ASSUME NEW t \in Tiles, UndoStart(t)
      PROVE  Calm
  BY <1>24, MoveAssumption DEF Calm, TypeOK, UndoStart, SetCont, UndoFails, Fault,
     Return, UndoOthers, rowVars, queueVars, nodeVars, jobVars, history, budgets
<1>25. ASSUME NEW t \in Tiles, Deploy(t)
      PROVE  Calm
  BY <1>25, MoveAssumption DEF Calm, TypeOK, Deploy, SetCont, rowVars, queueVars,
     nodeVars, jobVars, history, budgets
<1>26. ASSUME NEW n \in Nodes, NEW t \in Tiles, Write(n, t)
      PROVE  Calm
  BY <1>26, MoveAssumption DEF Calm, TypeOK, Write, Runs, rowVars, queueVars,
     nodeVars, jobVars, history, budgets
<1>27. ASSUME NEW n \in Nodes, NEW t \in Tiles, Dies(n, t)
      PROVE  Calm
  BY <1>27, MoveAssumption DEF Calm, TypeOK, Dies, Runs, SetCont, rowVars, queueVars,
     nodeVars, jobVars, history, budgets
<1>28. ASSUME NEW n \in Nodes, NEW t \in Tiles, Restarts(n, t)
      PROVE  Calm
  BY <1>28, MoveAssumption DEF Calm, TypeOK, Restarts, SetCont, rowVars, queueVars,
     nodeVars, jobVars, history, budgets
<1>29. CASE UNCHANGED vars
  BY <1>29 DEF Calm, TypeOK, vars, rowVars, queueVars, nodeVars, jobVars, history,
     budgets
<1> QED
  BY <1>1, <1>2, <1>3, <1>4, <1>5, <1>6, <1>7, <1>8, <1>9, <1>10, <1>11, <1>12,
     <1>13, <1>14, <1>15, <1>16, <1>17, <1>18, <1>19, <1>20, <1>21, <1>22, <1>23,
     <1>24, <1>25, <1>26, <1>27, <1>28, <1>29 DEF Next

(* A calm step keeps source and target apart.                              *)
LEMMA ApartStep ==
  TypeOK /\ RowFollows /\ Sole /\ JobFollows /\ EnvWhole /\ Apart /\ Calm /\ Calm' /\ [Next]_vars => Apart'
<1> SUFFICES ASSUME TypeOK /\ RowFollows /\ Sole /\ JobFollows /\ EnvWhole /\ Apart /\ Calm /\ Calm', [Next]_vars
             PROVE  Apart'
  OBVIOUS
<1>1. ASSUME NEW n \in Nodes, Ask(n)
      PROVE  Apart'
  <2>1. UNCHANGED <<cont, pc, todo>>
    BY <1>1 DEF Ask, nodeVars, jobVars
  <2> QED
    BY <1>1, <2>1, QuietView DEF Apart, Runs
<1>2. ASSUME NEW i \in Rows, NEW l \in LiveMoves, Create(i, l)
      PROVE  Apart'
  <2>1. /\ NPhase' = "queued" /\ NFrom' = envNode /\ NTo' \in Nodes \ {envNode}
        /\ NPhase \in {"none", "done", "rolled_back"} /\ (NPhase = "none" => NFrom = NTo)
        /\ pc = "none"
    BY <1>2, CreateView DEF Calm
  <2>2. UNCHANGED <<cont, pc>>
    BY <1>2 DEF Create, nodeVars, jobVars
  <2>3. \A m \in Nodes \ {envNode}, t \in Tiles : cont[m][t] = "none"
    BY <2>1 DEF Apart, EnvWhole
  <2> QED
    BY <2>1, <2>2, <2>3 DEF Apart, Runs, Undoing
<1>3. ASSUME NEW i \in Rows, Check(i)
      PROVE  Apart'
  BY <1>3, NewestTyped, QuietView DEF Apart, Calm, EnvWhole, Alive, Runs, JobFollows,
     Unfinished, Ended, Undoing, NextPhase, Live, ReachedStop, TypeOK, Phases,
     Rowless, Check, MayBegin, rowVars, queueVars, nodeVars, jobVars, history, budgets
<1>4. ASSUME NEW i \in Rows, CreateFails(i)
      PROVE  Apart'
  BY <1>4, NewestTyped, QuietView DEF Apart, Calm, EnvWhole, Alive, Runs, JobFollows,
     Unfinished, Ended, Undoing, NextPhase, Live, ReachedStop, TypeOK, Phases,
     Rowless, CreateFails, rowVars, queueVars, nodeVars, jobVars, history, budgets
<1>5. ASSUME NEW i \in Rows, QueueJob(i)
      PROVE  Apart'
  BY <1>5, NewestTyped, Differ, KeptView DEF Apart, Calm, EnvWhole, Alive, Runs,
     JobFollows, Unfinished, Ended, Undoing, NextPhase, Live, ReachedStop, TypeOK,
     Phases, Rowless, QueueJob, Enqueue, rowVars, queueVars, nodeVars, jobVars,
     history, budgets
<1>6. ASSUME NEW i \in Rows, Resume(i)
      PROVE  Apart'
  BY <1>6, NewestTyped, Differ, KeptView DEF Apart, Calm, EnvWhole, Alive, Runs,
     JobFollows, Unfinished, Ended, Undoing, NextPhase, Live, ReachedStop, TypeOK,
     Phases, Rowless, Resume, Enqueue, Fault, rowVars, queueVars, nodeVars, jobVars,
     history, budgets
<1>7. ASSUME NEW i \in Rows, StartJob(i)
      PROVE  Apart'
  <2>1. UNCHANGED <<cont, NPhase, NFrom, NTo>>
    BY <1>7, KeptView DEF StartJob, rowVars, nodeVars, history
  <2>2. pc = "none"
    BY <1>7 DEF StartJob, RowFollows
  <2>3. CASE Unfinished(i) /\ cur' = i /\ Enter(phase[i])
    <3>1. todo' = Tiles /\ pc' \in {"take", "work"}
      BY <2>3 DEF Enter
    <3> QED
      BY <2>1, <2>2, <3>1 DEF Apart, Runs
  <2>4. CASE UNCHANGED <<cur, pc, mem, todo>>
    BY <2>1, <2>4 DEF Apart, Runs
  <2> QED
    BY <1>7, <2>3, <2>4 DEF StartJob
<1>8. ASSUME NEW i \in Rows, PressStop(i)
      PROVE  Apart'
  BY <1>8, NewestTyped, Differ, KeptView DEF Apart, Calm, EnvWhole, Alive, Runs,
     JobFollows, Unfinished, Ended, Undoing, NextPhase, Live, ReachedStop, TypeOK,
     Phases, Rowless, PressStop, rowVars, queueVars, nodeVars, jobVars, history,
     budgets
<1>9. ASSUME Prepare
      PROVE  Apart'
  BY <1>9, NewestTyped, JobRow, Differ, KeptView DEF Apart, Calm, EnvWhole, Alive,
     Runs, JobFollows, Unfinished, Ended, Undoing, NextPhase, Live, ReachedStop,
     TypeOK, Phases, Rowless, Prepare, Working, Worked, Others, Fails, RollBack,
     Return, rowVars, queueVars, nodeVars, jobVars, history, budgets
<1>10. ASSUME Take
      PROVE  Apart'
  BY <1>10, NewestTyped, JobRow, Differ, KeptView DEF Apart, Calm, EnvWhole, Alive,
     Runs, JobFollows, Unfinished, Ended, Undoing, NextPhase, Live, ReachedStop,
     TypeOK, Phases, Rowless, Take, Others, Fails, RollBack, Return, rowVars,
     queueVars, nodeVars, jobVars, history, budgets
<1>11. ASSUME LoopEnds
      PROVE  Apart'
  BY <1>11, NewestTyped, JobRow, Differ, KeptView DEF Apart, Calm, EnvWhole, Alive,
     Runs, JobFollows, Unfinished, Ended, Undoing, NextPhase, Live, ReachedStop,
     TypeOK, Phases, Rowless, LoopEnds, Worked, Others, Fails, RollBack, Return,
     rowVars, queueVars, nodeVars, jobVars, history, budgets
<1>12. ASSUME Record
      PROVE  Apart'
  BY <1>12, NewestTyped, JobRow, Differ, UndoKept, WriteNext DEF Apart, Calm,
     EnvWhole, Alive, Runs, JobFollows, Unfinished, Ended, Undoing, NextPhase, Live,
     ReachedStop, TypeOK, Phases, Rowless, Record, Recorded, NotRecorded, Enter,
     Others, RollBack, Return, rowVars, queueVars, nodeVars, jobVars, history, budgets
<1>13. ASSUME UndoRemoveEnds
      PROVE  Apart'
  BY <1>13, NewestTyped, JobRow, Differ, KeptView DEF Apart, Calm, EnvWhole, Alive,
     Runs, JobFollows, Unfinished, Ended, Undoing, NextPhase, Live, ReachedStop,
     TypeOK, Phases, Rowless, UndoRemoveEnds, Fault, UndoOthers, rowVars, queueVars,
     nodeVars, jobVars, history, budgets
<1>14. ASSUME UndoTake
      PROVE  Apart'
  BY <1>14, NewestTyped, JobRow, Differ, UndoKept, WriteMem DEF Apart, Calm,
     EnvWhole, Alive, Runs, JobFollows, Unfinished, Ended, Undoing, NextPhase, Live,
     ReachedStop, TypeOK, Phases, Rowless, UndoTake, UndoFails, Fault, Return,
     UndoOthers, rowVars, queueVars, nodeVars, jobVars, history, budgets
<1>15. ASSUME UndoRecord
      PROVE  Apart'
  BY <1>15, NewestTyped, JobRow, Differ, UndoKept, WriteBack DEF Apart, Calm,
     EnvWhole, Alive, Runs, JobFollows, Unfinished, Ended, Undoing, NextPhase, Live,
     ReachedStop, TypeOK, Phases, Rowless, UndoRecord, Fault, Return, UndoOthers,
     rowVars, queueVars, nodeVars, jobVars, history, budgets
<1>16. ASSUME PanelDies
      PROVE  Apart'
  BY <1>16, NewestTyped, QuietView DEF Apart, Calm, EnvWhole, Alive, Runs,
     JobFollows, Unfinished, Ended, Undoing, NextPhase, Live, ReachedStop, TypeOK,
     Phases, Rowless, PanelDies, Return, Fault, rowVars, queueVars, nodeVars,
     jobVars, history, budgets
<1>17. ASSUME NEW t \in Tiles, Stop(t)
      PROVE  Apart'
  <2>1. /\ pc = "work" /\ pc' = "work" /\ NPhase = "stopping" /\ todo' = todo \ {t}
        /\ UNCHANGED <<NPhase, NFrom, NTo>>
    BY <1>17, KeptView DEF Stop, Working, Next1, Others, JobFollows, rowVars, history
  <2>2. envNode = NFrom /\ NFrom \in Nodes /\ NTo \in Nodes /\ NFrom # NTo
    BY <2>1, NewestTyped, Differ DEF EnvWhole, Rowless
  <2>3. cont'[NFrom][t] # "up"
    BY <1>17, <2>2 DEF Stop, Stops, Runs, SetCont, TypeOK
  <2>4. \A m \in Nodes, u \in Tiles :
          cont'[m][u] = cont[m][u] \/ (m = NFrom /\ cont'[m][u] = "down")
    BY <1>17, <2>2 DEF Stop, Stops, SetCont, TypeOK
  <2> QED
    BY <2>1, <2>2, <2>3, <2>4 DEF Apart, Runs
<1>18. ASSUME NEW t \in Tiles, Copy(t)
      PROVE  Apart'
  BY <1>18, NewestTyped, JobRow, Differ, KeptView DEF Apart, Calm, EnvWhole, Alive,
     Runs, JobFollows, Unfinished, Ended, Undoing, NextPhase, Live, ReachedStop,
     TypeOK, Phases, Rowless, Copy, Copying, Copied, Next1, Others, rowVars,
     queueVars, nodeVars, jobVars, history, budgets
<1>19. ASSUME NEW t \in Tiles, CopyFails(t)
      PROVE  Apart'
  BY <1>19, NewestTyped, JobRow, Differ, KeptView DEF Apart, Calm, EnvWhole, Alive,
     Runs, JobFollows, Unfinished, Ended, Undoing, NextPhase, Live, ReachedStop,
     TypeOK, Phases, Rowless, CopyFails, Copying, Others, Fails, RollBack, Return,
     rowVars, queueVars, nodeVars, jobVars, history, budgets
<1>20. ASSUME NEW t \in Tiles, Start(t)
      PROVE  Apart'
  BY <1>20, NewestTyped, JobRow, Differ, KeptView DEF Apart, Calm, EnvWhole, Alive,
     Runs, JobFollows, Unfinished, Ended, Undoing, NextPhase, Live, ReachedStop,
     TypeOK, Phases, Rowless, Start, Working, Next1, SetCont, Others, rowVars,
     queueVars, nodeVars, jobVars, history, budgets
<1>21. ASSUME NEW t \in Tiles, StartFails(t)
      PROVE  Apart'
  <2>1. /\ pc = "work" /\ NPhase = "starting" /\ mem = "starting" /\ To = NTo
        /\ UNCHANGED <<NPhase, NFrom, NTo>>
    BY <1>21, JobRow, KeptView DEF StartFails, Working, Others, JobFollows, rowVars, history
  <2>2. NFrom \in Nodes /\ NTo \in Nodes /\ NFrom # NTo
    BY <2>1, NewestTyped, Differ DEF Rowless
  <2>3. pc' = "none" \/ (pc' = "undoRemove" /\ todo' = Tiles)
    BY <1>21, <2>1 DEF StartFails, Fails, Return, RollBack
  <2>4. \A m \in Nodes, u \in Tiles :
          cont'[m][u] = cont[m][u] \/ (m = NTo /\ cont'[m][u] = "up")
    BY <1>21, <2>1, <2>2 DEF StartFails, SetCont, TypeOK
  <2> QED
    BY <2>1, <2>2, <2>3, <2>4 DEF Apart, Runs
<1>22. ASSUME NEW t \in Tiles, Clean(t)
      PROVE  Apart'
  BY <1>22, NewestTyped, JobRow, Differ, KeptView DEF Apart, Calm, EnvWhole, Alive,
     Runs, JobFollows, Unfinished, Ended, Undoing, NextPhase, Live, ReachedStop,
     TypeOK, Phases, Rowless, Clean, Working, Next1, SetCont, Others, rowVars,
     queueVars, nodeVars, jobVars, history, budgets
<1>23. ASSUME NEW t \in Tiles, UndoRemove(t)
      PROVE  Apart'
  BY <1>23, NewestTyped, JobRow, Differ, KeptView DEF Apart, Calm, EnvWhole, Alive,
     Runs, JobFollows, Unfinished, Ended, Undoing, NextPhase, Live, ReachedStop,
     TypeOK, Phases, Rowless, UndoRemove, UndoClears, SetCont, UndoOthers, rowVars,
     queueVars, nodeVars, jobVars, history, budgets
<1>24. ASSUME NEW t \in Tiles, UndoStart(t)
      PROVE  Apart'
  <2>1. pc # "none" /\ pc = "undoStart" /\ t \in todo /\ UNCHANGED <<from, to, newest, envNode>>
    BY <1>24 DEF UndoStart, UndoOthers, history
  <2>2. /\ NFrom' = NFrom /\ NTo' = NTo /\ From = NFrom /\ NFrom # NTo
        /\ NFrom \in Nodes /\ NTo \in Nodes
    BY <2>1, UndoKept, JobRow, Differ, NewestTyped
  <2>3. faults' = faults
    BY DEF Calm
  <2>4. SetCont(NFrom, t, "up") /\ UNCHANGED <<phase, pc>>
    BY <1>24, <2>2, <2>3 DEF UndoStart, UndoFails, Fault, TypeOK
  <2>5. NPhase' = NPhase
    BY <2>1, <2>4, UndoKept
  <2>6. \A m \in Nodes, u \in Tiles :
          cont'[m][u] = cont[m][u] \/ (m = NFrom /\ cont'[m][u] = "up")
    BY <2>2, <2>4 DEF SetCont, TypeOK
  <2> QED
    BY <2>1, <2>2, <2>4, <2>5, <2>6 DEF Apart, Runs
<1>25. ASSUME NEW t \in Tiles, Deploy(t)
      PROVE  Apart'
  BY <1>25, NewestTyped, Differ, KeptView DEF Apart, Calm, EnvWhole, Alive, Runs,
     JobFollows, Unfinished, Ended, Undoing, NextPhase, Live, ReachedStop, TypeOK,
     Phases, Rowless, Deploy, SetCont, rowVars, queueVars, nodeVars, jobVars,
     history, budgets
<1>26. ASSUME NEW n \in Nodes, NEW t \in Tiles, Write(n, t)
      PROVE  Apart'
  BY <1>26, NewestTyped, Differ, KeptView DEF Apart, Calm, EnvWhole, Alive, Runs,
     JobFollows, Unfinished, Ended, Undoing, NextPhase, Live, ReachedStop, TypeOK,
     Phases, Rowless, Write, rowVars, queueVars, nodeVars, jobVars, history, budgets
<1>27. ASSUME NEW n \in Nodes, NEW t \in Tiles, Dies(n, t)
      PROVE  Apart'
  BY <1>27, NewestTyped, Differ, KeptView DEF Apart, Calm, EnvWhole, Alive, Runs,
     JobFollows, Unfinished, Ended, Undoing, NextPhase, Live, ReachedStop, TypeOK,
     Phases, Rowless, Dies, SetCont, rowVars, queueVars, nodeVars, jobVars, history,
     budgets
<1>28. ASSUME NEW n \in Nodes, NEW t \in Tiles, Restarts(n, t)
      PROVE  Apart'
  BY <1>28, NewestTyped, Differ, KeptView DEF Apart, Calm, EnvWhole, Alive, Runs,
     JobFollows, Unfinished, Ended, Undoing, NextPhase, Live, ReachedStop, TypeOK,
     Phases, Rowless, Restarts, SetCont, rowVars, queueVars, nodeVars, jobVars,
     history, budgets
<1>29. CASE UNCHANGED vars
  BY <1>29, KeptView DEF Apart, Calm, EnvWhole, Alive, Runs, JobFollows, Unfinished,
     Ended, Undoing, NextPhase, Live, ReachedStop, TypeOK, Phases, Rowless, vars,
     rowVars, queueVars, nodeVars, jobVars, history, budgets
<1> QED
  BY <1>1, <1>2, <1>3, <1>4, <1>5, <1>6, <1>7, <1>8, <1>9, <1>10, <1>11, <1>12,
     <1>13, <1>14, <1>15, <1>16, <1>17, <1>18, <1>19, <1>20, <1>21, <1>22, <1>23,
     <1>24, <1>25, <1>26, <1>27, <1>28, <1>29 DEF Next

(* A calm step keeps the data with the env.                                *)
LEMMA DataStep ==
  TypeOK /\ RowFollows /\ Sole /\ JobFollows /\ EnvWhole /\ Apart /\ DataFollows /\ Calm /\ Calm' /\ [Next]_vars => DataFollows'
<1> SUFFICES ASSUME TypeOK /\ RowFollows /\ Sole /\ JobFollows /\ EnvWhole /\ Apart /\ DataFollows /\ Calm /\ Calm', [Next]_vars
             PROVE  DataFollows'
  OBVIOUS
<1>1. ASSUME NEW n \in Nodes, Ask(n)
      PROVE  DataFollows'
  BY <1>1, NewestTyped, QuietView DEF DataFollows, HasData, Apart, Calm, EnvWhole,
     Alive, Runs, JobFollows, Unfinished, Ended, Undoing, NextPhase, Live,
     ReachedStop, TypeOK, Phases, Rowless, Ask, rowVars, queueVars, nodeVars,
     jobVars, history, budgets
<1>2. ASSUME NEW i \in Rows, NEW l \in LiveMoves, Create(i, l)
      PROVE  DataFollows'
  BY <1>2, NewestTyped, CreateView DEF DataFollows, HasData, Apart, Calm, EnvWhole,
     Alive, Runs, JobFollows, Unfinished, Ended, Undoing, NextPhase, Live,
     ReachedStop, TypeOK, Phases, Rowless, Create, MayBegin, rowVars, queueVars,
     nodeVars, jobVars, history, budgets
<1>3. ASSUME NEW i \in Rows, Check(i)
      PROVE  DataFollows'
  BY <1>3, NewestTyped, QuietView DEF DataFollows, HasData, Apart, Calm, EnvWhole,
     Alive, Runs, JobFollows, Unfinished, Ended, Undoing, NextPhase, Live,
     ReachedStop, TypeOK, Phases, Rowless, Check, MayBegin, rowVars, queueVars,
     nodeVars, jobVars, history, budgets
<1>4. ASSUME NEW i \in Rows, CreateFails(i)
      PROVE  DataFollows'
  BY <1>4, NewestTyped, QuietView DEF DataFollows, HasData, Apart, Calm, EnvWhole,
     Alive, Runs, JobFollows, Unfinished, Ended, Undoing, NextPhase, Live,
     ReachedStop, TypeOK, Phases, Rowless, CreateFails, rowVars, queueVars, nodeVars,
     jobVars, history, budgets
<1>5. ASSUME NEW i \in Rows, QueueJob(i)
      PROVE  DataFollows'
  BY <1>5, NewestTyped, Differ, KeptView DEF DataFollows, HasData, Apart, Calm,
     EnvWhole, Alive, Runs, JobFollows, Unfinished, Ended, Undoing, NextPhase, Live,
     ReachedStop, TypeOK, Phases, Rowless, QueueJob, Enqueue, rowVars, queueVars,
     nodeVars, jobVars, history, budgets
<1>6. ASSUME NEW i \in Rows, Resume(i)
      PROVE  DataFollows'
  BY <1>6, NewestTyped, Differ, KeptView DEF DataFollows, HasData, Apart, Calm,
     EnvWhole, Alive, Runs, JobFollows, Unfinished, Ended, Undoing, NextPhase, Live,
     ReachedStop, TypeOK, Phases, Rowless, Resume, Enqueue, Fault, rowVars,
     queueVars, nodeVars, jobVars, history, budgets
<1>7. ASSUME NEW i \in Rows, StartJob(i)
      PROVE  DataFollows'
  <2>1. UNCHANGED <<acked, late, vol, torn, NPhase, NFrom, NTo>>
    BY <1>7, KeptView DEF StartJob, rowVars, nodeVars, history
  <2>2. pc = "none"
    BY <1>7 DEF StartJob, RowFollows
  <2>3. CASE Unfinished(i) /\ cur' = i /\ Enter(phase[i])
    <3>1. todo' = Tiles /\ pc' \in {"take", "work"}
      BY <2>3 DEF Enter
    <3> QED
      BY <2>1, <2>2, <3>1 DEF DataFollows, HasData
  <2>4. CASE UNCHANGED <<cur, pc, mem, todo>>
    BY <2>1, <2>4 DEF DataFollows, HasData
  <2> QED
    BY <1>7, <2>3, <2>4 DEF StartJob
<1>8. ASSUME NEW i \in Rows, PressStop(i)
      PROVE  DataFollows'
  BY <1>8, NewestTyped, Differ, KeptView DEF DataFollows, HasData, Apart, Calm,
     EnvWhole, Alive, Runs, JobFollows, Unfinished, Ended, Undoing, NextPhase, Live,
     ReachedStop, TypeOK, Phases, Rowless, PressStop, rowVars, queueVars, nodeVars,
     jobVars, history, budgets
<1>9. ASSUME Prepare
      PROVE  DataFollows'
  BY <1>9, NewestTyped, JobRow, Differ, KeptView DEF DataFollows, HasData, Apart,
     Calm, EnvWhole, Alive, Runs, JobFollows, Unfinished, Ended, Undoing, NextPhase,
     Live, ReachedStop, TypeOK, Phases, Rowless, Prepare, Working, Worked, Others,
     Fails, RollBack, Return, rowVars, queueVars, nodeVars, jobVars, history, budgets
<1>10. ASSUME Take
      PROVE  DataFollows'
  BY <1>10, NewestTyped, JobRow, Differ, KeptView DEF DataFollows, HasData, Apart,
     Calm, EnvWhole, Alive, Runs, JobFollows, Unfinished, Ended, Undoing, NextPhase,
     Live, ReachedStop, TypeOK, Phases, Rowless, Take, Others, Fails, RollBack,
     Return, rowVars, queueVars, nodeVars, jobVars, history, budgets
<1>11. ASSUME LoopEnds
      PROVE  DataFollows'
  BY <1>11, NewestTyped, JobRow, Differ, KeptView DEF DataFollows, HasData, Apart,
     Calm, EnvWhole, Alive, Runs, JobFollows, Unfinished, Ended, Undoing, NextPhase,
     Live, ReachedStop, TypeOK, Phases, Rowless, LoopEnds, Worked, Others, Fails,
     RollBack, Return, rowVars, queueVars, nodeVars, jobVars, history, budgets
<1>12. ASSUME Record
      PROVE  DataFollows'
  BY <1>12, NewestTyped, JobRow, Differ, UndoKept, WriteNext DEF DataFollows,
     HasData, Apart, Calm, EnvWhole, Alive, Runs, JobFollows, Unfinished, Ended,
     Undoing, NextPhase, Live, ReachedStop, TypeOK, Phases, Rowless, Record,
     Recorded, NotRecorded, Enter, Others, RollBack, Return, rowVars, queueVars,
     nodeVars, jobVars, history, budgets
<1>13. ASSUME UndoRemoveEnds
      PROVE  DataFollows'
  BY <1>13, NewestTyped, JobRow, Differ, KeptView DEF DataFollows, HasData, Apart,
     Calm, EnvWhole, Alive, Runs, JobFollows, Unfinished, Ended, Undoing, NextPhase,
     Live, ReachedStop, TypeOK, Phases, Rowless, UndoRemoveEnds, Fault, UndoOthers,
     rowVars, queueVars, nodeVars, jobVars, history, budgets
<1>14. ASSUME UndoTake
      PROVE  DataFollows'
  BY <1>14, NewestTyped, JobRow, Differ, UndoKept, WriteMem DEF DataFollows, HasData,
     Apart, Calm, EnvWhole, Alive, Runs, JobFollows, Unfinished, Ended, Undoing,
     NextPhase, Live, ReachedStop, TypeOK, Phases, Rowless, UndoTake, UndoFails,
     Fault, Return, UndoOthers, rowVars, queueVars, nodeVars, jobVars, history,
     budgets
<1>15. ASSUME UndoRecord
      PROVE  DataFollows'
  BY <1>15, NewestTyped, JobRow, Differ, UndoKept, WriteBack DEF DataFollows,
     HasData, Apart, Calm, EnvWhole, Alive, Runs, JobFollows, Unfinished, Ended,
     Undoing, NextPhase, Live, ReachedStop, TypeOK, Phases, Rowless, UndoRecord,
     Fault, Return, UndoOthers, rowVars, queueVars, nodeVars, jobVars, history,
     budgets
<1>16. ASSUME PanelDies
      PROVE  DataFollows'
  BY <1>16, NewestTyped, QuietView DEF DataFollows, HasData, Apart, Calm, EnvWhole,
     Alive, Runs, JobFollows, Unfinished, Ended, Undoing, NextPhase, Live,
     ReachedStop, TypeOK, Phases, Rowless, PanelDies, Return, Fault, rowVars,
     queueVars, nodeVars, jobVars, history, budgets
<1>17. ASSUME NEW t \in Tiles, Stop(t)
      PROVE  DataFollows'
  BY <1>17, NewestTyped, JobRow, Differ, KeptView DEF DataFollows, HasData, Apart,
     Calm, EnvWhole, Alive, Runs, JobFollows, Unfinished, Ended, Undoing, NextPhase,
     Live, ReachedStop, TypeOK, Phases, Rowless, Stop, Working, Next1, Stops,
     SetCont, Others, rowVars, queueVars, nodeVars, jobVars, history, budgets
<1>18. ASSUME NEW t \in Tiles, Copy(t)
      PROVE  DataFollows'
  BY <1>18, NewestTyped, JobRow, Differ, KeptView DEF DataFollows, HasData, Apart,
     Calm, EnvWhole, Alive, Runs, JobFollows, Unfinished, Ended, Undoing, NextPhase,
     Live, ReachedStop, TypeOK, Phases, Rowless, Copy, Copying, Copied, Next1,
     Others, rowVars, queueVars, nodeVars, jobVars, history, budgets
<1>19. ASSUME NEW t \in Tiles, CopyFails(t)
      PROVE  DataFollows'
  BY <1>19, NewestTyped, JobRow, Differ, KeptView DEF DataFollows, HasData, Apart,
     Calm, EnvWhole, Alive, Runs, JobFollows, Unfinished, Ended, Undoing, NextPhase,
     Live, ReachedStop, TypeOK, Phases, Rowless, CopyFails, Copying, Others, Fails,
     RollBack, Return, rowVars, queueVars, nodeVars, jobVars, history, budgets
<1>20. ASSUME NEW t \in Tiles, Start(t)
      PROVE  DataFollows'
  BY <1>20, NewestTyped, JobRow, Differ, KeptView DEF DataFollows, HasData, Apart,
     Calm, EnvWhole, Alive, Runs, JobFollows, Unfinished, Ended, Undoing, NextPhase,
     Live, ReachedStop, TypeOK, Phases, Rowless, Start, Working, Next1, SetCont,
     Others, rowVars, queueVars, nodeVars, jobVars, history, budgets
<1>21. ASSUME NEW t \in Tiles, StartFails(t)
      PROVE  DataFollows'
  BY <1>21, NewestTyped, JobRow, Differ, KeptView DEF DataFollows, HasData, Apart,
     Calm, EnvWhole, Alive, Runs, JobFollows, Unfinished, Ended, Undoing, NextPhase,
     Live, ReachedStop, TypeOK, Phases, Rowless, StartFails, Working, SetCont,
     Others, Fails, RollBack, Return, rowVars, queueVars, nodeVars, jobVars, history,
     budgets
<1>22. ASSUME NEW t \in Tiles, Clean(t)
      PROVE  DataFollows'
  BY <1>22, NewestTyped, JobRow, Differ, KeptView DEF DataFollows, HasData, Apart,
     Calm, EnvWhole, Alive, Runs, JobFollows, Unfinished, Ended, Undoing, NextPhase,
     Live, ReachedStop, TypeOK, Phases, Rowless, Clean, Working, Next1, SetCont,
     Others, rowVars, queueVars, nodeVars, jobVars, history, budgets
<1>23. ASSUME NEW t \in Tiles, UndoRemove(t)
      PROVE  DataFollows'
  BY <1>23, NewestTyped, JobRow, Differ, KeptView DEF DataFollows, HasData, Apart,
     Calm, EnvWhole, Alive, Runs, JobFollows, Unfinished, Ended, Undoing, NextPhase,
     Live, ReachedStop, TypeOK, Phases, Rowless, UndoRemove, UndoClears, SetCont,
     UndoOthers, rowVars, queueVars, nodeVars, jobVars, history, budgets
<1>24. ASSUME NEW t \in Tiles, UndoStart(t)
      PROVE  DataFollows'
  BY <1>24, NewestTyped, JobRow, Differ, UndoKept, WriteMem DEF DataFollows, HasData,
     Apart, Calm, EnvWhole, Alive, Runs, JobFollows, Unfinished, Ended, Undoing,
     NextPhase, Live, ReachedStop, TypeOK, Phases, Rowless, UndoStart, SetCont,
     UndoFails, Fault, Return, UndoOthers, rowVars, queueVars, nodeVars, jobVars,
     history, budgets
<1>25. ASSUME NEW t \in Tiles, Deploy(t)
      PROVE  DataFollows'
  BY <1>25, NewestTyped, Differ, KeptView DEF DataFollows, HasData, Apart, Calm,
     EnvWhole, Alive, Runs, JobFollows, Unfinished, Ended, Undoing, NextPhase, Live,
     ReachedStop, TypeOK, Phases, Rowless, Deploy, SetCont, rowVars, queueVars,
     nodeVars, jobVars, history, budgets
<1>26. ASSUME NEW n \in Nodes, NEW t \in Tiles, Write(n, t)
      PROVE  DataFollows'
  <2>1. cont[n][t] = "up" /\ n \in {NFrom, NTo}
    BY <1>26 DEF Write, Runs, Apart
  <2>2. n = NTo /\ NPhase = "starting" => writes' \in late'
    BY <1>26, Differ DEF Write, NTo, NPhase, Rowless
  <2>3. ASSUME NEW m \in Nodes, NEW u \in Tiles, HasData(m, u),
               m = n \/ u # t \/ (n = NTo /\ NPhase = "starting")
        PROVE  acked'[u] \ late' \subseteq vol'[m][u] /\ <<m, u>> \notin torn'
    <3>1. acked'[u] \subseteq acked[u] \cup {writes'} /\ (u # t => acked'[u] = acked[u])
      BY <1>26 DEF Write, TypeOK
    <3>2. late \subseteq late' /\ torn' = torn
      BY <1>26 DEF Write
    <3>3. vol[m][u] \subseteq vol'[m][u] /\ (m = n /\ u = t => writes' \in vol'[m][u])
      BY <1>26 DEF Write, TypeOK
    <3> QED
      BY <2>2, <2>3, <3>1, <3>2, <3>3 DEF HasData
  <2>4. UNCHANGED <<NPhase, NFrom, NTo, pc, todo>>
    BY <1>26, KeptView DEF Write, rowVars, jobVars
  <2>5. NPhase \notin {"cleaning", "done"} => n = NFrom \/ (n = NTo /\ NPhase = "starting")
    BY <2>1, NewestTyped DEF Apart, RowFollows, Phases, Rowless, NFrom, NTo
  <2>6. \/ NPhase \in {"cleaning", "done"}
        \/ NPhase = "starting" /\ pc \notin {"undoTake", "undoStart"}
        \/ pc \in {"work", "record"} /\ NPhase \in {"copying", "final"}
        => n = NTo
    BY <2>1, JobRow DEF Apart, Runs, JobFollows, Undoing, Ended
  <2>7. NPhase \notin {"cleaning", "done"} =>
          \A u \in Tiles : acked'[u] \ late' \subseteq vol'[NFrom][u] /\ <<NFrom, u>> \notin torn'
    BY <2>3, <2>5, NewestTyped DEF DataFollows
  <2>8. \/ NPhase \in {"cleaning", "done"}
        \/ NPhase = "starting" /\ pc \notin {"undoTake", "undoStart"}
        => \A u \in Tiles : acked'[u] \ late' \subseteq vol'[NTo][u] /\ <<NTo, u>> \notin torn'
    BY <2>3, <2>6, NewestTyped DEF DataFollows
  <2>9. pc \in {"work", "record"} /\ NPhase \in {"copying", "final"} =>
          \A u \in Tiles \ todo :
            acked'[u] \ late' \subseteq vol'[NTo][u] /\ <<NTo, u>> \notin torn'
    BY <2>3, <2>6, NewestTyped DEF DataFollows
  <2> QED
    BY <2>4, <2>7, <2>8, <2>9 DEF DataFollows, HasData
<1>27. ASSUME NEW n \in Nodes, NEW t \in Tiles, Dies(n, t)
      PROVE  DataFollows'
  BY <1>27, NewestTyped, Differ, KeptView DEF DataFollows, HasData, Apart, Calm,
     EnvWhole, Alive, Runs, JobFollows, Unfinished, Ended, Undoing, NextPhase, Live,
     ReachedStop, TypeOK, Phases, Rowless, Dies, SetCont, rowVars, queueVars,
     nodeVars, jobVars, history, budgets
<1>28. ASSUME NEW n \in Nodes, NEW t \in Tiles, Restarts(n, t)
      PROVE  DataFollows'
  BY <1>28, NewestTyped, Differ, KeptView DEF DataFollows, HasData, Apart, Calm,
     EnvWhole, Alive, Runs, JobFollows, Unfinished, Ended, Undoing, NextPhase, Live,
     ReachedStop, TypeOK, Phases, Rowless, Restarts, SetCont, rowVars, queueVars,
     nodeVars, jobVars, history, budgets
<1>29. CASE UNCHANGED vars
  BY <1>29, KeptView DEF DataFollows, HasData, Apart, Calm, EnvWhole, Alive, Runs,
     JobFollows, Unfinished, Ended, Undoing, NextPhase, Live, ReachedStop, TypeOK,
     Phases, Rowless, vars, rowVars, queueVars, nodeVars, jobVars, history, budgets
<1> QED
  BY <1>1, <1>2, <1>3, <1>4, <1>5, <1>6, <1>7, <1>8, <1>9, <1>10, <1>11, <1>12,
     <1>13, <1>14, <1>15, <1>16, <1>17, <1>18, <1>19, <1>20, <1>21, <1>22, <1>23,
     <1>24, <1>25, <1>26, <1>27, <1>28, <1>29 DEF Next

(***************************************************************************)
(* The theorems                                                            *)
(***************************************************************************)

(* The first state satisfies the inductive invariant.                      *)
LEMMA InitInv == Init => MoveInv
<1> SUFFICES ASSUME Init PROVE MoveInv
  OBVIOUS
<1>1. TypeOK
  <2>1. RowTypes /\ QueueTypes
    BY MoveAssumption DEF Init, RowTypes, QueueTypes, Phases, Rowless, Rows
  <2>2. NodeTypes
    BY MoveAssumption DEF Init, NodeTypes
  <2>0. dead \in BOOLEAN /\ raced \in BOOLEAN
    BY DEF Init
  <2>3. JobTypes
    BY <2>0, MoveAssumption DEF Init, JobTypes, Phases, Rowless
  <2>4. CountTypes
    BY <2>0, MoveAssumption DEF Init, CountTypes
  <2> QED
    BY <2>1, <2>2, <2>3, <2>4, TypeParts
<1>2. NPhase = "none" /\ NFrom = Home /\ NTo = Home /\ newest = 0
  BY MoveAssumption DEF Init, NPhase, NFrom, NTo
<1>3. RowFollows
  BY <1>2, MoveAssumption DEF Init, RowFollows, Rows, Rowless, NPhase
<1>4. Sole
  BY MoveAssumption DEF Init, Sole, Unfinished, Rowless, Rows
<1>5. JobFollows /\ Attended
  BY <1>2 DEF Init, JobFollows, Attended, Undoing, ReachedStop
<1>6. \A t \in Tiles : cont[Home][t] = "up" /\ \A n \in Nodes \ {Home} : cont[n][t] = "none"
  BY MoveAssumption DEF Init
<1>7. EnvWhole
  BY <1>2, <1>6 DEF Init, EnvWhole, Alive
<1>8. Apart
  BY <1>2, <1>6 DEF Init, Apart, Runs
<1>9. DataFollows
  BY <1>2, MoveAssumption DEF Init, DataFollows, HasData
<1> QED
  BY <1>1, <1>3, <1>4, <1>5, <1>7, <1>8, <1>9 DEF MoveInv, SoleInv, CalmInv

(* Every step keeps the inductive invariant.                               *)
LEMMA NextInv == MoveInv /\ [Next]_vars => MoveInv'
<1> SUFFICES ASSUME MoveInv, [Next]_vars PROVE MoveInv'
  OBVIOUS
<1>1. TypeOK /\ RowFollows /\ SoleInv /\ CalmInv
  BY DEF MoveInv
<1>2. TypeOK' /\ RowFollows'
  BY <1>1, TypeStep, RowStep
<1>3. ASSUME ~raced' PROVE Sole /\ JobFollows /\ EnvWhole /\ Attended
  BY <1>1, <1>3, RacedBefore DEF SoleInv
<1>4. ASSUME ~raced' PROVE Sole' /\ JobFollows' /\ EnvWhole' /\ Attended'
  BY <1>1, <1>3, <1>4, SoleStep, JobStep, WholeStep, AttendedStep
<1>5. ASSUME Calm' PROVE Apart' /\ DataFollows'
  <2>1. Calm /\ ~raced'
    BY <1>1, <1>5, CalmBefore DEF Calm
  <2>2. Apart /\ DataFollows
    BY <1>1, <2>1 DEF CalmInv
  <2>3. Sole /\ JobFollows /\ EnvWhole
    BY <1>3, <2>1
  <2> QED
    BY <1>1, <1>5, <2>1, <2>2, <2>3, ApartStep, DataStep
<1> QED
  BY <1>2, <1>4, <1>5 DEF MoveInv, SoleInv, CalmInv

(* The inductive invariant holds of every state of every behaviour.        *)
THEOREM MoveInvariant == Spec => []MoveInv
<1>1. Init => MoveInv
  BY InitInv
<1>2. MoveInv /\ [Next]_vars => MoveInv'
  BY NextInv
<1> QED
  BY <1>1, <1>2, PTL DEF Spec

(* Every variable keeps its type.                                          *)
THEOREM MoveTypes == Spec => []TypeOK
<1>1. MoveInv => TypeOK
  BY DEF MoveInv
<1> QED
  BY <1>1, MoveInvariant, PTL

(* As long as no row was inserted on a stale check or a stale node, a move *)
(* that ended, by its last phase or by Rollback, leaves the env whole on   *)
(* the node its row names, whatever call failed, whenever the panel died   *)
(* and whichever tiles were deployed in between.                           *)
THEOREM MoveEndsWhole == Spec => []EndsWhole
<1>1. MoveInv => EndsWhole
  BY DEF MoveInv, SoleInv, EnvWhole, EndsWhole, NPhase, NFrom, NTo
<1> QED
  BY <1>1, MoveInvariant, PTL

(* Without such a race an env no job works on or will work on is up,       *)
(* unless a job was stopped or a call of a rollback, of a job's start or   *)
(* of boot's resume failed: Run rolls back whatever else failed and boot   *)
(* resumes what the panel's death cut off.                                 *)
THEOREM MoveNotLeftDown == Spec => []NotLeftDown
<1>1. ASSUME MoveInv, Idle, ~raced, stops = 0, faults = 0
      PROVE  \A t \in Tiles : Alive(envNode, t)
  <2>1. TypeOK /\ RowFollows /\ EnvWhole /\ Attended
    BY <1>1 DEF MoveInv, SoleInv
  <2>2. CASE ReachedStop(NPhase)
    <3>1. newest \in Rows
      BY <2>1, <2>2, Differ DEF ReachedStop, Rowless
    <3>2. cur # newest /\ job[newest] # "queued" /\ newest \notin resume
      BY <1>1, <3>1, MoveAssumption DEF Idle, Rows
    <3> QED
      BY <1>1, <2>1, <2>2, <3>2 DEF Attended
  <2>3. CASE ~ReachedStop(NPhase)
    <3>1. NPhase \in Phases /\ NPhase \notin {"asked", "checked", "refused"}
      BY <2>1, NewestTyped DEF RowFollows, Rowless, NPhase, TypeOK
    <3> QED
      BY <2>1, <2>3, <3>1 DEF EnvWhole, ReachedStop, Phases, Rowless
  <2> QED
    BY <2>2, <2>3
<1>2. MoveInv => NotLeftDown
  BY <1>1 DEF NotLeftDown
<1> QED
  BY <1>2, MoveInvariant, PTL

(* While calm no tile runs on two nodes: the source is stopped before the  *)
(* target starts, and Rollback removes the target's containers before it   *)
(* starts the source's.                                                    *)
THEOREM MoveOneNode == Spec => []OneNode
<1>1. ASSUME MoveInv, Calm, NEW m \in Nodes, NEW n \in Nodes, NEW t \in Tiles,
             Runs(m, t), Runs(n, t)
      PROVE  m = n
  <2>1. Apart /\ TypeOK /\ RowFollows /\ JobFollows
    BY <1>1 DEF MoveInv, CalmInv, SoleInv, Calm
  <2>2. m \in {NFrom, NTo} /\ n \in {NFrom, NTo}
    BY <1>1, <2>1 DEF Apart, Runs
  <2>3. NPhase \in Phases /\ (NPhase \in Rowless => NFrom = NTo)
    BY <2>1, NewestTyped DEF RowFollows, NPhase, NFrom, NTo
  <2>4. ~(Runs(NFrom, t) /\ Runs(NTo, t)) \/ NFrom = NTo
    BY <2>1, <2>3 DEF Apart, Runs, Phases
  <2> QED
    BY <1>1, <2>2, <2>4
<1>2. MoveInv => OneNode
  BY <1>1 DEF OneNode
<1> QED
  BY <1>2, MoveInvariant, PTL

(* While calm every tile that runs, on any node and in every phase, runs   *)
(* on a consistent volume with every write it did: the last copy is taken  *)
(* of a stopped source, and nothing starts on a copy before it.            *)
THEOREM MoveRunsOnItsData == Spec => []RunsOnItsData
<1>1. ASSUME MoveInv, Calm, NEW n \in Nodes, NEW t \in Tiles, Runs(n, t)
      PROVE  HasData(n, t)
  <2>1. Apart /\ DataFollows /\ TypeOK /\ RowFollows /\ Sole /\ JobFollows
    BY <1>1 DEF MoveInv, CalmInv, SoleInv, Calm
  <2>2. n \in {NFrom, NTo}
    BY <1>1, <2>1 DEF Apart, Runs
  <2>3. NPhase \in Phases /\ (NPhase \in Rowless => NFrom = NTo)
    BY <2>1, NewestTyped DEF RowFollows, NPhase, NFrom, NTo
  <2>4. NPhase \in {"cleaning", "done"} => pc \notin Undoing
    BY <2>1, JobRow DEF JobFollows, Ended, Undoing
  <2>5. CASE n = NFrom
    BY <1>1, <2>1, <2>4, <2>5 DEF Apart, DataFollows, Runs, Undoing
  <2>6. CASE n = NTo /\ n # NFrom
    BY <1>1, <2>1, <2>3, <2>6 DEF Apart, DataFollows, Runs, Phases
  <2> QED
    BY <2>2, <2>5, <2>6
<1>2. MoveInv => RunsOnItsData
  BY <1>1 DEF RunsOnItsData, HasData
<1> QED
  BY <1>2, MoveInvariant, PTL

=============================================================================
