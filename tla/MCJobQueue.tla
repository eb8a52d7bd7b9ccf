----------------------------- MODULE MCJobQueue -----------------------------
(* Small instances of the job queue for TLC.                               *)
EXTENDS JobQueue

CONSTANTS a, b

(* A promote of one tile, one that redoes it with another tile, and a seed *)
(* with its dump.                                                          *)
RaceRequests ==
    {[kind |-> "promote", lock |-> {a}], [kind |-> "promote", lock |-> {a, b}],
     [kind |-> "seed", lock |-> {a}]}

(* An apply that waits for its deploy, and an upgrade that overlaps both.  *)
ApplyRequests ==
    {[kind |-> "org-apply", lock |-> {b}], [kind |-> "upgrade", lock |-> {All}]}

(* Promotes of one tile.                                                   *)
StaleRequests == {[kind |-> "promote", lock |-> {a}]}

ApplyChildren == {[kind |-> "deploy", lock |-> {a}]}

(* For liveness: the panel stays up and nobody presses stop, either of     *)
(* which only ends jobs.                                                   *)
LiveSpec == Init /\ [][Next /\ proc' = "up" /\ pressed' = {}]_vars /\ Fairness

=============================================================================
