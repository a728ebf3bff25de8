---------------------------- MODULE MCScheduler ----------------------------
(***************************************************************************)
(* Instances of the Scheduler for model checking: up to two workers, a     *)
(* planning job m1 which schedules calculation job ja and its dependent jb,*)
(* except for those jobs which are posted directly from outside.           *)
(***************************************************************************)
EXTENDS Scheduler, TLC

CONSTANTS w1, w2, c1, c2, m1, ja, jb,
          Direct    \* jobs left to be posted by clients

MCInstant  == 0 .. MaxTime
MCAnytime  == -1
MCPred     == [j \in CalcJobs |-> IF j = jb THEN {ja} \cap CalcJobs ELSE {}]
MCStart    == [j \in Jobs |-> IF j = jb THEN 2 ELSE 1]
MCDeadline == [j \in CalcJobs |-> IF j = ja THEN 3 ELSE 4]
MCPlan     == [m \in MetaJobs |-> CalcJobs \ Direct]
MCMan      == [j \in Jobs |-> NoManID]

WorkerSymmetry == Permutations(Workers)

=============================================================================
