--------------------------- MODULE LoadController ---------------------------
(***************************************************************************)
(* Redirection of free worker capacity in accordance to the distance to    *)
(* the schedule head (vault/gear/load-controller.hpp).                     *)
(*                                                                         *)
(* The moving average of the scheduling lag is a floating point heuristic  *)
(* which decides only whether the WorkForce is stepped up; modules using   *)
(* it leave that decision open.                                            *)
(***************************************************************************)
EXTENDS TimeValue

CONSTANTS NearHorizon,    \* "imminent", justifies a spinning wait
          WorkHorizon,    \* scope of activity currently in the works
          SleepHorizon    \* schedules beyond justify going idle

ASSUME HorizonAssumption ==
    /\ NearHorizon \in Nat /\ WorkHorizon \in Nat /\ SleepHorizon \in Nat
    /\ NearHorizon < WorkHorizon /\ WorkHorizon < SleepHorizon

VARIABLE tendedHead     \* head time some capacity has been directed to

Capacity == {"DISPATCH", "TENDNEXT", "SPINTIME", "NEARTIME", "WORKTIME", "IDLEWAIT"}

ClassifyTimeHorizon(off) ==
    CASE off > SleepHorizon                          -> "IDLEWAIT"
      [] off <= SleepHorizon /\ off > WorkHorizon    -> "WORKTIME"
      [] off <= WorkHorizon  /\ off > NearHorizon    -> "NEARTIME"
      [] off <= NearHorizon  /\ off > 0              -> "SPINTIME"
      [] off <= 0                                    -> "DISPATCH"

TendedNext(head) == ~IsRegular(head) \/ head = tendedHead

(* capacity of a worker returning from active employment *)
MarkOutgoingCapacity(head, time) ==
    LET horizon == ClassifyTimeHorizon(head - time)
    IN  IF horizon \in {"NEARTIME", "WORKTIME", "IDLEWAIT"} /\ ~TendedNext(head)
          THEN "TENDNEXT"
          ELSE IF horizon = "IDLEWAIT" THEN "WORKTIME" ELSE horizon

(* capacity of a worker returning from idle wait and asking for work *)
MarkIncomingCapacity(head, time) ==
    IF ClassifyTimeHorizon(head - time) \in {"WORKTIME", "IDLEWAIT"}
      THEN "IDLEWAIT"
      ELSE MarkOutgoingCapacity(head, time)

=============================================================================
