---------------------------- MODULE ActivityLang ----------------------------
(***************************************************************************)
(* Interpretation of the chains of Render Activities: activity.hpp,        *)
(* activity-lang.hpp and the wiring performed by activity-term.hpp.        *)
(*                                                                         *)
(* A calculation job is the chain                                          *)
(*    POST -> GATE -> WORKSTART -> INVOKE(FEED,FEED) -> WORKSTOP -> NOTIFY* *)
(* with one NOTIFY per dependent job; a meta job is POST -> INVOKE. The    *)
(* state of a chain is that of its Gate: the prerequisites not yet checked *)
(* off, and its deadline, set to Time::MIN once the Gate was passed by     *)
(* notification.                                                           *)
(***************************************************************************)
EXTENDS TimeValue, FiniteSets

CONSTANTS CalcJobs,      \* Term::CALC_JOB
          MetaJobs,      \* Term::META_JOB
          Pred,          \* Pred[j]: the jobs which link j as their successor
          Start,         \* Start[j]: planned start time of job j
          Deadline,      \* Deadline[j]: end of the time window of calculation job j
          UnlimitedTime  \* jobs linked as successor with unlimitedTime = true

ASSUME JobAssumption == /\ CalcJobs \cap MetaJobs = {}
                        /\ IsFiniteSet(CalcJobs)
                        /\ Pred \in [CalcJobs -> SUBSET CalcJobs]
                        /\ Start \in [CalcJobs \cup MetaJobs -> Int]
                        /\ Deadline \in [CalcJobs -> Int]
                        /\ UnlimitedTime \subseteq CalcJobs
                        /\ \A j \in CalcJobs : /\ IsRegular(Start[j])
                                               /\ IsRegular(Deadline[j])

VARIABLES rest,       \* Condition::rest of the Gate of each calculation job
          gateDead    \* Condition::dead of the Gate of each calculation job

gateVars == <<rest, gateDead>>

Jobs == CalcJobs \cup MetaJobs

Succ(j) == {k \in CalcJobs : j \in Pred[k]}

(***************************************************************************)
(* setupGate() creates an open Gate with the deadline of the POST, and     *)
(* every expectNotification() adds one dependency.                         *)
(***************************************************************************)
GateInit == /\ rest = [j \in CalcJobs |-> Cardinality(Pred[j])]
            /\ gateDead = [j \in CalcJobs |-> Deadline[j]]

IsDead(j, time) == gateDead[j] <= time
IsHold(j)       == rest[j] > 0

(* Mutant: only the deadline is checked. *)
CheckGateIgnoringHold(j, time) == ~IsDead(j, time)

(* Activity::checkGate: activation of the Gate from its own POST *)
CheckGate(j, time) == ~IsDead(j, time) /\ ~IsHold(j)

(* Mutant: rest is tested as if it were decremented already. *)
NotificationOpensLate(j, time) == rest[j] = 0 /\ ~IsDead(j, time)

(* Activity::receiveGateNotification opens the Gate with the last notification *)
NotificationOpens(j, time) == rest[j] = 1 /\ ~IsDead(j, time)

(* Mutants: the Gate is not locked when opened; the last one is not counted. *)
ReceiveWithoutLock(j, time) ==
    /\ rest' = [rest EXCEPT ![j] = IF @ > 0 THEN @ - 1 ELSE @]
    /\ UNCHANGED gateDead

ReceiveOffByOne(j, time) ==
    /\ rest' = [rest EXCEPT ![j] = IF @ > 1 THEN @ - 1 ELSE @]
    /\ gateDead' = [gateDead EXCEPT ![j] = IF NotificationOpens(j, time) THEN ANYTIME ELSE @]

ReceiveGateNotification(j, time) ==
    /\ rest' = [rest EXCEPT ![j] = IF @ > 0 THEN @ - 1 ELSE @]
    /\ gateDead' = [gateDead EXCEPT ![j] = IF NotificationOpens(j, time) THEN ANYTIME ELSE @]

(***************************************************************************)
(* ActivationEvent::refineTo, for the event a NOTIFY posts: a copy of the  *)
(* event currently processed, directed at the Gate of job j. The start time *)
(* is that of job j, unless linked with unlimitedTime, and the deadline is *)
(* that of the Gate, unless the Gate was locked.                           *)
(***************************************************************************)
RefineToGate(root, j, src) ==
    [root EXCEPT !.verb     = "GATE",
                 !.job      = j,
                 !.tag      = src,
                 !.starting = IF j \in UnlimitedTime THEN @ ELSE Start[j],
                 !.deadline = IF IsRegular(gateDead[j]) THEN gateDead[j] ELSE @]

=============================================================================
