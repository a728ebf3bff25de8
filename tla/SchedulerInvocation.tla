------------------------ MODULE SchedulerInvocation ------------------------
(***************************************************************************)
(* Layer-1 of the Scheduler: the entrance queue, the time prioritisation   *)
(* and the decisions taken on the entry at the head of the schedule        *)
(* (vault/gear/scheduler-invocation.hpp).                                  *)
(*                                                                         *)
(* Both queues are sets of events: the entrance queue is only ever drained *)
(* completely, and the order among entries with an equal start time, which *)
(* std::priority_queue leaves open, is a nondeterministic choice here.     *)
(***************************************************************************)
EXTENDS TimeValue

CONSTANTS ManID,    \* the ManifestationIDs in use
          NoManID   \* the default ManifestationID(), always implicitly enabled

ASSUME ManAssumption == NoManID \in ManID

VARIABLES instruct,  \* lock-free entrance queue
          priority,  \* prioritised entries; accessed under the grooming token
          allowed    \* ManifestationIDs enabled for processing

(***************************************************************************)
(* The entries that may sit at the top of queue q.                         *)
(***************************************************************************)
Top(q) == {e \in q : \A o \in q : e.starting <= o.starting}

(* the time headTime() returns, as a set with a single element *)
HeadTime(q) == IF q = {} THEN {NEVER} ELSE {e.starting : e \in Top(q)}

IsActivated(man) == man = NoManID \/ man \in allowed

IsDue(e, time) == e.starting <= time

(* the water level has passed the deadline: such an entry must not be      *)
(* dereferenced any more                                                   *)
IsMissed(e, time) == time > e.deadline

IsOutdated(e, time) == IsMissed(e, time) \/ ~IsActivated(e.manifestation)

IsOutOfTime(e, time) == /\ IsMissed(e, time)
                        /\ e.isCompulsory
                        /\ IsActivated(e.manifestation)

HasPendingInput == instruct # {}

IsEmpty == instruct = {} /\ priority = {}

(***************************************************************************)
(* Operations. FedQueue is the prioritisation after feedPrioritisation().  *)
(***************************************************************************)
FedQueue == priority \cup instruct

FeedPrioritisation == /\ priority' = FedQueue
                      /\ instruct' = {}

Instruct(events) == instruct' = instruct \cup events

Activate(man) == allowed' = IF man = NoManID THEN allowed ELSE allowed \cup {man}

DiscardSchedule == /\ instruct' = {}
                   /\ priority' = {}

(***************************************************************************)
(* What "pullHead() while the head is outdated and not out-of-time" may    *)
(* leave of queue q. The rest q2 and its top entry: everything removed was *)
(* a removable entry no later than what remains, and the loop stopped at   *)
(* an entry it must not remove, or at the empty queue.                     *)
(***************************************************************************)
Removable(e, time) == IsOutdated(e, time) /\ ~IsOutOfTime(e, time)

Consolidated(q, q2, time) ==
    /\ q2 \subseteq q
    /\ \A e \in q \ q2 : /\ Removable(e, time)
                         /\ \A o \in q2 : e.starting <= o.starting
    /\ q2 # {} => \E e \in Top(q2) : ~Removable(e, time)

=============================================================================
