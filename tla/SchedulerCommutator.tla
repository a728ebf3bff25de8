------------------------ MODULE SchedulerCommutator ------------------------
(***************************************************************************)
(* Layer-2 of the Scheduler: the grooming token, an atomic lock giving one *)
(* thread at a time the right to change scheduler internals, and what a    *)
(* thread may do with the queues of Layer-1 while holding it               *)
(* (vault/gear/scheduler-commutator.hpp).                                  *)
(*                                                                         *)
(* Whatever a thread does to token-protected state between acquiring and   *)
(* releasing the token is one step, except where another thread can tell   *)
(* the difference: pushes to the entrance queue and unprotected reads.     *)
(***************************************************************************)
EXTENDS SchedulerInvocation, LoadController

CONSTANTS Threads,    \* every thread calling into the Scheduler
          NoThread,   \* the default constructed std::thread::id
          Instant     \* the times a clock can show

ASSUME ThreadAssumption  == NoThread \notin Threads
ASSUME InstantAssumption == Instant \subseteq Int /\ \A t \in Instant : IsRegular(t)

VARIABLE groomingToken

HoldsGroomingToken(t) == groomingToken = t

(* Mutant: the token is stored without comparing to the default value. *)
GroomsUnchecked(t) == t \in Threads

(* the thread holds the token already, or its compare-exchange succeeds *)
MayGroom(t) == groomingToken \in {t, NoThread}

(* Mutant: the drop is omitted. *)
KeptBy(t) == groomingToken

DroppedBy(t) == IF HoldsGroomingToken(t) THEN NoThread ELSE groomingToken

(***************************************************************************)
(* layer1.headTime() is called without holding the token. While another    *)
(* thread holds it, the read races with changes to the heap and can yield  *)
(* anything.                                                               *)
(***************************************************************************)
ObservedHeadTime(t) == IF MayGroom(t) THEN HeadTime(priority)
                                    ELSE Instant \cup {NEVER}

(* likewise for Scheduler::empty(); only the entrance queue is thread-safe *)
ObservedEmpty(t) == IF MayGroom(t) THEN {IsEmpty}
                    ELSE IF instruct = {} THEN BOOLEAN ELSE {FALSE}

(* maybeFeed(), once pending input has been seen *)
MaybeFeed(t) ==
    IF MayGroom(t) THEN FeedPrioritisation /\ groomingToken' = t
                   ELSE UNCHANGED <<instruct, priority, groomingToken>>

(* The entries at the top of a consolidated queue q where the loop in      *)
(* maintainQueueHead() can have stopped.                                   *)
HeadEntry(q, time) == {e \in Top(q) : ~Removable(e, time)}

(* Mutant of FoundWork: peekHead() instead of pullHead(). *)
PeekedWork(t, time, e) ==
    /\ MayGroom(t)
    /\ \E q \in SUBSET FedQueue :
          /\ Consolidated(FedQueue, q, time)
          /\ e \in HeadEntry(q, time)
          /\ ~IsOutOfTime(e, time)
          /\ IsDue(e, time)
          /\ priority' = q
    /\ instruct' = {}
    /\ groomingToken' = t

(***************************************************************************)
(* findWork() by thread t with the time it has sampled before. The three   *)
(* possible outcomes; only FoundWork retains the token, since the KICK     *)
(* returned otherwise makes dispatchCapacity() drop it.                    *)
(***************************************************************************)
FoundWork(t, time, e) ==
    /\ MayGroom(t)
    /\ \E q \in SUBSET FedQueue :
          /\ Consolidated(FedQueue, q, time)
          /\ e \in HeadEntry(q, time)
          /\ ~IsOutOfTime(e, time)
          /\ IsDue(e, time)
          /\ priority' = q \ {e}
    /\ instruct' = {}
    /\ groomingToken' = t

NothingDue(t, time) ==
    /\ MayGroom(t)
    /\ \E q \in SUBSET FedQueue :
          /\ Consolidated(FedQueue, q, time)
          /\ \/ q = {}
             \/ \E e \in HeadEntry(q, time) : IsOutOfTime(e, time) \/ ~IsDue(e, time)
          /\ priority' = q
    /\ instruct' = {}
    /\ groomingToken' = NoThread

Contention(t) == ~MayGroom(t) /\ UNCHANGED <<instruct, priority, groomingToken>>

(* postChain() by thread t *)
PostChain(t, events) ==
    IF HoldsGroomingToken(t)
      THEN priority' = priority \cup events /\ UNCHANGED instruct
      ELSE Instruct(events) /\ UNCHANGED priority

(***************************************************************************)
(* scatteredDelay(): the effect on the token and on the tended head time.  *)
(* Any kind of targeted sleep drops the token; SPINTIME retains it.        *)
(***************************************************************************)
Tended(t, head, capacity) ==
    IF capacity = "TENDNEXT" /\ ~TendedNext(head) /\ MayGroom(t) THEN head ELSE tendedHead

TargetedSleep == {"TENDNEXT", "NEARTIME", "WORKTIME"}

=============================================================================
