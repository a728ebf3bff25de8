----------------------------- MODULE WorkForce -----------------------------
(***************************************************************************)
(* The pool of workers and the loop every worker performs                  *)
(* (vault/gear/work-force.hpp). Workers are drawn from a finite set; a     *)
(* worker whose thread has ended stays in the pool until size() prunes it, *)
(* and can be started anew after that.                                     *)
(*                                                                         *)
(* The kickLevel_ of the anti-contention measures only sets how long a     *)
(* worker spins before it tries again, and is left out.                    *)
(***************************************************************************)
EXTENDS Integers, FiniteSets

CONSTANTS Workers,               \* identities for worker objects
          ComputationCapacity,   \* COMPUTATION_CAPACITY
          DismissCycles          \* idle cycles after which a worker terminates

ASSUME WorkForceAssumption ==
    /\ IsFiniteSet(Workers)
    /\ ComputationCapacity \in Nat /\ ComputationCapacity <= Cardinality(Workers)
    /\ DismissCycles \in Nat \ {0}

VARIABLES pool,         \* the workers_ list
          pc,           \* where each worker thread is
          res,          \* result of its latest doWork()
          emergency,    \* flag to trigger cooperative halt
          idleCycles    \* number of consecutive idle waits

Proc == {"PASS", "SKIP", "WAIT", "KICK", "HALT"}

Dead == {w \in pool : pc[w] = "dead"}

(***************************************************************************)
(* Sets of workers which activate() and incScale() can add. Both compare   *)
(* the length of the list, which still includes terminated workers.        *)
(***************************************************************************)
Added(target) ==
    LET missing == target - Cardinality(pool)
    IN  {S \in SUBSET (Workers \ pool) :
            Cardinality(S) = IF missing > 0 THEN missing ELSE 0}

ActivateSets == Added(ComputationCapacity)

IncScaleSets(step) ==
    LET n == Cardinality(pool) + step
    IN  Added(IF n < ComputationCapacity THEN n ELSE ComputationCapacity)

(* Mutant: the new worker is not added to the list. *)
LaunchUnlisted(S, at) ==
    /\ pool' = pool
    /\ pc' = [w \in Workers |-> IF w \in S THEN "peekIn" ELSE at[w]]
    /\ emergency' = [w \in Workers |-> IF w \in S THEN FALSE ELSE emergency[w]]
    /\ idleCycles' = [w \in Workers |-> IF w \in S THEN 0 ELSE idleCycles[w]]

(* a new Worker{} starts its thread at once, with all counters reset *)
Launch(S, at) ==
    /\ pool' = pool \cup S
    /\ pc' = [w \in Workers |-> IF w \in S THEN "peekIn" ELSE at[w]]
    /\ emergency' = [w \in Workers |-> IF w \in S THEN FALSE ELSE emergency[w]]
    /\ idleCycles' = [w \in Workers |-> IF w \in S THEN 0 ELSE idleCycles[w]]

(* size() removes terminated workers from the list *)
Prune == /\ pool' = pool \ Dead
         /\ pc' = [w \in Workers |-> IF w \in Dead THEN "off" ELSE pc[w]]

(* first loop of awaitShutdown(): signal every worker currently listed *)
SignalEmergency == emergency' = [w \in Workers |-> emergency[w] \/ w \in pool]

(***************************************************************************)
(* pullWork(): evaluation of the result returned from doWork().            *)
(***************************************************************************)
Exits(w) == \/ emergency[w]
            \/ res[w] = "HALT"
            \/ res[w] = "WAIT" /\ idleCycles[w] + 1 >= DismissCycles

PullWork(w) ==
    /\ pc[w] = "ret"
    /\ pc' = [pc EXCEPT ![w] = IF Exits(w) THEN "dead"
                               ELSE IF res[w] = "WAIT" THEN "idle" ELSE "peekIn"]
    /\ idleCycles' = [idleCycles EXCEPT ![w] =
                        IF emergency[w] THEN @ ELSE IF res[w] = "WAIT" THEN @ + 1 ELSE 0]
    /\ UNCHANGED <<pool, res, emergency>>

(* end of the sleep in idleWait() *)
IdleWake(w) ==
    /\ pc[w] = "idle"
    /\ pc' = [pc EXCEPT ![w] = "peekIn"]
    /\ UNCHANGED <<pool, res, emergency, idleCycles>>

=============================================================================
