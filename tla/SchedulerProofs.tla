-------------------------- MODULE SchedulerProofs --------------------------
(***************************************************************************)
(* The Scheduler for any number of workers, clients and jobs: type         *)
(* correctness and safety of the grooming token, then the invocation of    *)
(* jobs, and the accounting of the Gates.                                  *)
(***************************************************************************)
EXTENDS Scheduler, FiniteSetTheorems, TLAPS

USE DEF Jobs

(* A thread is either a worker or a client, and never "no thread". *)
LEMMA ThreadFacts ==
    /\ Workers \subseteq Threads /\ Clients \subseteq Threads
    /\ NoThread \notin Workers /\ NoThread \notin Clients
    /\ \A w \in Workers : w \notin Clients
  BY SchedulerAssumption, ThreadAssumption

(* The event for a calculation job is well formed. *)
LEMMA JobEventType ==
    ASSUME NEW j \in CalcJobs
    PROVE  JobEvent(j) \in ActivationEvent
  BY SchedulerAssumption, JobAssumption DEF JobEvent, ActivationEvent

(* The event for a meta job is well formed. *)
LEMMA MetaEventType ==
    ASSUME NEW m \in MetaJobs, NEW t \in Int
    PROVE  MetaEvent(m, t) \in ActivationEvent
  BY SchedulerAssumption DEF MetaEvent, ActivationEvent

(* The event for a »tick« is well formed. *)
LEMMA TickEventType ==
    ASSUME NEW k \in TickId, NEW t \in Int
    PROVE  TickEvent(k, t) \in ActivationEvent
  BY SchedulerAssumption, ManAssumption DEF TickEvent, ActivationEvent

(* All events which a meta job places are well formed. *)
LEMMA NewEventsType ==
    ASSUME NEW placed, placed \subseteq Jobs
    PROVE  NewEvents(placed) \subseteq ActivationEvent
  <1>1. \A j \in MetaJobs : Start[j] \in Int
    BY JobAssumption
  <1> QED
    BY <1>1, JobEventType, MetaEventType DEF NewEvents, Jobs

(* A notification refined from a well formed event is well formed. *)
LEMMA RefineToGateType ==
    ASSUME NEW e \in ActivationEvent, NEW k \in CalcJobs, NEW j \in CalcJobs, GateTypeOK
    PROVE  RefineToGate(e, k, j) \in ActivationEvent
  <1>1. Start[k] \in Int /\ gateDead[k] \in Int
    BY JobAssumption DEF GateTypeOK
  <1> QED
    BY <1>1 DEF RefineToGate, ActivationEvent

-----------------------------------------------------------------------------
(***************************************************************************)
(* Type correctness of the parts shared by several actions.                *)
(***************************************************************************)

(* incScale() and activate() only ever add workers not listed yet. *)
LEMMA AddedWorkers ==
    ASSUME NEW n, NEW S \in Added(n)
    PROVE  S \subseteq Workers \ pool
  BY DEF Added

(* Launching unlisted workers keeps the pool in accordance with pc. *)
LEMMA LaunchType ==
    ASSUME WorkerTypeOK, NEW S, S \subseteq Workers \ pool,
           NEW at \in [Workers -> WorkerPC],
           \A w \in Workers : w \in pool <=> at[w] # "off",
           Launch(S, at), res' \in [Workers -> Proc]
    PROVE  WorkerTypeOK'
  BY DEF WorkerTypeOK, Launch, WorkerPC

(* Whatever the duty cycle leaves in the queues is well formed. *)
LEMMA DutyCycleType ==
    ASSUME TypeOK, NEW time \in Nat, NEW force \in BOOLEAN,
           NEW extra, extra \subseteq ActivationEvent,
           DutyCycle(time, force, extra)
    PROVE  /\ instruct' \subseteq ActivationEvent /\ priority' \subseteq ActivationEvent
           /\ reclaimed' \subseteq CalcJobs /\ halted' \in BOOLEAN
  <1> USE DEF TypeOK, QueueTypeOK, EnvTypeOK
  <1>1. FedQueue \subseteq ActivationEvent
    BY DEF FedQueue
  <1>2. \A k \in FreeTicks : TickEvent(k, time + (IF force THEN WorkHorizon ELSE DutyPeriod))
                                \in ActivationEvent
    BY TickEventType, SchedulerAssumption, HorizonAssumption DEF FreeTicks
  <1>3. Allocated \subseteq CalcJobs
    BY DEF Allocated
  <1>4. PICK q \in SUBSET FedQueue : DutyCycle(time, force, extra)!(q)
    BY DEF DutyCycle
  <1>5. CASE halted' = TRUE /\ priority' = q /\ UNCHANGED reclaimed
    BY <1>1, <1>4, <1>5
  <1>6. CASE /\ reclaimed' = reclaimed \cup {j \in Allocated : Deadline[j] <= time}
             /\ UNCHANGED halted
             /\ \/ \E k \in FreeTicks :
                      priority' = q \cup extra
                        \cup {TickEvent(k, time + (IF force THEN WorkHorizon ELSE DutyPeriod))}
                \/ priority' = q \cup extra
    BY <1>1, <1>2, <1>3, <1>4, <1>6
  <1> QED
    BY <1>4, <1>5, <1>6

(* Posting well formed events keeps the queues well formed. *)
LEMMA PostChainType ==
    ASSUME QueueTypeOK, NEW t, NEW events, events \subseteq ActivationEvent,
           PostChain(t, events)
    PROVE  instruct' \subseteq ActivationEvent /\ priority' \subseteq ActivationEvent
  BY DEF QueueTypeOK, PostChain, Instruct

(* The head time, even when observed by an unprotected read, is a time. *)
LEMMA HeadTimeType ==
    ASSUME QueueTypeOK, NEW t, NEW head \in ObservedHeadTime(t)
    PROVE  head \in Int
  BY InstantAssumption, ExtremalTimes
     DEF QueueTypeOK, ObservedHeadTime, HeadTime, Top, ActivationEvent

(* scatteredDelay() keeps the worker and the token in their types. *)
LEMMA ScatteredDelayType ==
    ASSUME TypeOK, NEW w \in Workers, NEW head \in Int, NEW capacity,
           NEW proceed \in WorkerPC \ {"off", "working"},
           pc[w] # "off",
           ScatteredDelay(w, head, capacity, proceed),
           UNCHANGED <<queueVars, pool, emergency, idleCycles, clk, todo>>
    PROVE  QueueTypeOK' /\ WorkerTypeOK' /\ TaskTypeOK'
  <1> USE DEF TypeOK, QueueTypeOK, WorkerTypeOK, TaskTypeOK, queueVars
  <1>1. tendedHead' \in Int
    BY DEF ScatteredDelay, Tended
  <1>2. groomingToken' \in Threads \cup {NoThread}
    BY DEF ScatteredDelay, DroppedBy
  <1>3. \E l \in WorkerPC \ {"off", "working"} : pc' = [pc EXCEPT ![w] = l]
    BY DEF ScatteredDelay, Returns, Goto, WorkerPC
  <1>4. res' \in [Workers -> Proc]
    BY DEF ScatteredDelay, Returns, Proc
  <1>5. QueueTypeOK'
    BY <1>1, <1>2
  <1>6. PICK l \in WorkerPC \ {"off", "working"} : pc' = [pc EXCEPT ![w] = l]
    BY <1>3
  <1>7. WorkerTypeOK'
    <2>1. pc' \in [Workers -> WorkerPC]
      BY <1>6
    <2>2. \A v \in Workers : v \in pool <=> pc'[v] # "off"
      BY <1>6
    <2> QED
      BY <1>4, <2>1, <2>2
  <1>8. TaskTypeOK'
    BY <1>6
  <1> QED
    BY <1>5, <1>7, <1>8

-----------------------------------------------------------------------------
(* The initial state is well typed: every Gate counts finitely many dependencies. *)
LEMMA TypeInit == Init => TypeOK
  <1> SUFFICES ASSUME Init PROVE TypeOK
    OBVIOUS
  <1> USE DEF Init
  <1>1. \A j \in CalcJobs : Cardinality(Pred[j]) \in Nat
    <2> TAKE j \in CalcJobs
    <2>1. Pred[j] \subseteq CalcJobs /\ IsFiniteSet(CalcJobs)
      BY JobAssumption
    <2> QED
      BY <2>1, FS_Subset, FS_CardinalityType
  <1>2. \A j \in CalcJobs : Deadline[j] \in Int
    BY JobAssumption
  <1>3. ANYTIME \in Int
    BY ExtremalTimes
  <1>4. QueueTypeOK
    BY <1>3 DEF QueueTypeOK
  <1>5. WorkerTypeOK /\ TaskTypeOK
    BY DEF WorkerTypeOK, TaskTypeOK, WorkerPC, Proc
  <1>6. GateTypeOK
    BY <1>1, <1>2 DEF GateTypeOK, GateInit
  <1>7. ClientTypeOK /\ EnvTypeOK
    BY DEF ClientTypeOK, EnvTypeOK, ClientPC
  <1> QED
    BY <1>4, <1>5, <1>6, <1>7 DEF TypeOK

(* The planning job m is invoked and places jobs, some or all it plans. *)
Invokes(w, m, placed, l) ==
    /\ m \in MetaJobs /\ InvokeMeta(w, m, placed, l)
    /\ placed \subseteq Plan[m] /\ placed \subseteq Jobs
    /\ l \in {"peekOut", "ret"}
    /\ finished' \in {finished, finished \cup {m}}

(* Such is a step which invokes a planning job, whether or not it fails. *)
LEMMA MetaInvoked ==
    ASSUME NEW w, DispatchMeta(w) \/ FailMeta(w)
    PROVE  \E m, placed, l : Invokes(w, m, placed, l)
  <1>1. \A m \in MetaJobs : Plan[m] \subseteq Jobs
    BY SchedulerAssumption
  <1>2. CASE DispatchMeta(w)
    <2>1. PICK m \in MetaJobs : /\ InvokeMeta(w, m, Plan[m], "peekOut")
                               /\ finished' = finished \cup {m}
      BY <1>2 DEF DispatchMeta
    <2>2. Invokes(w, m, Plan[m], "peekOut")
      BY <1>1, <2>1 DEF Invokes
    <2> QED
      BY <2>2
  <1>3. CASE FailMeta(w)
    <2>1. PICK m \in MetaJobs : \E placed \in SUBSET Plan[m] : InvokeMeta(w, m, placed, "ret")
      BY <1>3 DEF FailMeta
    <2>2. PICK placed \in SUBSET Plan[m] : InvokeMeta(w, m, placed, "ret")
      BY <2>1
    <2>3. finished' = finished
      BY <1>3 DEF FailMeta
    <2>4. Invokes(w, m, placed, "ret")
      BY <1>1, <2>2, <2>3 DEF Invokes
    <2> QED
      BY <2>4
  <1> QED
    BY <1>2, <1>3

(* No step of a worker leads out of the types. *)
LEMMA TypeWorkerStep ==
    ASSUME TypeOK, NEW w \in Workers, WorkerStep(w)
    PROVE  TypeOK'
  <1> USE DEF TypeOK
  <1>1. CASE Peek(w)
    BY <1>1 DEF Peek, Goto, QueueTypeOK, WorkerTypeOK, TaskTypeOK, GateTypeOK, ClientTypeOK,
                EnvTypeOK, queueVars, gateVars, clientVars, envVars, history, WorkerPC
  <1>2. CASE Feed(w)
    BY <1>2, ThreadFacts
       DEF Feed, MaybeFeed, FeedPrioritisation, FedQueue, Goto, QueueTypeOK, WorkerTypeOK,
           TaskTypeOK, GateTypeOK, ClientTypeOK, EnvTypeOK, gateVars, clientVars, envVars,
           history, WorkerPC
  <1>3. CASE IncomingCapacity(w)
    <2>1. PICK head \in ObservedHeadTime(w) :
             ScatteredDelay(w, head, MarkIncomingCapacity(head, now), "sample")
      BY <1>3 DEF IncomingCapacity
    <2>2. QueueTypeOK' /\ WorkerTypeOK' /\ TaskTypeOK'
      BY <1>3, <2>1, HeadTimeType, ScatteredDelayType DEF IncomingCapacity, WorkerPC
    <2> QED
      BY <1>3, <2>2 DEF IncomingCapacity, GateTypeOK, ClientTypeOK, EnvTypeOK,
                        gateVars, clientVars, envVars, history
  <1>4. CASE OutgoingCapacity(w)
    <2>1. PICK head \in ObservedHeadTime(w) : OutgoingCapacity(w)!2!(head)
      BY <1>4 DEF OutgoingCapacity
    <2>2. CASE /\ Returns(w, "ret", "PASS")
               /\ UNCHANGED <<groomingToken, tendedHead>>
      BY <1>4, <2>2 DEF OutgoingCapacity, Returns, Goto, QueueTypeOK, WorkerTypeOK, TaskTypeOK,
                        queueVars, WorkerPC, Proc, GateTypeOK, ClientTypeOK, EnvTypeOK,
                        gateVars, clientVars, envVars, history
    <2>3. CASE ScatteredDelay(w, head, MarkOutgoingCapacity(head, now), "ret")
      <3>1. QueueTypeOK' /\ WorkerTypeOK' /\ TaskTypeOK'
        BY <1>4, <2>3, HeadTimeType, ScatteredDelayType DEF OutgoingCapacity, WorkerPC
      <3> QED
        BY <1>4, <3>1 DEF OutgoingCapacity, GateTypeOK, ClientTypeOK, EnvTypeOK,
                          gateVars, clientVars, envVars, history
    <2> QED
      BY <2>1, <2>2, <2>3
  <1>5. CASE SleepWake(w)
    BY <1>5 DEF SleepWake, Goto, QueueTypeOK, WorkerTypeOK, TaskTypeOK, GateTypeOK,
                ClientTypeOK, EnvTypeOK, queueVars, gateVars, clientVars, envVars, history,
                WorkerPC
  <1>6. CASE SampleTime(w)
    BY <1>6 DEF SampleTime, Goto, QueueTypeOK, WorkerTypeOK, TaskTypeOK, GateTypeOK,
                ClientTypeOK, EnvTypeOK, queueVars, gateVars, clientVars, envVars, history,
                WorkerPC
  <1>7. CASE FindWork(w)
    <2> USE <1>7 DEF FindWork
    <2>1. QueueTypeOK'
      BY ThreadFacts DEF FoundWork, NothingDue, Contention, QueueTypeOK, FedQueue
    <2>2. WorkerTypeOK'
      BY DEF WorkerTypeOK, Returns, Goto, WorkerPC, Proc
    <2>3. TaskTypeOK'
      <3>1. FedQueue \subseteq ActivationEvent
        BY DEF QueueTypeOK, FedQueue
      <3> QED
        BY <3>1 DEF TaskTypeOK, WorkerTypeOK, Returns, Goto
    <2> QED
      BY <2>1, <2>2, <2>3 DEF GateTypeOK, ClientTypeOK, EnvTypeOK, gateVars, clientVars,
                              envVars, history
  <1>8. CASE DispatchTick(w)
    <2> USE <1>8 DEF DispatchTick
    <2>1. /\ instruct' \subseteq ActivationEvent /\ priority' \subseteq ActivationEvent
          /\ reclaimed' \subseteq CalcJobs /\ halted' \in BOOLEAN
      <3>1. PICK force \in BOOLEAN : DutyCycle(now, force, {})
        OBVIOUS
      <3> QED
        BY <3>1, DutyCycleType DEF EnvTypeOK
    <2>2. PICK S \in UpdateState :
             Launch(S, Goto(w, "peekOut"))
      OBVIOUS
    <2>3. S \subseteq Workers \ pool
      BY AddedWorkers DEF UpdateState, IncScaleSets
    <2>4. WorkerTypeOK'
      BY <2>2, <2>3, LaunchType DEF WorkerTypeOK, Goto, WorkerPC
    <2>5. TaskTypeOK'
      BY <2>2, <2>3 DEF TaskTypeOK, WorkerTypeOK, Launch, Goto
    <2> QED
      BY <2>1, <2>4, <2>5 DEF QueueTypeOK, GateTypeOK, ClientTypeOK, EnvTypeOK, gateVars,
                              clientVars, history
  <1>9. CASE DispatchMeta(w) \/ FailMeta(w)
    <2>1. PICK m, placed, l : Invokes(w, m, placed, l)
      BY <1>9, MetaInvoked
    <2> USE DEF Invokes, InvokeMeta, PlaceJobs
    <2>2. /\ instruct' \subseteq ActivationEvent /\ priority' \subseteq ActivationEvent
          /\ reclaimed' \subseteq CalcJobs /\ halted' \in BOOLEAN
      <3>1. NewEvents(placed) \subseteq ActivationEvent
        BY <2>1, NewEventsType
      <3>2. CASE DutyCycle(now, TRUE, NewEvents(placed))
        BY <3>1, <3>2, DutyCycleType DEF EnvTypeOK
      <3>3. CASE PostChain(w, NewEvents(placed)) /\ UNCHANGED <<reclaimed, halted>>
        BY <3>1, <3>3, PostChainType DEF EnvTypeOK
      <3> QED
        BY <2>1, <3>2, <3>3
    <2>3. PICK S : /\ S \in ActivateSets \/ \E n : S \in IncScaleSets(n)
                   /\ Launch(S, Goto(w, l))
      BY <2>1
    <2>4. S \subseteq Workers \ pool
      BY <2>3, AddedWorkers DEF IncScaleSets, ActivateSets
    <2>5. WorkerTypeOK'
      <3>1. res' \in [Workers -> Proc]
        BY <1>9 DEF DispatchMeta, FailMeta, WorkerTypeOK, Proc
      <3>2. /\ Goto(w, l) \in [Workers -> WorkerPC]
            /\ \A v \in Workers : v \in pool <=> Goto(w, l)[v] # "off"
        BY <2>1 DEF WorkerTypeOK, Goto, WorkerPC
      <3> QED
        BY <2>3, <2>4, <3>1, <3>2, LaunchType
    <2>6. TaskTypeOK'
      BY <2>1, <2>3, <2>4 DEF TaskTypeOK, WorkerTypeOK, Launch, Goto
    <2>7. /\ posted' \subseteq Jobs /\ finished' \subseteq Jobs /\ invoked' \in [Jobs -> Nat]
      BY <2>1 DEF EnvTypeOK, Jobs
    <2>8. groomingToken' \in Threads \cup {NoThread}
      BY <1>9 DEF DispatchMeta, FailMeta, DroppedBy, QueueTypeOK
    <2> QED
      BY <2>1, <2>2, <2>5, <2>6, <2>7, <2>8
         DEF QueueTypeOK, GateTypeOK, ClientTypeOK, EnvTypeOK, gateVars, clientVars
  <1>10. CASE DispatchCalc(w)
    <2> USE <1>10 DEF DispatchCalc
    <2>1. PICK e \in todo[w] : DispatchCalc(w)!2!(e)
      OBVIOUS
    <2>2. QueueTypeOK'
      BY <2>1 DEF QueueTypeOK, queueVars
    <2>3. WorkerTypeOK'
      BY <2>1 DEF WorkerTypeOK, Goto, WorkerPC
    <2>4. TaskTypeOK'
      <3>1. CASE pc' = Goto(w, "working") /\ UNCHANGED todo
        <4>1. \A x \in todo[w] : x.job \in CalcJobs
          BY <2>1 DEF TaskTypeOK
        <4> QED
          BY <3>1, <4>1 DEF TaskTypeOK, WorkerTypeOK, Goto
      <3>2. CASE pc' = Goto(w, "peekOut") /\ todo' = [todo EXCEPT ![w] = {}]
        BY <3>2 DEF TaskTypeOK, WorkerTypeOK, Goto
      <3> QED
        BY <2>1, <3>1, <3>2
    <2>5. GateTypeOK'
      BY <2>1, ExtremalTimes DEF GateTypeOK, gateVars, ReceiveGateNotification
    <2> QED
      BY <2>1, <2>2, <2>3, <2>4, <2>5 DEF ClientTypeOK, EnvTypeOK, clientVars, envVars
  <1>11. CASE FinishJob(w)
    <2> USE <1>11 DEF FinishJob
    <2>1. PICK e \in todo[w] : FinishJob(w)!2!(e)
      OBVIOUS
    <2>2. e \in ActivationEvent /\ e.job \in CalcJobs
      BY DEF TaskTypeOK
    <2>3. {RefineToGate(e, k, e.job) : k \in Succ(e.job)} \subseteq ActivationEvent
      BY <2>2, RefineToGateType DEF Succ
    <2>4. instruct' \subseteq ActivationEvent /\ priority' \subseteq ActivationEvent
      BY <2>1, <2>3, PostChainType
    <2>5. WorkerTypeOK'
      BY DEF WorkerTypeOK, Goto, WorkerPC
    <2>6. TaskTypeOK'
      BY DEF TaskTypeOK, WorkerTypeOK, Goto
    <2> QED
      BY <2>1, <2>2, <2>4, <2>5, <2>6 DEF QueueTypeOK, GateTypeOK, ClientTypeOK, EnvTypeOK,
                                          gateVars, clientVars, envVars
  <1>12. CASE FailJob(w)
    <2> USE <1>12 DEF FailJob
    <2>1. QueueTypeOK'
      BY DEF QueueTypeOK, queueVars, DroppedBy
    <2>2. WorkerTypeOK'
      BY DEF WorkerTypeOK, Returns, Goto, WorkerPC, Proc
    <2>3. TaskTypeOK'
      BY DEF TaskTypeOK, WorkerTypeOK, Returns, Goto
    <2> QED
      BY <2>1, <2>2, <2>3 DEF GateTypeOK, ClientTypeOK, EnvTypeOK, gateVars, clientVars,
                              envVars, history
  <1>13. CASE WorkerPull(w)
    <2> USE <1>13 DEF WorkerPull, PullWork
    <2>1. WorkerTypeOK'
      BY DEF WorkerTypeOK, WorkerPC
    <2>2. TaskTypeOK'
      BY SchedulerAssumption DEF TaskTypeOK, WorkerTypeOK, EnvTypeOK
    <2> QED
      BY <2>1, <2>2 DEF QueueTypeOK, GateTypeOK, ClientTypeOK, EnvTypeOK, queueVars, gateVars,
                        clientVars, envVars, history
  <1>14. CASE WorkerIdleWake(w)
    BY <1>14 DEF WorkerIdleWake, IdleWake, QueueTypeOK, WorkerTypeOK, TaskTypeOK, GateTypeOK,
                 ClientTypeOK, EnvTypeOK, queueVars, gateVars, clientVars, envVars, history,
                 WorkerPC
  <1> QED
    BY <1>1, <1>2, <1>3, <1>4, <1>5, <1>6, <1>7, <1>8, <1>9, <1>10, <1>11, <1>12, <1>13,
       <1>14 DEF WorkerStep

(* No step of a client leads out of the types. *)
LEMMA TypeClientStep ==
    ASSUME TypeOK, NEW c \in Clients, ClientStep(c)
    PROVE  TypeOK'
  <1> USE DEF TypeOK
  <1>1. CASE SeedCalcStream(c)
    BY <1>1 DEF SeedCalcStream, QueueTypeOK, WorkerTypeOK, TaskTypeOK, GateTypeOK,
                ClientTypeOK, EnvTypeOK, queueVars, workerVars, gateVars, envVars, history,
                ClientPC
  <1>2. CASE RequireGroomingToken(c)
    BY <1>2, ThreadFacts
       DEF RequireGroomingToken, QueueTypeOK, WorkerTypeOK, TaskTypeOK, GateTypeOK,
           ClientTypeOK, EnvTypeOK, queueVars, workerVars, gateVars, envVars, history, ClientPC
  <1>3. CASE SeedMetaJob(c)
    <2> USE <1>3 DEF SeedMetaJob
    <2>1. arg[c] \in MetaJobs /\ Man[arg[c]] \in ManID
      BY SchedulerAssumption DEF ClientTypeOK
    <2>2. {MetaEvent(arg[c], now)} \subseteq ActivationEvent
      BY <2>1, MetaEventType DEF EnvTypeOK
    <2>3. /\ instruct' \subseteq ActivationEvent /\ priority' \subseteq ActivationEvent
          /\ reclaimed' \subseteq CalcJobs /\ halted' \in BOOLEAN
      BY <2>2, DutyCycleType, PostChainType DEF EnvTypeOK
    <2>4. QueueTypeOK'
      BY <2>1, <2>3 DEF QueueTypeOK, Activate
    <2>5. PICK S \in {{}} \cup ActivateSets \cup IncScaleSets(1) : Launch(S, pc)
      BY DEF EnsureCapacity
    <2>6. S \subseteq Workers \ pool
      BY AddedWorkers DEF IncScaleSets, ActivateSets
    <2>7. WorkerTypeOK'
      BY <2>5, <2>6, LaunchType DEF WorkerTypeOK
    <2>8. TaskTypeOK'
      BY <2>5, <2>6 DEF TaskTypeOK, WorkerTypeOK, Launch
    <2>9. ClientTypeOK'
      BY DEF ClientTypeOK, ClientPC
    <2> QED
      BY <2>1, <2>3, <2>4, <2>7, <2>8, <2>9 DEF GateTypeOK, EnvTypeOK, gateVars
  <1>4. CASE MaybeScaleWorkForce(c)
    <2> USE <1>4 DEF MaybeScaleWorkForce
    <2>1. PICK S \in {{}} \cup IncScaleSets(1) : Launch(S, pc)
      BY DEF EnsureCapacity
    <2>2. S \subseteq Workers \ pool
      BY AddedWorkers DEF IncScaleSets
    <2>3. WorkerTypeOK'
      BY <2>1, <2>2, LaunchType DEF WorkerTypeOK
    <2>4. TaskTypeOK'
      BY <2>1, <2>2 DEF TaskTypeOK, WorkerTypeOK, Launch
    <2>5. ClientTypeOK'
      <3>1. asked' \in [Clients -> Nat]
        BY DEF ClientTypeOK, EnvTypeOK
      <3> QED
        BY <3>1 DEF ClientTypeOK, ClientPC
    <2> QED
      BY <2>3, <2>4, <2>5 DEF QueueTypeOK, GateTypeOK, EnvTypeOK, queueVars, gateVars, envVars,
                              history
  <1>5. CASE Ignite(c)
    <2> USE <1>5 DEF Ignite
    <2>1. /\ instruct' \subseteq ActivationEvent /\ priority' \subseteq ActivationEvent
          /\ reclaimed' \subseteq CalcJobs /\ halted' \in BOOLEAN
      <3>1. PICK time \in Nat, force \in BOOLEAN : DutyCycle(time, force, {})
        BY DEF ClientTypeOK
      <3> QED
        BY <3>1, DutyCycleType
    <2>2. PICK S \in UpdateState : Launch(S, pc)
      OBVIOUS
    <2>3. S \subseteq Workers \ pool
      BY AddedWorkers DEF UpdateState, IncScaleSets
    <2>4. WorkerTypeOK'
      BY <2>2, <2>3, LaunchType DEF WorkerTypeOK
    <2>5. TaskTypeOK'
      BY <2>2, <2>3 DEF TaskTypeOK, WorkerTypeOK, Launch
    <2>6. ClientTypeOK'
      BY DEF ClientTypeOK, ClientPC
    <2> QED
      BY <2>1, <2>4, <2>5, <2>6 DEF QueueTypeOK, GateTypeOK, EnvTypeOK, gateVars, history
  <1>6. CASE ActivateWorkForce(c)
    <2> USE <1>6 DEF ActivateWorkForce
    <2>1. PICK S \in {{}} \cup ActivateSets : Launch(S, pc)
      OBVIOUS
    <2>2. S \subseteq Workers \ pool
      BY AddedWorkers DEF ActivateSets
    <2>3. WorkerTypeOK'
      BY <2>1, <2>2, LaunchType DEF WorkerTypeOK
    <2>4. TaskTypeOK'
      BY <2>1, <2>2 DEF TaskTypeOK, WorkerTypeOK, Launch
    <2>5. ClientTypeOK'
      BY DEF ClientTypeOK, ClientPC
    <2> QED
      BY <2>3, <2>4, <2>5 DEF QueueTypeOK, GateTypeOK, EnvTypeOK, queueVars, gateVars, envVars,
                              history
  <1>7. CASE PostJob(c)
    <2> USE <1>7 DEF PostJob
    <2>1. arg[c] \in CalcJobs
      BY DEF ClientTypeOK
    <2>2. instruct' \subseteq ActivationEvent /\ priority' \subseteq ActivationEvent
      BY <2>1, JobEventType, PostChainType
    <2>3. ClientTypeOK'
      BY DEF ClientTypeOK, ClientPC
    <2> QED
      BY <2>1, <2>2, <2>3 DEF QueueTypeOK, WorkerTypeOK, TaskTypeOK, GateTypeOK, EnvTypeOK,
                              workerVars, gateVars, envVars
  <1>8. CASE GetLoadIndicator(c)
    BY <1>8 DEF GetLoadIndicator, Prune, Dead, QueueTypeOK, WorkerTypeOK, TaskTypeOK,
                GateTypeOK, ClientTypeOK, EnvTypeOK, queueVars, gateVars, clientVars, envVars,
                history, WorkerPC
  <1>9. CASE TerminateProcessing(c)
    BY <1>9 DEF TerminateProcessing, SignalEmergency, QueueTypeOK, WorkerTypeOK, TaskTypeOK,
                GateTypeOK, ClientTypeOK, EnvTypeOK, queueVars, gateVars, envVars, history,
                ClientPC
  <1>10. CASE AwaitShutdown(c)
    <2> USE <1>10 DEF AwaitShutdown
    <2>1. QueueTypeOK'
      BY DEF QueueTypeOK, DiscardSchedule
    <2>2. WorkerTypeOK' /\ TaskTypeOK'
      BY DEF WorkerTypeOK, TaskTypeOK, Prune, Dead, WorkerPC
    <2>3. ClientTypeOK'
      BY DEF ClientTypeOK, ClientPC
    <2> QED
      BY <2>1, <2>2, <2>3 DEF GateTypeOK, EnvTypeOK, gateVars, envVars, history
  <1> QED
    BY <1>1, <1>2, <1>3, <1>4, <1>5, <1>6, <1>7, <1>8, <1>9, <1>10 DEF ClientStep

(* Type correctness: no handler of the Scheduler ever stores a value of the *)
(* wrong kind, lists a worker which is not started, or enters work mode for *)
(* anything but a calculation job.                                          *)
THEOREM TypeCorrect == Spec => []TypeOK
  <1>1. TypeOK /\ [Next]_vars => TypeOK'
    <2> SUFFICES ASSUME TypeOK, [Next]_vars
                 PROVE  TypeOK'
      OBVIOUS
    <2>1. CASE Clock
      BY <2>1 DEF Clock, TypeOK, QueueTypeOK, WorkerTypeOK, TaskTypeOK, GateTypeOK,
                  ClientTypeOK, EnvTypeOK, queueVars, workerVars, gateVars, clientVars, history
    <2>2. CASE UNCHANGED vars
      BY <2>2 DEF vars, TypeOK, QueueTypeOK, WorkerTypeOK, TaskTypeOK, GateTypeOK, ClientTypeOK,
                  EnvTypeOK, queueVars, workerVars, gateVars, clientVars, envVars, history
    <2> QED
      BY <2>1, <2>2, TypeWorkerStep, TypeClientStep DEF Next
  <1> QED
    BY TypeInit, <1>1, PTL DEF Spec

-----------------------------------------------------------------------------
(***************************************************************************)
(* The grooming token. The two invariants support each other: a thread can *)
(* only be sure to hold the token where no other thread takes it away, and *)
(* nobody takes it from a thread which is in grooming mode.                *)
(***************************************************************************)
TokenInv == GroomingModeProtected /\ TokenNotHogged

(* Launching new workers does not interfere with the token. *)
LEMMA TokenLaunch ==
    ASSUME TypeOK, NEW S, S \subseteq Workers \ pool, NEW at \in [Workers -> WorkerPC],
           Launch(S, at)
    PROVE  \A v \in Workers : pc'[v] = at[v] \/ pc'[v] = "peekIn"
  BY DEF Launch

(* scatteredDelay() by a worker not in grooming mode preserves the invariant. *)
LEMMA TokenScatteredDelay ==
    ASSUME TypeOK, TokenInv, NEW w \in Workers, NEW head, NEW capacity,
           pc[w] \in {"capIn", "capOut"},
           NEW proceed, proceed \in {"sample", "ret"},
           proceed = "ret" => capacity # "DISPATCH",
           ScatteredDelay(w, head, capacity, proceed), UNCHANGED cpc
    PROVE  TokenInv'
  <1> USE ThreadFacts DEF TypeOK, WorkerTypeOK, ScatteredDelay, TokenInv, TargetedSleep
  <1>1. CASE capacity = "DISPATCH"
    BY <1>1 DEF GroomingModeProtected, TokenNotHogged, Goto
  <1>2. CASE capacity = "SPINTIME"
    BY <1>2 DEF GroomingModeProtected, TokenNotHogged, Goto, Returns
  <1>3. CASE capacity = "IDLEWAIT"
    BY <1>3 DEF GroomingModeProtected, TokenNotHogged, Goto, Returns, DroppedBy,
                HoldsGroomingToken
  <1>4. CASE capacity \in TargetedSleep
    BY <1>4 DEF GroomingModeProtected, TokenNotHogged, Goto, Returns, DroppedBy,
                HoldsGroomingToken
  <1> QED
    BY <1>1, <1>2, <1>3, <1>4

(* Every step of a worker preserves the token invariant. *)
LEMMA TokenWorkerStep ==
    ASSUME TypeOK, TokenInv, NEW w \in Workers, WorkerStep(w)
    PROVE  TokenInv'
  <1> USE ThreadFacts DEF TypeOK, WorkerTypeOK, TokenInv
  <1>1. CASE Peek(w)
    BY <1>1 DEF Peek, Goto, GroomingModeProtected, TokenNotHogged, clientVars
  <1>2. CASE Feed(w)
    BY <1>2 DEF Feed, MaybeFeed, MayGroom, Goto, GroomingModeProtected, TokenNotHogged,
                clientVars
  <1>3. CASE IncomingCapacity(w)
    BY <1>3, TokenScatteredDelay DEF IncomingCapacity, clientVars
  <1>4. CASE OutgoingCapacity(w)
    <2>1. PICK head \in ObservedHeadTime(w) : OutgoingCapacity(w)!2!(head)
      BY <1>4 DEF OutgoingCapacity
    <2>2. CASE /\ Returns(w, "ret", "PASS")
               /\ UNCHANGED <<groomingToken, tendedHead>>
      BY <1>4, <2>2 DEF OutgoingCapacity, Returns, Goto, GroomingModeProtected,
                        TokenNotHogged, clientVars
    <2>3. CASE /\ MarkOutgoingCapacity(head, now) # "DISPATCH"
               /\ ScatteredDelay(w, head, MarkOutgoingCapacity(head, now), "ret")
      BY <1>4, <2>3, TokenScatteredDelay DEF OutgoingCapacity, clientVars
    <2> QED
      BY <2>1, <2>2, <2>3
  <1>5. CASE SleepWake(w)
    BY <1>5 DEF SleepWake, Goto, GroomingModeProtected, TokenNotHogged, clientVars
  <1>6. CASE SampleTime(w)
    BY <1>6 DEF SampleTime, Goto, GroomingModeProtected, TokenNotHogged, clientVars
  <1>7. CASE FindWork(w)
    <2>1. CASE \E e \in FedQueue : FoundWork(w, clk[w], e) /\ pc' = Goto(w, "dispatch")
      BY <1>7, <2>1 DEF FindWork, FoundWork, MayGroom, Goto, GroomingModeProtected,
                        TokenNotHogged, clientVars
    <2>2. CASE NothingDue(w, clk[w]) /\ Returns(w, "ret", "KICK")
      BY <1>7, <2>2 DEF FindWork, NothingDue, MayGroom, Returns, Goto, GroomingModeProtected,
                        TokenNotHogged, clientVars
    <2>3. CASE Contention(w) /\ Returns(w, "ret", "KICK")
      BY <1>7, <2>3 DEF FindWork, Contention, MayGroom, Returns, Goto, GroomingModeProtected,
                        TokenNotHogged, clientVars
    <2> QED
      BY <1>7, <2>1, <2>2, <2>3 DEF FindWork
  <1>8. CASE DispatchTick(w)
    <2>1. PICK S \in UpdateState :
             Launch(S, Goto(w, "peekOut"))
      BY <1>8 DEF DispatchTick
    <2>2. \A v \in Workers : pc'[v] = Goto(w, "peekOut")[v] \/ pc'[v] = "peekIn"
      BY <2>1, AddedWorkers, TokenLaunch DEF UpdateState, IncScaleSets, Goto, WorkerPC
    <2> QED
      BY <1>8, <2>2 DEF DispatchTick, Goto, GroomingModeProtected, TokenNotHogged, clientVars
  <1>9. CASE DispatchMeta(w) \/ FailMeta(w)
    <2>1. PICK m, placed, l : Invokes(w, m, placed, l)
      BY <1>9, MetaInvoked
    <2>2. PICK S : /\ S \in ActivateSets \/ \E n : S \in IncScaleSets(n)
                   /\ Launch(S, Goto(w, l))
      BY <2>1 DEF Invokes, InvokeMeta, PlaceJobs
    <2>3. \A v \in Workers : pc'[v] = Goto(w, l)[v] \/ pc'[v] = "peekIn"
      BY <2>1, <2>2, AddedWorkers, TokenLaunch
         DEF ActivateSets, IncScaleSets, Goto, WorkerPC, Invokes
    <2>4. pc[w] = "dispatch" /\ groomingToken = w /\ UNCHANGED cpc
      BY <2>1 DEF Invokes, InvokeMeta, clientVars, GroomingModeProtected
    <2>5. CASE DispatchMeta(w)
      <3>1. PICK k : Launch(k, Goto(w, "peekOut"))
        BY <2>5 DEF DispatchMeta, InvokeMeta, PlaceJobs
      <3>2. \A v \in Workers : pc'[v] = Goto(w, "peekOut")[v] \/ pc'[v] = "peekIn"
        BY <3>1 DEF Launch
      <3> QED
        BY <2>4, <2>5, <3>2 DEF DispatchMeta, Goto, GroomingModeProtected, TokenNotHogged
    <2>6. CASE FailMeta(w)
      <3>1. groomingToken' = NoThread
        BY <2>4, <2>6 DEF FailMeta, DroppedBy, HoldsGroomingToken
      <3> QED
        BY <2>1, <2>3, <2>4, <3>1 DEF Goto, GroomingModeProtected, TokenNotHogged, Invokes
    <2> QED
      BY <1>9, <2>5, <2>6
  <1>10. CASE DispatchCalc(w)
    <2>1. CASE groomingToken' = NoThread /\ pc' = Goto(w, "working")
      BY <1>10, <2>1 DEF DispatchCalc, Goto, GroomingModeProtected, TokenNotHogged, clientVars
    <2>2. CASE groomingToken' = groomingToken /\ pc' = Goto(w, "peekOut")
      BY <1>10, <2>2 DEF DispatchCalc, Goto, GroomingModeProtected, TokenNotHogged, clientVars
    <2> QED
      BY <1>10, <2>1, <2>2 DEF DispatchCalc
  <1>11. CASE FinishJob(w)
    BY <1>11 DEF FinishJob, Goto, GroomingModeProtected, TokenNotHogged, clientVars
  <1>12. CASE FailJob(w)
    BY <1>12 DEF FailJob, Returns, Goto, DroppedBy, HoldsGroomingToken, GroomingModeProtected,
                 TokenNotHogged, clientVars
  <1>13. CASE WorkerPull(w)
    BY <1>13 DEF WorkerPull, PullWork, GroomingModeProtected, TokenNotHogged, clientVars
  <1>14. CASE WorkerIdleWake(w)
    BY <1>14 DEF WorkerIdleWake, IdleWake, GroomingModeProtected, TokenNotHogged, clientVars
  <1> QED
    BY <1>1, <1>2, <1>3, <1>4, <1>5, <1>6, <1>7, <1>8, <1>9, <1>10, <1>11, <1>12, <1>13,
       <1>14 DEF WorkerStep

(* Every step of a client preserves the token invariant. *)
LEMMA TokenClientStep ==
    ASSUME TypeOK, TokenInv, NEW c \in Clients, ClientStep(c)
    PROVE  TokenInv'
  <1> USE ThreadFacts DEF TypeOK, WorkerTypeOK, ClientTypeOK, TokenInv
  <1>1. CASE SeedCalcStream(c)
    BY <1>1 DEF SeedCalcStream, GroomingModeProtected, TokenNotHogged, workerVars
  <1>2. CASE RequireGroomingToken(c)
    BY <1>2 DEF RequireGroomingToken, GroomingModeProtected, TokenNotHogged, workerVars
  <1>3. CASE SeedMetaJob(c)
    <2>1. PICK S \in {{}} \cup ActivateSets \cup IncScaleSets(1) : Launch(S, pc)
      BY <1>3 DEF SeedMetaJob, EnsureCapacity
    <2>2. \A v \in Workers : pc'[v] = pc[v] \/ pc'[v] = "peekIn"
      BY <2>1, AddedWorkers, TokenLaunch DEF ActivateSets, IncScaleSets
    <2> QED
      BY <1>3, <2>2 DEF SeedMetaJob, GroomingModeProtected, TokenNotHogged
  <1>4. CASE MaybeScaleWorkForce(c)
    <2>1. PICK S \in {{}} \cup IncScaleSets(1) : Launch(S, pc)
      BY <1>4 DEF MaybeScaleWorkForce, EnsureCapacity
    <2>2. \A v \in Workers : pc'[v] = pc[v] \/ pc'[v] = "peekIn"
      BY <2>1, AddedWorkers, TokenLaunch DEF IncScaleSets
    <2> QED
      BY <1>4, <2>2 DEF MaybeScaleWorkForce, GroomingModeProtected, TokenNotHogged
  <1>5. CASE Ignite(c)
    <2>1. PICK S \in UpdateState : Launch(S, pc)
      BY <1>5 DEF Ignite
    <2>2. \A v \in Workers : pc'[v] = pc[v] \/ pc'[v] = "peekIn"
      BY <2>1, AddedWorkers, TokenLaunch DEF UpdateState, IncScaleSets
    <2> QED
      BY <1>5, <2>2 DEF Ignite, GroomingModeProtected, TokenNotHogged
  <1>6. CASE ActivateWorkForce(c)
    <2>1. PICK S \in {{}} \cup ActivateSets : Launch(S, pc)
      BY <1>6 DEF ActivateWorkForce
    <2>2. \A v \in Workers : pc'[v] = pc[v] \/ pc'[v] = "peekIn"
      BY <2>1, AddedWorkers, TokenLaunch DEF ActivateSets
    <2> QED
      BY <1>6, <2>2 DEF ActivateWorkForce, GroomingModeProtected, TokenNotHogged
  <1>7. CASE PostJob(c)
    BY <1>7 DEF PostJob, GroomingModeProtected, TokenNotHogged, workerVars
  <1>8. CASE GetLoadIndicator(c)
    BY <1>8 DEF GetLoadIndicator, Prune, GroomingModeProtected, TokenNotHogged, clientVars
  <1>9. CASE TerminateProcessing(c)
    BY <1>9 DEF TerminateProcessing, GroomingModeProtected, TokenNotHogged
  <1>10. CASE AwaitShutdown(c)
    BY <1>10 DEF AwaitShutdown, Prune, GroomingModeProtected, TokenNotHogged
  <1> QED
    BY <1>1, <1>2, <1>3, <1>4, <1>5, <1>6, <1>7, <1>8, <1>9, <1>10 DEF ClientStep

(* The token invariant holds throughout. *)
THEOREM TokenSafety == Spec => []TokenInv
  <1>1. Init => TokenInv
    BY ThreadFacts DEF Init, TokenInv, GroomingModeProtected, TokenNotHogged
  <1>2. TypeOK /\ TokenInv /\ [Next]_vars => TokenInv'
    <2> SUFFICES ASSUME TypeOK, TokenInv, [Next]_vars
                 PROVE  TokenInv'
      OBVIOUS
    <2>1. CASE Clock
      BY <2>1 DEF Clock, TokenInv, GroomingModeProtected, TokenNotHogged, workerVars, clientVars
    <2>2. CASE UNCHANGED vars
      BY <2>2 DEF vars, TokenInv, GroomingModeProtected, TokenNotHogged, workerVars, clientVars
    <2> QED
      BY <2>1, <2>2, TokenWorkerStep, TokenClientStep DEF Next
  <1> QED
    BY <1>1, <1>2, TypeCorrect, PTL DEF Spec

(* Mutual exclusion: nobody else can acquire the grooming token as long as  *)
(* a thread interprets Activities or grooms the queue, and thus at most one *)
(* thread does so at any time.                                              *)
THEOREM GroomingExclusive == Spec => []GroomingModeProtected
  BY TokenSafety, PTL DEF TokenInv

(* The grooming token is always dropped before work mode and before sleep. *)
THEOREM TokenDropped == Spec => []TokenNotHogged
  BY TokenSafety, PTL DEF TokenInv

-----------------------------------------------------------------------------
(***************************************************************************)
(* Every event is in one place, and every job is invoked at most once, for *)
(* any number of workers, clients and jobs and any graph of dependencies.  *)
(*                                                                         *)
(* Neither of these is inductive: an event can not show up again, because  *)
(* a POST is only created for a job not posted before and a notification   *)
(* only by a job not finished before; a job does not finish again, since   *)
(* it is invoked at most once; and for a second invocation, either its     *)
(* POST had to be underway still, or its Gate to open again, which after   *)
(* passing by notification is locked and after passing with the POST has   *)
(* no dependency left to be checked off.                                   *)
(***************************************************************************)

AllEvents == FedQueue \cup UNION {todo[w] : w \in Workers}

(* there is at most one POST for a job, and only if that job was handed over *)
PostEventsKnown ==
    \A e \in AllEvents : e.verb = "POST" =>
       /\ e.job \in posted
       /\ \A o \in AllEvents : o.verb = "POST" /\ o.job = e.job => o = e

(* a notification comes from a job which has finished *)
NotifiedByFinished == \A e \in AllEvents : e.verb = "GATE" => e.tag \in finished

(* jobs are worked on by a single worker, have been invoked and not finished *)
WorkedOnce ==
    \A w \in Workers : pc[w] = "working" => \A e \in todo[w] :
       /\ invoked[e.job] > 0 /\ e.job \notin finished
       /\ \A v \in Workers \ {w} : pc[v] = "working" => \A o \in todo[v] : o.job # e.job

(* how an invocation happened is still to be seen from the Gate *)
GateRemembers ==
    \A j \in CalcJobs : invoked[j] > 0 =>
       /\ rest[j] = 0
       /\ \/ gateDead[j] = ANYTIME
          \/ /\ j \in posted
             /\ \A e \in Underway : e.verb = "POST" => e.job # j

MetaRemembered ==
    \A m \in MetaJobs : invoked[m] > 0 =>
       /\ m \in posted
       /\ \A e \in AllEvents : e.verb = "POST" => e.job # m

FinishedInvoked == \A j \in finished : invoked[j] > 0

(* what a client is about to schedule is not scheduled by anybody else *)
ArgsFresh ==
    \A c \in Clients : arg[c] # NoJob =>
       /\ arg[c] \notin posted
       /\ \A m \in MetaJobs : arg[c] \notin Plan[m]
       /\ \A d \in Clients \ {c} : arg[d] # arg[c]

InvocationInv ==
    /\ EventsInOnePlace /\ PostEventsKnown /\ NotifiedByFinished
    /\ WorkedOnce /\ GateRemembers /\ MetaRemembered /\ FinishedInvoked
    /\ ArgsFresh /\ InvokedOnce

-----------------------------------------------------------------------------
(***************************************************************************)
(* The events which can be placed.                                         *)
(***************************************************************************)

(* Which job and which source the new events carry. *)
LEMMA EventFields ==
    /\ \A j : JobEvent(j).verb = "POST" /\ JobEvent(j).job = j
    /\ \A m, t : MetaEvent(m, t).verb = "POST" /\ MetaEvent(m, t).job = m
    /\ \A k, t : TickEvent(k, t).verb = "TICK" /\ TickEvent(k, t).tag = k
  BY DEF JobEvent, MetaEvent, TickEvent

(* A notification is directed to the dependent job and names its source. *)
LEMMA NotificationFields ==
    ASSUME NEW e \in ActivationEvent, NEW k, NEW j
    PROVE  RefineToGate(e, k, j).verb = "GATE" /\ RefineToGate(e, k, j).tag = j
  BY DEF RefineToGate, ActivationEvent

(* The duty cycle adds to the given events no more than a »tick« not in use. *)
LEMMA DutyCyclePlaces ==
    ASSUME NEW time, NEW force, NEW extra, DutyCycle(time, force, extra)
    PROVE  /\ instruct' = {}
           /\ \E T : /\ FedQueue' \subseteq FedQueue \cup extra \cup T
                     /\ \A n \in T : n.verb = "TICK" /\ n \notin AllEvents
  <1>1. PICK q \in SUBSET FedQueue : DutyCycle(time, force, extra)!(q)
    BY DEF DutyCycle
  <1>2. instruct' = {} /\ FedQueue' = priority'
    BY <1>1 DEF FedQueue
  <1>3. CASE priority' \subseteq q \cup extra
    <2>1. FedQueue' \subseteq FedQueue \cup extra \cup {}
      BY <1>1, <1>2, <1>3
    <2> QED
      BY <1>2, <2>1
  <1>4. ASSUME NEW k \in FreeTicks, NEW t, priority' = q \cup extra \cup {TickEvent(k, t)}
        PROVE  \E T : /\ FedQueue' \subseteq FedQueue \cup extra \cup T
                      /\ \A n \in T : n.verb = "TICK" /\ n \notin AllEvents
    <2>1. TickEvent(k, t) \notin AllEvents
      BY EventFields DEF FreeTicks, AllEvents
    <2>2. FedQueue' \subseteq FedQueue \cup extra \cup {TickEvent(k, t)}
      BY <1>1, <1>2, <1>4
    <2>3. \A n \in {TickEvent(k, t)} : n.verb = "TICK" /\ n \notin AllEvents
      BY <2>1, EventFields
    <2> QED
      BY <2>2, <2>3, Zenon
  <1> QED
    BY <1>1, <1>2, <1>3, <1>4

(* What postChain() does to the queues. *)
LEMMA PostChainPlaces ==
    ASSUME NEW t, NEW events, PostChain(t, events), EventsInOnePlace,
           events \cap AllEvents = {}
    PROVE  instruct' \cap priority' = {} /\ FedQueue' \subseteq FedQueue \cup events
  BY DEF PostChain, Instruct, FedQueue, AllEvents, EventsInOnePlace

-----------------------------------------------------------------------------
(***************************************************************************)
(* A step which places the new events N, takes events off the queues, and  *)
(* lets workers leave (but not enter) dispatch and work mode.              *)
(***************************************************************************)
Fresh(N) ==
    /\ \A e \in N : e \notin AllEvents
    /\ \A e \in N : e.verb = "POST" =>
          /\ e.job \in posted' /\ e.job \notin posted
          /\ \A o \in N : o.verb = "POST" /\ o.job = e.job => o = e
    /\ \A e \in N : e.verb = "GATE" => e.tag \in finished'

Places(N) ==
    /\ instruct' \cap priority' = {}
    /\ FedQueue' \subseteq FedQueue \cup N
    /\ \A w \in Workers : todo'[w] \subseteq todo[w]
    /\ \A w \in Workers : pc'[w] \in {"dispatch", "working"} => pc'[w] = pc[w]

Keeps == /\ posted \subseteq posted' /\ finished \subseteq finished'
         /\ UNCHANGED gateVars
         /\ \A j \in CalcJobs : invoked'[j] = invoked[j]
         /\ \A w \in Workers : pc'[w] = "working" => \A e \in todo'[w] : e.job \notin finished'

(* Placing fresh events preserves the invariants about events and Gates. *)
LEMMA PlacesInv ==
    ASSUME TypeOK, InvocationInv, NEW N, Fresh(N), Places(N), Keeps
    PROVE  /\ AllEvents' \subseteq AllEvents \cup N
           /\ EventsInOnePlace' /\ PostEventsKnown' /\ NotifiedByFinished'
           /\ WorkedOnce' /\ GateRemembers'
  <1>1. AllEvents' \subseteq AllEvents \cup N
    BY DEF AllEvents, Places
  <1>2. EventsInOnePlace'
    <2>1. \A w \in Workers : todo'[w] \cap FedQueue' = {}
      BY DEF Places, Fresh, InvocationInv, EventsInOnePlace, AllEvents
    <2>2. \A w \in Workers : \A v \in Workers \ {w} : todo'[v] \cap todo'[w] = {}
      BY DEF Places, InvocationInv, EventsInOnePlace
    <2> QED
      BY <2>1, <2>2 DEF Places, EventsInOnePlace
  <1>3. PostEventsKnown'
    <2> SUFFICES ASSUME NEW e \in AllEvents', e.verb = "POST"
                 PROVE  /\ e.job \in posted'
                        /\ \A o \in AllEvents' : o.verb = "POST" /\ o.job = e.job => o = e
      BY DEF PostEventsKnown
    <2> QED
      BY <1>1 DEF Fresh, Keeps, InvocationInv, PostEventsKnown
  <1>4. NotifiedByFinished'
    BY <1>1 DEF Fresh, Keeps, InvocationInv, NotifiedByFinished
  <1>5. WorkedOnce'
    <2> SUFFICES ASSUME NEW w \in Workers, pc'[w] = "working", NEW e \in todo'[w]
                 PROVE  /\ invoked'[e.job] > 0 /\ e.job \notin finished'
                        /\ \A v \in Workers \ {w} : pc'[v] = "working" =>
                              \A o \in todo'[v] : o.job # e.job
      BY DEF WorkedOnce
    <2>1. pc[w] = "working" /\ e \in todo[w] /\ e.job \in CalcJobs
      BY DEF Places, TypeOK, TaskTypeOK
    <2>2. \A v \in Workers : pc'[v] = "working" => pc[v] = "working" /\ todo'[v] \subseteq todo[v]
      BY DEF Places
    <2> QED
      BY <2>1, <2>2 DEF Keeps, InvocationInv, WorkedOnce
  <1>6. GateRemembers'
    <2>1. \A e \in Underway' : e \in Underway \/ e \in N
      BY DEF Places, Underway
    <2>2. \A e \in Underway' : e.verb = "POST" => e \in Underway \/ e.job \notin posted
      BY <2>1 DEF Fresh
    <2> QED
      BY <2>2 DEF Keeps, InvocationInv, GateRemembers, gateVars
  <1> QED
    BY <1>1, <1>2, <1>3, <1>4, <1>5, <1>6

(* If moreover no job is invoked or finished, only what the clients hold in *)
(* their hands needs to be looked at.                                       *)
LEMMA PlacesInvQuiet ==
    ASSUME TypeOK, InvocationInv, NEW N, Fresh(N), Places(N), posted \subseteq posted',
           UNCHANGED <<gateVars, invoked, finished>>, ArgsFresh'
    PROVE  InvocationInv'
  <1>1. Keeps
    BY DEF Keeps, Places, InvocationInv, WorkedOnce
  <1>2. /\ AllEvents' \subseteq AllEvents \cup N
        /\ EventsInOnePlace' /\ PostEventsKnown' /\ NotifiedByFinished'
        /\ WorkedOnce' /\ GateRemembers'
    BY <1>1, PlacesInv
  <1>3. MetaRemembered'
    BY <1>2 DEF Fresh, InvocationInv, MetaRemembered
  <1>4. FinishedInvoked' /\ InvokedOnce'
    BY DEF InvocationInv, FinishedInvoked, InvokedOnce
  <1> QED
    BY <1>2, <1>3, <1>4 DEF InvocationInv

-----------------------------------------------------------------------------
(* Steps which move a worker ahead without touching any event. *)
LEMMA InvocationIdleStep ==
    ASSUME TypeOK, InvocationInv, NEW w \in Workers,
           \/ Peek(w) \/ Feed(w) \/ IncomingCapacity(w) \/ SampleTime(w)
           \/ OutgoingCapacity(w) \/ SleepWake(w) \/ WorkerPull(w) \/ WorkerIdleWake(w)
    PROVE  InvocationInv'
  <1> USE DEF Peek, Feed, IncomingCapacity, SampleTime, OutgoingCapacity, SleepWake,
              WorkerPull, WorkerIdleWake
  <1>1. /\ UNCHANGED <<todo, gateVars, posted, finished, invoked, arg>>
    BY DEF clientVars, history
  <1>2. instruct' \cap priority' = {} /\ FedQueue' \subseteq FedQueue
    BY DEF queueVars, MaybeFeed, FeedPrioritisation, FedQueue, InvocationInv, EventsInOnePlace
  <1>3. \A v \in Workers : pc'[v] \in {"dispatch", "working"} => pc'[v] = pc[v]
    BY DEF TypeOK, WorkerTypeOK, Goto, Returns, ScatteredDelay, PullWork, IdleWake
  <1>4. Fresh({}) /\ Places({}) /\ ArgsFresh'
    BY <1>1, <1>2, <1>3 DEF Fresh, Places, InvocationInv, ArgsFresh
  <1> QED
    BY <1>1, <1>4, PlacesInvQuiet

(* Retrieving an event moves it from the queue into the hands of one worker. *)
LEMMA InvocationFindWork ==
    ASSUME TypeOK, InvocationInv, NEW w \in Workers, FindWork(w)
    PROVE  InvocationInv'
  <1> USE DEF FindWork
  <1>0. UNCHANGED <<gateVars, posted, finished, invoked, arg>>
    BY DEF clientVars, history
  <1>1. CASE \E e \in FedQueue : /\ FoundWork(w, clk[w], e)
                                 /\ todo' = [todo EXCEPT ![w] = {e}]
                                 /\ pc' = Goto(w, "dispatch")
    <2>1. PICK e \in FedQueue : /\ FoundWork(w, clk[w], e)
                                /\ todo' = [todo EXCEPT ![w] = {e}]
                                /\ pc' = Goto(w, "dispatch")
      BY <1>1
    <2>2. instruct' = {} /\ priority' \subseteq FedQueue \ {e}
      BY <2>1 DEF FoundWork
    <2>3. FedQueue' \subseteq FedQueue \ {e}
      BY <2>2 DEF FedQueue
    <2>4. AllEvents' \subseteq AllEvents
      BY <2>1, <2>3 DEF AllEvents, TypeOK, TaskTypeOK
    <2>5. EventsInOnePlace'
      <3>1. \A v \in Workers : todo'[v] \cap FedQueue' = {}
        BY <2>1, <2>3 DEF InvocationInv, EventsInOnePlace, TypeOK, TaskTypeOK
      <3>2. \A v \in Workers : \A u \in Workers \ {v} : todo'[u] \cap todo'[v] = {}
        BY <2>1 DEF InvocationInv, EventsInOnePlace, TypeOK, TaskTypeOK
      <3> QED
        BY <2>2, <3>1, <3>2 DEF EventsInOnePlace
    <2>6. PostEventsKnown' /\ NotifiedByFinished'
      BY <1>0, <2>4 DEF InvocationInv, PostEventsKnown, NotifiedByFinished
    <2>7. WorkedOnce'
      <3>1. \A v \in Workers : pc'[v] = "working" => pc[v] = "working" /\ todo'[v] = todo[v]
        BY <2>1 DEF Goto, TypeOK, WorkerTypeOK, TaskTypeOK
      <3> QED
        BY <1>0, <3>1 DEF InvocationInv, WorkedOnce
    <2>8. GateRemembers'
      <3>1. Underway' \subseteq Underway
        BY <2>1, <2>3 DEF Underway, Goto, TypeOK, WorkerTypeOK, TaskTypeOK
      <3> QED
        BY <1>0, <3>1 DEF InvocationInv, GateRemembers, gateVars
    <2>9. MetaRemembered' /\ FinishedInvoked' /\ ArgsFresh' /\ InvokedOnce'
      BY <1>0, <2>4 DEF InvocationInv, MetaRemembered, FinishedInvoked, ArgsFresh, InvokedOnce
    <2> QED
      BY <2>5, <2>6, <2>7, <2>8, <2>9 DEF InvocationInv
  <1>2. CASE (NothingDue(w, clk[w]) \/ Contention(w)) /\ Returns(w, "ret", "KICK") /\ UNCHANGED todo
    <2>1. instruct' \cap priority' = {} /\ FedQueue' \subseteq FedQueue
      BY <1>2 DEF NothingDue, Contention, FedQueue, InvocationInv, EventsInOnePlace
    <2>2. \A v \in Workers : pc'[v] \in {"dispatch", "working"} => pc'[v] = pc[v]
      BY <1>2 DEF TypeOK, WorkerTypeOK, Goto, Returns
    <2>3. Fresh({}) /\ Places({}) /\ ArgsFresh'
      BY <1>0, <1>2, <2>1, <2>2 DEF Fresh, Places, InvocationInv, ArgsFresh
    <2> QED
      BY <1>0, <2>3, PlacesInvQuiet
  <1> QED
    BY <1>1, <1>2

(* The duty cycle places a new »tick«. *)
LEMMA InvocationTick ==
    ASSUME TypeOK, InvocationInv, NEW w \in Workers, DispatchTick(w)
    PROVE  InvocationInv'
  <1> USE DEF DispatchTick
  <1>1. UNCHANGED <<gateVars, posted, finished, invoked, arg>>
    BY DEF clientVars, history
  <1>d. PICK time, force : DutyCycle(time, force, {})
    OBVIOUS
  <1>2. instruct' = {}
    BY <1>d, DutyCyclePlaces
  <1>3. PICK T : /\ FedQueue' \subseteq FedQueue \cup {} \cup T
                 /\ \A n \in T : n.verb = "TICK" /\ n \notin AllEvents
    BY <1>d, DutyCyclePlaces
  <1>4. \A v \in Workers : pc'[v] \in {"dispatch", "working"} => pc'[v] = pc[v]
    BY DEF TypeOK, WorkerTypeOK, Launch, Goto
  <1>5. \A v \in Workers : todo'[v] \subseteq todo[v]
    BY DEF TypeOK, TaskTypeOK
  <1>6. Fresh(T) /\ Places(T) /\ ArgsFresh'
    BY <1>1, <1>2, <1>3, <1>4, <1>5 DEF Fresh, Places, InvocationInv, ArgsFresh
  <1> QED
    BY <1>1, <1>6, PlacesInvQuiet

(* A meta job is invoked once and places jobs nobody has scheduled before. *)
LEMMA InvocationMeta ==
    ASSUME TypeOK, InvocationInv, NEW w \in Workers, DispatchMeta(w) \/ FailMeta(w)
    PROVE  InvocationInv'
  <1>1. PICK m, placed, l : Invokes(w, m, placed, l)
    BY MetaInvoked
  <1> USE DEF Invokes, InvokeMeta, PlaceJobs
  <1>2. PICK e \in todo[w] : e.verb = "POST" /\ e.job = m
    BY <1>1
  <1>3. m \in posted /\ invoked[m] = 0
    BY <1>1, <1>2 DEF AllEvents, InvocationInv, PostEventsKnown, MetaRemembered, TypeOK, EnvTypeOK
  <1>4. \A n \in NewEvents(placed) : /\ n.verb = "POST" /\ n.job \in placed /\ n.job \notin posted
                                /\ \A o \in NewEvents(placed) : o.job = n.job => o = n
    BY EventFields DEF NewEvents
  <1>5. NewEvents(placed) \cap AllEvents = {}
    BY <1>4 DEF InvocationInv, PostEventsKnown
  <1>6. PICK T : /\ instruct' \cap priority' = {}
                 /\ FedQueue' \subseteq FedQueue \cup NewEvents(placed) \cup T
                 /\ \A n \in T : n.verb = "TICK" /\ n \notin AllEvents
    <2>1. CASE DutyCycle(now, TRUE, NewEvents(placed))
      <3>1. PICK force : DutyCycle(now, force, NewEvents(placed))
        BY <2>1
      <3>2. instruct' \cap priority' = {}
        BY <3>1, DutyCyclePlaces
      <3>3. PICK T : /\ FedQueue' \subseteq FedQueue \cup NewEvents(placed) \cup T
                     /\ \A n \in T : n.verb = "TICK" /\ n \notin AllEvents
        BY <3>1, DutyCyclePlaces
      <3> QED
        BY <3>2, <3>3
    <2>2. CASE PostChain(w, NewEvents(placed))
      <3>1. instruct' \cap priority' = {} /\ FedQueue' \subseteq FedQueue \cup NewEvents(placed) \cup {}
        BY <1>5, <2>2, PostChainPlaces DEF InvocationInv
      <3> QED
        BY <3>1
    <2> QED
      BY <1>1, <2>1, <2>2
  <1> DEFINE N == NewEvents(placed) \cup T
  <1>7. /\ posted' = posted \cup placed /\ placed \subseteq Plan[m]
        /\ finished' \in {finished, finished \cup {m}}
        /\ invoked' = [invoked EXCEPT ![m] = @ + 1]
        /\ UNCHANGED <<gateVars, arg>>
    BY <1>1 DEF clientVars
  <1>8. todo' = [todo EXCEPT ![w] = {}] /\ \A v \in Workers : todo'[v] \subseteq todo[v]
    BY <1>1 DEF TypeOK, TaskTypeOK
  <1>9. \A v \in Workers : pc'[v] \in {"dispatch", "working"} => pc'[v] = pc[v]
    <2>1. PICK S : Launch(S, Goto(w, l)) /\ l \in {"peekOut", "ret"}
      BY <1>1
    <2> QED
      BY <2>1 DEF TypeOK, WorkerTypeOK, Launch, Goto
  <1>10. Fresh(N)
    BY <1>4, <1>5, <1>6, <1>7 DEF Fresh
  <1>11. Places(N)
    BY <1>6, <1>8, <1>9 DEF Places
  <1>12. Keeps
    <2>1. m \notin CalcJobs
      BY <1>1, JobAssumption
    <2>2. \A j \in CalcJobs : invoked'[j] = invoked[j]
      BY <1>7, <2>1 DEF TypeOK, EnvTypeOK
    <2>3. \A v \in Workers : pc'[v] = "working" => \A o \in todo'[v] : o.job \notin finished'
      BY <1>7, <1>8, <1>9, <2>1 DEF InvocationInv, WorkedOnce, TypeOK, TaskTypeOK
    <2> QED
      BY <1>7, <2>2, <2>3 DEF Keeps
  <1>13. /\ AllEvents' \subseteq AllEvents \cup N
         /\ EventsInOnePlace' /\ PostEventsKnown' /\ NotifiedByFinished'
         /\ WorkedOnce' /\ GateRemembers'
    BY <1>10, <1>11, <1>12, PlacesInv
  <1>14. MetaRemembered'
    <2>1. \A o \in AllEvents' : o.verb = "POST" => o.job # m
      <3>1. e \notin AllEvents'
        <4>1. e \notin FedQueue /\ \A v \in Workers \ {w} : e \notin todo[v]
          BY <1>2 DEF InvocationInv, EventsInOnePlace
        <4>2. e \notin N
          BY <1>2, <1>3, <1>4, <1>6
        <4>3. e \notin FedQueue' /\ \A v \in Workers : e \notin todo'[v]
          BY <1>6, <1>8, <4>1, <4>2 DEF TypeOK, TaskTypeOK
        <4> QED
          BY <4>3 DEF AllEvents
      <3>2. \A o \in AllEvents : o.verb = "POST" /\ o.job = m => o = e
        BY <1>2 DEF AllEvents, InvocationInv, PostEventsKnown
      <3>3. \A o \in N : o.verb = "POST" => o.job # m
        BY <1>3, <1>4, <1>6
      <3> QED
        BY <1>13, <3>1, <3>2, <3>3
    <2>2. \A k \in MetaJobs \ {m} : invoked'[k] = invoked[k]
      BY <1>7 DEF TypeOK, EnvTypeOK
    <2> QED
      BY <1>3, <1>7, <1>13, <1>10, <2>1, <2>2 DEF Fresh, InvocationInv, MetaRemembered
  <1>15. FinishedInvoked' /\ InvokedOnce'
    BY <1>3, <1>7 DEF InvocationInv, FinishedInvoked, InvokedOnce, TypeOK, EnvTypeOK
  <1>16. ArgsFresh'
    BY <1>1, <1>7 DEF InvocationInv, ArgsFresh
  <1> QED
    BY <1>13, <1>14, <1>15, <1>16 DEF InvocationInv

(* A calculation job reached a second time does not pass its Gate. *)
LEMMA InvocationCalc ==
    ASSUME TypeOK, InvocationInv, NEW w \in Workers, DispatchCalc(w)
    PROVE  InvocationInv'
  <1>e. PICK e \in todo[w] : DispatchCalc(w)!2!(e)
    BY DEF DispatchCalc
  <1>j. PICK j \in CalcJobs : j = e.job
    BY <1>e
  <1> DEFINE Opens == \/ e.verb = "POST" /\ CheckGate(j, now)
                      \/ e.verb = "GATE" /\ NotificationOpens(j, now)
  <1>1. /\ \/ e.verb = "POST" /\ UNCHANGED gateVars
           \/ e.verb = "GATE" /\ ReceiveGateNotification(j, now)
        /\ Opens  => /\ invoked' = [invoked EXCEPT ![j] = @ + 1]
                     /\ pc' = Goto(w, "working") /\ UNCHANGED todo
        /\ ~Opens => /\ UNCHANGED invoked
                     /\ pc' = Goto(w, "peekOut") /\ todo' = [todo EXCEPT ![w] = {}]
    BY <1>e, <1>j
  <1>2. e.job = j /\ pc[w] = "dispatch" /\ e \in Underway /\ e \in AllEvents
    BY <1>j DEF DispatchCalc, Underway, AllEvents
  <1>3. /\ UNCHANGED <<instruct, priority, posted, finished, arg>> /\ FedQueue' = FedQueue
    BY DEF DispatchCalc, queueVars, clientVars, FedQueue
  <1>4. now \in Nat /\ ANYTIME < now /\ rest[j] \in Nat /\ gateDead[j] \in Int
    <2>1. 0 \in Instant /\ ANYTIME \in Int
      BY SchedulerAssumption, ExtremalTimes
    <2>2. ANYTIME < 0
      BY <2>1, InstantAssumption DEF IsRegular
    <2> QED
      BY <1>2, <2>1, <2>2 DEF TypeOK, EnvTypeOK, GateTypeOK
  <1>5. CASE Opens
    <2>1. /\ invoked' = [invoked EXCEPT ![j] = @ + 1]
          /\ pc' = Goto(w, "working") /\ UNCHANGED todo
      BY <1>1, <1>5
    <2>2. invoked[j] = 0
      <3>0. invoked[j] \in Nat
        BY DEF TypeOK, EnvTypeOK
      <3>1. CASE e.verb = "POST" /\ CheckGate(j, now)
        <4>1. gateDead[j] # ANYTIME
          BY <1>4, <3>1 DEF CheckGate, IsDead
        <4> QED
          BY <1>2, <3>0, <3>1, <4>1 DEF InvocationInv, GateRemembers
      <3>2. CASE e.verb = "GATE" /\ NotificationOpens(j, now)
        BY <3>0, <3>2 DEF NotificationOpens, InvocationInv, GateRemembers
      <3> QED
        BY <1>5, <3>1, <3>2
    <2>3. AllEvents' = AllEvents
      BY <1>3, <2>1 DEF AllEvents
    <2>4. EventsInOnePlace' /\ PostEventsKnown' /\ NotifiedByFinished' /\ ArgsFresh'
      BY <1>3, <2>1, <2>3 DEF InvocationInv, EventsInOnePlace, PostEventsKnown,
                              NotifiedByFinished, ArgsFresh
    <2>5. \A k \in Jobs \ {j} : invoked'[k] = invoked[k]
      BY <1>2, <2>1 DEF TypeOK, EnvTypeOK
    <2>6. invoked'[j] = 1
      BY <1>2, <2>1, <2>2 DEF TypeOK, EnvTypeOK
    <2>7. j \notin finished
      BY <1>2, <2>2 DEF InvocationInv, FinishedInvoked
    <2>8. WorkedOnce'
      <3>1. \A x \in todo[w] : x.job = j
        BY <1>2 DEF TypeOK, TaskTypeOK
      <3>2. \A v \in Workers \ {w} : /\ pc'[v] = pc[v] /\ todo'[v] = todo[v]
                                     /\ pc[v] = "working" => \A o \in todo[v] :
                                           o.job \in CalcJobs /\ o.job # j
        BY <2>1, <2>2 DEF Goto, TypeOK, WorkerTypeOK, TaskTypeOK, InvocationInv, WorkedOnce
      <3> QED
        BY <1>3, <2>1, <2>5, <2>6, <2>7, <3>1, <3>2 DEF InvocationInv, WorkedOnce
    <2>9. Underway' \subseteq Underway /\ e \notin Underway'
      <3>1. \A v \in Workers : pc'[v] = "dispatch" => v # w /\ pc[v] = "dispatch"
        BY <2>1 DEF Goto, TypeOK, WorkerTypeOK
      <3>2. e \notin FedQueue /\ \A v \in Workers \ {w} : e \notin todo[v]
        BY DEF InvocationInv, EventsInOnePlace
      <3> QED
        BY <1>3, <2>1, <3>1, <3>2 DEF Underway
    <2>10. GateRemembers'
      <3>1. CASE e.verb = "POST"
        <4>1. UNCHANGED gateVars /\ rest[j] = 0
          BY <1>1, <1>4, <1>5, <3>1 DEF CheckGate, IsHold
        <4>2. j \in posted
          BY <1>2, <3>1 DEF InvocationInv, PostEventsKnown
        <4>3. \A o \in Underway' : o.verb = "POST" => o.job # j
          <5>1. Underway \subseteq AllEvents
            BY DEF Underway, AllEvents
          <5> QED
            BY <1>2, <2>9, <3>1, <5>1 DEF InvocationInv, PostEventsKnown
        <4>4. \A k \in CalcJobs \ {j} : invoked'[k] = invoked[k]
          BY <2>5
        <4> QED
          BY <1>3, <2>9, <4>1, <4>2, <4>3, <4>4 DEF InvocationInv, GateRemembers, gateVars
      <3>2. CASE e.verb = "GATE"
        <4>1. NotificationOpens(j, now) /\ ReceiveGateNotification(j, now)
          BY <1>1, <1>5, <3>2
        <4>2. rest'[j] = 0 /\ gateDead'[j] = ANYTIME
          BY <1>2, <4>1 DEF NotificationOpens, ReceiveGateNotification, TypeOK, GateTypeOK
        <4>3. \A k \in CalcJobs \ {j} : rest'[k] = rest[k] /\ gateDead'[k] = gateDead[k]
          BY <4>1 DEF ReceiveGateNotification, TypeOK, GateTypeOK
        <4>4. \A k \in CalcJobs \ {j} : invoked'[k] = invoked[k]
          BY <2>5
        <4> QED
          BY <1>3, <2>9, <4>2, <4>3, <4>4 DEF InvocationInv, GateRemembers
      <3> QED
        BY <1>5, <3>1, <3>2
    <2>11. MetaRemembered'
      <3>1. j \notin MetaJobs
        BY <1>2, JobAssumption
      <3>2. \A m \in MetaJobs : invoked'[m] = invoked[m]
        BY <2>5, <3>1
      <3> QED
        BY <1>3, <2>3, <3>2 DEF InvocationInv, MetaRemembered
    <2>12. FinishedInvoked' /\ InvokedOnce'
      BY <1>3, <2>5, <2>6, <2>7 DEF InvocationInv, FinishedInvoked, InvokedOnce, TypeOK, EnvTypeOK
    <2> QED
      BY <2>4, <2>8, <2>10, <2>11, <2>12 DEF InvocationInv
  <1>6. CASE ~Opens
    <2>1. /\ UNCHANGED invoked
          /\ pc' = Goto(w, "peekOut") /\ todo' = [todo EXCEPT ![w] = {}]
      BY <1>1, <1>6
    <2>2. /\ \A v \in Workers : todo'[v] \subseteq todo[v]
          /\ \A v \in Workers : pc'[v] \in {"dispatch", "working"} =>
                                  pc'[v] = pc[v] /\ todo'[v] = todo[v]
      BY <2>1 DEF Goto, TypeOK, WorkerTypeOK, TaskTypeOK
    <2>3. AllEvents' \subseteq AllEvents /\ Underway' \subseteq Underway
      BY <1>3, <2>2 DEF AllEvents, Underway
    <2>4. EventsInOnePlace' /\ PostEventsKnown' /\ NotifiedByFinished' /\ ArgsFresh'
      BY <1>3, <2>2, <2>3 DEF InvocationInv, EventsInOnePlace, PostEventsKnown,
                              NotifiedByFinished, ArgsFresh
    <2>5. WorkedOnce'
      BY <1>3, <2>1, <2>2 DEF InvocationInv, WorkedOnce
    <2>6. \A k \in CalcJobs : gateDead'[k] = gateDead[k] /\ (rest[k] = 0 => rest'[k] = 0)
      <3>1. CASE UNCHANGED gateVars
        BY <3>1 DEF gateVars
      <3>2. CASE e.verb = "GATE" /\ ReceiveGateNotification(j, now)
        BY <1>2, <1>6, <3>2 DEF ReceiveGateNotification, TypeOK, GateTypeOK
      <3> QED
        BY <1>1, <3>1, <3>2
    <2>7. GateRemembers'
      BY <1>3, <2>1, <2>3, <2>6 DEF InvocationInv, GateRemembers
    <2>8. MetaRemembered' /\ FinishedInvoked' /\ InvokedOnce'
      BY <1>3, <2>1, <2>3 DEF InvocationInv, MetaRemembered, FinishedInvoked, InvokedOnce
    <2> QED
      BY <2>4, <2>5, <2>7, <2>8 DEF InvocationInv
  <1> QED
    BY <1>5, <1>6

(* A job sends its notifications once, since it finishes once. *)
LEMMA InvocationFinish ==
    ASSUME TypeOK, InvocationInv, NEW w \in Workers, FinishJob(w)
    PROVE  InvocationInv'
  <1> USE DEF FinishJob
  <1>1. PICK e \in todo[w] : FinishJob(w)!2!(e)
    OBVIOUS
  <1>2. /\ e \in ActivationEvent /\ e.job \in CalcJobs
        /\ invoked[e.job] > 0 /\ e.job \notin finished
    BY DEF TypeOK, TaskTypeOK, InvocationInv, WorkedOnce
  <1> DEFINE N == {RefineToGate(e, k, e.job) : k \in Succ(e.job)}
  <1>3. finished' = finished \cup {e.job} /\ UNCHANGED <<gateVars, posted, invoked, arg>>
    BY <1>1 DEF clientVars
  <1>4. \A n \in N : n.verb = "GATE" /\ n.tag = e.job
    BY <1>2, NotificationFields
  <1>5. \A n \in N : n \notin AllEvents
    BY <1>2, <1>4 DEF InvocationInv, NotifiedByFinished
  <1>6. instruct' \cap priority' = {} /\ FedQueue' \subseteq FedQueue \cup N
    <2> HIDE DEF N
    <2>1. PostChain(w, N)
      BY <1>1 DEF N
    <2> QED
      BY <1>5, <2>1, PostChainPlaces DEF InvocationInv
  <1>7. /\ \A v \in Workers : todo'[v] \subseteq todo[v]
        /\ \A v \in Workers : pc'[v] \in {"dispatch", "working"} =>
                                v # w /\ pc'[v] = pc[v] /\ todo'[v] = todo[v]
    BY DEF Goto, TypeOK, WorkerTypeOK, TaskTypeOK
  <1> HIDE DEF N
  <1>8. Fresh(N) /\ Places(N)
    BY <1>3, <1>4, <1>5, <1>6, <1>7 DEF Fresh, Places
  <1>9. Keeps
    <2>1. \A v \in Workers : pc'[v] = "working" => \A o \in todo'[v] : o.job \notin finished'
      BY <1>3, <1>7 DEF InvocationInv, WorkedOnce
    <2> QED
      BY <1>3, <2>1 DEF Keeps
  <1>10. /\ AllEvents' \subseteq AllEvents \cup N
         /\ EventsInOnePlace' /\ PostEventsKnown' /\ NotifiedByFinished'
         /\ WorkedOnce' /\ GateRemembers'
    BY <1>8, <1>9, PlacesInv
  <1>11. MetaRemembered'
    BY <1>3, <1>4, <1>10 DEF InvocationInv, MetaRemembered
  <1>12. FinishedInvoked' /\ InvokedOnce' /\ ArgsFresh'
    BY <1>2, <1>3 DEF InvocationInv, FinishedInvoked, InvokedOnce, ArgsFresh
  <1> QED
    BY <1>10, <1>11, <1>12 DEF InvocationInv

(* A failing job counts as invoked and is not tried again. *)
LEMMA InvocationFail ==
    ASSUME TypeOK, InvocationInv, NEW w \in Workers, FailJob(w)
    PROVE  InvocationInv'
  <1> USE DEF FailJob
  <1>1. /\ UNCHANGED <<instruct, priority, gateVars, posted, finished, invoked, arg>>
        /\ FedQueue' = FedQueue
    BY DEF queueVars, clientVars, history, FedQueue
  <1>2. \A v \in Workers : todo'[v] \subseteq todo[v]
    BY DEF TypeOK, TaskTypeOK
  <1>3. \A v \in Workers : pc'[v] \in {"dispatch", "working"} => pc'[v] = pc[v]
    BY DEF Goto, Returns, TypeOK, WorkerTypeOK
  <1>4. Fresh({}) /\ Places({}) /\ ArgsFresh'
    BY <1>1, <1>2, <1>3 DEF Fresh, Places, InvocationInv, ArgsFresh, EventsInOnePlace
  <1> QED
    BY <1>1, <1>4, PlacesInvQuiet

-----------------------------------------------------------------------------
(* Every step of a client preserves the invariant. *)
LEMMA InvocationClientStep ==
    ASSUME TypeOK, InvocationInv, NEW c \in Clients, ClientStep(c)
    PROVE  InvocationInv'
  <1>1. CASE SeedCalcStream(c) \/ MaybeScaleWorkForce(c)
    <2> USE DEF SeedCalcStream, MaybeScaleWorkForce
    <2>1. UNCHANGED <<instruct, priority, todo, gateVars, posted, finished, invoked>>
      BY <1>1 DEF queueVars, history
    <2>2. PICK j \in Jobs \ posted : /\ \A m \in MetaJobs : j \notin Plan[m]
                                     /\ \A d \in Clients : arg[d] # j
                                     /\ arg' = [arg EXCEPT ![c] = j]
      BY <1>1
    <2>3. ArgsFresh'
      BY <2>1, <2>2 DEF InvocationInv, ArgsFresh, TypeOK, ClientTypeOK
    <2>4. \A v \in Workers : pc'[v] \in {"dispatch", "working"} => pc'[v] = pc[v]
      BY <1>1 DEF workerVars, Launch
    <2>5. Fresh({}) /\ Places({})
      BY <2>1, <2>4 DEF Fresh, Places, FedQueue, InvocationInv, EventsInOnePlace
    <2> QED
      BY <2>1, <2>3, <2>5, PlacesInvQuiet
  <1>2. CASE \/ RequireGroomingToken(c) \/ ActivateWorkForce(c) \/ GetLoadIndicator(c)
             \/ TerminateProcessing(c) \/ AwaitShutdown(c)
    <2> USE DEF RequireGroomingToken, ActivateWorkForce, GetLoadIndicator, TerminateProcessing,
                AwaitShutdown
    <2>1. UNCHANGED <<todo, gateVars, posted, finished, invoked, arg>>
      BY <1>2 DEF history, clientVars
    <2>2. instruct' \cap priority' = {} /\ FedQueue' \subseteq FedQueue
      BY <1>2 DEF queueVars, DiscardSchedule, FedQueue, InvocationInv, EventsInOnePlace
    <2>3. \A v \in Workers : pc'[v] \in {"dispatch", "working"} => pc'[v] = pc[v]
      BY <1>2 DEF workerVars, Launch, Prune
    <2>4. Fresh({}) /\ Places({}) /\ ArgsFresh'
      BY <2>1, <2>2, <2>3 DEF Fresh, Places, InvocationInv, ArgsFresh
    <2> QED
      BY <2>1, <2>4, PlacesInvQuiet
  <1>3. CASE Ignite(c)
    <2> USE <1>3 DEF Ignite
    <2>1. UNCHANGED <<todo, gateVars, posted, finished, invoked, arg>>
      BY DEF history
    <2>2. PICK time, force : DutyCycle(time, force, {})
      OBVIOUS
    <2>3. instruct' = {}
      BY <2>2, DutyCyclePlaces
    <2>4. PICK T : /\ FedQueue' \subseteq FedQueue \cup {} \cup T
                   /\ \A n \in T : n.verb = "TICK" /\ n \notin AllEvents
      BY <2>2, DutyCyclePlaces
    <2>5. \A v \in Workers : pc'[v] \in {"dispatch", "working"} => pc'[v] = pc[v]
      BY DEF Launch
    <2>6. Fresh(T) /\ Places(T) /\ ArgsFresh'
      BY <2>1, <2>3, <2>4, <2>5 DEF Fresh, Places, InvocationInv, ArgsFresh
    <2> QED
      BY <2>1, <2>6, PlacesInvQuiet
  <1>4. CASE SeedMetaJob(c) \/ PostJob(c)
    <2> USE DEF SeedMetaJob, PostJob
    <2>1. PICK j \in Jobs : j = arg[c]
      BY <1>4 DEF TypeOK, ClientTypeOK
    <2>2. /\ posted' = posted \cup {j} /\ arg' = [arg EXCEPT ![c] = NoJob]
          /\ UNCHANGED <<todo, gateVars, finished, invoked>>
      BY <1>4, <2>1
    <2>3. j \notin posted /\ \A d \in Clients \ {c} : arg[d] # j
      BY <2>1, SchedulerAssumption DEF InvocationInv, ArgsFresh
    <2>4. PICK n : /\ n.verb = "POST" /\ n.job = j
                   /\ \/ PostChain(c, {n})
                      \/ \E force : DutyCycle(now, force, {n})
      <3>1. CASE SeedMetaJob(c)
        <4>1. PICK force : \/ PostChain(c, {MetaEvent(arg[c], now)})
                           \/ DutyCycle(now, force, {MetaEvent(arg[c], now)})
          BY <3>1
        <4> QED
          BY <2>1, <4>1, EventFields
      <3>2. CASE PostJob(c)
        BY <2>1, <3>2, EventFields
      <3> QED
        BY <1>4, <3>1, <3>2
    <2>5. {n} \cap AllEvents = {}
      BY <2>3, <2>4 DEF InvocationInv, PostEventsKnown
    <2>6. PICK T : /\ instruct' \cap priority' = {}
                   /\ FedQueue' \subseteq FedQueue \cup {n} \cup T
                   /\ \A t \in T : t.verb = "TICK" /\ t \notin AllEvents
      <3>1. CASE PostChain(c, {n})
        <4>1. /\ instruct' \cap priority' = {}
              /\ FedQueue' \subseteq FedQueue \cup {n} \cup {}
          BY <2>5, <3>1, PostChainPlaces DEF InvocationInv
        <4> QED
          BY <4>1
      <3>2. CASE \E force : DutyCycle(now, force, {n})
        <4>1. PICK force : DutyCycle(now, force, {n})
          BY <3>2
        <4>2. instruct' \cap priority' = {}
          BY <4>1, DutyCyclePlaces
        <4>3. PICK T : /\ FedQueue' \subseteq FedQueue \cup {n} \cup T
                       /\ \A t \in T : t.verb = "TICK" /\ t \notin AllEvents
          BY <4>1, DutyCyclePlaces
        <4> QED
          BY <4>2, <4>3
      <3> QED
        BY <2>4, <3>1, <3>2
    <2> DEFINE N == {n} \cup T
    <2>7. \A v \in Workers : pc'[v] \in {"dispatch", "working"} => pc'[v] = pc[v]
      BY <1>4 DEF Launch, workerVars
    <2>8. Fresh(N)
      BY <2>2, <2>3, <2>4, <2>5, <2>6 DEF Fresh
    <2>9. Places(N)
      BY <2>2, <2>6, <2>7 DEF Places
    <2>10. ArgsFresh'
      BY <2>2, <2>3 DEF InvocationInv, ArgsFresh, TypeOK, ClientTypeOK
    <2> QED
      BY <2>2, <2>8, <2>9, <2>10, PlacesInvQuiet
  <1> QED
    BY <1>1, <1>2, <1>3, <1>4 DEF ClientStep

(* The invariant holds throughout. *)
THEOREM InvocationSafety == Spec => []InvocationInv
  <1>1. Init => InvocationInv
    <2> SUFFICES ASSUME Init PROVE InvocationInv
      OBVIOUS
    <2> USE DEF Init
    <2>1. AllEvents = {} /\ Underway = {}
      BY DEF AllEvents, Underway, FedQueue
    <2>2. EventsInOnePlace /\ PostEventsKnown /\ NotifiedByFinished
      BY <2>1 DEF EventsInOnePlace, PostEventsKnown, NotifiedByFinished, FedQueue
    <2>3. WorkedOnce /\ GateRemembers /\ MetaRemembered /\ FinishedInvoked /\ InvokedOnce
      BY DEF WorkedOnce, GateRemembers, MetaRemembered, FinishedInvoked, InvokedOnce
    <2>4. ArgsFresh
      BY DEF ArgsFresh
    <2> QED
      BY <2>2, <2>3, <2>4 DEF InvocationInv
  <1>2. TypeOK /\ InvocationInv /\ [Next]_vars => InvocationInv'
    <2> SUFFICES ASSUME TypeOK, InvocationInv, [Next]_vars
                 PROVE  InvocationInv'
      OBVIOUS
    <2>1. ASSUME NEW w \in Workers, WorkerStep(w)
          PROVE  InvocationInv'
      BY <2>1, InvocationIdleStep, InvocationFindWork, InvocationTick, InvocationMeta,
         InvocationCalc, InvocationFinish, InvocationFail DEF WorkerStep
    <2>2. CASE Clock \/ UNCHANGED vars
      <3>1. UNCHANGED <<instruct, priority, pc, todo, gateVars, posted, finished, invoked, arg>>
        BY <2>2 DEF Clock, vars, queueVars, workerVars, clientVars, history
      <3>2. Fresh({}) /\ Places({}) /\ ArgsFresh'
        BY <3>1 DEF Fresh, Places, FedQueue, InvocationInv, EventsInOnePlace, ArgsFresh
      <3> QED
        BY <3>1, <3>2, PlacesInvQuiet
    <2> QED
      BY <2>1, <2>2, InvocationClientStep DEF Next
  <1> QED
    BY <1>1, <1>2, TypeCorrect, PTL DEF Spec

(* No event is ever duplicated: it is in one queue or in the hands of one   *)
(* worker, whatever threads do concurrently.                                *)
THEOREM EventsNotDuplicated == Spec => []EventsInOnePlace
  BY InvocationSafety, PTL DEF InvocationInv

(* A job is never invoked twice, for any dependency graph and any order in  *)
(* which its POST and the notifications of its prerequisites are processed. *)
THEOREM JobsInvokedOnce == Spec => []InvokedOnce
  BY InvocationSafety, PTL DEF InvocationInv

-----------------------------------------------------------------------------
(***************************************************************************)
(* The Gates do their accounting right, for any number of workers, clients *)
(* and jobs and any graph of dependencies: no job is invoked before its    *)
(* prerequisites, and none is lost before its deadline.                    *)
(*                                                                         *)
(* Events may be discarded, after their deadline or upon termination, but  *)
(* this only makes a Gate wait for ever: as an inequality the accounting   *)
(* always holds, and this is what keeps a job from being invoked too       *)
(* early. That the two sides are equal before the deadline rests on the    *)
(* deadline and the manifestation which the notifications are sent with.   *)
(***************************************************************************)

NoTermination == "terminate" \notin Operations

(* jobs are always enabled *)
NoManifestations == \A j \in CalcJobs : Man[j] = NoManID

Missing(j) == Pred[j] \ finished
Notifications(j) == {e \in Underway : e.verb = "GATE" /\ e.job = j}

(* A Gate waits for no less than what can still be notified. *)
GateBound ==
    \A j \in CalcJobs :
       /\ IsFiniteSet(Notifications(j))
       /\ rest[j] >= Cardinality(Missing(j)) + Cardinality(Notifications(j))

(* The deadline of a Gate is changed only to lock it, with the invocation. *)
GateDeadline ==
    \A j \in CalcJobs : \/ gateDead[j] = Deadline[j]
                        \/ gateDead[j] = ANYTIME /\ invoked[j] > 0

(* What a notification and the POST of a calculation job carry. *)
EventsAccurate ==
    \A e \in AllEvents : e.job \in CalcJobs =>
       /\ e.deadline = Deadline[e.job]
       /\ e.verb = "POST" => e.manifestation = Man[e.job]
       /\ e.verb = "GATE" => IsActivated(e.manifestation)

(* Work is retrieved at a time sampled before, and only when enabled. *)
Retrieval ==
    \A w \in Workers :
       /\ pc[w] = "find" => clk[w] <= now
       /\ pc[w] \in {"dispatch", "working"} => \A e \in todo[w] : IsActivated(e.manifestation)

GateSupport == GateDeadline /\ EventsAccurate /\ Retrieval

GateInv ==
    /\ GateSupport /\ GateBound /\ PrerequisitesFirst
    /\ NoTermination => /\ \A c \in Clients : cpc[c] # "down"
                        /\ GateAccounting
                        /\ NoManifestations => NoLostJob

-----------------------------------------------------------------------------
(***************************************************************************)
(* Counting.                                                               *)
(***************************************************************************)

(* The prerequisites of a job are finitely many. *)
LEMMA PrerequisitesFinite ==
    ASSUME NEW j \in CalcJobs, NEW X
    PROVE  IsFiniteSet(Pred[j] \ X) /\ Cardinality(Pred[j] \ X) \in Nat
  <1>1. IsFiniteSet(CalcJobs) /\ Pred[j] \ X \in SUBSET CalcJobs
    BY JobAssumption
  <1>2. IsFiniteSet(Pred[j] \ X)
    BY <1>1, FS_Subset
  <1> QED
    BY <1>2, FS_CardinalityType

(* A part has no more elements than the whole. *)
LEMMA CountSubset ==
    ASSUME NEW S, NEW T, IsFiniteSet(S), T \subseteq S
    PROVE  /\ IsFiniteSet(T) /\ Cardinality(T) \in Nat /\ Cardinality(S) \in Nat
           /\ Cardinality(T) <= Cardinality(S)
  BY FS_Subset, FS_CardinalityType

(* One element less. *)
LEMMA CountRemove ==
    ASSUME NEW S, NEW x \in S, IsFiniteSet(S)
    PROVE  /\ IsFiniteSet(S \ {x}) /\ Cardinality(S) \in Nat
           /\ Cardinality(S \ {x}) = Cardinality(S) - 1 /\ Cardinality(S) >= 1
  <1>1. Cardinality(S \ {x}) = Cardinality(S) - 1 /\ IsFiniteSet(S \ {x})
    BY FS_RemoveElement
  <1>2. Cardinality(S) \in Nat /\ Cardinality(S) # 0
    BY FS_CardinalityType, FS_EmptySet
  <1> QED
    BY <1>1, <1>2

-----------------------------------------------------------------------------
(***************************************************************************)
(* Which events are discarded.                                             *)
(***************************************************************************)
Live(e) == e.deadline >= now /\ IsActivated(e.manifestation)

ForCalc(e) == e.job \in CalcJobs /\ e.verb \in {"POST", "GATE"}

(* The loop over outdated entries spares what is enabled and in time. *)
LEMMA ConsolidatedKeeps ==
    ASSUME NEW q, NEW q2, NEW time \in Int, now \in Int, time <= now,
           Consolidated(q, q2, time), NEW e \in q, e.deadline \in Int, Live(e)
    PROVE  e \in q2
  BY DEF Consolidated, Removable, IsOutdated, IsMissed, Live

(* The duty cycle discards nothing enabled and in time, and places what it *)
(* is given unless the emergency strikes, for which there must be entries. *)
LEMMA DutyCycleKeeps ==
    ASSUME TypeOK, NEW time \in Int, time <= now, NEW force, NEW extra, DutyCycle(time, force, extra)
    PROVE  /\ \A e \in FedQueue : Live(e) => e \in FedQueue'
           /\ IsEmpty => extra \subseteq FedQueue'
  <1>1. PICK q \in SUBSET FedQueue : DutyCycle(time, force, extra)!(q)
    BY DEF DutyCycle
  <1>2. q \subseteq FedQueue'
    BY <1>1 DEF FedQueue
  <1>3. \A e \in FedQueue : e.deadline \in Int
    BY DEF TypeOK, QueueTypeOK, FedQueue, ActivationEvent
  <1>4. \A e \in FedQueue : Live(e) => e \in q
    BY <1>1, <1>3, ConsolidatedKeeps DEF TypeOK, EnvTypeOK
  <1>5. ASSUME IsEmpty PROVE extra \subseteq FedQueue'
    <2>1. q = {}
      BY <1>5 DEF IsEmpty, FedQueue
    <2>2. extra \subseteq priority'
      BY <1>1, <2>1 DEF HeadEntry, Top
    <2> QED
      BY <2>2 DEF FedQueue
  <1> QED
    BY <1>2, <1>4, <1>5

(* Apart from the given events it places no more than a »tick«. *)
LEMMA DutyCycleTicks ==
    ASSUME NEW time, NEW force, NEW extra, DutyCycle(time, force, extra)
    PROVE  \A e \in FedQueue' : \/ e \in FedQueue \cup extra
                                \/ e.verb = "TICK" /\ e.job = NoJob
  <1>1. PICK q \in SUBSET FedQueue : DutyCycle(time, force, extra)!(q)
    BY DEF DutyCycle
  <1>2. FedQueue' = priority'
    BY <1>1 DEF FedQueue
  <1>3. \A k, t : TickEvent(k, t).verb = "TICK" /\ TickEvent(k, t).job = NoJob
    BY DEF TickEvent
  <1> QED
    BY <1>1, <1>2, <1>3

(* A »tick« is for no job. *)
LEMMA NoJobNoCalc == NoJob \notin CalcJobs
  BY SchedulerAssumption DEF Jobs

(* Workers added have not been at work. *)
LEMMA LaunchedOff ==
    ASSUME TypeOK, NEW S \in UpdateState \cup ActivateSets
    PROVE  S \subseteq Workers \ pool /\ \A v \in S : pc[v] = "off"
  BY AddedWorkers DEF UpdateState, ActivateSets, IncScaleSets, TypeOK, WorkerTypeOK

-----------------------------------------------------------------------------
(***************************************************************************)
(* Steps which leave the Gates alone: they may place new POST and »tick«   *)
(* events and discard outdated ones.                                       *)
(***************************************************************************)
PostOrTick(e) ==
    /\ e.verb # "GATE"
    /\ e.job \in CalcJobs => e.deadline = Deadline[e.job] /\ e.manifestation = Man[e.job]

PlacesPosts ==
    /\ \A e \in AllEvents' : e \in AllEvents \/ PostOrTick(e)
    /\ \A e \in Underway' : e \in Underway \/ PostOrTick(e)

KeepsLive ==
    NoTermination =>
       /\ \A e \in Underway : ForCalc(e) /\ Live(e) => e \in Underway'
       /\ \A j \in (posted' \ posted) \cap CalcJobs :
             \E e \in Underway' : e.verb = "POST" /\ e.job = j
       /\ \A c \in Clients : cpc'[c] # "down"

KeepsGates ==
    /\ UNCHANGED gateVars
    /\ \A j \in CalcJobs : /\ invoked'[j] = invoked[j]
                           /\ j \in finished' <=> j \in finished
    /\ now' >= now /\ allowed \subseteq allowed'

KeepsWork ==
    \A w \in Workers :
       /\ pc'[w] = "find" => clk'[w] <= now'
       /\ pc'[w] \in {"dispatch", "working"} =>
             pc[w] \in {"dispatch", "working"} /\ todo'[w] \subseteq todo[w]

(* Such steps preserve what is known about events and Gates. *)
LEMMA QuietSupport ==
    ASSUME TypeOK, GateSupport, PlacesPosts, KeepsGates, KeepsWork
    PROVE  GateSupport'
  <1>1. GateDeadline'
    BY DEF GateSupport, GateDeadline, KeepsGates, gateVars
  <1>2. \A man : IsActivated(man) => IsActivated(man)'
    BY DEF KeepsGates, IsActivated
  <1>3. EventsAccurate'
    BY <1>2 DEF GateSupport, EventsAccurate, PlacesPosts, PostOrTick
  <1>4. Retrieval'
    BY <1>2 DEF GateSupport, Retrieval, KeepsWork
  <1> QED
    BY <1>1, <1>3, <1>4 DEF GateSupport

(* Such steps preserve the accounting. *)
LEMMA QuietGates ==
    ASSUME TypeOK, TypeOK', GateInv, PlacesPosts, KeepsGates, KeepsLive
    PROVE  /\ GateBound' /\ PrerequisitesFirst'
           /\ NoTermination => GateAccounting' /\ (NoManifestations => NoLostJob')
  <1>1. \A j \in CalcJobs : Pred[j] \subseteq CalcJobs /\ Deadline[j] \in Int
    BY JobAssumption
  <1>2. \A j \in CalcJobs : Missing(j)' = Missing(j) /\ rest'[j] = rest[j]
    BY <1>1 DEF Missing, KeepsGates, gateVars
  <1>3. \A j \in CalcJobs : Notifications(j)' \subseteq Notifications(j)
    BY DEF Notifications, PlacesPosts, PostOrTick
  <1>4. GateBound'
    <2> SUFFICES ASSUME NEW j \in CalcJobs
                 PROVE  /\ IsFiniteSet(Notifications(j)')
                        /\ rest'[j] >= Cardinality(Missing(j)') + Cardinality(Notifications(j)')
      BY DEF GateBound
    <2>1. /\ IsFiniteSet(Notifications(j))
          /\ rest[j] >= Cardinality(Missing(j)) + Cardinality(Notifications(j))
          /\ rest[j] \in Nat
      BY DEF GateInv, GateBound, TypeOK, GateTypeOK
    <2>2. Cardinality(Missing(j)) \in Nat
      BY PrerequisitesFinite DEF Missing
    <2>3. /\ IsFiniteSet(Notifications(j)') /\ Cardinality(Notifications(j)') \in Nat
          /\ Cardinality(Notifications(j)) \in Nat
          /\ Cardinality(Notifications(j)') <= Cardinality(Notifications(j))
      BY <1>3, <2>1, CountSubset
    <2> QED
      BY <1>2, <2>1, <2>2, <2>3
  <1>5. PrerequisitesFirst'
    BY <1>1 DEF GateInv, PrerequisitesFirst, KeepsGates
  <1>6. now \in Int /\ now' \in Int /\ now <= now'
    BY DEF TypeOK, EnvTypeOK, KeepsGates
  <1>7. ASSUME NoTermination PROVE GateAccounting'
    <2> SUFFICES ASSUME NEW j \in CalcJobs, now' <= Deadline[j]
                 PROVE  rest'[j] = Cardinality(Missing(j)') + Cardinality(Notifications(j)')
      BY DEF GateAccounting, Missing, Notifications
    <2>1. rest[j] = Cardinality(Missing(j)) + Cardinality(Notifications(j))
      BY <1>1, <1>6, <1>7 DEF GateInv, GateAccounting, Missing, Notifications
    <2>2. \A e \in Notifications(j) : e \in AllEvents /\ e \in Underway /\ ForCalc(e)
      BY DEF Notifications, Underway, AllEvents, ForCalc
    <2>3. \A e \in Notifications(j) : Live(e)
      BY <1>1, <1>6, <2>2 DEF Notifications, GateInv, GateSupport, EventsAccurate, Live
    <2>4. Notifications(j)' = Notifications(j)
      BY <1>3, <1>7, <2>2, <2>3 DEF KeepsLive, Notifications
    <2> QED
      BY <1>2, <2>1, <2>4
  <1>8. ASSUME NoTermination, NoManifestations PROVE NoLostJob'
    <2> SUFFICES ASSUME NEW j \in posted' \cap CalcJobs, now' < Deadline[j], invoked'[j] = 0
                 PROVE  \/ \E e \in Underway' : e.verb = "POST" /\ e.job = j
                        \/ rest'[j] > 0
      BY DEF NoLostJob, IsHold
    <2>1. CASE j \notin posted
      BY <1>8, <2>1 DEF KeepsLive
    <2>2. CASE j \in posted
      <3>1. IsActivated(Man[j])
        BY <1>8 DEF NoManifestations, IsActivated
      <3>2. \/ \E e \in Underway : e.verb = "POST" /\ e.job = j
            \/ rest[j] > 0
        BY <1>1, <1>6, <1>8, <2>2, <3>1 DEF GateInv, NoLostJob, IsHold, KeepsGates
      <3>3. ASSUME NEW e \in Underway, e.verb = "POST", e.job = j
            PROVE  e \in Underway'
        <4>1. e \in AllEvents
          BY DEF Underway, AllEvents
        <4>2. Live(e)
          BY <1>1, <1>6, <3>1, <3>3, <4>1 DEF GateInv, GateSupport, EventsAccurate, Live
        <4> QED
          BY <1>8, <3>3, <4>2 DEF KeepsLive, ForCalc
      <3> QED
        BY <1>2, <3>2, <3>3
    <2> QED
      BY <2>1, <2>2
  <1> QED
    BY <1>4, <1>5, <1>7, <1>8

(* Together: such a step preserves the invariant. *)
LEMMA QuietStep ==
    ASSUME TypeOK, TypeOK', GateInv, PlacesPosts, KeepsGates, KeepsLive, KeepsWork
    PROVE  GateInv'
  BY QuietSupport, QuietGates DEF GateInv, KeepsLive

-----------------------------------------------------------------------------
(***************************************************************************)
(* The steps of workers.                                                   *)
(***************************************************************************)

(* Steps which move a worker ahead without touching any event. *)
LEMMA GateIdleStep ==
    ASSUME TypeOK, TypeOK', GateInv, NEW w \in Workers,
           \/ Peek(w) \/ Feed(w) \/ IncomingCapacity(w) \/ SampleTime(w)
           \/ OutgoingCapacity(w) \/ SleepWake(w) \/ WorkerPull(w) \/ WorkerIdleWake(w)
    PROVE  GateInv'
  <1> USE DEF Peek, Feed, IncomingCapacity, SampleTime, OutgoingCapacity, SleepWake,
              WorkerPull, WorkerIdleWake
  <1>1. UNCHANGED <<todo, gateVars, posted, finished, invoked, cpc, now, allowed>>
    BY DEF clientVars, history, envVars, queueVars
  <1>2. FedQueue' = FedQueue
    BY DEF queueVars, MaybeFeed, FeedPrioritisation, FedQueue
  <1>3. \A v \in Workers : pc'[v] \in {"dispatch", "working"} <=> pc[v] \in {"dispatch", "working"}
    BY DEF TypeOK, WorkerTypeOK, Goto, Returns, ScatteredDelay, PullWork, IdleWake
  <1>4. \A v \in Workers : pc'[v] = "dispatch" <=> pc[v] = "dispatch"
    BY DEF TypeOK, WorkerTypeOK, Goto, Returns, ScatteredDelay, PullWork, IdleWake
  <1>5. \A v \in Workers : pc'[v] = "find" => clk'[v] <= now'
    <2>1. CASE SampleTime(w)
      BY <2>1 DEF TypeOK, WorkerTypeOK, TaskTypeOK, EnvTypeOK, Goto, envVars,
                  GateInv, GateSupport, Retrieval
    <2>2. CASE ~SampleTime(w)
      <3>1. pc'[w] # "find"
        BY <2>2 DEF TypeOK, WorkerTypeOK, Goto, Returns, ScatteredDelay, PullWork, IdleWake
      <3>2. \A v \in Workers \ {w} : pc'[v] = pc[v] /\ clk'[v] = clk[v]
        BY DEF TypeOK, WorkerTypeOK, TaskTypeOK, Goto, Returns, ScatteredDelay, PullWork, IdleWake
      <3> QED
        BY <1>1, <3>1, <3>2 DEF GateInv, GateSupport, Retrieval
    <2> QED
      BY <2>1, <2>2
  <1>6. PlacesPosts
    BY <1>1, <1>2, <1>4 DEF PlacesPosts, AllEvents, Underway
  <1>7. KeepsGates
    BY <1>1 DEF KeepsGates, TypeOK, EnvTypeOK
  <1>8. KeepsLive
    <2>1. Underway' = Underway
      BY <1>1, <1>2, <1>4 DEF Underway
    <2> QED
      BY <1>1, <2>1 DEF KeepsLive, GateInv
  <1>9. KeepsWork
    BY <1>1, <1>3, <1>5 DEF KeepsWork
  <1> QED
    BY <1>6, <1>7, <1>8, <1>9, QuietStep

(* Retrieving an event, or finding none: only what is outdated is lost. *)
LEMMA GateFindWork ==
    ASSUME TypeOK, TypeOK', GateInv, NEW w \in Workers, FindWork(w)
    PROVE  GateInv'
  <1> USE DEF FindWork
  <1>1. UNCHANGED <<gateVars, posted, finished, invoked, cpc, now, allowed>>
    BY DEF clientVars, history, envVars, queueVars
  <1>2. clk[w] \in Int /\ now \in Int /\ clk[w] <= now
    BY DEF GateInv, GateSupport, Retrieval, TypeOK, TaskTypeOK, EnvTypeOK
  <1>3. \A e \in FedQueue : e.deadline \in Int
    BY DEF TypeOK, QueueTypeOK, FedQueue, ActivationEvent
  <1>4. KeepsGates
    BY <1>1 DEF KeepsGates, TypeOK, EnvTypeOK
  <1>5. \A v \in Workers : pc'[v] = "find" => clk'[v] <= now'
    <2>1. pc'[w] # "find" /\ \A v \in Workers \ {w} : pc'[v] = pc[v] /\ clk'[v] = clk[v]
      BY DEF Goto, Returns, TypeOK, WorkerTypeOK, TaskTypeOK
    <2> QED
      BY <1>1, <2>1 DEF GateInv, GateSupport, Retrieval
  <1>6. CASE \E e \in FedQueue : /\ FoundWork(w, clk[w], e)
                                 /\ todo' = [todo EXCEPT ![w] = {e}]
                                 /\ pc' = Goto(w, "dispatch")
    <2>1. PICK e \in FedQueue : /\ FoundWork(w, clk[w], e)
                                /\ todo' = [todo EXCEPT ![w] = {e}]
                                /\ pc' = Goto(w, "dispatch")
      BY <1>6
    <2>2. PICK q \in SUBSET FedQueue : /\ Consolidated(FedQueue, q, clk[w])
                                       /\ e \in HeadEntry(q, clk[w])
                                       /\ ~IsOutOfTime(e, clk[w])
                                       /\ priority' = q \ {e} /\ instruct' = {}
      BY <2>1 DEF FoundWork
    <2>3. IsActivated(e.manifestation)
      BY <2>2 DEF HeadEntry, Removable, IsOutdated
    <2>4. FedQueue' = q \ {e}
      BY <2>2 DEF FedQueue
    <2>5. /\ todo'[w] = {e} /\ pc'[w] = "dispatch" /\ pc[w] = "find"
          /\ \A v \in Workers \ {w} : todo'[v] = todo[v] /\ pc'[v] = pc[v]
      BY <2>1 DEF Goto, TypeOK, WorkerTypeOK, TaskTypeOK
    <2>6. AllEvents' \subseteq AllEvents
      BY <2>4, <2>5 DEF AllEvents
    <2>7. Underway' = q \cup UNION {todo[v] : v \in {u \in Workers : pc[u] = "dispatch"}}
      <3>1. e \in q
        BY <2>2 DEF HeadEntry, Top
      <3> QED
        BY <2>4, <2>5, <3>1 DEF Underway
    <2>8. PlacesPosts
      BY <2>6, <2>7 DEF PlacesPosts, Underway
    <2>9. KeepsLive
      <3>1. \A o \in FedQueue : Live(o) => o \in q
        BY <1>2, <1>3, <2>2, ConsolidatedKeeps
      <3>2. \A o \in Underway : Live(o) => o \in Underway'
        BY <2>7, <3>1 DEF Underway
      <3> QED
        BY <1>1, <3>2 DEF KeepsLive, GateInv
    <2>10. GateSupport'
      <3>1. GateDeadline' /\ EventsAccurate'
        BY <1>1, <2>6 DEF GateInv, GateSupport, GateDeadline, EventsAccurate, gateVars, IsActivated
      <3>2. Retrieval'
        BY <1>1, <1>5, <2>3, <2>5 DEF GateInv, GateSupport, Retrieval, IsActivated
      <3> QED
        BY <3>1, <3>2 DEF GateSupport
    <2> QED
      BY <1>4, <2>8, <2>9, <2>10, QuietGates DEF GateInv, KeepsLive
  <1>7. CASE (NothingDue(w, clk[w]) \/ Contention(w)) /\ Returns(w, "ret", "KICK") /\ UNCHANGED todo
    <2>1. FedQueue' \subseteq FedQueue /\ \A e \in FedQueue : Live(e) => e \in FedQueue'
      <3>1. CASE NothingDue(w, clk[w])
        <4>1. PICK q \in SUBSET FedQueue : /\ Consolidated(FedQueue, q, clk[w])
                                           /\ priority' = q /\ instruct' = {}
          BY <3>1 DEF NothingDue
        <4>2. FedQueue' = q
          BY <4>1 DEF FedQueue
        <4> QED
          BY <1>2, <1>3, <4>1, <4>2, ConsolidatedKeeps
      <3>2. CASE Contention(w)
        BY <3>2 DEF Contention, FedQueue
      <3> QED
        BY <1>7, <3>1, <3>2
    <2>2. pc'[w] = "ret" /\ \A v \in Workers \ {w} : pc'[v] = pc[v]
      BY <1>7 DEF Goto, Returns, TypeOK, WorkerTypeOK
    <2>3. PlacesPosts
      BY <1>7, <2>1, <2>2 DEF PlacesPosts, AllEvents, Underway
    <2>4. KeepsLive
      <3>1. \A o \in Underway : Live(o) => o \in Underway'
        BY <1>7, <2>1, <2>2 DEF Underway
      <3> QED
        BY <1>1, <3>1 DEF KeepsLive, GateInv
    <2>5. KeepsWork
      BY <1>5, <1>7, <2>2 DEF KeepsWork
    <2> QED
      BY <1>4, <2>3, <2>4, <2>5, QuietStep
  <1> QED
    BY <1>6, <1>7

(* The duty cycle places a new »tick« and spares what is in time. *)
LEMMA GateTick ==
    ASSUME TypeOK, TypeOK', InvocationInv, GateInv, NEW w \in Workers, DispatchTick(w)
    PROVE  GateInv'
  <1> USE DEF DispatchTick
  <1>1. UNCHANGED <<gateVars, posted, finished, invoked, cpc, now, allowed, clk>>
    BY DEF clientVars, history
  <1>2. \A e \in FedQueue' : e \in FedQueue \/ PostOrTick(e)
    <2>1. \A e \in FedQueue' : \/ e \in FedQueue \cup {}
                               \/ e.verb = "TICK" /\ e.job = NoJob
      BY DutyCycleTicks
    <2> QED
      BY <2>1, NoJobNoCalc DEF PostOrTick
  <1>3. \A e \in FedQueue : Live(e) => e \in FedQueue'
    <2>1. now \in Int /\ now <= now
      BY DEF TypeOK, EnvTypeOK
    <2>2. DutyCycle(now, FALSE, {})
      OBVIOUS
    <2> QED
      BY <2>1, <2>2, DutyCycleKeeps
  <1>4. PICK S \in UpdateState : Launch(S, Goto(w, "peekOut"))
    OBVIOUS
  <1>5. /\ todo'[w] = {} /\ \A v \in Workers \ {w} : todo'[v] = todo[v]
        /\ \A v \in Workers : pc'[v] # pc[v] => pc'[v] \in {"peekIn", "peekOut"}
        /\ \A v \in Workers \ {w} : pc[v] = "dispatch" => pc'[v] = pc[v]
    <2>1. \A v \in S : pc[v] = "off"
      BY <1>4, LaunchedOff
    <2> QED
      BY <1>4, <2>1 DEF Launch, Goto, TypeOK, WorkerTypeOK, TaskTypeOK
  <1>6. PlacesPosts
    BY <1>2, <1>5 DEF PlacesPosts, AllEvents, Underway
  <1>7. KeepsLive
    <2>1. \A e \in todo[w] : ~ForCalc(e)
      BY DEF ForCalc, TypeOK, TaskTypeOK
    <2>2. \A e \in Underway : ForCalc(e) /\ Live(e) => e \in Underway'
      BY <1>3, <1>5, <2>1 DEF Underway
    <2> QED
      BY <1>1, <2>2 DEF KeepsLive, GateInv
  <1>8. KeepsGates
    BY <1>1 DEF KeepsGates, TypeOK, EnvTypeOK
  <1>9. KeepsWork
    BY <1>1, <1>5 DEF KeepsWork, GateInv, GateSupport, Retrieval
  <1> QED
    BY <1>6, <1>7, <1>8, <1>9, QuietStep

(* A meta job places the POST of every job handed over, even if it fails. *)
LEMMA GateMeta ==
    ASSUME TypeOK, TypeOK', InvocationInv, GateInv, NEW w \in Workers,
           DispatchMeta(w) \/ FailMeta(w)
    PROVE  GateInv'
  <1>1. PICK m, placed, l : Invokes(w, m, placed, l)
    BY MetaInvoked
  <1> USE DEF Invokes, InvokeMeta, PlaceJobs
  <1>2. PICK e \in todo[w] : e.verb = "POST" /\ e.job = m
    BY <1>1
  <1>3. m \notin CalcJobs
    BY <1>1, JobAssumption
  <1>4. /\ posted' = posted \cup placed /\ finished' \in {finished, finished \cup {m}}
        /\ invoked' = [invoked EXCEPT ![m] = @ + 1]
        /\ UNCHANGED <<gateVars, cpc, now, allowed, clk>>
    BY <1>1 DEF clientVars
  <1>5. \A n \in NewEvents(placed) : PostOrTick(n)
    BY DEF NewEvents, JobEvent, MetaEvent, PostOrTick
  <1>6. \A o \in FedQueue' : o \in FedQueue \/ PostOrTick(o)
    <2>1. CASE DutyCycle(now, TRUE, NewEvents(placed))
      <3>1. \A o \in FedQueue' : \/ o \in FedQueue \cup NewEvents(placed)
                                 \/ o.verb = "TICK" /\ o.job = NoJob
        BY <2>1, DutyCycleTicks
      <3> QED
        BY <1>5, <3>1, NoJobNoCalc DEF PostOrTick
    <2>2. CASE PostChain(w, NewEvents(placed))
      BY <1>5, <2>2 DEF PostChain, Instruct, FedQueue
    <2> QED
      BY <1>1, <2>1, <2>2
  <1>7. /\ \A o \in FedQueue : Live(o) => o \in FedQueue'
        /\ NewEvents(placed) \subseteq FedQueue'
    <2>1. CASE IsEmpty /\ DutyCycle(now, TRUE, NewEvents(placed))
      <3>1. now \in Int /\ now <= now
        BY DEF TypeOK, EnvTypeOK
      <3> QED
        BY <2>1, <3>1, DutyCycleKeeps
    <2>2. CASE PostChain(w, NewEvents(placed))
      BY <2>2 DEF PostChain, Instruct, FedQueue
    <2> QED
      BY <1>1, <2>1, <2>2
  <1>8. PICK S : S \subseteq Workers \ pool /\ Launch(S, Goto(w, l))
    BY <1>1, AddedWorkers DEF ActivateSets, IncScaleSets
  <1>9. /\ todo'[w] = {} /\ \A v \in Workers \ {w} : todo'[v] = todo[v]
        /\ \A v \in Workers : pc'[v] # pc[v] => pc'[v] \in {"peekIn", "peekOut", "ret"}
        /\ \A v \in Workers \ {w} : pc[v] = "dispatch" => pc'[v] = pc[v]
    BY <1>1, <1>8 DEF Launch, Goto, TypeOK, WorkerTypeOK, TaskTypeOK
  <1>10. PlacesPosts
    BY <1>6, <1>9 DEF PlacesPosts, AllEvents, Underway
  <1>11. KeepsLive
    <2>1. \A o \in todo[w] : ~ForCalc(o)
      BY <1>2, <1>3 DEF ForCalc, TypeOK, TaskTypeOK
    <2>2. \A o \in Underway : ForCalc(o) /\ Live(o) => o \in Underway'
      BY <1>7, <1>9, <2>1 DEF Underway
    <2>3. ASSUME NEW j \in (posted' \ posted) \cap CalcJobs
          PROVE  \E o \in Underway' : o.verb = "POST" /\ o.job = j
      <3>1. JobEvent(j) \in NewEvents(placed)
        BY <1>4, <2>3 DEF NewEvents
      <3> QED
        BY <1>7, <3>1, EventFields DEF Underway
    <2> QED
      BY <1>4, <2>2, <2>3 DEF KeepsLive, GateInv
  <1>12. KeepsGates
    BY <1>3, <1>4 DEF KeepsGates, TypeOK, EnvTypeOK
  <1>13. KeepsWork
    BY <1>4, <1>9 DEF KeepsWork, GateInv, GateSupport, Retrieval
  <1> QED
    BY <1>10, <1>11, <1>12, <1>13, QuietStep

(* A failing job notifies nobody. *)
LEMMA GateFail ==
    ASSUME TypeOK, TypeOK', InvocationInv, GateInv, NEW w \in Workers, FailJob(w)
    PROVE  GateInv'
  <1> USE DEF FailJob
  <1>1. UNCHANGED <<gateVars, posted, finished, invoked, cpc, now, allowed, clk>> /\ FedQueue' = FedQueue
    BY DEF clientVars, envVars, queueVars, history, FedQueue
  <1>2. /\ todo'[w] = {} /\ \A v \in Workers \ {w} : todo'[v] = todo[v]
        /\ pc'[w] = "ret" /\ \A v \in Workers \ {w} : pc'[v] = pc[v]
    BY DEF Returns, Goto, TypeOK, WorkerTypeOK, TaskTypeOK
  <1>3. PlacesPosts
    BY <1>1, <1>2 DEF PlacesPosts, AllEvents, Underway
  <1>5. KeepsLive
    <2>1. \A o \in Underway : ForCalc(o) => o \in Underway'
      BY <1>1, <1>2 DEF Underway
    <2> QED
      BY <1>1, <2>1 DEF KeepsLive, GateInv
  <1>6. KeepsGates
    BY <1>1 DEF KeepsGates, TypeOK, EnvTypeOK
  <1>7. KeepsWork
    BY <1>1, <1>2 DEF KeepsWork, GateInv, GateSupport, Retrieval
  <1> QED
    BY <1>3, <1>5, <1>6, <1>7, QuietStep

(* Where a Gate is checked: what has been counted is checked off, and an   *)
(* invocation finds nothing left to wait for.                              *)
LEMMA GateCalc ==
    ASSUME TypeOK, TypeOK', InvocationInv, GateInv, NEW w \in Workers, DispatchCalc(w)
    PROVE  GateInv'
  <1>e. PICK e \in todo[w] : DispatchCalc(w)!2!(e)
    BY DEF DispatchCalc
  <1>j. PICK j \in CalcJobs : j = e.job
    BY <1>e
  <1> DEFINE Opens == \/ e.verb = "POST" /\ CheckGate(j, now)
                      \/ e.verb = "GATE" /\ NotificationOpens(j, now)
  <1>1. /\ \/ e.verb = "POST" /\ UNCHANGED gateVars
           \/ e.verb = "GATE" /\ ReceiveGateNotification(j, now)
        /\ Opens  => /\ invoked' = [invoked EXCEPT ![j] = @ + 1]
                     /\ pc' = Goto(w, "working") /\ UNCHANGED todo
        /\ ~Opens => /\ UNCHANGED invoked
                     /\ pc' = Goto(w, "peekOut") /\ todo' = [todo EXCEPT ![w] = {}]
    BY <1>e, <1>j
  <1>2. e.job = j /\ pc[w] = "dispatch" /\ e \in Underway /\ todo[w] = {e}
    BY <1>j DEF DispatchCalc, Underway, TypeOK, TaskTypeOK
  <1>3. UNCHANGED <<posted, finished, now, allowed, clk, cpc>> /\ FedQueue' = FedQueue
    BY DEF DispatchCalc, queueVars, clientVars, envVars, FedQueue
  <1>4. /\ now \in Nat /\ rest[j] \in Nat /\ gateDead[j] \in Int /\ Deadline[j] \in Int
        /\ invoked \in [Jobs -> Nat] /\ invoked[j] \in Nat
    <2>1. now \in Nat /\ invoked \in [Jobs -> Nat]
      BY DEF TypeOK, EnvTypeOK
    <2>2. CalcJobs \subseteq Jobs /\ rest[j] \in Nat /\ gateDead[j] \in Int /\ Deadline[j] \in Int
      BY JobAssumption DEF TypeOK, GateTypeOK, Jobs
    <2> QED
      BY <2>1, <2>2
  <1>i. /\ invoked'[j] = IF Opens THEN invoked[j] + 1 ELSE invoked[j]
        /\ \A k \in CalcJobs \ {j} : invoked'[k] = invoked[k]
    <2> HIDE DEF Opens
    <2>1. CalcJobs \subseteq Jobs
      BY DEF Jobs
    <2>2. CASE Opens
      BY <1>1, <1>4, <2>1, <2>2
    <2>3. CASE ~Opens
      BY <1>1, <2>3
    <2> QED
      BY <2>2, <2>3
  <1>5. /\ \A v \in Workers : todo'[v] \subseteq todo[v]
        /\ pc'[w] \in {"working", "peekOut"}
        /\ \A v \in Workers \ {w} : todo'[v] = todo[v] /\ pc'[v] = pc[v]
    BY <1>1 DEF Goto, TypeOK, WorkerTypeOK, TaskTypeOK
  <1>6. Underway' = Underway \ {e}
    <2>1. e \notin FedQueue /\ \A v \in Workers \ {w} : e \notin todo[v]
      BY DEF InvocationInv, EventsInOnePlace
    <2> QED
      BY <1>2, <1>3, <1>5, <2>1 DEF Underway
  <1>7. AllEvents' \subseteq AllEvents
    BY <1>3, <1>5 DEF AllEvents
  <1>8. \A k \in CalcJobs \ {j} : /\ rest'[k] = rest[k] /\ gateDead'[k] = gateDead[k]
                                 /\ invoked'[k] = invoked[k]
                                 /\ Notifications(k)' = Notifications(k)
    <2>1. \A k \in CalcJobs \ {j} : rest'[k] = rest[k] /\ gateDead'[k] = gateDead[k]
      BY <1>1 DEF ReceiveGateNotification, gateVars, TypeOK, GateTypeOK
    <2>2. \A k \in CalcJobs \ {j} : invoked'[k] = invoked[k]
      BY <1>i
    <2>3. \A k \in CalcJobs \ {j} : Notifications(k)' = Notifications(k)
      BY <1>2, <1>6 DEF Notifications
    <2> QED
      BY <2>1, <2>2, <2>3
  <1>9. \A k \in CalcJobs : Missing(k)' = Missing(k)
    BY <1>3 DEF Missing
  <1> DEFINE M == Cardinality(Missing(j))
             L == Cardinality(Notifications(j))
  <1>10. /\ M \in Nat /\ L \in Nat /\ rest[j] >= M + L /\ IsFiniteSet(Notifications(j))
    BY PrerequisitesFinite, FS_CardinalityType DEF GateInv, GateBound, Missing
  <1>11. invoked[j] = 0 /\ gateDead[j] <= now => now >= Deadline[j]
    BY <1>4 DEF GateInv, GateSupport, GateDeadline
  <1>12. /\ IsFiniteSet(Notifications(j)')
         /\ Cardinality(Notifications(j)') = L - (rest[j] - rest'[j])
         /\ rest'[j] = IF e.verb = "GATE" THEN rest[j] - 1 ELSE rest[j]
         /\ e.verb = "GATE" => L >= 1
    <2>1. CASE e.verb = "POST" /\ UNCHANGED gateVars
      <3>1. Notifications(j)' = Notifications(j) /\ rest'[j] = rest[j]
        BY <1>6, <2>1 DEF Notifications, gateVars
      <3> QED
        BY <1>4, <1>10, <2>1, <3>1
    <2>2. CASE e.verb = "GATE" /\ ReceiveGateNotification(j, now)
      <3>1. e \in Notifications(j) /\ Notifications(j)' = Notifications(j) \ {e}
        BY <1>2, <1>6, <2>2 DEF Notifications
      <3>2. /\ IsFiniteSet(Notifications(j)') /\ L >= 1
            /\ Cardinality(Notifications(j)') = L - 1
        BY <1>10, <3>1, CountRemove
      <3>3. rest'[j] = rest[j] - 1
        BY <1>4, <1>10, <2>2, <3>2 DEF ReceiveGateNotification, TypeOK, GateTypeOK
      <3> QED
        BY <1>4, <1>10, <2>2, <3>2, <3>3
    <2> QED
      BY <1>1, <2>1, <2>2
  <1> HIDE DEF M, L
  <1>13. GateBound'
    <2>1. rest'[j] >= Cardinality(Missing(j)') + Cardinality(Notifications(j)')
      BY <1>4, <1>9, <1>10, <1>12 DEF M
    <2> QED
      BY <1>8, <1>9, <1>12, <2>1 DEF GateInv, GateBound
  <1>14. ASSUME Opens PROVE Pred[j] \subseteq finished
    <2>1. M = 0
      BY <1>4, <1>10, <1>12, <1>14 DEF CheckGate, IsHold, NotificationOpens
    <2>2. Missing(j) = {}
      BY <2>1, PrerequisitesFinite, FS_EmptySet DEF M, Missing
    <2> QED
      BY <2>2 DEF Missing
  <1>15. PrerequisitesFirst'
    <2>1. invoked'[j] > 0 => Pred[j] \subseteq finished
      BY <1>1, <1>14 DEF GateInv, PrerequisitesFirst
    <2> QED
      BY <1>3, <1>8, <2>1 DEF GateInv, PrerequisitesFirst
  <1>16. ASSUME NoTermination PROVE GateAccounting'
    <2>1. now <= Deadline[j] => rest'[j] = Cardinality(Missing(j)') + Cardinality(Notifications(j)')
      <3>1. now <= Deadline[j] => rest[j] = M + L
        BY <1>16 DEF GateInv, GateAccounting, Missing, Notifications, M, L
      <3> QED
        BY <1>4, <1>9, <1>10, <1>12, <3>1 DEF M
    <2>2. \A k \in CalcJobs \ {j} : now <= Deadline[k] =>
             rest'[k] = Cardinality(Missing(k)') + Cardinality(Notifications(k)')
      BY <1>8, <1>9, <1>16 DEF GateInv, GateAccounting, Missing, Notifications
    <2> QED
      BY <1>3, <2>1, <2>2 DEF GateAccounting, Missing, Notifications
  <1>17. ASSUME NoTermination, NoManifestations PROVE NoLostJob'
    <2> SUFFICES ASSUME NEW k \in posted \cap CalcJobs, now < Deadline[k], invoked'[k] = 0
                 PROVE  \/ \E o \in Underway' : o.verb = "POST" /\ o.job = k
                        \/ rest'[k] > 0
      BY <1>3 DEF NoLostJob, IsHold
    <2>1. IsActivated(Man[k])
      BY <1>17 DEF NoManifestations, IsActivated
    <2>2. invoked[k] = 0
      BY <1>1, <1>4, <1>8
    <2>3. \/ \E o \in Underway : o.verb = "POST" /\ o.job = k
          \/ rest[k] > 0
      BY <1>17, <2>1, <2>2 DEF GateInv, NoLostJob, IsHold
    <2>4. CASE k # j
      <3>1. \A o \in Underway : o.job = k => o \in Underway'
        BY <1>2, <1>6, <2>4
      <3> QED
        BY <1>8, <2>3, <2>4, <3>1
    <2>5. CASE k = j
      <3>1. ~Opens /\ gateDead[j] > now
        <4> HIDE DEF Opens
        <4> QED
          BY <1>i, <1>4, <1>11, <2>2, <2>5
      <3>2. CASE e.verb = "POST"
        BY <1>4, <1>12, <2>5, <3>1, <3>2 DEF CheckGate, IsDead, IsHold
      <3>3. CASE e.verb = "GATE"
        <4>1. rest[j] # 1
          BY <1>4, <3>1, <3>3 DEF NotificationOpens, IsDead
        <4>2. rest[j] >= 1
          BY <1>4, <1>10, <1>12, <3>3
        <4> QED
          BY <1>4, <1>12, <2>5, <3>3, <4>1, <4>2
      <3> QED
        BY <1>1, <3>2, <3>3
    <2> QED
      BY <2>4, <2>5
  <1>18. GateSupport'
    <2>1. GateDeadline'
      <3>1. gateDead'[j] = gateDead[j] \/ (gateDead'[j] = ANYTIME /\ Opens)
        <4>1. CASE UNCHANGED gateVars
          BY <4>1 DEF gateVars
        <4>2. CASE e.verb = "GATE" /\ ReceiveGateNotification(j, now)
          BY <4>2 DEF ReceiveGateNotification, TypeOK, GateTypeOK
        <4> QED
          BY <1>1, <4>1, <4>2
      <3>2. invoked'[j] >= invoked[j] /\ (Opens => invoked'[j] > 0)
        <4> HIDE DEF Opens
        <4> QED
          BY <1>i, <1>4
      <3>3. invoked'[j] \in Nat
        BY DEF TypeOK, EnvTypeOK, Jobs
      <3> QED
        BY <1>4, <1>8, <3>1, <3>2, <3>3 DEF GateInv, GateSupport, GateDeadline
    <2>2. EventsAccurate'
      BY <1>3, <1>7 DEF GateInv, GateSupport, EventsAccurate, IsActivated
    <2>3. Retrieval'
      BY <1>2, <1>3, <1>5 DEF GateInv, GateSupport, Retrieval, IsActivated
    <2> QED
      BY <2>1, <2>2, <2>3 DEF GateSupport
  <1> QED
    BY <1>3, <1>13, <1>15, <1>16, <1>17, <1>18 DEF GateInv

(* A finished job is no longer waited for, yet its notification is. *)
LEMMA GateFinish ==
    ASSUME TypeOK, TypeOK', InvocationInv, GateInv, NEW w \in Workers, FinishJob(w)
    PROVE  GateInv'
  <1> USE DEF FinishJob
  <1>1. PICK e \in todo[w] : FinishJob(w)!2!(e)
    OBVIOUS
  <1>2. PICK k \in CalcJobs : k = e.job
    BY DEF TypeOK, TaskTypeOK
  <1>3. e \in ActivationEvent /\ k \notin finished /\ pc[w] = "working"
    BY <1>2 DEF TypeOK, TaskTypeOK, InvocationInv, WorkedOnce
  <1>4. finished' = finished \cup {k} /\ UNCHANGED <<gateVars, posted, invoked, cpc, now, allowed, clk>>
    BY <1>1, <1>2 DEF clientVars, envVars
  <1> DEFINE R(j) == RefineToGate(e, j, k)
             N == {R(j) : j \in Succ(k)}
  <1>5. \A j \in Succ(k) : /\ j \in CalcJobs /\ k \in Missing(j)
                           /\ R(j).verb = "GATE" /\ R(j).job = j /\ R(j).tag = k
                           /\ R(j).manifestation = e.manifestation
                           /\ R(j).deadline = IF IsRegular(gateDead[j]) THEN gateDead[j] ELSE e.deadline
    BY <1>3 DEF Succ, Missing, RefineToGate, ActivationEvent
  <1>6. \A j \in Succ(k) : R(j) \notin AllEvents
    BY <1>3, <1>5 DEF InvocationInv, NotifiedByFinished
  <1>7. FedQueue' = FedQueue \cup N
    BY <1>1, <1>2 DEF PostChain, Instruct, FedQueue
  <1>8. /\ todo'[w] = {} /\ pc'[w] = "peekOut"
        /\ \A v \in Workers \ {w} : todo'[v] = todo[v] /\ pc'[v] = pc[v]
    BY DEF Goto, TypeOK, WorkerTypeOK, TaskTypeOK
  <1> HIDE DEF R
  <1>9. Underway' = Underway \cup N /\ AllEvents' \subseteq AllEvents \cup N
    BY <1>3, <1>7, <1>8 DEF Underway, AllEvents
  <1>10. \A j \in CalcJobs : /\ rest'[j] = rest[j] /\ rest[j] \in Nat /\ Deadline[j] \in Int
                             /\ Cardinality(Missing(j)) \in Nat
                             /\ IsFiniteSet(Missing(j)) /\ IsFiniteSet(Notifications(j))
                             /\ Cardinality(Notifications(j)) \in Nat
                             /\ rest[j] >= Cardinality(Missing(j)) + Cardinality(Notifications(j))
    BY <1>4, PrerequisitesFinite, FS_CardinalityType, JobAssumption
       DEF GateInv, GateBound, Missing, gateVars, TypeOK, GateTypeOK
  <1>11. ASSUME NEW j \in CalcJobs \ Succ(k)
         PROVE  Missing(j)' = Missing(j) /\ Notifications(j)' = Notifications(j)
    <2>1. Missing(j)' = Missing(j)
      BY <1>4 DEF Missing, Succ
    <2>2. \A n \in N : n.job # j
      BY <1>5
    <2> QED
      BY <1>9, <2>1, <2>2 DEF Notifications
  <1>12. ASSUME NEW j \in Succ(k)
         PROVE  /\ IsFiniteSet(Notifications(j)')
                /\ Cardinality(Missing(j)') = Cardinality(Missing(j)) - 1
                /\ Cardinality(Notifications(j)') = Cardinality(Notifications(j)) + 1
                /\ Cardinality(Missing(j)) >= 1
    <2>1. Missing(j)' = Missing(j) \ {k} /\ k \in Missing(j)
      BY <1>4, <1>5 DEF Missing
    <2>2. \A n \in N : n.job = j <=> n = R(j)
      BY <1>5
    <2>3. R(j) \in N /\ R(j).verb = "GATE" /\ R(j).job = j
      BY <1>5
    <2>4. Notifications(j)' = Notifications(j) \cup {R(j)}
      BY <1>9, <2>2, <2>3 DEF Notifications
    <2>5. R(j) \notin Notifications(j)
      BY <1>6 DEF Notifications, Underway, AllEvents
    <2>6. IsFiniteSet(Missing(j)) /\ IsFiniteSet(Notifications(j))
      BY <1>5, <1>10
    <2>7. Cardinality(Missing(j)') = Cardinality(Missing(j)) - 1 /\ Cardinality(Missing(j)) >= 1
      BY <2>1, <2>6, CountRemove
    <2>8. IsFiniteSet(Notifications(j)') /\ Cardinality(Notifications(j)') = Cardinality(Notifications(j)) + 1
      BY <2>4, <2>5, <2>6, FS_AddElement
    <2> QED
      BY <2>7, <2>8
  <1>13. GateBound'
    <2> SUFFICES ASSUME NEW j \in CalcJobs
                 PROVE  /\ IsFiniteSet(Notifications(j)')
                        /\ rest'[j] >= Cardinality(Missing(j)') + Cardinality(Notifications(j)')
      BY DEF GateBound
    <2> QED
      BY <1>10, <1>11, <1>12
  <1>14. PrerequisitesFirst'
    BY <1>4 DEF GateInv, PrerequisitesFirst
  <1>15. ASSUME NoTermination PROVE GateAccounting'
    <2> SUFFICES ASSUME NEW j \in CalcJobs, now <= Deadline[j]
                 PROVE  rest'[j] = Cardinality(Missing(j)') + Cardinality(Notifications(j)')
      BY <1>4 DEF GateAccounting, Missing, Notifications
    <2>1. rest[j] = Cardinality(Missing(j)) + Cardinality(Notifications(j))
      BY <1>15 DEF GateInv, GateAccounting, Missing, Notifications
    <2> QED
      BY <1>10, <1>11, <1>12, <2>1
  <1>16. ASSUME NoTermination, NoManifestations PROVE NoLostJob'
    BY <1>4, <1>9, <1>16 DEF GateInv, NoLostJob, IsHold, IsActivated, gateVars
  <1>17. GateSupport'
    <2>1. GateDeadline'
      BY <1>4 DEF GateInv, GateSupport, GateDeadline, gateVars
    <2>2. ASSUME NEW j \in Succ(k)
          PROVE  R(j).deadline = Deadline[j] /\ IsActivated(R(j).manifestation)
      <3>1. j \in CalcJobs /\ rest[j] # 0
        BY <1>5, <1>10, <1>12
      <3>2. ~(invoked[j] > 0)
        BY <3>1 DEF InvocationInv, GateRemembers
      <3>3. gateDead[j] = Deadline[j] /\ IsRegular(Deadline[j])
        BY <3>1, <3>2, JobAssumption DEF GateInv, GateSupport, GateDeadline
      <3>4. IsActivated(e.manifestation)
        BY <1>3 DEF GateInv, GateSupport, Retrieval
      <3> QED
        BY <1>5, <3>3, <3>4
    <2>3. EventsAccurate'
      <3>1. \A n \in N : /\ n.verb = "GATE" /\ n.deadline = Deadline[n.job]
                         /\ IsActivated(n.manifestation)
        BY <1>5, <2>2
      <3>2. \A man : IsActivated(man)' = IsActivated(man)
        BY <1>4 DEF IsActivated
      <3> QED
        BY <1>9, <3>1, <3>2 DEF GateInv, GateSupport, EventsAccurate
    <2>4. Retrieval'
      BY <1>4, <1>8 DEF GateInv, GateSupport, Retrieval, IsActivated
    <2> QED
      BY <2>1, <2>3, <2>4 DEF GateSupport
  <1> QED
    BY <1>4, <1>13, <1>14, <1>15, <1>16, <1>17 DEF GateInv

-----------------------------------------------------------------------------
(***************************************************************************)
(* The steps of clients, and the time.                                     *)
(***************************************************************************)

(* what such a step does to the workers: launching and pruning *)
WorkForceOnly ==
    /\ UNCHANGED <<todo, gateVars, finished, invoked, clk>>
    /\ \A v \in Workers : pc'[v] # pc[v] => /\ pc[v] \in {"off", "dead"}
                                           /\ pc'[v] \in {"off", "peekIn"}

(* Whoever places POST and »tick« events and drops only what is outdated. *)
LEMMA GateOutside ==
    ASSUME TypeOK, TypeOK', GateInv, WorkForceOnly, now' >= now, allowed \subseteq allowed',
           \A e \in FedQueue' : e \in FedQueue \/ PostOrTick(e),
           NoTermination =>
              /\ \A e \in FedQueue : Live(e) => e \in FedQueue'
              /\ \A j \in (posted' \ posted) \cap CalcJobs :
                    \E e \in FedQueue' : e.verb = "POST" /\ e.job = j
              /\ \A c \in Clients : cpc'[c] # "down"
    PROVE  GateInv'
  <1>1. \A v \in Workers : pc'[v] = "dispatch" <=> pc[v] = "dispatch"
    BY DEF WorkForceOnly
  <1>3. \A e \in Underway : e \in FedQueue \/ e \in Underway'
    BY <1>1 DEF Underway, WorkForceOnly
  <1>4. PlacesPosts
    BY <1>1 DEF PlacesPosts, Underway, AllEvents, WorkForceOnly
  <1>5. KeepsLive
    BY <1>3 DEF KeepsLive, Underway
  <1>6. KeepsGates
    BY DEF KeepsGates, WorkForceOnly
  <1>7. KeepsWork
    <2>1. \A v \in Workers : clk[v] \in Int /\ now \in Int /\ now' \in Int
      BY DEF TypeOK, TaskTypeOK, EnvTypeOK
    <2> QED
      BY <2>1 DEF KeepsWork, WorkForceOnly, GateInv, GateSupport, Retrieval
  <1> QED
    BY <1>4, <1>5, <1>6, <1>7, QuietStep

(* A client waiting for the token to ignite has asked for the time before. *)
AskedBefore == \A c \in Clients : asked[c] <= now

(* The time at which a client ignites is never ahead of the clock. *)
LEMMA ClientsAsked == Spec => []AskedBefore
  <1>1. Init => AskedBefore
    BY DEF Init, AskedBefore
  <1>2. TypeOK /\ AskedBefore /\ [Next]_vars => AskedBefore'
    <2> SUFFICES ASSUME TypeOK, AskedBefore, [Next]_vars
                 PROVE  AskedBefore'
      OBVIOUS
    <2> USE DEF TypeOK, ClientTypeOK, EnvTypeOK, AskedBefore
    <2>1. ASSUME NEW w \in Workers, WorkerStep(w)
          PROVE  UNCHANGED <<asked, now>>
      BY <2>1 DEF WorkerStep, Peek, Feed, IncomingCapacity, SampleTime, FindWork, DispatchTick,
                  DispatchMeta, FailMeta, InvokeMeta, DispatchCalc, FinishJob, FailJob,
                  OutgoingCapacity, SleepWake, WorkerPull, WorkerIdleWake, clientVars, envVars
    <2>2. ASSUME NEW c \in Clients, ClientStep(c)
          PROVE  /\ now' = now
                 /\ \E t \in {asked[c], now, 0} : asked' = [asked EXCEPT ![c] = t]
      <3>1. CASE MaybeScaleWorkForce(c)
        BY <3>1 DEF MaybeScaleWorkForce, envVars
      <3>2. CASE Ignite(c)
        BY <3>2 DEF Ignite
      <3>3. CASE ~MaybeScaleWorkForce(c) /\ ~Ignite(c)
        BY <2>2, <3>3 DEF ClientStep, SeedCalcStream, RequireGroomingToken, SeedMetaJob,
              ActivateWorkForce, PostJob, GetLoadIndicator, TerminateProcessing, AwaitShutdown,
              clientVars, envVars
      <3> QED
        BY <3>1, <3>2, <3>3
    <2>3. CASE Clock \/ UNCHANGED vars
      BY <2>3 DEF Clock, vars, clientVars, envVars
    <2> QED
      BY <2>1, <2>2, <2>3 DEF Next
  <1> QED
    BY <1>1, <1>2, TypeCorrect, PTL DEF Spec

(* Launching affects no worker that has been at work. *)
LEMMA LaunchOutside ==
    ASSUME TypeOK, NEW S \in SUBSET (Workers \ pool), Launch(S, pc)
    PROVE  \A v \in Workers : pc'[v] # pc[v] => pc[v] = "off" /\ pc'[v] = "peekIn"
  BY DEF Launch, TypeOK, WorkerTypeOK

(* Every step of a client preserves the invariant. *)
LEMMA GateClientStep ==
    ASSUME TypeOK, TypeOK', InvocationInv, GateInv, AskedBefore, NEW c \in Clients,
           ClientStep(c)
    PROVE  GateInv'
  <1>t. cpc \in [Clients -> ClientPC] /\ now \in Int
    BY DEF TypeOK, ClientTypeOK, EnvTypeOK
  <1>d. NoTermination => \A d \in Clients : cpc[d] # "down"
    BY DEF GateInv
  <1>1. CASE \/ SeedCalcStream(c) \/ MaybeScaleWorkForce(c) \/ RequireGroomingToken(c)
             \/ ActivateWorkForce(c) \/ GetLoadIndicator(c)
    <2> USE DEF SeedCalcStream, MaybeScaleWorkForce, RequireGroomingToken, ActivateWorkForce,
                GetLoadIndicator
    <2>1. /\ UNCHANGED <<todo, gateVars, finished, invoked, clk, posted, now, allowed>>
          /\ FedQueue' = FedQueue
      BY <1>1 DEF queueVars, history, clientVars, envVars, FedQueue
    <2>2. \A d \in Clients : cpc'[d] # cpc[d] => cpc'[d] # "down"
      BY <1>1, <1>t DEF clientVars
    <2>3. WorkForceOnly
      <3>1. CASE SeedCalcStream(c) \/ RequireGroomingToken(c)
        BY <2>1, <3>1 DEF WorkForceOnly, workerVars
      <3>2. CASE GetLoadIndicator(c)
        BY <2>1, <3>2 DEF WorkForceOnly, Prune, Dead, TypeOK, WorkerTypeOK
      <3>3. CASE MaybeScaleWorkForce(c) \/ ActivateWorkForce(c)
        <4>1. PICK S \in SUBSET (Workers \ pool) : Launch(S, pc)
          BY <3>3, AddedWorkers DEF ActivateSets, EnsureCapacity, IncScaleSets
        <4> QED
          BY <2>1, <4>1, LaunchOutside DEF WorkForceOnly
      <3> QED
        BY <1>1, <3>1, <3>2, <3>3
    <2> QED
      BY <1>d, <1>t, <2>1, <2>2, <2>3, GateOutside
  <1>2. CASE Ignite(c)
    <2> USE <1>2 DEF Ignite
    <2>1. UNCHANGED <<todo, gateVars, finished, invoked, clk, posted, now, allowed>>
      BY DEF history
    <2>2. \A d \in Clients : cpc'[d] # cpc[d] => cpc'[d] # "down"
      BY <1>t
    <2>3. /\ \A e \in FedQueue : Live(e) => e \in FedQueue'
          /\ \A e \in FedQueue' : e \in FedQueue \/ PostOrTick(e)
      <3>0. asked[c] \in Int /\ asked[c] <= now
        BY DEF AskedBefore, TypeOK, ClientTypeOK
      <3>1. PICK time, force : /\ DutyCycle(time, force, {})
                               /\ time \in Int /\ time <= now
        BY <3>0
      <3>2. \A e \in FedQueue' : \/ e \in FedQueue \cup {}
                                 \/ e.verb = "TICK" /\ e.job = NoJob
        BY <3>1, DutyCycleTicks
      <3> QED
        BY <3>1, <3>2, NoJobNoCalc, DutyCycleKeeps DEF PostOrTick
    <2>4. WorkForceOnly
      <3>1. PICK S \in SUBSET (Workers \ pool) : Launch(S, pc)
        BY LaunchedOff
      <3> QED
        BY <2>1, <3>1, LaunchOutside DEF WorkForceOnly
    <2> QED
      BY <1>d, <1>t, <2>1, <2>2, <2>3, <2>4, GateOutside
  <1>3. CASE SeedMetaJob(c)
    <2> USE <1>3 DEF SeedMetaJob
    <2> DEFINE n == MetaEvent(arg[c], now)
    <2>1. /\ UNCHANGED <<todo, gateVars, finished, invoked, clk, now>>
          /\ allowed \subseteq allowed' /\ posted' = posted \cup {arg[c]}
      BY DEF Activate
    <2>2. arg[c] \notin CalcJobs
      BY JobAssumption DEF TypeOK, ClientTypeOK
    <2>3. \A d \in Clients : cpc'[d] # cpc[d] => cpc'[d] # "down"
      BY <1>t
    <2>4. PostOrTick(n)
      BY <2>2 DEF MetaEvent, PostOrTick
    <2>5. /\ \A e \in FedQueue : Live(e) => e \in FedQueue'
          /\ \A e \in FedQueue' : e \in FedQueue \/ PostOrTick(e)
      <3> HIDE DEF n
      <3>1. CASE \E force : DutyCycle(now, force, {n})
        <4>0. PICK force : DutyCycle(now, force, {n})
          BY <3>1
        <4>1. \A e \in FedQueue' : \/ e \in FedQueue \cup {n}
                                   \/ e.verb = "TICK" /\ e.job = NoJob
          BY <4>0, DutyCycleTicks
        <4> QED
          BY <1>t, <2>4, <4>0, <4>1, NoJobNoCalc, DutyCycleKeeps DEF PostOrTick
      <3>2. CASE PostChain(c, {n})
        BY <2>4, <3>2 DEF PostChain, Instruct, FedQueue
      <3> QED
        BY <3>1, <3>2 DEF n
    <2>6. WorkForceOnly
      <3>1. PICK S \in SUBSET (Workers \ pool) : Launch(S, pc)
        BY AddedWorkers DEF ActivateSets, EnsureCapacity, IncScaleSets
      <3> QED
        BY <2>1, <3>1, LaunchOutside DEF WorkForceOnly
    <2> QED
      BY <1>d, <1>t, <2>1, <2>2, <2>3, <2>5, <2>6, GateOutside
  <1>4. CASE PostJob(c)
    <2> USE <1>4 DEF PostJob
    <2> DEFINE n == JobEvent(arg[c])
    <2>1. /\ UNCHANGED <<todo, gateVars, finished, invoked, clk, now, allowed>>
          /\ posted' = posted \cup {arg[c]} /\ WorkForceOnly
      BY DEF envVars, workerVars, WorkForceOnly
    <2>2. \A d \in Clients : cpc'[d] # cpc[d] => cpc'[d] # "down"
      BY <1>t
    <2>3. FedQueue' = FedQueue \cup {n}
      BY DEF PostChain, Instruct, FedQueue
    <2>4. PostOrTick(n) /\ n.verb = "POST" /\ n.job = arg[c]
      BY DEF JobEvent, PostOrTick
    <2> HIDE DEF n
    <2> QED
      BY <1>d, <1>t, <2>1, <2>2, <2>3, <2>4, GateOutside
  <1>5. CASE TerminateProcessing(c) \/ AwaitShutdown(c)
    <2> USE DEF TerminateProcessing, AwaitShutdown
    <2>1. ~NoTermination
      BY <1>5, <1>d DEF NoTermination
    <2>2. /\ UNCHANGED <<todo, gateVars, finished, invoked, clk, posted, now, allowed>>
          /\ FedQueue' \subseteq FedQueue
      BY <1>5 DEF queueVars, history, clientVars, envVars, FedQueue, DiscardSchedule
    <2>3. WorkForceOnly
      BY <1>5, <2>2 DEF WorkForceOnly, Prune, Dead, TypeOK, WorkerTypeOK
    <2> QED
      BY <1>t, <2>1, <2>2, <2>3, GateOutside
  <1> QED
    BY <1>1, <1>2, <1>3, <1>4, <1>5 DEF ClientStep

(* Initially the Gate of a job waits for all of its prerequisites. *)
LEMMA GateInitially == ASSUME Init PROVE GateInv
  <1> USE DEF Init
  <1>1. AllEvents = {} /\ Underway = {}
    BY DEF AllEvents, Underway, FedQueue
  <1>2. GateSupport
    BY <1>1 DEF GateInit, GateSupport, GateDeadline, EventsAccurate, Retrieval
  <1>3. \A j \in CalcJobs : Missing(j) = Pred[j] /\ Notifications(j) = {} /\ rest[j] = Cardinality(Pred[j])
    BY <1>1 DEF Missing, Notifications, GateInit
  <1>4. Cardinality({}) = 0 /\ IsFiniteSet({})
    BY FS_EmptySet
  <1>5. \A j \in CalcJobs : Cardinality(Pred[j]) \in Nat
    BY PrerequisitesFinite
  <1>6. \A j \in CalcJobs : /\ IsFiniteSet(Notifications(j))
                            /\ rest[j] = Cardinality(Missing(j)) + Cardinality(Notifications(j))
                            /\ rest[j] \in Nat
    <2> TAKE j \in CalcJobs
    <2>1. Cardinality(Missing(j)) = Cardinality(Pred[j]) /\ Cardinality(Notifications(j)) = 0
      BY <1>3, <1>4
    <2>2. IsFiniteSet(Notifications(j)) /\ rest[j] = Cardinality(Pred[j]) /\ Cardinality(Pred[j]) \in Nat
      BY <1>3, <1>4, <1>5
    <2> HIDE DEF Init
    <2> QED
      BY <2>1, <2>2
  <1>7. GateBound /\ GateAccounting
    <2>1. GateBound
      BY <1>6 DEF GateBound
    <2>2. GateAccounting
      BY <1>6 DEF GateAccounting, Missing, Notifications
    <2> QED
      BY <2>1, <2>2
  <1>8. PrerequisitesFirst /\ NoLostJob
    BY DEF PrerequisitesFirst, NoLostJob, Jobs
  <1> QED
    BY <1>2, <1>7, <1>8 DEF GateInv

(* The invariant holds throughout. *)
THEOREM GateSafety == Spec => []GateInv
  <1>1. Init => GateInv
    BY GateInitially
  <1>2. TypeOK /\ TypeOK' /\ InvocationInv /\ AskedBefore /\ GateInv /\ [Next]_vars => GateInv'
    <2> SUFFICES ASSUME TypeOK, TypeOK', InvocationInv, AskedBefore, GateInv, [Next]_vars
                 PROVE  GateInv'
      OBVIOUS
    <2>1. ASSUME NEW w \in Workers, WorkerStep(w)
          PROVE  GateInv'
      BY <2>1, GateIdleStep, GateFindWork, GateTick, GateMeta, GateCalc, GateFinish, GateFail
         DEF WorkerStep
    <2>2. CASE Clock \/ UNCHANGED vars
      <3>1. /\ UNCHANGED <<pc, todo, gateVars, finished, invoked, clk, posted, cpc, allowed>>
            /\ FedQueue' = FedQueue
        BY <2>2 DEF Clock, vars, queueVars, workerVars, clientVars, history, envVars, FedQueue
      <3>2. now' >= now
        BY <2>2 DEF Clock, vars, envVars, TypeOK, EnvTypeOK
      <3>3. WorkForceOnly
        BY <3>1 DEF WorkForceOnly
      <3> QED
        BY <3>1, <3>2, <3>3, GateOutside DEF GateInv
    <2> QED
      BY <2>1, <2>2, GateClientStep DEF Next
  <1> QED
    BY <1>1, <1>2, TypeCorrect, InvocationSafety, ClientsAsked, PTL DEF Spec

(* A calculation job is only invoked after all its prerequisites have      *)
(* completed: for any dependency graph, whatever the order of POST and     *)
(* notifications, and whatever events are discarded.                       *)
THEOREM PrerequisitesAlwaysFirst == Spec => []PrerequisitesFirst
  BY GateSafety, PTL DEF GateInv

(* Until its deadline, the Gate of a job waits for the prerequisites not   *)
(* completed and the notifications underway, and for nothing else, unless  *)
(* processing is terminated, which discards whatever is in the queues.     *)
THEOREM GatesAccurate == ASSUME "terminate" \notin Operations
                         PROVE  Spec => []GateAccounting
  <1>1. GateInv => GateAccounting
    BY DEF GateInv, NoTermination
  <1> QED
    BY <1>1, GateSafety, PTL

(* No job handed over to the Scheduler is forgotten before its deadline,   *)
(* unless processing is terminated. Jobs tied to a manifestation are left  *)
(* out: their POST is dropped when processed before they are enabled.      *)
THEOREM JobsNotLost == ASSUME "terminate" \notin Operations,
                              \A j \in CalcJobs : Man[j] = NoManID
                       PROVE  Spec => []NoLostJob
  <1>1. GateInv => NoLostJob
    BY DEF GateInv, NoTermination, NoManifestations
  <1> QED
    BY <1>1, GateSafety, PTL

=============================================================================
