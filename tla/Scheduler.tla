----------------------------- MODULE Scheduler -----------------------------
(***************************************************************************)
(* The Scheduler service (vault/gear/scheduler.hpp): worker threads which  *)
(* pull work through Layer-2 and Layer-1, interpret Render Activities and  *)
(* keep the duty cycle going, and client threads which place new jobs,     *)
(* watch the load or terminate processing.                                 *)
(*                                                                         *)
(* The memory manager (BlockFlow) appears through the set of jobs whose    *)
(* Activities may be gone: those allocated with a deadline no later than   *)
(* the time up to which it was told to discard.                            *)
(***************************************************************************)
EXTENDS SchedulerCommutator, ActivityLang, WorkForce

CONSTANTS Clients,         \* threads calling the Scheduler from outside
          Operations,      \* what the clients do, from ClientOperation
          Faults,          \* {"job"} when job functors may throw, else {}
          Plan,            \* Plan[m]: the jobs placed by meta job m when invoked
          Man,             \* Man[j]: the ManifestationID job j is scheduled with
          Compulsory,      \* calculation jobs marked as compulsory
          DutyPeriod,      \* DUTY_CYCLE_PERIOD
          DutyTolerance,   \* DUTY_CYCLE_TOLERANCE
          IdlePeriod,      \* IDLE_WAIT on the time axis
          MaxTime,         \* bound: the clock stops here
          MaxTicks,        \* bound: number of »tick« Activities alive at a time
          NoJob

ClientOperation == {"seed", "post", "load", "terminate"}

ASSUME SchedulerAssumption ==
    /\ Threads = Workers \cup Clients /\ Workers \cap Clients = {}
    /\ Operations \subseteq ClientOperation /\ Faults \subseteq {"job"}
    /\ Plan \in [MetaJobs -> SUBSET Jobs]
    /\ Man \in [Jobs -> ManID]
    /\ Compulsory \subseteq CalcJobs
    /\ DutyPeriod \in Nat \ {0} /\ DutyTolerance \in Nat /\ IdlePeriod \in Nat \ {0}
    /\ MaxTime \in Nat /\ MaxTicks \in Nat /\ Instant = 0 .. MaxTime
    /\ NoJob \notin Jobs

VARIABLES now,        \* RealClock::now()
          clk,        \* time sampled by a worker; wake-up time of an idle one
          todo,       \* event a worker currently processes, a set with 0 or 1 element
          reclaimed,  \* jobs whose Activities may have been discarded
          halted,     \* triggerEmergency() has aborted the process
          cpc,        \* where each client thread is
          arg,        \* the job a client is about to schedule
          asked,      \* the time a client has passed to handleDutyCycle()
          posted,     \* history: jobs handed over to the Scheduler
          invoked,    \* history: number of times a job was invoked
          finished    \* history: jobs whose functor returned normally

queueVars  == <<instruct, priority, allowed>>
workerVars == <<pool, pc, res, emergency, idleCycles>>
clientVars == <<cpc, arg, asked>>
envVars    == <<now, reclaimed, halted>>
history    == <<posted, invoked, finished>>
vars == <<queueVars, groomingToken, tendedHead, workerVars, clk, todo, gateVars,
          clientVars, envVars, history>>

TickId == 1 .. MaxTicks

ActivationEvent == [verb: {"POST", "GATE", "TICK"}, job: Jobs \cup {NoJob},
                    tag: Jobs \cup TickId \cup {NoJob}, starting: Int, deadline: Int,
                    manifestation: ManID, isCompulsory: BOOLEAN]

(* event to schedule a calculation job, as passed from ScheduleSpec::post() *)
JobEvent(j) == [verb |-> "POST", job |-> j, tag |-> NoJob,
                starting |-> Start[j], deadline |-> Deadline[j],
                manifestation |-> Man[j], isCompulsory |-> j \in Compulsory]

(* event to schedule a planning job, as passed from continueMetaJob() *)
MetaEvent(m, start) == [verb |-> "POST", job |-> m, tag |-> NoJob,
                        starting |-> start, deadline |-> start + DutyTolerance,
                        manifestation |-> Man[m], isCompulsory |-> TRUE]

TickEvent(k, nextTick) == [verb |-> "TICK", job |-> NoJob, tag |-> k,
                           starting |-> nextTick, deadline |-> nextTick + DutyTolerance,
                           manifestation |-> NoManID, isCompulsory |-> TRUE]

(* »tick« Activities neither queued nor being processed *)
FreeTicks == {k \in TickId : \A e \in FedQueue \cup UNION {todo[w] : w \in Workers} :
                                e.verb = "TICK" => e.tag # k}

(* calculation jobs whose Activities have been created *)
Allocated == CalcJobs \cap (posted \cup {arg[c] : c \in Clients})

(***************************************************************************)
(* Workers which the LoadController may add. The average lag it compares   *)
(* against can have any value: on each »tick«, and for a new job unless    *)
(* that job starts beyond a fixed limit.                                   *)
(***************************************************************************)
UpdateState == {{}} \cup IncScaleSets(1) \cup IncScaleSets(4)

Scalable(startHorizon) == startHorizon <= 2 * SleepHorizon

EnsureCapacity(startHorizon) ==
    {{}} \cup IF Scalable(startHorizon) THEN IncScaleSets(1) ELSE {}

Goto(w, l)  == [pc EXCEPT ![w] = l]
Returns(w, l, r) == /\ pc'  = Goto(w, l)
                    /\ res' = [res EXCEPT ![w] = r]

(***************************************************************************)
(* handleDutyCycle() by a thread holding the token: consolidate the queue, *)
(* discard obsolete memory and prepare the next »tick«; the event extra is *)
(* what the caller puts into the queue right after that. A missed          *)
(* compulsory task triggers the emergency, which is not implemented and    *)
(* thus aborts the process.                                                *)
(***************************************************************************)
DutyCycle(time, force, extra) ==
    \E q \in SUBSET FedQueue :
       /\ Consolidated(FedQueue, q, time)
       /\ instruct' = {}
       /\ \/ /\ \E e \in HeadEntry(q, time) : IsOutOfTime(e, time)
             /\ halted' = TRUE
             /\ priority' = q
             /\ UNCHANGED reclaimed
          \/ /\ q = {} \/ \E e \in HeadEntry(q, time) : ~IsOutOfTime(e, time)
             /\ reclaimed' = reclaimed \cup {j \in Allocated : Deadline[j] <= time}
             /\ \/ /\ q # {} \/ force
                   /\ \E k \in FreeTicks :
                        priority' = q \cup extra
                           \cup {TickEvent(k, time + (IF force THEN WorkHorizon ELSE DutyPeriod))}
                \/ /\ q = {} /\ ~force
                   /\ priority' = q \cup extra
             /\ UNCHANGED halted

-----------------------------------------------------------------------------
(***************************************************************************)
(* Worker threads: dispatchCapacity(), first and third step. peek reads    *)
(* whether there is pending input, feed tends to it, cap decides upon the  *)
(* use of this worker's capacity.                                          *)
(***************************************************************************)
Peek(w) ==
    /\ pc[w] \in {"peekIn", "peekOut"}
    /\ pc' = Goto(w, CASE pc[w] = "peekIn"  -> IF HasPendingInput THEN "feedIn"  ELSE "capIn"
                       [] pc[w] = "peekOut" -> IF HasPendingInput THEN "feedOut" ELSE "capOut")
    /\ UNCHANGED <<queueVars, groomingToken, tendedHead, pool, res, emergency, idleCycles,
                   clk, todo, gateVars, clientVars, envVars, history>>

Feed(w) ==
    /\ pc[w] \in {"feedIn", "feedOut"}
    /\ MaybeFeed(w)
    /\ pc' = Goto(w, IF pc[w] = "feedIn" THEN "capIn" ELSE "capOut")
    /\ UNCHANGED <<allowed, tendedHead, pool, res, emergency, idleCycles,
                   clk, todo, gateVars, clientVars, envVars, history>>

(* effect of scatteredDelay() for the capacity chosen *)
ScatteredDelay(w, head, capacity, proceed) ==
    /\ tendedHead' = Tended(w, head, capacity)
    /\ \/ /\ capacity = "DISPATCH"
          /\ pc' = Goto(w, proceed)
          /\ UNCHANGED <<res, groomingToken>>
       \/ /\ capacity = "SPINTIME"
          /\ Returns(w, "ret", "PASS")
          /\ UNCHANGED groomingToken
       \/ /\ capacity = "IDLEWAIT"
          /\ Returns(w, "ret", "WAIT")
          /\ groomingToken' = DroppedBy(w)
       \/ /\ capacity \in TargetedSleep
          /\ Returns(w, "sleep", "PASS")
          /\ groomingToken' = DroppedBy(w)

IncomingCapacity(w) ==
    /\ pc[w] = "capIn"
    /\ \E head \in ObservedHeadTime(w) :
          ScatteredDelay(w, head, MarkIncomingCapacity(head, now), "sample")
    /\ UNCHANGED <<queueVars, pool, emergency, idleCycles,
                   clk, todo, gateVars, clientVars, envVars, history>>

(* DISPATCH as outgoing capacity: return PASS and thus poll again at once *)
OutgoingCapacity(w) ==
    /\ pc[w] = "capOut"
    /\ \E head \in ObservedHeadTime(w) :
         LET capacity == MarkOutgoingCapacity(head, now)
         IN  IF capacity = "DISPATCH"
               THEN /\ Returns(w, "ret", "PASS")
                    /\ UNCHANGED <<groomingToken, tendedHead>>
               ELSE ScatteredDelay(w, head, capacity, "ret")
    /\ UNCHANGED <<queueVars, pool, emergency, idleCycles,
                   clk, todo, gateVars, clientVars, envVars, history>>

(* end of a targeted sleep, at any later time *)
SleepWake(w) ==
    /\ pc[w] = "sleep"
    /\ pc' = Goto(w, "ret")
    /\ UNCHANGED <<queueVars, groomingToken, tendedHead, pool, res, emergency, idleCycles,
                   clk, todo, gateVars, clientVars, envVars, history>>

(***************************************************************************)
(* Second step: sample the time, then look for work.                       *)
(***************************************************************************)
SampleTime(w) ==
    /\ pc[w] = "sample"
    /\ clk' = [clk EXCEPT ![w] = now]
    /\ pc' = Goto(w, "find")
    /\ UNCHANGED <<queueVars, groomingToken, tendedHead, pool, res, emergency, idleCycles,
                   todo, gateVars, clientVars, envVars, history>>

FindWork(w) ==
    /\ pc[w] = "find"
    /\ \/ \E e \in FedQueue : /\ FoundWork(w, clk[w], e)
                              /\ todo' = [todo EXCEPT ![w] = {e}]
                              /\ pc' = Goto(w, "dispatch")
                              /\ UNCHANGED res
       \/ /\ NothingDue(w, clk[w]) \/ Contention(w)
          /\ Returns(w, "ret", "KICK")
          /\ UNCHANGED todo
    /\ clk' = [clk EXCEPT ![w] = 0]
    /\ UNCHANGED <<allowed, tendedHead, pool, emergency, idleCycles,
                   gateVars, clientVars, envVars, history>>

(***************************************************************************)
(* executeActivity: the chain found is interpreted, with a fresh time.     *)
(* A »tick« performs the duty cycle, which may step up the WorkForce.      *)
(***************************************************************************)
DispatchTick(w) ==
    /\ pc[w] = "dispatch"
    /\ \E e \in todo[w] : e.verb = "TICK"
    /\ DutyCycle(now, FALSE, {})
    /\ \E S \in UpdateState : Launch(S, Goto(w, "peekOut"))
    /\ todo' = [todo EXCEPT ![w] = {}]
    /\ UNCHANGED <<allowed, groomingToken, tendedHead, res, clk, gateVars, clientVars,
                   now, history>>

(* A meta job is invoked while holding the token and places further jobs;  *)
(* when the queue has fallen empty, the first of these ignites again, else *)
(* every one of them may step up the WorkForce by one worker.              *)
NewEvents(placed) == {IF j \in CalcJobs THEN JobEvent(j) ELSE MetaEvent(j, Start[j]) :
                         j \in placed \ posted}

PlaceJobs(w, placed, l) ==
    /\ \/ /\ NewEvents(placed) # {} /\ IsEmpty
          /\ DutyCycle(now, TRUE, NewEvents(placed))
          /\ \E S \in ActivateSets : Launch(S, Goto(w, l))
       \/ /\ NewEvents(placed) = {} \/ ~IsEmpty
          /\ PostChain(w, NewEvents(placed))
          /\ \E n \in 0 .. Cardinality({e \in NewEvents(placed) : Scalable(e.starting)}) :
                \E S \in IncScaleSets(n) : Launch(S, Goto(w, l))
          /\ UNCHANGED <<reclaimed, halted>>
    /\ posted' = posted \cup placed

InvokeMeta(w, m, placed, l) ==
    /\ pc[w] = "dispatch"
    /\ \E e \in todo[w] : e.verb = "POST" /\ e.job = m
    /\ PlaceJobs(w, placed, l)
    /\ invoked' = [invoked EXCEPT ![m] = @ + 1]
    /\ todo' = [todo EXCEPT ![w] = {}]
    /\ UNCHANGED <<allowed, tendedHead, clk, gateVars, clientVars, now>>

DispatchMeta(w) ==
    /\ \E m \in MetaJobs : /\ InvokeMeta(w, m, Plan[m], "peekOut")
                           /\ finished' = finished \cup {m}
    /\ UNCHANGED <<groomingToken, res>>

(* the planning throws, with some of the jobs placed already: HALT *)
FailMeta(w) ==
    /\ "job" \in Faults
    /\ \E m \in MetaJobs : \E placed \in SUBSET Plan[m] : InvokeMeta(w, m, placed, "ret")
    /\ res' = [res EXCEPT ![w] = "HALT"]
    /\ groomingToken' = DroppedBy(w)
    /\ UNCHANGED finished

(***************************************************************************)
(* A calculation job is reached through its POST or by notification of its *)
(* Gate. When the Gate lets pass, WORKSTART drops the token and the job    *)
(* functor is invoked, otherwise the chain is left with the token retained.*)
(***************************************************************************)
DispatchCalc(w) ==
    /\ pc[w] = "dispatch"
    /\ \E e \in todo[w] :
          /\ e.job \in CalcJobs
          /\ \/ /\ e.verb = "POST"
                /\ UNCHANGED gateVars
             \/ /\ e.verb = "GATE"
                /\ ReceiveGateNotification(e.job, now)
          /\ IF \/ e.verb = "POST" /\ CheckGate(e.job, now)
                \/ e.verb = "GATE" /\ NotificationOpens(e.job, now)
               THEN /\ groomingToken' = NoThread
                    /\ invoked' = [invoked EXCEPT ![e.job] = @ + 1]
                    /\ pc' = Goto(w, "working")
                    /\ UNCHANGED todo
               ELSE /\ pc' = Goto(w, "peekOut")
                    /\ todo' = [todo EXCEPT ![w] = {}]
                    /\ UNCHANGED <<groomingToken, invoked>>
    /\ UNCHANGED <<queueVars, tendedHead, pool, res, emergency, idleCycles, clk,
                   clientVars, envVars, posted, finished>>

(* the job functor returns; a NOTIFY is posted for every dependent job *)
FinishJob(w) ==
    /\ pc[w] = "working"
    /\ \E e \in todo[w] :
          /\ PostChain(w, {RefineToGate(e, k, e.job) : k \in Succ(e.job)})
          /\ finished' = finished \cup {e.job}
    /\ todo' = [todo EXCEPT ![w] = {}]
    /\ pc' = Goto(w, "peekOut")
    /\ UNCHANGED <<allowed, groomingToken, tendedHead, pool, res, emergency, idleCycles,
                   clk, gateVars, clientVars, envVars, posted, invoked>>

(* the job functor throws: HALT; the token was dropped before *)
FailJob(w) ==
    /\ "job" \in Faults
    /\ pc[w] = "working"
    /\ Returns(w, "ret", "HALT")
    /\ groomingToken' = DroppedBy(w)
    /\ todo' = [todo EXCEPT ![w] = {}]
    /\ UNCHANGED <<queueVars, tendedHead, pool, emergency, idleCycles, clk, gateVars,
                   clientVars, envVars, history>>

(***************************************************************************)
(* The loop in Worker::pullWork() evaluates the result of doWork().        *)
(***************************************************************************)
WorkerPull(w) ==
    /\ PullWork(w)
    /\ clk' = [clk EXCEPT ![w] = IF pc'[w] = "idle" THEN now + IdlePeriod ELSE 0]
    /\ UNCHANGED <<queueVars, groomingToken, tendedHead, todo, gateVars, clientVars,
                   envVars, history>>

WorkerIdleWake(w) ==
    /\ clk[w] <= now \/ now = MaxTime
    /\ IdleWake(w)
    /\ clk' = [clk EXCEPT ![w] = 0]
    /\ UNCHANGED <<queueVars, groomingToken, tendedHead, todo, gateVars, clientVars,
                   envVars, history>>

-----------------------------------------------------------------------------
(***************************************************************************)
(* Client threads. seedCalcStream() acquires the token, waiting for it as  *)
(* long as it takes, then places a planning job to start right now.        *)
(***************************************************************************)
SeedCalcStream(c) ==
    /\ "seed" \in Operations
    /\ cpc[c] = "idle"
    /\ \E m \in MetaJobs \ posted : /\ m \notin UNION {Plan[k] : k \in MetaJobs}
                                    /\ \A d \in Clients : arg[d] # m
                                    /\ arg' = [arg EXCEPT ![c] = m]
    /\ cpc' = [cpc EXCEPT ![c] = "seedWait"]
    /\ UNCHANGED <<queueVars, groomingToken, tendedHead, workerVars, clk, todo, gateVars,
                   asked, envVars, history>>

(* Mutant: the token is taken over without waiting for its release. *)
RequireUnchecked(c) ==
    /\ cpc[c] \in {"seedWait", "igniteWait"}
    /\ groomingToken' = c
    /\ cpc' = [cpc EXCEPT ![c] = IF @ = "seedWait" THEN "seed" ELSE "ignite"]
    /\ UNCHANGED <<queueVars, tendedHead, workerVars, clk, todo, gateVars, arg, asked,
                   envVars, history>>

RequireGroomingToken(c) ==
    /\ cpc[c] \in {"seedWait", "igniteWait"}
    /\ groomingToken = NoThread
    /\ groomingToken' = c
    /\ cpc' = [cpc EXCEPT ![c] = IF @ = "seedWait" THEN "seed" ELSE "ignite"]
    /\ UNCHANGED <<queueVars, tendedHead, workerVars, clk, todo, gateVars, arg, asked,
                   envVars, history>>

SeedMetaJob(c) ==
    /\ cpc[c] = "seed"
    /\ Activate(Man[arg[c]])
    /\ LET seeded == {MetaEvent(arg[c], now)} IN
          \/ /\ IsEmpty
             /\ DutyCycle(now, TRUE, seeded)
             /\ \E S \in ActivateSets : Launch(S, pc)
          \/ /\ ~IsEmpty
             /\ PostChain(c, seeded)
             /\ \E S \in EnsureCapacity(now) : Launch(S, pc)
             /\ UNCHANGED <<reclaimed, halted>>
    /\ groomingToken' = NoThread
    /\ posted' = posted \cup {arg[c]}
    /\ cpc' = [cpc EXCEPT ![c] = "idle"]
    /\ arg' = [arg EXCEPT ![c] = NoJob]
    /\ UNCHANGED <<tendedHead, res, clk, todo, gateVars, asked, now, invoked, finished>>

(***************************************************************************)
(* ScheduleSpec::post() from outside: check if the Scheduler is running,   *)
(* ignite it or provide for additional capacity, and then pass the event.  *)
(* The time of ignition is read before waiting for the grooming token.     *)
(***************************************************************************)
MaybeScaleWorkForce(c) ==
    /\ "post" \in Operations
    /\ cpc[c] = "idle"
    /\ \E j \in CalcJobs \ posted : /\ j \notin UNION {Plan[k] : k \in MetaJobs}
                                    /\ \A d \in Clients : arg[d] # j
                                    /\ arg' = [arg EXCEPT ![c] = j]
    /\ \E empty \in ObservedEmpty(c) :
          /\ cpc' = [cpc EXCEPT ![c] = IF empty THEN "igniteWait" ELSE "post"]
          /\ asked' = [asked EXCEPT ![c] = IF empty THEN now ELSE 0]
          /\ \E S \in IF empty THEN {{}} ELSE EnsureCapacity(Start[arg'[c]]) : Launch(S, pc)
    /\ UNCHANGED <<queueVars, groomingToken, tendedHead, res, clk, todo, gateVars,
                   envVars, history>>

(* Mutant: the event is placed already when igniting, and then posted again. *)
IgniteAndPlace(c) ==
    /\ cpc[c] = "ignite"
    /\ DutyCycle(asked[c], TRUE, {JobEvent(arg[c])})
    /\ \E S \in UpdateState : Launch(S, pc)
    /\ groomingToken' = NoThread
    /\ cpc' = [cpc EXCEPT ![c] = "activate"]
    /\ asked' = [asked EXCEPT ![c] = 0]
    /\ UNCHANGED <<allowed, tendedHead, res, clk, todo, gateVars, arg, now, history>>

Ignite(c) ==
    /\ cpc[c] = "ignite"
    /\ DutyCycle(asked[c], TRUE, {})
    /\ \E S \in UpdateState : Launch(S, pc)
    /\ groomingToken' = NoThread
    /\ cpc' = [cpc EXCEPT ![c] = "activate"]
    /\ asked' = [asked EXCEPT ![c] = 0]
    /\ UNCHANGED <<allowed, tendedHead, res, clk, todo, gateVars, arg, now, history>>


ActivateWorkForce(c) ==
    /\ cpc[c] = "activate"
    /\ \E empty \in ObservedEmpty(c) :
          \E S \in IF empty THEN {{}} ELSE ActivateSets : Launch(S, pc)
    /\ cpc' = [cpc EXCEPT ![c] = "post"]
    /\ UNCHANGED <<queueVars, groomingToken, tendedHead, res, clk, todo, gateVars, arg, asked,
                   envVars, history>>

PostJob(c) ==
    /\ cpc[c] = "post"
    /\ PostChain(c, {JobEvent(arg[c])})
    /\ posted' = posted \cup {arg[c]}
    /\ cpc' = [cpc EXCEPT ![c] = "idle"]
    /\ arg' = [arg EXCEPT ![c] = NoJob]
    /\ UNCHANGED <<allowed, groomingToken, tendedHead, workerVars, clk, todo, gateVars, asked,
                   envVars, invoked, finished>>

(* getLoadIndicator() asks for the size() of the WorkForce *)
GetLoadIndicator(c) ==
    /\ "load" \in Operations
    /\ cpc[c] = "idle"
    /\ Prune
    /\ UNCHANGED <<queueVars, groomingToken, tendedHead, res, emergency, idleCycles, clk,
                   todo, gateVars, clientVars, envVars, history>>

(***************************************************************************)
(* terminateProcessing(): signal the workers, wait for them to end, then   *)
(* clear the queues.                                                       *)
(***************************************************************************)
TerminateProcessing(c) ==
    /\ "terminate" \in Operations
    /\ cpc[c] = "idle"
    /\ SignalEmergency
    /\ cpc' = [cpc EXCEPT ![c] = "down"]
    /\ UNCHANGED <<queueVars, groomingToken, tendedHead, pool, pc, res, idleCycles, clk,
                   todo, gateVars, arg, asked, envVars, history>>

AwaitShutdown(c) ==
    /\ cpc[c] = "down"
    /\ Prune
    /\ IF pool' = {} THEN /\ DiscardSchedule
                          /\ cpc' = [cpc EXCEPT ![c] = "idle"]
                     ELSE UNCHANGED <<instruct, priority, cpc>>
    /\ UNCHANGED <<allowed, groomingToken, tendedHead, res, emergency, idleCycles, clk,
                   todo, gateVars, arg, asked, envVars, history>>

Clock == /\ now < MaxTime
         /\ now' = now + 1
         /\ UNCHANGED <<queueVars, groomingToken, tendedHead, workerVars, clk, todo,
                        gateVars, clientVars, reclaimed, halted, history>>

-----------------------------------------------------------------------------
Init == /\ instruct = {} /\ priority = {} /\ allowed = {}
        /\ groomingToken = NoThread
        /\ tendedHead = ANYTIME
        /\ pool = {}
        /\ pc = [w \in Workers |-> "off"]
        /\ res = [w \in Workers |-> "PASS"]
        /\ emergency = [w \in Workers |-> FALSE]
        /\ idleCycles = [w \in Workers |-> 0]
        /\ clk = [w \in Workers |-> 0]
        /\ todo = [w \in Workers |-> {}]
        /\ GateInit
        /\ cpc = [c \in Clients |-> "idle"]
        /\ arg = [c \in Clients |-> NoJob]
        /\ asked = [c \in Clients |-> 0]
        /\ now = 0 /\ reclaimed = {} /\ halted = FALSE
        /\ posted = {} /\ finished = {}
        /\ invoked = [j \in Jobs |-> 0]

WorkerStep(w) ==
    \/ Peek(w) \/ Feed(w) \/ IncomingCapacity(w) \/ SampleTime(w) \/ FindWork(w)
    \/ DispatchTick(w) \/ DispatchMeta(w) \/ DispatchCalc(w)
    \/ FailMeta(w) \/ FinishJob(w) \/ FailJob(w) \/ OutgoingCapacity(w) \/ SleepWake(w)
    \/ WorkerPull(w) \/ WorkerIdleWake(w)

ClientStep(c) ==
    \/ SeedCalcStream(c) \/ RequireGroomingToken(c) \/ SeedMetaJob(c)
    \/ MaybeScaleWorkForce(c) \/ Ignite(c) \/ ActivateWorkForce(c) \/ PostJob(c)
    \/ GetLoadIndicator(c) \/ TerminateProcessing(c) \/ AwaitShutdown(c)

Next == /\ ~halted
        /\ \/ \E w \in Workers : WorkerStep(w)
           \/ \E c \in Clients : ClientStep(c)
           \/ Clock

Spec == Init /\ [][Next]_vars

(***************************************************************************)
(* Fairness: the OS runs every worker thread, job functors return, clients *)
(* complete the calls they have started, and time goes on. Waiting for the *)
(* token is by polling, thus acquisition gets no more than weak fairness.  *)
(***************************************************************************)
ClientContinues(c) ==
    \/ RequireGroomingToken(c) \/ SeedMetaJob(c) \/ Ignite(c) \/ ActivateWorkForce(c)
    \/ PostJob(c) \/ AwaitShutdown(c)

Fairness == /\ \A w \in Workers : WF_vars(~halted /\ WorkerStep(w))
            /\ \A c \in Clients : WF_vars(~halted /\ ClientContinues(c))
            /\ WF_vars(~halted /\ Clock)

FairSpec == Spec /\ Fairness

-----------------------------------------------------------------------------
WorkerPC == {"off", "peekIn", "feedIn", "capIn", "sample", "find", "dispatch", "working",
             "peekOut", "feedOut", "capOut", "sleep", "ret", "idle", "dead"}
ClientPC == {"idle", "seedWait", "seed", "igniteWait", "ignite", "activate", "post", "down"}

QueueTypeOK ==
    /\ instruct \subseteq ActivationEvent /\ priority \subseteq ActivationEvent
    /\ allowed \subseteq ManID
    /\ groomingToken \in Threads \cup {NoThread}
    /\ tendedHead \in Int

(* a worker is listed in the pool from launch until it is pruned *)
WorkerTypeOK ==
    /\ pool \subseteq Workers
    /\ pc \in [Workers -> WorkerPC] /\ res \in [Workers -> Proc]
    /\ emergency \in [Workers -> BOOLEAN] /\ idleCycles \in [Workers -> Nat]
    /\ \A w \in Workers : w \in pool <=> pc[w] # "off"

(* what a worker has retrieved: no more than one event at a time, and only *)
(* for a calculation job does it enter work mode                           *)
TaskTypeOK ==
    /\ clk \in [Workers -> Nat] /\ todo \in [Workers -> SUBSET ActivationEvent]
    /\ \A w \in Workers : \A e, o \in todo[w] : e = o
    /\ \A w \in Workers : pc[w] = "working" => \A e \in todo[w] : e.job \in CalcJobs

GateTypeOK == rest \in [CalcJobs -> Nat] /\ gateDead \in [CalcJobs -> Int]

(* a client has chosen the kind of job which the call it performs can place *)
ClientTypeOK ==
    /\ cpc \in [Clients -> ClientPC] /\ arg \in [Clients -> Jobs \cup {NoJob}]
    /\ asked \in [Clients -> Nat]
    /\ \A c \in Clients :
          /\ cpc[c] \in {"seedWait", "seed"} => arg[c] \in MetaJobs
          /\ cpc[c] \in {"igniteWait", "ignite", "activate", "post"} => arg[c] \in CalcJobs

EnvTypeOK == /\ now \in Nat /\ reclaimed \subseteq CalcJobs /\ halted \in BOOLEAN
             /\ posted \subseteq Jobs /\ finished \subseteq Jobs /\ invoked \in [Jobs -> Nat]

(* All state variables of the Scheduler hold values of their declared      *)
(* types; a worker is listed exactly while it has not been pruned, works   *)
(* only on calculation jobs, and a client only places the kind of job its  *)
(* call is made for.                                                       *)
TypeOK == /\ QueueTypeOK /\ WorkerTypeOK /\ TaskTypeOK
          /\ GateTypeOK /\ ClientTypeOK /\ EnvTypeOK

(* events queued, or retrieved but not interpreted yet *)
Underway == FedQueue \cup UNION {todo[w] : w \in {v \in Workers : pc[v] = "dispatch"}}

(* Whoever changes scheduler internals holds the grooming token: a worker  *)
(* interpreting a chain up to WORKSTART, where dropGroomingToken() requires *)
(* it, and a client inside the scope of requireGroomingTokenHere().        *)
GroomingModeProtected ==
    /\ \A w \in Workers : pc[w] = "dispatch" => groomingToken = w
    /\ \A c \in Clients : cpc[c] \in {"seed", "ignite"} => groomingToken = c

(* The grooming token is never carried into work mode, nor into any kind   *)
(* of sleep, nor back to the worker loop with a result other than PASS.    *)
TokenNotHogged ==
    \A w \in Workers :
       groomingToken = w => /\ pc[w] \notin {"working", "sleep", "idle"}
                            /\ pc[w] = "ret" => res[w] = "PASS"

(* An event is in one place only: the entrance queue, the prioritisation,  *)
(* or in the hands of a single worker.                                     *)
EventsInOnePlace ==
    /\ instruct \cap priority = {}
    /\ \A w \in Workers : /\ todo[w] \cap FedQueue = {}
                          /\ \A v \in Workers \ {w} : todo[v] \cap todo[w] = {}

(* A job is invoked at most once, even when reached both through its own   *)
(* POST and through notifications of its Gate in any order.                *)
InvokedOnce == \A j \in Jobs : invoked[j] <= 1

(* A calculation job is only ever invoked after all its prerequisites have *)
(* completed successfully.                                                 *)
PrerequisitesFirst == \A j \in CalcJobs : invoked[j] > 0 => Pred[j] \subseteq finished

(* As long as the deadline of a job is not reached, its Gate waits exactly *)
(* for the prerequisites not completed and the notifications underway.     *)
GateAccounting ==
    \A j \in CalcJobs : now <= Deadline[j] =>
       rest[j] = Cardinality(Pred[j] \ finished)
               + Cardinality({e \in Underway : e.verb = "GATE" /\ e.job = j})

(* No job gets lost: until the deadline, a job handed over and enabled has *)
(* been invoked, or its POST is underway, or its Gate waits for others.    *)
NoLostJob ==
    \A j \in posted \cap CalcJobs :
       now < Deadline[j] /\ IsActivated(Man[j]) /\ invoked[j] = 0 =>
          \/ \E e \in Underway : e.verb = "POST" /\ e.job = j
          \/ IsHold(j)

(* A chain retrieved from the queue is never one whose memory may have     *)
(* been discarded already: such an entry must not be dereferenced.         *)
RetrievedStillAllocated ==
    \A w \in Workers : pc[w] = "dispatch" => \A e \in todo[w] : e.job \notin reclaimed

(* no worker thread is running *)
Deserted == \A w \in Workers : pc[w] \in {"off", "dead"}

(* the head of the schedule is a compulsory entry beyond its deadline,     *)
(* which is neither retrieved nor discarded                                *)
HeadOutOfTime == \E e \in Top(priority) : e.isCompulsory /\ now > e.deadline


(* The right to groom is passed on: a worker holding the grooming token    *)
(* eventually releases it, unless the process is aborted.                  *)
TokenReleased == \A w \in Workers : groomingToken = w ~> groomingToken # w \/ halted

=============================================================================
