-------------------------- MODULE SteamDispatcher --------------------------
(***************************************************************************)
(* The session loop (steam/control/steam-dispatcher.cpp): one thread which *)
(* dispatches commands and triggers the builder, together with those who   *)
(* talk to it. These are the session manager, which opens and closes the   *)
(* session (lifecycle-advisor.hpp, sess-manager-impl.cpp), the subsystem   *)
(* runner, which starts and stops the loop (steam/facade.cpp), and clients *)
(* of the SessionCommandService, which enqueue commands.                   *)
(*                                                                         *)
(* "outer" is the lock of the SteamDispatcher, a plain std::mutex; "inner" *)
(* is the monitor of the DispatcherLoop, written down only where a thread  *)
(* owns it beyond one step. The session thread reads the flags of the      *)
(* Looper without any lock, thus each such access is a step of its own.    *)
(***************************************************************************)
EXTENDS Looper, Sequences, FiniteSets

CONSTANTS Clients,     \* threads using the SessionCommandService
          Calls,       \* entry points in use: "stop", "close", "reset"
          MayFail,     \* commands may throw
          MaxCmds,     \* bound: commands enqueued
          MaxLoops,    \* bound: starts of the session loop
          MaxOpens     \* bound: sessions pulled up

ASSUME DispatcherAssumption ==
    /\ Calls \subseteq {"stop", "close", "reset"}
    /\ MayFail \in BOOLEAN
    /\ {MaxCmds, MaxLoops, MaxOpens} \subseteq Nat
    /\ Clients \cap {"mgr", "run", "thr"} = {}

VARIABLES running,   \* runningLoop_ is set
          active,    \* active_
          outer,     \* owner of the lock on SteamDispatcher, or "free"
          inner,     \* owner of the monitor of DispatcherLoop, or "free"
          queue,     \* queue_: the commands by number
          service,   \* commandService_ is open
          pc,        \* the session thread, by its next step
          timeout,   \* time left until the timed wait ends
          waiting,   \* threads in a condition wait, not notified yet
          failed,    \* error_ holds a message
          run,       \* the subsystem runner within start()
          mgr,       \* the session manager: next step and operation
          up,        \* pSess_
          ref,       \* client -> loop to be fed, 0 if not within enqueue()
          loop,      \* number of the current or the last loop
          fed,       \* number of commands accepted thus far
          opens,     \* number of sessions pulled up
          ending,    \* loop -> error state, for threads past the loop's end
          signals,   \* end of thread signals: loop, failure, failure reported
          overtaken, \* processing was enabled after the thread saw it disabled
          unhalted   \* the loop was started with active_ unset, which it ignores

loopVars    == <<looper, queue, service, pc, timeout, failed>>
lockVars    == <<outer, inner, waiting>>
actorVars   == <<run, mgr, up, ref>>
switchVars  == <<overtaken, unhalted>>
historyVars == <<loop, fed, opens, ending, signals, switchVars>>
vars == <<running, active, loopVars, lockVars, actorVars, historyVars>>

Steps == {"off", "head", "await", "wait", "dying", "runBuild", "isWorking",
          "build", "fetch", "exec", "mark", "notify", "exit"}
ManagerSteps == {"idle", "deactivate", "await", "check", "block", "sleep",
                 "deconfigure", "pullUp", "activate"}

TypeOK ==
    /\ looper \in LooperType
    /\ {running, active, service, failed, up, overtaken, unhalted} \subseteq BOOLEAN
    /\ outer \in {"free", "mgr", "run"}
    /\ inner \in {"free", "mgr"}
    /\ queue \in Seq(1 .. MaxCmds)
    /\ pc \in Steps
    /\ timeout \in 0 .. MaxBuildTimeout
    /\ waiting \subseteq {"thr", "mgr"}
    /\ run \in {"idle", "opening", "activating"}
    /\ mgr \in [at: ManagerSteps, reopen: BOOLEAN]
    /\ ref \in [Clients -> 0 .. MaxLoops]
    /\ loop \in 0 .. MaxLoops
    /\ fed \in 0 .. MaxCmds
    /\ opens \in 0 .. MaxOpens
    /\ ending \subseteq [loop: 1 .. MaxLoops, failed: BOOLEAN]
    /\ signals \subseteq [loop: 1 .. MaxLoops, failed: BOOLEAN, told: BOOLEAN]

Init ==
    /\ looper = NewLooper /\ queue = <<>> /\ pc = "off" /\ timeout = 0
    /\ running = FALSE /\ active = FALSE /\ service = FALSE /\ failed = FALSE
    /\ outer = "free" /\ inner = "free" /\ waiting = {}
    /\ run = "idle" /\ mgr = [at |-> "idle", reopen |-> FALSE] /\ up = FALSE
    /\ ref = [c \in Clients |-> 0]
    /\ loop = 0 /\ fed = 0 /\ opens = 0
    /\ ending = {} /\ signals = {} /\ overtaken = FALSE /\ unhalted = FALSE

NotifyAll == waiting' = {}

-----------------------------------------------------------------------------
(* DispatcherLoop: runSessionThread() and what it calls *)

ShallLoop ==
    /\ pc = "head"
    /\ pc' = IF IsDying(looper) THEN "exit" ELSE "await"
    /\ UNCHANGED <<running, active, looper, queue, service, timeout, failed,
                   lockVars, actorVars, historyVars>>

(* The predicate of the timed wait, on entrance and after each wake-up. *)
CheckAction(left) ==
    /\ inner = "free"
    /\ looper' = RequireAction(looper, queue # <<>>)
    /\ LET done == ProceedImmediately(looper, queue # <<>>)
       IN  /\ pc' = IF done \/ (pc = "wait" /\ left = 0) THEN "dying" ELSE "wait"
           /\ timeout' = IF pc' = "wait" THEN left ELSE 0
           /\ waiting' = IF pc' = "wait" THEN waiting \cup {"thr"} ELSE waiting \ {"thr"}

AwaitAction ==
    /\ pc = "await"
    /\ CheckAction(GetTimeout(looper))
    /\ UNCHANGED <<running, active, queue, service, failed, outer, inner,
                   actorVars, historyVars>>

Awake ==
    /\ pc = "wait"
    /\ "thr" \notin waiting \/ timeout = 0
    /\ CheckAction(timeout)
    /\ UNCHANGED <<running, active, queue, service, failed, outer, inner,
                   actorVars, historyVars>>

Decide ==
    /\ \/ pc = "dying"     /\ pc' = IF IsDying(looper)   THEN "exit"  ELSE "runBuild"
       \/ pc = "runBuild"  /\ pc' = IF RunBuild(looper)  THEN "build" ELSE "isWorking"
       \/ pc = "isWorking" /\ pc' = IF IsWorking(looper) THEN "fetch" ELSE "mark"
    /\ UNCHANGED <<running, active, looper, queue, service, timeout, failed,
                   lockVars, actorVars, historyVars>>

StartBuilder ==
    /\ pc = "build" /\ pc' = "mark"
    /\ UNCHANGED <<running, active, looper, queue, service, timeout, failed,
                   lockVars, actorVars, historyVars>>

(* processCommands(): take a command from the queue, if there is one *)
FetchCommand ==
    /\ pc = "fetch" /\ inner = "free"
    /\ pc' = IF queue = <<>> THEN "mark" ELSE "exec"
    /\ queue' = IF queue = <<>> THEN queue ELSE Tail(queue)
    /\ UNCHANGED <<running, active, looper, service, timeout, failed,
                   lockVars, actorVars, historyVars>>

DispatchCommand ==
    /\ pc = "exec"
    /\ \/ pc' = "mark" /\ UNCHANGED failed
       \/ MayFail /\ pc' = "exit" /\ failed' = TRUE
    /\ UNCHANGED <<running, active, looper, queue, service, timeout,
                   lockVars, actorVars, historyVars>>

UpdateState ==
    /\ pc = "mark" /\ pc' = "notify"
    /\ looper' = MarkStateProcessed(looper)
    /\ overtaken' = FALSE
    /\ UNCHANGED <<running, active, queue, service, timeout, failed,
                   lockVars, actorVars, loop, fed, opens, ending, signals, unhalted>>

(* Mutant: waiting threads are not woken at the check point. *)
NotifyNobody ==
    /\ pc = "notify" /\ pc' = "head"
    /\ UNCHANGED <<running, active, looper, queue, service, timeout, failed,
                   outer, inner, waiting, actorVars, historyVars>>

NotifyState ==
    /\ pc = "notify" /\ pc' = "head"
    /\ IF IsDisabled(looper) THEN NotifyAll ELSE UNCHANGED waiting
    /\ UNCHANGED <<running, active, looper, queue, service, timeout, failed,
                   outer, inner, actorVars, historyVars>>

(* Mutant: the loop is deleted without taking the lock of SteamDispatcher. *)
EndUnlocked ==
    /\ pc = "exit"
    /\ pc' = "off" /\ running' = FALSE /\ service' = FALSE
    /\ queue' = <<>> /\ looper' = NewLooper /\ failed' = FALSE
    /\ ending' = ending \cup {[loop |-> loop, failed |-> failed]}
    /\ UNCHANGED <<active, timeout, lockVars, actorVars,
                   loop, fed, opens, signals, switchVars>>

(* Mutant: the thread ends without a signal, when it has failed. *)
EndUnsignalled ==
    /\ pc = "exit" /\ outer = "free"
    /\ pc' = "off" /\ running' = FALSE /\ service' = FALSE
    /\ queue' = <<>> /\ looper' = NewLooper /\ failed' = FALSE
    /\ ending' = ending \cup (IF failed THEN {} ELSE {[loop |-> loop, failed |-> failed]})
    /\ UNCHANGED <<active, timeout, lockVars, actorVars,
                   loop, fed, opens, signals, switchVars>>

(* the atExit functor: endRunningLoopState() deletes the DispatcherLoop ... *)
EndRunningLoopState ==
    /\ pc = "exit" /\ outer = "free"
    /\ pc' = "off" /\ running' = FALSE /\ service' = FALSE
    /\ queue' = <<>> /\ looper' = NewLooper /\ failed' = FALSE
    /\ ending' = ending \cup {[loop |-> loop, failed |-> failed]}
    /\ UNCHANGED <<active, timeout, lockVars, actorVars,
                   loop, fed, opens, signals, switchVars>>

(* ... and the notification reads error_ of the object deleted before. *)
TermNotification ==
    /\ \E e \in ending, told \in BOOLEAN :
          /\ ending' = ending \ {e}
          /\ signals' = signals \cup {[loop |-> e.loop, failed |-> e.failed, told |-> told]}
    /\ UNCHANGED <<running, active, loopVars, lockVars, actorVars,
                   loop, fed, opens, switchVars>>

-----------------------------------------------------------------------------
(* SteamDispatcher: start() and requestStop(), called for the subsystem *)

StartLoop ==
    /\ run = "idle" /\ outer = "free" /\ ~running /\ loop < MaxLoops
    /\ run' = "opening" /\ outer' = "run"
    /\ loop' = loop + 1 /\ pc' = "head" /\ looper' = NewLooper
    /\ overtaken' = FALSE /\ unhalted' = ~active
    /\ UNCHANGED <<running, active, queue, service, timeout, failed, inner, waiting,
                   mgr, up, ref, fed, opens, ending, signals>>

OpenService ==
    /\ run = "opening" /\ inner = "free"
    /\ run' = "activating" /\ service' = TRUE
    /\ UNCHANGED <<running, active, looper, queue, pc, timeout, failed, lockVars,
                   mgr, up, ref, historyVars>>

ActivateOnStart ==
    /\ run = "activating" /\ inner = "free"
    /\ run' = "idle" /\ outer' = "free" /\ running' = TRUE
    /\ IF active THEN looper' = EnableProcessing(looper, TRUE) /\ NotifyAll
                 ELSE UNCHANGED <<looper, waiting>>
    /\ UNCHANGED <<active, queue, service, pc, timeout, failed, inner,
                   mgr, up, ref, historyVars>>

RequestStop ==
    /\ "stop" \in Calls
    /\ running /\ outer = "free" /\ inner = "free" /\ ~IsDying(looper)
    /\ service' = FALSE /\ looper' = TriggerShutdown(looper) /\ NotifyAll
    /\ UNCHANGED <<running, active, queue, pc, timeout, failed, outer, inner,
                   actorVars, historyVars>>

-----------------------------------------------------------------------------
(* Session lifecycle: close() and reset() of the session manager *)

At(step) == mgr.at = step
Goto(step) == mgr' = [mgr EXCEPT !.at = step]

CloseSession ==
    /\ At("idle") /\ up
    /\ \E reopen \in BOOLEAN :
          /\ IF reopen THEN "reset" \in Calls /\ opens < MaxOpens ELSE "close" \in Calls
          /\ mgr' = [at |-> "deactivate", reopen |-> reopen]
    /\ UNCHANGED <<running, active, loopVars, lockVars, run, up, ref, historyVars>>

OpenSession ==
    /\ At("idle") /\ ~up /\ opens < MaxOpens
    /\ mgr' = [at |-> "pullUp", reopen |-> FALSE]
    /\ UNCHANGED <<running, active, loopVars, lockVars, run, up, ref, historyVars>>

(* steps after the predicate of the wait and before the decision made by it *)
Deciding == {"dying", "runBuild", "isWorking"}

(* active_ is stored, and handed on to the loop, should there be one *)
SetProcessing(yes) ==
    /\ outer = "free" /\ inner = "free"
    /\ active' = yes
    /\ IF running THEN looper' = EnableProcessing(looper, yes) /\ NotifyAll
                  ELSE UNCHANGED <<looper, waiting>>
    /\ overtaken' = (overtaken \/ (running /\ yes /\ pc \in Deciding /\ ~looper.inChange))
    /\ unhalted' = (unhalted /\ ~running)
    /\ UNCHANGED <<running, queue, service, pc, timeout, failed, outer, inner,
                   run, up, ref, loop, fed, opens, ending, signals>>

Deactivate == At("deactivate") /\ Goto("await") /\ SetProcessing(FALSE)
Activate   == At("activate")   /\ Goto("idle")  /\ SetProcessing(TRUE)

(* awaitDeactivation() keeps the outer lock until the loop has reached a     *)
(* check point. While the predicate is evaluated and until the sleep begins, *)
(* the inner lock is held as well, which updateState() does not care about.  *)
AwaitDeactivation ==
    /\ At("await") /\ outer = "free"
    /\ IF running THEN Goto("check") /\ outer' = "mgr"
                  ELSE Goto("deconfigure") /\ UNCHANGED outer
    /\ UNCHANGED <<running, active, loopVars, inner, waiting, run, up, ref, historyVars>>

CheckPoint ==
    /\ At("check") \/ (At("sleep") /\ "mgr" \notin waiting)
    /\ inner = "free"
    /\ IF HasPendingChanges(looper)
       THEN Goto("block") /\ inner' = "mgr" /\ UNCHANGED outer
       ELSE Goto("deconfigure") /\ outer' = "free" /\ UNCHANGED inner
    /\ UNCHANGED <<running, active, loopVars, waiting, run, up, ref, historyVars>>

BlockOnState ==
    /\ At("block") /\ Goto("sleep")
    /\ inner' = "free" /\ waiting' = waiting \cup {"mgr"}
    /\ UNCHANGED <<running, active, loopVars, outer, run, up, ref, historyVars>>

(* the session is dismantled; on reset() the next one is pulled up at once *)
Deconfigure ==
    /\ At("deconfigure")
    /\ Goto(IF mgr.reopen THEN "pullUp" ELSE "idle")
    /\ up' = mgr.reopen
    /\ UNCHANGED <<running, active, loopVars, lockVars, run, ref, historyVars>>

PullUp ==
    /\ At("pullUp") /\ Goto("activate")
    /\ up' = TRUE /\ opens' = opens + 1
    /\ UNCHANGED <<running, active, loopVars, lockVars, run, ref,
                   loop, fed, ending, signals, switchVars>>

-----------------------------------------------------------------------------
(* Clients: SessionCommandService hands the command over to enqueue() *)

TriggerCommand(c) ==
    /\ ref[c] = 0 /\ service
    /\ ref' = [ref EXCEPT ![c] = loop]
    /\ UNCHANGED <<running, active, loopVars, lockVars, run, mgr, up, historyVars>>

(* The lock taken here is not the one that protects the loop from being   *)
(* deleted; a command for a loop meanwhile gone leads nowhere.            *)
Enqueue(c) ==
    /\ ref[c] # 0 /\ inner = "free" /\ fed < MaxCmds
    /\ ref' = [ref EXCEPT ![c] = 0]
    /\ fed' = fed + 1
    /\ IF ref[c] = loop /\ pc # "off"
       THEN queue' = Append(queue, fed + 1) /\ NotifyAll
       ELSE UNCHANGED <<queue, waiting>>
    /\ UNCHANGED <<running, active, looper, service, pc, timeout, failed, outer, inner,
                   run, mgr, up, loop, opens, ending, signals, switchVars>>

-----------------------------------------------------------------------------
(* Time passes while the session thread waits, performs a command or builds; *)
(* the few instructions in between take no time worth mention.               *)
Tick ==
    /\ pc \in {"wait", "build", "exec"}
    /\ looper' = Aged(looper)
    /\ timeout' = IF timeout > 0 THEN timeout - 1 ELSE 0
    /\ <<looper, timeout>>' # <<looper, timeout>>
    /\ UNCHANGED <<running, active, queue, service, pc, failed,
                   lockVars, actorVars, historyVars>>

LoopStep == \/ ShallLoop \/ AwaitAction \/ Awake \/ Decide
            \/ StartBuilder \/ FetchCommand \/ DispatchCommand
            \/ UpdateState \/ NotifyState \/ EndRunningLoopState

StartStep == OpenService \/ ActivateOnStart

ManagerStep == \/ Deactivate \/ AwaitDeactivation \/ CheckPoint \/ BlockOnState
               \/ Deconfigure \/ PullUp \/ Activate

Request == \/ StartLoop \/ RequestStop \/ CloseSession \/ OpenSession
           \/ \E c \in Clients : TriggerCommand(c)

Next == \/ LoopStep \/ TermNotification \/ StartStep \/ ManagerStep \/ Tick
        \/ Request \/ \E c \in Clients : Enqueue(c)

(* Each thread goes on within its function, and time passes. Whether a    *)
(* session is opened or closed, or the loop is stopped is not forced.     *)
Fairness == /\ WF_vars(LoopStep) /\ WF_vars(TermNotification) /\ WF_vars(Tick)
            /\ WF_vars(StartStep) /\ WF_vars(ManagerStep)
            /\ \A c \in Clients : WF_vars(Enqueue(c))

Spec == Init /\ [][Next]_vars /\ Fairness

-----------------------------------------------------------------------------
(***************************************************************************)
(* awaitDeactivation() is mandatory before a session is dismantled: when   *)
(* it has returned, no command is performed and the builder is not active  *)
(* until the session data is gone. Relates the flag inChange_, written by  *)
(* the session thread without lock, to the state that thread really is in. *)
(* There are two exceptions. When reset() or a further session enables     *)
(* processing right after the thread has evaluated its predicate, it works *)
(* with inChange_ unset, and the next close does not wait for it. And a    *)
(* loop started while processing is halted does not know about this.       *)
(***************************************************************************)
QuiescentAfterCheckpoint ==
    At("deconfigure") /\ ~overtaken /\ ~unhalted => pc \notin {"build", "fetch", "exec"}

(***************************************************************************)
(* The end of each session thread is signalled once: a loop that is neither*)
(* current nor about to signal was reported, and no loop is reported twice *)
(* or while it still runs.                                                 *)
(***************************************************************************)
EverySignalOnce ==
    LET current == IF pc = "off" THEN {} ELSE {loop}
        about   == {e.loop : e \in ending}
        done    == {s.loop : s \in signals}
    IN  /\ 1 .. loop = current \cup about \cup done
        /\ Cardinality(current) + Cardinality(ending) + Cardinality(signals) = loop

(***************************************************************************)
(* The loop object, which the session thread deletes by itself, is kept as *)
(* long as someone else relies on it: start(), which opens the service and *)
(* enables processing, and the session manager waiting for a check point,  *)
(* and clients find the service open only together with a loop. The thread *)
(* itself lives longer: its termination functor reads the error message of *)
(* the object just deleted, see TermNotification.                          *)
(***************************************************************************)
LoopKeptWhileUsed ==
    /\ run # "idle" => pc # "off"
    /\ mgr.at \in {"check", "block", "sleep"} => running /\ pc # "off"
    /\ service => pc # "off"

(* close() and reset() return, even though the wake-up sent by updateState() *)
(* without lock may be lost; unless the builder run is overdue, which lets   *)
(* the session thread announce changes in spite of being disabled, or the    *)
(* loop was started in the midst of the close and ignores it.                *)
CloseUnlessOverdue == At("deactivate") ~> (At("idle") \/ ForceBuild(looper) \/ unhalted)

(* Commands are dispatched until the queue is emptied, unless processing is  *)
(* halted. In particular no wake-up of the session thread gets lost.         *)
CommandsDispatched == []<>(queue = <<>> \/ IsDisabled(looper))

(* After a request to stop, which closes the service, this loop ends and the *)
(* subsystem is told so, whatever the loop was about to do. There is one     *)
(* exception: when close() or reset() waits for a check point the ending     *)
(* loop does not pass, it keeps the outer lock forever, and the session      *)
(* thread, which needs this lock to end, waits for it.                       *)
StopCompletes ==
    \A l \in 1 .. MaxLoops :
        (loop = l /\ running /\ ~service)
           ~> ((\E s \in signals : s.loop = l) \/ [](outer = "mgr"))
=============================================================================
