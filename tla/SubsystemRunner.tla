-------------------------- MODULE SubsystemRunner --------------------------
(***************************************************************************)
(* Startup and shutdown of the application: main() pulls up subsystems in  *)
(* order of their dependencies, waits for their termination and leaves     *)
(* with an exit code (common/subsystem-runner.hpp, common/appstate.cpp,    *)
(* lumiera/main.cpp). A subsystem follows the contract of common/subsys.hpp*)
(* with the variations found: SteamDispatcher can be started again, the    *)
(* GUI is deaf to a shutdown trigger until it has opened its notification  *)
(* interface, the DummyPlayer terminates within the trigger function.      *)
(* The lock of the runner is held by main() as long as the stack of nested *)
(* triggerStartup() calls is not empty; all else under lock is one step.   *)
(***************************************************************************)
EXTENDS Naturals, Sequences, SequencesExt

CONSTANTS Subsystems,
          Prereq,       \* subsystem -> sequence of its prerequisites
          Primary,      \* those offered to maybeStart() in main(), in order
          Wanted,       \* shouldStart()
          Spontaneous,  \* may end without being asked to
          Failing,      \* may end with an error
          StartFails,   \* start() may throw
          StartRefused, \* start() may return false
          Synchronous,  \* triggerShutdown() returns after termination
          DeafAtStart,  \* triggerShutdown() has no effect for some time
          MaxStarts     \* bound: starts of the same subsystem

ASSUME RunnerAssumption ==
    /\ Prereq \in [Subsystems -> Seq(Subsystems)]
    /\ Primary \in Seq(Subsystems)
    /\ \A set \in {Wanted, Spontaneous, Failing, StartFails, StartRefused,
                 Synchronous, DeafAtStart} :
          set \subseteq Subsystems
    /\ Synchronous \cap Spontaneous = {}
    /\ MaxStarts \in Nat

VARIABLES up,         \* subsystems with isRunning()
          told,       \* those which will react to a shutdown trigger received
          deaf,       \* those not able to receive it yet
          missed,     \* history: those which got it while deaf
          tried,      \* history: those whose start() was called
          starts,     \* subsystem -> number of starts
          pending,    \* ended subsystems whose SigTerm callback is not yet handled
          running,    \* running_: the set of those managed by the SubsystemRunner
          emergency,  \* SubsystemRunner::emergency_
          main,       \* main thread: next step
          todo,       \* remaining primary subsystems
          stack,      \* nested calls of triggerStartup()
          exitCode

sysVars  == <<up, told, deaf, missed, tried, starts, pending>>
mainVars == <<main, todo, stack, exitCode>>
vars == <<sysVars, running, emergency, mainVars>>

NormalExit    == "NORMAL_EXIT"
EmergencyExit == "CLEAN_EMERGENCY_EXIT"

Signal == [sys: Subsystems, start: 1 .. MaxStarts, problem: BOOLEAN]

Init ==
    /\ up = {} /\ told = {} /\ deaf = {} /\ missed = {} /\ tried = {} /\ pending = {}
    /\ starts = [s \in Subsystems |-> 0]
    /\ running = {} /\ emergency = FALSE
    /\ main = "start" /\ todo = Primary /\ stack = <<>> /\ exitCode = "none"

Locked == stack # <<>>

(***************************************************************************)
(* Trigger the shutdown of a set of subsystems. Those which terminate at   *)
(* once call sigTerm() recursively, which takes them off the list and      *)
(* triggers all the others on the list. The code erases them while a loop  *)
(* over this very list is underway; modelled is that this loop visits the  *)
(* elements remaining, as it does without reallocation of the vector. One  *)
(* not running ignores the trigger and gives no signal.                    *)
(***************************************************************************)
TriggerShutdown(set, list) ==
    LET sync  == set \cap Synchronous \cap up
        all   == IF sync = {} THEN set ELSE set \cup list
        ended == all \cap Synchronous
    IN  /\ up' = up \ ended
        /\ told' = told \cup ((all \cap up) \ (deaf \cup ended))
        /\ missed' = missed \cup (all \cap up \cap deaf)
        /\ running' = list \ ended

ShutdownAll(list) == TriggerShutdown(list, list)

-----------------------------------------------------------------------------
(* main(): maybeStart() for each of the primary subsystems, then wait *)

MaybeRun ==
    /\ main = "start" /\ ~Locked /\ todo # <<>>
    /\ LET s == Head(todo)
       IN  stack' = IF s \notin up /\ s \in Wanted
                    THEN <<[sys |-> s, at |-> "entry", open |-> Prereq[s]]>>
                    ELSE <<>>
    /\ todo' = Tail(todo)
    /\ UNCHANGED <<sysVars, running, emergency, main, exitCode>>

MaybeWait ==
    /\ main = "start" /\ ~Locked /\ todo = <<>>
    /\ main' = "wait"
    /\ UNCHANGED <<sysVars, running, emergency, todo, stack, exitCode>>

(* triggerStartup() *)
Call    == Last(stack)
Return  == stack' = Front(stack)
Proceed(step) == stack' = [stack EXCEPT ![Len(stack)].at = step]
Throw   == main' = "abort" /\ stack' = <<>>

(* Mutant: the prerequisites are left to be started by somebody else. *)
EnterDirectly ==
    /\ Locked /\ Call.at = "entry"
    /\ IF Call.sys \in up THEN Return ELSE Proceed("start")
    /\ UNCHANGED <<sysVars, running, emergency, main, todo, exitCode>>

EnterStartup ==
    /\ Locked /\ Call.at = "entry"
    /\ IF Call.sys \in up
       THEN Return
       ELSE IF Call.open = <<>>
       THEN Proceed("start")
       ELSE LET p == Head(Call.open)
            IN  stack' = Append([stack EXCEPT ![Len(stack)].open = Tail(@)],
                                [sys |-> p, at |-> "entry", open |-> Prereq[p]])
    /\ UNCHANGED <<sysVars, running, emergency, main, todo, exitCode>>

StartSubsystem ==
    /\ Locked /\ Call.at = "start"
    /\ LET s == Call.sys
       IN  /\ starts[s] < MaxStarts
           /\ starts' = [starts EXCEPT ![s] = @ + 1]
           /\ up' = up \cup {s} /\ told' = told \ {s}
           /\ deaf' = deaf \cup ({s} \cap DeafAtStart)
           /\ missed' = missed \ {s} /\ tried' = tried \cup {s}
    /\ Proceed("check")
    /\ UNCHANGED <<pending, running, emergency, main, todo, exitCode>>

(* start() returns false: the subsystem is not managed, yet checked *)
StartRefuses ==
    /\ Locked /\ Call.at = "start" /\ Call.sys \in StartRefused
    /\ tried' = tried \cup {Call.sys}
    /\ Proceed("prereq")
    /\ UNCHANGED <<up, told, deaf, missed, starts, pending,
                   running, emergency, main, todo, exitCode>>

StartThrows ==
    /\ Locked /\ Call.at = "start" /\ Call.sys \in StartFails
    /\ tried' = tried \cup {Call.sys}
    /\ Throw
    /\ UNCHANGED <<up, told, deaf, missed, starts, pending, running, emergency, todo, exitCode>>

AdoptStarted ==
    /\ Locked /\ Call.at = "check"
    /\ IF Call.sys \in up
       THEN running' = running \cup {Call.sys} /\ Proceed("prereq") /\ UNCHANGED main
       ELSE Throw /\ UNCHANGED running
    /\ UNCHANGED <<sysVars, emergency, todo, exitCode>>

CheckPrerequisites ==
    /\ Locked /\ Call.at = "prereq"
    /\ IF ToSet(Prereq[Call.sys]) \subseteq up
       THEN Return /\ UNCHANGED <<main, up, told, missed, running>>
       ELSE Throw /\ TriggerShutdown({Call.sys}, running)
    /\ UNCHANGED <<deaf, tried, starts, pending, emergency, todo, exitCode>>

(* abort(): main() catches the exception *)
AbortEmergency ==
    /\ main = "abort"
    /\ main' = "shutdown" /\ emergency' = TRUE
    /\ UNCHANGED <<sysVars, running, todo, stack, exitCode>>

AbortShutdown ==
    /\ main = "shutdown"
    /\ main' = "wait"
    /\ ShutdownAll(running)
    /\ UNCHANGED <<deaf, tried, starts, pending, emergency, todo, stack, exitCode>>

AllDead == running = {}

Exit(code) == main' = "exit" /\ exitCode' = code

(* Mutant: the blocking wait ends with the first termination signal. *)
WaitForAny ==
    /\ main = "wait"
    /\ emergency \/ \E s \in Subsystems : starts[s] > 0 /\ s \notin up
    /\ IF emergency THEN main' = "unwind" /\ UNCHANGED exitCode ELSE Exit(NormalExit)
    /\ UNCHANGED <<sysVars, running, emergency, todo, stack>>

Wait ==
    /\ main = "wait"
    /\ AllDead \/ emergency
    /\ IF emergency THEN main' = "unwind" /\ UNCHANGED exitCode ELSE Exit(NormalExit)
    /\ UNCHANGED <<sysVars, running, emergency, todo, stack>>

(* in emergency: a limited wait; it ends when all are dead or by timeout *)
Unwind(timeout) ==
    /\ main = "unwind"
    /\ AllDead \/ timeout
    /\ Exit(EmergencyExit)
    /\ UNCHANGED <<sysVars, running, emergency, todo, stack>>

-----------------------------------------------------------------------------
(* Subsystems, each with a thread of its own *)

OpenInterface(s) ==
    /\ s \in deaf \cap up
    /\ deaf' = deaf \ {s}
    /\ UNCHANGED <<up, told, missed, tried, starts, pending, running, emergency, mainVars>>

Terminate(s) ==
    /\ s \in up \ Synchronous
    /\ up' = up \ {s} /\ told' = told \ {s}
    /\ deaf' = deaf \ {s} /\ missed' = missed \ {s}
    /\ \E problem \in BOOLEAN :
          /\ problem => s \in Failing
          /\ pending' = pending \cup {[sys |-> s, start |-> starts[s], problem |-> problem]}
    /\ UNCHANGED <<tried, starts, running, emergency, mainVars>>

EndsOnDemand(s)      == s \in told /\ Terminate(s)
EndsSpontaneously(s) == s \in Spontaneous /\ Terminate(s)

(* Mutant: the other subsystems are not asked to shut down. *)
SigTermAlone(e) ==
    /\ e \in pending /\ ~Locked /\ main # "exit"
    /\ pending' = pending \ {e}
    /\ emergency' = (emergency \/ e.problem)
    /\ running' = running \ {e.sys}
    /\ UNCHANGED <<up, told, deaf, missed, tried, starts, mainVars>>

(* sigTerm(), as long as there is a SubsystemRunner *)
SigTerm(e) ==
    /\ e \in pending /\ ~Locked /\ main # "exit"
    /\ pending' = pending \ {e}
    /\ emergency' = (emergency \/ e.problem)
    /\ ShutdownAll(running \ {e.sys})
    /\ UNCHANGED <<deaf, tried, starts, mainVars>>

-----------------------------------------------------------------------------
MainStep == \/ MaybeRun \/ MaybeWait
            \/ EnterStartup \/ StartSubsystem \/ StartRefuses \/ StartThrows
            \/ AdoptStarted \/ CheckPrerequisites
            \/ AbortEmergency \/ AbortShutdown
            \/ Wait \/ \E timeout \in BOOLEAN : Unwind(timeout)

Next == \/ MainStep
        \/ \E s \in Subsystems : OpenInterface(s) \/ EndsOnDemand(s) \/ EndsSpontaneously(s)
        \/ \E e \in pending : SigTerm(e)

(* Subsystems react to the trigger and signal their end, main() goes on.   *)
(* Nobody is forced to terminate spontaneously.                            *)
Fairness == /\ WF_vars(MainStep)
            /\ \A s \in Subsystems : WF_vars(OpenInterface(s)) /\ WF_vars(EndsOnDemand(s))
            /\ \A e \in Signal : WF_vars(SigTerm(e))

Spec == Init /\ [][Next]_vars /\ Fairness

-----------------------------------------------------------------------------
Ended(s) == s \notin up /\ starts[s] > 0

(* No subsystem ended and was started once more during startup. *)
NoRestart == \A s \in Subsystems : starts[s] <= 1

(***************************************************************************)
(* subsystem-runner.hpp:96 "The #wait() function returns after shutdown of *)
(* all subsystems": upon normal exit, nothing ever started is running or   *)
(* still has to call back into the SubsystemRunner, which is gone. A       *)
(* subsystem started twice is an exception: the signal of its first life   *)
(* takes it off the list while it is running again.                        *)
(***************************************************************************)
CleanExit == exitCode = NormalExit /\ NoRestart => up = {} /\ pending = {}

(***************************************************************************)
(* Startup by dependencies, all or nothing. start() is called only after   *)
(* start() was called for each prerequisite. When main() has pulled up all *)
(* and goes on to wait, every subsystem in operation had its prerequisites *)
(* started as well, even though start() may return false. And when startup *)
(* failed, all those in operation were asked to shut down, be it that the  *)
(* GUI did not get it; apart from subsystems started twice, see CleanExit. *)
(***************************************************************************)
StartupAllOrNothing ==
    [][/\ \A s \in tried' \ tried : ToSet(Prereq[s]) \subseteq tried
       /\ main = "start" /\ main' = "wait" /\ ~emergency =>
             \A s \in up : \A p \in ToSet(Prereq[s]) : starts[p] > 0
       /\ main = "shutdown" /\ main' = "wait" /\ NoRestart => up' \subseteq told' \cup missed']_vars

(***************************************************************************)
(* Awakened by a termination signal from one of the subsystems, the others *)
(* are terminated and the application exits (subsystem-runner.hpp:95-97),  *)
(* unless a subsystem goes on that was triggered while not able to receive *)
(* the trigger, which is given only once (guifacade.cpp:128-133).          *)
(***************************************************************************)
ShutdownCascades ==
    (\E s \in Subsystems : Ended(s)) ~> (main = "exit" \/ [](up \cap missed # {}))
=============================================================================
