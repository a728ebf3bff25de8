------------------------------- MODULE Looper -------------------------------
(***************************************************************************)
(* Control logic of the session loop (steam/control/looper.hpp): decides   *)
(* when the loop has to act, when a builder run is due and when to quit.   *)
(* Time is counted in units of the short delay. As only the time since     *)
(* gotDirty_ matters, it is kept as an age, which stops to grow once the   *)
(* extended builder timeout is exceeded.                                   *)
(***************************************************************************)
EXTENDS Naturals

CONSTANTS WakeTimeout,       \* wakeTimeout_ms()
          SlowdownFactor     \* slowdownFactor()

ASSUME LooperAssumption == WakeTimeout \in Nat \ {0} /\ SlowdownFactor \in Nat \ {0}

VARIABLE looper    \* shutdown_, disabled_, inChange_, hasWork_, isDirty_, age of gotDirty_

MaxBuildTimeout == WakeTimeout * SlowdownFactor

LooperType == [shutdown: BOOLEAN, disabled: BOOLEAN, inChange: BOOLEAN,
               hasWork: BOOLEAN, isDirty: BOOLEAN, age: 0 .. MaxBuildTimeout + 1]

NewLooper == [shutdown |-> FALSE, disabled |-> FALSE, inChange |-> FALSE,
              hasWork |-> FALSE, isDirty |-> FALSE, age |-> 0]

ForceBuild(l) == l.isDirty /\ l.age > MaxBuildTimeout
IsDying(l)    == l.shutdown
IsDisabled(l) == l.disabled \/ IsDying(l)
UseTimeout(l) == l.isDirty /\ ~IsDisabled(l)
IsWorking(l)  == l.hasWork /\ ~IsDisabled(l)
IdleBuild(l)  == l.isDirty /\ ~l.hasWork
RunBuild(l)   == (IdleBuild(l) \/ ForceBuild(l)) /\ ~IsDisabled(l)

(* Mutant: the request to stop merely disables processing. *)
ShutdownDisables(l) == [l EXCEPT !.disabled = TRUE]

TriggerShutdown(l) == [l EXCEPT !.shutdown = TRUE]
EnableProcessing(l, yes) == [l EXCEPT !.disabled = ~yes]

(* Mutant: the dirty state persists after the builder run. *)
KeepDirty(l) == [l EXCEPT !.inChange = FALSE]

MarkStateProcessed(l) == [l EXCEPT !.inChange = FALSE,
                                   !.isDirty  = @ /\ ~RunBuild(l)]

HasPendingChanges(l) == l.inChange

(***************************************************************************)
(* requireAction(): evaluated as predicate of the wait, under the lock.    *)
(* The answer is ProceedImmediately, the other effects are on the state.   *)
(***************************************************************************)
Fetched(l, pending) == [l EXCEPT !.hasWork = pending]

ProceedImmediately(l, pending) ==
    LET f == Fetched(l, pending) IN IsWorking(f) \/ ForceBuild(f) \/ IsDying(f)

(* Mutant: a change is only announced when the loop shall proceed at once. *)
RequireActionEager(l, pending) ==
    LET f == Fetched(l, pending)
    IN  [f EXCEPT !.inChange = IsDying(f) \/ ForceBuild(f),
                  !.isDirty  = @ \/ IsWorking(f),
                  !.age      = IF IsWorking(f) /\ ~f.isDirty THEN 0 ELSE @]

RequireAction(l, pending) ==
    LET f == Fetched(l, pending)
    IN  [f EXCEPT !.inChange = ProceedImmediately(l, pending) \/ UseTimeout(f),
                  !.isDirty  = @ \/ IsWorking(f),
                  !.age      = IF IsWorking(f) /\ ~f.isDirty THEN 0 ELSE @]

GetTimeout(l) ==
    IF ~UseTimeout(l) THEN 0
    ELSE WakeTimeout * (IF l.isDirty /\ ~IsWorking(l) THEN 1 ELSE SlowdownFactor)

(* a unit of time goes by *)
Aged(l) == [l EXCEPT !.age = IF l.isDirty /\ @ <= MaxBuildTimeout THEN @ + 1 ELSE @]
=============================================================================
