----------------------- MODULE SteamDispatcherProofs -----------------------
(***************************************************************************)
(* The session loop: its object is kept as long as others rely on it, a    *)
(* session is dismantled only when the loop is at rest, and the end of     *)
(* each thread is signalled once.                                          *)
(***************************************************************************)
EXTENDS SteamDispatcher, FiniteSetTheorems, TLAPS

(* The functions of the Looper keep its state well formed. *)
LEMMA LooperTyped ==
    ASSUME NEW l \in LooperType, NEW b \in BOOLEAN
    PROVE  /\ NewLooper \in LooperType
           /\ TriggerShutdown(l) \in LooperType
           /\ EnableProcessing(l, b) \in LooperType
           /\ MarkStateProcessed(l) \in LooperType
           /\ RequireAction(l, b) \in LooperType
           /\ Aged(l) \in LooperType
           /\ GetTimeout(l) \in 0 .. MaxBuildTimeout
  <1>0. MaxBuildTimeout \in Nat /\ WakeTimeout \in Nat /\ WakeTimeout <= MaxBuildTimeout
    BY LooperAssumption DEF MaxBuildTimeout
  <1>1. NewLooper \in LooperType
    BY <1>0 DEF LooperType, NewLooper
  <1>2. TriggerShutdown(l) \in LooperType /\ EnableProcessing(l, b) \in LooperType
    BY DEF LooperType, TriggerShutdown, EnableProcessing
  <1>3. MarkStateProcessed(l) \in LooperType
    BY DEF LooperType, MarkStateProcessed, RunBuild, IdleBuild, ForceBuild, IsDisabled, IsDying
  <1>4. RequireAction(l, b) \in LooperType
    <2> DEFINE f == Fetched(l, b)
               proceed == ProceedImmediately(l, b) \/ UseTimeout(f)
               age == IF IsWorking(f) /\ ~f.isDirty THEN 0 ELSE f.age
    <2>1. f \in LooperType
      BY DEF Fetched, LooperType
    <2>2. proceed \in BOOLEAN
      BY DEF ProceedImmediately, UseTimeout
    <2>3. (f.isDirty \/ IsWorking(f)) \in BOOLEAN
      OBVIOUS
    <2>4. age \in 0 .. MaxBuildTimeout + 1
      BY <1>0, <2>1 DEF LooperType
    <2>5. RequireAction(l, b) = [f EXCEPT !.inChange = proceed,
                                          !.isDirty = f.isDirty \/ IsWorking(f),
                                          !.age = age]
      BY DEF RequireAction
    <2> HIDE DEF f, proceed, age
    <2> QED
      BY <2>1, <2>2, <2>3, <2>4, <2>5 DEF LooperType
  <1>5. Aged(l) \in LooperType
    BY <1>0 DEF LooperType, Aged
  <1>6. GetTimeout(l) \in 0 .. MaxBuildTimeout
    BY <1>0 DEF GetTimeout, MaxBuildTimeout
  <1> QED
    BY <1>1, <1>2, <1>3, <1>4, <1>5, <1>6

(* Bounds which the types depend on: a session about to be pulled up was   *)
(* counted, and a living thread belongs to a loop.                         *)
Counted ==
    /\ pc # "off" => loop >= 1
    /\ mgr.at = "pullUp" \/ (mgr.reopen /\ mgr.at \notin {"idle", "activate"}) => opens < MaxOpens

LEMMA StepCounted == ASSUME TypeOK, Counted, [Next]_vars PROVE Counted'
  <1> USE DEF loopVars, lockVars, actorVars, historyVars, switchVars
  <1>1. ASSUME ShallLoop
        PROVE  Counted'
    BY <1>1, DispatcherAssumption DEF ShallLoop, TypeOK, ManagerSteps, Counted
  <1>2. ASSUME AwaitAction
        PROVE  Counted'
    BY <1>2, DispatcherAssumption DEF AwaitAction, CheckAction, TypeOK, ManagerSteps, Counted
  <1>3. ASSUME Awake
        PROVE  Counted'
    BY <1>3, DispatcherAssumption DEF Awake, CheckAction, TypeOK, ManagerSteps, Counted
  <1>4. ASSUME Decide
        PROVE  Counted'
    BY <1>4, DispatcherAssumption DEF Decide, TypeOK, ManagerSteps, Counted
  <1>5. ASSUME StartBuilder
        PROVE  Counted'
    BY <1>5, DispatcherAssumption DEF StartBuilder, TypeOK, ManagerSteps, Counted
  <1>6. ASSUME FetchCommand
        PROVE  Counted'
    BY <1>6, DispatcherAssumption DEF FetchCommand, TypeOK, ManagerSteps, Counted
  <1>7. ASSUME DispatchCommand
        PROVE  Counted'
    BY <1>7, DispatcherAssumption DEF DispatchCommand, TypeOK, ManagerSteps, Counted
  <1>8. ASSUME UpdateState
        PROVE  Counted'
    BY <1>8, DispatcherAssumption DEF UpdateState, TypeOK, ManagerSteps, Counted
  <1>9. ASSUME NotifyState
        PROVE  Counted'
    BY <1>9, DispatcherAssumption DEF NotifyState, NotifyAll, TypeOK, ManagerSteps, Counted
  <1>10. ASSUME EndRunningLoopState
        PROVE  Counted'
    BY <1>10, DispatcherAssumption DEF EndRunningLoopState, TypeOK, ManagerSteps, Counted
  <1>11. ASSUME TermNotification
        PROVE  Counted'
    BY <1>11, DispatcherAssumption DEF TermNotification, TypeOK, ManagerSteps, Counted
  <1>12. ASSUME OpenService
        PROVE  Counted'
    BY <1>12, DispatcherAssumption DEF OpenService, TypeOK, ManagerSteps, Counted
  <1>13. ASSUME ActivateOnStart
        PROVE  Counted'
    BY <1>13, DispatcherAssumption DEF ActivateOnStart, NotifyAll, TypeOK, ManagerSteps, Counted
  <1>14. ASSUME Deactivate
        PROVE  Counted'
    BY <1>14, DispatcherAssumption DEF Deactivate, SetProcessing, NotifyAll, At, Goto,
       TypeOK, ManagerSteps, Counted
  <1>15. ASSUME AwaitDeactivation
        PROVE  Counted'
    BY <1>15, DispatcherAssumption DEF AwaitDeactivation, At, Goto, TypeOK, ManagerSteps,
       Counted
  <1>16. ASSUME CheckPoint
        PROVE  Counted'
    BY <1>16, DispatcherAssumption DEF CheckPoint, At, Goto, TypeOK, ManagerSteps, Counted
  <1>17. ASSUME BlockOnState
        PROVE  Counted'
    BY <1>17, DispatcherAssumption DEF BlockOnState, At, Goto, TypeOK, ManagerSteps, Counted
  <1>18. ASSUME Deconfigure
        PROVE  Counted'
    BY <1>18, DispatcherAssumption DEF Deconfigure, At, Goto, TypeOK, ManagerSteps, Counted
  <1>19. ASSUME PullUp
        PROVE  Counted'
    BY <1>19, DispatcherAssumption DEF PullUp, At, Goto, TypeOK, ManagerSteps, Counted
  <1>20. ASSUME Activate
        PROVE  Counted'
    BY <1>20, DispatcherAssumption DEF Activate, SetProcessing, NotifyAll, At, Goto, TypeOK,
       ManagerSteps, Counted
  <1>21. ASSUME Tick
        PROVE  Counted'
    BY <1>21, DispatcherAssumption DEF Tick, TypeOK, ManagerSteps, Counted
  <1>22. ASSUME StartLoop
        PROVE  Counted'
    BY <1>22, DispatcherAssumption DEF StartLoop, TypeOK, ManagerSteps, Counted
  <1>23. ASSUME RequestStop
        PROVE  Counted'
    BY <1>23, DispatcherAssumption DEF RequestStop, NotifyAll, TypeOK, ManagerSteps, Counted
  <1>24. ASSUME CloseSession
        PROVE  Counted'
    BY <1>24, DispatcherAssumption DEF CloseSession, At, TypeOK, ManagerSteps, Counted
  <1>25. ASSUME OpenSession
        PROVE  Counted'
    BY <1>25, DispatcherAssumption DEF OpenSession, At, TypeOK, ManagerSteps, Counted
  <1>26. ASSUME NEW c \in Clients, TriggerCommand(c)
        PROVE  Counted'
    BY <1>26, DispatcherAssumption DEF TriggerCommand, TypeOK, ManagerSteps, Counted
  <1>27. ASSUME NEW c \in Clients, Enqueue(c)
        PROVE  Counted'
    BY <1>27, DispatcherAssumption DEF Enqueue, NotifyAll, TypeOK, ManagerSteps, Counted
  <1>28. ASSUME UNCHANGED vars
        PROVE  Counted'
    BY <1>28 DEF vars, TypeOK, ManagerSteps, Counted
  <1> QED
    BY <1>1, <1>2, <1>3, <1>4, <1>5, <1>6, <1>7, <1>8, <1>9, <1>10, <1>11, <1>12, <1>13,
       <1>14, <1>15, <1>16, <1>17, <1>18, <1>19, <1>20, <1>21, <1>22, <1>23, <1>24, <1>25,
       <1>26, <1>27, <1>28 DEF Next, LoopStep, StartStep, ManagerStep, Request

LEMMA EmptyQueue == <<>> \in Seq(1 .. MaxCmds)
  OBVIOUS

LEMMA StepTyped == ASSUME TypeOK, Counted, [Next]_vars PROVE TypeOK'
  <1> USE DEF loopVars, lockVars, actorVars, historyVars, switchVars
  <1> USE DispatcherAssumption
  <1>0. /\ {NewLooper, TriggerShutdown(looper), MarkStateProcessed(looper), Aged(looper)}
              \subseteq LooperType
        /\ \A b \in BOOLEAN : {EnableProcessing(looper, b), RequireAction(looper, b)}
                                 \subseteq LooperType
        /\ GetTimeout(looper) \in 0 .. MaxBuildTimeout /\ MaxBuildTimeout \in Nat
    <2>1. looper \in LooperType /\ MaxBuildTimeout \in Nat
      BY LooperAssumption DEF TypeOK, MaxBuildTimeout
    <2> QED
      BY <2>1, LooperTyped
  <1>1. ASSUME ShallLoop
        PROVE  TypeOK'
    BY <1>1, <1>0 DEF ShallLoop, TypeOK, Steps, ManagerSteps
  <1>2. ASSUME AwaitAction
        PROVE  TypeOK'
    <2>1. looper' \in LooperType
      BY <1>0, <1>2 DEF AwaitAction, CheckAction
    <2>2. GetTimeout(looper) \in 0 .. MaxBuildTimeout
      BY <1>0 DEF TypeOK
    <2>3. pc' \in Steps /\ timeout' \in 0 .. MaxBuildTimeout /\ waiting' \subseteq {"thr", "mgr"}
      BY <1>0, <1>2, <2>2 DEF AwaitAction, CheckAction, TypeOK, Steps
    <2> QED
      BY <1>2, <2>1, <2>3 DEF AwaitAction, TypeOK
  <1>3. ASSUME Awake
        PROVE  TypeOK'
    <2>1. looper' \in LooperType
      BY <1>0, <1>3 DEF Awake, CheckAction
    <2>2. timeout \in 0 .. MaxBuildTimeout
      BY <1>0 DEF TypeOK
    <2>3. pc' \in Steps /\ timeout' \in 0 .. MaxBuildTimeout /\ waiting' \subseteq {"thr", "mgr"}
      BY <1>0, <1>3, <2>2 DEF Awake, CheckAction, TypeOK, Steps
    <2> QED
      BY <1>3, <2>1, <2>3 DEF Awake, TypeOK
  <1>4. ASSUME Decide
        PROVE  TypeOK'
    BY <1>4, <1>0 DEF Decide, TypeOK, Steps, ManagerSteps
  <1>5. ASSUME StartBuilder
        PROVE  TypeOK'
    BY <1>5, <1>0 DEF StartBuilder, TypeOK, Steps, ManagerSteps
  <1>6. ASSUME FetchCommand
        PROVE  TypeOK'
    <2>1. queue' \in Seq(1 .. MaxCmds)
      <3>1. queue \in Seq(1 .. MaxCmds) /\ (queue # <<>> => Tail(queue) \in Seq(1 .. MaxCmds))
        BY DEF TypeOK
      <3> QED
        BY <1>6, <3>1 DEF FetchCommand
    <2> QED
      BY <1>6, <2>1 DEF FetchCommand, TypeOK, Steps
  <1>7. ASSUME DispatchCommand
        PROVE  TypeOK'
    BY <1>7, <1>0 DEF DispatchCommand, TypeOK, Steps, ManagerSteps
  <1>8. ASSUME UpdateState
        PROVE  TypeOK'
    BY <1>8, <1>0 DEF UpdateState, TypeOK, Steps, ManagerSteps
  <1>9. ASSUME NotifyState
        PROVE  TypeOK'
    BY <1>9, <1>0 DEF NotifyState, NotifyAll, TypeOK, Steps, ManagerSteps
  <1>10. ASSUME EndRunningLoopState
        PROVE  TypeOK'
    <2>1. [loop |-> loop, failed |-> failed] \in [loop: 1 .. MaxLoops, failed: BOOLEAN]
      BY <1>10 DEF EndRunningLoopState, Counted, TypeOK
    <2>2. queue' \in Seq(1 .. MaxCmds) /\ looper' \in LooperType
      BY <1>0, <1>10, EmptyQueue DEF EndRunningLoopState
    <2>3. ending' \subseteq [loop: 1 .. MaxLoops, failed: BOOLEAN]
      BY <1>10, <2>1 DEF EndRunningLoopState, TypeOK
    <2> QED
      BY <1>10, <2>2, <2>3 DEF EndRunningLoopState, TypeOK, Steps
  <1>11. ASSUME TermNotification
        PROVE  TypeOK'
    BY <1>11, <1>0 DEF TermNotification, TypeOK, Steps, ManagerSteps
  <1>12. ASSUME OpenService
        PROVE  TypeOK'
    BY <1>12, <1>0 DEF OpenService, TypeOK, Steps, ManagerSteps
  <1>13. ASSUME ActivateOnStart
        PROVE  TypeOK'
    BY <1>13, <1>0 DEF ActivateOnStart, NotifyAll, TypeOK, Steps, ManagerSteps
  <1>14. ASSUME Deactivate
        PROVE  TypeOK'
    BY <1>14, <1>0 DEF Deactivate, SetProcessing, NotifyAll, At, Goto, TypeOK, Steps,
       ManagerSteps
  <1>15. ASSUME AwaitDeactivation
        PROVE  TypeOK'
    BY <1>15, <1>0 DEF AwaitDeactivation, At, Goto, TypeOK, Steps, ManagerSteps
  <1>16. ASSUME CheckPoint
        PROVE  TypeOK'
    BY <1>16, <1>0 DEF CheckPoint, At, Goto, TypeOK, Steps, ManagerSteps
  <1>17. ASSUME BlockOnState
        PROVE  TypeOK'
    BY <1>17, <1>0 DEF BlockOnState, At, Goto, TypeOK, Steps, ManagerSteps
  <1>18. ASSUME Deconfigure
        PROVE  TypeOK'
    BY <1>18, <1>0 DEF Deconfigure, At, Goto, TypeOK, Steps, ManagerSteps
  <1>19. ASSUME PullUp
        PROVE  TypeOK'
    <2>1. opens + 1 \in 0 .. MaxOpens
      BY <1>19 DEF PullUp, At, Counted, TypeOK
    <2> QED
      BY <1>19, <2>1 DEF PullUp, At, Goto, TypeOK, ManagerSteps
  <1>20. ASSUME Activate
        PROVE  TypeOK'
    BY <1>20, <1>0 DEF Activate, SetProcessing, NotifyAll, At, Goto, TypeOK, Steps, ManagerSteps
  <1>21. ASSUME Tick
        PROVE  TypeOK'
    BY <1>21, <1>0 DEF Tick, TypeOK, Steps, ManagerSteps
  <1>22. ASSUME StartLoop
        PROVE  TypeOK'
    <2>1. looper' \in LooperType
      BY <1>0, <1>22 DEF StartLoop
    <2>2. loop' \in 0 .. MaxLoops
      BY <1>22 DEF StartLoop, TypeOK
    <2> QED
      BY <1>22, <2>1, <2>2 DEF StartLoop, TypeOK, Steps
  <1>23. ASSUME RequestStop
        PROVE  TypeOK'
    BY <1>23, <1>0 DEF RequestStop, NotifyAll, TypeOK, Steps, ManagerSteps
  <1>24. ASSUME CloseSession
        PROVE  TypeOK'
    BY <1>24, <1>0 DEF CloseSession, At, TypeOK, Steps, ManagerSteps
  <1>25. ASSUME OpenSession
        PROVE  TypeOK'
    BY <1>25, <1>0 DEF OpenSession, At, TypeOK, Steps, ManagerSteps
  <1>26. ASSUME NEW c \in Clients, TriggerCommand(c)
        PROVE  TypeOK'
    BY <1>26, <1>0 DEF TriggerCommand, TypeOK, Steps, ManagerSteps
  <1>27. ASSUME NEW c \in Clients, Enqueue(c)
        PROVE  TypeOK'
    <2>1. fed + 1 \in 1 .. MaxCmds
      BY <1>27 DEF Enqueue, TypeOK
    <2>2. Append(queue, fed + 1) \in Seq(1 .. MaxCmds)
      BY <2>1 DEF TypeOK
    <2>3. fed' \in 0 .. MaxCmds /\ waiting' \subseteq {"thr", "mgr"}
      <3>1. waiting' = {} \/ waiting' = waiting
        BY <1>27 DEF Enqueue, NotifyAll
      <3>2. waiting' \subseteq {"thr", "mgr"}
        BY <3>1 DEF TypeOK
      <3>3. fed' \in 0 .. MaxCmds
        BY <1>27, <2>1 DEF Enqueue
      <3> QED
        BY <3>2, <3>3
    <2>5. queue' \in Seq(1 .. MaxCmds)
      <3>1. queue \in Seq(1 .. MaxCmds)
        BY DEF TypeOK
      <3> QED
        BY <1>27, <2>2, <3>1 DEF Enqueue
    <2>4. ref' \in [Clients -> 0 .. MaxLoops]
      BY <1>27 DEF Enqueue, TypeOK
    <2> QED
      BY <1>27, <2>3, <2>4, <2>5 DEF Enqueue, TypeOK
  <1>28. ASSUME UNCHANGED vars
        PROVE  TypeOK'
    BY <1>28 DEF vars, TypeOK, Steps, ManagerSteps
  <1> QED
    BY <1>1, <1>2, <1>3, <1>4, <1>5, <1>6, <1>7, <1>8, <1>9, <1>10, <1>11, <1>12, <1>13,
       <1>14, <1>15, <1>16, <1>17, <1>18, <1>19, <1>20, <1>21, <1>22, <1>23, <1>24, <1>25,
       <1>26, <1>27, <1>28 DEF Next, LoopStep, StartStep, ManagerStep, Request

(* Who owns the locks and the loop. Clients never hold the outer lock.     *)
Owned ==
    /\ outer \in {"free", "mgr", "run"}
    /\ outer = "run" <=> run # "idle"
    /\ outer = "run" => ~running /\ pc # "off"
    /\ outer # "run" => (running <=> pc # "off")
    /\ outer = "mgr" <=> mgr.at \in {"check", "block", "sleep"}
    /\ outer = "mgr" => running
    /\ service => pc # "off"

LEMMA StepOwned == ASSUME TypeOK, Owned, [Next]_vars PROVE Owned'
  <1> USE DEF loopVars, lockVars, actorVars, historyVars, switchVars
  <1>1. ASSUME ShallLoop
        PROVE  Owned'
    BY <1>1 DEF ShallLoop, TypeOK, ManagerSteps, Owned
  <1>2. ASSUME AwaitAction
        PROVE  Owned'
    BY <1>2 DEF AwaitAction, CheckAction, TypeOK, ManagerSteps, Owned
  <1>3. ASSUME Awake
        PROVE  Owned'
    BY <1>3 DEF Awake, CheckAction, TypeOK, ManagerSteps, Owned
  <1>4. ASSUME Decide
        PROVE  Owned'
    BY <1>4 DEF Decide, TypeOK, ManagerSteps, Owned
  <1>5. ASSUME StartBuilder
        PROVE  Owned'
    BY <1>5 DEF StartBuilder, TypeOK, ManagerSteps, Owned
  <1>6. ASSUME FetchCommand
        PROVE  Owned'
    BY <1>6 DEF FetchCommand, TypeOK, ManagerSteps, Owned
  <1>7. ASSUME DispatchCommand
        PROVE  Owned'
    BY <1>7 DEF DispatchCommand, TypeOK, ManagerSteps, Owned
  <1>8. ASSUME UpdateState
        PROVE  Owned'
    BY <1>8 DEF UpdateState, TypeOK, ManagerSteps, Owned
  <1>9. ASSUME NotifyState
        PROVE  Owned'
    BY <1>9 DEF NotifyState, NotifyAll, TypeOK, ManagerSteps, Owned
  <1>10. ASSUME EndRunningLoopState
        PROVE  Owned'
    BY <1>10 DEF EndRunningLoopState, TypeOK, ManagerSteps, Owned
  <1>11. ASSUME TermNotification
        PROVE  Owned'
    BY <1>11 DEF TermNotification, TypeOK, ManagerSteps, Owned
  <1>12. ASSUME OpenService
        PROVE  Owned'
    BY <1>12 DEF OpenService, TypeOK, ManagerSteps, Owned
  <1>13. ASSUME ActivateOnStart
        PROVE  Owned'
    BY <1>13 DEF ActivateOnStart, NotifyAll, TypeOK, ManagerSteps, Owned
  <1>14. ASSUME Deactivate
        PROVE  Owned'
    BY <1>14 DEF Deactivate, SetProcessing, NotifyAll, At, Goto, TypeOK, ManagerSteps, Owned
  <1>15. ASSUME AwaitDeactivation
        PROVE  Owned'
    BY <1>15 DEF AwaitDeactivation, At, Goto, TypeOK, ManagerSteps, Owned
  <1>16. ASSUME CheckPoint
        PROVE  Owned'
    BY <1>16 DEF CheckPoint, At, Goto, TypeOK, ManagerSteps, Owned
  <1>17. ASSUME BlockOnState
        PROVE  Owned'
    BY <1>17 DEF BlockOnState, At, Goto, TypeOK, ManagerSteps, Owned
  <1>18. ASSUME Deconfigure
        PROVE  Owned'
    BY <1>18 DEF Deconfigure, At, Goto, TypeOK, ManagerSteps, Owned
  <1>19. ASSUME PullUp
        PROVE  Owned'
    BY <1>19 DEF PullUp, At, Goto, TypeOK, ManagerSteps, Owned
  <1>20. ASSUME Activate
        PROVE  Owned'
    BY <1>20 DEF Activate, SetProcessing, NotifyAll, At, Goto, TypeOK, ManagerSteps, Owned
  <1>21. ASSUME Tick
        PROVE  Owned'
    BY <1>21 DEF Tick, TypeOK, ManagerSteps, Owned
  <1>22. ASSUME StartLoop
        PROVE  Owned'
    BY <1>22 DEF StartLoop, TypeOK, ManagerSteps, Owned
  <1>23. ASSUME RequestStop
        PROVE  Owned'
    BY <1>23 DEF RequestStop, NotifyAll, TypeOK, ManagerSteps, Owned
  <1>24. ASSUME CloseSession
        PROVE  Owned'
    BY <1>24 DEF CloseSession, At, TypeOK, ManagerSteps, Owned
  <1>25. ASSUME OpenSession
        PROVE  Owned'
    BY <1>25 DEF OpenSession, At, TypeOK, ManagerSteps, Owned
  <1>26. ASSUME NEW c \in Clients, TriggerCommand(c)
        PROVE  Owned'
    BY <1>26 DEF TriggerCommand, TypeOK, ManagerSteps, Owned
  <1>27. ASSUME NEW c \in Clients, Enqueue(c)
        PROVE  Owned'
    BY <1>27 DEF Enqueue, NotifyAll, TypeOK, ManagerSteps, Owned
  <1>28. ASSUME UNCHANGED vars
        PROVE  Owned'
    BY <1>28 DEF vars, TypeOK, ManagerSteps, Owned
  <1> QED
    BY <1>1, <1>2, <1>3, <1>4, <1>5, <1>6, <1>7, <1>8, <1>9, <1>10, <1>11, <1>12, <1>13,
       <1>14, <1>15, <1>16, <1>17, <1>18, <1>19, <1>20, <1>21, <1>22, <1>23, <1>24, <1>25,
       <1>26, <1>27, <1>28 DEF Next, LoopStep, StartStep, ManagerStep, Request

LEMMA InitTyped == Init => TypeOK /\ Counted /\ Owned
  <1>1. NewLooper \in LooperType /\ MaxBuildTimeout \in Nat
    BY LooperAssumption DEF NewLooper, LooperType, MaxBuildTimeout
  <1>2. Init => TypeOK
    <2> SUFFICES ASSUME Init PROVE TypeOK
      OBVIOUS
    <2>1. queue \in Seq(1 .. MaxCmds) /\ looper \in LooperType
      BY <1>1, EmptyQueue DEF Init
    <2>2. mgr \in [at: ManagerSteps, reopen: BOOLEAN] /\ ref \in [Clients -> 0 .. MaxLoops]
      BY DispatcherAssumption DEF Init, ManagerSteps
    <2>3. timeout \in 0 .. MaxBuildTimeout /\ loop \in 0 .. MaxLoops /\ fed \in 0 .. MaxCmds
          /\ opens \in 0 .. MaxOpens
      BY <1>1, DispatcherAssumption DEF Init
    <2> QED
      BY <2>1, <2>2, <2>3 DEF Init, TypeOK, Steps
  <1> QED
    BY <1>2 DEF Init, Counted, Owned

(* The loop object is not deleted by its thread while start() or a closing *)
(* session manager uses it, whatever the order of start, stop, failure,    *)
(* closing and commands.                                                   *)
THEOREM LoopKept == Spec => [](TypeOK /\ LoopKeptWhileUsed)
  <1>1. Init => TypeOK /\ Counted /\ Owned
    BY InitTyped
  <1>2. TypeOK /\ Counted /\ Owned /\ [Next]_vars => TypeOK' /\ Counted' /\ Owned'
    BY StepTyped, StepCounted, StepOwned
  <1>3. Owned => LoopKeptWhileUsed
    BY DEF Owned, LoopKeptWhileUsed
  <1> QED
    BY <1>1, <1>2, <1>3, PTL DEF Spec

-----------------------------------------------------------------------------
(* From deactivate() until the session is gone, the loop is disabled, unless *)
(* it was started in the meantime. A loop just built is not disabled.        *)

Closing == {"await", "check", "block", "sleep", "deconfigure"}

Halting ==
    /\ mgr.at \in Closing => ~active
    /\ mgr.at \in Closing => pc = "off" \/ looper.disabled \/ unhalted
    /\ run # "idle" => ~looper.disabled

(* Work is announced before it is done: a loop which has not announced a    *)
(* change has neither work nor a builder run ahead, unless it is disabled   *)
(* or was overtaken.                                                        *)
Announced ==
    /\ pc \in {"build", "fetch", "exec"} => looper.inChange \/ overtaken
    /\ pc \in Deciding =>
         looper.inChange \/ looper.disabled \/ looper.shutdown \/ overtaken
         \/ (~looper.hasWork /\ ~looper.isDirty)

Quiet == Halting /\ Announced /\ QuiescentAfterCheckpoint

LEMMA StepHalting ==
    ASSUME TypeOK, Owned, Halting, [Next]_vars
    PROVE  Halting'
  <1> USE DEF loopVars, lockVars, actorVars, historyVars, switchVars
  <1> USE DEF LooperType
  <1>1. ASSUME ShallLoop
        PROVE  Halting'
    BY <1>1 DEF ShallLoop, TypeOK, ManagerSteps, Owned, Halting, Closing
  <1>2. ASSUME AwaitAction
        PROVE  Halting'
    BY <1>2 DEF AwaitAction, CheckAction, RequireAction, ProceedImmediately, Fetched,
       UseTimeout, IsWorking, IsDisabled, IsDying, TypeOK, ManagerSteps, Owned, Halting,
       Closing
  <1>3. ASSUME Awake
        PROVE  Halting'
    BY <1>3 DEF Awake, CheckAction, RequireAction, ProceedImmediately, Fetched, UseTimeout,
       IsWorking, IsDisabled, IsDying, TypeOK, ManagerSteps, Owned, Halting, Closing
  <1>4. ASSUME Decide
        PROVE  Halting'
    BY <1>4 DEF Decide, RunBuild, IdleBuild, ForceBuild, IsWorking, IsDisabled, IsDying,
       TypeOK, ManagerSteps, Owned, Halting, Closing
  <1>5. ASSUME StartBuilder
        PROVE  Halting'
    BY <1>5 DEF StartBuilder, TypeOK, ManagerSteps, Owned, Halting, Closing
  <1>6. ASSUME FetchCommand
        PROVE  Halting'
    BY <1>6 DEF FetchCommand, TypeOK, ManagerSteps, Owned, Halting, Closing
  <1>7. ASSUME DispatchCommand
        PROVE  Halting'
    BY <1>7 DEF DispatchCommand, TypeOK, ManagerSteps, Owned, Halting, Closing
  <1>8. ASSUME UpdateState
        PROVE  Halting'
    BY <1>8 DEF UpdateState, MarkStateProcessed, TypeOK, ManagerSteps, Owned, Halting, Closing
  <1>9. ASSUME NotifyState
        PROVE  Halting'
    BY <1>9 DEF NotifyState, NotifyAll, TypeOK, ManagerSteps, Owned, Halting, Closing
  <1>10. ASSUME EndRunningLoopState
        PROVE  Halting'
    BY <1>10 DEF EndRunningLoopState, NewLooper, TypeOK, ManagerSteps, Owned, Halting, Closing
  <1>11. ASSUME TermNotification
        PROVE  Halting'
    BY <1>11 DEF TermNotification, TypeOK, ManagerSteps, Owned, Halting, Closing
  <1>12. ASSUME OpenService
        PROVE  Halting'
    BY <1>12 DEF OpenService, TypeOK, ManagerSteps, Owned, Halting, Closing
  <1>13. ASSUME ActivateOnStart
        PROVE  Halting'
    BY <1>13 DEF ActivateOnStart, NotifyAll, EnableProcessing, TypeOK, ManagerSteps, Owned,
       Halting, Closing
  <1>14. ASSUME Deactivate
        PROVE  Halting'
    BY <1>14 DEF Deactivate, SetProcessing, NotifyAll, At, Goto, EnableProcessing, TypeOK,
       ManagerSteps, Owned, Halting, Closing
  <1>15. ASSUME AwaitDeactivation
        PROVE  Halting'
    BY <1>15 DEF AwaitDeactivation, At, Goto, TypeOK, ManagerSteps, Owned, Halting, Closing
  <1>16. ASSUME CheckPoint
        PROVE  Halting'
    BY <1>16 DEF CheckPoint, At, Goto, HasPendingChanges, TypeOK, ManagerSteps, Owned, Halting,
       Closing
  <1>17. ASSUME BlockOnState
        PROVE  Halting'
    BY <1>17 DEF BlockOnState, At, Goto, TypeOK, ManagerSteps, Owned, Halting, Closing
  <1>18. ASSUME Deconfigure
        PROVE  Halting'
    BY <1>18 DEF Deconfigure, At, Goto, TypeOK, ManagerSteps, Owned, Halting, Closing
  <1>19. ASSUME PullUp
        PROVE  Halting'
    BY <1>19 DEF PullUp, At, Goto, TypeOK, ManagerSteps, Owned, Halting, Closing
  <1>20. ASSUME Activate
        PROVE  Halting'
    BY <1>20 DEF Activate, SetProcessing, NotifyAll, At, Goto, EnableProcessing, TypeOK,
       ManagerSteps, Owned, Halting, Closing
  <1>21. ASSUME Tick
        PROVE  Halting'
    BY <1>21 DEF Tick, Aged, TypeOK, ManagerSteps, Owned, Halting, Closing
  <1>22. ASSUME StartLoop
        PROVE  Halting'
    BY <1>22 DEF StartLoop, NewLooper, TypeOK, ManagerSteps, Owned, Halting, Closing
  <1>23. ASSUME RequestStop
        PROVE  Halting'
    BY <1>23 DEF RequestStop, NotifyAll, TriggerShutdown, TypeOK, ManagerSteps, Owned, Halting,
       Closing
  <1>24. ASSUME CloseSession
        PROVE  Halting'
    BY <1>24 DEF CloseSession, At, TypeOK, ManagerSteps, Owned, Halting, Closing
  <1>25. ASSUME OpenSession
        PROVE  Halting'
    BY <1>25 DEF OpenSession, At, TypeOK, ManagerSteps, Owned, Halting, Closing
  <1>26. ASSUME NEW c \in Clients, TriggerCommand(c)
        PROVE  Halting'
    BY <1>26 DEF TriggerCommand, TypeOK, ManagerSteps, Owned, Halting, Closing
  <1>27. ASSUME NEW c \in Clients, Enqueue(c)
        PROVE  Halting'
    BY <1>27 DEF Enqueue, NotifyAll, TypeOK, ManagerSteps, Owned, Halting, Closing
  <1>28. ASSUME UNCHANGED vars
        PROVE  Halting'
    BY <1>28 DEF vars, TypeOK, ManagerSteps, Owned, Halting, Closing
  <1> QED
    BY <1>1, <1>2, <1>3, <1>4, <1>5, <1>6, <1>7, <1>8, <1>9, <1>10, <1>11, <1>12, <1>13,
       <1>14, <1>15, <1>16, <1>17, <1>18, <1>19, <1>20, <1>21, <1>22, <1>23, <1>24, <1>25,
       <1>26, <1>27, <1>28 DEF Next, LoopStep, StartStep, ManagerStep, Request

LEMMA StepAnnounced == ASSUME TypeOK, Owned, Halting, Announced, [Next]_vars PROVE Announced'
  <1> USE DEF loopVars, lockVars, actorVars, historyVars, switchVars
  <1> USE DEF LooperType
  <1>1. ASSUME ShallLoop
        PROVE  Announced'
    BY <1>1 DEF ShallLoop, TypeOK, Halting, Closing, Announced, Deciding
  <1>2. ASSUME AwaitAction
        PROVE  Announced'
    BY <1>2 DEF AwaitAction, CheckAction, RequireAction, ProceedImmediately, Fetched,
       UseTimeout, IsWorking, IsDisabled, IsDying, TypeOK, Halting, Closing, Announced, Deciding
  <1>3. ASSUME Awake
        PROVE  Announced'
    BY <1>3 DEF Awake, CheckAction, RequireAction, ProceedImmediately, Fetched, UseTimeout,
       IsWorking, IsDisabled, IsDying, TypeOK, Halting, Closing, Announced, Deciding
  <1>4. ASSUME Decide
        PROVE  Announced'
    BY <1>4 DEF Decide, RunBuild, IdleBuild, ForceBuild, IsWorking, IsDisabled, IsDying,
       TypeOK, Halting, Closing, Announced, Deciding
  <1>5. ASSUME StartBuilder
        PROVE  Announced'
    BY <1>5 DEF StartBuilder, TypeOK, Halting, Closing, Announced, Deciding
  <1>6. ASSUME FetchCommand
        PROVE  Announced'
    BY <1>6 DEF FetchCommand, TypeOK, Halting, Closing, Announced, Deciding
  <1>7. ASSUME DispatchCommand
        PROVE  Announced'
    BY <1>7 DEF DispatchCommand, TypeOK, Halting, Closing, Announced, Deciding
  <1>8. ASSUME UpdateState
        PROVE  Announced'
    BY <1>8 DEF UpdateState, MarkStateProcessed, TypeOK, Halting, Closing, Announced, Deciding
  <1>9. ASSUME NotifyState
        PROVE  Announced'
    BY <1>9 DEF NotifyState, NotifyAll, TypeOK, Halting, Closing, Announced, Deciding
  <1>10. ASSUME EndRunningLoopState
        PROVE  Announced'
    BY <1>10 DEF EndRunningLoopState, NewLooper, TypeOK, Halting, Closing, Announced, Deciding
  <1>11. ASSUME TermNotification
        PROVE  Announced'
    BY <1>11 DEF TermNotification, TypeOK, Halting, Closing, Announced, Deciding
  <1>12. ASSUME OpenService
        PROVE  Announced'
    BY <1>12 DEF OpenService, TypeOK, Halting, Closing, Announced, Deciding
  <1>13. ASSUME ActivateOnStart
        PROVE  Announced'
    BY <1>13 DEF ActivateOnStart, NotifyAll, EnableProcessing, TypeOK, Halting, Closing, Announced, Deciding
  <1>14. ASSUME Deactivate
        PROVE  Announced'
    BY <1>14 DEF Deactivate, SetProcessing, NotifyAll, At, Goto, EnableProcessing, TypeOK,
       Halting, Closing, Announced, Deciding
  <1>15. ASSUME AwaitDeactivation
        PROVE  Announced'
    BY <1>15 DEF AwaitDeactivation, At, Goto, TypeOK, Halting, Closing, Announced, Deciding
  <1>16. ASSUME CheckPoint
        PROVE  Announced'
    BY <1>16 DEF CheckPoint, At, Goto, HasPendingChanges, TypeOK, Halting, Closing, Announced, Deciding
  <1>17. ASSUME BlockOnState
        PROVE  Announced'
    BY <1>17 DEF BlockOnState, At, Goto, TypeOK, Halting, Closing, Announced, Deciding
  <1>18. ASSUME Deconfigure
        PROVE  Announced'
    BY <1>18 DEF Deconfigure, At, Goto, TypeOK, Halting, Closing, Announced, Deciding
  <1>19. ASSUME PullUp
        PROVE  Announced'
    BY <1>19 DEF PullUp, At, Goto, TypeOK, Halting, Closing, Announced, Deciding
  <1>20. ASSUME Activate
        PROVE  Announced'
    BY <1>20 DEF Activate, SetProcessing, NotifyAll, At, Goto, EnableProcessing, TypeOK,
       Halting, Closing, Announced, Deciding
  <1>21. ASSUME Tick
        PROVE  Announced'
    BY <1>21 DEF Tick, Aged, TypeOK, Halting, Closing, Announced, Deciding
  <1>22. ASSUME StartLoop
        PROVE  Announced'
    BY <1>22 DEF StartLoop, NewLooper, TypeOK, Halting, Closing, Announced, Deciding
  <1>23. ASSUME RequestStop
        PROVE  Announced'
    BY <1>23 DEF RequestStop, NotifyAll, TriggerShutdown, TypeOK, Halting, Closing, Announced, Deciding
  <1>24. ASSUME CloseSession
        PROVE  Announced'
    BY <1>24 DEF CloseSession, At, TypeOK, Halting, Closing, Announced, Deciding
  <1>25. ASSUME OpenSession
        PROVE  Announced'
    BY <1>25 DEF OpenSession, At, TypeOK, Halting, Closing, Announced, Deciding
  <1>26. ASSUME NEW c \in Clients, TriggerCommand(c)
        PROVE  Announced'
    BY <1>26 DEF TriggerCommand, TypeOK, Halting, Closing, Announced, Deciding
  <1>27. ASSUME NEW c \in Clients, Enqueue(c)
        PROVE  Announced'
    BY <1>27 DEF Enqueue, NotifyAll, TypeOK, Halting, Closing, Announced, Deciding
  <1>28. ASSUME UNCHANGED vars
        PROVE  Announced'
    BY <1>28 DEF vars, TypeOK, Halting, Closing, Announced, Deciding
  <1> QED
    BY <1>1, <1>2, <1>3, <1>4, <1>5, <1>6, <1>7, <1>8, <1>9, <1>10, <1>11, <1>12, <1>13,
       <1>14, <1>15, <1>16, <1>17, <1>18, <1>19, <1>20, <1>21, <1>22, <1>23, <1>24, <1>25,
       <1>26, <1>27, <1>28 DEF Next, LoopStep, StartStep, ManagerStep, Request

LEMMA StepQuiescent ==
    ASSUME TypeOK, Owned, Halting, Announced, QuiescentAfterCheckpoint, [Next]_vars
    PROVE  QuiescentAfterCheckpoint'
  <1> USE DEF loopVars, lockVars, actorVars, historyVars, switchVars
  <1> USE DEF LooperType
  <1>1. ASSUME ShallLoop
        PROVE  QuiescentAfterCheckpoint'
    BY <1>1 DEF ShallLoop, TypeOK, ManagerSteps, Owned, Halting, Closing, Announced, Deciding,
       QuiescentAfterCheckpoint, At
  <1>2. ASSUME AwaitAction
        PROVE  QuiescentAfterCheckpoint'
    BY <1>2 DEF AwaitAction, CheckAction, RequireAction, ProceedImmediately, Fetched,
       UseTimeout, IsWorking, IsDisabled, IsDying, TypeOK, ManagerSteps, Owned, Halting,
       Closing, Announced, Deciding, QuiescentAfterCheckpoint, At
  <1>3. ASSUME Awake
        PROVE  QuiescentAfterCheckpoint'
    BY <1>3 DEF Awake, CheckAction, RequireAction, ProceedImmediately, Fetched, UseTimeout,
       IsWorking, IsDisabled, IsDying, TypeOK, ManagerSteps, Owned, Halting, Closing,
       Announced, Deciding, QuiescentAfterCheckpoint, At
  <1>4. ASSUME Decide
        PROVE  QuiescentAfterCheckpoint'
    BY <1>4 DEF Decide, RunBuild, IdleBuild, ForceBuild, IsWorking, IsDisabled, IsDying,
       TypeOK, ManagerSteps, Owned, Halting, Closing, Announced, Deciding, QuiescentAfterCheckpoint, At
  <1>5. ASSUME StartBuilder
        PROVE  QuiescentAfterCheckpoint'
    BY <1>5 DEF StartBuilder, TypeOK, ManagerSteps, Owned, Halting, Closing, Announced, Deciding,
       QuiescentAfterCheckpoint, At
  <1>6. ASSUME FetchCommand
        PROVE  QuiescentAfterCheckpoint'
    BY <1>6 DEF FetchCommand, TypeOK, ManagerSteps, Owned, Halting, Closing, Announced, Deciding,
       QuiescentAfterCheckpoint, At
  <1>7. ASSUME DispatchCommand
        PROVE  QuiescentAfterCheckpoint'
    BY <1>7 DEF DispatchCommand, TypeOK, ManagerSteps, Owned, Halting, Closing, Announced, Deciding,
       QuiescentAfterCheckpoint, At
  <1>8. ASSUME UpdateState
        PROVE  QuiescentAfterCheckpoint'
    BY <1>8 DEF UpdateState, MarkStateProcessed, TypeOK, ManagerSteps, Owned, Halting, Closing,
       Announced, Deciding, QuiescentAfterCheckpoint, At
  <1>9. ASSUME NotifyState
        PROVE  QuiescentAfterCheckpoint'
    BY <1>9 DEF NotifyState, NotifyAll, TypeOK, ManagerSteps, Owned, Halting, Closing,
       Announced, Deciding, QuiescentAfterCheckpoint, At
  <1>10. ASSUME EndRunningLoopState
        PROVE  QuiescentAfterCheckpoint'
    BY <1>10 DEF EndRunningLoopState, NewLooper, TypeOK, ManagerSteps, Owned, Halting, Closing,
       Announced, Deciding, QuiescentAfterCheckpoint, At
  <1>11. ASSUME TermNotification
        PROVE  QuiescentAfterCheckpoint'
    BY <1>11 DEF TermNotification, TypeOK, ManagerSteps, Owned, Halting, Closing, Announced, Deciding,
       QuiescentAfterCheckpoint, At
  <1>12. ASSUME OpenService
        PROVE  QuiescentAfterCheckpoint'
    BY <1>12 DEF OpenService, TypeOK, ManagerSteps, Owned, Halting, Closing, Announced, Deciding,
       QuiescentAfterCheckpoint, At
  <1>13. ASSUME ActivateOnStart
        PROVE  QuiescentAfterCheckpoint'
    BY <1>13 DEF ActivateOnStart, NotifyAll, EnableProcessing, TypeOK, ManagerSteps, Owned,
       Halting, Closing, Announced, Deciding, QuiescentAfterCheckpoint, At
  <1>14. ASSUME Deactivate
        PROVE  QuiescentAfterCheckpoint'
    BY <1>14 DEF Deactivate, SetProcessing, NotifyAll, At, Goto, EnableProcessing, TypeOK,
       ManagerSteps, Owned, Halting, Closing, Announced, Deciding, QuiescentAfterCheckpoint, At
  <1>15. ASSUME AwaitDeactivation
        PROVE  QuiescentAfterCheckpoint'
    BY <1>15 DEF AwaitDeactivation, Goto, TypeOK, ManagerSteps, Owned, Halting, Closing,
       Announced, Deciding, QuiescentAfterCheckpoint, At
  <1>16. ASSUME CheckPoint
        PROVE  QuiescentAfterCheckpoint'
    BY <1>16 DEF CheckPoint, At, Goto, HasPendingChanges, TypeOK, ManagerSteps, Owned, Halting,
       Closing, Announced, Deciding, QuiescentAfterCheckpoint, At
  <1>17. ASSUME BlockOnState
        PROVE  QuiescentAfterCheckpoint'
    BY <1>17 DEF BlockOnState, Goto, TypeOK, ManagerSteps, Owned, Halting, Closing, Announced, Deciding,
       QuiescentAfterCheckpoint, At
  <1>18. ASSUME Deconfigure
        PROVE  QuiescentAfterCheckpoint'
    BY <1>18 DEF Deconfigure, Goto, TypeOK, ManagerSteps, Owned, Halting, Closing, Announced, Deciding,
       QuiescentAfterCheckpoint, At
  <1>19. ASSUME PullUp
        PROVE  QuiescentAfterCheckpoint'
    BY <1>19 DEF PullUp, Goto, TypeOK, ManagerSteps, Owned, Halting, Closing, Announced, Deciding,
       QuiescentAfterCheckpoint, At
  <1>20. ASSUME Activate
        PROVE  QuiescentAfterCheckpoint'
    BY <1>20 DEF Activate, SetProcessing, NotifyAll, At, Goto, EnableProcessing, TypeOK,
       ManagerSteps, Owned, Halting, Closing, Announced, Deciding, QuiescentAfterCheckpoint, At
  <1>21. ASSUME Tick
        PROVE  QuiescentAfterCheckpoint'
    BY <1>21 DEF Tick, Aged, TypeOK, ManagerSteps, Owned, Halting, Closing, Announced, Deciding,
       QuiescentAfterCheckpoint, At
  <1>22. ASSUME StartLoop
        PROVE  QuiescentAfterCheckpoint'
    BY <1>22 DEF StartLoop, NewLooper, TypeOK, ManagerSteps, Owned, Halting, Closing,
       Announced, Deciding, QuiescentAfterCheckpoint, At
  <1>23. ASSUME RequestStop
        PROVE  QuiescentAfterCheckpoint'
    BY <1>23 DEF RequestStop, NotifyAll, TriggerShutdown, TypeOK, ManagerSteps, Owned, Halting,
       Closing, Announced, Deciding, QuiescentAfterCheckpoint, At
  <1>24. ASSUME CloseSession
        PROVE  QuiescentAfterCheckpoint'
    BY <1>24 DEF CloseSession, At, TypeOK, ManagerSteps, Owned, Halting, Closing, Announced, Deciding,
       QuiescentAfterCheckpoint, At
  <1>25. ASSUME OpenSession
        PROVE  QuiescentAfterCheckpoint'
    BY <1>25 DEF OpenSession, At, TypeOK, ManagerSteps, Owned, Halting, Closing, Announced, Deciding,
       QuiescentAfterCheckpoint, At
  <1>26. ASSUME NEW c \in Clients, TriggerCommand(c)
        PROVE  QuiescentAfterCheckpoint'
    BY <1>26 DEF TriggerCommand, TypeOK, ManagerSteps, Owned, Halting, Closing, Announced, Deciding,
       QuiescentAfterCheckpoint, At
  <1>27. ASSUME NEW c \in Clients, Enqueue(c)
        PROVE  QuiescentAfterCheckpoint'
    BY <1>27 DEF Enqueue, NotifyAll, TypeOK, ManagerSteps, Owned, Halting, Closing, Announced, Deciding,
       QuiescentAfterCheckpoint, At
  <1>28. ASSUME UNCHANGED vars
        PROVE  QuiescentAfterCheckpoint'
    BY <1>28 DEF vars, TypeOK, ManagerSteps, Owned, Halting, Closing, Announced, Deciding,
       QuiescentAfterCheckpoint, At
  <1> QED
    BY <1>1, <1>2, <1>3, <1>4, <1>5, <1>6, <1>7, <1>8, <1>9, <1>10, <1>11, <1>12, <1>13,
       <1>14, <1>15, <1>16, <1>17, <1>18, <1>19, <1>20, <1>21, <1>22, <1>23, <1>24, <1>25,
       <1>26, <1>27, <1>28 DEF Next, LoopStep, StartStep, ManagerStep, Request

(* After awaitDeactivation() the session can be dismantled: the thread     *)
(* performs no command and the builder is not active, however often the    *)
(* loop is started and sessions are opened, reset and closed; apart from a *)
(* thread overtaken and a loop started in the midst of a close.            *)
THEOREM QuiescentClose == Spec => []QuiescentAfterCheckpoint
  <1>1. Init => Quiet
    BY DEF Init, NewLooper, Quiet, Halting, Closing, Announced, Deciding, QuiescentAfterCheckpoint, At
  <1>2. TypeOK /\ Owned /\ Quiet /\ [Next]_vars => Quiet'
    BY StepHalting, StepAnnounced, StepQuiescent DEF Quiet
  <1>3. Init => TypeOK /\ Counted /\ Owned
    BY InitTyped
  <1>4. TypeOK /\ Counted /\ Owned /\ [Next]_vars => TypeOK' /\ Counted' /\ Owned'
    BY StepTyped, StepCounted, StepOwned
  <1>5. Quiet => QuiescentAfterCheckpoint
    BY DEF Quiet
  <1> QED
    BY <1>1, <1>2, <1>3, <1>4, <1>5, PTL DEF Spec

-----------------------------------------------------------------------------
(***************************************************************************)
(* The end of a session thread is signalled once. The count of signals and *)
(* of threads about to signal goes up and down with them only because no   *)
(* two of them are for the same loop.                                      *)
(***************************************************************************)
Current == IF pc = "off" THEN {} ELSE {loop}
About   == {e.loop : e \in ending}
Done    == {s.loop : s \in signals}

Signalled ==
    /\ IsFiniteSet(ending) /\ IsFiniteSet(signals)
    /\ 1 .. loop = Current \cup About \cup Done
    /\ Cardinality(Current) + Cardinality(ending) + Cardinality(signals) = loop
    /\ \A e, f \in ending : e.loop = f.loop => e = f
    /\ About \cap Done = {}
    /\ Current \cap (About \cup Done) = {}

(* Counting the current loop. *)
LEMMA CurrentCount ==
    /\ pc = "off" => Current = {} /\ Cardinality(Current) = 0
    /\ pc # "off" => Current = {loop} /\ Cardinality(Current) = 1
  BY FS_EmptySet, FS_Singleton DEF Current

(* Every step keeps the books: only three of them make an entry. *)
LEMMA StepSignalled ==
    ASSUME TypeOK, TypeOK', Counted, Owned, Signalled, [Next]_vars
    PROVE  Signalled'
  <1>1. loop \in Nat /\ loop' \in Nat
    BY DispatcherAssumption DEF TypeOK
  <1>2. Cardinality(ending) \in Nat /\ Cardinality(signals) \in Nat
    BY FS_CardinalityType DEF Signalled
  <1>3. CASE EndRunningLoopState
    <2> DEFINE e == [loop |-> loop, failed |-> failed]
    <2>1. /\ pc # "off" /\ pc' = "off" /\ ending' = ending \cup {e}
          /\ UNCHANGED <<loop, signals>>
      BY <1>3 DEF EndRunningLoopState
    <2>2. Current = {loop} /\ Cardinality(Current) = 1 /\ Current' = {} /\ Cardinality(Current') = 0
      BY <2>1, CurrentCount, FS_EmptySet DEF Current
    <2>3. loop \notin About /\ loop \notin Done /\ e.loop = loop
      BY <2>2 DEF Signalled
    <2>4. e \notin ending
      BY <2>3 DEF About
    <2>5. IsFiniteSet(ending') /\ Cardinality(ending') = Cardinality(ending) + 1
      BY <2>1, <2>4, FS_AddElement DEF Signalled
    <2>6. About' = About \cup {loop} /\ Done' = Done
      BY <2>1, <2>3 DEF About, Done
    <2>7. \A f, g \in ending' : f.loop = g.loop => f = g
      BY <2>1, <2>3 DEF About, Signalled
    <2> HIDE DEF e
    <2>8. Cardinality(Current') + Cardinality(ending') + Cardinality(signals') = loop'
      BY <1>1, <1>2, <2>1, <2>2, <2>5 DEF Signalled
    <2>9. 1 .. loop' = Current' \cup About' \cup Done'
      BY <2>1, <2>2, <2>6 DEF Signalled
    <2> QED
      BY <2>1, <2>2, <2>3, <2>5, <2>6, <2>7, <2>8, <2>9 DEF Signalled
  <1>4. CASE TermNotification
    <2>1. PICK e \in ending, told \in BOOLEAN : TermNotification!1!(e, told)
      BY <1>4 DEF TermNotification
    <2> DEFINE s == [loop |-> e.loop, failed |-> e.failed, told |-> told]
    <2>2. /\ ending' = ending \ {e} /\ signals' = signals \cup {s} /\ s.loop = e.loop
          /\ UNCHANGED <<loop, pc>>
      BY <1>4, <2>1 DEF TermNotification, loopVars
    <2> HIDE DEF s
    <2>3. e.loop \in About /\ e.loop \notin Done
      BY DEF About, Signalled
    <2>4. s \notin signals
      BY <2>2, <2>3 DEF Done
    <2>5. /\ IsFiniteSet(signals') /\ Cardinality(signals') = Cardinality(signals) + 1
          /\ IsFiniteSet(ending')  /\ Cardinality(ending') = Cardinality(ending) - 1
      BY <2>2, <2>4, FS_AddElement, FS_RemoveElement DEF Signalled
    <2>6. About' = About \ {e.loop} /\ Done' = Done \cup {e.loop} /\ Current' = Current
      BY <2>2 DEF About, Done, Current, Signalled
    <2>7. Cardinality(Current) \in Nat
      BY CurrentCount
    <2>8. Cardinality(Current') + Cardinality(ending') + Cardinality(signals') = loop'
      BY <1>1, <1>2, <2>2, <2>5, <2>6, <2>7 DEF Signalled
    <2>9. 1 .. loop' = Current' \cup About' \cup Done'
      BY <2>2, <2>3, <2>6 DEF Signalled
    <2> QED
      BY <2>2, <2>3, <2>5, <2>6, <2>8, <2>9 DEF Signalled
  <1>5. CASE StartLoop
    <2>1. pc = "off" /\ pc' = "head" /\ loop' = loop + 1 /\ UNCHANGED <<ending, signals>>
      BY <1>5 DEF StartLoop, Owned
    <2>2. /\ Current = {} /\ Cardinality(Current) = 0
          /\ Current' = {loop + 1} /\ Cardinality(Current') = 1
      BY <2>1, CurrentCount, FS_Singleton DEF Current
    <2>3. About' = About /\ Done' = Done
      BY <2>1 DEF About, Done
    <2>4. loop + 1 \notin 1 .. loop /\ 1 .. (loop + 1) = (1 .. loop) \cup {loop + 1}
      BY <1>1
    <2>5. Cardinality(Current') + Cardinality(ending') + Cardinality(signals') = loop'
      BY <1>1, <1>2, <2>1, <2>2 DEF Signalled
    <2>6. 1 .. loop' = Current' \cup About' \cup Done'
      BY <2>1, <2>2, <2>3, <2>4 DEF Signalled
    <2> QED
      BY <2>1, <2>2, <2>3, <2>4, <2>5, <2>6 DEF Signalled
  <1>6. CASE /\ UNCHANGED <<loop, ending, signals>>
             /\ pc' = "off" <=> pc = "off"
    BY <1>6 DEF Signalled, Current, About, Done
  <1>7. ASSUME Next, ~EndRunningLoopState, ~TermNotification, ~StartLoop
        PROVE  UNCHANGED <<loop, ending, signals>> /\ (pc' = "off" <=> pc = "off")
    <2> USE DEF loopVars, historyVars, switchVars
    <2>1. CASE LoopStep
      BY <1>7, <2>1 DEF LoopStep, ShallLoop, AwaitAction, Awake, CheckAction, Decide, StartBuilder,
         FetchCommand, DispatchCommand, UpdateState, NotifyState
    <2>2. CASE StartStep \/ ManagerStep \/ Tick
      BY <2>2 DEF StartStep, OpenService, ActivateOnStart, ManagerStep, Deactivate, Activate,
         SetProcessing, AwaitDeactivation, CheckPoint, BlockOnState, Deconfigure, PullUp, Tick
    <2>3. CASE Request \/ \E c \in Clients : Enqueue(c)
      BY <1>7, <2>3 DEF Request, RequestStop, CloseSession, OpenSession, TriggerCommand, Enqueue
    <2> QED
      BY <1>7, <2>1, <2>2, <2>3 DEF Next
  <1> QED
    BY <1>3, <1>4, <1>5, <1>6, <1>7 DEF vars, loopVars, historyVars, switchVars

(* The end of every session thread is signalled, and only once, however    *)
(* often the loop is started and stopped (the atExit functor of the        *)
(* DispatcherLoop and the termination signal handed on to the subsystem).  *)
THEOREM SignalledOnce == Spec => []EverySignalOnce
  <1>1. Init => Signalled
    <2> SUFFICES ASSUME Init PROVE Signalled
      OBVIOUS
    <2>1. Current = {} /\ About = {} /\ Done = {} /\ ending = {} /\ signals = {} /\ loop = 0
      BY DEF Init, Current, About, Done
    <2>2. IsFiniteSet({}) /\ Cardinality({}) = 0 /\ 1 .. 0 = {}
      BY FS_EmptySet
    <2> QED
      BY <2>1, <2>2 DEF Signalled
  <1>2. Init => TypeOK /\ Counted /\ Owned
    BY InitTyped
  <1>3. TypeOK /\ Counted /\ Owned /\ [Next]_vars => TypeOK' /\ Counted' /\ Owned'
    BY StepTyped, StepCounted, StepOwned
  <1>4. TypeOK /\ TypeOK' /\ Counted /\ Owned /\ Signalled /\ [Next]_vars => Signalled'
    BY StepSignalled
  <1>5. Signalled => EverySignalOnce
    BY DEF Signalled, EverySignalOnce, Current, About, Done
  <1> QED
    BY <1>1, <1>2, <1>3, <1>4, <1>5, PTL DEF Spec
=============================================================================
