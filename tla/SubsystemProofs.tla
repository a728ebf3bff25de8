-------------------------- MODULE SubsystemProofs --------------------------
(***************************************************************************)
(* Startup and shutdown of any set of subsystems with any dependencies:    *)
(* the list of the SubsystemRunner accounts for whatever is alive, startup *)
(* observes the dependencies, and main() leaves normally only when all is  *)
(* gone.                                                                   *)
(*                                                                         *)
(* Why the list is accurate: a subsystem is started and put on the list    *)
(* under the lock, and taken off by a signal sent after its end. Hence one *)
(* alive yet not on the list is just being started, and a signal pending   *)
(* belongs to an entry, unless startup was aborted, which is an emergency. *)
(* This holds as long as no subsystem is started again before its signal   *)
(* was processed, which the properties exclude as well (NoRestart).        *)
(***************************************************************************)
EXTENDS SubsystemRunner, SequenceTheorems, TLAPS

Frame == [sys: Subsystems, at: {"entry", "start", "check", "prereq"}, open: Seq(Subsystems)]

(* started by triggerStartup(), but not on the list yet *)
BeingStarted(s) == Locked /\ Call.at = "check" /\ Call.sys = s

(* started by triggerStartup(), but its prerequisites are not verified yet *)
Unverified(s) == Locked /\ Call.at \in {"check", "prereq"} /\ Call.sys = s

RunnerTyped ==
    /\ up \subseteq Subsystems /\ running \subseteq Subsystems
    /\ starts \in [Subsystems -> Nat]
    /\ stack \in Seq(Frame) /\ todo \in Seq(Subsystems)
    /\ main \in {"start", "wait", "abort", "shutdown", "unwind", "exit"}
    /\ \A e \in pending : e.sys \in Subsystems \ Synchronous /\ starts[e.sys] > 0

(* Within nested calls, only the innermost is beyond its prerequisites; the *)
(* prerequisite a call is not through with is either yet to be visited or   *)
(* treated by the next call on the stack.                                   *)
CallsNested ==
    /\ Locked => main = "start"
    /\ \A i \in 1 .. Len(stack) :
          /\ i < Len(stack) => stack[i].at = "entry"
          /\ stack[i].at # "entry" => stack[i].open = <<>>
          /\ stack[i].at \in {"check", "prereq"} => stack[i].sys \in tried
          /\ \A p \in ToSet(Prereq[stack[i].sys]) :
                \/ p \in ToSet(stack[i].open)
                \/ p \in tried
                \/ i < Len(stack) /\ stack[i + 1].sys = p

StartedInOrder ==
    \A s \in up :
        /\ s \in tried /\ starts[s] > 0
        /\ \/ \A p \in ToSet(Prereq[s]) : starts[p] > 0
           \/ Unverified(s) \/ main \in {"abort", "shutdown"} \/ emergency

AliveManaged == \A s \in up : s \in running \/ BeingStarted(s)

ManagedAccounted == \A s \in running : s \in up \/ \E e \in pending : e.sys = s

SignalsAccounted ==
    /\ \A e \in pending :
          /\ e.sys \notin up
          /\ e.sys \in running \/ BeingStarted(e.sys) \/ main \in {"abort", "shutdown"} \/ emergency
    /\ \A e, f \in pending : e.sys = f.sys => e = f

LeftClean ==
    /\ main = "shutdown" => emergency
    /\ exitCode = NormalExit => main = "exit" /\ (NoRestart => up = {} /\ pending = {})

RunnerInv ==
    /\ RunnerTyped /\ CallsNested /\ StartedInOrder /\ ManagedAccounted /\ LeftClean
    /\ NoRestart => AliveManaged /\ SignalsAccounted

-----------------------------------------------------------------------------
(***************************************************************************)
(* The stack of calls.                                                     *)
(***************************************************************************)
LEMMA TopCall ==
    ASSUME RunnerTyped, Locked
    PROVE  Len(stack) \in Nat \ {0} /\ Call = stack[Len(stack)] /\ Call \in Frame
  <1>1. Len(stack) \in Nat \ {0}
    BY DEF RunnerTyped, Locked
  <1> QED
    BY <1>1 DEF RunnerTyped, Call, Last

(* return from the innermost call *)
LEMMA Returned ==
    ASSUME RunnerTyped, Locked, Return
    PROVE  /\ stack' \in Seq(Frame) /\ Len(stack') = Len(stack) - 1
           /\ \A i \in 1 .. Len(stack') : stack'[i] = stack[i]
  <1>1. stack' = SubSeq(stack, 1, Len(stack) - 1)
    BY DEF Return, Front
  <1>2. stack \in Seq(Frame) /\ Len(stack) \in Nat \ {0}
    BY TopCall DEF RunnerTyped
  <1>3. 1 \in Int /\ Len(stack) - 1 \in Int /\ Len(stack) - 1 <= Len(stack)
    BY <1>2
  <1>4. stack' \in Seq(Frame) /\ Len(stack') = Len(stack) - 1
    <2>1. \A i \in 1 .. Len(stack) - 1 : stack[i] \in Frame
      BY <1>2
    <2>2. stack' \in Seq(Frame)
      BY <1>1, <1>3, <2>1, SubSeqProperties
    <2>3. Len(stack') = IF 1 <= Len(stack) - 1 THEN (Len(stack) - 1) - 1 + 1 ELSE 0
      BY <1>1, <1>3, <2>1, SubSeqProperties
    <2>4. \A n \in Nat \ {0} : (IF 1 <= n - 1 THEN (n - 1) - 1 + 1 ELSE 0) = n - 1
      OBVIOUS
    <2>5. Len(stack') = Len(stack) - 1
      BY <1>2, <2>3, <2>4
    <2> QED
      BY <2>2, <2>5
  <1>5. \A i \in 1 .. Len(stack) - 1 : stack'[i] = stack[i]
    BY <1>1, <1>2, <1>3
  <1> QED
    BY <1>4, <1>5

(* the innermost call goes on *)
LEMMA Proceeded ==
    ASSUME RunnerTyped, Locked, NEW step \in {"start", "check", "prereq"}, Proceed(step)
    PROVE  /\ stack' \in Seq(Frame) /\ Len(stack') = Len(stack)
           /\ \A i \in 1 .. Len(stack) : i # Len(stack) => stack'[i] = stack[i]
           /\ stack'[Len(stack)] = [Call EXCEPT !.at = step]
           /\ Locked' /\ Call' = [Call EXCEPT !.at = step]
  <1>1. Len(stack) \in Nat \ {0} /\ Call = stack[Len(stack)] /\ Call \in Frame
    BY TopCall
  <1>2. [Call EXCEPT !.at = step] \in Frame
    BY <1>1 DEF Frame
  <1>3. stack' = [stack EXCEPT ![Len(stack)] = [Call EXCEPT !.at = step]]
    BY <1>1 DEF Proceed
  <1>4. /\ stack' \in Seq(Frame) /\ Len(stack') = Len(stack)
        /\ \A i \in 1 .. Len(stack) : i # Len(stack) => stack'[i] = stack[i]
        /\ stack'[Len(stack)] = [Call EXCEPT !.at = step]
    <2>1. stack \in Seq(Frame) /\ Len(stack) \in 1 .. Len(stack)
      BY <1>1 DEF RunnerTyped
    <2> DEFINE f == [Call EXCEPT !.at = step]
    <2> HIDE DEF f
    <2>2. stack' = [stack EXCEPT ![Len(stack)] = f] /\ f \in Frame
      BY <1>2, <1>3 DEF f
    <2>3. stack' \in Seq(Frame) /\ Len(stack') = Len(stack)
      BY <2>1, <2>2
    <2>4. /\ \A i \in 1 .. Len(stack) : i # Len(stack) => stack'[i] = stack[i]
          /\ stack'[Len(stack)] = f
      BY <2>1, <2>2
    <2> QED
      BY <2>3, <2>4 DEF f
  <1>5. Locked' /\ Call' = [Call EXCEPT !.at = step]
    BY <1>1, <1>4 DEF Locked, Call, Last
  <1> QED
    BY <1>4, <1>5

(* The elements of a sequence: the first one and the others. *)
LEMMA HeadAndTail ==
    ASSUME NEW S, NEW seq \in Seq(S), seq # <<>>
    PROVE  /\ Head(seq) \in S /\ Tail(seq) \in Seq(S)
           /\ ToSet(seq) \subseteq {Head(seq)} \cup ToSet(Tail(seq))
  <1>1. /\ Head(seq) = seq[1] /\ Tail(seq) \in Seq(S) /\ Len(seq) \in Nat \ {0}
        /\ Len(Tail(seq)) = Len(seq) - 1 /\ Head(seq) \in S
        /\ \A i \in 1 .. Len(Tail(seq)) : Tail(seq)[i] = seq[i + 1]
    OBVIOUS
  <1>2. ASSUME NEW i \in 1 .. Len(seq), i # 1 PROVE seq[i] \in ToSet(Tail(seq))
    <2>1. i - 1 \in 1 .. Len(Tail(seq)) /\ seq[i] = Tail(seq)[i - 1]
      BY <1>1, <1>2
    <2>2. DOMAIN Tail(seq) = 1 .. Len(Tail(seq))
      BY <1>1
    <2> QED
      BY <2>1, <2>2 DEF ToSet
  <1>3. DOMAIN seq = 1 .. Len(seq)
    OBVIOUS
  <1> QED
    BY <1>1, <1>2, <1>3 DEF ToSet

-----------------------------------------------------------------------------
(***************************************************************************)
(* The steps of main().                                                    *)
(***************************************************************************)

(* A subsystem started only once now was not started before that. *)
LEMMA RestartStays ==
    ASSUME RunnerTyped, RunnerTyped', NoRestart',
           \A s \in Subsystems : starts'[s] >= starts[s]
    PROVE  NoRestart
  BY DEF NoRestart, RunnerTyped

(* Steps of main() which start nothing. *)
LEMMA RunnerMain ==
    ASSUME RunnerInv,
           \/ MaybeWait \/ AbortEmergency \/ Wait \/ \E timeout \in BOOLEAN : Unwind(timeout)
    PROVE  RunnerInv'
  <1> USE DEF MaybeWait, AbortEmergency, Wait, Unwind, Exit
  <1>1. UNCHANGED <<up, tried, starts, pending, running, todo, stack>>
    BY DEF sysVars
  <1>2. main' \in {"wait", "shutdown", "unwind", "exit"} /\ ~Locked
    BY DEF RunnerInv, CallsNested
  <1>3. RunnerTyped' /\ CallsNested' /\ StartedInOrder' /\ ManagedAccounted'
    <2>1. RunnerTyped' /\ CallsNested' /\ ManagedAccounted'
      BY <1>1, <1>2 DEF RunnerInv, RunnerTyped, CallsNested, ManagedAccounted, Locked
    <2>2. main \in {"abort", "shutdown"} => emergency'
      OBVIOUS
    <2>3. emergency => emergency'
      OBVIOUS
    <2>4. StartedInOrder'
      BY <1>1, <1>2, <2>2, <2>3 DEF RunnerInv, StartedInOrder, Unverified
    <2> QED
      BY <2>1, <2>4
  <1>4. NoRestart' <=> NoRestart
    BY <1>1 DEF NoRestart
  <1>5. ASSUME NoRestart PROVE AliveManaged' /\ SignalsAccounted'
    BY <1>1, <1>2, <1>5 DEF RunnerInv, AliveManaged, SignalsAccounted, LeftClean, BeingStarted, Locked, Call
  <1>6. LeftClean'
    <2>1. main' = "shutdown" => emergency'
      OBVIOUS
    <2>2. ASSUME exitCode' = NormalExit PROVE main' = "exit" /\ (NoRestart => up' = {} /\ pending' = {})
      <3>1. exitCode # NormalExit
        BY <1>2 DEF RunnerInv, LeftClean
      <3>2. Wait /\ ~emergency /\ running = {} /\ main' = "exit"
        BY <2>2, <3>1 DEF NormalExit, EmergencyExit, AllDead
      <3>3. ASSUME NoRestart PROVE up = {} /\ pending = {}
        BY <1>2, <3>2, <3>3 DEF RunnerInv, AliveManaged, SignalsAccounted, BeingStarted
      <3> QED
        BY <1>1, <3>2, <3>3
    <2> QED
      BY <1>4, <2>1, <2>2 DEF LeftClean
  <1> QED
    BY <1>3, <1>4, <1>5, <1>6 DEF RunnerInv

(* Before main() has left, there is no exit code. *)
LEMMA NotLeft ==
    ASSUME RunnerInv, main # "exit", exitCode' = exitCode, main' # "shutdown"
    PROVE  LeftClean'
  BY DEF RunnerInv, LeftClean

(* Steps which do no more than make or leave calls. *)
LEMMA CallStep ==
    ASSUME RunnerInv, UNCHANGED <<up, starts, pending, running, main, emergency, exitCode>>,
           main = "start", todo' \in Seq(Subsystems), stack' \in Seq(Frame), CallsNested',
           StartedInOrder', \A s : ~BeingStarted(s)
    PROVE  RunnerInv'
  <1>1. RunnerTyped'
    BY DEF RunnerInv, RunnerTyped
  <1>2. ManagedAccounted'
    BY DEF RunnerInv, ManagedAccounted
  <1>3. LeftClean'
    BY NotLeft
  <1>4. NoRestart' => AliveManaged' /\ SignalsAccounted'
    BY DEF RunnerInv, NoRestart, AliveManaged, SignalsAccounted
  <1> QED
    BY <1>1, <1>2, <1>3, <1>4 DEF RunnerInv

(* ... with nothing being started at the moment. *)
LEMMA OrderKept ==
    ASSUME RunnerInv, UNCHANGED <<up, tried, starts, main, emergency>>, \A s : ~Unverified(s)
    PROVE  StartedInOrder'
  BY DEF RunnerInv, StartedInOrder

(* A primary subsystem is taken up: the first call. *)
LEMMA RunnerMaybeRun == ASSUME RunnerInv, MaybeRun PROVE RunnerInv'
  <1> USE DEF MaybeRun
  <1>1. UNCHANGED <<up, tried, starts, pending, running, main, emergency, exitCode>>
    BY DEF sysVars
  <1>2. Head(todo) \in Subsystems /\ todo' \in Seq(Subsystems)
    BY HeadAndTail DEF RunnerInv, RunnerTyped
  <1> DEFINE f == [sys |-> Head(todo), at |-> "entry", open |-> Prereq[Head(todo)]]
  <1>3. f \in Frame
    BY <1>2, RunnerAssumption DEF Frame
  <1>4. stack' = <<>> \/ stack' = <<f>>
    OBVIOUS
  <1>5. stack' \in Seq(Frame) /\ \A i \in 1 .. Len(stack') : i = 1 /\ Len(stack') = 1 /\ stack'[1] = f
    BY <1>3, <1>4
  <1>6. f.at = "entry" /\ f.sys = Head(todo) /\ f.open = Prereq[Head(todo)]
    OBVIOUS
  <1> HIDE DEF f
  <1>7. \A s : ~BeingStarted(s) /\ ~Unverified(s)
    BY DEF BeingStarted, Unverified
  <1>8. CallsNested'
    BY <1>1, <1>5, <1>6 DEF CallsNested
  <1>9. StartedInOrder'
    BY <1>1, <1>7, OrderKept
  <1> QED
    BY <1>1, <1>2, <1>5, <1>7, <1>8, <1>9, CallStep

(* Further calls are made for the prerequisites, one after the other. *)
LEMMA RunnerEnter == ASSUME RunnerInv, EnterStartup PROVE RunnerInv'
  <1> USE DEF EnterStartup
  <1>1. UNCHANGED <<up, tried, starts, pending, running, main, emergency, todo, exitCode>>
    BY DEF sysVars
  <1>t. RunnerTyped /\ Locked
    BY DEF RunnerInv
  <1> DEFINE n == Len(stack)
  <1>2. /\ n \in Nat \ {0} /\ Call = stack[n] /\ Call \in Frame /\ Call.at = "entry"
        /\ stack \in Seq(Frame) /\ \A i \in 1 .. n : stack[i] \in Frame
    BY <1>t, TopCall DEF RunnerTyped
  <1>6. /\ main = "start" /\ todo' \in Seq(Subsystems) /\ StartedInOrder'
        /\ \A s : ~BeingStarted(s)
    <2>1. \A s : ~BeingStarted(s) /\ ~Unverified(s)
      BY <1>2 DEF BeingStarted, Unverified
    <2>2. StartedInOrder'
      BY <1>1, <2>1, OrderKept
    <2> QED
      BY <1>1, <1>2, <2>1, <2>2 DEF RunnerInv, RunnerTyped, CallsNested
  <1>3. CASE Call.sys \in up /\ Return
    <2>1. /\ stack' \in Seq(Frame) /\ Len(stack') = n - 1
          /\ \A i \in 1 .. Len(stack') : stack'[i] = stack[i]
      BY <1>3, <1>t, Returned
    <2>2. Call.sys \in tried
      BY <1>3 DEF RunnerInv, StartedInOrder
    <2>3. CallsNested'
      <3>1. Locked' => main' = "start"
        BY <1>1, <1>t DEF RunnerInv, CallsNested
      <3>2. ASSUME NEW i \in 1 .. Len(stack') PROVE CallsNested!2!(i)'
        <4>1. i \in 1 .. n /\ i < n /\ stack'[i] = stack[i] /\ (i < Len(stack') => stack'[i + 1] = stack[i + 1])
          BY <1>2, <2>1
        <4>2. ~(i < Len(stack')) => i + 1 = n
          BY <1>2, <2>1
        <4> QED
          BY <1>1, <1>2, <2>2, <4>1, <4>2 DEF RunnerInv, CallsNested
      <3> QED
        BY <3>1, <3>2 DEF CallsNested
    <2> QED
      BY <1>1, <1>6, <2>1, <2>3, CallStep
  <1>4. CASE Call.sys \notin up /\ Call.open = <<>> /\ Proceed("start")
    <2>1. /\ stack' \in Seq(Frame) /\ Len(stack') = n
          /\ \A i \in 1 .. n : i # n => stack'[i] = stack[i]
          /\ stack'[n] = [Call EXCEPT !.at = "start"]
      BY <1>4, <1>t, Proceeded
    <2>2. stack'[n].at = "start" /\ stack'[n].sys = stack[n].sys /\ stack'[n].open = <<>>
      BY <1>2, <1>4, <2>1 DEF Frame
    <2>3. CallsNested'
      <3>1. Locked' => main' = "start"
        BY <1>1, <1>t DEF RunnerInv, CallsNested
      <3>2. ASSUME NEW i \in 1 .. Len(stack') PROVE CallsNested!2!(i)'
        <4>1. CASE i = n
          <5>1. \A q \in ToSet(Prereq[Call.sys]) : q \in ToSet(Call.open) \/ q \in tried
            BY <1>2 DEF RunnerInv, CallsNested
          <5>2. /\ stack'[i].sys = Call.sys /\ stack'[i].open = Call.open
                /\ ~(i < Len(stack'))
            <6>1. stack'[i].sys = Call.sys /\ stack'[i].open = Call.open
              BY <1>2, <1>4, <2>2, <4>1
            <6>2. ~(i < Len(stack'))
              BY <1>2, <2>1, <4>1
            <6> QED
              BY <6>1, <6>2
          <5> QED
            BY <1>1, <2>2, <4>1, <5>1, <5>2
        <4>2. CASE i # n
          <5>1. i \in 1 .. n /\ i < n /\ i + 1 \in 1 .. n
            BY <1>2, <2>1, <4>2
          <5>2. stack'[i] = stack[i] /\ stack'[i + 1].sys = stack[i + 1].sys
            BY <1>2, <2>1, <2>2, <4>2, <5>1
          <5> QED
            BY <1>1, <1>2, <2>1, <5>1, <5>2 DEF RunnerInv, CallsNested
        <4> QED
          BY <4>1, <4>2
      <3> QED
        BY <3>1, <3>2 DEF CallsNested
    <2> QED
      BY <1>1, <1>6, <2>1, <2>3, CallStep
  <1>5. CASE Call.sys \notin up /\ Call.open # <<>>
    <2> DEFINE p == Head(Call.open)
               g == [Call EXCEPT !.open = Tail(@)]
               f == [sys |-> p, at |-> "entry", open |-> Prereq[p]]
               below == [stack EXCEPT ![n] = g]
    <2>1. /\ p \in Subsystems /\ Tail(Call.open) \in Seq(Subsystems)
          /\ ToSet(Call.open) \subseteq {p} \cup ToSet(Tail(Call.open))
      BY <1>2, <1>5, HeadAndTail DEF Frame
    <2>2. g \in Frame /\ g.at = "entry" /\ g.sys = Call.sys /\ g.open = Tail(Call.open)
      BY <1>2, <2>1 DEF Frame
    <2>3. f \in Frame /\ f.at = "entry" /\ f.sys = p /\ f.open = Prereq[p]
      BY <2>1, RunnerAssumption DEF Frame
    <2>4. stack' = Append(below, f)
      BY <1>2, <1>5
    <2> HIDE DEF p, g, f
    <2>5. below \in Seq(Frame) /\ Len(below) = n /\ below[n] = g
          /\ \A i \in 1 .. n : i # n => below[i] = stack[i]
      BY <1>2, <2>2
    <2> HIDE DEF below
    <2>6. /\ stack' \in Seq(Frame) /\ Len(stack') = n + 1 /\ stack'[n + 1] = f
          /\ \A i \in 1 .. n : stack'[i] = below[i]
      BY <2>3, <2>4, <2>5, AppendProperties
    <2>7. CallsNested'
      <3>1. Locked' => main' = "start"
        BY <1>1, <1>t DEF RunnerInv, CallsNested
      <3>2. ASSUME NEW i \in 1 .. Len(stack') PROVE CallsNested!2!(i)'
        <4>1. CASE i = n + 1
          BY <1>2, <2>3, <2>6, <4>1
        <4>2. CASE i = n
          <5>1. stack'[i] = g /\ i < Len(stack') /\ stack'[i + 1].sys = p
            BY <1>2, <2>3, <2>5, <2>6, <4>2
          <5>2. \A q \in ToSet(Prereq[Call.sys]) : q \in ToSet(Call.open) \/ q \in tried
            BY <1>2 DEF RunnerInv, CallsNested
          <5> QED
            BY <1>1, <2>1, <2>2, <5>1, <5>2
        <4>3. CASE i # n /\ i # n + 1
          <5>1. i \in 1 .. n /\ i < n /\ i + 1 \in 1 .. n
            BY <1>2, <2>6, <4>3
          <5>2. stack'[i] = stack[i] /\ stack'[i + 1].sys = stack[i + 1].sys
            BY <1>2, <2>2, <2>5, <2>6, <5>1
          <5> QED
            BY <1>1, <1>2, <2>6, <5>1, <5>2 DEF RunnerInv, CallsNested
        <4> QED
          BY <4>1, <4>2, <4>3
      <3> QED
        BY <3>1, <3>2 DEF CallsNested
    <2> QED
      BY <1>1, <1>6, <2>6, <2>7, CallStep
  <1> QED
    BY <1>3, <1>4, <1>5

(* The stack when the innermost call goes on from "start" or "check". *)
LEMMA ProceededNested ==
    ASSUME RunnerInv, Locked, Call.at # "entry", NEW step \in {"check", "prereq"}, Proceed(step),
           RunnerTyped', main' = main, Call.sys \in tried', tried \subseteq tried'
    PROVE  CallsNested'
  <1> DEFINE n == Len(stack)
  <1>t. RunnerTyped
    BY DEF RunnerInv
  <1>1. n \in Nat \ {0} /\ Call = stack[n] /\ Call \in Frame
    BY <1>t, TopCall
  <1>2. /\ Len(stack') = n
        /\ \A i \in 1 .. n : i # n => stack'[i] = stack[i]
        /\ stack'[n] = [Call EXCEPT !.at = step]
    BY <1>t, Proceeded
  <1>3. stack'[n].at = step /\ stack'[n].sys = Call.sys /\ stack'[n].open = Call.open
    BY <1>1, <1>2 DEF Frame
  <1>4. \A i \in 1 .. n : stack[i] \in Frame /\ stack[i].sys \in Subsystems
    <2>1. \A i \in 1 .. n : stack[i] \in Frame
      BY <1>t DEF RunnerTyped
    <2> QED
      BY <2>1 DEF Frame
  <1>p. \A s \in Subsystems : ToSet(Prereq[s]) \subseteq Subsystems
    BY RunnerAssumption DEF ToSet
  <1>5. Locked' => main' = "start"
    BY DEF RunnerInv, CallsNested
  <1>6. ASSUME NEW i \in 1 .. Len(stack') PROVE CallsNested!2!(i)'
    <2>1. CASE i = n
      <3>1. /\ Call.open = <<>>
            /\ \A q \in ToSet(Prereq[Call.sys]) : q \in ToSet(Call.open) \/ q \in tried
        BY <1>1 DEF RunnerInv, CallsNested
      <3>2. ~(i < Len(stack')) /\ Call.sys \in Subsystems
        BY <1>1, <1>2, <2>1 DEF Frame
      <3> QED
        BY <1>3, <1>p, <2>1, <3>1, <3>2
    <2>2. CASE i # n
      <3>1. i \in 1 .. n /\ i < n /\ i + 1 \in 1 .. n
        BY <1>1, <1>2, <2>2
      <3>2. stack'[i] = stack[i] /\ stack'[i + 1].sys = stack[i + 1].sys
        BY <1>1, <1>2, <1>3, <2>2, <3>1
      <3>3. CallsNested!2!(i)
        BY <3>1 DEF RunnerInv, CallsNested
      <3> QED
        BY <1>2, <1>4, <1>p, <3>1, <3>2, <3>3
    <2> QED
      BY <2>1, <2>2
  <1> QED
    BY <1>5, <1>6 DEF CallsNested

(* Starting a subsystem, which is the innermost call. *)
LEMMA RunnerStart == ASSUME RunnerInv, StartSubsystem PROVE RunnerInv'
  <1> USE DEF StartSubsystem
  <1>t. RunnerTyped /\ Locked /\ Call \in Frame /\ Call = stack[Len(stack)] /\ Len(stack) \in Nat \ {0}
    BY TopCall DEF RunnerInv
  <1>1. PICK s \in Subsystems : s = Call.sys
    BY <1>t DEF Frame
  <1>2. /\ starts' = [starts EXCEPT ![s] = @ + 1] /\ up' = up \cup {s} /\ Proceed("check")
        /\ tried' = tried \cup {s}
        /\ UNCHANGED <<pending, running, emergency, main, todo, exitCode>>
    BY <1>1
  <1>3. /\ \A q \in Subsystems : starts[q] \in Nat /\ starts'[q] \in Nat /\ starts'[q] >= starts[q]
        /\ starts' \in [Subsystems -> Nat] /\ starts'[s] = starts[s] + 1
    BY <1>2, <1>t DEF RunnerTyped
  <1>4. stack' \in Seq(Frame) /\ Locked' /\ Call' = [Call EXCEPT !.at = "check"]
    BY <1>2, <1>t, Proceeded
  <1>5. RunnerTyped'
    BY <1>2, <1>3, <1>4, <1>t DEF RunnerTyped
  <1>6. CallsNested'
    BY <1>1, <1>2, <1>3, <1>5, <1>t, ProceededNested
  <1>p. \A q \in Subsystems : ToSet(Prereq[q]) \subseteq Subsystems
    BY RunnerAssumption DEF ToSet
  <1>7. StartedInOrder'
    <2>1. Unverified(s)' /\ \A q : ~Unverified(q)
      BY <1>1, <1>4, <1>t DEF Unverified, Frame
    <2>2. \A q \in Subsystems : starts[q] > 0 => starts'[q] > 0
      BY <1>3
    <2>3. s \in tried' /\ starts'[s] > 0
      BY <1>2, <1>3
    <2> QED
      BY <1>2, <1>p, <1>t, <2>1, <2>2, <2>3 DEF RunnerInv, StartedInOrder, RunnerTyped
  <1>8. ManagedAccounted'
    BY <1>2 DEF RunnerInv, ManagedAccounted
  <1>9. LeftClean'
    BY <1>2, <1>t, NotLeft DEF RunnerInv, CallsNested
  <1>10. ASSUME NoRestart' PROVE AliveManaged' /\ SignalsAccounted'
    <2>1. NoRestart
      BY <1>3, <1>5, <1>10, <1>t, RestartStays
    <2>2. \A q : ~BeingStarted(q)
      BY DEF BeingStarted
    <2>3. BeingStarted(s)'
      BY <1>1, <1>4, <1>t DEF BeingStarted, Frame
    <2>4. \A e \in pending : e.sys # s
      <3>1. starts'[s] <= 1
        BY <1>10 DEF NoRestart
      <3> QED
        BY <1>3, <1>t, <3>1 DEF RunnerTyped
    <2>5. AliveManaged'
      BY <1>2, <2>1, <2>2, <2>3 DEF RunnerInv, AliveManaged
    <2>6. SignalsAccounted'
      BY <1>2, <2>1, <2>2, <2>4 DEF RunnerInv, SignalsAccounted
    <2> QED
      BY <2>5, <2>6
  <1> QED
    BY <1>5, <1>6, <1>7, <1>8, <1>9, <1>10 DEF RunnerInv

(* An exception leaves all the calls at once. *)
LEMMA ThrowStep ==
    ASSUME RunnerInv, Locked, Throw, UNCHANGED <<starts, pending, emergency, todo, exitCode>>,
           NEW ended \in SUBSET Synchronous, up' = up \ ended, running' = running \ ended,
           tried \subseteq tried',
           \A s \in up : ~BeingStarted(s)
    PROVE  RunnerInv'
  <1> USE DEF Throw
  <1>1. main = "start" /\ main' = "abort" /\ stack' = <<>> /\ ~Locked'
    BY DEF RunnerInv, CallsNested, Locked
  <1>2. RunnerTyped'
    BY <1>1, EmptySeq DEF RunnerInv, RunnerTyped
  <1>3. CallsNested'
    BY <1>1 DEF CallsNested
  <1>4. StartedInOrder'
    BY <1>1 DEF RunnerInv, StartedInOrder
  <1>5. ManagedAccounted'
    BY DEF RunnerInv, ManagedAccounted
  <1>6. LeftClean'
    BY <1>1, NotLeft
  <1>7. NoRestart' => AliveManaged' /\ SignalsAccounted'
    BY <1>1 DEF RunnerInv, NoRestart, AliveManaged, SignalsAccounted
  <1> QED
    BY <1>2, <1>3, <1>4, <1>5, <1>6, <1>7 DEF RunnerInv

(* A failing start leaves all calls. *)
LEMMA RunnerThrows == ASSUME RunnerInv, StartThrows PROVE RunnerInv'
  <1> USE DEF StartThrows
  <1>1. UNCHANGED <<up, starts, pending, running, emergency, todo, exitCode>>
    BY DEF sysVars
  <1>2. /\ up' = up \ {} /\ running' = running \ {} /\ {} \in SUBSET Synchronous
        /\ tried \subseteq tried'
    BY <1>1
  <1>3. \A s \in up : ~BeingStarted(s)
    BY DEF BeingStarted
  <1> QED
    BY <1>1, <1>2, <1>3, ThrowStep

(* A start refused: the call goes on to check the prerequisites. *)
LEMMA RunnerRefuses == ASSUME RunnerInv, StartRefuses PROVE RunnerInv'
  <1> USE DEF StartRefuses
  <1>t. RunnerTyped /\ Locked /\ Call \in Frame /\ Call = stack[Len(stack)] /\ Len(stack) \in Nat \ {0}
    BY TopCall DEF RunnerInv
  <1>1. /\ UNCHANGED <<up, starts, pending, running, emergency, main, todo, exitCode>>
        /\ tried' = tried \cup {Call.sys} /\ Proceed("prereq")
    OBVIOUS
  <1>2. stack' \in Seq(Frame)
    BY <1>1, <1>t, Proceeded
  <1>3. RunnerTyped'
    BY <1>1, <1>2, <1>t DEF RunnerTyped
  <1>4. CallsNested'
    BY <1>1, <1>3, <1>t, ProceededNested
  <1>5. \A s : ~BeingStarted(s) /\ ~Unverified(s)
    BY DEF BeingStarted, Unverified
  <1>6. StartedInOrder'
    BY <1>1, <1>5 DEF RunnerInv, StartedInOrder
  <1>7. main = "start" /\ todo' \in Seq(Subsystems)
    BY <1>1, <1>t DEF RunnerInv, RunnerTyped, CallsNested
  <1> QED
    BY <1>1, <1>2, <1>4, <1>5, <1>6, <1>7, CallStep

(* A subsystem up and running goes onto the list. *)
LEMMA RunnerAdopt == ASSUME RunnerInv, AdoptStarted PROVE RunnerInv'
  <1> USE DEF AdoptStarted
  <1>t. RunnerTyped /\ Locked /\ Call \in Frame /\ Call = stack[Len(stack)] /\ Len(stack) \in Nat \ {0}
    BY TopCall DEF RunnerInv
  <1>1. UNCHANGED <<up, tried, starts, pending, emergency, todo, exitCode>>
    BY DEF sysVars
  <1>2. CASE Call.sys \notin up
    <2>1. /\ up' = up \ {} /\ running' = running \ {} /\ {} \in SUBSET Synchronous
          /\ tried \subseteq tried'
      BY <1>1, <1>2
    <2>2. \A s \in up : ~BeingStarted(s)
      BY <1>2 DEF BeingStarted
    <2> QED
      BY <1>1, <1>2, <1>t, <2>1, <2>2, ThrowStep
  <1>3. CASE Call.sys \in up
    <2>1. running' = running \cup {Call.sys} /\ Proceed("prereq") /\ UNCHANGED main
      BY <1>3
    <2>2. /\ stack' \in Seq(Frame) /\ Locked' /\ Call.sys \in Subsystems
          /\ Call' = [Call EXCEPT !.at = "prereq"]
      BY <1>t, <2>1, Proceeded DEF Frame
    <2>3. RunnerTyped'
      BY <1>1, <1>t, <2>1, <2>2 DEF RunnerTyped
    <2>4. CallsNested'
      <3>1. Call.sys \in tried' /\ tried \subseteq tried'
        BY <1>1, <1>3 DEF RunnerInv, StartedInOrder
      <3> QED
        BY <1>1, <1>t, <2>1, <2>3, <3>1, ProceededNested
    <2>5. StartedInOrder' /\ ManagedAccounted'
      <3>1. \A s : Unverified(s) => Unverified(s)'
        BY <1>t, <2>2 DEF Unverified, Frame
      <3>2. StartedInOrder'
        BY <1>1, <2>1, <3>1 DEF RunnerInv, StartedInOrder
      <3> QED
        BY <1>1, <1>3, <2>1, <3>2 DEF RunnerInv, ManagedAccounted
    <2>6. LeftClean'
      BY <1>1, <1>t, <2>1, NotLeft DEF RunnerInv, CallsNested
    <2>7. NoRestart' => AliveManaged' /\ SignalsAccounted'
      BY <1>1, <2>1 DEF RunnerInv, NoRestart, AliveManaged, SignalsAccounted, BeingStarted
    <2> QED
      BY <2>3, <2>4, <2>5, <2>6, <2>7 DEF RunnerInv
  <1> QED
    BY <1>2, <1>3

(* What triggering a shutdown does: those which end at once are gone from  *)
(* the list as well.                                                       *)
LEMMA Triggered ==
    ASSUME NEW set, NEW list, TriggerShutdown(set, list)
    PROVE  \E ended \in SUBSET Synchronous : up' = up \ ended /\ running' = list \ ended
  BY DEF TriggerShutdown

(* Either the call is completed, or the subsystem is asked to shut down. *)
LEMMA RunnerCheck == ASSUME RunnerInv, CheckPrerequisites PROVE RunnerInv'
  <1> USE DEF CheckPrerequisites
  <1>t. RunnerTyped /\ Locked /\ Call \in Frame /\ Call = stack[Len(stack)] /\ Len(stack) \in Nat \ {0}
    BY TopCall DEF RunnerInv
  <1>1. UNCHANGED <<tried, starts, pending, emergency, todo, exitCode>> /\ \A s : ~BeingStarted(s)
    BY DEF BeingStarted
  <1>2. CASE ToSet(Prereq[Call.sys]) \subseteq up /\ Return /\ UNCHANGED <<main, up, told, missed, running>>
    <2> DEFINE n == Len(stack)
    <2>1. /\ stack' \in Seq(Frame) /\ Len(stack') = n - 1
          /\ \A i \in 1 .. Len(stack') : stack'[i] = stack[i]
      BY <1>2, <1>t, Returned
    <2>2. Call.sys \in tried
      BY <1>t DEF RunnerInv, CallsNested
    <2>3. CallsNested'
      <3>1. Locked' => main' = "start"
        BY <1>2, <1>t DEF RunnerInv, CallsNested
      <3>2. ASSUME NEW i \in 1 .. Len(stack') PROVE CallsNested!2!(i)'
        <4>1. i \in 1 .. n /\ i < n /\ stack'[i] = stack[i] /\ (i < Len(stack') => stack'[i + 1] = stack[i + 1])
          BY <1>t, <2>1
        <4>2. ~(i < Len(stack')) => i + 1 = n
          BY <1>t, <2>1
        <4> QED
          BY <1>1, <1>t, <2>2, <4>1, <4>2 DEF RunnerInv, CallsNested
      <3> QED
        BY <3>1, <3>2 DEF CallsNested
    <2>4. main = "start" /\ todo' \in Seq(Subsystems)
      BY <1>1, <1>t DEF RunnerInv, RunnerTyped, CallsNested
    <2>5. StartedInOrder'
      <3>1. \A p \in ToSet(Prereq[Call.sys]) : starts[p] > 0
        BY <1>2 DEF RunnerInv, StartedInOrder
      <3>2. \A s : Unverified(s) => s = Call.sys
        BY DEF Unverified
      <3> QED
        BY <1>1, <1>2, <3>1, <3>2 DEF RunnerInv, StartedInOrder
    <2> QED
      BY <1>1, <1>2, <2>1, <2>3, <2>4, <2>5, CallStep
  <1>3. CASE Throw /\ TriggerShutdown({Call.sys}, running)
    <2>1. PICK ended \in SUBSET Synchronous : up' = up \ ended /\ running' = running \ ended
      BY <1>3, Triggered
    <2> QED
      BY <1>1, <1>3, <1>t, <2>1, ThrowStep
  <1> QED
    BY <1>2, <1>3

(* After an abort all subsystems are asked to shut down. *)
LEMMA RunnerAbort == ASSUME RunnerInv, AbortShutdown PROVE RunnerInv'
  <1> USE DEF AbortShutdown
  <1>1. PICK ended \in SUBSET Synchronous : up' = up \ ended /\ running' = running \ ended
    BY Triggered DEF ShutdownAll
  <1>2. emergency /\ ~Locked /\ main' = "wait"
    BY DEF RunnerInv, LeftClean, CallsNested
  <1>3. RunnerTyped' /\ CallsNested'
    BY <1>1, <1>2 DEF RunnerInv, RunnerTyped, CallsNested, Locked
  <1>4. StartedInOrder' /\ ManagedAccounted'
    BY <1>1, <1>2 DEF RunnerInv, StartedInOrder, ManagedAccounted
  <1>5. LeftClean'
    BY <1>2, NotLeft
  <1>6. NoRestart' => AliveManaged' /\ SignalsAccounted'
    BY <1>1, <1>2 DEF RunnerInv, NoRestart, AliveManaged, SignalsAccounted, BeingStarted
  <1> QED
    BY <1>3, <1>4, <1>5, <1>6 DEF RunnerInv

-----------------------------------------------------------------------------
(***************************************************************************)
(* The steps of subsystems.                                                *)
(***************************************************************************)

(* Opening the interface concerns nobody else. *)
LEMMA RunnerQuiet ==
    ASSUME RunnerInv, UNCHANGED <<up, tried, starts, pending, running, emergency, mainVars>>
    PROVE  RunnerInv'
  <1> USE DEF mainVars
  <1>1. RunnerTyped' /\ CallsNested' /\ StartedInOrder'
    BY DEF RunnerInv, RunnerTyped, CallsNested, StartedInOrder, Unverified, Locked, Call
  <1>2. ManagedAccounted' /\ LeftClean'
    BY DEF RunnerInv, ManagedAccounted, LeftClean, NoRestart
  <1>3. NoRestart' => AliveManaged' /\ SignalsAccounted'
    BY DEF RunnerInv, NoRestart, AliveManaged, SignalsAccounted, BeingStarted, Locked, Call
  <1> QED
    BY <1>1, <1>2, <1>3 DEF RunnerInv

(* A subsystem which ends is about to signal this. *)
LEMMA RunnerTerminate ==
    ASSUME RunnerInv, NEW s \in Subsystems, Terminate(s)
    PROVE  RunnerInv'
  <1> USE DEF Terminate
  <1>1. PICK e : e.sys = s /\ pending' = pending \cup {e}
    OBVIOUS
  <1>2. /\ s \in up \ Synchronous /\ up' = up \ {s}
        /\ UNCHANGED <<tried, starts, running, emergency, main, todo, stack, exitCode>>
    BY DEF mainVars
  <1>3. RunnerTyped'
    <2>1. starts[s] > 0
      BY <1>2 DEF RunnerInv, StartedInOrder
    <2> QED
      BY <1>1, <1>2, <2>1 DEF RunnerInv, RunnerTyped
  <1>4. CallsNested' /\ StartedInOrder'
    BY <1>2 DEF RunnerInv, CallsNested, StartedInOrder, Unverified, Locked, Call
  <1>5. ManagedAccounted'
    BY <1>1, <1>2 DEF RunnerInv, ManagedAccounted
  <1>6. LeftClean'
    BY <1>2 DEF RunnerInv, LeftClean, NoRestart
  <1>7. NoRestart' <=> NoRestart
    BY <1>2 DEF NoRestart
  <1>8. ASSUME NoRestart PROVE AliveManaged' /\ SignalsAccounted'
    <2>1. \A q : BeingStarted(q)' <=> BeingStarted(q)
      BY <1>2 DEF BeingStarted, Locked, Call
    <2>2. AliveManaged'
      BY <1>2, <1>8, <2>1 DEF RunnerInv, AliveManaged
    <2>3. s \in running \/ BeingStarted(s)
      BY <1>2, <1>8 DEF RunnerInv, AliveManaged
    <2>4. \A f \in pending : f.sys # s
      BY <1>2, <1>8 DEF RunnerInv, SignalsAccounted
    <2>5. SignalsAccounted'
      BY <1>1, <1>2, <1>8, <2>1, <2>3, <2>4 DEF RunnerInv, SignalsAccounted
    <2> QED
      BY <2>2, <2>5
  <1> QED
    BY <1>3, <1>4, <1>5, <1>6, <1>7, <1>8 DEF RunnerInv

(* The signal takes a subsystem off the list and triggers all the others. *)
LEMMA RunnerSignal ==
    ASSUME RunnerInv, NEW e \in pending, SigTerm(e)
    PROVE  RunnerInv'
  <1> USE DEF SigTerm
  <1>1. PICK ended \in SUBSET Synchronous :
            up' = up \ ended /\ running' = (running \ {e.sys}) \ ended
    BY Triggered DEF ShutdownAll
  <1>2. /\ ~Locked /\ main # "exit" /\ pending' = pending \ {e}
        /\ emergency => emergency'
        /\ UNCHANGED <<tried, starts, main, todo, stack, exitCode>>
    BY DEF mainVars
  <1>3. RunnerTyped' /\ CallsNested'
    BY <1>1, <1>2 DEF RunnerInv, RunnerTyped, CallsNested, Locked
  <1>4. StartedInOrder'
    BY <1>1, <1>2 DEF RunnerInv, StartedInOrder, Unverified
  <1>5. ManagedAccounted'
    BY <1>1, <1>2 DEF RunnerInv, ManagedAccounted
  <1>6. LeftClean'
    BY <1>2 DEF RunnerInv, LeftClean
  <1>7. NoRestart' <=> NoRestart
    BY <1>2 DEF NoRestart
  <1>8. ASSUME NoRestart PROVE AliveManaged' /\ SignalsAccounted'
    <2>1. e.sys \notin up /\ \A f \in pending' : f.sys # e.sys
      BY <1>2, <1>8 DEF RunnerInv, SignalsAccounted
    <2>2. AliveManaged'
      BY <1>1, <1>2, <1>8, <2>1 DEF RunnerInv, AliveManaged, BeingStarted
    <2>3. \A f \in pending : f.sys \notin Synchronous
      BY DEF RunnerInv, RunnerTyped
    <2>4. SignalsAccounted'
      BY <1>1, <1>2, <1>8, <2>1, <2>3 DEF RunnerInv, SignalsAccounted, BeingStarted
    <2> QED
      BY <2>2, <2>4
  <1> QED
    BY <1>3, <1>4, <1>5, <1>6, <1>7, <1>8 DEF RunnerInv

-----------------------------------------------------------------------------
(* The invariant holds throughout. *)
THEOREM RunnerSafety == Spec => []RunnerInv
  <1>1. Init => RunnerInv
    <2> SUFFICES ASSUME Init PROVE RunnerInv
      OBVIOUS
    <2> USE DEF Init
    <2>1. RunnerTyped
      BY EmptySeq, RunnerAssumption DEF RunnerTyped
    <2>2. CallsNested /\ StartedInOrder /\ ManagedAccounted /\ LeftClean
      BY DEF CallsNested, StartedInOrder, ManagedAccounted, LeftClean, Locked, NormalExit
    <2>3. AliveManaged /\ SignalsAccounted
      BY DEF AliveManaged, SignalsAccounted
    <2> QED
      BY <2>1, <2>2, <2>3 DEF RunnerInv
  <1>2. RunnerInv /\ [Next]_vars => RunnerInv'
    <2> SUFFICES ASSUME RunnerInv, [Next]_vars PROVE RunnerInv'
      OBVIOUS
    <2>1. CASE MainStep
      BY <2>1, RunnerMain, RunnerMaybeRun, RunnerEnter, RunnerStart, RunnerRefuses,
         RunnerThrows, RunnerAdopt,
         RunnerCheck, RunnerAbort DEF MainStep
    <2>2. ASSUME NEW s \in Subsystems, OpenInterface(s) PROVE RunnerInv'
      BY <2>2, RunnerQuiet DEF OpenInterface
    <2>3. ASSUME NEW s \in Subsystems, EndsOnDemand(s) \/ EndsSpontaneously(s) PROVE RunnerInv'
      BY <2>3, RunnerTerminate DEF EndsOnDemand, EndsSpontaneously
    <2>4. ASSUME NEW e \in pending, SigTerm(e) PROVE RunnerInv'
      BY <2>4, RunnerSignal
    <2>5. CASE UNCHANGED vars
      BY <2>5, RunnerQuiet DEF vars, sysVars
    <2> QED
      BY <2>1, <2>2, <2>3, <2>4, <2>5 DEF Next
  <1> QED
    BY <1>1, <1>2, PTL DEF Spec

(* main() leaves normally only after every subsystem has ended, and when   *)
(* no signal is pending that would call back into the SubsystemRunner.     *)
THEOREM NormalExitClean == Spec => []CleanExit
  <1>1. RunnerInv => CleanExit
    BY DEF RunnerInv, LeftClean, CleanExit
  <1> QED
    BY <1>1, RunnerSafety, PTL

(* Startup observes the dependencies, and after a failure everything in    *)
(* operation was asked to shut down, for any subsystems and prerequisites, *)
(* which may end, throw or refuse to start at any time.                    *)
THEOREM StartupOrderly == Spec => StartupAllOrNothing
  <1> DEFINE order == \A s \in tried' \ tried : ToSet(Prereq[s]) \subseteq tried
             complete == main = "start" /\ main' = "wait" /\ ~emergency =>
                            \A s \in up : \A p \in ToSet(Prereq[s]) : starts[p] > 0
             unwound == main = "shutdown" /\ main' = "wait" /\ NoRestart => up' \subseteq told' \cup missed'
  <1>1. ASSUME RunnerInv, [Next]_vars PROVE order
    <2>1. CASE StartSubsystem \/ StartRefuses \/ StartThrows
      <3>1. RunnerTyped /\ Locked /\ Call.at = "start" /\ tried' = tried \cup {Call.sys}
        BY <1>1, <2>1 DEF RunnerInv, StartSubsystem, StartRefuses, StartThrows
      <3>2. Call = stack[Len(stack)] /\ Len(stack) \in Nat \ {0} /\ Len(stack) \in 1 .. Len(stack)
        BY <3>1, TopCall
      <3>3. /\ Call.open = <<>>
            /\ \A q \in ToSet(Prereq[Call.sys]) : q \in ToSet(Call.open) \/ q \in tried
        BY <1>1, <3>1, <3>2 DEF RunnerInv, CallsNested
      <3>4. ToSet(<<>>) = {}
        BY DEF ToSet
      <3> QED
        BY <3>1, <3>3, <3>4
    <2>2. CASE UNCHANGED tried
      BY <2>2
    <2>3. StartSubsystem \/ StartRefuses \/ StartThrows \/ UNCHANGED tried
      BY <1>1 DEF Next, MainStep, MaybeRun, MaybeWait, EnterStartup, AdoptStarted, CheckPrerequisites,
         AbortEmergency, AbortShutdown, Wait, Unwind, OpenInterface, EndsOnDemand, EndsSpontaneously,
         Terminate, SigTerm, vars, sysVars
    <2> QED
      BY <2>1, <2>2, <2>3
  <1>2. ASSUME RunnerInv, [Next]_vars, main = "start", main' = "wait" PROVE ~Locked
    BY <1>2 DEF Next, MainStep, MaybeRun, MaybeWait, EnterStartup, StartSubsystem, StartRefuses, StartThrows,
       Throw, AdoptStarted, CheckPrerequisites, AbortEmergency, AbortShutdown, Wait, Unwind, Exit,
       OpenInterface, EndsOnDemand, EndsSpontaneously, Terminate, SigTerm, vars, sysVars, mainVars
  <1>3. ASSUME RunnerInv, [Next]_vars PROVE complete
    BY <1>2, <1>3 DEF RunnerInv, StartedInOrder, Unverified
  <1>4. ASSUME RunnerInv, [Next]_vars, main = "shutdown", main' = "wait" PROVE AbortShutdown /\ ~Locked
    BY <1>4 DEF RunnerInv, CallsNested, Next, MainStep, MaybeRun, MaybeWait, EnterStartup, StartSubsystem,
       StartRefuses, StartThrows, Throw, AdoptStarted, CheckPrerequisites, AbortEmergency, Wait, Unwind,
       Exit, OpenInterface, EndsOnDemand, EndsSpontaneously, Terminate, SigTerm, vars, sysVars, mainVars
  <1>5. ASSUME RunnerInv, [Next]_vars PROVE unwound
    <2> SUFFICES ASSUME main = "shutdown", main' = "wait", NoRestart
                 PROVE  up' \subseteq told' \cup missed'
      OBVIOUS
    <2>1. TriggerShutdown(running, running) /\ up \subseteq running
      BY <1>4, <1>5 DEF RunnerInv, AliveManaged, BeingStarted, AbortShutdown, ShutdownAll
    <2> QED
      BY <2>1 DEF TriggerShutdown
  <1>6. RunnerInv /\ [Next]_vars
        => [/\ \A s \in tried' \ tried : ToSet(Prereq[s]) \subseteq tried
            /\ main = "start" /\ main' = "wait" /\ ~emergency =>
                  \A s \in up : \A p \in ToSet(Prereq[s]) : starts[p] > 0
            /\ main = "shutdown" /\ main' = "wait" /\ NoRestart => up' \subseteq told' \cup missed']_vars
    BY <1>1, <1>3, <1>5
  <1> QED
    BY <1>6, RunnerSafety, PTL DEF Spec, StartupAllOrNothing
=============================================================================
