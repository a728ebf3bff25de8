----------------------------- MODULE BlockFlow -----------------------------
(***************************************************************************)
(* Memory management for Activities (vault/gear/block-flow.hpp): every     *)
(* extent in use is an Epoch with a deadline, Activities are placed into   *)
(* an Epoch with a deadline no earlier than their own, and Epochs are      *)
(* discarded as a whole once their deadline has passed. The spacing of new *)
(* Epochs is adapted to the load.                                          *)
(*                                                                         *)
(* All operations are performed holding the grooming token, thus are one   *)
(* step each. Floating point factors are given in percent, and the result  *)
(* of adjustEpochStep() is rounded down, as in the code.                   *)
(***************************************************************************)
EXTENDS Integers, Sequences, FiniteSetsExt

CONSTANTS InitialCnt, ExcessAlloc, MaxExtents,
          ANYTIME,              \* Time::ANYTIME, marks pastDeadline_ as not set
          Handles,              \* AllocatorHandles in the hands of clients
          Times,                \* the deadlines asked for, and the times of a duty cycle
          MaxLate,              \* a deadline asked for is at most that much in the past
          LateRestart,          \* ... and also when no Epoch is left in use
          MaxCreate,            \* bound: number of Activities created
          Flows,                \* additional frame rates to be announced
          EpochSiz,             \* EPOCH_SIZ
          InitialStep,          \* Strategy::initialEpochStep()
          FramesPerEpoch,       \* Strategy::framesPerEpoch()
          AverageEpochs,        \* Strategy::averageEpochs()
          CutOff,               \* Strategy::timeStep_cutOff()
          TargetFill, BoostFactor, DampThreshold, BoostFactorOverflow   \* in percent

ASSUME FlowAssumption ==
    /\ InitialCnt \in Nat \ {0} /\ ExcessAlloc \in Nat \ {0}
    /\ MaxExtents \in Nat /\ InitialCnt <= MaxExtents
    /\ ANYTIME \in Int /\ Times \subseteq Nat /\ MaxLate \in Nat /\ MaxCreate \in Nat
    /\ LateRestart \in BOOLEAN
    /\ \A t \in Times : ANYTIME < t
    /\ Flows \subseteq Nat /\ EpochSiz \in Nat \ {0, 1}
    /\ {InitialStep, FramesPerEpoch, AverageEpochs, CutOff} \subseteq Nat \ {0}
    /\ {TargetFill, BoostFactor, DampThreshold} \subseteq 1 .. 100 /\ BoostFactorOverflow \in 1 .. 99

VARIABLES extents, start, after, peak,   \* alloc_
          deadline,      \* deadline of the EpochGate in each extent
          filled,        \* filledSlots() of the EpochGate in each extent
          epochStep,     \* epochStep_
          pastDeadline,  \* pastDeadline_
          handle,        \* position, Epoch and nominal deadline of each handle
          now,           \* history: time of the latest duty cycle
          live,          \* history: Activities with a deadline not reached
          created        \* history: number of Activities created

Alloc == INSTANCE ExtentFamily

allocVars == <<extents, start, after, peak>>
vars == <<allocVars, deadline, filled, epochStep, pastDeadline, handle, now, live, created>>

NoEpoch == 0     \* the nullptr cached in an EpochIter past the end

ExtentID   == 1 .. MaxExtents
FirstEpoch == Alloc!Slot(start)
LastEpoch  == Alloc!Slot(Alloc!LastIdx)

(* the Epoch k places after the one at index idx *)
Following(idx, k) == Alloc!Slot(Alloc!IncWrap(idx, k))

HasFreeSlot(e) == filled[e] < EpochSiz - 1

(***************************************************************************)
(* Adaptation of the Epoch spacing.                                        *)
(***************************************************************************)
MarkEpochOverflow(step) ==
    IF step > CutOff THEN (step * BoostFactorOverflow) \div 100 ELSE step

(* The usage of an Epoch with fill slots claimed, related to the target;   *)
(* with almost empty Epochs this is blended over to the boost factor.      *)
Adjust(fill) ==
    LET used == (fill * 10000) \div ((EpochSiz - 1) * TargetFill)
    IN  IF used > DampThreshold THEN used
        ELSE ((DampThreshold - used) * BoostFactor + used * used) \div DampThreshold

(* exponential moving average of length / adjust over AverageEpochs *)
MarkEpochUnderflow(step, actualLen, fill) ==
    LET adj == Adjust(fill)
    IN  (100 * actualLen + adj * step * (AverageEpochs - 1)) \div (AverageEpochs * adj)

(* deadline from where the length of an Epoch is measured *)
PastDeadline(past, step, currDeadline) ==
    IF past = ANYTIME THEN currDeadline - step ELSE past

NoHandle == [index |-> 0, epoch |-> NoEpoch, until |-> ANYTIME]

-----------------------------------------------------------------------------
(***************************************************************************)
(* until(d): a handle to allocate Activities to be performed until d.      *)
(***************************************************************************)
Requests(d) == d >= now - MaxLate

(* without any Epoch, a new one is set up one step ahead *)
UntilNew(h, d) ==
    /\ Requests(d) /\ Alloc!IsNil
    /\ LateRestart \/ d >= now
    /\ Alloc!OpenNew(1)
    /\ LET e == Alloc!Slot(start)' IN
          /\ deadline' = [deadline EXCEPT ![e] = d + epochStep]
          /\ filled'   = [filled EXCEPT ![e] = 0]
          /\ handle'   = [handle EXCEPT ![h] = [index |-> start', epoch |-> e, until |-> d]]
    /\ UNCHANGED <<epochStep, pastDeadline, now, live, created>>

(* the first existing Epoch to end at or after d, if there is any *)
UntilKnown(h, d) ==
    /\ Requests(d) /\ ~Alloc!IsNil
    /\ deadline[LastEpoch] >= d
    /\ LET k == Min({n \in 0 .. Alloc!ActiveSlotCnt - 1 : deadline[Following(start, n)] >= d})
       IN  handle' = [handle EXCEPT ![h] = [index |-> Alloc!IncWrap(start, k),
                                            epoch |-> Following(start, k), until |-> d]]
    /\ UNCHANGED <<allocVars, deadline, filled, epochStep, pastDeadline, now, live, created>>

RequiredNew(distance) ==
    (distance \div epochStep) + (IF distance % epochStep > 0 THEN 1 ELSE 0)

(* Otherwise a grid of new Epochs is created up to d, and the last one is    *)
(* used. Left out are a step down to zero, by which the code would divide,   *)
(* and the exception for a request exceeding all sensible memory.            *)
UntilBeyond(h, d) ==
    /\ Requests(d) /\ ~Alloc!IsNil
    /\ deadline[LastEpoch] < d
    /\ epochStep > 0
    /\ LET lastDeadline == deadline[LastEpoch]
           required     == RequiredNew(d - lastDeadline)
           idx(k)       == (Alloc!ExpandedPos(after) + k - 1) % Len(extents')
           new(k)       == extents'[idx(k) + 1]
       IN  /\ Alloc!OpenNew(required)
           /\ deadline' = [e \in ExtentID |->
                 IF \E k \in 1 .. required : e = new(k)
                   THEN lastDeadline + epochStep * (CHOOSE k \in 1 .. required : e = new(k))
                   ELSE deadline[e]]
           /\ filled' = [e \in ExtentID |->
                 IF \E k \in 1 .. required : e = new(k) THEN 0 ELSE filled[e]]
           /\ handle' = [handle EXCEPT ![h] = [index |-> idx(required),
                                               epoch |-> new(required), until |-> d]]
    /\ UNCHANGED <<epochStep, pastDeadline, now, live, created>>

(***************************************************************************)
(* create(): claim a slot in the Epoch of the handle, or else move on to   *)
(* the next one with a free slot, signalling overflow for each Epoch found *)
(* to be full, and setting up a new Epoch when past the last one.          *)
(***************************************************************************)
OverflowStep[k \in 0 .. MaxExtents] ==
    IF k = 0 THEN epochStep ELSE MarkEpochOverflow(OverflowStep[k - 1])

Position(h) == Alloc!ValidatePos(handle[h].index, handle[h].epoch)

(* Epochs from the one of the handle up to the end *)
Remaining(h) == (after - Position(h)) % Alloc!SlotCnt

Activity(e, slot, d) == [id |-> created + 1, epoch |-> e, slot |-> slot, until |-> d]

(* Mutant: the marker for the next slot is not moved on. *)
ClaimStuck(e) == filled

(* claimNextSlot(): the slots of an Epoch are handed out one after the other *)
ClaimNextSlot(e) == [filled EXCEPT ![e] = @ + 1]

ClaimSlot(h) ==
    /\ handle[h].epoch # NoEpoch /\ created < MaxCreate
    /\ LET d == handle[h].until
           k == IF HasFreeSlot(handle[h].epoch) THEN 0
                ELSE Min({n \in 1 .. Remaining(h) :
                            n < Remaining(h) => HasFreeSlot(Following(Position(h), n))})
           e == IF k = 0 THEN handle[h].epoch ELSE Following(Position(h), k)
       IN  /\ k = 0 \/ k < Remaining(h)
           /\ filled' = ClaimNextSlot(e)
           /\ live' = live \cup {Activity(e, filled[e] + 1, d)}
           /\ handle' = [handle EXCEPT ![h].epoch = e,
                            ![h].index = IF k = 0 THEN @ ELSE Alloc!IncWrap(Position(h), k)]
           /\ epochStep' = OverflowStep[k]
    /\ created' = created + 1
    /\ UNCHANGED <<allocVars, deadline, pastDeadline, now>>

ClaimBeyond(h) ==
    /\ handle[h].epoch # NoEpoch /\ created < MaxCreate
    /\ ~HasFreeSlot(handle[h].epoch)
    /\ \A n \in 1 .. Remaining(h) - 1 : ~HasFreeSlot(Following(Position(h), n))
    /\ Alloc!OpenNew(1)
    /\ epochStep' = OverflowStep[Remaining(h)]
    /\ LET idx == Alloc!ExpandedPos(after)
           e   == extents'[idx + 1]
       IN  /\ deadline' = [deadline EXCEPT ![e] = deadline[LastEpoch] + epochStep']
           /\ filled' = [filled EXCEPT ![e] = 1]
           /\ live' = live \cup {Activity(e, 1, handle[h].until)}
           /\ handle' = [handle EXCEPT ![h].epoch = e, ![h].index = idx]
    /\ created' = created + 1
    /\ UNCHANGED <<pastDeadline, now>>

(***************************************************************************)
(* discardBefore(t), called from the duty cycle: the leading Epochs with a *)
(* deadline passed are discarded, after accounting for their usage. From   *)
(* here on, clients must not use a handle or an Activity with a deadline   *)
(* up to t.                                                                *)
(***************************************************************************)
Accounted[k \in 0 .. MaxExtents] ==
    IF k = 0 THEN [step |-> epochStep, past |-> pastDeadline]
    ELSE LET prev == Accounted[k - 1]
             e    == Following(start, k - 1)
             from == PastDeadline(prev.past, prev.step, deadline[e])
         IN  [step |-> MarkEpochUnderflow(prev.step, deadline[e] - from, filled[e]),
              past |-> deadline[e]]

(* Mutant: an Epoch is considered dead one step too early. *)
IsAliveShort(e, t) == deadline[e] - epochStep > t

(* An EpochGate with pending callbacks is kept as well; but no code raises *)
(* this count, and to discard more is the worse case.                      *)
IsAlive(e, t) == deadline[e] > t

DiscardBefore(t) ==
    /\ t > now
    /\ now' = t
    /\ LET toDiscard == Min({n \in 0 .. Alloc!ActiveSlotCnt :
                               n < Alloc!ActiveSlotCnt => IsAlive(Following(start, n), t)})
       IN  /\ Alloc!DropOld(toDiscard)
           /\ epochStep' = Accounted[toDiscard].step
           /\ pastDeadline' = Accounted[toDiscard].past
    /\ handle' = [h \in Handles |-> IF handle[h].until > t THEN handle[h] ELSE NoHandle]
    /\ live' = {a \in live : a.until > t}
    /\ UNCHANGED <<deadline, filled, created>>

(* Mutant: the cut-off is not observed. *)
SpacingUnlimited(fps) == (FramesPerEpoch * epochStep) \div (FramesPerEpoch + fps * epochStep)

(* spread FramesPerEpoch over the sum of the current and the added rate *)
AdaptedSpacing(fps) ==
    Max({(FramesPerEpoch * epochStep) \div (FramesPerEpoch + fps * epochStep), CutOff})

AnnounceAdditionalFlow(fps) ==
    /\ epochStep > 0
    /\ epochStep' = AdaptedSpacing(fps)
    /\ UNCHANGED <<allocVars, deadline, filled, pastDeadline, handle, now, live, created>>

-----------------------------------------------------------------------------
Init == /\ Alloc!Init
        /\ deadline = [e \in ExtentID |-> ANYTIME]
        /\ filled = [e \in ExtentID |-> 0]
        /\ epochStep = InitialStep
        /\ pastDeadline = ANYTIME
        /\ handle = [h \in Handles |-> NoHandle]
        /\ now = 0 /\ live = {} /\ created = 0

Next == \/ \E h \in Handles, d \in Times : UntilNew(h, d) \/ UntilKnown(h, d) \/ UntilBeyond(h, d)
        \/ \E h \in Handles : ClaimSlot(h) \/ ClaimBeyond(h)
        \/ \E t \in Times : DiscardBefore(t)
        \/ \E fps \in Flows : AnnounceAdditionalFlow(fps)

Spec == Init /\ [][Next]_vars

-----------------------------------------------------------------------------
ActiveEpochs == {Alloc!Active[k] : k \in 1 .. Alloc!ActiveSlotCnt}

(* An Activity stays in place until its deadline: the Epoch it was put     *)
(* into is still in use and ends no earlier, and its slot is still marked  *)
(* as claimed. Handles obtained before the extents were rotated, overflow  *)
(* and deadlines in the past, which go into the first Epoch available,     *)
(* notwithstanding. There is one exception, excluded by LateRestart: when  *)
(* a deadline in the past is asked for while no Epoch is in use, the new   *)
(* Epoch may end before the last one discarded, so that the length derived *)
(* for it, and then the step, is negative and Epochs end too early.        *)
RetainedUntilDeadline ==
    \A a \in live : /\ a.epoch \in ActiveEpochs
                    /\ deadline[a.epoch] >= a.until
                    /\ a.slot <= filled[a.epoch]

(* No two Activities alive share a slot. *)
SlotsDisjoint == \A a, b \in live : a.epoch = b.epoch /\ a.slot = b.slot => a = b

(* Epochs follow each other in the order of their deadlines, with distinct *)
(* deadlines; until() and discardBefore() search them in this order.       *)
DeadlinesOrdered ==
    \A k \in 1 .. Alloc!ActiveSlotCnt - 1 : deadline[Alloc!Active[k]] < deadline[Alloc!Active[k + 1]]

(* Overload regulation is limited: in between two runs of the duty cycle,  *)
(* the spacing of Epochs, by which until() divides, is not reduced further *)
(* than by the last reduction starting above the cut-off, however often    *)
(* Epochs overflow and whatever frame rates are announced.                 *)
OverloadLimited ==
    [][now' = now => epochStep' >= Min({epochStep, ((CutOff + 1) * BoostFactorOverflow) \div 100})]_vars

=============================================================================
