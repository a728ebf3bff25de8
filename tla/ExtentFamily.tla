---------------------------- MODULE ExtentFamily ----------------------------
(***************************************************************************)
(* Storage extents for cyclic use (vault/mem/extent-family.hpp): a vector  *)
(* of extents, of which those from start_ up to but excluding after_ are   *)
(* in use, possibly wrapping around at the end of the vector. When more is *)
(* needed than the vector can offer, new extents are appended, and rotated *)
(* to the middle in case the section in use is wrapped.                    *)
(*                                                                         *)
(* An extent is identified by its number in the order of allocation: the   *)
(* vector only holds pointers, storage is never moved nor given back.      *)
(***************************************************************************)
EXTENDS Integers, Sequences

CONSTANTS InitialCnt,    \* extents allocated by the constructor
          ExcessAlloc,   \* EXCESS_ALLOC
          MaxExtents     \* bound: no more extents than this are ever allocated

ASSUME ExtentAssumption ==
    InitialCnt \in Nat \ {0} /\ ExcessAlloc \in Nat \ {0} /\ MaxExtents \in Nat

VARIABLES extents,    \* extents_, as sequence: index i of the code is position i + 1
          start,      \* start_
          after,      \* after_
          peak        \* history: the largest number of extents in use so far

extentVars == <<extents, start, after, peak>>

SlotCnt  == Len(extents)
Slot(idx) == extents[idx + 1]

IsNil     == start = after
IsWrapped == after < start

ActiveSlotCnt == IF IsWrapped THEN after + (SlotCnt - start) ELSE after - start
FreeSlotCnt   == SlotCnt - ActiveSlotCnt

(* one slot is kept in reserve, to tell a full sequence from an empty one *)
CanAccomodate(addCnt) == addCnt < FreeSlotCnt

(* Mutant: the index is not wrapped. *)
IncOnly(idx, inc) == idx + inc

IncWrap(idx, inc) == (idx + inc) % SlotCnt

(* Mutant: the index is not stepped back. *)
LastIdxAfter == IncWrap(after, SlotCnt)

(* position of last(), only to be used when not empty *)
LastIdx == IncWrap(after, SlotCnt - 1)

(* Mutant: the new extents are left at the end of the vector. *)
GrownAtEnd(addSiz) == [i \in 1 .. SlotCnt + addSiz |-> IF i <= SlotCnt THEN extents[i] ELSE i]

(* the vector after resize(), and rotate() when wrapped *)
Grown(addSiz) ==
    LET gap == IF IsWrapped THEN start ELSE SlotCnt
    IN  [i \in 1 .. SlotCnt + addSiz |->
            IF i <= gap THEN extents[i]
            ELSE IF i <= gap + addSiz THEN SlotCnt + (i - gap)
            ELSE extents[i - addSiz]]

(* Mutant: the free slots are not deducted. *)
AddSizAmple(cnt) == IF CanAccomodate(cnt) THEN 0 ELSE cnt + ExcessAlloc

AddSiz(cnt) == IF CanAccomodate(cnt) THEN 0 ELSE cnt - FreeSlotCnt + ExcessAlloc

OpenNew(cnt) ==
    LET addSiz == AddSiz(cnt)
    IN  /\ SlotCnt + addSiz <= MaxExtents
        /\ extents' = Grown(addSiz)
        /\ start' = IF IsWrapped THEN start + addSiz ELSE start
        /\ after' = (after + cnt) % (SlotCnt + addSiz)
        /\ peak' = IF ActiveSlotCnt + cnt > peak THEN ActiveSlotCnt + cnt ELSE peak

DropOld(cnt) ==
    /\ cnt <= ActiveSlotCnt
    /\ start' = IncWrap(start, cnt)
    /\ UNCHANGED <<extents, after, peak>>

(***************************************************************************)
(* Iterators hold an index. The one which triggered an expansion adjusts   *)
(* it at once; any other finds its extent again before it is moved on, by  *)
(* walking the whole vector.                                               *)
(***************************************************************************)
ExpandedPos(idx) == IF idx >= start THEN idx + (start' - start) ELSE idx

ValidatePos(idx, knownTarget) ==
    IF Slot(idx) = knownTarget THEN idx
    ELSE CHOOSE i \in 0 .. SlotCnt - 1 : Slot(i) = knownTarget

-----------------------------------------------------------------------------
Init == /\ extents = [i \in 1 .. InitialCnt |-> i]
        /\ start = 0 /\ after = 0
        /\ peak = 0

Next == \/ \E cnt \in 1 .. MaxExtents : OpenNew(cnt)
        \/ \E cnt \in 1 .. ActiveSlotCnt : DropOld(cnt)

Spec == Init /\ [][Next]_extentVars

-----------------------------------------------------------------------------
(* The vector holds pairwise distinct extents, and both indices are inside *)
(* of it, however it is grown and wrapped.                                 *)
TypeOK ==
    /\ extents \in Seq(Nat) /\ SlotCnt > 0
    /\ \A i \in 1 .. SlotCnt : extents[i] \in 1 .. SlotCnt
    /\ \A i, j \in 1 .. SlotCnt : extents[i] = extents[j] => i = j
    /\ start \in 0 .. SlotCnt - 1 /\ after \in 0 .. SlotCnt - 1
    /\ peak \in Nat

(* Storage does not grow beyond what was in use at some time plus the      *)
(* excess allocation: openNew() prefers extents dropped before.            *)
PoolBounded == SlotCnt <= (IF peak + ExcessAlloc > InitialCnt THEN peak + ExcessAlloc
                                                                ELSE InitialCnt)

(* the extents in use, oldest first *)
Active == [k \in 1 .. ActiveSlotCnt |-> Slot(IncWrap(start, k - 1))]

Queue == INSTANCE ExtentQueue WITH active <- Active

(* Iteration from begin() to end() presents a queue of extents: growing    *)
(* the vector, rotating it and wrapping around leave every extent in use   *)
(* at its place in the sequence.                                           *)
ImplementsQueue == Queue!Spec

=============================================================================
