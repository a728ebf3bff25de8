------------------------- MODULE ExtentFamilyProofs -------------------------
(***************************************************************************)
(* The cyclic pool of extents is well formed, bounded by the largest need, *)
(* and implements a queue of extents, for every initial size and every     *)
(* excess allocation.                                                      *)
(***************************************************************************)
EXTENDS ExtentFamily, SequenceTheorems, TLAPS

(* Remainder of a number less than twice the divisor. *)
LEMMA ModLess ==
    ASSUME NEW n \in Nat \ {0}, NEW a \in 0 .. 2 * n - 1
    PROVE  a % n = IF a < n THEN a ELSE a - n
  OBVIOUS

(* Counting slots: there is always one which is not in use. *)
LEMMA SlotCounts ==
    ASSUME TypeOK
    PROVE  /\ SlotCnt \in Nat \ {0} /\ start \in 0 .. SlotCnt - 1 /\ after \in 0 .. SlotCnt - 1
           /\ ActiveSlotCnt \in 0 .. SlotCnt - 1
           /\ FreeSlotCnt = SlotCnt - ActiveSlotCnt /\ FreeSlotCnt \in 1 .. SlotCnt
  BY DEF TypeOK, SlotCnt, ActiveSlotCnt, FreeSlotCnt, IsWrapped

(* openNew() provides enough room: one slot stays free thereafter. *)
LEMMA AddedSize ==
    ASSUME TypeOK, NEW cnt \in Nat
    PROVE  /\ AddSiz(cnt) \in Nat
           /\ cnt < FreeSlotCnt + AddSiz(cnt)
           /\ AddSiz(cnt) > 0 => SlotCnt + AddSiz(cnt) = ActiveSlotCnt + cnt + ExcessAlloc
  <1>1. ExcessAlloc \in Nat \ {0}
    BY ExtentAssumption
  <1> QED
    BY <1>1, SlotCounts DEF AddSiz, CanAccomodate

(* where the new extents are inserted *)
Gap == IF IsWrapped THEN start ELSE SlotCnt

(* The grown vector: its length, and where the extents have gone. *)
LEMMA GrownVector ==
    ASSUME TypeOK, NEW add \in Nat
    PROVE  /\ Grown(add) \in Seq(Nat) /\ Len(Grown(add)) = SlotCnt + add
           /\ \A i \in 1 .. SlotCnt + add : Grown(add)[i] \in 1 .. SlotCnt + add
           /\ \A i \in 1 .. Gap : Grown(add)[i] = extents[i]
           /\ \A i \in Gap + 1 .. Gap + add : Grown(add)[i] = SlotCnt + (i - Gap)
           /\ \A i \in Gap + 1 .. SlotCnt : Grown(add)[i + add] = extents[i]
           /\ \A i, j \in 1 .. SlotCnt + add : Grown(add)[i] = Grown(add)[j] => i = j
  <1>0. /\ SlotCnt \in Nat /\ Gap \in 0 .. SlotCnt
        /\ \A i \in 1 .. SlotCnt : extents[i] \in 1 .. SlotCnt
        /\ \A i, j \in 1 .. SlotCnt : extents[i] = extents[j] => i = j
    <2>1. SlotCnt \in Nat /\ Gap \in 0 .. SlotCnt
      BY SlotCounts DEF Gap
    <2> QED
      BY <2>1 DEF TypeOK
  <1> DEFINE G == [i \in 1 .. SlotCnt + add |->
                      IF i <= Gap THEN extents[i]
                      ELSE IF i <= Gap + add THEN SlotCnt + (i - Gap)
                      ELSE extents[i - add]]
  <1>1. Grown(add) = G
    BY DEF Grown, Gap
  <1>2. \A i \in 1 .. SlotCnt + add : G[i] \in 1 .. SlotCnt + add
    BY <1>0
  <1>3. G \in Seq(Nat) /\ Len(G) = SlotCnt + add
    BY <1>0, <1>2
  <1>4. /\ \A i \in 1 .. Gap : G[i] = extents[i]
        /\ \A i \in Gap + 1 .. Gap + add : G[i] = SlotCnt + (i - Gap)
        /\ \A i \in Gap + 1 .. SlotCnt : G[i + add] = extents[i]
    BY <1>0
  <1>5. \A i, j \in 1 .. SlotCnt + add : G[i] = G[j] => i = j
    BY <1>0
  <1> QED
    BY <1>1, <1>2, <1>3, <1>4, <1>5

-----------------------------------------------------------------------------
(* The indices after opening extents, without remainder. *)
LEMMA OpenedIndices ==
    ASSUME TypeOK, NEW cnt \in Nat, OpenNew(cnt)
    PROVE  /\ AddSiz(cnt) \in Nat
           /\ extents' = Grown(AddSiz(cnt))
           /\ SlotCnt' = SlotCnt + AddSiz(cnt)
           /\ start' = IF IsWrapped THEN start + AddSiz(cnt) ELSE start
           /\ after' = IF after + cnt < SlotCnt + AddSiz(cnt)
                         THEN after + cnt ELSE after + cnt - (SlotCnt + AddSiz(cnt))
           /\ after' \in 0 .. SlotCnt + AddSiz(cnt) - 1
  <1>1. /\ AddSiz(cnt) \in Nat /\ SlotCnt \in Nat \ {0}
        /\ cnt < SlotCnt + AddSiz(cnt) /\ after \in 0 .. SlotCnt - 1
    BY AddedSize, SlotCounts
  <1>2. SlotCnt' = SlotCnt + AddSiz(cnt)
    BY <1>1, GrownVector DEF OpenNew, SlotCnt
  <1>3. after + cnt \in 0 .. 2 * (SlotCnt + AddSiz(cnt)) - 1
    BY <1>1
  <1>4. after' = (after + cnt) % (SlotCnt + AddSiz(cnt))
    BY DEF OpenNew
  <1>5. after' = IF after + cnt < SlotCnt + AddSiz(cnt)
                   THEN after + cnt ELSE after + cnt - (SlotCnt + AddSiz(cnt))
    <2> DEFINE n == SlotCnt + AddSiz(cnt)
               a == after + cnt
    <2>1. n \in Nat \ {0} /\ a \in 0 .. 2 * n - 1 /\ after' = a % n
      BY <1>1, <1>3, <1>4
    <2> HIDE DEF n, a
    <2>2. after' = IF a < n THEN a ELSE a - n
      BY <2>1, ModLess
    <2> QED
      BY <1>1, <2>2 DEF n, a
  <1>6. after' \in 0 .. SlotCnt + AddSiz(cnt) - 1
    BY <1>1, <1>3, <1>5
  <1> QED
    BY <1>1, <1>2, <1>5, <1>6 DEF OpenNew

(* Opening extents keeps the vector well formed. *)
LEMMA TypeOpenNew ==
    ASSUME TypeOK, NEW cnt \in Nat, OpenNew(cnt)
    PROVE  TypeOK'
  <1> DEFINE add == AddSiz(cnt)
  <1>1. /\ add \in Nat /\ SlotCnt \in Nat \ {0} /\ SlotCnt' = SlotCnt + add
        /\ extents' = Grown(add) /\ after' \in 0 .. SlotCnt' - 1
    BY OpenedIndices, SlotCounts
  <1>2. start' \in 0 .. SlotCnt' - 1
    BY <1>1, OpenedIndices, SlotCounts
  <1>3. peak' \in Nat
    BY SlotCounts DEF OpenNew, TypeOK
  <1> HIDE DEF add
  <1>4. /\ extents' \in Seq(Nat) /\ SlotCnt' > 0
        /\ \A i \in 1 .. SlotCnt' : extents'[i] \in 1 .. SlotCnt'
        /\ \A i, j \in 1 .. SlotCnt' : extents'[i] = extents'[j] => i = j
    <2>1. /\ Grown(add) \in Seq(Nat) /\ Len(Grown(add)) = SlotCnt + add
          /\ \A i \in 1 .. SlotCnt + add : Grown(add)[i] \in 1 .. SlotCnt + add
          /\ \A i, j \in 1 .. SlotCnt + add : Grown(add)[i] = Grown(add)[j] => i = j
      BY <1>1, GrownVector
    <2> QED
      BY <1>1, <2>1
  <1> QED
    BY <1>1, <1>2, <1>3, <1>4 DEF TypeOK

(* Dropping extents keeps the vector well formed. *)
LEMMA TypeDropOld ==
    ASSUME TypeOK, NEW cnt \in Nat, DropOld(cnt)
    PROVE  TypeOK'
  BY SlotCounts DEF TypeOK, DropOld, IncWrap, SlotCnt

(* The vector holds distinct extents and indices stay inside of it, for    *)
(* every initial size and excess allocation.                               *)
THEOREM TypeCorrect == Spec => []TypeOK
  <1>1. Init => TypeOK
    BY ExtentAssumption DEF Init, TypeOK, SlotCnt
  <1>2. TypeOK /\ [Next]_extentVars => TypeOK'
    <2> SUFFICES ASSUME TypeOK, [Next]_extentVars PROVE TypeOK'
      OBVIOUS
    <2>1. ASSUME NEW cnt \in 1 .. MaxExtents, OpenNew(cnt) PROVE TypeOK'
      BY <2>1, TypeOpenNew, ExtentAssumption
    <2>2. ASSUME NEW cnt \in 1 .. ActiveSlotCnt, DropOld(cnt) PROVE TypeOK'
      BY <2>2, TypeDropOld, SlotCounts
    <2>3. CASE UNCHANGED extentVars
      BY <2>3 DEF extentVars, TypeOK, SlotCnt
    <2> QED
      BY <2>1, <2>2, <2>3 DEF Next
  <1> QED
    BY <1>1, <1>2, PTL DEF Spec

-----------------------------------------------------------------------------
(* The pool never grows beyond the largest number of extents in use plus   *)
(* the excess, for every initial size and excess allocation.               *)
THEOREM PoolSizeBounded == Spec => []PoolBounded
  <1>1. Init => PoolBounded
    BY ExtentAssumption DEF Init, PoolBounded, SlotCnt
  <1>2. TypeOK /\ PoolBounded /\ [Next]_extentVars => PoolBounded'
    <2> SUFFICES ASSUME TypeOK, PoolBounded, [Next]_extentVars PROVE PoolBounded'
      OBVIOUS
    <2>0. InitialCnt \in Nat /\ ExcessAlloc \in Nat /\ MaxExtents \in Nat /\ peak \in Nat
      BY ExtentAssumption DEF TypeOK
    <2>1. ASSUME NEW cnt \in 1 .. MaxExtents, OpenNew(cnt) PROVE PoolBounded'
      <3>1. /\ AddSiz(cnt) \in Nat /\ SlotCnt' = SlotCnt + AddSiz(cnt)
            /\ SlotCnt \in Nat /\ ActiveSlotCnt \in Nat
            /\ AddSiz(cnt) > 0 => SlotCnt + AddSiz(cnt) = ActiveSlotCnt + cnt + ExcessAlloc
        BY <2>0, <2>1, OpenedIndices, AddedSize, SlotCounts
      <3>2. peak' = IF ActiveSlotCnt + cnt > peak THEN ActiveSlotCnt + cnt ELSE peak
        BY <2>1 DEF OpenNew
      <3> QED
        BY <2>0, <3>1, <3>2 DEF PoolBounded
    <2>2. ASSUME NEW cnt \in 1 .. ActiveSlotCnt, DropOld(cnt) PROVE PoolBounded'
      BY <2>2 DEF DropOld, PoolBounded, SlotCnt
    <2>3. CASE UNCHANGED extentVars
      BY <2>3 DEF extentVars, PoolBounded, SlotCnt
    <2> QED
      BY <2>1, <2>2, <2>3 DEF Next
  <1> QED
    BY <1>1, <1>2, TypeCorrect, PTL DEF Spec

-----------------------------------------------------------------------------
(***************************************************************************)
(* The section in use, seen as a sequence.                                 *)
(***************************************************************************)

(* position of the k-th extent in use, with start s in a vector of n slots *)
Pos(s, n, k) == IF s + k <= n THEN s + k ELSE s + k - n

(* A position is inside of the vector, and no two of them are the same. *)
LEMMA Positions ==
    ASSUME TypeOK
    PROVE  /\ \A k \in 1 .. ActiveSlotCnt : Pos(start, SlotCnt, k) \in 1 .. SlotCnt
           /\ \A k, l \in 1 .. ActiveSlotCnt :
                 Pos(start, SlotCnt, k) = Pos(start, SlotCnt, l) => k = l
  BY SlotCounts DEF Pos

(* What iteration from begin() to end() yields. *)
LEMMA ActiveAt ==
    TypeOK => /\ Active \in Seq(Nat) /\ Len(Active) = ActiveSlotCnt
              /\ \A k \in 1 .. ActiveSlotCnt : Active[k] = extents[Pos(start, SlotCnt, k)]
  <1> SUFFICES ASSUME TypeOK
               PROVE  /\ Active \in Seq(Nat) /\ Len(Active) = ActiveSlotCnt
                      /\ \A k \in 1 .. ActiveSlotCnt : Active[k] = extents[Pos(start, SlotCnt, k)]
    OBVIOUS
  <1>1. ASSUME NEW k \in 1 .. ActiveSlotCnt
        PROVE  Slot(IncWrap(start, k - 1)) = extents[Pos(start, SlotCnt, k)]
    <2> DEFINE a == start + (k - 1)
    <2>1. SlotCnt \in Nat \ {0} /\ a \in 0 .. 2 * SlotCnt - 1 /\ start \in Nat
      BY SlotCounts
    <2>2. IncWrap(start, k - 1) = IF a < SlotCnt THEN a ELSE a - SlotCnt
      BY <2>1, ModLess DEF IncWrap
    <2>3. IncWrap(start, k - 1) + 1 = Pos(start, SlotCnt, k)
      BY <2>1, <2>2 DEF Pos
    <2> QED
      BY <2>3 DEF Slot
  <1>2. \A k \in 1 .. ActiveSlotCnt : extents[Pos(start, SlotCnt, k)] \in Nat
    BY Positions, SlotCounts DEF TypeOK
  <1>3. ActiveSlotCnt \in Nat
    BY SlotCounts
  <1>4. /\ \A k \in 1 .. ActiveSlotCnt : Active[k] = extents[Pos(start, SlotCnt, k)]
        /\ Active = [k \in 1 .. ActiveSlotCnt |-> Active[k]]
    BY <1>1 DEF Active
  <1>5. \A k \in 1 .. ActiveSlotCnt : Active[k] \in Nat
    BY <1>2, <1>4
  <1> QED
    BY <1>3, <1>4, <1>5

(* No extent is in use twice. *)
LEMMA ActiveDistinct == TypeOK => Queue!Distinct(Active)
  <1> SUFFICES ASSUME TypeOK, NEW i \in 1 .. ActiveSlotCnt, NEW j \in 1 .. ActiveSlotCnt,
                      extents[Pos(start, SlotCnt, i)] = extents[Pos(start, SlotCnt, j)]
               PROVE  i = j
    BY ActiveAt DEF Queue!Distinct
  <1>1. Pos(start, SlotCnt, i) = Pos(start, SlotCnt, j)
    BY Positions DEF TypeOK
  <1> QED
    BY <1>1, Positions

(* Both facts, for the state reached by a step. *)
LEMMA ActiveNext ==
    ASSUME TypeOK'
    PROVE  /\ Active' \in Seq(Nat) /\ Len(Active') = ActiveSlotCnt'
           /\ \A k \in 1 .. ActiveSlotCnt' : Active'[k] = extents'[Pos(start', SlotCnt', k)]
           /\ Queue!Distinct(Active)'
  <1>1. TypeOK' => (/\ Active \in Seq(Nat) /\ Len(Active) = ActiveSlotCnt
                    /\ \A k \in 1 .. ActiveSlotCnt : Active[k] = extents[Pos(start, SlotCnt, k)])'
    BY ActiveAt, PTL
  <1>2. TypeOK' => Queue!Distinct(Active)'
    BY ActiveDistinct, PTL
  <1> QED
    BY <1>1, <1>2

(* Opening extents appends to the sequence and moves nothing. *)
LEMMA OpenNewAppends ==
    ASSUME TypeOK, NEW cnt \in Nat \ {0}, OpenNew(cnt)
    PROVE  /\ ActiveSlotCnt' = ActiveSlotCnt + cnt
           /\ \A k \in 1 .. ActiveSlotCnt :
                 extents'[Pos(start', SlotCnt', k)] = extents[Pos(start, SlotCnt, k)]
  <1> DEFINE add == AddSiz(cnt)
  <1>1. /\ SlotCnt \in Nat \ {0} /\ start \in 0 .. SlotCnt - 1 /\ after \in 0 .. SlotCnt - 1
        /\ FreeSlotCnt = SlotCnt - ActiveSlotCnt
        /\ add \in Nat /\ cnt < FreeSlotCnt + add
        /\ SlotCnt' = SlotCnt + add /\ extents' = Grown(add)
        /\ start' = IF IsWrapped THEN start + add ELSE start
        /\ after' = IF after + cnt < SlotCnt + add THEN after + cnt
                                                  ELSE after + cnt - (SlotCnt + add)
    BY SlotCounts, AddedSize, OpenedIndices
  <1>2. /\ \A i \in 1 .. Gap : Grown(add)[i] = extents[i]
        /\ \A i \in Gap + 1 .. SlotCnt : Grown(add)[i + add] = extents[i]
    BY <1>1, GrownVector
  <1> HIDE DEF add
  <1>3. CASE IsWrapped
    <2>1. /\ start' = start + add /\ after' = after + cnt /\ after' < start'
          /\ ActiveSlotCnt = after + (SlotCnt - start)
      BY <1>1, <1>3 DEF ActiveSlotCnt, IsWrapped
    <2>2. ActiveSlotCnt' = ActiveSlotCnt + cnt
      BY <1>1, <2>1 DEF ActiveSlotCnt, IsWrapped
    <2>3. ASSUME NEW k \in 1 .. ActiveSlotCnt
          PROVE Grown(add)[Pos(start', SlotCnt', k)] = extents[Pos(start, SlotCnt, k)]
      <3>1. CASE start + k <= SlotCnt
        <4>1. /\ Pos(start, SlotCnt, k) = start + k
              /\ Pos(start', SlotCnt', k) = (start + k) + add
              /\ Gap = start
          BY <1>1, <1>3, <2>1, <2>3, <3>1 DEF Pos, Gap
        <4> QED
          BY <1>1, <1>2, <2>1, <2>3, <3>1, <4>1
      <3>2. CASE start + k > SlotCnt
        <4>1. /\ Pos(start, SlotCnt, k) = start + k - SlotCnt
              /\ Pos(start', SlotCnt', k) = start + k - SlotCnt
              /\ Gap = start
          BY <1>1, <1>3, <2>1, <2>3, <3>2 DEF Pos, Gap
        <4>2. Pos(start, SlotCnt, k) \in 1 .. Gap
          BY <1>1, <1>3, <2>1, <2>3, <3>2, <4>1 DEF IsWrapped
        <4> QED
          BY <1>2, <4>1, <4>2
      <3> QED
        BY <1>1, <2>1, <2>3, <3>1, <3>2
    <2> QED
      BY <1>1, <2>2, <2>3
  <1>4. CASE ~IsWrapped
    <2>1. start' = start /\ ActiveSlotCnt = after - start /\ start <= after /\ Gap = SlotCnt
      BY <1>1, <1>4 DEF ActiveSlotCnt, IsWrapped, Gap
    <2>2. ActiveSlotCnt' = ActiveSlotCnt + cnt
      BY <1>1, <2>1 DEF ActiveSlotCnt, IsWrapped
    <2>3. ASSUME NEW k \in 1 .. ActiveSlotCnt
          PROVE Grown(add)[Pos(start', SlotCnt', k)] = extents[Pos(start, SlotCnt, k)]
      <3>1. /\ Pos(start, SlotCnt, k) = start + k
            /\ Pos(start', SlotCnt', k) = start + k
            /\ start + k \in 1 .. Gap
        BY <1>1, <2>1, <2>3 DEF Pos
      <3> QED
        BY <1>2, <3>1
    <2> QED
      BY <1>1, <2>2, <2>3
  <1> QED
    BY <1>3, <1>4

(* Dropping extents shortens the sequence from the front. *)
LEMMA DropOldShortens ==
    ASSUME TypeOK, NEW cnt \in 1 .. ActiveSlotCnt, DropOld(cnt)
    PROVE  /\ ActiveSlotCnt' = ActiveSlotCnt - cnt
           /\ \A k \in 1 .. ActiveSlotCnt' :
                 extents'[Pos(start', SlotCnt', k)] = extents[Pos(start, SlotCnt, k + cnt)]
  <1>1. /\ SlotCnt \in Nat \ {0} /\ start \in 0 .. SlotCnt - 1 /\ after \in 0 .. SlotCnt - 1
        /\ ActiveSlotCnt \in 0 .. SlotCnt - 1
        /\ extents' = extents /\ after' = after /\ SlotCnt' = SlotCnt
    BY SlotCounts DEF DropOld, SlotCnt
  <1>2. start' = IF start + cnt < SlotCnt THEN start + cnt ELSE start + cnt - SlotCnt
    <2> DEFINE a == start + cnt
    <2>1. a \in 0 .. 2 * SlotCnt - 1 /\ start' = a % SlotCnt
      BY <1>1 DEF DropOld, IncWrap
    <2> HIDE DEF a
    <2>2. start' = IF a < SlotCnt THEN a ELSE a - SlotCnt
      BY <1>1, <2>1, ModLess
    <2> QED
      BY <1>1, <2>2 DEF a
  <1>3. ActiveSlotCnt' = ActiveSlotCnt - cnt
    BY <1>1, <1>2 DEF ActiveSlotCnt, IsWrapped
  <1>4. ASSUME NEW k \in 1 .. ActiveSlotCnt'
        PROVE Pos(start', SlotCnt', k) = Pos(start, SlotCnt, k + cnt)
    BY <1>1, <1>2, <1>3 DEF Pos
  <1> QED
    BY <1>1, <1>3, <1>4

-----------------------------------------------------------------------------
(* The pool implements a queue of extents: every step opens new extents at *)
(* the end, drops some from the front or leaves the queue alone.           *)
THEOREM Implements == Spec => ImplementsQueue
  <1>1. Init => Queue!Init
    BY ExtentAssumption DEF Init, Queue!Init, Active, ActiveSlotCnt, IsWrapped
  <1>2. TypeOK /\ TypeOK' /\ [Next]_extentVars => [Queue!Next]_Active
    <2> SUFFICES ASSUME TypeOK, TypeOK', [Next]_extentVars PROVE [Queue!Next]_Active
      OBVIOUS
    <2>0. /\ Active \in Seq(Nat) /\ Len(Active) = ActiveSlotCnt /\ ActiveSlotCnt \in Nat
          /\ \A k \in 1 .. ActiveSlotCnt : Active[k] = extents[Pos(start, SlotCnt, k)]
          /\ Active' \in Seq(Nat) /\ Len(Active') = ActiveSlotCnt'
          /\ \A k \in 1 .. ActiveSlotCnt' : Active'[k] = extents'[Pos(start', SlotCnt', k)]
          /\ Queue!Distinct(Active)'
      BY ActiveAt, ActiveNext, SlotCounts
    <2>1. ASSUME NEW cnt \in 1 .. MaxExtents, OpenNew(cnt) PROVE Queue!Next
      <3>1. /\ cnt \in Nat \ {0} /\ ActiveSlotCnt' = ActiveSlotCnt + cnt
            /\ \A k \in 1 .. ActiveSlotCnt :
                  extents'[Pos(start', SlotCnt', k)] = extents[Pos(start, SlotCnt, k)]
        BY <2>1, OpenNewAppends, ExtentAssumption
      <3>2. SubSeq(Active', 1, Len(Active)) = Active
        <4> DEFINE s == SubSeq(Active', 1, Len(Active))
        <4>1. /\ s \in Seq(Nat) /\ Len(s) = Len(Active)
              /\ \A k \in 1 .. Len(Active) : s[k] = Active'[k]
          <5>1. \A k \in 1 .. Len(Active) : Active'[k] \in Nat
            BY <2>0, <3>1
          <5>2. /\ SubSeq(Active', 1, Len(Active)) \in Seq(Nat)
                /\ Len(SubSeq(Active', 1, Len(Active)))
                     = IF 1 <= Len(Active) THEN Len(Active) - 1 + 1 ELSE 0
                /\ \A k \in 1 .. Len(Active) - 1 + 1 :
                      SubSeq(Active', 1, Len(Active))[k] = Active'[1 + k - 1]
            BY <2>0, <5>1, SubSeqProperties
          <5> QED
            BY <2>0, <5>2
        <4> HIDE DEF s
        <4>2. ASSUME NEW k \in 1 .. Len(s) PROVE s[k] = Active[k]
          <5>1. k \in 1 .. ActiveSlotCnt /\ k \in 1 .. ActiveSlotCnt' /\ k \in 1 .. Len(Active)
            BY <2>0, <3>1, <4>1
          <5>2. s[k] = Active'[k]
            BY <4>1, <5>1
          <5>3. Active'[k] = extents'[Pos(start', SlotCnt', k)]
            BY <2>0, <5>1
          <5>4. Active[k] = extents[Pos(start, SlotCnt, k)]
            BY <2>0, <5>1
          <5>5. extents'[Pos(start', SlotCnt', k)] = extents[Pos(start, SlotCnt, k)]
            BY <3>1, <5>1
          <5> QED
            BY <5>2, <5>3, <5>4, <5>5
        <4> QED
          BY <2>0, <4>1, <4>2, SeqEqual DEF s
      <3>3. Queue!OpenNew(cnt) /\ cnt = Len(Active') - Len(Active)
        BY <2>0, <3>1, <3>2 DEF Queue!OpenNew, Queue!Distinct
      <3> QED
        BY <3>1, <3>3 DEF Queue!Next
    <2>2. ASSUME NEW cnt \in 1 .. ActiveSlotCnt, DropOld(cnt) PROVE Queue!Next
      <3>1. /\ ActiveSlotCnt' = ActiveSlotCnt - cnt
            /\ \A k \in 1 .. ActiveSlotCnt' :
                  extents'[Pos(start', SlotCnt', k)] = extents[Pos(start, SlotCnt, k + cnt)]
        BY <2>2, DropOldShortens
      <3>2. Active' = SubSeq(Active, cnt + 1, Len(Active))
        <4> DEFINE s == SubSeq(Active, cnt + 1, Len(Active))
        <4>1. /\ s \in Seq(Nat) /\ Len(s) = Len(Active')
              /\ \A k \in 1 .. Len(Active') : s[k] = Active[k + cnt]
          <5>1. \A k \in cnt + 1 .. Len(Active) : Active[k] \in Nat
            BY <2>0
          <5>2. /\ s \in Seq(Nat)
                /\ Len(s) = IF cnt + 1 <= Len(Active) THEN Len(Active) - (cnt + 1) + 1 ELSE 0
                /\ \A k \in 1 .. Len(Active) - (cnt + 1) + 1 : s[k] = Active[(cnt + 1) + k - 1]
            BY <2>0, <5>1, SubSeqProperties
          <5> HIDE DEF s
          <5> QED
            BY <2>0, <2>2, <3>1, <5>2
        <4> HIDE DEF s
        <4>2. ASSUME NEW k \in 1 .. Len(s) PROVE s[k] = Active'[k]
          <5>1. /\ k \in 1 .. ActiveSlotCnt'
                /\ k + cnt \in 1 .. ActiveSlotCnt
                /\ k \in 1 .. Len(Active')
            BY <2>0, <2>2, <3>1, <4>1
          <5>2. s[k] = Active[k + cnt]
            BY <4>1, <5>1
          <5>3. Active'[k] = extents'[Pos(start', SlotCnt', k)]
            BY <2>0, <5>1
          <5>4. Active[k + cnt] = extents[Pos(start, SlotCnt, k + cnt)]
            BY <2>0, <5>1
          <5>5. extents'[Pos(start', SlotCnt', k)] = extents[Pos(start, SlotCnt, k + cnt)]
            BY <3>1, <5>1
          <5> QED
            BY <5>2, <5>3, <5>4, <5>5
        <4> QED
          BY <2>0, <4>1, <4>2, SeqEqual DEF s
      <3> QED
        BY <2>0, <2>2, <3>2 DEF Queue!Next, Queue!DropOld
    <2>3. CASE UNCHANGED extentVars
      BY <2>3 DEF extentVars, Active, ActiveSlotCnt, IsWrapped, SlotCnt, Slot, IncWrap
    <2> QED
      BY <2>1, <2>2, <2>3 DEF Next
  <1> QED
    BY <1>1, <1>2, TypeCorrect, PTL DEF Spec, ImplementsQueue, Queue!Spec

-----------------------------------------------------------------------------
(***************************************************************************)
(* What users of the pool rely on, stated about the sequence in use.       *)
(***************************************************************************)

(* The extents in use are distinct. *)
LEMMA PoolInUse ==
    ASSUME TypeOK
    PROVE  /\ SlotCnt \in Nat \ {0} /\ ActiveSlotCnt \in Nat /\ (IsNil <=> ActiveSlotCnt = 0)
           /\ ActiveSlotCnt < SlotCnt /\ start \in 0 .. SlotCnt - 1
           /\ \A k \in 1 .. ActiveSlotCnt : Active[k] \in 1 .. SlotCnt
           /\ \A i, j \in 1 .. ActiveSlotCnt : Active[i] = Active[j] => i = j
  <1>1. \A k \in 1 .. ActiveSlotCnt : Active[k] \in 1 .. SlotCnt
    BY ActiveAt, Positions DEF TypeOK
  <1>2. \A i, j \in 1 .. ActiveSlotCnt : Active[i] = Active[j] => i = j
    BY ActiveAt, ActiveDistinct DEF Queue!Distinct
  <1> QED
    BY <1>1, <1>2, SlotCounts DEF IsNil, ActiveSlotCnt, IsWrapped

(* An extent in use is found at one index only, and from there on, moving  *)
(* the index steps through the sequence up to its end.                     *)
LEMMA PoolIteration ==
    ASSUME TypeOK, NEW k \in 1 .. ActiveSlotCnt, NEW idx \in 0 .. SlotCnt - 1, Slot(idx) = Active[k]
    PROVE  /\ (after - idx) % SlotCnt = ActiveSlotCnt - k + 1
           /\ \A n \in 0 .. ActiveSlotCnt - k :
                IncWrap(idx, n) \in 0 .. SlotCnt - 1 /\ Slot(IncWrap(idx, n)) = Active[k + n]
  <1>0. /\ SlotCnt \in Nat \ {0} /\ start \in 0 .. SlotCnt - 1 /\ after \in 0 .. SlotCnt - 1
        /\ ActiveSlotCnt \in 0 .. SlotCnt - 1
    BY SlotCounts
  <1>1. idx + 1 = Pos(start, SlotCnt, k)
    <2>1. extents[idx + 1] = extents[Pos(start, SlotCnt, k)]
      BY ActiveAt DEF Slot
    <2>2. idx + 1 \in 1 .. SlotCnt /\ Pos(start, SlotCnt, k) \in 1 .. SlotCnt
      BY <1>0, Positions
    <2> QED
      BY <2>1, <2>2 DEF TypeOK
  <1>2. (after - idx) % SlotCnt = ActiveSlotCnt - k + 1
    <2> DEFINE r == ActiveSlotCnt - k + 1
    <2>1. r \in 0 .. SlotCnt - 1 /\ (after - idx = r \/ after - idx = r - SlotCnt)
      BY <1>0, <1>1 DEF Pos, ActiveSlotCnt, IsWrapped
    <2> HIDE DEF r
    <2>2. ASSUME NEW a \in Int, a = r \/ a = r - SlotCnt PROVE a % SlotCnt = r
      BY <1>0, <2>1, <2>2
    <2>3. after - idx \in Int
      BY <1>0
    <2> QED
      BY <2>1, <2>2, <2>3 DEF r
  <1>3. ASSUME NEW n \in 0 .. ActiveSlotCnt - k
        PROVE  IncWrap(idx, n) \in 0 .. SlotCnt - 1 /\ Slot(IncWrap(idx, n)) = Active[k + n]
    <2> DEFINE a == idx + n
    <2>1. a \in 0 .. 2 * SlotCnt - 1 /\ k + n \in 1 .. ActiveSlotCnt
      BY <1>0
    <2>2. IncWrap(idx, n) = IF a < SlotCnt THEN a ELSE a - SlotCnt
      BY <1>0, <2>1, ModLess DEF IncWrap
    <2>3. IncWrap(idx, n) + 1 = Pos(start, SlotCnt, k + n)
      BY <1>0, <1>1, <2>1, <2>2 DEF Pos
    <2> QED
      BY <1>0, <2>1, <2>2, <2>3, ActiveAt DEF Slot
  <1> QED
    BY <1>2, <1>3

(* The first and the last extent in use. *)
LEMMA PoolEnds ==
    ASSUME TypeOK, ~IsNil
    PROVE  /\ ActiveSlotCnt >= 1 /\ Slot(start) = Active[1]
           /\ Slot(LastIdx) = Active[ActiveSlotCnt]
  <1>0. /\ SlotCnt \in Nat \ {0} /\ start \in 0 .. SlotCnt - 1 /\ after \in 0 .. SlotCnt - 1
        /\ ActiveSlotCnt \in 0 .. SlotCnt - 1 /\ ActiveSlotCnt >= 1
    BY SlotCounts DEF ActiveSlotCnt, IsWrapped, IsNil
  <1>1. Slot(start) = Active[1]
    <2>1. Active[1] = extents[Pos(start, SlotCnt, 1)] /\ Pos(start, SlotCnt, 1) = start + 1
      BY <1>0, ActiveAt DEF Pos
    <2> QED
      BY <2>1 DEF Slot
  <1>2. LastIdx + 1 = Pos(start, SlotCnt, ActiveSlotCnt)
    <2> DEFINE a == after + (SlotCnt - 1)
    <2>1. a \in 0 .. 2 * SlotCnt - 1
      BY <1>0
    <2>2. LastIdx = IF a < SlotCnt THEN a ELSE a - SlotCnt
      BY <1>0, <2>1, ModLess DEF LastIdx, IncWrap
    <2> QED
      BY <1>0, <2>2 DEF Pos, ActiveSlotCnt, IsWrapped, IsNil
  <1> QED
    BY <1>0, <1>1, <1>2, ActiveAt DEF Slot

(* New extents are those following after_, whatever was moved. *)
LEMMA PoolOpened ==
    ASSUME TypeOK, NEW cnt \in Nat \ {0}, OpenNew(cnt)
    PROVE  /\ TypeOK' /\ SlotCnt <= SlotCnt' /\ SlotCnt' <= MaxExtents
           /\ ActiveSlotCnt' = ActiveSlotCnt + cnt
           /\ \A k \in 1 .. ActiveSlotCnt : Active'[k] = Active[k]
           /\ \A k \in 1 .. cnt :
                LET idx == (ExpandedPos(after) + k - 1) % Len(extents')
                IN  idx \in 0 .. SlotCnt' - 1 /\ extents'[idx + 1] = Active'[ActiveSlotCnt + k]
  <1> DEFINE add == AddSiz(cnt)
             n == SlotCnt'
  <1>1. /\ SlotCnt \in Nat \ {0} /\ start \in 0 .. SlotCnt - 1 /\ after \in 0 .. SlotCnt - 1
        /\ FreeSlotCnt = SlotCnt - ActiveSlotCnt /\ ActiveSlotCnt \in Nat
        /\ add \in Nat /\ cnt < FreeSlotCnt + add /\ n = SlotCnt + add
        /\ start' = IF IsWrapped THEN start + add ELSE start
    BY SlotCounts, AddedSize, OpenedIndices
  <1>2. TypeOK' /\ ActiveSlotCnt' = ActiveSlotCnt + cnt
    BY TypeOpenNew, OpenNewAppends
  <1>3. \A k \in 1 .. ActiveSlotCnt' : Active'[k] = extents'[Pos(start', n, k)]
    BY <1>2, ActiveNext
  <1>4. \A k \in 1 .. ActiveSlotCnt : Active'[k] = Active[k]
    <2>1. \A k \in 1 .. ActiveSlotCnt : k \in 1 .. ActiveSlotCnt'
      BY <1>1, <1>2
    <2>2. \A k \in 1 .. ActiveSlotCnt :
            extents'[Pos(start', n, k)] = extents[Pos(start, SlotCnt, k)]
      BY OpenNewAppends
    <2> QED
      BY <1>3, <2>1, <2>2, ActiveAt
  <1>5. n <= MaxExtents
    BY <1>1 DEF OpenNew
  <1>6. ExpandedPos(after) = after
    BY <1>1 DEF ExpandedPos, IsWrapped
  <1>7. ASSUME NEW k \in 1 .. cnt
        PROVE  LET idx == (ExpandedPos(after) + k - 1) % Len(extents')
               IN  idx \in 0 .. n - 1 /\ extents'[idx + 1] = Active'[ActiveSlotCnt + k]
    <2> DEFINE a == after + k - 1
               idx == a % n
    <2>0. n = Len(extents')
      BY DEF SlotCnt
    <2>1. a \in 0 .. 2 * n - 1 /\ n \in Nat \ {0} /\ ActiveSlotCnt + k \in 1 .. ActiveSlotCnt'
      BY <1>1, <1>2
    <2>2. idx = IF a < n THEN a ELSE a - n
      <3> HIDE DEF a, n
      <3> QED
        BY <2>1, ModLess
    <2>3. idx + 1 = Pos(start', n, ActiveSlotCnt + k) /\ idx \in 0 .. n - 1
      <3> HIDE DEF idx
      <3> QED
        BY <1>1, <2>1, <2>2 DEF Pos, ActiveSlotCnt, IsWrapped
    <2> QED
      BY <1>3, <1>6, <2>0, <2>1, <2>3
  <1> QED
    BY <1>1, <1>2, <1>4, <1>5, <1>7

LEMMA PoolDropped ==
    ASSUME TypeOK, NEW cnt \in 0 .. ActiveSlotCnt, DropOld(cnt)
    PROVE  /\ TypeOK' /\ SlotCnt' = SlotCnt
           /\ ActiveSlotCnt' = ActiveSlotCnt - cnt
           /\ \A k \in 1 .. ActiveSlotCnt - cnt : Active'[k] = Active[k + cnt]
  <1>0. ActiveSlotCnt \in Nat /\ cnt \in Nat
    BY SlotCounts
  <1>1. TypeOK' /\ SlotCnt' = SlotCnt
    BY <1>0, TypeDropOld DEF DropOld, SlotCnt
  <1>2. CASE cnt = 0
    <2>1. start' = start /\ UNCHANGED <<extents, after>>
      <3>1. start + 0 = start /\ start \in 0 .. 2 * SlotCnt - 1 /\ start < SlotCnt /\ SlotCnt \in Nat \ {0}
        BY SlotCounts
      <3>2. start % SlotCnt = start
        BY <3>1, ModLess
      <3> QED
        BY <1>2, <3>1, <3>2 DEF DropOld, IncWrap
    <2> QED
      BY <1>0, <1>1, <1>2, <2>1 DEF Active, ActiveSlotCnt, IsWrapped, SlotCnt, Slot, IncWrap
  <1>3. CASE cnt # 0
    <2>0. cnt \in 1 .. ActiveSlotCnt
      BY <1>0, <1>3
    <2>1. /\ ActiveSlotCnt' = ActiveSlotCnt - cnt
          /\ \A k \in 1 .. ActiveSlotCnt' :
                 extents'[Pos(start', SlotCnt', k)] = extents[Pos(start, SlotCnt, k + cnt)]
      BY <2>0, DropOldShortens
    <2>2. \A k \in 1 .. ActiveSlotCnt' : Active'[k] = extents'[Pos(start', SlotCnt', k)]
      BY <1>1, ActiveNext
    <2>3. \A k \in 1 .. ActiveSlotCnt - cnt : k + cnt \in 1 .. ActiveSlotCnt
      BY <1>0
    <2> QED
      BY <1>1, <2>1, <2>2, <2>3, ActiveAt
  <1> QED
    BY <1>2, <1>3
=============================================================================
