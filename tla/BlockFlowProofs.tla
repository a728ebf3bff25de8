-------------------------- MODULE BlockFlowProofs --------------------------
(***************************************************************************)
(* Activities are retained until their deadline and never share a slot,    *)
(* for any number of handles and extents, and any spacing of Epochs.       *)
(***************************************************************************)
EXTENDS BlockFlow, WellFoundedInduction, TLAPS

Pool == INSTANCE ExtentFamilyProofs

InUse    == Alloc!ActiveSlotCnt
Epoch(k) == Alloc!Active[k]

-----------------------------------------------------------------------------
(* What is known about the pool, in terms of the Epochs in use. *)

LEMMA PoolAssumption == Pool!ExtentAssumption
  BY FlowAssumption DEF Pool!ExtentAssumption

LEMMA SamePool ==
    /\ Pool!TypeOK <=> Alloc!TypeOK
    /\ Pool!SlotCnt = Alloc!SlotCnt /\ Pool!ActiveSlotCnt = InUse
    /\ Pool!Active = Alloc!Active /\ (Pool!IsNil <=> Alloc!IsNil) /\ Pool!LastIdx = Alloc!LastIdx
    /\ \A i, n : Pool!IncWrap(i, n) = Alloc!IncWrap(i, n) /\ Pool!Slot(i) = Alloc!Slot(i)
  <1>1. Pool!SlotCnt = Alloc!SlotCnt /\ Pool!ActiveSlotCnt = InUse
    BY DEF Pool!SlotCnt, Alloc!SlotCnt, Pool!ActiveSlotCnt, Alloc!ActiveSlotCnt, InUse,
           Pool!IsWrapped, Alloc!IsWrapped
  <1>2. \A i, n : Pool!IncWrap(i, n) = Alloc!IncWrap(i, n) /\ Pool!Slot(i) = Alloc!Slot(i)
    BY <1>1 DEF Pool!IncWrap, Alloc!IncWrap, Pool!Slot, Alloc!Slot
  <1>3. Pool!TypeOK <=> Alloc!TypeOK
    BY <1>1 DEF Pool!TypeOK, Alloc!TypeOK
  <1>4. Pool!Active = Alloc!Active
    BY <1>1, <1>2 DEF Pool!Active, Alloc!Active, InUse
  <1>5. (Pool!IsNil <=> Alloc!IsNil) /\ Pool!LastIdx = Alloc!LastIdx
    BY <1>1, <1>2 DEF Pool!IsNil, Alloc!IsNil, Pool!LastIdx, Alloc!LastIdx
  <1> QED
    BY <1>1, <1>2, <1>3, <1>4, <1>5

LEMMA SamePoolNext ==
    /\ Pool!TypeOK' <=> Alloc!TypeOK'
    /\ Pool!SlotCnt' = Alloc!SlotCnt' /\ Pool!ActiveSlotCnt' = InUse' /\ Pool!Active' = Alloc!Active'
    /\ Pool!ExpandedPos(after) = Alloc!ExpandedPos(after)
    /\ \A n : Pool!OpenNew(n) <=> Alloc!OpenNew(n)
    /\ \A n : Pool!DropOld(n) <=> Alloc!DropOld(n)
  <1>1. Pool!SlotCnt' = Alloc!SlotCnt' /\ Pool!ActiveSlotCnt' = InUse'
    BY DEF Pool!SlotCnt, Alloc!SlotCnt, Pool!ActiveSlotCnt, Alloc!ActiveSlotCnt, InUse,
           Pool!IsWrapped, Alloc!IsWrapped
  <1>2. Pool!TypeOK' <=> Alloc!TypeOK'
    BY <1>1 DEF Pool!TypeOK, Alloc!TypeOK
  <1>3. Pool!Active' = Alloc!Active'
    BY <1>1 DEF Pool!Active, Alloc!Active, InUse, Pool!Slot, Alloc!Slot, Pool!IncWrap, Alloc!IncWrap
  <1>4. Pool!ExpandedPos(after) = Alloc!ExpandedPos(after)
    BY DEF Pool!ExpandedPos, Alloc!ExpandedPos
  <1>5. \A n : Pool!OpenNew(n) <=> Alloc!OpenNew(n)
    BY SamePool DEF Pool!OpenNew, Alloc!OpenNew, InUse, Pool!AddSiz, Alloc!AddSiz,
         Pool!CanAccomodate, Alloc!CanAccomodate, Pool!FreeSlotCnt, Alloc!FreeSlotCnt,
         Pool!Grown, Alloc!Grown, Pool!IsWrapped, Alloc!IsWrapped
  <1>6. \A n : Pool!DropOld(n) <=> Alloc!DropOld(n)
    BY SamePool DEF Pool!DropOld, Alloc!DropOld, InUse
  <1> QED
    BY <1>1, <1>2, <1>3, <1>4, <1>5, <1>6

LEMMA EpochsInUse ==
    ASSUME Alloc!TypeOK
    PROVE  /\ Alloc!SlotCnt \in Nat \ {0} /\ InUse \in Nat /\ (Alloc!IsNil <=> InUse = 0)
           /\ InUse < Alloc!SlotCnt /\ start \in 0 .. Alloc!SlotCnt - 1
           /\ \A k \in 1 .. InUse : Epoch(k) \in 1 .. Alloc!SlotCnt
           /\ \A i, j \in 1 .. InUse : Epoch(i) = Epoch(j) => i = j
  <1>1. Pool!TypeOK
    BY SamePool
  <1> QED
    BY <1>1, SamePool, PoolAssumption, Pool!PoolInUse DEF Epoch

(* Going on from the index of an Epoch in use. *)
LEMMA EpochsFollowing ==
    ASSUME Alloc!TypeOK, NEW k \in 1 .. InUse, NEW idx \in 0 .. Alloc!SlotCnt - 1,
           Alloc!Slot(idx) = Epoch(k)
    PROVE  /\ (after - idx) % Alloc!SlotCnt = InUse - k + 1
           /\ \A n \in 0 .. InUse - k :
                Alloc!IncWrap(idx, n) \in 0 .. Alloc!SlotCnt - 1 /\ Following(idx, n) = Epoch(k + n)
  <1>1. /\ Pool!TypeOK /\ k \in 1 .. Pool!ActiveSlotCnt /\ idx \in 0 .. Pool!SlotCnt - 1
        /\ Pool!Slot(idx) = Pool!Active[k]
    BY SamePool DEF Epoch
  <1>2. /\ (after - idx) % Pool!SlotCnt = Pool!ActiveSlotCnt - k + 1
        /\ \A n \in 0 .. Pool!ActiveSlotCnt - k :
                Pool!IncWrap(idx, n) \in 0 .. Pool!SlotCnt - 1
                /\ Pool!Slot(Pool!IncWrap(idx, n)) = Pool!Active[k + n]
    BY <1>1, PoolAssumption, Pool!PoolIteration
  <1> QED
    BY <1>2, SamePool DEF Following, Epoch

LEMMA EpochEnds ==
    ASSUME Alloc!TypeOK, ~Alloc!IsNil
    PROVE  InUse >= 1 /\ FirstEpoch = Epoch(1) /\ LastEpoch = Epoch(InUse)
  <1>1. Pool!TypeOK /\ ~Pool!IsNil
    BY SamePool
  <1>2. /\ Pool!ActiveSlotCnt >= 1 /\ Pool!Slot(start) = Pool!Active[1]
        /\ Pool!Slot(Pool!LastIdx) = Pool!Active[Pool!ActiveSlotCnt]
    BY <1>1, PoolAssumption, Pool!PoolEnds
  <1> QED
    BY <1>2, SamePool DEF FirstEpoch, LastEpoch, Epoch

(* The Epochs in use, seen from the first one. *)
LEMMA EpochsFromStart ==
    ASSUME Alloc!TypeOK, NEW n \in 0 .. InUse - 1
    PROVE  /\ Following(start, n) = Epoch(n + 1)
           /\ Alloc!IncWrap(start, n) \in 0 .. Alloc!SlotCnt - 1
  <1>1. InUse \in Nat /\ InUse >= 1 /\ ~Alloc!IsNil /\ start \in 0 .. Alloc!SlotCnt - 1
    BY EpochsInUse
  <1>2. Alloc!Slot(start) = Epoch(1)
    BY <1>1, EpochEnds DEF FirstEpoch
  <1>3. 1 \in 1 .. InUse /\ n \in 0 .. InUse - 1 /\ 1 + n = n + 1
    BY <1>1
  <1> QED
    BY <1>1, <1>2, <1>3, EpochsFollowing

LEMMA EpochsOpened ==
    ASSUME Alloc!TypeOK, NEW cnt \in Nat \ {0}, Alloc!OpenNew(cnt)
    PROVE  /\ Alloc!TypeOK' /\ Alloc!SlotCnt <= Alloc!SlotCnt' /\ Alloc!SlotCnt' <= MaxExtents
           /\ InUse' = InUse + cnt
           /\ \A k \in 1 .. InUse : Epoch(k)' = Epoch(k)
           /\ \A k \in 1 .. cnt :
                LET idx == (Alloc!ExpandedPos(after) + k - 1) % Len(extents')
                IN  idx \in 0 .. Alloc!SlotCnt' - 1 /\ extents'[idx + 1] = Alloc!Active'[InUse + k]
  <1>1. Pool!TypeOK /\ Pool!OpenNew(cnt)
    BY SamePool, SamePoolNext
  <1>2. /\ Pool!TypeOK' /\ Pool!SlotCnt <= Pool!SlotCnt' /\ Pool!SlotCnt' <= MaxExtents
        /\ Pool!ActiveSlotCnt' = Pool!ActiveSlotCnt + cnt
        /\ \A k \in 1 .. Pool!ActiveSlotCnt : Pool!Active'[k] = Pool!Active[k]
        /\ \A k \in 1 .. cnt :
             LET idx == (Pool!ExpandedPos(after) + k - 1) % Len(extents')
             IN  idx \in 0 .. Pool!SlotCnt' - 1 /\ extents'[idx + 1] = Pool!Active'[Pool!ActiveSlotCnt + k]
    BY <1>1, PoolAssumption, Pool!PoolOpened
  <1> QED
    BY <1>2, SamePool, SamePoolNext DEF Epoch

LEMMA EpochsDropped ==
    ASSUME Alloc!TypeOK, NEW cnt \in 0 .. InUse, Alloc!DropOld(cnt)
    PROVE  /\ Alloc!TypeOK' /\ Alloc!SlotCnt' = Alloc!SlotCnt
           /\ InUse' = InUse - cnt
           /\ \A k \in 1 .. InUse - cnt : Epoch(k)' = Epoch(k + cnt)
  <1>1. Pool!TypeOK /\ Pool!DropOld(cnt) /\ cnt \in 0 .. Pool!ActiveSlotCnt
    BY SamePool, SamePoolNext
  <1>2. /\ Pool!TypeOK' /\ Pool!SlotCnt' = Pool!SlotCnt
        /\ Pool!ActiveSlotCnt' = Pool!ActiveSlotCnt - cnt
        /\ \A k \in 1 .. Pool!ActiveSlotCnt - cnt : Pool!Active'[k] = Pool!Active[k + cnt]
    BY <1>1, PoolAssumption, Pool!PoolDropped
  <1> QED
    BY <1>2, SamePool, SamePoolNext DEF Epoch

-----------------------------------------------------------------------------
(* Arithmetic of the Epoch step. *)

LEMMA Product ==
    ASSUME NEW a \in Nat, NEW b \in Nat
    PROVE  a * b \in Nat /\ (a > 0 /\ b > 0 => a * b > 0)
  OBVIOUS

LEMMA Multiples ==
    ASSUME NEW c \in Nat, NEW i \in Nat, NEW j \in Nat, i <= j
    PROVE  c * i \in Nat /\ c * j \in Nat /\ c * i <= c * j
  <1>1. c * (j - i) \in Nat
    BY Product
  <1>2. c * j = c * i + c * (j - i)
    OBVIOUS
  <1> QED
    BY <1>1, <1>2, Product

LEMMA Division ==
    ASSUME NEW a \in Int, NEW b \in Nat \ {0}
    PROVE  /\ a \div b \in Int /\ (a >= 0 => a \div b \in Nat)
           /\ a = b * (a \div b) + (a % b) /\ a % b \in 0 .. b - 1
  <1> DEFINE q == a \div b
             r == a % b
  <1>1. q \in Int
    OBVIOUS
  <1>2. r \in 0 .. b - 1
    OBVIOUS
  <1>3. r = a - b * q
    OBVIOUS
  <1> HIDE DEF q, r
  <1>4. b * q \in Int
    BY <1>1
  <1>5. a = b * q + r
    BY <1>2, <1>3, <1>4
  <1>6. ASSUME q < 0 PROVE a < 0
    <2>1. b * 1 <= b * (-q)
      BY <1>1, <1>6, Multiples
    <2>2. b * (-q) = -(b * q)
      BY <1>1
    <2> QED
      BY <1>2, <1>4, <1>5, <2>1, <2>2
  <1>7. a >= 0 => q \in Nat
    BY <1>1, <1>6
  <1>8. a \div b \in Int /\ (a >= 0 => a \div b \in Nat)
    BY <1>1, <1>7, Zenon DEF q
  <1>9. a % b \in 0 .. b - 1
    BY <1>2, Zenon DEF r
  <1>10. a = b * (a \div b) + (a % b)
    BY <1>5, Zenon DEF q, r
  <1> QED
    BY <1>8, <1>9, <1>10, Zenon

LEMMA Quotient ==
    ASSUME NEW a \in Int, NEW b \in Nat \ {0}
    PROVE  a \div b \in Int /\ (a >= 0 => a \div b \in Nat)
  BY Division

LEMMA Settings ==
    /\ InitialStep \in Nat \ {0} /\ FramesPerEpoch \in Nat \ {0} /\ AverageEpochs \in Nat \ {0}
    /\ CutOff \in Nat \ {0} /\ EpochSiz \in Nat \ {0, 1} /\ ANYTIME \in Int /\ MaxExtents \in Nat
    /\ TargetFill \in 1 .. 100 /\ BoostFactor \in 1 .. 100
    /\ DampThreshold \in 1 .. 100 /\ BoostFactorOverflow \in 1 .. 100
  BY FlowAssumption

(* the lowest step reached by a reduction due to overflow *)
Floor == ((CutOff + 1) * BoostFactorOverflow) \div 100

LEMMA OverflowLimit ==
    ASSUME NEW step \in Nat
    PROVE  /\ MarkEpochOverflow(step) \in Nat
           /\ MarkEpochOverflow(step) >= step \/ MarkEpochOverflow(step) >= Floor
  <1>1. CASE step > CutOff
    <2> DEFINE a == (CutOff + 1) * BoostFactorOverflow
               b == step * BoostFactorOverflow
    <2>1. a \in Nat /\ b \in Nat /\ a <= b
      BY <1>1, Settings, Multiples
    <2> HIDE DEF a, b
    <2>2. b \div 100 \in Nat /\ a \div 100 <= b \div 100
      BY <2>1
    <2> QED
      BY <1>1, <2>2 DEF MarkEpochOverflow, Floor, a, b
  <1>2. CASE ~(step > CutOff)
    BY <1>2 DEF MarkEpochOverflow
  <1> QED
    BY <1>1, <1>2

(* Dividing by the usage of an Epoch is always possible. *)
LEMMA AdjustPositive ==
    ASSUME NEW fill \in Nat
    PROVE  Adjust(fill) \in Nat \ {0}
  <1> DEFINE c == (EpochSiz - 1) * TargetFill
             used == (fill * 10000) \div c
  <1>1. c \in Nat \ {0}
    BY Settings, Product
  <1>2. used \in Nat
    <2>1. fill * 10000 \in Nat
      OBVIOUS
    <2> HIDE DEF c
    <2> QED
      BY <1>1, <2>1, Division
  <1>3. Adjust(fill) = IF used > DampThreshold THEN used
                       ELSE ((DampThreshold - used) * BoostFactor + used * used) \div DampThreshold
    BY DEF Adjust
  <1> HIDE DEF used
  <1>4. CASE used > DampThreshold
    BY <1>2, <1>3, <1>4, Settings
  <1>5. CASE used <= DampThreshold
    <2> DEFINE d == DampThreshold
               x == (d - used) * BoostFactor + used * used
    <2>1. (d - used) * BoostFactor \in Nat /\ (d - used) * BoostFactor >= d - used
      <3>1. (d - used) \in Nat /\ 1 <= BoostFactor /\ BoostFactor \in Nat
        BY <1>2, <1>5, Settings
      <3>2. (d - used) * 1 <= (d - used) * BoostFactor
        BY <3>1, Multiples
      <3> QED
        BY <3>1, <3>2, Product
    <2>2. used * used \in Nat /\ used * used >= used
      <3>1. CASE used = 0
        BY <3>1
      <3>2. CASE used # 0
        <4>1. used * 1 <= used * used /\ used * used \in Nat
          BY <1>2, <3>2, Multiples
        <4> QED
          BY <1>2, <4>1
      <3> QED
        BY <3>1, <3>2
    <2>3. x \in Nat /\ x >= d
      BY <1>2, <1>5, <2>1, <2>2, Settings
    <2>4. ASSUME NEW y \in Nat, NEW b \in Nat \ {0}, y >= b PROVE y \div b \in Nat \ {0}
      <3>1. y \div b \in Nat /\ y = b * (y \div b) + (y % b) /\ y % b < b
        BY <2>4, Division
      <3>2. y \div b # 0
        BY <2>4, <3>1
      <3> QED
        BY <3>1, <3>2
    <2> HIDE DEF x, d
    <2>5. x \div d \in Nat \ {0}
      BY <2>3, <2>4, Settings DEF d
    <2>6. ~(used > DampThreshold)
      BY <1>2, <1>5, Settings
    <2> QED
      BY <1>3, <2>5, <2>6 DEF x, d
  <1> QED
    BY <1>2, <1>4, <1>5, Settings

LEMMA UnderflowStep ==
    ASSUME NEW step \in Int, NEW len \in Int, NEW fill \in Nat
    PROVE  /\ MarkEpochUnderflow(step, len, fill) \in Int
           /\ step >= 0 /\ len >= 0 => MarkEpochUnderflow(step, len, fill) \in Nat
  <1> DEFINE adj == Adjust(fill)
             x == 100 * len + adj * step * (AverageEpochs - 1)
             y == AverageEpochs * adj
  <1>1. adj \in Nat \ {0}
    BY AdjustPositive
  <1>2. MarkEpochUnderflow(step, len, fill) = x \div y
    BY DEF MarkEpochUnderflow
  <1> HIDE DEF adj
  <1>3. y \in Nat \ {0}
    BY <1>1, Settings, Product
  <1>4. x \in Int
    BY <1>1, Settings
  <1>5. ASSUME step >= 0, len >= 0 PROVE x \in Nat
    <2>1. adj * step \in Nat /\ AverageEpochs - 1 \in Nat
      BY <1>1, <1>5, Settings, Product
    <2>2. (adj * step) * (AverageEpochs - 1) \in Nat
      BY <2>1, Product
    <2> QED
      BY <1>5, <2>2
  <1> HIDE DEF x, y
  <1> QED
    BY <1>2, <1>3, <1>4, <1>5, Quotient

(* g[k] is the result of applying F[1] to F[k] to base, one after the other. *)
Iterates(g, n, base, F) == g = [k \in 0 .. n |-> IF k = 0 THEN base ELSE F[k][g[k - 1]]]

LEMMA Iterated ==
    ASSUME NEW n \in Nat, NEW S, NEW base \in S, NEW F \in [1 .. n -> [S -> S]]
    PROVE  \E g \in [0 .. n -> S] : Iterates(g, n, base, F)
  <1> USE DEF Iterates
  <1> DEFINE Iter(m, g) == Iterates(g, m, base, F)
             Def(m) == \E g \in [0 .. m -> S] : Iter(m, g)
             Bad == {m \in Nat : m <= n /\ ~Def(m)}
  <1>1. SUFFICES ASSUME Bad # {} PROVE FALSE
    <2>1. Def(n) \/ n \in Bad
      OBVIOUS
    <2> QED
      BY <1>1, <2>1
  <1>2. PICK m \in Bad : \A i \in Bad : ~(<<i, m>> \in OpToRel(<, Nat))
    BY <1>1, WFMin, NatLessThanWellFounded
  <1>3. m \in Nat /\ m <= n /\ ~Def(m)
    BY <1>2
  <1>4. \A i \in Bad : ~(i < m)
    <2> HIDE DEF Def
    <2> QED
      BY <1>2 DEF OpToRel
  <1>5. CASE m = 0
    <2> DEFINE g == [k \in 0 .. 0 |-> base]
    <2>1. g \in [0 .. 0 -> S] /\ Iter(0, g)
      OBVIOUS
    <2> QED
      BY <1>3, <1>5, <2>1
  <1>6. CASE m # 0
    <2>1. m - 1 \in Nat /\ m - 1 <= n /\ m - 1 \notin Bad
      <3> HIDE DEF Bad
      <3> QED
        BY <1>3, <1>4, <1>6
    <2>2. PICK f \in [0 .. m - 1 -> S] : Iter(m - 1, f)
      BY <2>1
    <2> DEFINE g == [k \in 0 .. m |-> IF k = 0 THEN base ELSE F[k][f[k - 1]]]
    <2>3. ASSUME NEW k \in 0 .. m, k # 0
          PROVE  k \in 1 .. n /\ k - 1 \in 0 .. m - 1 /\ k - 1 \in 0 .. m
      BY <1>3, <2>3
    <2>4. ASSUME NEW k \in 0 .. m - 1 PROVE k \in 0 .. m /\ g[k] = f[k]
      <3>1. k \in 0 .. m
        BY <1>3
      <3>2. f[k] = IF k = 0 THEN base ELSE F[k][f[k - 1]]
        BY <2>2
      <3> QED
        BY <3>1, <3>2
    <2>5. g \in [0 .. m -> S]
      BY <2>3
    <2>6. Iter(m, g)
      <3>1. ASSUME NEW k \in 0 .. m
            PROVE  g[k] = IF k = 0 THEN base ELSE F[k][g[k - 1]]
        BY <2>3, <2>4
      <3> HIDE DEF g
      <3> QED
        BY <2>5, <3>1
    <2> QED
      BY <1>3, <2>5, <2>6
  <1> QED
    BY <1>5, <1>6

(* Any number of overflows reduces the step no further than to the limit. *)
LEMMA OverflowSteps ==
    ASSUME epochStep \in Nat, NEW k \in 0 .. MaxExtents
    PROVE  /\ OverflowStep[k] \in Nat
           /\ OverflowStep[k] >= epochStep \/ OverflowStep[k] >= Floor
  <1> DEFINE n == MaxExtents
             F == [i \in 1 .. n |-> [x \in Nat |-> MarkEpochOverflow(x)]]
             G == OverflowStep
  <1>0. n \in Nat /\ Floor \in Int
    BY Settings, Quotient DEF Floor
  <1>1. F \in [1 .. n -> [Nat -> Nat]]
    BY OverflowLimit
  <1>2. PICK f \in [0 .. n -> Nat] :
             f = [i \in 0 .. n |-> IF i = 0 THEN epochStep ELSE F[i][f[i - 1]]]
    <2> HIDE DEF F, n
    <2>1. \E g \in [0 .. n -> Nat] : Iterates(g, n, epochStep, F)
      BY <1>0, <1>1, Iterated
    <2> QED
      BY <2>1 DEF Iterates
  <1>3. f = [i \in 0 .. n |-> IF i = 0 THEN epochStep ELSE MarkEpochOverflow(f[i - 1])]
    <2>1. ASSUME NEW i \in 0 .. n, i # 0 PROVE F[i][f[i - 1]] = MarkEpochOverflow(f[i - 1])
      <3>1. i \in 1 .. n /\ i - 1 \in 0 .. n
        BY <1>0, <2>1
      <3>2. f[i - 1] \in Nat
        BY <1>2, <3>1
      <3> QED
        BY <3>1, <3>2
    <2> HIDE DEF F
    <2> QED
      BY <1>2, <2>1
  <1>4. G = [i \in 0 .. n |-> IF i = 0 THEN epochStep ELSE MarkEpochOverflow(G[i - 1])]
    BY <1>3 DEF OverflowStep
  <1> HIDE DEF G, n
  <1> DEFINE Good(i) == G[i] \in Nat /\ (G[i] >= epochStep \/ G[i] >= Floor)
             Bad == {i \in Nat : i \in 0 .. n /\ ~Good(i)}
  <1>5. SUFFICES ASSUME Bad # {} PROVE FALSE
    BY <1>0 DEF G, n
  <1>6. PICK i \in Bad : \A j \in Bad : ~(<<j, i>> \in OpToRel(<, Nat))
    BY <1>5, WFMin, NatLessThanWellFounded
  <1>7. i \in Nat /\ i \in 0 .. n /\ ~Good(i)
    BY <1>6
  <1>8. \A j \in Bad : ~(j < i)
    <2> HIDE DEF Good
    <2> QED
      BY <1>6 DEF OpToRel
  <1>9. CASE i = 0
    <2>1. G[0] = epochStep
      BY <1>0, <1>4
    <2> QED
      BY <1>7, <1>9, <2>1
  <1>10. CASE i # 0
    <2>1. i - 1 \in Nat /\ i - 1 \in 0 .. n /\ i - 1 \notin Bad
      <3> HIDE DEF Bad
      <3> QED
        BY <1>0, <1>7, <1>8, <1>10
    <2>2. Good(i - 1)
      BY <2>1
    <2>3. G[i] = MarkEpochOverflow(G[i - 1])
      BY <1>4, <1>7, <1>10
    <2>4. /\ G[i] \in Nat
          /\ G[i] >= G[i - 1] \/ G[i] >= Floor
      BY <2>2, <2>3, OverflowLimit
    <2> QED
      BY <1>0, <1>7, <2>2, <2>4
  <1> QED
    BY <1>9, <1>10

-----------------------------------------------------------------------------
(* The inductive invariant. *)

FlowType ==
    /\ Alloc!TypeOK /\ Alloc!SlotCnt <= MaxExtents
    /\ deadline \in [ExtentID -> Int]
    /\ filled \in [ExtentID -> Nat]
    /\ now \in Nat

(* Epochs end one after the other, at least the given gap apart: when an   *)
(* Activity is moved on to a later Epoch on overflow, it is retained as    *)
(* long as in the one intended.                                            *)
Ordered(gap) == \A i, j \in 1 .. InUse : i < j => deadline[Epoch(i)] + gap <= deadline[Epoch(j)]

(* A handle refers to an Epoch in use which ends no earlier than required; *)
(* its index is possibly outdated, yet within the vector.                  *)
HandleOK(x) ==
    /\ x \in [index : 0 .. Alloc!SlotCnt - 1, epoch : Nat, until : Int]
    /\ x.epoch # NoEpoch => x.epoch \in ActiveEpochs /\ deadline[x.epoch] >= x.until

LiveOK(a) ==
    /\ a \in [id : Nat, epoch : ActiveEpochs, slot : Nat, until : Int]
    /\ deadline[a.epoch] >= a.until /\ a.slot <= filled[a.epoch]

FlowInv(gap) ==
    /\ FlowType /\ Ordered(gap)
    /\ DOMAIN handle = Handles /\ handle = [h \in Handles |-> handle[h]]
    /\ \A h \in Handles : HandleOK(handle[h])
    /\ \A a \in live : LiveOK(a)
    /\ created \in Nat
    /\ SlotsDisjoint

LEMMA MinNat ==
    ASSUME NEW S \in SUBSET Nat, S # {}
    PROVE  Min(S) \in S /\ \A y \in S : Min(S) <= y
  <1>1. PICK x \in S : \A y \in S : ~(<<y, x>> \in OpToRel(<, Nat))
    BY WFMin, NatLessThanWellFounded
  <1>2. ASSUME NEW y \in S PROVE x <= y
    <2>1. x \in Nat /\ y \in Nat
      OBVIOUS
    <2>2. ~(y < x)
      BY <1>1, <2>1 DEF OpToRel
    <2> QED
      BY <2>1, <2>2
  <1> QED
    BY <1>2 DEF Min

LEMMA EpochIDs ==
    ASSUME FlowType
    PROVE  /\ InUse \in Nat /\ Alloc!SlotCnt \in Nat \ {0} /\ MaxExtents \in Nat
           /\ ActiveEpochs = {Epoch(k) : k \in 1 .. InUse} /\ ActiveEpochs \subseteq ExtentID
           /\ \A k \in 1 .. InUse : Epoch(k) \in ExtentID /\ Epoch(k) \in ActiveEpochs
           /\ \A k \in 1 .. InUse : deadline[Epoch(k)] \in Int /\ filled[Epoch(k)] \in Nat
  <1>1. /\ InUse \in Nat /\ Alloc!SlotCnt \in Nat \ {0} /\ MaxExtents \in Nat
        /\ Alloc!SlotCnt <= MaxExtents
        /\ \A k \in 1 .. InUse : Epoch(k) \in 1 .. Alloc!SlotCnt
    BY EpochsInUse, Settings DEF FlowType
  <1>2. ActiveEpochs = {Epoch(k) : k \in 1 .. InUse}
    BY DEF ActiveEpochs, Epoch, InUse
  <1>3. \A k \in 1 .. InUse : Epoch(k) \in ExtentID
    BY <1>1 DEF ExtentID
  <1> HIDE DEF InUse, Epoch
  <1> QED
    BY <1>1, <1>2, <1>3 DEF FlowType

LEMMA InOrder ==
    ASSUME NEW gap \in {0, 1}, FlowType, Ordered(gap),
           NEW i \in 1 .. InUse, NEW j \in 1 .. InUse, i <= j
    PROVE  deadline[Epoch(i)] <= deadline[Epoch(j)]
  <1>1. deadline[Epoch(i)] \in Int /\ deadline[Epoch(j)] \in Int
    BY EpochIDs
  <1>2. CASE i = j
    BY <1>1, <1>2
  <1>3. CASE i < j
    BY <1>1, <1>3 DEF Ordered
  <1> QED
    BY <1>2, <1>3

(* As long as an Epoch in use stays so with the same deadline, and slots    *)
(* are only claimed, handles and Activities remain valid.                  *)
LEMMA StillValid ==
    ASSUME FlowType, FlowType', Alloc!SlotCnt <= Alloc!SlotCnt',
           \A e \in ActiveEpochs : /\ e \in ActiveEpochs' /\ deadline'[e] = deadline[e]
                                   /\ filled'[e] >= filled[e]
    PROVE  /\ \A x : HandleOK(x) => HandleOK(x)'
           /\ \A a : LiveOK(a) => LiveOK(a)'
  <1>1. Alloc!SlotCnt \in Nat /\ Alloc!SlotCnt' \in Nat /\ ActiveEpochs \subseteq ExtentID
    <2>1. Alloc!SlotCnt' \in Nat
      BY DEF FlowType, Alloc!TypeOK, Alloc!SlotCnt
    <2> QED
      BY <2>1, EpochIDs
  <1>2. ASSUME NEW x, HandleOK(x) PROVE HandleOK(x)'
    BY <1>1, <1>2 DEF HandleOK
  <1>3. ASSUME NEW a, LiveOK(a) PROVE LiveOK(a)'
    <2>1. a.epoch \in ExtentID /\ filled[a.epoch] \in Nat /\ filled'[a.epoch] \in Nat
      BY <1>1, <1>3 DEF LiveOK, FlowType
    <2> QED
      BY <1>3, <2>1 DEF LiveOK
  <1> QED
    BY <1>2, <1>3

(* A handle is the only one to be changed. *)
LEMMA HandlesValid ==
    ASSUME NEW gap \in {0, 1}, FlowInv(gap), \A x : HandleOK(x) => HandleOK(x)',
           NEW h \in Handles, NEW r, HandleOK(r)', handle' = [handle EXCEPT ![h] = r]
    PROVE  /\ DOMAIN handle' = Handles /\ handle' = [g \in Handles |-> handle'[g]]
           /\ \A g \in Handles : HandleOK(handle[g])'
  <1> DEFINE Valid(x) == HandleOK(x)'
  <1>1. DOMAIN handle' = Handles /\ handle' = [g \in Handles |-> handle'[g]]
        /\ \A g \in Handles : handle'[g] = IF g = h THEN r ELSE handle[g]
    BY DEF FlowInv
  <1>2. \A g \in Handles : HandleOK(handle[g])
    BY DEF FlowInv
  <1>3. ASSUME NEW g \in Handles PROVE HandleOK(handle[g])'
    <2>1. PICK x : x = handle'[g]
      OBVIOUS
    <2>2. HandleOK(x)'
      BY <1>1, <1>2, <2>1
    <2> QED
      BY <2>1, <2>2 DEF HandleOK
  <1> QED
    BY <1>1, <1>3

-----------------------------------------------------------------------------
(* Opening new Epochs. *)

DistinctEpochs ==
    /\ \A k \in 1 .. InUse : Epoch(k) \in 1 .. Alloc!SlotCnt
    /\ \A i, j \in 1 .. InUse : Epoch(i) = Epoch(j) => i = j
    /\ Alloc!SlotCnt \in Nat

LEMMA DistinctEpochsNext == Alloc!TypeOK' => DistinctEpochs'
  <1>1. Alloc!TypeOK => DistinctEpochs
    BY EpochsInUse DEF DistinctEpochs
  <1> QED
    BY <1>1, PTL

LEMMA NewEpochs ==
    ASSUME FlowType, NEW cnt \in Nat \ {0}, Alloc!OpenNew(cnt)
    PROVE  /\ Alloc!TypeOK' /\ Alloc!SlotCnt <= Alloc!SlotCnt' /\ Alloc!SlotCnt' <= MaxExtents
           /\ InUse' = InUse + cnt
           /\ \A k \in 1 .. InUse : Epoch(k)' = Epoch(k)
           /\ \A k \in 1 .. cnt : /\ Alloc!Active'[InUse + k] \in ExtentID \ ActiveEpochs
                                  /\ Alloc!Active'[InUse + k] \in ActiveEpochs'
           /\ \A i, j \in 1 .. cnt : Alloc!Active'[InUse + i] = Alloc!Active'[InUse + j] => i = j
           /\ ActiveEpochs \subseteq ActiveEpochs'
  <1>1. /\ Alloc!TypeOK' /\ Alloc!SlotCnt <= Alloc!SlotCnt' /\ Alloc!SlotCnt' <= MaxExtents
        /\ InUse' = InUse + cnt
        /\ \A k \in 1 .. InUse : Epoch(k)' = Epoch(k)
    BY EpochsOpened DEF FlowType
  <1>2. InUse \in Nat /\ ActiveEpochs = {Epoch(k) : k \in 1 .. InUse}
    BY EpochIDs
  <1>3. /\ \A k \in 1 .. InUse' : Alloc!Active'[k] \in 1 .. Alloc!SlotCnt'
        /\ \A i, j \in 1 .. InUse' : Alloc!Active'[i] = Alloc!Active'[j] => i = j
        /\ Alloc!SlotCnt' \in Nat
    BY <1>1, DistinctEpochsNext DEF Epoch, DistinctEpochs
  <1>4. ActiveEpochs' = {Alloc!Active'[k] : k \in 1 .. InUse'}
    BY DEF ActiveEpochs, InUse
  <1>5. \A k \in 1 .. InUse : Alloc!Active'[k] = Epoch(k)
    BY <1>1 DEF Epoch
  <1> HIDE DEF InUse, Epoch
  <1>6. \A k \in 1 .. cnt : InUse + k \in 1 .. InUse' /\ InUse + k \notin 1 .. InUse
    BY <1>1, <1>2
  <1>7. \A k \in 1 .. InUse : k \in 1 .. InUse'
    BY <1>1, <1>2
  <1>8. ASSUME NEW k \in 1 .. cnt
        PROVE  /\ Alloc!Active'[InUse + k] \in ExtentID \ ActiveEpochs
               /\ Alloc!Active'[InUse + k] \in ActiveEpochs'
    <2>1. Alloc!Active'[InUse + k] \in ExtentID
      BY <1>1, <1>3, <1>6, Settings DEF ExtentID
    <2>2. Alloc!Active'[InUse + k] \in ActiveEpochs'
      BY <1>4, <1>6
    <2>3. ASSUME NEW i \in 1 .. InUse PROVE Alloc!Active'[InUse + k] # Epoch(i)
      BY <1>3, <1>5, <1>6, <1>7
    <2> QED
      BY <1>2, <2>1, <2>2, <2>3
  <1>9. ASSUME NEW i \in 1 .. cnt, NEW j \in 1 .. cnt,
               Alloc!Active'[InUse + i] = Alloc!Active'[InUse + j]
        PROVE  i = j
    <2>1. InUse + i = InUse + j
      BY <1>3, <1>6, <1>9
    <2> QED
      BY <1>2, <2>1
  <1>10. ActiveEpochs \subseteq ActiveEpochs'
    BY <1>2, <1>4, <1>5, <1>7
  <1> QED
    BY <1>1, <1>8, <1>9, <1>10

(* The new Epochs end in order after the existing ones, which are not touched. *)
LEMMA OpenStep ==
    ASSUME NEW gap \in {0, 1}, FlowType, Ordered(gap), NEW cnt \in Nat \ {0}, Alloc!OpenNew(cnt),
           deadline' \in [ExtentID -> Int], filled' \in [ExtentID -> Nat],
           now' = now,
           \A e \in ActiveEpochs : deadline'[e] = deadline[e] /\ filled'[e] = filled[e],
           \A i, j \in 1 .. cnt :
              i < j => deadline'[Alloc!Active'[InUse + i]] + gap <= deadline'[Alloc!Active'[InUse + j]],
           InUse # 0 => deadline[Epoch(InUse)] + gap <= deadline'[Alloc!Active'[InUse + 1]]
    PROVE  /\ FlowType' /\ Ordered(gap)'
           /\ \A x : HandleOK(x) => HandleOK(x)'
           /\ \A a : LiveOK(a) => LiveOK(a)'
  <1>1. FlowType'
    BY NewEpochs DEF FlowType
  <1>2. /\ \A x : HandleOK(x) => HandleOK(x)'
        /\ \A a : LiveOK(a) => LiveOK(a)'
    <2>1. Alloc!SlotCnt <= Alloc!SlotCnt' /\ ActiveEpochs \subseteq ActiveEpochs'
      BY NewEpochs
    <2>2. \A e \in ActiveEpochs : filled'[e] >= filled[e]
      <3>1. \A e \in ActiveEpochs : filled[e] \in Nat
        BY EpochIDs DEF FlowType
      <3> QED
        BY <3>1
    <2> QED
      BY <1>1, <2>1, <2>2, StillValid
  <1>3. Ordered(gap)'
    <2> DEFINE A == Alloc!Active'
               n == InUse
    <2>1. n \in Nat /\ InUse' = n + cnt
          /\ \A k \in 1 .. n : A[k] = Epoch(k) /\ deadline'[A[k]] = deadline[Epoch(k)]
                               /\ deadline[Epoch(k)] \in Int
      BY NewEpochs, EpochIDs DEF Epoch
    <2>2. \A k \in 1 .. cnt : deadline'[A[n + k]] \in Int
      BY NewEpochs
    <2>3. \A i, j \in 1 .. n : i < j => deadline'[A[i]] + gap <= deadline'[A[j]]
      BY <2>1 DEF Ordered
    <2>4. \A i, j \in 1 .. cnt : i < j => deadline'[A[n + i]] + gap <= deadline'[A[n + j]]
      OBVIOUS
    <2>5. n # 0 => deadline'[A[n]] + gap <= deadline'[A[n + 1]]
      BY <2>1
    <2>6. Ordered(gap)' <=> \A i, j \in 1 .. InUse' : i < j => deadline'[A[i]] + gap <= deadline'[A[j]]
      BY DEF Ordered, Epoch
    <2> HIDE DEF A, n
    <2>7. ASSUME NEW i \in 1 .. n + cnt, NEW j \in 1 .. n + cnt, i < j
          PROVE  deadline'[A[i]] + gap <= deadline'[A[j]]
      <3>1. CASE j <= n
        BY <2>1, <2>3, <2>7, <3>1
      <3>2. CASE i > n
        <4>1. i - n \in 1 .. cnt /\ j - n \in 1 .. cnt /\ i - n < j - n
              /\ i = n + (i - n) /\ j = n + (j - n)
          BY <2>1, <2>7, <3>2
        <4> QED
          BY <2>4, <4>1
      <3>3. CASE i <= n /\ j > n
        <4>1. j - n \in 1 .. cnt /\ 1 \in 1 .. cnt /\ 1 <= j - n /\ j = n + (j - n)
              /\ n # 0 /\ i \in 1 .. n /\ n \in 1 .. n
          BY <2>1, <2>7, <3>3
        <4>2. /\ i = n \/ deadline'[A[i]] + gap <= deadline'[A[n]]
              /\ j = n + 1 \/ deadline'[A[n + 1]] + gap <= deadline'[A[j]]
          <5>1. i = n \/ i < n
            BY <4>1
          <5>2. j = n + 1 \/ 1 < j - n
            BY <2>1, <4>1
          <5> QED
            BY <2>3, <2>4, <4>1, <5>1, <5>2
        <4>3. deadline'[A[i]] \in Int /\ deadline'[A[n]] \in Int
          BY <2>1, <4>1
        <4>4. deadline'[A[n + 1]] \in Int /\ deadline'[A[j]] \in Int
          BY <2>2, <4>1
        <4> QED
          BY <2>5, <4>1, <4>2, <4>3, <4>4
      <3> QED
        BY <2>1, <3>1, <3>2, <3>3
    <2> QED
      BY <2>1, <2>6, <2>7
  <1> QED
    BY <1>1, <1>2, <1>3

-----------------------------------------------------------------------------
(* Every operation preserves the invariant. *)

LEMMA FirstEpochNext ==
    Alloc!TypeOK' /\ InUse' # 0 => FirstEpoch' = Alloc!Active'[1] /\ start' \in 0 .. Alloc!SlotCnt' - 1
  <1> DEFINE P == Alloc!TypeOK /\ InUse # 0
             Q == FirstEpoch = Epoch(1) /\ start \in 0 .. Alloc!SlotCnt - 1
  <1>1. P => Q
    BY EpochsInUse, EpochEnds
  <1>2. P' => Q'
    BY <1>1, PTL
  <1> QED
    BY <1>2 DEF Epoch

(* The fresh handle and the Activities, when only the pool and one handle change. *)
LEMMA HandleGiven ==
    ASSUME NEW gap \in {0, 1}, FlowInv(gap), FlowType', Ordered(gap)',
           \A x : HandleOK(x) => HandleOK(x)', \A a : LiveOK(a) => LiveOK(a)',
           NEW h \in Handles, NEW r, HandleOK(r)', handle' = [handle EXCEPT ![h] = r],
           UNCHANGED <<live, created>>
    PROVE  FlowInv(gap)'
  <1>1. /\ DOMAIN handle' = Handles /\ handle' = [g \in Handles |-> handle'[g]]
        /\ \A g \in Handles : HandleOK(handle[g])'
    BY HandlesValid
  <1>2. ASSUME NEW a \in live' PROVE LiveOK(a)'
    BY DEF FlowInv
  <1>3. SlotsDisjoint' /\ created' \in Nat
    BY DEF FlowInv, SlotsDisjoint
  <1> QED
    BY <1>1, <1>2, <1>3 DEF FlowInv

LEMMA TimesNat == Times \subseteq Nat /\ MaxLate \in Nat
  BY FlowAssumption

LEMMA UntilNewOK ==
    ASSUME NEW gap \in {0, 1}, FlowInv(gap), epochStep \in Nat, NEW h \in Handles, NEW d \in Times, UntilNew(h, d)
    PROVE  FlowInv(gap)'
  <1> DEFINE e == Alloc!Slot(start)'
  <1>0. PICK r : r = [index |-> start', epoch |-> e, until |-> d]
    OBVIOUS
  <1>1. FlowType /\ Ordered(gap) /\ InUse = 0 /\ Alloc!OpenNew(1) /\ 1 \in Nat \ {0} /\ d \in Nat
    BY EpochsInUse, TimesNat DEF FlowInv, FlowType, UntilNew
  <1>2. InUse' = 1 /\ Alloc!TypeOK' /\ Alloc!Active'[1] \in ExtentID \ ActiveEpochs
        /\ Alloc!Active'[1] \in ActiveEpochs'
    <2>1. 1 \in 1 .. 1 /\ InUse + 1 = 1
      BY <1>1
    <2> QED
      BY <1>1, <2>1, NewEpochs
  <1>3. e = Alloc!Active'[1] /\ start' \in 0 .. Alloc!SlotCnt' - 1
    BY <1>2, FirstEpochNext DEF FirstEpoch
  <1> HIDE DEF e
  <1>4. /\ deadline' = [deadline EXCEPT ![e] = d + epochStep] /\ filled' = [filled EXCEPT ![e] = 0]
        /\ handle' = [handle EXCEPT ![h] = r]
        /\ UNCHANGED <<pastDeadline, now, live, created>>
    BY <1>0 DEF UntilNew, e
  <1>5. /\ deadline' \in [ExtentID -> Int] /\ filled' \in [ExtentID -> Nat]
        /\ deadline'[e] = d + epochStep /\ deadline'[e] >= d
        /\ \A x \in ActiveEpochs : deadline'[x] = deadline[x] /\ filled'[x] = filled[x]
    BY <1>1, <1>2, <1>3, <1>4, EpochIDs DEF FlowType
  <1>6. \A i, j \in 1 .. 1 : i < j => deadline'[Alloc!Active'[InUse + i]] + gap <= deadline'[Alloc!Active'[InUse + j]]
    <2>1. deadline'[e] \in Int
      BY <1>1, <1>5
    <2>2. \A i \in 1 .. 1 : InUse + i = 1
      BY <1>1
    <2> QED
      BY <1>3, <2>1, <2>2
  <1>7. /\ FlowType' /\ Ordered(gap)' /\ \A x : HandleOK(x) => HandleOK(x)'
        /\ \A a : LiveOK(a) => LiveOK(a)'
    BY <1>1, <1>4, <1>5, <1>6, OpenStep
  <1>8. HandleOK(r)'
    <2>1. e \in ActiveEpochs' /\ e \in Nat
      BY <1>2, <1>3 DEF ExtentID
    <2> QED
      BY <1>0, <1>1, <1>3, <1>5, <2>1 DEF HandleOK
  <1> QED
    BY <1>4, <1>7, <1>8, HandleGiven

LEMMA SameEpochs ==
    ASSUME NEW gap \in {0, 1}, FlowType, Ordered(gap), UNCHANGED <<allocVars, deadline>>,
           filled' \in [ExtentID -> Nat], now' \in Nat,
           \A e \in ActiveEpochs : filled'[e] >= filled[e]
    PROVE  /\ FlowType' /\ Ordered(gap)'
           /\ \A x : HandleOK(x) => HandleOK(x)'
           /\ \A a : LiveOK(a) => LiveOK(a)'
           /\ Alloc!SlotCnt' = Alloc!SlotCnt /\ ActiveEpochs' = ActiveEpochs
  <1>1. Alloc!SlotCnt' = Alloc!SlotCnt /\ InUse' = InUse /\ (Alloc!TypeOK <=> Alloc!TypeOK')
    BY DEF allocVars, Alloc!SlotCnt, InUse, Alloc!ActiveSlotCnt, Alloc!IsWrapped, Alloc!TypeOK
  <1>2. Alloc!Active' = Alloc!Active
    BY DEF allocVars, Alloc!Active, Alloc!SlotCnt, Alloc!ActiveSlotCnt, Alloc!IsWrapped,
           Alloc!Slot, Alloc!IncWrap
  <1>3. FlowType'
    BY <1>1 DEF FlowType
  <1>4. ActiveEpochs' = ActiveEpochs
    BY <1>1, <1>2 DEF ActiveEpochs, InUse
  <1>5. Ordered(gap)'
    BY <1>1, <1>2 DEF Ordered, Epoch
  <1>6. Alloc!SlotCnt <= Alloc!SlotCnt'
    BY <1>1, EpochIDs
  <1>7. \A e \in ActiveEpochs : e \in ActiveEpochs' /\ deadline'[e] = deadline[e]
    BY <1>4
  <1> QED
    BY <1>1, <1>3, <1>4, <1>5, <1>6, <1>7, StillValid

LEMMA UntilKnownOK ==
    ASSUME NEW gap \in {0, 1}, FlowInv(gap), NEW h \in Handles, NEW d \in Times, UntilKnown(h, d)
    PROVE  FlowInv(gap)'
  <1> DEFINE S == {n \in 0 .. Alloc!ActiveSlotCnt - 1 : deadline[Following(start, n)] >= d}
             k == Min(S)
  <1>0. PICK r : r = [index |-> Alloc!IncWrap(start, k), epoch |-> Following(start, k), until |-> d]
    OBVIOUS
  <1>1. /\ FlowType /\ Ordered(gap) /\ Alloc!TypeOK /\ ~Alloc!IsNil /\ d \in Nat
        /\ InUse \in Nat /\ InUse >= 1 /\ deadline[Epoch(InUse)] >= d
    BY EpochIDs, EpochEnds, TimesNat DEF FlowInv, FlowType, UntilKnown
  <1>2. k \in 0 .. InUse - 1 /\ deadline[Following(start, k)] >= d
    <2>1. InUse - 1 \in 0 .. InUse - 1 /\ (InUse - 1) + 1 = InUse
      BY <1>1
    <2>2. Following(start, InUse - 1) = Epoch(InUse)
      BY <1>1, <2>1, EpochsFromStart
    <2>3. InUse - 1 \in S
      BY <1>1, <2>1, <2>2 DEF InUse
    <2>4. S \in SUBSET Nat /\ S # {}
      BY <2>3
    <2> HIDE DEF S
    <2>5. k \in S
      BY <2>4, MinNat
    <2> QED
      BY <2>5 DEF S, InUse
  <1>3. Following(start, k) = Epoch(k + 1) /\ Alloc!IncWrap(start, k) \in 0 .. Alloc!SlotCnt - 1
    BY <1>1, <1>2, EpochsFromStart
  <1>4. Following(start, k) \in ExtentID /\ Following(start, k) \in ActiveEpochs
    <2>1. k + 1 \in 1 .. InUse
      BY <1>1, <1>2
    <2> QED
      BY <1>1, <1>3, <2>1, EpochIDs
  <1>5. /\ UNCHANGED <<allocVars, deadline, filled, pastDeadline, now, live, created>>
        /\ handle' = [handle EXCEPT ![h] = r]
    BY <1>0 DEF UntilKnown
  <1>6. \A e \in ActiveEpochs : filled'[e] >= filled[e]
    <2>1. \A e \in ActiveEpochs : filled[e] \in Nat
      BY <1>1, EpochIDs DEF FlowType
    <2> QED
      BY <1>5, <2>1
  <1>7. filled' \in [ExtentID -> Nat] /\ now' \in Nat
    BY <1>1, <1>5 DEF FlowType
  <1>8. /\ FlowType' /\ Ordered(gap)' /\ \A x : HandleOK(x) => HandleOK(x)'
        /\ \A a : LiveOK(a) => LiveOK(a)'
        /\ Alloc!SlotCnt' = Alloc!SlotCnt /\ ActiveEpochs' = ActiveEpochs
    BY <1>1, <1>5, <1>6, <1>7, SameEpochs
  <1> HIDE DEF k
  <1>9. HandleOK(r)'
    <2>1. HandleOK(r)
      BY <1>0, <1>1, <1>2, <1>3, <1>4 DEF HandleOK, ExtentID
    <2> QED
      BY <1>8, <2>1
  <1> QED
    BY <1>5, <1>8, <1>9, HandleGiven

(* The new Epochs reach up to the deadline asked for. *)
LEMMA RequiredReach ==
    ASSUME epochStep \in Nat \ {0}, NEW dist \in Nat \ {0}
    PROVE  RequiredNew(dist) \in Nat \ {0} /\ epochStep * RequiredNew(dist) >= dist
  <1> DEFINE q == dist \div epochStep
             r == dist % epochStep
  <1>1. q \in Nat /\ dist = epochStep * q + r /\ r \in 0 .. epochStep - 1
    <2>1. dist \in Int /\ dist >= 0
      OBVIOUS
    <2>2. /\ dist >= 0 => dist \div epochStep \in Nat
          /\ dist = epochStep * (dist \div epochStep) + (dist % epochStep)
          /\ dist % epochStep \in 0 .. epochStep - 1
      BY <2>1, Division, Zenon
    <2> QED
      BY <2>1, <2>2, Zenon
  <1>2. RequiredNew(dist) = q + (IF r > 0 THEN 1 ELSE 0)
    BY DEF RequiredNew
  <1> HIDE DEF q, r
  <1>3. CASE r > 0
    <2>1. RequiredNew(dist) = q + 1 /\ epochStep * (q + 1) = epochStep * q + epochStep
      BY <1>1, <1>2, <1>3
    <2> QED
      BY <1>1, <2>1, Product
  <1>4. CASE ~(r > 0)
    <2>1. RequiredNew(dist) = q /\ dist = epochStep * q
      BY <1>1, <1>2, <1>4, Product
    <2>2. q # 0
      BY <2>1
    <2> QED
      BY <1>1, <2>1, <2>2, Product
  <1> QED
    BY <1>3, <1>4

LEMMA UntilBeyondOK ==
    ASSUME NEW gap \in {0, 1}, FlowInv(gap), epochStep \in Nat, NEW h \in Handles, NEW d \in Times, UntilBeyond(h, d)
    PROVE  FlowInv(gap)'
  <1> DEFINE last  == deadline[LastEpoch]
             cnt   == RequiredNew(d - last)
             idx(k) == (Alloc!ExpandedPos(after) + k - 1) % Len(extents')
             new(k) == extents'[idx(k) + 1]
  <1>0. PICK r : r = [index |-> idx(cnt), epoch |-> new(cnt), until |-> d]
    OBVIOUS
  <1>1. /\ FlowType /\ Ordered(gap) /\ Alloc!TypeOK /\ ~Alloc!IsNil /\ d \in Nat
        /\ InUse \in Nat /\ InUse >= 1 /\ last = deadline[Epoch(InUse)] /\ last < d /\ last \in Int
        /\ epochStep \in Nat \ {0}
    <2>1. InUse \in Nat /\ InUse >= 1 /\ LastEpoch = Epoch(InUse) /\ FlowType /\ Ordered(gap) /\ Alloc!TypeOK
      BY EpochIDs, EpochEnds DEF FlowInv, FlowType, UntilBeyond
    <2>2. deadline[Epoch(InUse)] \in Int
      BY <2>1, EpochIDs
    <2> QED
      BY <2>1, <2>2, TimesNat DEF UntilBeyond
  <1>2. cnt \in Nat \ {0} /\ epochStep * cnt >= d - last
    <2>1. d - last \in Nat \ {0}
      BY <1>1
    <2> QED
      BY <1>1, <2>1, RequiredReach
  <1>3. /\ Alloc!OpenNew(cnt)
        /\ deadline' = [e \in ExtentID |->
                 IF \E k \in 1 .. cnt : e = new(k)
                   THEN last + epochStep * (CHOOSE k \in 1 .. cnt : e = new(k))
                   ELSE deadline[e]]
        /\ filled' = [e \in ExtentID |-> IF \E k \in 1 .. cnt : e = new(k) THEN 0 ELSE filled[e]]
        /\ handle' = [handle EXCEPT ![h] = r]
        /\ UNCHANGED <<epochStep, pastDeadline, now, live, created>>
    BY <1>0 DEF UntilBeyond
  <1> DEFINE E(k) == Alloc!Active'[InUse + k]
  <1> HIDE DEF cnt, last
  <1>4. \A k \in 1 .. cnt : idx(k) \in 0 .. Alloc!SlotCnt' - 1 /\ new(k) = E(k)
    BY <1>1, <1>2, <1>3, EpochsOpened
  <1>5. /\ \A k \in 1 .. cnt : E(k) \in ExtentID \ ActiveEpochs /\ E(k) \in ActiveEpochs'
        /\ \A i, j \in 1 .. cnt : E(i) = E(j) => i = j
    BY <1>1, <1>2, <1>3, NewEpochs
  <1>6. ActiveEpochs \subseteq ExtentID
    BY <1>1, EpochIDs
  <1> HIDE DEF idx, new, E
  <1>7. ASSUME NEW k \in 1 .. cnt
        PROVE  /\ deadline'[E(k)] = last + epochStep * k
               /\ last + epochStep * k \in Int
    <2>1. E(k) = new(k) /\ E(k) \in ExtentID
      BY <1>4, <1>5
    <2>2. (CHOOSE i \in 1 .. cnt : E(k) = new(i)) = k
      BY <1>4, <1>5
    <2>3. deadline'[E(k)] = last + epochStep * (CHOOSE i \in 1 .. cnt : E(k) = new(i))
      BY <1>3, <2>1
    <2>4. epochStep * k \in Nat
      BY <1>1, Product
    <2>5. deadline'[E(k)] = last + epochStep * k
      BY <2>2, <2>3, Zenon
    <2> QED
      BY <1>1, <2>4, <2>5
  <1>8. /\ deadline' \in [ExtentID -> Int] /\ filled' \in [ExtentID -> Nat]
        /\ \A e \in ActiveEpochs : deadline'[e] = deadline[e] /\ filled'[e] = filled[e]
    <2>1. ASSUME NEW e \in ExtentID PROVE deadline'[e] \in Int /\ filled'[e] \in Nat
      <3>1. CASE \E k \in 1 .. cnt : e = new(k)
        BY <1>3, <1>4, <1>7, <3>1
      <3>2. CASE ~\E k \in 1 .. cnt : e = new(k)
        BY <1>1, <1>3, <3>2 DEF FlowType
      <3> QED
        BY <3>1, <3>2
    <2>2. ASSUME NEW e \in ActiveEpochs PROVE deadline'[e] = deadline[e] /\ filled'[e] = filled[e]
      <3>1. e \in ExtentID /\ ~\E k \in 1 .. cnt : e = new(k)
        BY <1>4, <1>5, <1>6
      <3> QED
        BY <1>3, <3>1
    <2> QED
      BY <1>3, <2>1, <2>2
  <1>9. \A i, j \in 1 .. cnt : i < j => deadline'[E(i)] + gap <= deadline'[E(j)]
    <2>1. ASSUME NEW i \in 1 .. cnt, NEW j \in 1 .. cnt, i < j
          PROVE  deadline'[E(i)] + gap <= deadline'[E(j)]
      <3>1. i \in Nat /\ j \in Nat /\ i + 1 \in Nat /\ i + 1 <= j
        BY <1>2, <2>1
      <3>2. epochStep * i \in Nat /\ epochStep * j \in Nat /\ epochStep * (i + 1) <= epochStep * j
        BY <1>1, <3>1, Multiples
      <3>3. epochStep * (i + 1) = epochStep * i + epochStep
        BY <1>1, <3>1
      <3> QED
        BY <1>1, <1>7, <3>2, <3>3
    <2> QED
      BY <2>1
  <1>10. deadline[Epoch(InUse)] + gap <= deadline'[E(1)]
    <2>1. 1 \in 1 .. cnt /\ epochStep * 1 = epochStep
      BY <1>1, <1>2
    <2> QED
      BY <1>1, <1>7, <2>1
  <1>11. /\ FlowType' /\ Ordered(gap)' /\ \A x : HandleOK(x) => HandleOK(x)'
         /\ \A a : LiveOK(a) => LiveOK(a)'
    BY <1>1, <1>2, <1>3, <1>8, <1>9, <1>10, OpenStep DEF E
  <1>12. HandleOK(r)'
    <2>1. cnt \in 1 .. cnt
      BY <1>2
    <2>2. /\ idx(cnt) \in 0 .. Alloc!SlotCnt' - 1 /\ new(cnt) \in ActiveEpochs'
          /\ new(cnt) \in Nat /\ deadline'[new(cnt)] = last + epochStep * cnt
      BY <1>4, <1>5, <1>7, <2>1 DEF ExtentID
    <2>3. epochStep * cnt \in Nat
      BY <1>1, <1>2, Product
    <2>4. deadline'[new(cnt)] >= d
      BY <1>1, <1>2, <2>2, <2>3
    <2> QED
      BY <1>0, <1>1, <2>2, <2>4 DEF HandleOK
  <1> QED
    BY <1>3, <1>11, <1>12, HandleGiven

(* A handle finds its Epoch again, wherever this was moved to. *)
LEMMA PositionFound ==
    ASSUME NEW gap \in {0, 1}, FlowInv(gap), NEW h \in Handles, handle[h].epoch # NoEpoch
    PROVE  \E k \in 1 .. InUse :
             /\ handle[h].epoch = Epoch(k)
             /\ Remaining(h) = InUse - k + 1
             /\ \A n \in 0 .. InUse - k : /\ Following(Position(h), n) = Epoch(k + n)
                                          /\ Alloc!IncWrap(Position(h), n) \in 0 .. Alloc!SlotCnt - 1
  <1>1. FlowType /\ Alloc!TypeOK /\ HandleOK(handle[h])
    BY DEF FlowInv, FlowType
  <1>2. PICK k \in 1 .. InUse : handle[h].epoch = Epoch(k)
    BY <1>1, EpochIDs DEF HandleOK
  <1>3. InUse \in Nat /\ k - 1 \in 0 .. InUse - 1 /\ (k - 1) + 1 = k
    BY <1>1, EpochIDs
  <1> DEFINE i == Alloc!IncWrap(start, k - 1)
  <1>4. i \in 0 .. Alloc!SlotCnt - 1 /\ Alloc!Slot(i) = Epoch(k)
    BY <1>1, <1>3, EpochsFromStart DEF Following
  <1> HIDE DEF i
  <1>5. Position(h) \in 0 .. Alloc!SlotCnt - 1 /\ Alloc!Slot(Position(h)) = Epoch(k)
    <2>1. CASE Alloc!Slot(handle[h].index) = handle[h].epoch
      BY <1>1, <1>2, <2>1 DEF Position, Alloc!ValidatePos, HandleOK
    <2>2. CASE Alloc!Slot(handle[h].index) # handle[h].epoch
      BY <1>2, <1>4, <2>2 DEF Position, Alloc!ValidatePos
    <2> QED
      BY <2>1, <2>2
  <1>6. /\ (after - Position(h)) % Alloc!SlotCnt = InUse - k + 1
        /\ \A n \in 0 .. InUse - k : /\ Alloc!IncWrap(Position(h), n) \in 0 .. Alloc!SlotCnt - 1
                                     /\ Following(Position(h), n) = Epoch(k + n)
    BY <1>1, <1>5, EpochsFollowing
  <1>7. Remaining(h) = InUse - k + 1
    BY <1>6 DEF Remaining
  <1> QED
    BY <1>2, <1>6, <1>7

(* An Activity is created in a slot not taken by any other. *)
LEMMA ActivityPlaced ==
    ASSUME NEW gap \in {0, 1}, FlowInv(gap), FlowType', Ordered(gap)', created < MaxCreate, created' = created + 1,
           \A x : HandleOK(x) => HandleOK(x)', \A a : LiveOK(a) => LiveOK(a)',
           NEW h \in Handles, NEW r, HandleOK(r)', handle' = [handle EXCEPT ![h] = r],
           NEW n, live' = live \cup {n}, LiveOK(n)',
           \A a \in live : a.epoch # n.epoch \/ a.slot # n.slot
    PROVE  FlowInv(gap)'
  <1>1. /\ DOMAIN handle' = Handles /\ handle' = [g \in Handles |-> handle'[g]]
        /\ \A g \in Handles : HandleOK(handle[g])'
    BY HandlesValid
  <1>2. ASSUME NEW a \in live' PROVE LiveOK(a)'
    BY DEF FlowInv
  <1>3. SlotsDisjoint'
    BY DEF FlowInv, SlotsDisjoint
  <1>4. created' \in Nat
    BY DEF FlowInv
  <1> QED
    BY <1>1, <1>2, <1>3, <1>4 DEF FlowInv

Moved(x, e, i) == [[x EXCEPT !.epoch = e] EXCEPT !.index = i]

LEMMA HandleMoved ==
    ASSUME NEW A, NEW x \in [index : A, epoch : Nat, until : Int], NEW e, NEW i
    PROVE  Moved(x, e, i) = [index |-> i, epoch |-> e, until |-> x.until]
  <1> DEFINE y == [x EXCEPT !.epoch = e]
             z == [y EXCEPT !.index = i]
  <1>1. DOMAIN x = {"index", "epoch", "until"} /\ x = [f \in DOMAIN x |-> x[f]]
    OBVIOUS
  <1>2. /\ y = [f \in DOMAIN x |-> IF f = "epoch" THEN e ELSE x[f]]
        /\ DOMAIN y = DOMAIN x
    BY <1>1
  <1>3. z = [f \in DOMAIN x |-> IF f = "index" THEN i ELSE IF f = "epoch" THEN e ELSE x[f]]
    BY <1>1, <1>2
  <1> HIDE DEF z
  <1>4. z = [index |-> i, epoch |-> e, until |-> x.until]
    BY <1>1, <1>3
  <1> QED
    BY <1>4 DEF z, Moved

LEMMA ClaimSlotOK ==
    ASSUME NEW gap \in {0, 1}, FlowInv(gap), NEW h \in Handles, ClaimSlot(h)
    PROVE  FlowInv(gap)'
  <1> DEFINE d == handle[h].until
             S == {n \in 1 .. Remaining(h) :
                            n < Remaining(h) => HasFreeSlot(Following(Position(h), n))}
             m == IF HasFreeSlot(handle[h].epoch) THEN 0 ELSE Min(S)
             e == IF m = 0 THEN handle[h].epoch ELSE Following(Position(h), m)
             pos == IF m = 0 THEN handle[h].index ELSE Alloc!IncWrap(Position(h), m)
  <1>1. /\ FlowType /\ Ordered(gap) /\ HandleOK(handle[h]) /\ handle[h].epoch # NoEpoch
        /\ created < MaxCreate /\ created' = created + 1
        /\ UNCHANGED <<allocVars, deadline, pastDeadline, now>>
        /\ created \in Nat
    BY DEF FlowInv, ClaimSlot
  <1>2. /\ m = 0 \/ m < Remaining(h)
        /\ filled' = [filled EXCEPT ![e] = @ + 1]
        /\ live' = live \cup {Activity(e, filled[e] + 1, d)}
        /\ handle' = [handle EXCEPT ![h].epoch = e,
                            ![h].index = IF m = 0 THEN @ ELSE Alloc!IncWrap(Position(h), m)]
    BY DEF ClaimSlot, ClaimNextSlot
  <1>3. PICK k \in 1 .. InUse :
             /\ handle[h].epoch = Epoch(k)
             /\ Remaining(h) = InUse - k + 1
             /\ \A n \in 0 .. InUse - k : /\ Following(Position(h), n) = Epoch(k + n)
                                          /\ Alloc!IncWrap(Position(h), n) \in 0 .. Alloc!SlotCnt - 1
    BY <1>1, PositionFound
  <1>4. InUse \in Nat /\ Alloc!SlotCnt \in Nat \ {0}
    BY <1>1, EpochIDs
  <1>5. m \in 0 .. InUse - k /\ (m # 0 => e = Epoch(k + m))
    <2>1. CASE HasFreeSlot(handle[h].epoch)
      BY <1>4, <2>1
    <2>2. CASE ~HasFreeSlot(handle[h].epoch)
      <3>1. Remaining(h) \in S /\ S \in SUBSET Nat /\ S # {}
        <4>1. Remaining(h) \in Nat /\ Remaining(h) >= 1
          BY <1>3, <1>4
        <4>2. Remaining(h) \in S
          BY <4>1
        <4> QED
          BY <4>1, <4>2
      <3> HIDE DEF S
      <3>2. Min(S) \in S
        BY <3>1, MinNat
      <3>3. m \in 1 .. Remaining(h) /\ m < Remaining(h)
        BY <1>2, <2>2, <3>2 DEF S
      <3> HIDE DEF m
      <3> QED
        BY <1>3, <1>4, <3>3
    <2> QED
      BY <2>1, <2>2
  <1> HIDE DEF m
  <1>6. /\ k + m \in 1 .. InUse /\ k <= k + m /\ e = Epoch(k + m)
        /\ pos \in 0 .. Alloc!SlotCnt - 1
    BY <1>1, <1>3, <1>4, <1>5 DEF HandleOK
  <1>7. /\ e \in ExtentID /\ e \in ActiveEpochs /\ filled[e] \in Nat /\ e \in Nat
        /\ ActiveEpochs \subseteq ExtentID
    BY <1>1, <1>6, EpochIDs DEF ExtentID
  <1>8. deadline[e] >= d /\ d \in Int
    <2>1. deadline[Epoch(k)] <= deadline[Epoch(k + m)]
      BY <1>1, <1>6, InOrder
    <2>2. deadline[Epoch(k)] \in Int /\ deadline[Epoch(k + m)] \in Int
      BY <1>1, <1>6, EpochIDs
    <2>3. deadline[Epoch(k)] >= d /\ d \in Int
      BY <1>1, <1>3 DEF HandleOK
    <2> QED
      BY <1>6, <2>1, <2>2, <2>3
  <1>9. PICK r : r = [index |-> pos, epoch |-> e, until |-> d]
    OBVIOUS
  <1>10. PICK n : n = Activity(e, filled[e] + 1, d)
    OBVIOUS
  <1>11. n = [id |-> created + 1, epoch |-> e, slot |-> filled[e] + 1, until |-> d]
    BY <1>10 DEF Activity
  <1>12. handle' = [handle EXCEPT ![h] = r]
    <2>1. handle' = [handle EXCEPT ![h].epoch = e, ![h].index = pos]
      <3> HIDE DEF e
      <3> QED
        BY <1>1, <1>2 DEF FlowInv
    <2>2. d = handle[h].until
      OBVIOUS
    <2> HIDE DEF e, pos, d
    <2>3. handle[h] \in [index : 0 .. Alloc!SlotCnt - 1, epoch : Nat, until : Int]
      BY <1>1 DEF HandleOK
    <2>4. Moved(handle[h], e, pos) = r
      BY <1>9, <2>2, <2>3, HandleMoved
    <2> QED
      BY <2>1, <2>4 DEF FlowInv, Moved
  <1> HIDE DEF e, pos, d
  <1>13. /\ filled' \in [ExtentID -> Nat] /\ filled'[e] = filled[e] + 1
         /\ \A x \in ActiveEpochs : filled'[x] >= filled[x]
    BY <1>1, <1>2, <1>7 DEF FlowType
  <1>14. now' \in Nat
    BY <1>1 DEF FlowType
  <1>15. /\ FlowType' /\ Ordered(gap)' /\ \A x : HandleOK(x) => HandleOK(x)'
         /\ \A a : LiveOK(a) => LiveOK(a)'
         /\ ActiveEpochs' = ActiveEpochs
    BY <1>1, <1>13, <1>14, SameEpochs
  <1>16. HandleOK(r)'
    <2>1. HandleOK(r)
      BY <1>6, <1>7, <1>8, <1>9 DEF HandleOK
    <2> QED
      BY <1>15, <2>1
  <1>17. LiveOK(n)'
    BY <1>1, <1>7, <1>8, <1>11, <1>13, <1>15 DEF LiveOK
  <1>18. \A a \in live : a.epoch # n.epoch \/ a.slot # n.slot
    BY <1>7, <1>11 DEF FlowInv, LiveOK
  <1>19. live' = live \cup {n}
    BY <1>2, <1>10
  <1> QED
    BY <1>1, <1>12, <1>15, <1>16, <1>17, <1>18, <1>19, ActivityPlaced

(* A single new Epoch is found right where the end was before. *)
LEMMA SingleEpoch ==
    ASSUME Alloc!TypeOK, Alloc!OpenNew(1)
    PROVE  LET idx == Alloc!ExpandedPos(after)
           IN  idx \in 0 .. Alloc!SlotCnt' - 1 /\ extents'[idx + 1] = Alloc!Active'[InUse + 1]
  <1> DEFINE idx == Alloc!ExpandedPos(after)
  <1> DEFINE ix(i) == (Alloc!ExpandedPos(after) + i - 1) % Len(extents')
  <1>1. 1 \in 1 .. 1 /\ 1 \in Nat \ {0}
    OBVIOUS
  <1>2. ix(1) \in 0 .. Alloc!SlotCnt' - 1 /\ extents'[ix(1) + 1] = Alloc!Active'[InUse + 1]
    BY <1>1, EpochsOpened
  <1>3. ix(1) = idx
    <2>0. Alloc!TypeOK'
      BY <1>1, EpochsOpened
    <2>1. /\ Alloc!SlotCnt' \in Nat /\ Alloc!SlotCnt' = Len(extents')
          /\ start \in 0 .. Alloc!SlotCnt - 1 /\ after \in 0 .. Alloc!SlotCnt - 1
          /\ Alloc!SlotCnt \in Nat
      BY <2>0 DEF Alloc!TypeOK, Alloc!SlotCnt
    <2>2. idx \in 0 .. Alloc!SlotCnt' - 1
      <3> DEFINE add == Alloc!AddSiz(1)
      <3>1. add \in Nat
        BY <2>1, Settings, FlowAssumption DEF Alloc!AddSiz, Alloc!CanAccomodate,
           Alloc!FreeSlotCnt, Alloc!ActiveSlotCnt, Alloc!IsWrapped
      <3>2. start' = (IF Alloc!IsWrapped THEN start + add ELSE start)
        BY DEF Alloc!OpenNew
      <3>3. Alloc!SlotCnt' = Alloc!SlotCnt + add
        <4>1. extents' = Alloc!Grown(add)
          BY DEF Alloc!OpenNew
        <4> HIDE DEF add
        <4>2. DOMAIN extents' = 1 .. Alloc!SlotCnt + add
          BY <4>1 DEF Alloc!Grown
        <4>3. extents' \in Seq(Nat)
          BY <2>0 DEF Alloc!TypeOK
        <4> QED
          BY <2>1, <3>1, <4>2, <4>3
      <3> HIDE DEF add
      <3> QED
        BY <2>1, <3>1, <3>2, <3>3 DEF Alloc!ExpandedPos, Alloc!IsWrapped
    <2> HIDE DEF idx
    <2>3. idx + 1 - 1 = idx /\ idx % Len(extents') = idx
      BY <2>1, <2>2
    <2> QED
      BY <2>3 DEF idx
  <1>4. idx \in 0 .. Alloc!SlotCnt' - 1 /\ extents'[idx + 1] = Alloc!Active'[InUse + 1]
    <2> HIDE DEF ix, idx
    <2> QED
      BY <1>2, <1>3
  <1> QED
    BY <1>4

LEMMA ClaimBeyondOK ==
    ASSUME NEW gap \in {0, 1}, FlowInv(gap), epochStep' \in Nat, epochStep' >= gap,
           NEW h \in Handles, ClaimBeyond(h)
    PROVE  FlowInv(gap)'
  <1> DEFINE idx == Alloc!ExpandedPos(after)
             e == extents'[idx + 1]
             d == handle[h].until
             last == deadline[LastEpoch]
  <1>1. /\ FlowType /\ Ordered(gap) /\ HandleOK(handle[h]) /\ handle[h].epoch # NoEpoch
        /\ created < MaxCreate /\ created' = created + 1 /\ created \in Nat
        /\ UNCHANGED <<pastDeadline, now>>
        /\ Alloc!OpenNew(1) /\ 1 \in Nat \ {0} /\ Alloc!TypeOK
    BY DEF FlowInv, FlowType, ClaimBeyond
  <1>2. /\ deadline' = [deadline EXCEPT ![e] = last + epochStep']
        /\ filled' = [filled EXCEPT ![e] = 1]
        /\ live' = live \cup {Activity(e, 1, d)}
        /\ handle' = [handle EXCEPT ![h].epoch = e, ![h].index = idx]
    BY DEF ClaimBeyond
  <1>3. PICK k \in 1 .. InUse : handle[h].epoch = Epoch(k)
    BY <1>1, EpochIDs DEF HandleOK
  <1>4. /\ InUse \in Nat /\ InUse >= 1 /\ last = deadline[Epoch(InUse)] /\ last \in Int
        /\ InUse \in 1 .. InUse
    <2>1. InUse \in Nat /\ InUse >= 1 /\ ~Alloc!IsNil
      BY <1>1, <1>3, EpochsInUse
    <2>2. LastEpoch = Epoch(InUse)
      BY <1>1, <2>1, EpochEnds
    <2>3. deadline[Epoch(InUse)] \in Int
      BY <1>1, <2>1, EpochIDs
    <2> QED
      BY <2>1, <2>2, <2>3
  <1>5. last >= d /\ d \in Int
    <2>1. deadline[Epoch(k)] <= deadline[Epoch(InUse)]
      <3>1. k <= InUse
        BY <1>4
      <3> QED
        BY <1>1, <1>4, <3>1, InOrder
    <2>2. deadline[Epoch(k)] \in Int /\ deadline[Epoch(k)] >= d /\ d \in Int
      BY <1>1, <1>3, EpochIDs DEF HandleOK
    <2> QED
      BY <1>4, <2>1, <2>2
  <1> HIDE DEF last
  <1> DEFINE E(i) == Alloc!Active'[InUse + i]
  <1>6. idx \in 0 .. Alloc!SlotCnt' - 1 /\ e = E(1)
    BY <1>1, SingleEpoch
  <1>7. /\ E(1) \in ExtentID \ ActiveEpochs /\ E(1) \in ActiveEpochs'
        /\ ActiveEpochs \subseteq ExtentID /\ e \in Nat
    <2>1. 1 \in 1 .. 1
      OBVIOUS
    <2>2. E(1) \in ExtentID \ ActiveEpochs /\ E(1) \in ActiveEpochs'
      BY <1>1, <2>1, NewEpochs
    <2> HIDE DEF e
    <2> QED
      BY <1>1, <1>6, <2>2, EpochIDs DEF ExtentID
  <1>8. PICK r : r = [index |-> idx, epoch |-> e, until |-> d]
    OBVIOUS
  <1>9. PICK n : n = Activity(e, 1, d)
    OBVIOUS
  <1>10. n = [id |-> created + 1, epoch |-> e, slot |-> 1, until |-> d]
    BY <1>9 DEF Activity
  <1>11. live' = live \cup {n}
    BY <1>2, <1>9
  <1>12. handle' = [handle EXCEPT ![h] = r]
    <2>1. d = handle[h].until
      OBVIOUS
    <2> HIDE DEF e, idx, d
    <2>2. handle[h] \in [index : 0 .. Alloc!SlotCnt - 1, epoch : Nat, until : Int]
      BY <1>1 DEF HandleOK
    <2>3. Moved(handle[h], e, idx) = r
      BY <1>8, <2>1, <2>2, HandleMoved
    <2> QED
      BY <1>2, <2>3 DEF FlowInv, Moved
  <1> HIDE DEF e, idx, d, E
  <1>13. /\ deadline' \in [ExtentID -> Int] /\ filled' \in [ExtentID -> Nat]
         /\ deadline'[e] = last + epochStep' /\ deadline'[e] >= last + gap /\ deadline'[e] >= d
         /\ filled'[e] = 1
         /\ \A x \in ActiveEpochs : deadline'[x] = deadline[x] /\ filled'[x] = filled[x]
    <2>1. e \in ExtentID /\ \A x \in ActiveEpochs : x # e /\ x \in ExtentID
      BY <1>6, <1>7
    <2> QED
      BY <1>1, <1>2, <1>4, <1>5, <2>1 DEF FlowType
  <1>14. \A i, j \in 1 .. 1 : i < j => deadline'[E(i)] + gap <= deadline'[E(j)]
    <2>1. deadline'[E(1)] \in Int
      BY <1>4, <1>6, <1>13
    <2> QED
      BY <2>1
  <1>15. deadline[Epoch(InUse)] + gap <= deadline'[E(1)]
    BY <1>4, <1>6, <1>13
  <1>16. /\ FlowType' /\ Ordered(gap)' /\ \A x : HandleOK(x) => HandleOK(x)'
         /\ \A a : LiveOK(a) => LiveOK(a)'
    BY <1>1, <1>13, <1>14, <1>15, OpenStep DEF E
  <1>17. HandleOK(r)'
    BY <1>5, <1>6, <1>7, <1>8, <1>13 DEF HandleOK
  <1>18. LiveOK(n)'
    BY <1>1, <1>5, <1>6, <1>7, <1>10, <1>13 DEF LiveOK
  <1>19. \A a \in live : a.epoch # n.epoch \/ a.slot # n.slot
    BY <1>6, <1>7, <1>10 DEF FlowInv, LiveOK
  <1> QED
    BY <1>1, <1>11, <1>12, <1>16, <1>17, <1>18, <1>19, ActivityPlaced

(* number of Epochs to be discarded at time t *)
Expired(t) == Min({n \in 0 .. Alloc!ActiveSlotCnt :
                      n < Alloc!ActiveSlotCnt => IsAlive(Following(start, n), t)})

LEMMA ExpiredEpochs ==
    ASSUME FlowType, NEW t \in Nat
    PROVE  Expired(t) \in 0 .. InUse /\ \A k \in 1 .. Expired(t) : deadline[Epoch(k)] <= t
  <1> DEFINE S == {n \in 0 .. Alloc!ActiveSlotCnt :
                       n < Alloc!ActiveSlotCnt => IsAlive(Following(start, n), t)}
             cnt == Min(S)
  <1>1. Alloc!TypeOK /\ InUse \in Nat /\ \A k \in 1 .. InUse : deadline[Epoch(k)] \in Int
    BY EpochIDs DEF FlowType
  <1>2. InUse \in S /\ S \in SUBSET Nat /\ S # {} /\ \A x : x \in S <=>
             x \in 0 .. InUse /\ (x < InUse => IsAlive(Following(start, x), t))
    BY <1>1 DEF InUse
  <1> HIDE DEF S
  <1>3. cnt \in S /\ \A y \in S : cnt <= y
    BY <1>2, MinNat
  <1>4. cnt = Expired(t)
    BY DEF Expired, S
  <1> HIDE DEF cnt
  <1>5. cnt \in 0 .. InUse
    BY <1>2, <1>3
  <1>6. ASSUME NEW k \in 1 .. cnt PROVE deadline[Epoch(k)] <= t
    <2>1. k - 1 \in 0 .. InUse - 1 /\ (k - 1) + 1 = k /\ k \in 1 .. InUse /\ k - 1 \in 0 .. InUse
          /\ ~(cnt <= k - 1) /\ k - 1 < InUse
      BY <1>1, <1>5
    <2>2. Following(start, k - 1) = Epoch(k)
      BY <1>1, <2>1, EpochsFromStart
    <2>3. ~IsAlive(Following(start, k - 1), t)
      BY <1>2, <1>3, <2>1
    <2> QED
      BY <1>1, <2>1, <2>2, <2>3 DEF IsAlive
  <1> QED
    BY <1>4, <1>5, <1>6

LEMMA DiscardOK ==
    ASSUME NEW gap \in {0, 1}, FlowInv(gap), NEW t \in Times, DiscardBefore(t)
    PROVE  FlowInv(gap)'
  <1> DEFINE cnt == Expired(t)
  <1>1. /\ FlowType /\ Ordered(gap) /\ Alloc!TypeOK /\ Alloc!DropOld(cnt) /\ t \in Nat /\ now' = t
        /\ handle' = [h \in Handles |-> IF handle[h].until > t THEN handle[h] ELSE NoHandle]
        /\ live' = {a \in live : a.until > t}
        /\ UNCHANGED <<deadline, filled, created>>
    BY TimesNat DEF FlowInv, FlowType, DiscardBefore, Expired
  <1>2. InUse \in Nat /\ Alloc!SlotCnt \in Nat \ {0} /\ ActiveEpochs = {Epoch(k) : k \in 1 .. InUse}
        /\ ActiveEpochs \subseteq ExtentID /\ \A k \in 1 .. InUse : deadline[Epoch(k)] \in Int
    BY <1>1, EpochIDs
  <1> HIDE DEF cnt
  <1>3. cnt \in 0 .. InUse
    BY <1>1, ExpiredEpochs DEF cnt
  <1>4. \A k \in 1 .. cnt : deadline[Epoch(k)] <= t
    BY <1>1, ExpiredEpochs DEF cnt
  <1>5. /\ Alloc!TypeOK' /\ Alloc!SlotCnt' = Alloc!SlotCnt /\ InUse' = InUse - cnt
        /\ \A k \in 1 .. InUse - cnt : Alloc!Active'[k] = Epoch(k + cnt)
    BY <1>1, <1>3, EpochsDropped DEF Epoch
  <1>6. FlowType'
    BY <1>1, <1>5 DEF FlowType
  <1>7. Ordered(gap)'
    <2>1. ASSUME NEW i \in 1 .. InUse', NEW j \in 1 .. InUse', i < j
          PROVE  deadline'[Alloc!Active'[i]] + gap <= deadline'[Alloc!Active'[j]]
      <3>1. /\ i + cnt \in 1 .. InUse /\ j + cnt \in 1 .. InUse /\ i + cnt < j + cnt
            /\ i \in 1 .. InUse - cnt /\ j \in 1 .. InUse - cnt
        BY <1>2, <1>3, <1>5, <2>1
      <3> QED
        BY <1>1, <1>5, <3>1 DEF Ordered
    <2> QED
      BY <2>1 DEF Ordered, Epoch
  <1>8. ASSUME NEW e \in ActiveEpochs, deadline[e] > t PROVE e \in ActiveEpochs'
    <2>1. PICK k \in 1 .. InUse : e = Epoch(k)
      BY <1>2
    <2>2. k \notin 1 .. cnt
      BY <1>2, <1>4, <1>8, <2>1, <1>1
    <2>3. k - cnt \in 1 .. InUse' /\ k - cnt \in 1 .. InUse - cnt /\ (k - cnt) + cnt = k
      BY <1>2, <1>3, <1>5, <2>2
    <2>4. Alloc!Active'[k - cnt] = e
      BY <1>5, <2>1, <2>3
    <2>5. ActiveEpochs' = {Alloc!Active'[i] : i \in 1 .. InUse'}
      BY DEF ActiveEpochs, InUse
    <2> QED
      BY <2>3, <2>4, <2>5
  <1>9. ASSUME NEW x, HandleOK(x), x.until > t PROVE HandleOK(x)'
    <2>1. CASE x.epoch = NoEpoch
      BY <1>5, <1>9, <2>1 DEF HandleOK
    <2>2. CASE x.epoch # NoEpoch
      <3>1. x.epoch \in ActiveEpochs /\ deadline[x.epoch] > t
        BY <1>1, <1>2, <1>9, <2>2 DEF HandleOK
      <3> QED
        BY <1>1, <1>5, <1>8, <1>9, <3>1 DEF HandleOK
    <2> QED
      BY <2>1, <2>2
  <1>10. HandleOK(NoHandle)'
    BY <1>2, <1>5, Settings DEF HandleOK, NoHandle, NoEpoch
  <1>11. ASSUME NEW h \in Handles PROVE HandleOK(handle[h])'
    <2>1. PICK x : x = handle'[h]
      OBVIOUS
    <2>2. x = IF handle[h].until > t THEN handle[h] ELSE NoHandle
      BY <1>1, <2>1
    <2>3. HandleOK(x)'
      BY <1>9, <1>10, <2>2 DEF FlowInv, NoHandle
    <2> QED
      BY <2>1, <2>3 DEF HandleOK
  <1>12. ASSUME NEW a \in live' PROVE LiveOK(a)'
    <2>1. LiveOK(a) /\ a.until > t
      BY <1>1 DEF FlowInv
    <2>2. deadline[a.epoch] > t /\ a.epoch \in ActiveEpochs
      BY <1>1, <1>2, <2>1 DEF LiveOK
    <2> QED
      BY <1>1, <1>8, <2>1, <2>2 DEF LiveOK
  <1>13. SlotsDisjoint' /\ created' \in Nat
    BY <1>1 DEF FlowInv, SlotsDisjoint
  <1>14. DOMAIN handle' = Handles /\ handle' = [h \in Handles |-> handle'[h]]
    BY <1>1
  <1> QED
    BY <1>6, <1>7, <1>11, <1>12, <1>13, <1>14 DEF FlowInv

LEMMA FlowInit ==
    ASSUME NEW gap \in {0, 1}, Init
    PROVE  FlowInv(gap)
  <1>1. Alloc!TypeOK /\ Alloc!SlotCnt = InitialCnt /\ InUse = 0
    <2>1. extents = [i \in 1 .. InitialCnt |-> i] /\ start = 0 /\ after = 0 /\ peak = 0
      BY DEF Init, Alloc!Init
    <2>2. InitialCnt \in Nat \ {0}
      BY FlowAssumption
    <2>3. extents \in Seq(Nat) /\ Len(extents) = InitialCnt
      BY <2>1, <2>2
    <2> QED
      BY <2>1, <2>2, <2>3 DEF Alloc!TypeOK, Alloc!SlotCnt, InUse, Alloc!ActiveSlotCnt, Alloc!IsWrapped
  <1>2. FlowType
    BY <1>1, FlowAssumption DEF FlowType, Init
  <1>3. \A h \in Handles : HandleOK(handle[h])
    BY <1>1, FlowAssumption DEF HandleOK, Init, NoHandle, NoEpoch
  <1>4. Ordered(gap)
    BY <1>1 DEF Ordered
  <1> QED
    BY <1>2, <1>3, <1>4 DEF FlowInv, Init, SlotsDisjoint

LEMMA FlowStutter ==
    ASSUME NEW gap \in {0, 1}, FlowInv(gap),
           UNCHANGED <<allocVars, deadline, filled, handle, now, live, created>>
    PROVE  FlowInv(gap)'
  <1>1. FlowType /\ Ordered(gap)
    BY DEF FlowInv
  <1>2. /\ filled' \in [ExtentID -> Nat] /\ now' \in Nat
        /\ \A e \in ActiveEpochs : filled'[e] >= filled[e]
    <2>1. \A e \in ActiveEpochs : filled[e] \in Nat
      BY <1>1, EpochIDs DEF FlowType
    <2> QED
      BY <1>1, <2>1 DEF FlowType
  <1>3. /\ FlowType' /\ Ordered(gap)' /\ \A x : HandleOK(x) => HandleOK(x)'
        /\ \A a : LiveOK(a) => LiveOK(a)'
    BY <1>1, <1>2, SameEpochs
  <1>4. ASSUME NEW h \in Handles PROVE HandleOK(handle[h])'
    <2>1. PICK x : x = handle'[h]
      OBVIOUS
    <2>2. HandleOK(x)'
      BY <1>3, <2>1 DEF FlowInv
    <2> QED
      BY <2>1, <2>2 DEF HandleOK
  <1>5. ASSUME NEW a \in live' PROVE LiveOK(a)'
    BY <1>3 DEF FlowInv
  <1>6. SlotsDisjoint' /\ created' \in Nat /\ DOMAIN handle' = Handles
        /\ handle' = [h \in Handles |-> handle'[h]]
    BY DEF FlowInv, SlotsDisjoint
  <1> QED
    BY <1>3, <1>4, <1>5, <1>6 DEF FlowInv

LEMMA FlowStep ==
    ASSUME NEW gap \in {0, 1}, FlowInv(gap), [Next]_vars,
           epochStep \in Nat, epochStep' \in Nat, epochStep' >= gap
    PROVE  FlowInv(gap)'
  <1>1. CASE UNCHANGED vars
    BY <1>1, FlowStutter DEF vars
  <1>2. CASE \E h \in Handles, d \in Times : UntilNew(h, d) \/ UntilKnown(h, d) \/ UntilBeyond(h, d)
    BY <1>2, UntilNewOK, UntilKnownOK, UntilBeyondOK
  <1>3. CASE \E h \in Handles : ClaimSlot(h) \/ ClaimBeyond(h)
    BY <1>3, ClaimSlotOK, ClaimBeyondOK
  <1>4. CASE \E t \in Times : DiscardBefore(t)
    BY <1>4, DiscardOK
  <1>5. CASE \E fps \in Flows : AnnounceAdditionalFlow(fps)
    BY <1>5, FlowStutter DEF AnnounceAdditionalFlow
  <1> QED
    BY <1>1, <1>2, <1>3, <1>4, <1>5 DEF Next

(* The invariant holds as long as the Epoch step is not negative. *)
THEOREM FlowSafety == Spec /\ [](epochStep \in Nat) => []FlowInv(0)
  <1>1. Init => FlowInv(0)
    BY FlowInit
  <1>2. FlowInv(0) /\ epochStep \in Nat /\ (epochStep \in Nat)' /\ [Next]_vars => FlowInv(0)'
    BY FlowStep
  <1> QED
    BY <1>1, <1>2, PTL DEF Spec

(* Unless the spacing collapses, no two Epochs end at the same time.       *)
(* Without limit on over-full Epochs in markEpochUnderflow(), this can not *)
(* be excluded for runs of any length.                                     *)
THEOREM EpochsEndInOrder == Spec /\ [](epochStep \in Nat \ {0}) => []DeadlinesOrdered
  <1>1. Init => FlowInv(1)
    BY FlowInit
  <1>2. /\ FlowInv(1) /\ epochStep \in Nat \ {0} /\ (epochStep \in Nat \ {0})' /\ [Next]_vars
        => FlowInv(1)'
    BY FlowStep
  <1>3. FlowInv(1) => DeadlinesOrdered
    <2> SUFFICES ASSUME FlowInv(1), NEW k \in 1 .. Alloc!ActiveSlotCnt - 1
                 PROVE  deadline[Alloc!Active[k]] < deadline[Alloc!Active[k + 1]]
      BY DEF DeadlinesOrdered
    <2>1. FlowType /\ Ordered(1) /\ InUse \in Nat
      BY EpochIDs DEF FlowInv
    <2>2. k \in 1 .. InUse /\ k + 1 \in 1 .. InUse /\ k < k + 1
      BY <2>1 DEF InUse
    <2>3. deadline[Epoch(k)] + 1 <= deadline[Epoch(k + 1)]
      BY <2>1, <2>2 DEF Ordered
    <2>4. deadline[Epoch(k)] \in Int /\ deadline[Epoch(k + 1)] \in Int
      BY <2>1, <2>2, EpochIDs
    <2>5. deadline[Epoch(k)] < deadline[Epoch(k + 1)]
      BY <2>3, <2>4
    <2> QED
      BY <2>5 DEF Epoch
  <1> QED
    BY <1>1, <1>2, <1>3, PTL DEF Spec

-----------------------------------------------------------------------------
(* Accounting for discarded Epochs. Without a restart in the               *)
(* past, no Epoch ends before the latest one which was discarded, thus the *)
(* length of an Epoch is never negative, and neither is the Epoch step.    *)

Accounting ==
    /\ epochStep \in Nat /\ pastDeadline \in Int
    /\ pastDeadline # ANYTIME =>
         pastDeadline <= now /\ \A k \in 1 .. InUse : pastDeadline <= deadline[Epoch(k)]

(* The leading k Epochs are accounted for one after the other. *)
LEMMA AccountedEpochs ==
    ASSUME FlowInv(0), Accounting, NEW k \in 0 .. InUse
    PROVE  /\ Accounted[k].step \in Nat
           /\ Accounted[k].past = IF k = 0 THEN pastDeadline ELSE deadline[Epoch(k)]
  <1> DEFINE n == MaxExtents
             S == [step : Int, past : Int]
             E(i) == Following(start, i - 1)
             Acc(i, v) == [step |-> MarkEpochUnderflow(v.step,
                                       deadline[E(i)] - PastDeadline(v.past, v.step, deadline[E(i)]),
                                       filled[E(i)]),
                           past |-> deadline[E(i)]]
             F == [i \in 1 .. n |-> [v \in S |-> Acc(i, v)]]
             base == [step |-> epochStep, past |-> pastDeadline]
             G == Accounted
  <1>1. /\ FlowType /\ Ordered(0) /\ InUse \in Nat /\ n \in Nat /\ base \in S
        /\ Alloc!SlotCnt \in Nat \ {0} /\ Alloc!SlotCnt <= n /\ InUse < Alloc!SlotCnt
        /\ start \in 0 .. Alloc!SlotCnt - 1
    BY EpochIDs, EpochsInUse DEF FlowInv, FlowType, Accounting
  <1>2. ASSUME NEW i \in 1 .. n
        PROVE  deadline[E(i)] \in Int /\ filled[E(i)] \in Nat
    <2> DEFINE ix == Alloc!IncWrap(start, i - 1)
    <2>1. ix \in 0 .. Alloc!SlotCnt - 1
      BY <1>1 DEF Alloc!IncWrap
    <2>2. E(i) = extents[ix + 1]
      BY DEF Following, Alloc!Slot
    <2> HIDE DEF ix, E
    <2>3. ix + 1 \in 1 .. Alloc!SlotCnt
      BY <1>1, <2>1
    <2>4. E(i) \in 1 .. Alloc!SlotCnt
      BY <1>1, <2>2, <2>3 DEF FlowType, Alloc!TypeOK
    <2>5. E(i) \in ExtentID
      BY <1>1, <2>4 DEF ExtentID
    <2> QED
      BY <1>1, <2>5 DEF FlowType
  <1> HIDE DEF E
  <1>3. ASSUME NEW i \in 1 .. n, NEW v \in S
        PROVE  /\ Acc(i, v) \in S
               /\ v.step >= 0 /\ (v.past # ANYTIME => v.past <= deadline[E(i)]) => Acc(i, v).step \in Nat
               /\ Acc(i, v).past = deadline[E(i)]
    <2> DEFINE len == deadline[E(i)] - PastDeadline(v.past, v.step, deadline[E(i)])
    <2>1. deadline[E(i)] \in Int /\ filled[E(i)] \in Nat /\ v.step \in Int /\ v.past \in Int
      BY <1>2
    <2>2. len \in Int /\ (v.step >= 0 /\ (v.past # ANYTIME => v.past <= deadline[E(i)]) => len >= 0)
      BY <2>1 DEF PastDeadline
    <2> HIDE DEF len
    <2>3. /\ MarkEpochUnderflow(v.step, len, filled[E(i)]) \in Int
          /\ v.step >= 0 /\ len >= 0 => MarkEpochUnderflow(v.step, len, filled[E(i)]) \in Nat
      BY <2>1, <2>2, UnderflowStep
    <2>4. Acc(i, v) = [step |-> MarkEpochUnderflow(v.step, len, filled[E(i)]), past |-> deadline[E(i)]]
      BY DEF len
    <2> QED
      BY <2>1, <2>2, <2>3, <2>4
  <1> HIDE DEF Acc
  <1>4. F \in [1 .. n -> [S -> S]]
    BY <1>3
  <1>5. PICK f \in [0 .. n -> S] : Iterates(f, n, base, F)
    <2> HIDE DEF F, n, S, base
    <2> QED
      BY <1>1, <1>4, Iterated
  <1>6. f = [i \in 0 .. n |-> IF i = 0 THEN base ELSE Acc(i, f[i - 1])]
    <2>1. ASSUME NEW i \in 0 .. n, i # 0 PROVE F[i][f[i - 1]] = Acc(i, f[i - 1])
      <3>1. i \in 1 .. n /\ i - 1 \in 0 .. n
        BY <1>1, <2>1
      <3>2. f[i - 1] \in S
        BY <1>5, <3>1
      <3> HIDE DEF S
      <3> QED
        BY <3>1, <3>2
    <2> HIDE DEF F, base
    <2> QED
      BY <1>5, <2>1 DEF Iterates
  <1>7. G = [i \in 0 .. n |-> IF i = 0 THEN base ELSE Acc(i, G[i - 1])]
    BY <1>6 DEF Accounted, Acc, E
  <1> HIDE DEF G, n, base
  <1>8. base.step \in Nat /\ base.past = pastDeadline /\ base \in S
    BY <1>1 DEF base, Accounting
  <1> DEFINE Good(i) == /\ G[i] \in S /\ G[i].step \in Nat
                        /\ G[i].past = IF i = 0 THEN pastDeadline ELSE deadline[Epoch(i)]
             Bad == {i \in Nat : i \in 0 .. InUse /\ ~Good(i)}
  <1>9. SUFFICES ASSUME Bad # {} PROVE FALSE
    <2>1. k \in Nat /\ k \notin Bad => Good(k)
      OBVIOUS
    <2> HIDE DEF Bad
    <2> QED
      BY <1>1, <1>9, <2>1 DEF G
  <1>10. PICK i \in Bad : \A j \in Bad : ~(<<j, i>> \in OpToRel(<, Nat))
    BY <1>9, WFMin, NatLessThanWellFounded
  <1>11. i \in Nat /\ i \in 0 .. InUse /\ ~Good(i)
    BY <1>10
  <1>12. \A j \in Bad : ~(j < i)
    <2> HIDE DEF Good
    <2> QED
      BY <1>10 DEF OpToRel
  <1>13. CASE i = 0
    <2>1. G[0] = base
      BY <1>1, <1>7
    <2> HIDE DEF S
    <2> QED
      BY <1>8, <1>11, <1>13, <2>1
  <1>14. CASE i # 0
    <2>1. i - 1 \in Nat /\ i - 1 \in 0 .. InUse /\ i - 1 \notin Bad
      <3> HIDE DEF Bad
      <3> QED
        BY <1>1, <1>11, <1>12, <1>14
    <2>2. Good(i - 1)
      <3> HIDE DEF Good
      <3> QED
        BY <2>1
    <2>3. i \in 1 .. n /\ i \in 0 .. n /\ i \in 1 .. InUse
      BY <1>1, <1>11, <1>14
    <2>4. G[i] = Acc(i, G[i - 1])
      BY <1>7, <1>14, <2>3
    <2>5. E(i) = Epoch(i)
      <3>1. i - 1 \in 0 .. InUse - 1 /\ (i - 1) + 1 = i
        BY <1>1, <2>3
      <3> QED
        BY <1>1, <3>1, EpochsFromStart DEF E, FlowType
    <2>6. G[i - 1].past # ANYTIME => G[i - 1].past <= deadline[E(i)]
      <3>1. CASE i - 1 = 0
        BY <2>2, <2>3, <2>5, <3>1 DEF Accounting
      <3>2. CASE i - 1 # 0
        <4>1. i - 1 \in 1 .. InUse /\ i - 1 <= i
          BY <2>1, <3>2
        <4>2. deadline[Epoch(i - 1)] <= deadline[Epoch(i)]
          <5>1. 0 \in {0, 1}
            OBVIOUS
          <5> QED
            BY <1>1, <2>3, <4>1, <5>1, InOrder
        <4> QED
          BY <2>2, <2>5, <3>2, <4>2
      <3> QED
        BY <3>1, <3>2
    <2>7. G[i - 1] \in S /\ G[i - 1].step >= 0
      BY <2>2
    <2>8. Acc(i, G[i - 1]) \in S /\ Acc(i, G[i - 1]).step \in Nat /\ Acc(i, G[i - 1]).past = deadline[E(i)]
      <3> HIDE DEF S
      <3> QED
        BY <1>3, <2>3, <2>6, <2>7
    <2> HIDE DEF S
    <2> QED
      BY <1>11, <1>14, <2>4, <2>5, <2>8
  <1> QED
    BY <1>13, <1>14

LEMMA FloorBelowCutOff == Floor \in Int /\ Floor <= CutOff
  <1> DEFINE x == (CutOff + 1) * BoostFactorOverflow
  <1>1. CutOff \in Nat \ {0} /\ BoostFactorOverflow \in 1 .. 99
    BY FlowAssumption
  <1>2. x \in Nat /\ x <= (CutOff + 1) * 99
    BY <1>1, Multiples
  <1>3. Floor = x \div 100
    BY DEF Floor
  <1> HIDE DEF x
  <1> QED
    BY <1>1, <1>2, <1>3

(* Between two runs of the duty cycle, the step is limited. *)
LEMMA StepLimited ==
    ASSUME FlowInv(0), epochStep \in Nat, [Next]_vars, now' = now
    PROVE  epochStep' \in Nat /\ (epochStep' >= epochStep \/ epochStep' >= Floor)
  <1>0. /\ FlowType /\ InUse \in Nat /\ MaxExtents \in Nat /\ InUse <= MaxExtents
        /\ now \in Nat
    BY EpochIDs, EpochsInUse DEF FlowInv, FlowType
  <1>1. ASSUME NEW h \in Handles, ClaimSlot(h) PROVE \E m \in 0 .. MaxExtents : epochStep' = OverflowStep[m]
    <2> DEFINE S == {n \in 1 .. Remaining(h) :
                            n < Remaining(h) => HasFreeSlot(Following(Position(h), n))}
               m == IF HasFreeSlot(handle[h].epoch) THEN 0 ELSE Min(S)
    <2>1. PICK k \in 1 .. InUse : Remaining(h) = InUse - k + 1
      BY <1>1, PositionFound DEF ClaimSlot
    <2>2. Remaining(h) \in Nat /\ Remaining(h) >= 1 /\ Remaining(h) <= MaxExtents
      BY <1>0, <2>1
    <2>3. Remaining(h) \in S
      BY <2>2
    <2>4. S \in SUBSET Nat /\ S # {} /\ S \subseteq 1 .. Remaining(h)
      BY <2>2, <2>3
    <2> HIDE DEF S
    <2>5. Min(S) \in 1 .. Remaining(h)
      BY <2>4, MinNat
    <2>6. m \in 0 .. MaxExtents
      BY <1>0, <2>2, <2>5
    <2>7. epochStep' = OverflowStep[m]
      BY <1>1 DEF ClaimSlot, S
    <2> QED
      BY <2>6, <2>7
  <1>2. ASSUME NEW h \in Handles, ClaimBeyond(h) PROVE \E m \in 0 .. MaxExtents : epochStep' = OverflowStep[m]
    <2>1. PICK k \in 1 .. InUse : Remaining(h) = InUse - k + 1
      BY <1>2, PositionFound DEF ClaimBeyond
    <2>2. Remaining(h) \in 0 .. MaxExtents
      BY <1>0, <2>1
    <2> QED
      BY <1>2, <2>2 DEF ClaimBeyond
  <1>3. ASSUME NEW m \in 0 .. MaxExtents, epochStep' = OverflowStep[m]
        PROVE  epochStep' \in Nat /\ (epochStep' >= epochStep \/ epochStep' >= Floor)
    BY <1>3, OverflowSteps
  <1>4. ASSUME NEW fps \in Flows, AnnounceAdditionalFlow(fps)
        PROVE  epochStep' \in Nat /\ epochStep' >= Floor
    <2> DEFINE x == (FramesPerEpoch * epochStep) \div (FramesPerEpoch + fps * epochStep)
    <2>1. x \in Int
      <3>1. FramesPerEpoch \in Nat \ {0} /\ fps \in Nat
        BY FlowAssumption
      <3>2. FramesPerEpoch * epochStep \in Nat /\ fps * epochStep \in Nat
        BY <3>1, Product
      <3>3. FramesPerEpoch + fps * epochStep \in Nat \ {0}
        BY <3>1, <3>2
      <3> QED
        BY <3>2, <3>3, Quotient
    <2>2. epochStep' = Max({x, CutOff})
      BY <1>4 DEF AnnounceAdditionalFlow, AdaptedSpacing
    <2> HIDE DEF x
    <2>3. CutOff \in Nat
      BY Settings
    <2>4. \E y \in {x, CutOff} : \A z \in {x, CutOff} : y >= z
      BY <2>1, <2>3
    <2>5. epochStep' \in {x, CutOff} /\ epochStep' >= CutOff
      BY <2>2, <2>4 DEF Max
    <2> QED
      BY <2>1, <2>3, <2>5, FloorBelowCutOff
  <1>5. ASSUME epochStep' = epochStep PROVE epochStep' \in Nat /\ epochStep' >= epochStep
    BY <1>5
  <1>6. CASE UNCHANGED vars
    BY <1>5, <1>6 DEF vars
  <1>7. CASE \E h \in Handles, d \in Times : UntilNew(h, d) \/ UntilKnown(h, d) \/ UntilBeyond(h, d)
    BY <1>5, <1>7 DEF UntilNew, UntilKnown, UntilBeyond
  <1>8. CASE \E h \in Handles : ClaimSlot(h) \/ ClaimBeyond(h)
    BY <1>1, <1>2, <1>3, <1>8
  <1>9. CASE \E t \in Times : DiscardBefore(t)
    BY <1>0, <1>9, TimesNat DEF DiscardBefore
  <1>10. CASE \E fps \in Flows : AnnounceAdditionalFlow(fps)
    BY <1>4, <1>10
  <1> QED
    BY <1>6, <1>7, <1>8, <1>9, <1>10 DEF Next

LEMMA FirstEndsFirst ==
    FlowInv(0)' => \A k \in 1 .. InUse' : /\ deadline'[Alloc!Active'[1]] <= deadline'[Alloc!Active'[k]]
                                          /\ deadline'[Alloc!Active'[k]] \in Int
  <1> DEFINE Q == \A k \in 1 .. InUse : deadline[Epoch(1)] <= deadline[Epoch(k)] /\ deadline[Epoch(k)] \in Int
  <1>1. FlowInv(0) => Q
    <2> SUFFICES ASSUME FlowInv(0), NEW k \in 1 .. InUse
                 PROVE  deadline[Epoch(1)] <= deadline[Epoch(k)] /\ deadline[Epoch(k)] \in Int
      OBVIOUS
    <2>1. FlowType /\ Ordered(0) /\ InUse \in Nat /\ 0 \in {0, 1}
      BY EpochIDs DEF FlowInv
    <2>2. 1 \in 1 .. InUse /\ 1 <= k
      BY <2>1
    <2>3. deadline[Epoch(k)] \in Int
      BY <2>1, EpochIDs
    <2> QED
      BY <2>1, <2>2, <2>3, InOrder
  <1>2. FlowInv(0)' => Q'
    BY <1>1, PTL
  <1> QED
    BY <1>2 DEF Epoch

(* The first Epoch stays in place: nothing ends before it. *)
LEMMA AccountingKept ==
    ASSUME FlowInv(0), FlowInv(0)', Accounting, epochStep' \in Nat, UNCHANGED <<pastDeadline, now>>,
           InUse >= 1, Alloc!Active'[1] = Epoch(1), deadline'[Epoch(1)] = deadline[Epoch(1)]
    PROVE  Accounting'
  <1>1. InUse \in Nat /\ 1 \in 1 .. InUse /\ deadline[Epoch(1)] \in Int
    <2>1. FlowType
      BY DEF FlowInv
    <2>2. InUse \in Nat
      BY <2>1, EpochIDs
    <2>3. 1 \in 1 .. InUse
      BY <2>2
    <2> QED
      BY <2>1, <2>2, <2>3, EpochIDs
  <1>2. ASSUME pastDeadline # ANYTIME, NEW k \in 1 .. InUse'
        PROVE  pastDeadline <= deadline'[Alloc!Active'[k]]
    <2>1. pastDeadline <= deadline[Epoch(1)] /\ pastDeadline \in Int
      BY <1>1, <1>2 DEF Accounting
    <2>2. /\ deadline'[Alloc!Active'[1]] <= deadline'[Alloc!Active'[k]]
          /\ deadline'[Alloc!Active'[k]] \in Int
      BY <1>2, FirstEndsFirst
    <2> QED
      BY <1>1, <2>1, <2>2
  <1> QED
    BY <1>2 DEF Accounting, Epoch

LEMMA AccountingUnchanged ==
    ASSUME FlowInv(0), Accounting, epochStep' \in Nat, UNCHANGED <<allocVars, deadline, pastDeadline, now>>
    PROVE  Accounting'
  <1>1. InUse' = InUse /\ Alloc!Active' = Alloc!Active
    BY DEF allocVars, Alloc!Active, Alloc!SlotCnt, Alloc!ActiveSlotCnt, Alloc!IsWrapped,
           Alloc!Slot, Alloc!IncWrap, InUse
  <1> QED
    BY <1>1 DEF Accounting, Epoch

(* the number of Epochs and their deadlines when one of these is discarded *)
LEMMA AccountingDiscard ==
    ASSUME FlowInv(0), Accounting, NEW t \in Times, DiscardBefore(t)
    PROVE  Accounting'
  <1> DEFINE cnt == Expired(t)
  <1>1. /\ FlowType /\ Ordered(0) /\ Alloc!TypeOK /\ Alloc!DropOld(cnt) /\ t \in Nat /\ now' = t /\ t > now
        /\ epochStep' = Accounted[cnt].step /\ pastDeadline' = Accounted[cnt].past
        /\ UNCHANGED deadline /\ now \in Nat
    BY TimesNat DEF FlowInv, FlowType, DiscardBefore, Expired
  <1> HIDE DEF cnt
  <1>2. cnt \in 0 .. InUse /\ InUse \in Nat /\ \A k \in 1 .. cnt : deadline[Epoch(k)] <= t
    BY <1>1, ExpiredEpochs, EpochIDs DEF cnt
  <1>3. /\ epochStep' \in Nat
        /\ pastDeadline' = IF cnt = 0 THEN pastDeadline ELSE deadline[Epoch(cnt)]
    BY <1>1, <1>2, AccountedEpochs
  <1>4. InUse' = InUse - cnt /\ \A k \in 1 .. InUse - cnt : Alloc!Active'[k] = Epoch(k + cnt)
    BY <1>1, <1>2, EpochsDropped DEF Epoch
  <1>5. CASE cnt = 0
    <2>1. InUse' = InUse /\ \A k \in 1 .. InUse : Alloc!Active'[k] = Epoch(k)
      BY <1>2, <1>4, <1>5
    <2>2. pastDeadline' = pastDeadline /\ pastDeadline \in Int
      BY <1>3, <1>5 DEF Accounting
    <2>3. ASSUME pastDeadline # ANYTIME
          PROVE  pastDeadline <= t /\ \A k \in 1 .. InUse : pastDeadline <= deadline[Epoch(k)]
      <3>1. pastDeadline <= now /\ \A k \in 1 .. InUse : pastDeadline <= deadline[Epoch(k)]
        BY <2>3 DEF Accounting
      <3> QED
        BY <1>1, <2>2, <3>1
    <2> QED
      BY <1>1, <1>3, <2>1, <2>2, <2>3 DEF Accounting, Epoch
  <1>6. CASE cnt # 0
    <2>1. cnt \in 1 .. cnt /\ cnt \in 1 .. InUse
      BY <1>2, <1>6
    <2>2. pastDeadline' = deadline[Epoch(cnt)] /\ deadline[Epoch(cnt)] \in Int /\ deadline[Epoch(cnt)] <= t
      BY <1>1, <1>2, <1>3, <1>6, <2>1, EpochIDs
    <2>3. ASSUME NEW k \in 1 .. InUse' PROVE pastDeadline' <= deadline'[Alloc!Active'[k]]
      <3>1. k \in 1 .. InUse - cnt /\ k + cnt \in 1 .. InUse /\ cnt <= k + cnt /\ 0 \in {0, 1}
        BY <1>2, <1>4
      <3>2. deadline[Epoch(cnt)] <= deadline[Epoch(k + cnt)]
        BY <1>1, <2>1, <3>1, InOrder
      <3> QED
        BY <1>1, <1>4, <2>2, <3>1, <3>2
    <2> QED
      BY <1>1, <1>3, <2>2, <2>3 DEF Accounting, Epoch
  <1> QED
    BY <1>5, <1>6

LEMMA AccountingStep ==
    ASSUME ~LateRestart, FlowInv(0), Accounting, [Next]_vars
    PROVE  FlowInv(0)' /\ Accounting'
  <1>0. epochStep \in Nat /\ FlowType /\ Ordered(0) /\ 0 \in {0, 1} /\ Alloc!TypeOK /\ InUse \in Nat
    BY EpochIDs DEF Accounting, FlowInv, FlowType
  <1>1. epochStep' \in Nat
    <2>1. CASE now' = now
      BY <1>0, <2>1, StepLimited
    <2>2. CASE now' # now
      <3>1. PICK t \in Times : DiscardBefore(t)
        BY <2>2 DEF Next, vars, UntilNew, UntilKnown, UntilBeyond, ClaimSlot, ClaimBeyond, AnnounceAdditionalFlow
      <3>2. Accounting'
        BY <3>1, AccountingDiscard
      <3> QED
        BY <3>2 DEF Accounting
    <2> QED
      BY <2>1, <2>2
  <1>2. FlowInv(0)'
    BY <1>0, <1>1, FlowStep
  <1>3. ASSUME NEW h \in Handles, NEW d \in Times, UntilNew(h, d) PROVE Accounting'
    <2> DEFINE e == Alloc!Slot(start)'
    <2>1. InUse = 0 /\ Alloc!OpenNew(1) /\ 1 \in Nat \ {0} /\ d \in Nat /\ d >= now /\ now \in Nat
          /\ UNCHANGED <<pastDeadline, now>>
      BY <1>0, <1>3, EpochsInUse, TimesNat DEF UntilNew, Requests, FlowType
    <2>2. InUse' = 1 /\ Alloc!TypeOK' /\ Alloc!Active'[1] \in ExtentID
      <3>1. 1 \in 1 .. 1 /\ InUse + 1 = 1
        BY <2>1
      <3> QED
        BY <1>0, <2>1, <3>1, NewEpochs
    <2>3. e = Alloc!Active'[1]
      BY <2>2, FirstEpochNext DEF FirstEpoch
    <2>4. deadline' = [deadline EXCEPT ![e] = d + epochStep]
      BY <1>3 DEF UntilNew
    <2> HIDE DEF e
    <2>5. deadline'[Alloc!Active'[1]] = d + epochStep
      BY <1>0, <2>2, <2>3, <2>4 DEF FlowType
    <2>6. ASSUME pastDeadline # ANYTIME, NEW k \in 1 .. InUse'
          PROVE  pastDeadline <= deadline'[Alloc!Active'[k]]
      <3>1. k = 1 /\ pastDeadline <= now /\ pastDeadline \in Int
        BY <2>2, <2>6 DEF Accounting
      <3> QED
        BY <1>0, <2>1, <2>5, <3>1
    <2> QED
      BY <1>1, <2>1, <2>6 DEF Accounting, Epoch
  <1>4. ASSUME NEW h \in Handles, NEW d \in Times, UntilBeyond(h, d) PROVE Accounting'
    <2> DEFINE cnt == RequiredNew(d - deadline[LastEpoch])
    <2>1. /\ Alloc!OpenNew(cnt) /\ InUse >= 1 /\ deadline[LastEpoch] \in Int
          /\ epochStep \in Nat \ {0} /\ deadline[LastEpoch] < d /\ d \in Nat
          /\ UNCHANGED <<pastDeadline, now>>
      <3>1. InUse >= 1 /\ LastEpoch = Epoch(InUse) /\ InUse \in 1 .. InUse
        BY <1>0, <1>4, EpochEnds DEF UntilBeyond
      <3>2. deadline[LastEpoch] \in Int
        BY <1>0, <3>1, EpochIDs
      <3> QED
        BY <1>0, <1>4, <3>1, <3>2, TimesNat DEF UntilBeyond
    <2>2. cnt \in Nat \ {0}
      <3>1. d - deadline[LastEpoch] \in Nat \ {0}
        BY <2>1
      <3> QED
        BY <2>1, <3>1, RequiredReach
    <2> HIDE DEF cnt
    <2>3. 1 \in 1 .. InUse /\ Alloc!Active'[1] = Epoch(1) /\ Epoch(1) \in ActiveEpochs /\ Epoch(1) \in ExtentID
      <3>1. 1 \in 1 .. InUse
        BY <1>0, <2>1
      <3>2. Epoch(1)' = Epoch(1)
        BY <1>0, <2>1, <2>2, <3>1, NewEpochs
      <3> QED
        BY <1>0, <3>1, <3>2, EpochIDs DEF Epoch
    <2>4. deadline'[Epoch(1)] = deadline[Epoch(1)]
      <3> DEFINE new(k) == extents'[((Alloc!ExpandedPos(after) + k - 1) % Len(extents')) + 1]
      <3>1. \A k \in 1 .. cnt : new(k) = Alloc!Active'[InUse + k]
        BY <1>0, <2>1, <2>2, EpochsOpened
      <3>2. \A k \in 1 .. cnt : Alloc!Active'[InUse + k] \notin ActiveEpochs
        BY <1>0, <2>1, <2>2, NewEpochs
      <3>3. deadline' = [e \in ExtentID |->
                 IF \E k \in 1 .. cnt : e = new(k)
                   THEN deadline[LastEpoch] + epochStep * (CHOOSE k \in 1 .. cnt : e = new(k))
                   ELSE deadline[e]]
        BY <1>4 DEF UntilBeyond, cnt
      <3> HIDE DEF new
      <3>4. ~\E k \in 1 .. cnt : Epoch(1) = new(k)
        BY <2>3, <3>1, <3>2
      <3> QED
        BY <2>3, <3>3, <3>4
    <2> QED
      BY <1>1, <1>2, <2>1, <2>3, <2>4, AccountingKept
  <1>5. ASSUME NEW h \in Handles, ClaimBeyond(h) PROVE Accounting'
    <2> DEFINE e == extents'[Alloc!ExpandedPos(after) + 1]
    <2>1. /\ Alloc!OpenNew(1) /\ 1 \in Nat \ {0} /\ UNCHANGED <<pastDeadline, now>>
          /\ deadline' = [deadline EXCEPT ![e] = deadline[LastEpoch] + epochStep']
      BY <1>5 DEF ClaimBeyond
    <2>2. e = Alloc!Active'[InUse + 1]
      BY <1>0, <2>1, SingleEpoch
    <2> HIDE DEF e
    <2>3. InUse >= 1 /\ 1 \in 1 .. InUse
      <3>1. PICK k \in 1 .. InUse : Remaining(h) = InUse - k + 1
        BY <1>5, <1>0, PositionFound DEF ClaimBeyond
      <3> QED
        BY <1>0, <3>1
    <2>4. Alloc!Active'[1] = Epoch(1) /\ Epoch(1) \in ActiveEpochs /\ Epoch(1) \in ExtentID
      <3>1. Epoch(1)' = Epoch(1)
        BY <1>0, <2>1, <2>3, NewEpochs
      <3> QED
        BY <1>0, <2>3, <3>1, EpochIDs DEF Epoch
    <2>5. e \notin ActiveEpochs
      <3>1. 1 \in 1 .. 1
        OBVIOUS
      <3> QED
        BY <1>0, <2>1, <2>2, <3>1, NewEpochs
    <2>6. deadline'[Epoch(1)] = deadline[Epoch(1)]
      BY <1>0, <2>1, <2>4, <2>5 DEF FlowType
    <2> QED
      BY <1>1, <1>2, <2>1, <2>3, <2>4, <2>6, AccountingKept
  <1>6. ASSUME UNCHANGED <<allocVars, deadline, pastDeadline, now>> PROVE Accounting'
    BY <1>1, <1>6, AccountingUnchanged
  <1>7. CASE UNCHANGED vars
    BY <1>2, <1>6, <1>7 DEF vars
  <1>8. CASE \E h \in Handles, d \in Times : UntilNew(h, d) \/ UntilKnown(h, d) \/ UntilBeyond(h, d)
    BY <1>2, <1>3, <1>4, <1>6, <1>8 DEF UntilKnown
  <1>9. CASE \E h \in Handles : ClaimSlot(h) \/ ClaimBeyond(h)
    BY <1>2, <1>5, <1>6, <1>9 DEF ClaimSlot
  <1>10. CASE \E t \in Times : DiscardBefore(t)
    BY <1>2, <1>10, AccountingDiscard
  <1>11. CASE \E fps \in Flows : AnnounceAdditionalFlow(fps)
    BY <1>2, <1>6, <1>11 DEF AnnounceAdditionalFlow
  <1> QED
    BY <1>2, <1>7, <1>8, <1>9, <1>10, <1>11 DEF Next

(* As long as no deadline in the past is asked for while all Epochs are    *)
(* discarded, the Epoch step is never negative, however many Epochs are    *)
(* used and discarded (block-flow.hpp, markEpochUnderflow).                *)
THEOREM StepNeverNegative ==
    ASSUME ~LateRestart
    PROVE  Spec => []Accounting
  <1>1. Init => FlowInv(0) /\ Accounting
    <2>1. Init => Accounting
      BY Settings DEF Init, Accounting
    <2> QED
      BY <2>1, FlowInit
  <1>2. FlowInv(0) /\ Accounting /\ [Next]_vars => FlowInv(0)' /\ Accounting'
    BY AccountingStep
  <1> QED
    BY <1>1, <1>2, PTL DEF Spec

(* Memory is not reclaimed too early: every Activity keeps its slot, in an *)
(* Epoch ending no earlier than required, until its deadline has passed.   *)
THEOREM ActivitiesRetained ==
    ASSUME ~LateRestart
    PROVE  Spec => []RetainedUntilDeadline
  <1>1. FlowInv(0) => RetainedUntilDeadline
    BY DEF FlowInv, LiveOK, RetainedUntilDeadline
  <1>2. Accounting => epochStep \in Nat
    BY DEF Accounting
  <1> QED
    BY <1>1, <1>2, FlowSafety, StepNeverNegative, PTL

(* No slot is handed out twice while the Activity placed there is alive. *)
THEOREM SlotsNeverShared ==
    ASSUME ~LateRestart
    PROVE  Spec => []SlotsDisjoint
  <1>1. FlowInv(0) => SlotsDisjoint
    BY DEF FlowInv
  <1>2. Accounting => epochStep \in Nat
    BY DEF Accounting
  <1> QED
    BY <1>1, <1>2, FlowSafety, StepNeverNegative, PTL

(* Load regulation observes its limit: overflow and additional frame rates *)
(* do not reduce the spacing of Epochs below the last reduction starting   *)
(* above the cut-off.                                                      *)
THEOREM RegulationLimited ==
    ASSUME ~LateRestart
    PROVE  Spec => OverloadLimited
  <1>1. FlowInv(0) /\ Accounting /\ [Next]_vars
        => [now' = now => epochStep' >= Min({epochStep, ((CutOff + 1) * BoostFactorOverflow) \div 100})]_vars
    <2> SUFFICES ASSUME FlowInv(0), Accounting, [Next]_vars, now' = now
                 PROVE  epochStep' >= Min({epochStep, Floor})
      BY DEF Floor
    <2>1. epochStep \in Nat /\ Floor \in Int
      BY FloorBelowCutOff DEF Accounting
    <2>2. epochStep' \in Nat /\ (epochStep' >= epochStep \/ epochStep' >= Floor)
      BY <2>1, StepLimited
    <2>3. \E y \in {epochStep, Floor} : \A z \in {epochStep, Floor} : y <= z
      BY <2>1
    <2>4. Min({epochStep, Floor}) \in {epochStep, Floor}
          /\ Min({epochStep, Floor}) <= epochStep /\ Min({epochStep, Floor}) <= Floor
      BY <2>3 DEF Min
    <2> QED
      BY <2>1, <2>2, <2>4
  <1>2. Accounting => epochStep \in Nat
    BY DEF Accounting
  <1> QED
    BY <1>1, <1>2, FlowSafety, StepNeverNegative, PTL DEF Spec, OverloadLimited
=============================================================================
