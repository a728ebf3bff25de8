---------------------------- MODULE WeavingProofs ----------------------------
(***************************************************************************)
(* Calls into the render node network: buffers are handed on, emitted and  *)
(* released as they should be, and the parameter blocks linked into a      *)
(* TurnoutSystem are those in scope; for any network, any number of        *)
(* workers, and if any call may fail.                                      *)
(*                                                                         *)
(* The invariant is about one worker at a time: StackOK and ChainOK are    *)
(* about the values of its variables and the provider, not about states.   *)
(* What the workers share is the provider, and no block is held by two of  *)
(* them (Apart); thus a step of one leaves what the invariant says of the  *)
(* others.                                                                 *)
(***************************************************************************)
EXTENDS Weaving, SequenceTheorems, TLAPS

(* Weaving locks raw memory only: no embedded objects, and every entry of  *)
(* the metadata is locked or emitted.                                      *)
RawEntry == [state : {"LOCKED", "EMITTED"}, buffer : {TRUE}, instanceFunc : {"RAW"}]
RawTable == UNION {[S -> RawEntry] : S \in SUBSET Blocks}
RawType ==
  [table : RawTable, pool : SUBSET Blocks, outSeq : Seq(Blocks),
   released : SUBSET Blocks, object : [Blocks -> ObjectState]]

RawProvider(p) == p \in RawType /\ DOMAIN p.table \subseteq Created(p)

InState(p, b, st) == b \in DOMAIN p.table /\ p.table[b].state = st

(* From p to q only the blocks in X change, and no block disappears.       *)
Touches(p, q, X) ==
  /\ Created(p) \subseteq Created(q)
  /\ \A b \in Blocks \ X : /\ b \in DOMAIN p.table <=> b \in DOMAIN q.table
                           /\ b \in DOMAIN p.table => q.table[b] = p.table[b]

-----------------------------------------------------------------------------
Frame == [port : Ports, phase : {"pull", "weft", "fix", "drop"}, in : Seq(Handle),
          out : Seq(Handle), outBuff : Handle, freed : Nat, emitted : Nat]

Media(f) == Kind[f.port] = "media"
Param(f) == Kind[f.port] = "param"

(* The parameter node has its result, or its parameters linked.            *)
HasResult(f) == Param(f) /\ f.phase = "fix"
Linked(f) == Param(f) /\ f.phase # "pull"

(* The blocks a frame owns.                                                *)
Own(f) == Slots(f) \union (IF HasResult(f) THEN {f.outBuff.block} ELSE {})

(* The phase of a frame and how far its slots are filled.                  *)
FrameOK(f) ==
  /\ f \in Frame
  /\ Param(f) => f.in = << >> /\ f.out = << >> /\ f.phase # "drop"
  /\ Media(f) =>
       /\ f.phase = "pull" => Len(f.out) < Outs[f.port]
       /\ f.phase # "pull" => Len(f.out) = Outs[f.port]
       /\ f.phase \in {"pull", "weft"} => f.freed = 0 /\ f.emitted = 0
       /\ f.freed <= Len(f.in) /\ f.emitted <= Len(f.out)
       /\ f.phase = "drop" => f.emitted < Len(f.out) /\ f.emitted + 1 # ResultSlot[f.port]

(* The state of the buffers in its slots.                                  *)
InputOK(f, i, p) ==
  /\ f.in[i].ptr /\ f.in[i].block \in Created(p)
  /\ IF i <= f.freed THEN f.in[i].block \notin DOMAIN p.table
     ELSE InState(p, f.in[i].block, "EMITTED")

OutputOK(f, i, p) ==
  /\ f.out[i].ptr /\ f.out[i].block \in Created(p)
  /\ IF i <= f.emitted
     THEN IF i = ResultSlot[f.port] THEN InState(p, f.out[i].block, "EMITTED")
          ELSE f.out[i].block \notin DOMAIN p.table
     ELSE InState(p, f.out[i].block,
                  IF f.phase = "drop" /\ i = f.emitted + 1 THEN "EMITTED" ELSE "LOCKED")

SlotsDistinct(f) ==
  /\ \A i, j \in DOMAIN f.in : f.in[i].block = f.in[j].block => i = j
  /\ \A i, j \in DOMAIN f.out : f.out[i].block = f.out[j].block => i = j
  /\ \A i \in DOMAIN f.in, j \in DOMAIN f.out : f.in[i].block # f.out[j].block

BuffersOK(f, p) ==
  /\ \A i \in DOMAIN f.in : InputOK(f, i, p)
  /\ \A i \in DOMAIN f.out : OutputOK(f, i, p)
  /\ SlotsDistinct(f)
  /\ HasResult(f) => f.outBuff.ptr /\ InState(p, f.outBuff.block, "EMITTED")

(* The buffer given to the outermost call is handed on by parameter nodes. *)
ParamsBelow(s, k) == \A j \in 1..k-1 : Param(s[j])
HandedOn(s, k, g) == IF ParamsBelow(s, k) THEN g ELSE NullHandle

GivenUsed(f, h) ==
  /\ ~ HasResult(f) => f.outBuff = h
  /\ HasResult(f) /\ h.ptr => f.outBuff = h
  /\ Media(f) /\ h.ptr /\ ResultSlot[f.port] \in DOMAIN f.out
       => f.out[ResultSlot[f.port]] = h

(* No other slot holds it.                                                 *)
GivenOnlyThere(f, h, g) ==
  g.ptr => /\ \A i \in DOMAIN f.in : f.in[i].block # g.block
           /\ \A i \in DOMAIN f.out :
                f.out[i].block = g.block => h.ptr /\ i = ResultSlot[f.port]
           /\ HasResult(f) /\ f.outBuff.block = g.block => h.ptr

(* It is not emitted before the frame that uses it does so.                *)
GivenLocked(f, h, p) ==
  h.ptr /\ f.phase \in {"pull", "weft"} => InState(p, h.block, "LOCKED")

(* Frame k of stack s: all of this.                                        *)
FrameInv(s, k, g, p) ==
  LET f == s[k]
      h == HandedOn(s, k, g)
  IN  /\ FrameOK(f) /\ BuffersOK(f, p)
      /\ GivenUsed(f, h) /\ GivenOnlyThere(f, h, g)
      /\ k = Len(s) \/ Media(f) => GivenLocked(f, h, p)
      /\ k < Len(s) => f.phase = IF Param(f) THEN "weft" ELSE "pull"

StackOK(s, g, p) ==
  /\ s \in Seq(Frame)
  /\ \A k \in 1..Len(s) : FrameInv(s, k, g, p)
  /\ \A j, k \in 1..Len(s) : j # k => Own(s[j]) \intersect Own(s[k]) = {}

(* The result of the last call.                                            *)
ResultOK(r, g, o, p) ==
  /\ o = "done" => /\ r.ptr /\ InState(p, r.block, "EMITTED")
                   /\ g.ptr => r = g
  /\ o # "done" => r = NullHandle

HandleOK(h, p) == h \in Handle /\ IF h.ptr THEN h.block \in Created(p) ELSE h = NullHandle

WorkerOK(s, g, r, o, p) ==
  /\ o \in {"idle", "running", "done", "failed"}
  /\ o = "running" <=> s # << >>
  /\ HandleOK(g, p) /\ HandleOK(r, p)
  /\ o = "idle" => g = NullHandle
  /\ ResultOK(r, g, o, p)
  /\ StackOK(s, g, p)

(* All blocks worker w refers to.                                          *)
FrameHolds(f) == Slots(f) \union {f.outBuff.block}
StackHolds(s) == UNION {FrameHolds(s[k]) : k \in 1..Len(s)}
HeldBy(s, g, r) == StackHolds(s) \union {r.block, g.block}

Apart ==
  \A v, w \in Workers : v # w => Held(v) \intersect Held(w) \subseteq {0}

WeavingInv ==
  /\ RawProvider(bp)
  /\ DOMAIN stack = Workers /\ DOMAIN given = Workers
  /\ DOMAIN result = Workers /\ DOMAIN outcome = Workers
  /\ \A w \in Workers : WorkerOK(stack[w], given[w], result[w], outcome[w], bp)
  /\ Apart
  /\ NothingLeaked

(* The chain c of linked parameter blocks of a worker with stack s.        *)
ChainOK(s, c) ==
  /\ c \in Seq(Nat)
  /\ \A k \in 1..Len(s) : Linked(s[k]) => \E i \in DOMAIN c : c[i] = k
  /\ \A i \in DOMAIN c : /\ c[i] \in 1..Len(s) /\ Linked(s[c[i]])
                         /\ Segment[s[c[i]].port] = i
  /\ \A i, j \in DOMAIN c : i < j => c[i] < c[j]

-----------------------------------------------------------------------------
(* What the calls into the provider do.                                    *)

LEMMA RawTableType ==
    ASSUME NEW t
    PROVE  t \in RawTable <=> DOMAIN t \subseteq Blocks /\ t \in [DOMAIN t -> RawEntry]
  BY DEF RawTable

LEMMA WithTable ==
    ASSUME NEW p \in RawType, NEW t \in RawTable
    PROVE  LET q == [p EXCEPT !.table = t]
           IN  /\ q \in RawType /\ q.table = t /\ q.pool = p.pool
               /\ q.outSeq = p.outSeq /\ q.object = p.object /\ q.released = p.released
  BY DEF RawType

LEMMA AppendRange ==
    ASSUME NEW S, NEW s \in Seq(S), NEW b \in S
    PROVE  Range(Append(s, b)) = Range(s) \union {b}
  <1> DEFINE a == Append(s, b)
  <1>1. /\ a[Len(s) + 1] = b /\ \A i \in 1..Len(s) : a[i] = s[i]
        /\ DOMAIN a = 1..Len(s) + 1 /\ DOMAIN s = 1..Len(s) /\ Len(s) \in Nat
    OBVIOUS
  <1> HIDE DEF a
  <1>2. DOMAIN a = DOMAIN s \union {Len(s) + 1}
    BY <1>1
  <1>3. Range(a) = Range(s) \union {b}
    BY <1>1, <1>2 DEF Range
  <1> QED
    BY <1>3 DEF a

LEMMA LockRaw ==
    ASSUME NEW p, RawProvider(p), CanCreate(p)
    PROVE  LET q == LockBuffer(p, "RAW", TRUE)
               b == NextBlock(p)
           IN  /\ b \in Blocks /\ b \notin Created(p)
               /\ RawProvider(q) /\ Created(q) = Created(p) \union {b}
               /\ Touches(p, q, {b}) /\ InState(q, b, "LOCKED")
               /\ DOMAIN q.table = DOMAIN p.table \union {b}
  <1> DEFINE b == NextBlock(p)
             e == [state |-> "LOCKED", buffer |-> TRUE, instanceFunc |-> "RAW"]
             t == [c \in DOMAIN p.table \union {b} |-> IF c = b THEN e ELSE p.table[c]]
             p1 == [p EXCEPT !.pool = @ \union {b}]
             q == [p1 EXCEPT !.table = t]
  <1>1. b \in Blocks /\ b \notin Created(p)
    BY DEF CanCreate, NextBlock
  <1>2. p \in RawType /\ p.table \in [DOMAIN p.table -> RawEntry] /\ DOMAIN p.table \subseteq Blocks
    BY RawTableType DEF RawType, RawProvider
  <1>3. e \in RawEntry
    BY DEF RawEntry
  <1>4. t \in RawTable
    BY <1>1, <1>2, <1>3, RawTableType
  <1>5. /\ DOMAIN t = DOMAIN p.table \union {b} /\ t[b] = e
        /\ \A c \in DOMAIN p.table \ {b} : t[c] = p.table[c]
    OBVIOUS
  <1>6. /\ p1 \in RawType /\ p1.table = p.table /\ p1.pool = p.pool \union {b}
        /\ p1.outSeq = p.outSeq
    BY <1>1, <1>2 DEF RawType
  <1>7. LockBuffer(p, "RAW", TRUE) = InvokeCtor(q, b)
    BY <1>6 DEF LockBuffer, StoreAsLocked
  <1> HIDE DEF t, e, b, p1
  <1>8. /\ q \in RawType /\ q.table = t /\ q.pool = p1.pool /\ q.outSeq = p1.outSeq
    BY <1>4, <1>6, WithTable
  <1> HIDE DEF q
  <1>9. LockBuffer(p, "RAW", TRUE) = q
    <2>1. q.table[b].instanceFunc = "RAW"
      BY <1>5, <1>8 DEF e
    <2> QED
      BY <1>7, <2>1 DEF InvokeCtor
  <1>10. Created(q) = Created(p) \union {b}
    BY <1>6, <1>8 DEF Created
  <1>11. RawProvider(q) /\ Touches(p, q, {b}) /\ InState(q, b, "LOCKED")
    BY <1>2, <1>5, <1>8, <1>10 DEF RawProvider, Touches, InState, e
  <1>12. DOMAIN q.table = DOMAIN p.table \union {b}
    BY <1>5, <1>8
  <1> QED
    BY <1>1, <1>9, <1>10, <1>11, <1>12 DEF b

LEMMA EmitRaw ==
    ASSUME NEW p, RawProvider(p), NEW b, InState(p, b, "LOCKED")
    PROVE  LET q == EmitBuffer(p, b)
           IN  /\ RawProvider(q) /\ Created(q) = Created(p)
               /\ Touches(p, q, {b}) /\ InState(q, b, "EMITTED")
               /\ DOMAIN q.table = DOMAIN p.table
  <1> DEFINE m == IF b \in p.pool
                  THEN [p EXCEPT !.pool = @ \ {b}, !.outSeq = Append(@, b)] ELSE p
             e == [p.table[b] EXCEPT !.state = "EMITTED"]
             t == [p.table EXCEPT ![b] = e]
             q == [m EXCEPT !.table = t]
  <1>1. /\ p \in RawType /\ p.table \in [DOMAIN p.table -> RawEntry]
        /\ DOMAIN p.table \subseteq Blocks /\ b \in DOMAIN p.table
    BY RawTableType DEF RawType, RawProvider, InState
  <1>2. m \in RawType /\ m.table = p.table /\ Created(m) = Created(p)
    <2>1. CASE b \notin p.pool
      BY <2>1, <1>1
    <2>2. CASE b \in p.pool
      <3> DEFINE m1 == [p EXCEPT !.pool = @ \ {b}]
                 o == Append(p.outSeq, b)
      <3>1. o \in Seq(Blocks) /\ Range(o) = Range(p.outSeq) \union {b}
        BY <1>1, AppendRange DEF RawType
      <3>2. /\ m1 \in RawType /\ m1.table = p.table /\ m1.pool = p.pool \ {b}
            /\ m1.outSeq = p.outSeq
        BY <1>1 DEF RawType
      <3>3. m = [m1 EXCEPT !.outSeq = o]
        BY <2>2, <3>2
      <3> HIDE DEF m1, o, m
      <3>4. m \in RawType /\ m.table = m1.table /\ m.pool = m1.pool /\ m.outSeq = o
        BY <3>1, <3>2, <3>3 DEF RawType
      <3> QED
        BY <2>2, <3>1, <3>2, <3>4 DEF Created
    <2> QED
      BY <2>1, <2>2
  <1>3. e \in RawEntry /\ e.state = "EMITTED"
    BY <1>1 DEF RawEntry
  <1>4. /\ t \in RawTable /\ DOMAIN t = DOMAIN p.table /\ t[b] = e
        /\ \A c \in DOMAIN p.table \ {b} : t[c] = p.table[c]
    <2> HIDE DEF e
    <2> QED
      BY <1>1, <1>3, RawTableType
  <1>5. EmitBuffer(p, b) = q
    <2>1. Known(p, b) /\ MayMark(p.table[b].state, "EMITTED")
      BY DEF InState, Known, MayMark
    <2>2. EmitBuffer(p, b) = MarkEmitted(m, b)
      BY <2>1 DEF EmitBuffer
    <2> HIDE DEF m
    <2> QED
      BY <2>2, <1>2 DEF MarkEmitted, RawType
  <1> HIDE DEF m, t, e
  <1>6. /\ q \in RawType /\ q.table = t /\ q.pool = m.pool /\ q.outSeq = m.outSeq
    BY <1>2, <1>4, WithTable
  <1> HIDE DEF q
  <1>7. Created(q) = Created(p)
    BY <1>2, <1>6 DEF Created
  <1>8. RawProvider(q) /\ Touches(p, q, {b}) /\ InState(q, b, "EMITTED")
    BY <1>1, <1>3, <1>4, <1>6, <1>7 DEF RawProvider, Touches, InState
  <1> QED
    BY <1>4, <1>5, <1>6, <1>7, <1>8

LEMMA ReleaseRaw ==
    ASSUME NEW p, RawProvider(p), NEW b
    PROVE  LET q == ReleaseBuffer(p, b)
           IN  /\ RawProvider(q) /\ Created(q) = Created(p)
               /\ Touches(p, q, {b})
               /\ DOMAIN q.table = DOMAIN p.table \ {b}
  <1>1. p \in RawType /\ p.table \in [DOMAIN p.table -> RawEntry] /\ DOMAIN p.table \subseteq Blocks
    BY RawTableType DEF RawType, RawProvider
  <1>2. CASE b \notin DOMAIN p.table
    <2>1. ReleaseBuffer(p, b) = p
      BY <1>2 DEF ReleaseBuffer, Known
    <2> QED
      BY <2>1, <1>2 DEF Touches
  <1>3. CASE b \in DOMAIN p.table
    <2> DEFINE u == [p.table EXCEPT ![b] = Freed(@)]
               i == [p EXCEPT !.table = u]
               d == [i EXCEPT !.released = @ \union {b}]
               t == [c \in DOMAIN p.table \ {b} |-> p.table[c]]
               q == [d EXCEPT !.table = t]
    <2>1. p.table[b].instanceFunc = "RAW" /\ p.table[b].state \in {"LOCKED", "EMITTED"}
      BY <1>1, <1>3 DEF RawEntry
    <2>2. Known(p, b) /\ MayMark(p.table[b].state, "FREE")
      BY <2>1, <1>3 DEF Known, MayMark
    <2>3. MarkFree(p, b) = i
      BY <2>1, <1>1 DEF MarkFree, InvokeDtor, Invalidate, RawType
    <2>4. DOMAIN u = DOMAIN p.table /\ \A c \in DOMAIN p.table \ {b} : u[c] = p.table[c]
      BY <1>1
    <2> HIDE DEF u
    <2>5. /\ d.table = u /\ d.pool = p.pool /\ d.outSeq = p.outSeq /\ d.object = p.object
          /\ d.released = p.released \union {b}
          /\ DOMAIN d = {"table", "pool", "outSeq", "released", "object"}
      BY <1>1 DEF RawType
    <2>6. ReleaseBuffer(p, b) = q
      <3>1. ReleaseBuffer(p, b) = ForgetEntry(d, b)
        BY <2>2, <2>3 DEF ReleaseBuffer, DetachBuffer
      <3>2. [c \in DOMAIN d.table \ {b} |-> d.table[c]] = t
        BY <2>4, <2>5
      <3> HIDE DEF d, t
      <3> QED
        BY <3>1, <3>2 DEF ForgetEntry
    <2>7. /\ t \in RawTable /\ DOMAIN t = DOMAIN p.table \ {b}
          /\ \A c \in DOMAIN p.table \ {b} : t[c] = p.table[c]
      BY <1>1, RawTableType
    <2>8. /\ q.table = t /\ q.pool = p.pool /\ q.outSeq = p.outSeq
          /\ q = [table |-> t, pool |-> p.pool, outSeq |-> p.outSeq,
                  released |-> p.released \union {b}, object |-> p.object]
      <3> HIDE DEF d, t
      <3> QED
        BY <2>5
    <2> HIDE DEF t, q, d
    <2>9. q \in RawType
      BY <1>1, <1>3, <2>7, <2>8 DEF RawType
    <2>10. Created(q) = Created(p)
      BY <2>8 DEF Created
    <2>11. RawProvider(q) /\ Touches(p, q, {b})
      BY <2>7, <2>8, <2>9, <2>10 DEF RawProvider, Touches
    <2> QED
      BY <2>6, <2>7, <2>8, <2>10, <2>11
  <1> QED
    BY <1>2, <1>3

-----------------------------------------------------------------------------
(* Frames, when blocks elsewhere change.                                   *)

LEMMA KindOfFrame ==
    ASSUME NEW f \in Frame
    PROVE  /\ f.port \in Ports
           /\ Media(f) <=> ~ Param(f)
           /\ f.in \in Seq(Handle) /\ f.out \in Seq(Handle) /\ f.outBuff \in Handle
           /\ f.freed \in Nat /\ f.emitted \in Nat
           /\ f.phase \in {"pull", "weft", "fix", "drop"}
           /\ Media(f) => ResultSlot[f.port] \in 1..Outs[f.port]
           /\ Outs[f.port] \in Nat /\ ResultSlot[f.port] \in Nat
           /\ DOMAIN f.in = 1..Len(f.in) /\ DOMAIN f.out = 1..Len(f.out)
           /\ Len(f.in) \in Nat /\ Len(f.out) \in Nat
  <1>1. /\ f.port \in Ports /\ f.in \in Seq(Handle) /\ f.out \in Seq(Handle)
        /\ f.outBuff \in Handle /\ f.freed \in Nat /\ f.emitted \in Nat
        /\ f.phase \in {"pull", "weft", "fix", "drop"}
    BY DEF Frame
  <1>2. Media(f) <=> ~ Param(f)
    BY <1>1, WeavingAssumption DEF Media, Param
  <1>3. /\ Media(f) => ResultSlot[f.port] \in 1..Outs[f.port]
        /\ Outs[f.port] \in Nat /\ ResultSlot[f.port] \in Nat
    BY <1>1, WeavingAssumption DEF Media
  <1> QED
    BY <1>1, <1>2, <1>3

LEMMA SlotBlocks ==
    ASSUME NEW f
    PROVE  /\ \A i \in DOMAIN f.in : f.in[i].block \in Slots(f)
           /\ \A i \in DOMAIN f.out : f.out[i].block \in Slots(f)
           /\ \A b \in Slots(f) : \/ \E i \in DOMAIN f.in : b = f.in[i].block
                                  \/ \E i \in DOMAIN f.out : b = f.out[i].block
  BY DEF Slots, Range

LEMMA OwnBlocks ==
    ASSUME NEW f
    PROVE  /\ \A i \in DOMAIN f.in : f.in[i].block \in Own(f)
           /\ \A i \in DOMAIN f.out : f.out[i].block \in Own(f)
           /\ HasResult(f) => f.outBuff.block \in Own(f)
           /\ \A b \in Own(f) : \/ \E i \in DOMAIN f.in : b = f.in[i].block
                                \/ \E i \in DOMAIN f.out : b = f.out[i].block
                                \/ HasResult(f) /\ b = f.outBuff.block
           /\ Slots(f) \subseteq Own(f) /\ Own(f) \subseteq FrameHolds(f)
  BY SlotBlocks DEF Own, FrameHolds

LEMMA CreatedBlocks ==
    ASSUME NEW p, RawProvider(p)
    PROVE  /\ Created(p) \subseteq Blocks /\ DOMAIN p.table \subseteq Created(p)
           /\ 0 \notin Created(p) /\ 0 \notin DOMAIN p.table /\ 0 \notin Blocks
  <1>1. p.pool \subseteq Blocks /\ p.outSeq \in Seq(Blocks)
    BY DEF RawProvider, RawType
  <1>2. Range(p.outSeq) \subseteq Blocks
    BY <1>1 DEF Range
  <1>3. 0 \notin Blocks
    BY MaxBlocksAssumption DEF Blocks
  <1> QED
    BY <1>1, <1>2, <1>3 DEF RawProvider, Created

LEMMA OwnCreated ==
    ASSUME NEW f, NEW p, RawProvider(p), BuffersOK(f, p)
    PROVE  Own(f) \subseteq Created(p)
  <1>1. \A i \in DOMAIN f.in : f.in[i].block \in Created(p)
    BY DEF BuffersOK, InputOK
  <1>2. \A i \in DOMAIN f.out : f.out[i].block \in Created(p)
    BY DEF BuffersOK, OutputOK
  <1>3. HasResult(f) => f.outBuff.block \in Created(p)
    BY CreatedBlocks DEF BuffersOK, InState
  <1> QED
    BY <1>1, <1>2, <1>3, OwnBlocks

(* A parameter node that evaluates its delegate owns nothing.              *)
LEMMA WaitingParam ==
    ASSUME NEW f, FrameOK(f), Param(f), f.phase # "fix"
    PROVE  Own(f) = {}
  <1>1. f.in = << >> /\ f.out = << >> /\ ~ HasResult(f)
    BY DEF FrameOK, HasResult
  <1>2. DOMAIN f.in = {} /\ DOMAIN f.out = {}
    BY <1>1
  <1> QED
    BY <1>1, <1>2, OwnBlocks

LEMMA StateKept ==
    ASSUME NEW p, NEW q, NEW X, RawProvider(p), Touches(p, q, X),
           NEW b, b \notin X
    PROVE  /\ \A st : InState(p, b, st) => InState(q, b, st)
           /\ b \in Created(p) /\ b \notin DOMAIN p.table => b \notin DOMAIN q.table
           /\ b \in Created(p) => b \in Created(q)
  BY CreatedBlocks DEF Touches, InState

LEMMA BuffersKept ==
    ASSUME NEW f, NEW p, NEW q, NEW X, RawProvider(p), Touches(p, q, X),
           BuffersOK(f, p), Own(f) \intersect X = {}
    PROVE  BuffersOK(f, q)
  <1>1. ASSUME NEW i \in DOMAIN f.in
        PROVE  InputOK(f, i, q)
    <2>1. InputOK(f, i, p) /\ f.in[i].block \notin X
      BY OwnBlocks DEF BuffersOK
    <2> QED
      BY <2>1, StateKept DEF InputOK
  <1>2. ASSUME NEW i \in DOMAIN f.out
        PROVE  OutputOK(f, i, q)
    <2>1. OutputOK(f, i, p) /\ f.out[i].block \notin X
      BY OwnBlocks DEF BuffersOK
    <2> QED
      BY <2>1, StateKept DEF OutputOK
  <1>3. HasResult(f) => f.outBuff.ptr /\ InState(q, f.outBuff.block, "EMITTED")
    BY OwnBlocks, StateKept DEF BuffersOK
  <1> QED
    BY <1>1, <1>2, <1>3 DEF BuffersOK

LEMMA HandedOnCases ==
    ASSUME NEW s, NEW k, NEW g
    PROVE  /\ ParamsBelow(s, k) => HandedOn(s, k, g) = g
           /\ ~ ParamsBelow(s, k) => HandedOn(s, k, g) = NullHandle
           /\ HandedOn(s, k, g).ptr => ParamsBelow(s, k) /\ HandedOn(s, k, g) = g
           /\ NullHandle.ptr = FALSE /\ NullHandle.block = 0 /\ NullHandle \in Handle
  <1>1. NullHandle.ptr = FALSE /\ NullHandle.block = 0 /\ NullHandle \in Handle
    BY DEF NullHandle, Handle
  <1> QED
    BY <1>1 DEF HandedOn

(* The other workers' stacks are not concerned.                            *)
LEMMA StackKept ==
    ASSUME NEW s, NEW g, NEW p, NEW q, NEW X, RawProvider(p), Touches(p, q, X),
           StackOK(s, g, p), g.block \notin X,
           \A k \in 1..Len(s) : Own(s[k]) \intersect X = {}
    PROVE  StackOK(s, g, q)
  <1>1. ASSUME NEW k \in 1..Len(s)
        PROVE  FrameInv(s, k, g, q)
    <2>1. FrameInv(s, k, g, p)
      BY DEF StackOK
    <2>2. BuffersOK(s[k], q)
      BY <2>1, BuffersKept DEF FrameInv
    <2>3. GivenLocked(s[k], HandedOn(s, k, g), p) => GivenLocked(s[k], HandedOn(s, k, g), q)
      <3>1. HandedOn(s, k, g).ptr => HandedOn(s, k, g) = g
        BY HandedOnCases
      <3>2. InState(p, g.block, "LOCKED") => InState(q, g.block, "LOCKED")
        BY StateKept
      <3> QED
        BY <3>1, <3>2 DEF GivenLocked
    <2> QED
      BY <2>1, <2>2, <2>3 DEF FrameInv
  <1> QED
    BY <1>1 DEF StackOK

LEMMA HeldFacts ==
    ASSUME NEW s, NEW g, NEW r
    PROVE  /\ r.block \in HeldBy(s, g, r) /\ g.block \in HeldBy(s, g, r)
           /\ \A k \in 1..Len(s) : FrameHolds(s[k]) \subseteq HeldBy(s, g, r)
           /\ \A b \in HeldBy(s, g, r) : \/ b \in {r.block, g.block}
                                         \/ \E k \in 1..Len(s) : b \in FrameHolds(s[k])
  <1>1. /\ \A k \in 1..Len(s) : FrameHolds(s[k]) \subseteq StackHolds(s)
        /\ \A b \in StackHolds(s) : \E k \in 1..Len(s) : b \in FrameHolds(s[k])
    BY DEF StackHolds
  <1> QED
    BY <1>1 DEF HeldBy

LEMMA WorkerKept ==
    ASSUME NEW s, NEW g, NEW r, NEW o, NEW p, NEW q, NEW X,
           RawProvider(p), Touches(p, q, X), WorkerOK(s, g, r, o, p),
           HeldBy(s, g, r) \intersect X = {}
    PROVE  WorkerOK(s, g, r, o, q)
  <1>1. r.block \notin X /\ g.block \notin X
    BY HeldFacts
  <1>2. \A k \in 1..Len(s) : Own(s[k]) \intersect X = {}
    BY HeldFacts, OwnBlocks
  <1>3. StackOK(s, g, q)
    BY <1>1, <1>2, StackKept DEF WorkerOK
  <1>4. HandleOK(g, q) /\ HandleOK(r, q)
    BY DEF WorkerOK, HandleOK, Touches
  <1>5. ResultOK(r, g, o, q)
    BY <1>1, StateKept DEF WorkerOK, ResultOK
  <1> QED
    BY <1>3, <1>4, <1>5 DEF WorkerOK

-----------------------------------------------------------------------------
(* The outermost frame of a stack is replaced, or one is added or removed. *)

ReplaceTop(s, f) == [s EXCEPT ![Len(s)] = f]

LEMMA Replaced ==
    ASSUME NEW s \in Seq(Frame), s # << >>, NEW f \in Frame
    PROVE  LET t == ReplaceTop(s, f)
           IN  /\ t \in Seq(Frame) /\ Len(t) = Len(s) /\ t[Len(s)] = f
               /\ \A k \in 1..Len(s) - 1 : t[k] = s[k]
               /\ Len(s) \in Nat \ {0} /\ Len(s) \in 1..Len(s)
  BY DEF ReplaceTop

LEMMA TopReplaced ==
    ASSUME NEW s, NEW g, NEW p, NEW q, NEW X, NEW f, s # << >>,
           RawProvider(p), Touches(p, q, X), StackOK(s, g, p),
           FrameOK(f), BuffersOK(f, q),
           GivenUsed(f, HandedOn(s, Len(s), g)),
           GivenOnlyThere(f, HandedOn(s, Len(s), g), g),
           GivenLocked(f, HandedOn(s, Len(s), g), q),
           \A k \in 1..Len(s) - 1 : Own(s[k]) \intersect (X \union Own(f)) = {},
           g.ptr /\ g.block \in X => ParamsBelow(s, Len(s))
    PROVE  StackOK(ReplaceTop(s, f), g, q)
  <1> DEFINE t == ReplaceTop(s, f)
             n == Len(s)
  <1>1. s \in Seq(Frame) /\ f \in Frame
    BY DEF StackOK, FrameOK
  <1>2. /\ t \in Seq(Frame) /\ Len(t) = n /\ t[n] = f
        /\ \A k \in 1..n - 1 : t[k] = s[k]
        /\ n \in Nat \ {0} /\ n \in 1..n
    BY <1>1, Replaced
  <1> HIDE DEF t, n
  <1>3. \A k \in 1..n : ParamsBelow(t, k) <=> ParamsBelow(s, k)
    BY <1>2 DEF ParamsBelow
  <1>4. \A k \in 1..n : HandedOn(t, k, g) = HandedOn(s, k, g)
    BY <1>3 DEF HandedOn
  <1>5. FrameInv(t, n, g, q)
    <2>1. HandedOn(t, n, g) = HandedOn(s, Len(s), g) /\ t[n] = f /\ n = Len(t)
      BY <1>2, <1>4 DEF n
    <2> QED
      BY <2>1, <1>2 DEF FrameInv
  <1>6. ASSUME NEW k \in 1..n - 1
        PROVE  FrameInv(t, k, g, q)
    <2>0. k \in 1..n /\ k < n /\ t[k] = s[k]
      BY <1>2
    <2>1. FrameInv(s, k, g, p)
      BY <2>0 DEF StackOK, n
    <2>2. BuffersOK(s[k], q)
      <3>1. Own(s[k]) \intersect X = {}
        BY <1>2 DEF n
      <3> QED
        BY <2>1, <3>1, BuffersKept DEF FrameInv
    <2>3. Media(s[k]) => GivenLocked(s[k], HandedOn(s, k, g), q)
      <3> SUFFICES ASSUME HandedOn(s, k, g).ptr, s[k].phase \in {"pull", "weft"}, Media(s[k])
                   PROVE  InState(q, HandedOn(s, k, g).block, "LOCKED")
        BY DEF GivenLocked
      <3>1. HandedOn(s, k, g) = g /\ InState(p, g.block, "LOCKED")
        BY <2>1, HandedOnCases DEF FrameInv, GivenLocked
      <3>2. ~ ParamsBelow(s, n)
        <4>1. ~ Param(s[k])
          <5>1. s[k] \in Frame
            BY <2>1 DEF FrameInv, FrameOK
          <5> QED
            BY <5>1, KindOfFrame
        <4> QED
          BY <4>1 DEF ParamsBelow
      <3>3. g.block \notin X
        BY <3>1, <3>2 DEF n
      <3> QED
        BY <3>1, <3>3, StateKept
    <2>4. HandedOn(t, k, g) = HandedOn(s, k, g) /\ k < Len(t) /\ k < Len(s) /\ k # Len(t)
      BY <2>0, <1>2, <1>4 DEF n
    <2> QED
      BY <2>0, <2>1, <2>2, <2>3, <2>4 DEF FrameInv
  <1>7. ASSUME NEW j \in 1..n, NEW k \in 1..n, j # k
        PROVE  Own(t[j]) \intersect Own(t[k]) = {}
    <2>1. CASE j = n
      <3>1. k \in 1..n - 1
        BY <2>1, <1>2, <1>7
      <3> QED
        BY <2>1, <3>1, <1>2 DEF n
    <2>2. CASE k = n
      <3>1. j \in 1..n - 1
        BY <2>2, <1>2, <1>7
      <3> QED
        BY <2>2, <3>1, <1>2 DEF n
    <2>3. CASE j # n /\ k # n
      <3>1. j \in 1..n - 1 /\ k \in 1..n - 1
        BY <2>3, <1>2
      <3>2. t[j] = s[j] /\ t[k] = s[k]
        BY <3>1, <1>2
      <3> QED
        BY <3>2, <1>7 DEF StackOK, n
    <2> QED
      BY <2>1, <2>2, <2>3
  <1>8. \A k \in 1..n : FrameInv(t, k, g, q)
    <2>1. \A k \in 1..n : k = n \/ k \in 1..n - 1
      BY <1>2
    <2> QED
      BY <2>1, <1>5, <1>6
  <1> QED
    BY <1>2, <1>7, <1>8 DEF StackOK, t

LEMMA Pushed ==
    ASSUME NEW s, NEW g, NEW p, NEW port \in Ports, s # << >>, HandleOK(g, p),
           RawProvider(p), StackOK(s, g, p),
           s[Len(s)].phase = IF Param(s[Len(s)]) THEN "weft" ELSE "pull"
    PROVE  StackOK(Append(s, Feed(port, IF Param(s[Len(s)]) THEN s[Len(s)].outBuff
                                        ELSE NullHandle)), g, p)
  <1> DEFINE n == Len(s)
             f == s[n]
             h == IF Param(f) THEN f.outBuff ELSE NullHandle
             c == Feed(port, h)
             t == Append(s, c)
  <1>1. s \in Seq(Frame) /\ n \in Nat \ {0} /\ n \in 1..n /\ f \in Frame
    BY DEF StackOK
  <1>2. FrameInv(s, n, g, p)
    BY <1>1 DEF StackOK
  <1>3. h \in Handle /\ g \in Handle
    BY <1>1, KindOfFrame, HandedOnCases DEF HandleOK
  <1>4. /\ c \in Frame /\ c.port = port /\ c.phase = "pull" /\ c.in = << >> /\ c.out = << >>
        /\ c.outBuff = h /\ c.freed = 0 /\ c.emitted = 0
    <2> HIDE DEF h
    <2> QED
      BY <1>3 DEF Feed, Frame
  <1> HIDE DEF c
  <1>5. /\ t \in Seq(Frame) /\ Len(t) = n + 1 /\ t[n + 1] = c
        /\ \A k \in 1..n : t[k] = s[k]
    BY <1>1, <1>4
  <1> HIDE DEF t
  <1>6. \A k \in 1..n : ParamsBelow(t, k) <=> ParamsBelow(s, k)
    <2> HIDE DEF n, f
    <2> QED
      BY <1>1, <1>5 DEF ParamsBelow
  <1>7. ParamsBelow(t, n + 1) <=> ParamsBelow(s, n) /\ Param(f)
    <2>1. t[n] = f
      BY <1>1, <1>5
    <2> HIDE DEF n, f
    <2>2. \A j \in 1..(n + 1) - 1 : j = n \/ j \in 1..n-1
      BY <1>1
    <2>3. n \in 1..(n + 1) - 1 /\ \A j \in 1..n-1 : j \in 1..(n+1)-1 /\ t[j] = s[j]
      BY <1>1, <1>5
    <2> QED
      BY <2>1, <2>2, <2>3 DEF ParamsBelow
  <1>8. HandedOn(t, n + 1, g) = h
    <2>1. CASE Param(f)
      <3>1. f.outBuff = HandedOn(s, n, g)
        BY <1>2, <2>1 DEF FrameInv, GivenUsed, HasResult
      <3> QED
        BY <2>1, <3>1, <1>7 DEF HandedOn
    <2>2. CASE ~ Param(f)
      BY <2>2, <1>7 DEF HandedOn
    <2> QED
      BY <2>1, <2>2
  <1>9. Own(c) = {}
    <2>1. DOMAIN c.in = {} /\ DOMAIN c.out = {} /\ ~ HasResult(c)
      BY <1>4 DEF HasResult
    <2> QED
      BY <2>1, OwnBlocks
  <1>10. FrameInv(t, n + 1, g, p)
    <2>1. FrameOK(c)
      <3>1. Len(c.in) = 0 /\ Len(c.out) = 0
        BY <1>4
      <3>2. Media(c) => 0 < Outs[c.port]
        <4>1. Media(c) => ResultSlot[c.port] \in 1..Outs[c.port]
          BY <1>4, KindOfFrame
        <4>2. Outs[c.port] \in Nat
          BY <1>4, KindOfFrame
        <4> QED
          BY <4>1, <4>2
      <3> QED
        BY <3>1, <3>2, <1>4 DEF FrameOK
    <2>2. BuffersOK(c, p) /\ GivenOnlyThere(c, h, g)
      <3>1. DOMAIN c.in = {} /\ DOMAIN c.out = {} /\ ~ HasResult(c)
        BY <1>4 DEF HasResult
      <3> QED
        BY <3>1 DEF BuffersOK, SlotsDistinct, GivenOnlyThere
    <2>3. GivenUsed(c, h)
      <3>1. DOMAIN c.out = {} /\ ~ HasResult(c)
        BY <1>4 DEF HasResult
      <3> QED
        BY <3>1, <1>4 DEF GivenUsed
    <2>4. GivenLocked(c, h, p)
      <3>1. CASE Param(f)
        <4>1. f.outBuff = HandedOn(s, n, g)
          BY <1>2, <3>1 DEF FrameInv, GivenUsed, HasResult
        <4> QED
          BY <4>1, <3>1, <1>2 DEF FrameInv, GivenLocked
      <3>2. CASE ~ Param(f)
        BY <3>2, HandedOnCases DEF GivenLocked
      <3> QED
        BY <3>1, <3>2
    <2> QED
      BY <2>1, <2>2, <2>3, <2>4, <1>5, <1>8, <1>1 DEF FrameInv
  <1>11. ASSUME NEW k \in 1..n
         PROVE  FrameInv(t, k, g, p)
    <2>1. FrameInv(s, k, g, p) /\ t[k] = s[k]
      BY <1>5 DEF StackOK
    <2>2. HandedOn(t, k, g) = HandedOn(s, k, g)
      BY <1>6 DEF HandedOn
    <2>3. k # Len(t) /\ k <= n
      BY <1>1, <1>5
    <2>4. Media(s[k]) => GivenLocked(s[k], HandedOn(s, k, g), p)
      BY <2>1 DEF FrameInv
    <2>5. s[k].phase = IF Param(s[k]) THEN "weft" ELSE "pull"
      BY <2>1, <2>3, <1>1 DEF FrameInv
    <2> QED
      BY <2>1, <2>2, <2>3, <2>4, <2>5 DEF FrameInv
  <1>12. ASSUME NEW j \in 1..n + 1, NEW k \in 1..n + 1, j # k
         PROVE  Own(t[j]) \intersect Own(t[k]) = {}
    <2>1. CASE j = n + 1 \/ k = n + 1
      BY <2>1, <1>5, <1>9
    <2>2. CASE j # n + 1 /\ k # n + 1
      <3>1. j \in 1..n /\ k \in 1..n
        BY <2>2, <1>1
      <3> QED
        BY <3>1, <1>5, <1>12 DEF StackOK
    <2> QED
      BY <2>1, <2>2
  <1>13. \A k \in 1..n + 1 : FrameInv(t, k, g, p)
    <2>1. \A k \in 1..n + 1 : k = n + 1 \/ k \in 1..n
      BY <1>1
    <2> QED
      BY <2>1, <1>10, <1>11
  <1>14. StackOK(t, g, p)
    BY <1>5, <1>12, <1>13 DEF StackOK
  <1> QED
    BY <1>14 DEF t, c

(* What a call returns: its result, emitted, in the buffer given to it.    *)
Returned(s, r, g, p) ==
  /\ r \in Handle /\ r.ptr /\ InState(p, r.block, "EMITTED") /\ r.block \in Own(s[Len(s)])
  /\ HandedOn(s, Len(s), g).ptr => r = g
  /\ g.ptr /\ r.block = g.block => HandedOn(s, Len(s), g).ptr

LEMMA MediaReturns ==
    ASSUME NEW s, NEW g, NEW p, s # << >>, StackOK(s, g, p),
           Media(s[Len(s)]), s[Len(s)].phase = "fix",
           s[Len(s)].freed = Len(s[Len(s)].in), s[Len(s)].emitted = Len(s[Len(s)].out)
    PROVE  LET f == s[Len(s)]
               r == f.out[ResultSlot[f.port]]
           IN  Returned(s, r, g, p) /\ Slots(f) \intersect DOMAIN p.table \subseteq {r.block}
  <1> DEFINE f == s[Len(s)]
             i == ResultSlot[f.port]
             r == f.out[i]
             h == HandedOn(s, Len(s), g)
  <1>1. Len(s) \in 1..Len(s) /\ f \in Frame
    BY DEF StackOK
  <1>2. /\ FrameOK(f) /\ BuffersOK(f, p) /\ GivenUsed(f, h) /\ GivenOnlyThere(f, h, g)
    BY <1>1 DEF StackOK, FrameInv
  <1>3. /\ DOMAIN f.in = 1..Len(f.in) /\ DOMAIN f.out = 1..Len(f.out)
        /\ Len(f.in) \in Nat /\ Len(f.out) \in Nat /\ i \in 1..Outs[f.port]
        /\ f.out \in Seq(Handle) /\ Media(f)
    BY <1>1, KindOfFrame
  <1>4. Len(f.out) = Outs[f.port]
    BY <1>2 DEF FrameOK
  <1>5. i \in DOMAIN f.out /\ i <= f.emitted
    BY <1>3, <1>4
  <1>6. r \in Handle
    BY <1>3, <1>5
  <1>7. r.ptr /\ InState(p, r.block, "EMITTED")
    BY <1>2, <1>5 DEF BuffersOK, OutputOK
  <1>8. r.block \in Own(f)
    BY <1>5, OwnBlocks
  <1>9. h.ptr => r = g
    BY <1>2, <1>3, <1>5, HandedOnCases DEF GivenUsed
  <1>10. g.ptr /\ r.block = g.block => h.ptr
    BY <1>2, <1>5 DEF GivenOnlyThere
  <1>11. \A j \in DOMAIN f.in : f.in[j].block \notin DOMAIN p.table
    <2>1. \A j \in DOMAIN f.in : j <= f.freed
      BY <1>3
    <2> QED
      BY <1>2, <2>1 DEF BuffersOK, InputOK
  <1>12. \A j \in DOMAIN f.out : j # i => f.out[j].block \notin DOMAIN p.table
    <2>1. \A j \in DOMAIN f.out : j <= f.emitted
      BY <1>3
    <2> QED
      BY <1>2, <2>1 DEF BuffersOK, OutputOK
  <1>13. Slots(f) \intersect DOMAIN p.table \subseteq {r.block}
    BY <1>11, <1>12, SlotBlocks
  <1> HIDE DEF r
  <1>14. Returned(s, r, g, p)
    BY <1>6, <1>7, <1>8, <1>9, <1>10 DEF Returned
  <1> QED
    BY <1>13, <1>14 DEF r

LEMMA ParamReturns ==
    ASSUME NEW s, NEW g, NEW p, s # << >>, StackOK(s, g, p),
           Param(s[Len(s)]), s[Len(s)].phase = "fix"
    PROVE  Returned(s, s[Len(s)].outBuff, g, p) /\ Slots(s[Len(s)]) = {}
  <1> DEFINE f == s[Len(s)]
             h == HandedOn(s, Len(s), g)
  <1>1. Len(s) \in 1..Len(s) /\ f \in Frame
    BY DEF StackOK
  <1>2. /\ FrameOK(f) /\ BuffersOK(f, p) /\ GivenUsed(f, h) /\ GivenOnlyThere(f, h, g)
    BY <1>1 DEF StackOK, FrameInv
  <1>3. HasResult(f)
    BY DEF HasResult
  <1>4. f.outBuff \in Handle
    BY <1>1, KindOfFrame
  <1>5. f.outBuff.ptr /\ InState(p, f.outBuff.block, "EMITTED") /\ f.outBuff.block \in Own(f)
    BY <1>2, <1>3, OwnBlocks DEF BuffersOK
  <1>6. h.ptr => f.outBuff = g
    BY <1>2, <1>3, HandedOnCases DEF GivenUsed
  <1>7. g.ptr /\ f.outBuff.block = g.block => h.ptr
    BY <1>2, <1>3 DEF GivenOnlyThere
  <1>8. Slots(f) = {}
    <2>1. f.in = << >> /\ f.out = << >>
      BY <1>2 DEF FrameOK
    <2>2. DOMAIN f.in = {} /\ DOMAIN f.out = {}
      BY <2>1
    <2> QED
      BY <2>2, SlotBlocks
  <1> QED
    BY <1>4, <1>5, <1>6, <1>7, <1>8 DEF Returned

(* The frame of the caller.                                                *)
Got(f, r) ==
  IF Kind[f.port] = "media" THEN [f EXCEPT !.in = Append(@, r)]
  ELSE [f EXCEPT !.outBuff = r, !.phase = "fix"]

PopTo(s, r) == Append(SubSeq(s, 1, Len(s) - 2), Got(s[Len(s) - 1], r))

LEMMA GotMedia ==
    ASSUME NEW f \in Frame, NEW r \in Handle, Media(f)
    PROVE  LET u == Got(f, r)
           IN  /\ u \in Frame /\ u.port = f.port /\ u.phase = f.phase /\ u.out = f.out
               /\ u.outBuff = f.outBuff /\ u.freed = f.freed /\ u.emitted = f.emitted
               /\ u.in \in Seq(Handle) /\ Len(u.in) = Len(f.in) + 1
               /\ u.in[Len(f.in) + 1] = r /\ \A i \in DOMAIN f.in : u.in[i] = f.in[i]
               /\ DOMAIN u.in = DOMAIN f.in \union {Len(f.in) + 1}
               /\ Len(f.in) + 1 \notin DOMAIN f.in
               /\ Media(u) /\ ~ HasResult(u) /\ ~ HasResult(f)
  <1> DEFINE a == Append(f.in, r)
             u == [f EXCEPT !.in = a]
  <1>1. f.in \in Seq(Handle) /\ ~ Param(f)
    BY KindOfFrame
  <1>2. /\ a \in Seq(Handle) /\ Len(a) = Len(f.in) + 1 /\ a[Len(f.in) + 1] = r
        /\ \A i \in 1..Len(f.in) : a[i] = f.in[i]
        /\ Len(f.in) \in Nat /\ DOMAIN f.in = 1..Len(f.in) /\ DOMAIN a = 1..Len(f.in) + 1
    BY <1>1
  <1>3. Got(f, r) = u
    BY DEF Got, Media
  <1> HIDE DEF a
  <1>4. /\ u \in Frame /\ u.port = f.port /\ u.phase = f.phase /\ u.out = f.out
        /\ u.outBuff = f.outBuff /\ u.freed = f.freed /\ u.emitted = f.emitted
        /\ u.in = a
    BY <1>2 DEF Frame
  <1> HIDE DEF u
  <1>5. DOMAIN a = DOMAIN f.in \union {Len(f.in) + 1} /\ Len(f.in) + 1 \notin DOMAIN f.in
    BY <1>2
  <1>6. Media(u) /\ ~ HasResult(u) /\ ~ HasResult(f)
    BY <1>1, <1>4 DEF Media, Param, HasResult
  <1> QED
    BY <1>2, <1>3, <1>4, <1>5, <1>6

LEMMA GotParam ==
    ASSUME NEW f \in Frame, NEW r \in Handle, Param(f)
    PROVE  LET u == Got(f, r)
           IN  /\ u \in Frame /\ u.port = f.port /\ u.phase = "fix" /\ u.out = f.out
               /\ u.outBuff = r /\ u.in = f.in
               /\ Param(u) /\ HasResult(u) /\ ~ Media(u)
  <1> DEFINE u == [f EXCEPT !.outBuff = r, !.phase = "fix"]
  <1>1. Got(f, r) = u
    BY DEF Got, Param
  <1>2. /\ u \in Frame /\ u.port = f.port /\ u.phase = "fix" /\ u.out = f.out
        /\ u.outBuff = r /\ u.in = f.in
    BY DEF Frame
  <1> HIDE DEF u
  <1>3. Param(u) /\ HasResult(u) /\ ~ Media(u)
    BY <1>2 DEF Media, Param, HasResult
  <1> QED
    BY <1>1, <1>2, <1>3

(* The callee's result becomes the caller's input, or its result.          *)
LEMMA GotOwn ==
    ASSUME NEW f \in Frame, NEW r \in Handle
    PROVE  Got(f, r) \in Frame /\ Own(Got(f, r)) \subseteq Own(f) \union {r.block}
  <1> DEFINE u == Got(f, r)
  <1>1. CASE Media(f)
    <2>1. /\ u \in Frame /\ u.out = f.out /\ u.in[Len(f.in) + 1] = r
          /\ \A i \in DOMAIN f.in : u.in[i] = f.in[i]
          /\ DOMAIN u.in = DOMAIN f.in \union {Len(f.in) + 1} /\ ~ HasResult(u)
      BY <1>1, GotMedia
    <2> HIDE DEF u
    <2>2. \A b \in Own(u) : b \in Own(f) \union {r.block}
      BY <2>1, OwnBlocks
    <2> QED
      BY <2>1, <2>2 DEF u
  <1>2. CASE Param(f)
    <2>1. u \in Frame /\ u.out = f.out /\ u.outBuff = r /\ u.in = f.in
      BY <1>2, GotParam
    <2> HIDE DEF u
    <2>2. \A b \in Own(u) : b \in Own(f) \union {r.block}
      BY <2>1, OwnBlocks
    <2> QED
      BY <2>1, <2>2 DEF u
  <1> QED
    BY <1>1, <1>2, KindOfFrame

LEMMA Prefix ==
    ASSUME NEW S, NEW s \in Seq(S), NEW n \in Nat, n <= Len(s)
    PROVE  /\ SubSeq(s, 1, n) \in Seq(S) /\ Len(SubSeq(s, 1, n)) = n
           /\ \A k \in 1..n : SubSeq(s, 1, n)[k] = s[k]
  <1>1. Len(s) \in Nat /\ \A i \in 1..n : s[i] \in S
    OBVIOUS
  <1>2. /\ SubSeq(s, 1, n) \in Seq(S)
        /\ Len(SubSeq(s, 1, n)) = IF 1 <= n THEN n - 1 + 1 ELSE 0
        /\ \A i \in 1..n - 1 + 1 : SubSeq(s, 1, n)[i] = s[1 + i - 1]
    BY <1>1, SubSeqProperties
  <1> DEFINE a == SubSeq(s, 1, n)
  <1> HIDE DEF a
  <1>3. /\ a \in Seq(S) /\ Len(a) = IF 1 <= n THEN n - 1 + 1 ELSE 0
        /\ \A i \in 1..n - 1 + 1 : a[i] = s[1 + i - 1]
    BY <1>2 DEF a
  <1>4. a \in Seq(S) /\ Len(a) = n /\ \A k \in 1..n : a[k] = s[k]
    <2>1. ASSUME NEW k \in 1..n
          PROVE  a[k] = s[k]
      <3>1. k \in 1..n - 1 + 1 /\ 1 + k - 1 = k
        OBVIOUS
      <3> QED
        BY <3>1, <1>3
    <2> QED
      BY <1>3, <2>1
  <1> QED
    BY <1>4 DEF a

LEMMA PoppedTo ==
    ASSUME NEW s \in Seq(Frame), Len(s) > 1, NEW u \in Frame
    PROVE  LET t == Append(SubSeq(s, 1, Len(s) - 2), u)
           IN  /\ t \in Seq(Frame) /\ Len(t) = Len(s) - 1 /\ t[Len(s) - 1] = u
               /\ \A k \in 1..Len(s) - 2 : t[k] = s[k]
               /\ Len(s) \in Nat
  <1>1. Len(s) \in Nat /\ Len(s) - 2 \in Nat /\ Len(s) - 2 <= Len(s)
    OBVIOUS
  <1> DEFINE a == SubSeq(s, 1, Len(s) - 2)
  <1>2. a \in Seq(Frame) /\ Len(a) = Len(s) - 2 /\ \A k \in 1..Len(s) - 2 : a[k] = s[k]
    BY <1>1, Prefix
  <1> HIDE DEF a
  <1>3. /\ Append(a, u) \in Seq(Frame) /\ Len(Append(a, u)) = Len(a) + 1
        /\ Append(a, u)[Len(a) + 1] = u
        /\ \A k \in 1..Len(a) : Append(a, u)[k] = a[k]
    BY <1>2
  <1>4. Len(a) + 1 = Len(s) - 1
    BY <1>1, <1>2
  <1> QED
    BY <1>1, <1>2, <1>3, <1>4 DEF a

LEMMA Popped ==
    ASSUME NEW s, NEW g, NEW p, NEW r, Len(s) > 1, RawProvider(p),
           StackOK(s, g, p), Returned(s, r, g, p)
    PROVE  StackOK(PopTo(s, r), g, p)
  <1> DEFINE n == Len(s)
             m == n - 1
             f == s[m]
             u == Got(f, r)
             t == PopTo(s, r)
  <1>1. s \in Seq(Frame) /\ n \in Nat /\ m \in Nat \ {0} /\ m \in 1..n /\ n \in 1..n /\ m < n
    BY DEF StackOK
  <1>2. f \in Frame /\ FrameInv(s, m, g, p)
    BY <1>1 DEF StackOK
  <1>3. r \in Handle
    BY DEF Returned
  <1>4. u \in Frame /\ Own(u) \subseteq Own(f) \union {r.block}
    BY <1>2, <1>3, GotOwn
  <1>5. t \in Seq(Frame) /\ Len(t) = m /\ t[m] = u /\ \A k \in 1..m - 1 : t[k] = s[k]
    <2> HIDE DEF u
    <2>1. t = Append(SubSeq(s, 1, n - 2), u)
      BY DEF PopTo, u
    <2>2. m - 1 = n - 2
      BY <1>1
    <2>3. /\ t \in Seq(Frame) /\ Len(t) = n - 1 /\ t[n - 1] = u
          /\ \A k \in 1..n - 2 : t[k] = s[k]
      BY <1>1, <1>4, <2>1, PoppedTo
    <2> HIDE DEF t
    <2> QED
      BY <2>2, <2>3
  <1>6. r.block \notin Own(f)
    <2>1. Own(f) \intersect Own(s[n]) = {}
      <3>1. \A j, k \in 1..n : j # k => Own(s[j]) \intersect Own(s[k]) = {}
        BY DEF StackOK
      <3> HIDE DEF m, n
      <3>2. m # n /\ m \in 1..n /\ n \in 1..n
        BY <1>1
      <3> QED
        BY <3>1, <3>2, Zenon
    <2> QED
      BY <2>1 DEF Returned
  <1> HIDE DEF t, u, f, m
  <1>7. \A k \in 1..m : ParamsBelow(t, k) <=> ParamsBelow(s, k)
    <2>1. \A k \in 1..m : \A j \in 1..k - 1 : t[j] = s[j]
      BY <1>1, <1>5
    <2> QED
      BY <2>1 DEF ParamsBelow
  <1>8. \A k \in 1..m : HandedOn(t, k, g) = HandedOn(s, k, g)
    BY <1>7 DEF HandedOn
  <1>9. ParamsBelow(s, n) <=> ParamsBelow(s, m) /\ Param(f)
    <2>1. \A j \in 1..n - 1 : j = m \/ j \in 1..m - 1
      BY <1>1 DEF m
    <2>2. m \in 1..n - 1 /\ \A j \in 1..m - 1 : j \in 1..n - 1
      BY <1>1 DEF m
    <2> QED
      BY <2>1, <2>2 DEF ParamsBelow, f
  <1>10. f.phase = IF Param(f) THEN "weft" ELSE "pull"
    BY <1>1, <1>2 DEF FrameInv, f
  <1> DEFINE h == HandedOn(s, m, g)
  <1>11. FrameOK(f) /\ BuffersOK(f, p) /\ GivenUsed(f, h) /\ GivenOnlyThere(f, h, g)
    BY <1>2 DEF FrameInv, f
  <1> HIDE DEF h
  <1>12. /\ FrameOK(u) /\ BuffersOK(u, p) /\ GivenUsed(u, h) /\ GivenOnlyThere(u, h, g)
         /\ GivenLocked(u, h, p)
    <2>1. CASE Media(f)
      <3>1. /\ u.port = f.port /\ u.phase = f.phase /\ u.out = f.out
            /\ u.outBuff = f.outBuff /\ u.freed = f.freed /\ u.emitted = f.emitted
            /\ u.in \in Seq(Handle) /\ Len(u.in) = Len(f.in) + 1
            /\ u.in[Len(f.in) + 1] = r /\ \A i \in DOMAIN f.in : u.in[i] = f.in[i]
            /\ DOMAIN u.in = DOMAIN f.in \union {Len(f.in) + 1}
            /\ Len(f.in) + 1 \notin DOMAIN f.in
            /\ Media(u) /\ ~ HasResult(u) /\ ~ HasResult(f)
        BY <1>2, <1>3, <2>1, GotMedia DEF u
      <3>2. ~ Param(u) /\ ~ Param(f) /\ Len(f.in) \in Nat /\ f.phase = "pull" /\ f.freed = 0
        BY <1>2, <1>4, <1>10, <1>11, <2>1, <3>1, KindOfFrame DEF FrameOK
      <3>3. FrameOK(u)
        BY <1>4, <1>11, <2>1, <3>1, <3>2 DEF FrameOK
      <3>4. ASSUME NEW i \in DOMAIN u.in
            PROVE  InputOK(u, i, p)
        <4>1. CASE i \in DOMAIN f.in
          <5>1. InputOK(f, i, p)
            BY <4>1, <1>11 DEF BuffersOK
          <5> QED
            BY <4>1, <5>1, <3>1 DEF InputOK
        <4>2. CASE i = Len(f.in) + 1
          <5>1. u.in[i] = r /\ ~ (i <= u.freed)
            BY <4>2, <3>1, <3>2
          <5>2. r.ptr /\ InState(p, r.block, "EMITTED")
            BY DEF Returned
          <5>3. r.block \in Created(p)
            BY <5>2, CreatedBlocks DEF InState
          <5> QED
            BY <5>1, <5>2, <5>3 DEF InputOK
        <4> QED
          BY <4>1, <4>2, <3>1
      <3>5. ASSUME NEW i \in DOMAIN u.out
            PROVE  OutputOK(u, i, p)
        BY <3>1, <1>11 DEF BuffersOK, OutputOK
      <3>6. \A i \in DOMAIN f.in : f.in[i].block # r.block
        BY <1>6, OwnBlocks
      <3>7. \A i \in DOMAIN f.out : f.out[i].block # r.block
        BY <1>6, OwnBlocks
      <3>8. SlotsDistinct(u)
        BY <3>1, <3>6, <3>7, <1>11 DEF SlotsDistinct, BuffersOK
      <3>9. BuffersOK(u, p)
        BY <3>1, <3>4, <3>5, <3>8 DEF BuffersOK
      <3>10. GivenUsed(u, h)
        BY <3>1, <2>1, <1>11 DEF GivenUsed
      <3>11. g.ptr => r.block # g.block
        <4>1. ~ HandedOn(s, n, g).ptr
          BY <3>2, <1>9, HandedOnCases
        <4> QED
          BY <4>1 DEF Returned, n
      <3>12. GivenOnlyThere(u, h, g)
        BY <3>1, <3>11, <1>11 DEF GivenOnlyThere
      <3>13. GivenLocked(u, h, p)
        <4>1. GivenLocked(f, h, p)
          BY <1>2, <2>1 DEF FrameInv, f, h
        <4> QED
          BY <4>1, <3>1 DEF GivenLocked
      <3> QED
        BY <3>3, <3>9, <3>10, <3>12, <3>13
    <2>2. CASE Param(f)
      <3>1. /\ u.port = f.port /\ u.phase = "fix" /\ u.out = f.out
            /\ u.outBuff = r /\ u.in = f.in /\ Param(u) /\ HasResult(u) /\ ~ Media(u)
        BY <1>2, <1>3, <2>2, GotParam DEF u
      <3>2. f.in = << >> /\ f.out = << >>
        BY <1>11, <2>2 DEF FrameOK
      <3>3. DOMAIN u.in = {} /\ DOMAIN u.out = {}
        BY <3>1, <3>2
      <3>4. FrameOK(u)
        BY <1>4, <3>1, <3>2 DEF FrameOK
      <3>5. BuffersOK(u, p)
        BY <3>1, <3>3 DEF BuffersOK, SlotsDistinct, Returned
      <3>6. h.ptr => HandedOn(s, n, g) = g /\ h = g
        BY <2>2, <1>9, HandedOnCases DEF h
      <3>7. GivenUsed(u, h)
        BY <3>1, <3>6 DEF GivenUsed, Returned, n
      <3>8. g.ptr /\ r.block = g.block => h.ptr
        <4>1. HandedOn(s, n, g).ptr => h = g /\ HandedOn(s, n, g) = g
          BY <1>9, HandedOnCases DEF h
        <4> QED
          BY <4>1 DEF Returned, n
      <3>9. GivenOnlyThere(u, h, g)
        BY <3>1, <3>3, <3>8 DEF GivenOnlyThere
      <3>10. GivenLocked(u, h, p)
        BY <3>1 DEF GivenLocked
      <3> QED
        BY <3>4, <3>5, <3>7, <3>9, <3>10
    <2> QED
      BY <2>1, <2>2, <1>2, KindOfFrame DEF f
  <1>13. FrameInv(t, m, g, p)
    <2>1. t[m] = u /\ HandedOn(t, m, g) = h /\ ~ (m < Len(t)) /\ m \in 1..m
      BY <1>1, <1>5, <1>8 DEF h
    <2> QED
      BY <2>1, <1>12 DEF FrameInv
  <1>14. ASSUME NEW k \in 1..m - 1
         PROVE  FrameInv(t, k, g, p)
    <2>1. k \in 1..m /\ k \in 1..n /\ k < n /\ k < m /\ k # m
      BY <1>1
    <2>2. FrameInv(s, k, g, p)
      BY <2>1 DEF StackOK, n
    <2>3. t[k] = s[k] /\ HandedOn(t, k, g) = HandedOn(s, k, g)
      BY <2>1, <1>5, <1>8
    <2>4. s[k].phase = IF Param(s[k]) THEN "weft" ELSE "pull"
      BY <2>1, <2>2 DEF FrameInv, n
    <2> QED
      BY <2>1, <2>2, <2>3, <2>4, <1>5 DEF FrameInv
  <1>15. \A k \in 1..m : FrameInv(t, k, g, p)
    <2>1. \A k \in 1..m : k = m \/ k \in 1..m - 1
      BY <1>1
    <2> QED
      BY <2>1, <1>13, <1>14
  <1>16. ASSUME NEW k \in 1..m - 1
         PROVE  Own(s[k]) \intersect Own(u) = {}
    <2>1. k \in 1..n /\ k # m /\ k # n
      BY <1>1
    <2>2. Own(s[k]) \intersect Own(f) = {} /\ Own(s[k]) \intersect Own(s[n]) = {}
      BY <2>1, <1>1 DEF StackOK, f, n
    <2> QED
      BY <2>2, <1>4 DEF Returned, n
  <1>17. ASSUME NEW j \in 1..m, NEW k \in 1..m, j # k
         PROVE  Own(t[j]) \intersect Own(t[k]) = {}
    <2>1. CASE j = m
      <3>1. k \in 1..m - 1
        BY <2>1, <1>1, <1>17
      <3> QED
        BY <2>1, <3>1, <1>5, <1>16
    <2>2. CASE k = m
      <3>1. j \in 1..m - 1
        BY <2>2, <1>1, <1>17
      <3> QED
        BY <2>2, <3>1, <1>5, <1>16
    <2>3. CASE j # m /\ k # m
      <3>1. j \in 1..m - 1 /\ k \in 1..m - 1 /\ j \in 1..n /\ k \in 1..n
        BY <2>3, <1>1
      <3> QED
        BY <3>1, <1>5, <1>17 DEF StackOK, n
    <2> QED
      BY <2>1, <2>2, <2>3
  <1>18. StackOK(t, g, p)
    BY <1>5, <1>15, <1>17 DEF StackOK
  <1> QED
    BY <1>18 DEF t

-----------------------------------------------------------------------------
(* The blocks a stack refers to, when it changes.                          *)

LEMMA StackHoldsFacts ==
    ASSUME NEW s
    PROVE  /\ \A k \in 1..Len(s) : FrameHolds(s[k]) \subseteq StackHolds(s)
           /\ \A b \in StackHolds(s) : \E k \in 1..Len(s) : b \in FrameHolds(s[k])
  BY DEF StackHolds

LEMMA HoldsReplaced ==
    ASSUME NEW s \in Seq(Frame), s # << >>, NEW f \in Frame
    PROVE  /\ StackHolds(ReplaceTop(s, f)) \subseteq StackHolds(s) \union FrameHolds(f)
           /\ StackHolds(s) \subseteq StackHolds(ReplaceTop(s, f)) \union FrameHolds(s[Len(s)])
           /\ FrameHolds(f) \subseteq StackHolds(ReplaceTop(s, f))
           /\ FrameHolds(s[Len(s)]) \subseteq StackHolds(s)
  <1> DEFINE t == ReplaceTop(s, f)
             n == Len(s)
  <1>1. /\ Len(t) = n /\ t[n] = f /\ \A k \in 1..n - 1 : t[k] = s[k]
        /\ n \in Nat \ {0} /\ n \in 1..n
    BY Replaced
  <1> HIDE DEF t, n
  <1>2. \A k \in 1..n : k = n \/ k \in 1..n - 1
    BY <1>1
  <1>3. /\ \A k \in 1..n : FrameHolds(s[k]) \subseteq StackHolds(s)
        /\ \A b \in StackHolds(s) : \E k \in 1..n : b \in FrameHolds(s[k])
    BY StackHoldsFacts DEF n
  <1>4. /\ \A k \in 1..n : FrameHolds(t[k]) \subseteq StackHolds(t)
        /\ \A b \in StackHolds(t) : \E k \in 1..n : b \in FrameHolds(t[k])
    BY <1>1, StackHoldsFacts
  <1>5. StackHolds(t) \subseteq StackHolds(s) \union FrameHolds(f)
    BY <1>1, <1>2, <1>3, <1>4
  <1>6. StackHolds(s) \subseteq StackHolds(t) \union FrameHolds(s[n])
    BY <1>1, <1>2, <1>3, <1>4
  <1>7. FrameHolds(f) \subseteq StackHolds(t) /\ FrameHolds(s[n]) \subseteq StackHolds(s)
    BY <1>1, <1>3, <1>4
  <1> QED
    BY <1>5, <1>6, <1>7 DEF t, n

LEMMA HoldsPushed ==
    ASSUME NEW s \in Seq(Frame), NEW f \in Frame
    PROVE  StackHolds(Append(s, f)) = StackHolds(s) \union FrameHolds(f)
  <1> DEFINE t == Append(s, f)
             n == Len(s)
  <1>1. Len(t) = n + 1 /\ t[n + 1] = f /\ \A k \in 1..n : t[k] = s[k] /\ n \in Nat
    OBVIOUS
  <1>0. n \in Nat
    OBVIOUS
  <1> HIDE DEF t, n
  <1>2. /\ \A k \in 1..n + 1 : k = n + 1 \/ k \in 1..n
        /\ \A k \in 1..n : k \in 1..n + 1
        /\ n + 1 \in 1..n + 1
    BY <1>0
  <1>3. /\ \A k \in 1..n : FrameHolds(s[k]) \subseteq StackHolds(s)
        /\ \A b \in StackHolds(s) : \E k \in 1..n : b \in FrameHolds(s[k])
    BY StackHoldsFacts DEF n
  <1>4. /\ \A k \in 1..n + 1 : FrameHolds(t[k]) \subseteq StackHolds(t)
        /\ \A b \in StackHolds(t) : \E k \in 1..n + 1 : b \in FrameHolds(t[k])
    BY <1>1, StackHoldsFacts
  <1>5. StackHolds(t) \subseteq StackHolds(s) \union FrameHolds(f)
    BY <1>1, <1>2, <1>3, <1>4
  <1>6. StackHolds(s) \subseteq StackHolds(t)
    BY <1>1, <1>2, <1>3, <1>4
  <1>7. FrameHolds(f) \subseteq StackHolds(t)
    BY <1>1, <1>2, <1>4
  <1> QED
    BY <1>5, <1>6, <1>7 DEF t

LEMMA GotHolds ==
    ASSUME NEW f \in Frame, NEW r \in Handle
    PROVE  /\ FrameHolds(Got(f, r)) \subseteq FrameHolds(f) \union {r.block}
           /\ FrameHolds(f) \subseteq FrameHolds(Got(f, r)) \union
                (IF Param(f) THEN {f.outBuff.block} ELSE {})
           /\ r.block \in FrameHolds(Got(f, r))
  <1> DEFINE u == Got(f, r)
  <1>1. CASE Media(f)
    <2>1. /\ u.out = f.out /\ u.in[Len(f.in) + 1] = r
          /\ \A i \in DOMAIN f.in : u.in[i] = f.in[i] /\ i \in DOMAIN u.in
          /\ Len(f.in) + 1 \in DOMAIN u.in
          /\ \A i \in DOMAIN u.in : i = Len(f.in) + 1 \/ i \in DOMAIN f.in
          /\ u.outBuff = f.outBuff
      BY <1>1, GotMedia
    <2> HIDE DEF u
    <2>2. Slots(u) \subseteq Slots(f) \union {r.block}
      BY <2>1, SlotBlocks
    <2>3. Slots(f) \subseteq Slots(u)
      <3>1. ASSUME NEW b \in Slots(f)
            PROVE  b \in Slots(u)
        <4>1. CASE \E i \in DOMAIN f.in : b = f.in[i].block
          BY <4>1, <2>1, SlotBlocks
        <4>2. CASE \E i \in DOMAIN f.out : b = f.out[i].block
          BY <4>2, <2>1, SlotBlocks
        <4> QED
          BY <4>1, <4>2, SlotBlocks
      <3> QED
        BY <3>1
    <2>4. r.block \in Slots(u)
      BY <2>1, SlotBlocks
    <2>5. /\ FrameHolds(u) \subseteq FrameHolds(f) \union {r.block}
          /\ FrameHolds(f) \subseteq FrameHolds(u) /\ r.block \in FrameHolds(u)
      BY <2>1, <2>2, <2>3, <2>4 DEF FrameHolds
    <2> QED
      BY <2>5 DEF u
  <1>2. CASE Param(f)
    <2>1. u.out = f.out /\ u.outBuff = r /\ u.in = f.in
      BY <1>2, GotParam
    <2> HIDE DEF u
    <2>2. Slots(u) = Slots(f)
      BY <2>1 DEF Slots
    <2>3. /\ FrameHolds(u) \subseteq FrameHolds(f) \union {r.block}
          /\ FrameHolds(f) \subseteq FrameHolds(u) \union {f.outBuff.block}
          /\ r.block \in FrameHolds(u)
      BY <2>1, <2>2 DEF FrameHolds
    <2> QED
      BY <1>2, <2>3 DEF u
  <1> QED
    BY <1>1, <1>2, KindOfFrame

LEMMA HoldsPopped ==
    ASSUME NEW s \in Seq(Frame), Len(s) > 1, NEW r \in Handle
    PROVE  /\ StackHolds(PopTo(s, r)) \subseteq StackHolds(s) \union {r.block}
           /\ StackHolds(s) \subseteq StackHolds(PopTo(s, r)) \union FrameHolds(s[Len(s)])
                \union (IF Param(s[Len(s) - 1]) THEN {s[Len(s) - 1].outBuff.block} ELSE {})
           /\ r.block \in StackHolds(PopTo(s, r))
  <1> DEFINE n == Len(s)
             m == n - 1
             f == s[m]
             u == Got(f, r)
             t == PopTo(s, r)
             D == IF Param(f) THEN {f.outBuff.block} ELSE {}
  <1>1. n \in Nat /\ m \in Nat /\ m \in 1..n /\ n \in 1..n /\ f \in Frame
    OBVIOUS
  <1>2. u \in Frame
    BY <1>1, GotOwn
  <1>3. /\ FrameHolds(u) \subseteq FrameHolds(f) \union {r.block}
        /\ FrameHolds(f) \subseteq FrameHolds(u) \union D /\ r.block \in FrameHolds(u)
    BY <1>1, GotHolds
  <1>4. Len(t) = m /\ t[m] = u /\ \A k \in 1..m - 1 : t[k] = s[k]
    <2> HIDE DEF u
    <2>1. t = Append(SubSeq(s, 1, n - 2), u)
      BY DEF PopTo, u
    <2>2. m - 1 = n - 2
      BY <1>1
    <2>3. Len(t) = n - 1 /\ t[n - 1] = u /\ \A k \in 1..n - 2 : t[k] = s[k]
      BY <1>2, <2>1, PoppedTo
    <2> HIDE DEF t
    <2> QED
      BY <2>2, <2>3
  <1>5. m \in 1..m /\ \A k \in 1..n : k = n \/ k = m \/ k \in 1..m - 1
    BY <1>1
  <1>6. \A k \in 1..m : k = m \/ k \in 1..m - 1
    BY <1>1
  <1>7. \A k \in 1..m - 1 : k \in 1..m /\ k \in 1..n
    BY <1>1
  <1>8. f = s[m]
    OBVIOUS
  <1> HIDE DEF t, u, f, D, m
  <1>9. /\ \A k \in 1..n : FrameHolds(s[k]) \subseteq StackHolds(s)
        /\ \A b \in StackHolds(s) : \E k \in 1..n : b \in FrameHolds(s[k])
    BY StackHoldsFacts
  <1> HIDE DEF n
  <1>10. /\ \A k \in 1..m : FrameHolds(t[k]) \subseteq StackHolds(t)
         /\ \A b \in StackHolds(t) : \E k \in 1..m : b \in FrameHolds(t[k])
    BY <1>4, StackHoldsFacts
  <1>11. FrameHolds(f) \subseteq StackHolds(s) /\ FrameHolds(u) \subseteq StackHolds(t)
    BY <1>1, <1>4, <1>5, <1>8, <1>9, <1>10
  <1>12. StackHolds(t) \subseteq StackHolds(s) \union {r.block}
    BY <1>3, <1>4, <1>6, <1>7, <1>9, <1>10, <1>11
  <1>13. StackHolds(s) \subseteq StackHolds(t) \union FrameHolds(s[n]) \union D
    BY <1>3, <1>4, <1>5, <1>7, <1>8, <1>9, <1>10, <1>11
  <1>14. r.block \in StackHolds(t)
    BY <1>3, <1>11
  <1> QED
    BY <1>12, <1>13, <1>14 DEF t, D, f, m, n

-----------------------------------------------------------------------------
(* A step of worker w, which may change the metadata of the blocks in X.   *)

LEMMA HeldIs == \A w \in Workers : Held(w) = HeldBy(stack[w], given[w], result[w])
  BY DEF Held, HeldBy, StackHolds, FrameHolds, Depth

LEMMA HeldIsNext ==
    \A w \in Workers : Held(w)' = HeldBy(stack'[w], given'[w], result'[w])
  BY DEF Held, HeldBy, StackHolds, FrameHolds, Depth, Slots

OnlyWorker(w) ==
  /\ DOMAIN stack' = Workers /\ DOMAIN given' = Workers
  /\ DOMAIN result' = Workers /\ DOMAIN outcome' = Workers
  /\ \A v \in Workers \ {w} : /\ stack'[v] = stack[v] /\ given'[v] = given[v]
                              /\ result'[v] = result[v] /\ outcome'[v] = outcome[v]

WorkerStep(w, X) ==
  /\ OnlyWorker(w)
  /\ RawProvider(bp') /\ Touches(bp, bp', X)
  /\ X \subseteq (Held(w) \union (Blocks \ Created(bp))) \ {0}
  /\ WorkerOK(stack'[w], given'[w], result'[w], outcome'[w], bp')
  /\ HeldBy(stack'[w], given'[w], result'[w])
       \subseteq Held(w) \union {0} \union (Created(bp') \ Created(bp))
  /\ DOMAIN bp'.table
       \subseteq DOMAIN bp.table \union HeldBy(stack'[w], given'[w], result'[w])
  /\ DOMAIN bp'.table \intersect Held(w)
       \subseteq HeldBy(stack'[w], given'[w], result'[w]) \union lost'
  /\ lost \subseteq lost'

(* The blocks a worker refers to were created.                             *)
LEMMA HeldCreated ==
    ASSUME NEW s, NEW g, NEW r, NEW o, NEW p, RawProvider(p), WorkerOK(s, g, r, o, p)
    PROVE  HeldBy(s, g, r) \subseteq Created(p) \union {0}
  <1>1. g.block \in Created(p) \union {0} /\ r.block \in Created(p) \union {0}
    BY HandedOnCases DEF WorkerOK, HandleOK
  <1>2. ASSUME NEW k \in 1..Len(s)
        PROVE  FrameHolds(s[k]) \subseteq Created(p) \union {0}
    <2>1. FrameInv(s, k, g, p)
      BY DEF WorkerOK, StackOK
    <2>2. Own(s[k]) \subseteq Created(p)
      BY <2>1, OwnCreated DEF FrameInv
    <2>3. s[k].outBuff.block \in Created(p) \union {0}
      <3>1. CASE HasResult(s[k])
        BY <3>1, <2>2, OwnBlocks
      <3>2. CASE ~ HasResult(s[k])
        BY <3>2, <2>1, <1>1, HandedOnCases DEF FrameInv, GivenUsed
      <3> QED
        BY <3>1, <3>2
    <2> QED
      BY <2>2, <2>3, OwnBlocks DEF FrameHolds
  <1> QED
    BY <1>1, <1>2, HeldFacts

LEMMA StepComposed ==
    ASSUME WeavingInv, NEW w \in Workers, NEW X, WorkerStep(w, X)
    PROVE  WeavingInv'
  <1>1. /\ RawProvider(bp) /\ RawProvider(bp') /\ Touches(bp, bp', X) /\ OnlyWorker(w)
    BY DEF WeavingInv, WorkerStep
  <1>2. ASSUME NEW v \in Workers \ {w}
        PROVE  /\ Held(v) = HeldBy(stack[v], given[v], result[v])
               /\ Held(v) \subseteq Created(bp) \union {0}
               /\ Held(v) \intersect Held(w) \subseteq {0}
               /\ Held(v)' = Held(v)
               /\ Held(v) \intersect X = {}
               /\ WorkerOK(stack'[v], given'[v], result'[v], outcome'[v], bp')
    <2>1. Held(v) = HeldBy(stack[v], given[v], result[v])
      BY HeldIs
    <2>2. WorkerOK(stack[v], given[v], result[v], outcome[v], bp)
      BY DEF WeavingInv
    <2>3. Held(v) \subseteq Created(bp) \union {0}
      BY <1>1, <2>1, <2>2, HeldCreated
    <2>4. Held(v) \intersect Held(w) \subseteq {0}
      BY DEF WeavingInv, Apart
    <2>5. /\ stack'[v] = stack[v] /\ given'[v] = given[v]
          /\ result'[v] = result[v] /\ outcome'[v] = outcome[v]
      BY <1>1 DEF OnlyWorker
    <2>6. Held(v)' = Held(v)
      BY <2>1, <2>5, HeldIsNext
    <2>7. Held(v) \intersect X = {}
      <3>1. X \subseteq (Held(w) \union (Blocks \ Created(bp))) \ {0}
        BY DEF WorkerStep
      <3> QED
        BY <2>3, <2>4, <3>1
    <2>8. WorkerOK(stack[v], given[v], result[v], outcome[v], bp')
      <3>1. HeldBy(stack[v], given[v], result[v]) \intersect X = {}
        BY <2>1, <2>7
      <3> QED
        BY <1>1, <2>2, <3>1, WorkerKept
    <2> QED
      BY <2>1, <2>3, <2>4, <2>5, <2>6, <2>7, <2>8
  <1>3. Held(w)' = HeldBy(stack'[w], given'[w], result'[w])
    BY HeldIsNext
  <1>4. /\ Held(w)' \subseteq Held(w) \union {0} \union (Created(bp') \ Created(bp))
        /\ DOMAIN bp'.table \subseteq DOMAIN bp.table \union Held(w)'
        /\ DOMAIN bp'.table \intersect Held(w) \subseteq Held(w)' \union lost'
        /\ lost \subseteq lost'
    BY <1>3 DEF WorkerStep
  <1>5. \A v \in Workers : WorkerOK(stack[v], given[v], result[v], outcome[v], bp)'
    <2>1. WorkerOK(stack'[w], given'[w], result'[w], outcome'[w], bp')
      BY DEF WorkerStep
    <2>2. \A v \in Workers : WorkerOK(stack'[v], given'[v], result'[v], outcome'[v], bp')
      BY <1>2, <2>1
    <2> QED
      BY <2>2
  <1>6. \A v \in Workers \ {w} : Held(v)' \intersect Held(w)' \subseteq {0}
    BY <1>2, <1>4
  <1>7. Apart'
    <2>1. ASSUME NEW u \in Workers, NEW v \in Workers, u # v
          PROVE  (Held(u) \intersect Held(v) \subseteq {0})'
      <3>1. CASE u = w
        <4>1. v \in Workers \ {w}
          BY <2>1, <3>1
        <4> QED
          BY <3>1, <4>1, <1>6
      <3>2. CASE v = w
        <4>1. u \in Workers \ {w}
          BY <2>1, <3>2
        <4> QED
          BY <3>2, <4>1, <1>6
      <3>3. CASE u # w /\ v # w
        <4>1. Held(u)' = Held(u) /\ Held(v)' = Held(v)
          BY <3>3, <1>2
        <4>2. Held(u) \intersect Held(v) \subseteq {0}
          BY <2>1 DEF WeavingInv, Apart
        <4> QED
          BY <4>1, <4>2
      <3> QED
        BY <3>1, <3>2, <3>3
    <2> QED
      BY <2>1 DEF Apart
  <1>8. NothingLeaked'
    <2> SUFFICES ASSUME NEW b \in DOMAIN bp'.table
                 PROVE  b \in lost' \/ \E v \in Workers : b \in Held(v)'
      BY DEF NothingLeaked
    <2>1. CASE b \in Held(w)'
      BY <2>1
    <2>2. CASE b \notin Held(w)'
      <3>1. b \in DOMAIN bp.table
        BY <2>2, <1>4
      <3>2. b \in lost \/ \E v \in Workers : b \in Held(v)
        BY <3>1 DEF WeavingInv, NothingLeaked
      <3>3. CASE b \in lost
        BY <3>3, <1>4
      <3>4. CASE b \in Held(w)
        BY <3>4, <2>2, <1>4
      <3>5. ASSUME NEW v \in Workers \ {w}, b \in Held(v)
            PROVE  b \in Held(v)'
        BY <3>5, <1>2
      <3> QED
        BY <3>2, <3>3, <3>4, <3>5
    <2> QED
      BY <2>1, <2>2
  <1>9. (RawProvider(bp))' /\ (DOMAIN stack = Workers /\ DOMAIN given = Workers
           /\ DOMAIN result = Workers /\ DOMAIN outcome = Workers)'
    BY <1>1 DEF OnlyWorker
  <1> QED
    BY <1>5, <1>7, <1>8, <1>9 DEF WeavingInv

-----------------------------------------------------------------------------
(* The innermost frame goes on.                                            *)

LEMMA ActiveFacts ==
    ASSUME WeavingInv, NEW w \in Workers, Active(w)
    PROVE  /\ stack[w] # << >> /\ stack[w] \in Seq(Frame)
           /\ Depth(w) = Len(stack[w]) /\ Top(w) = stack[w][Len(stack[w])]
           /\ Len(stack[w]) \in Nat \ {0} /\ Len(stack[w]) \in 1..Len(stack[w])
           /\ RawProvider(bp) /\ StackOK(stack[w], given[w], bp)
           /\ FrameInv(stack[w], Len(stack[w]), given[w], bp)
           /\ Top(w) \in Frame /\ HandleOK(given[w], bp)
           /\ FrameHolds(Top(w)) \subseteq Held(w) /\ given[w].block \in Held(w)
           /\ result[w] = NullHandle
           /\ Held(w) = HeldBy(stack[w], given[w], result[w])
  <1>1. RawProvider(bp) /\ WorkerOK(stack[w], given[w], result[w], outcome[w], bp)
    BY DEF WeavingInv
  <1>2. outcome[w] = "running"
    BY DEF Active
  <1>3. stack[w] # << >> /\ StackOK(stack[w], given[w], bp) /\ HandleOK(given[w], bp)
    BY <1>1, <1>2 DEF WorkerOK
  <1>4. stack[w] \in Seq(Frame)
    BY <1>3 DEF StackOK
  <1>5. Len(stack[w]) \in Nat \ {0} /\ Len(stack[w]) \in 1..Len(stack[w])
    BY <1>3, <1>4
  <1>6. FrameInv(stack[w], Len(stack[w]), given[w], bp)
    BY <1>3, <1>5 DEF StackOK
  <1>7. Depth(w) = Len(stack[w]) /\ Top(w) = stack[w][Len(stack[w])]
    BY DEF Depth, Top
  <1>8. Top(w) \in Frame
    BY <1>4, <1>5, <1>7
  <1>9. Held(w) = HeldBy(stack[w], given[w], result[w])
    BY HeldIs
  <1>10. FrameHolds(Top(w)) \subseteq Held(w) /\ given[w].block \in Held(w)
    BY <1>5, <1>7, <1>9, HeldFacts
  <1>11. result[w] = NullHandle
    BY <1>1, <1>2 DEF WorkerOK, ResultOK
  <1> QED
    BY <1>1, <1>3, <1>4, <1>5, <1>6, <1>7, <1>8, <1>9, <1>10, <1>11

LEMMA SetTopStack ==
    ASSUME NEW w \in Workers, DOMAIN stack = Workers, NEW f, SetTop(w, f)
    PROVE  /\ stack' = [stack EXCEPT ![w] = ReplaceTop(stack[w], f)]
           /\ DOMAIN stack' = Workers /\ stack'[w] = ReplaceTop(stack[w], f)
           /\ \A v \in Workers \ {w} : stack'[v] = stack[v]
  <1>1. stack' = [stack EXCEPT ![w] = ReplaceTop(stack[w], f)]
    BY DEF SetTop, ReplaceTop, Depth
  <1> DEFINE t == ReplaceTop(stack[w], f)
  <1> HIDE DEF t
  <1>2. stack' = [stack EXCEPT ![w] = t]
    BY <1>1 DEF t
  <1>3. DOMAIN stack' = Workers /\ stack'[w] = t /\ \A v \in Workers \ {w} : stack'[v] = stack[v]
    BY <1>2
  <1> QED
    BY <1>1, <1>3 DEF t

LEMMA TopStep ==
    ASSUME WeavingInv, NEW w \in Workers, Active(w), NEW f, NEW X,
           SetTop(w, f), UNCHANGED <<given, result, outcome, lost>>,
           RawProvider(bp'), Touches(bp, bp', X),
           X \subseteq (Held(w) \union (Blocks \ Created(bp))) \ {0},
           FrameOK(f), StackOK(ReplaceTop(stack[w], f), given[w], bp'),
           FrameHolds(Top(w)) \subseteq FrameHolds(f),
           FrameHolds(f) \subseteq FrameHolds(Top(w)) \union {given[w].block}
                                     \union (Created(bp') \ Created(bp)),
           DOMAIN bp'.table \subseteq DOMAIN bp.table \union FrameHolds(f)
    PROVE  WorkerStep(w, X)
  <1> DEFINE s == stack[w]
             t == ReplaceTop(s, f)
             g == given[w]
             r == result[w]
  <1>1. /\ s # << >> /\ s \in Seq(Frame) /\ Top(w) = s[Len(s)] /\ r = NullHandle
        /\ Held(w) = HeldBy(s, g, r) /\ HandleOK(g, bp)
    BY ActiveFacts
  <1>2. /\ DOMAIN stack = Workers /\ DOMAIN given = Workers
        /\ DOMAIN result = Workers /\ DOMAIN outcome = Workers
        /\ WorkerOK(s, g, r, outcome[w], bp)
    BY DEF WeavingInv
  <1>3. /\ DOMAIN stack' = Workers /\ stack'[w] = t
        /\ \A v \in Workers \ {w} : stack'[v] = stack[v]
    BY <1>2, SetTopStack
  <1>4. OnlyWorker(w)
    BY <1>2, <1>3 DEF OnlyWorker
  <1>5. f \in Frame
    BY DEF FrameOK
  <1>6. /\ StackHolds(t) \subseteq StackHolds(s) \union FrameHolds(f)
        /\ StackHolds(s) \subseteq StackHolds(t) \union FrameHolds(Top(w))
        /\ FrameHolds(f) \subseteq StackHolds(t)
        /\ FrameHolds(Top(w)) \subseteq StackHolds(s)
    BY <1>1, <1>5, HoldsReplaced
  <1>7. HeldBy(s, g, r) = StackHolds(s) \union {r.block, g.block}
        /\ HeldBy(t, g, r) = StackHolds(t) \union {r.block, g.block}
    BY DEF HeldBy
  <1>8. t # << >>
    <2>1. Len(t) = Len(s) /\ Len(s) \in Nat \ {0}
      BY <1>1, <1>5, Replaced
    <2> HIDE DEF t
    <2> QED
      BY <2>1
  <1>9. WorkerOK(t, g, r, outcome[w], bp')
    <2>1. HandleOK(g, bp')
      BY <1>1 DEF HandleOK, Touches
    <2>2. HandleOK(r, bp')
      BY <1>1, HandedOnCases DEF HandleOK
    <2>3. outcome[w] = "running"
      BY DEF Active
    <2>4. ResultOK(r, g, outcome[w], bp')
      BY <2>3, <1>1 DEF ResultOK
    <2> QED
      BY <2>1, <2>2, <2>3, <2>4, <1>8 DEF WorkerOK
  <1> HIDE DEF t
  <1>10. HeldBy(t, g, r) \subseteq Held(w) \union {0} \union (Created(bp') \ Created(bp))
    BY <1>1, <1>6, <1>7
  <1>11. DOMAIN bp'.table \subseteq DOMAIN bp.table \union HeldBy(t, g, r)
    BY <1>6, <1>7
  <1>12. Held(w) \subseteq HeldBy(t, g, r)
    BY <1>1, <1>6, <1>7
  <1> QED
    BY <1>3, <1>4, <1>9, <1>10, <1>11, <1>12 DEF WorkerStep

LEMMA TouchesNone == \A p : Touches(p, p, {})
  BY DEF Touches

(* The slots stay as they are, only their buffers change.                  *)
LEMMA FixOK ==
    ASSUME NEW s, NEW g, NEW p, NEW q, NEW X, NEW u, s # << >>,
           RawProvider(p), Touches(p, q, X), StackOK(s, g, p), Media(s[Len(s)]),
           FrameOK(u), u.port = s[Len(s)].port, u.in = s[Len(s)].in,
           u.out = s[Len(s)].out, u.outBuff = s[Len(s)].outBuff,
           \A i \in DOMAIN u.in : InputOK(u, i, q),
           \A i \in DOMAIN u.out : OutputOK(u, i, q),
           X \subseteq Own(s[Len(s)]), GivenLocked(u, HandedOn(s, Len(s), g), q)
    PROVE  StackOK(ReplaceTop(s, u), g, q) /\ FrameHolds(u) = FrameHolds(s[Len(s)])
  <1> DEFINE n == Len(s)
             f == s[n]
             h == HandedOn(s, n, g)
  <1>1. s \in Seq(Frame) /\ n \in 1..n /\ f \in Frame /\ n \in Nat
    BY DEF StackOK
  <1>2. /\ FrameOK(f) /\ BuffersOK(f, p) /\ GivenUsed(f, h) /\ GivenOnlyThere(f, h, g)
    BY <1>1 DEF StackOK, FrameInv
  <1>3. Media(u) /\ ~ HasResult(u) /\ ~ HasResult(f)
    <2>1. Media(u) /\ ~ Param(f) /\ ~ Param(u)
      BY <1>1, KindOfFrame DEF Media, Param
    <2> QED
      BY <2>1 DEF HasResult
  <1>4. Slots(u) = Slots(f)
    BY DEF Slots
  <1>5. Own(u) = Own(f) /\ FrameHolds(u) = FrameHolds(f)
    BY <1>3, <1>4 DEF Own, FrameHolds
  <1>6. BuffersOK(u, q)
    <2>1. SlotsDistinct(u)
      BY <1>2 DEF BuffersOK, SlotsDistinct
    <2> QED
      BY <2>1, <1>3 DEF BuffersOK
  <1>7. GivenUsed(u, h) /\ GivenOnlyThere(u, h, g)
    BY <1>2, <1>3 DEF GivenUsed, GivenOnlyThere, Media
  <1>8. g.ptr /\ g.block \in X => ParamsBelow(s, n)
    <2> SUFFICES ASSUME g.ptr, g.block \in X
                 PROVE  ParamsBelow(s, n)
      OBVIOUS
    <2>1. g.block \in Own(f)
      OBVIOUS
    <2>2. h.ptr
      BY <2>1, <1>2, <1>3, OwnBlocks DEF GivenOnlyThere
    <2> QED
      BY <2>2, HandedOnCases
  <1>9. \A k \in 1..n - 1 : Own(s[k]) \intersect (X \union Own(u)) = {}
    <2>1. ASSUME NEW k \in 1..n - 1
          PROVE  Own(s[k]) \intersect Own(f) = {}
      <3>1. k \in 1..n /\ k # n
        BY <1>1
      <3> QED
        BY <3>1, <1>1 DEF StackOK
    <2> QED
      BY <2>1, <1>5
  <1>10. StackOK(ReplaceTop(s, u), g, q)
    BY <1>6, <1>7, <1>8, <1>9, TopReplaced
  <1> QED
    BY <1>5, <1>10

(* What goes into the next output slot is locked and held nowhere else.    *)
ShedFrame(f, b) ==
  [f EXCEPT !.out = Append(@, b),
            !.phase = IF Len(f.out) + 1 = Outs[f.port] THEN "weft" ELSE "pull"]

LEMMA ShedFields ==
    ASSUME NEW f \in Frame, NEW b \in Handle, Media(f)
    PROVE  LET u == ShedFrame(f, b)
           IN  /\ u \in Frame /\ u.port = f.port /\ u.in = f.in
               /\ u.outBuff = f.outBuff /\ u.freed = f.freed /\ u.emitted = f.emitted
               /\ u.phase = IF Len(f.out) + 1 = Outs[f.port] THEN "weft" ELSE "pull"
               /\ u.out \in Seq(Handle) /\ Len(u.out) = Len(f.out) + 1
               /\ u.out[Len(f.out) + 1] = b /\ \A i \in DOMAIN f.out : u.out[i] = f.out[i]
               /\ DOMAIN u.out = DOMAIN f.out \union {Len(f.out) + 1}
               /\ Len(f.out) + 1 \notin DOMAIN f.out
               /\ Media(u) /\ ~ HasResult(u) /\ ~ HasResult(f)
  <1> DEFINE a == Append(f.out, b)
             ph == IF Len(f.out) + 1 = Outs[f.port] THEN "weft" ELSE "pull"
             u == [f EXCEPT !.out = a, !.phase = ph]
  <1>1. f.out \in Seq(Handle) /\ ~ Param(f)
    BY KindOfFrame
  <1>2. /\ a \in Seq(Handle) /\ Len(a) = Len(f.out) + 1 /\ a[Len(f.out) + 1] = b
        /\ \A i \in 1..Len(f.out) : a[i] = f.out[i]
        /\ Len(f.out) \in Nat /\ DOMAIN f.out = 1..Len(f.out) /\ DOMAIN a = 1..Len(f.out) + 1
    BY <1>1
  <1>3. ShedFrame(f, b) = u
    BY DEF ShedFrame
  <1>4. ph \in {"pull", "weft", "fix", "drop"}
    OBVIOUS
  <1> HIDE DEF a, ph
  <1>5. /\ u \in Frame /\ u.port = f.port /\ u.phase = ph /\ u.out = a
        /\ u.outBuff = f.outBuff /\ u.freed = f.freed /\ u.emitted = f.emitted
        /\ u.in = f.in
    BY <1>2, <1>4 DEF Frame
  <1> HIDE DEF u
  <1>6. DOMAIN a = DOMAIN f.out \union {Len(f.out) + 1} /\ Len(f.out) + 1 \notin DOMAIN f.out
    BY <1>2
  <1>7. Media(u) /\ ~ HasResult(u) /\ ~ HasResult(f)
    BY <1>1, <1>5 DEF Media, Param, HasResult
  <1> QED
    BY <1>2, <1>3, <1>5, <1>6, <1>7 DEF ph

FitsSlot(b, s, g, q, X) ==
  /\ b \in Handle /\ b.ptr /\ b.block \in Created(q) /\ InState(q, b.block, "LOCKED")
  /\ \A k \in 1..Len(s) : Own(s[k]) \intersect X = {} /\ b.block \notin Own(s[k])
  /\ g.ptr => g.block \notin X
  /\ IF TakesGiven(s[Len(s)]) THEN b = s[Len(s)].outBuff ELSE g.ptr => b.block # g.block

LEMMA ShedOK ==
    ASSUME NEW s, NEW g, NEW p, NEW q, NEW X, NEW b, s # << >>,
           RawProvider(p), Touches(p, q, X), StackOK(s, g, p),
           Media(s[Len(s)]), s[Len(s)].phase = "pull", FitsSlot(b, s, g, q, X)
    PROVE  /\ StackOK(ReplaceTop(s, ShedFrame(s[Len(s)], b)), g, q)
           /\ FrameOK(ShedFrame(s[Len(s)], b))
           /\ FrameHolds(ShedFrame(s[Len(s)], b)) = FrameHolds(s[Len(s)]) \union {b.block}
  <1> DEFINE n == Len(s)
             f == s[n]
             h == HandedOn(s, n, g)
             u == ShedFrame(f, b)
             e == Len(f.out) + 1
  <1>0. /\ b \in Handle /\ b.ptr /\ b.block \in Created(q) /\ InState(q, b.block, "LOCKED")
        /\ \A k \in 1..n : Own(s[k]) \intersect (X \union {b.block}) = {}
        /\ g.ptr => g.block \notin X
        /\ TakesGiven(f) => b = f.outBuff
        /\ ~ TakesGiven(f) /\ g.ptr => b.block # g.block
    BY DEF FitsSlot
  <1>1. s \in Seq(Frame) /\ n \in 1..n /\ f \in Frame /\ n \in Nat
    BY DEF StackOK
  <1>2. /\ FrameOK(f) /\ BuffersOK(f, p) /\ GivenUsed(f, h) /\ GivenOnlyThere(f, h, g)
        /\ GivenLocked(f, h, p)
    BY <1>1 DEF StackOK, FrameInv
  <1>3. /\ u \in Frame /\ u.port = f.port /\ u.in = f.in
        /\ u.outBuff = f.outBuff /\ u.freed = f.freed /\ u.emitted = f.emitted
        /\ u.phase = IF e = Outs[f.port] THEN "weft" ELSE "pull"
        /\ u.out \in Seq(Handle) /\ Len(u.out) = e
        /\ u.out[e] = b /\ \A i \in DOMAIN f.out : u.out[i] = f.out[i]
        /\ DOMAIN u.out = DOMAIN f.out \union {e} /\ e \notin DOMAIN f.out
        /\ Media(u) /\ ~ HasResult(u) /\ ~ HasResult(f)
    <2>1. f \in Frame /\ Media(f)
      BY <1>1
    <2> HIDE DEF f
    <2> QED
      BY <1>0, <2>1, ShedFields
  <1>4. /\ Len(f.in) \in Nat /\ Len(f.out) \in Nat /\ Outs[f.port] \in Nat
        /\ ~ Param(u) /\ ~ Param(f)
    BY <1>1, <1>3, KindOfFrame
  <1>5. f.freed = 0 /\ f.emitted = 0 /\ Len(f.out) < Outs[f.port]
    BY <1>2 DEF FrameOK
  <1> HIDE DEF u, h
  <1>6. FrameOK(u)
    BY <1>3, <1>4, <1>5 DEF FrameOK
  <1>7. BuffersOK(f, q)
    <2>1. Own(f) \intersect X = {}
      BY <1>0, <1>1
    <2> QED
      BY <2>1, <1>2, BuffersKept
  <1>8. b.block \notin Own(f)
    BY <1>0, <1>1
  <1>9. BuffersOK(u, q)
    <2>1. ASSUME NEW i \in DOMAIN u.in
          PROVE  InputOK(u, i, q)
      BY <1>3, <1>7 DEF BuffersOK, InputOK
    <2>2. ASSUME NEW i \in DOMAIN u.out
          PROVE  OutputOK(u, i, q)
      <3>1. u.phase # "drop" /\ f.phase # "drop" /\ u.emitted = 0
        BY <1>3, <1>5
      <3>2. CASE i \in DOMAIN f.out
        <4>1. OutputOK(f, i, q) /\ u.out[i] = f.out[i]
          BY <3>2, <1>3, <1>7 DEF BuffersOK
        <4> QED
          BY <4>1, <3>1, <1>3 DEF OutputOK
      <3>3. CASE i = e
        <4>1. ~ (i <= u.emitted) /\ u.out[i] = b
          BY <3>1, <3>3, <1>3, <1>4
        <4> QED
          BY <4>1, <3>1, <1>0 DEF OutputOK
      <3> QED
        BY <3>2, <3>3, <1>3
    <2>3. /\ \A i \in DOMAIN f.in : f.in[i].block # b.block
          /\ \A i \in DOMAIN f.out : f.out[i].block # b.block
      BY <1>8, OwnBlocks
    <2>4. SlotsDistinct(u)
      BY <2>3, <1>3, <1>7 DEF BuffersOK, SlotsDistinct
    <2> QED
      BY <2>1, <2>2, <2>4, <1>3 DEF BuffersOK
  <1>10. f.outBuff = h
    BY <1>2, <1>3 DEF GivenUsed
  <1>11. TakesGiven(f) <=> e = ResultSlot[f.port] /\ h.ptr
    BY <1>10 DEF TakesGiven
  <1>12. GivenUsed(u, h)
    <2>1. ASSUME h.ptr, ResultSlot[f.port] \in DOMAIN u.out
          PROVE  u.out[ResultSlot[f.port]] = h
      <3>1. CASE ResultSlot[f.port] \in DOMAIN f.out
        BY <2>1, <3>1, <1>2, <1>3 DEF GivenUsed
      <3>2. CASE ResultSlot[f.port] = e
        BY <2>1, <3>2, <1>0, <1>3, <1>10, <1>11
      <3> QED
        BY <2>1, <3>1, <3>2, <1>3
    <2> QED
      BY <2>1, <1>3, <1>10 DEF GivenUsed
  <1>13. GivenOnlyThere(u, h, g)
    <2>1. ASSUME g.ptr, NEW i \in DOMAIN u.out, u.out[i].block = g.block
          PROVE  h.ptr /\ i = ResultSlot[f.port]
      <3>1. CASE i \in DOMAIN f.out
        BY <2>1, <3>1, <1>2, <1>3 DEF GivenOnlyThere
      <3>2. CASE i = e
        BY <2>1, <3>2, <1>0, <1>3, <1>11
      <3> QED
        BY <2>1, <3>1, <3>2, <1>3
    <2>2. g.ptr => \A i \in DOMAIN u.in : u.in[i].block # g.block
      BY <1>2, <1>3 DEF GivenOnlyThere
    <2> QED
      BY <2>1, <2>2, <1>3 DEF GivenOnlyThere
  <1>14. GivenLocked(u, h, q)
    <2> SUFFICES ASSUME h.ptr
                 PROVE  InState(q, h.block, "LOCKED")
      BY DEF GivenLocked
    <2>1. h = g /\ InState(p, g.block, "LOCKED")
      BY <1>2, HandedOnCases DEF GivenLocked, h
    <2> QED
      BY <2>1, <1>0, StateKept
  <1>15. Slots(u) = Slots(f) \union {b.block}
    <2>1. \A x \in Slots(u) : x \in Slots(f) \union {b.block}
      BY <1>3, SlotBlocks
    <2>2. ASSUME NEW x \in Slots(f)
          PROVE  x \in Slots(u)
      <3>1. CASE \E i \in DOMAIN f.in : x = f.in[i].block
        BY <3>1, <1>3, SlotBlocks
      <3>2. CASE \E i \in DOMAIN f.out : x = f.out[i].block
        <4>1. PICK i \in DOMAIN f.out : x = f.out[i].block
          BY <3>2
        <4>2. i \in DOMAIN u.out /\ x = u.out[i].block
          BY <4>1, <1>3
        <4> QED
          BY <4>2, SlotBlocks
      <3> QED
        BY <3>1, <3>2, SlotBlocks
    <2>3. b.block \in Slots(u)
      <3>1. e \in DOMAIN u.out /\ u.out[e] = b
        BY <1>3
      <3> QED
        BY <3>1, SlotBlocks
    <2> QED
      BY <2>1, <2>2, <2>3
  <1>16. Own(u) = Own(f) \union {b.block} /\ FrameHolds(u) = FrameHolds(f) \union {b.block}
    BY <1>3, <1>15 DEF Own, FrameHolds
  <1>17. \A k \in 1..n - 1 : Own(s[k]) \intersect (X \union Own(u)) = {}
    <2>1. ASSUME NEW k \in 1..n - 1
          PROVE  Own(s[k]) \intersect (X \union Own(u)) = {}
      <3>1. k \in 1..n /\ k # n
        BY <1>1
      <3>2. Own(s[k]) \intersect Own(f) = {}
        BY <3>1, <1>1 DEF StackOK
      <3>3. Own(s[k]) \intersect (X \union {b.block}) = {}
        BY <1>0, <3>1
      <3> QED
        BY <3>2, <3>3, <1>16
    <2> QED
      BY <2>1
  <1>18. StackOK(ReplaceTop(s, u), g, q)
    BY <1>0, <1>6, <1>9, <1>12, <1>13, <1>14, <1>17, TopReplaced DEF h
  <1> QED
    BY <1>6, <1>16, <1>18 DEF u

-----------------------------------------------------------------------------
(* The steps of the media weaving pattern.                                 *)

LEMMA AtFacts ==
    ASSUME WeavingInv, NEW w \in Workers, NEW kind, NEW phase, At(w, kind, phase)
    PROVE  /\ Active(w) /\ Top(w).phase = phase /\ Kind[Top(w).port] = kind
           /\ Top(w) = stack[w][Len(stack[w])]
  BY DEF At, Top, Depth

(* Nothing changes but the frame.                                          *)
LEMMA UnchangedProvider ==
    ASSUME WeavingInv, bp' = bp
    PROVE  RawProvider(bp') /\ Touches(bp, bp', {}) /\ Created(bp') = Created(bp)
  BY TouchesNone DEF WeavingInv

LEMMA ShedStep ==
    ASSUME WeavingInv, NEW w \in Workers, Shed(w)
    PROVE  WeavingInv'
  <1> DEFINE s == stack[w]
             g == given[w]
             n == Len(s)
             f == Top(w)
  <1>1. At(w, "media", "pull")
    BY DEF Shed
  <1>2. Active(w) /\ f.phase = "pull" /\ Media(f)
    BY <1>1, AtFacts DEF Media
  <1>3. /\ s # << >> /\ s \in Seq(Frame) /\ f = s[n] /\ n \in 1..n /\ n \in Nat
        /\ RawProvider(bp) /\ StackOK(s, g, bp) /\ HandleOK(g, bp)
        /\ FrameInv(s, n, g, bp) /\ g.block \in Held(w)
    BY <1>2, ActiveFacts
  <1>4. UNCHANGED <<given, result, outcome, lost>>
    BY DEF Shed
  <1>5. f \in Frame /\ ~ HasResult(f)
    <2>1. f \in Frame
      BY <1>3
    <2> QED
      BY <2>1, <1>2, KindOfFrame DEF HasResult
  <1>6. f.outBuff = HandedOn(s, n, g)
    BY <1>3, <1>5 DEF FrameInv, GivenUsed
  <1>7. \A k \in 1..n : Own(s[k]) \subseteq Created(bp) /\ FrameOK(s[k])
    BY <1>3, OwnCreated DEF StackOK, FrameInv
  <1>8. CASE TakesGiven(f)
    <2>1. bp' = bp /\ SetTop(w, ShedFrame(f, f.outBuff))
      BY <1>8 DEF Shed, ShedFrame
    <2>2. f.outBuff.ptr /\ f.outBuff = g /\ ParamsBelow(s, n)
      BY <1>6, <1>8, HandedOnCases DEF TakesGiven
    <2>3. InState(bp, g.block, "LOCKED") /\ g \in Handle /\ g.block \in Created(bp)
      <3>1. GivenLocked(f, HandedOn(s, n, g), bp)
        BY <1>3 DEF FrameInv
      <3> QED
        BY <3>1, <2>2, <1>2, <1>3, <1>6 DEF GivenLocked, HandleOK
    <2>4. ASSUME NEW k \in 1..n
          PROVE  g.block \notin Own(s[k])
      <3>1. CASE k = n
        <4>1. GivenOnlyThere(f, HandedOn(s, n, g), g)
          BY <1>3 DEF FrameInv
        <4>2. DOMAIN f.out = 1..Len(f.out) /\ Len(f.out) \in Nat
          BY <1>5, KindOfFrame
        <4>3. ResultSlot[f.port] \notin DOMAIN f.out
          BY <4>2, <1>8 DEF TakesGiven
        <4> QED
          BY <3>1, <4>1, <4>3, <2>2, <1>3, <1>5, OwnBlocks DEF GivenOnlyThere
      <3>2. CASE k # n
        <4>1. k \in 1..n - 1 /\ k < n
          BY <3>2, <1>3
        <4>2. Param(s[k]) /\ FrameOK(s[k])
          BY <4>1, <2>2, <1>7 DEF ParamsBelow
        <4>3. s[k].phase = "weft"
          BY <4>1, <4>2, <1>3 DEF StackOK, FrameInv
        <4> QED
          BY <4>2, <4>3, WaitingParam
      <3> QED
        BY <3>1, <3>2
    <2>5. Touches(bp, bp, {}) /\ FitsSlot(g, s, g, bp, {})
      BY <2>2, <2>3, <2>4, <1>3, <1>8, TouchesNone DEF FitsSlot
    <2> DEFINE u == ShedFrame(f, f.outBuff)
    <2>6. /\ StackOK(ReplaceTop(s, u), g, bp) /\ FrameOK(u)
          /\ FrameHolds(u) = FrameHolds(f) \union {g.block}
      <3>1. Media(s[n]) /\ s[n].phase = "pull"
        BY <1>2, <1>3
      <3>2. /\ StackOK(ReplaceTop(s, ShedFrame(s[n], g)), g, bp) /\ FrameOK(ShedFrame(s[n], g))
            /\ FrameHolds(ShedFrame(s[n], g)) = FrameHolds(s[n]) \union {g.block}
        BY <3>1, <2>5, <1>3, ShedOK
      <3> QED
        BY <3>2, <2>2, <1>3
    <2> HIDE DEF u
    <2>7. SetTop(w, u)
      BY <2>1 DEF u
    <2>8. WorkerStep(w, {})
      BY <2>1, <2>6, <2>7, <1>2, <1>3, <1>4, UnchangedProvider, TopStep
    <2> QED
      BY <2>8, StepComposed
  <1>9. CASE ~ TakesGiven(f)
    <2> DEFINE b == NextBlock(bp)
               h == NewBuff
               u == ShedFrame(f, h)
    <2>1. bp' = LockBuffer(bp, "RAW", TRUE) /\ SetTop(w, u) /\ CanCreate(bp)
      BY <1>9 DEF Shed, ShedFrame
    <2>2. /\ b \in Blocks /\ b \notin Created(bp) /\ RawProvider(bp')
          /\ Created(bp') = Created(bp) \union {b}
          /\ Touches(bp, bp', {b}) /\ InState(bp', b, "LOCKED")
          /\ DOMAIN bp'.table = DOMAIN bp.table \union {b}
      BY <2>1, <1>3, LockRaw
    <2>3. h \in Handle /\ h.ptr /\ h.block = b
      BY <2>2 DEF NewBuff, Handle
    <2> HIDE DEF h, b, u
    <2>4. \A k \in 1..n : Own(s[k]) \intersect {b} = {} /\ h.block \notin Own(s[k])
      BY <2>2, <2>3, <1>7
    <2>5. FitsSlot(h, s, g, bp', {b})
      <3>1. g.ptr => g.block \notin {b} /\ h.block # g.block
        BY <2>2, <2>3, <1>3 DEF HandleOK
      <3> QED
        BY <3>1, <2>2, <2>3, <2>4, <1>3, <1>9 DEF FitsSlot
    <2>6. /\ StackOK(ReplaceTop(s, u), g, bp') /\ FrameOK(u)
          /\ FrameHolds(u) = FrameHolds(f) \union {b}
      <3>1. Media(s[n]) /\ s[n].phase = "pull"
        BY <1>2, <1>3
      <3>2. /\ StackOK(ReplaceTop(s, ShedFrame(s[n], h)), g, bp') /\ FrameOK(ShedFrame(s[n], h))
            /\ FrameHolds(ShedFrame(s[n], h)) = FrameHolds(s[n]) \union {h.block}
        BY <3>1, <2>2, <2>5, <1>3, ShedOK
      <3> QED
        BY <3>2, <2>3, <1>3 DEF u
    <2>7. {b} \subseteq (Held(w) \union (Blocks \ Created(bp))) \ {0}
      BY <2>2, <1>3, CreatedBlocks
    <2>8. /\ FrameHolds(f) \subseteq FrameHolds(u)
          /\ FrameHolds(u) \subseteq FrameHolds(f) \union {g.block} \union (Created(bp') \ Created(bp))
          /\ DOMAIN bp'.table \subseteq DOMAIN bp.table \union FrameHolds(u)
      BY <2>2, <2>6
    <2>9. WorkerStep(w, {b})
      BY <2>1, <2>2, <2>6, <2>7, <2>8, <1>2, <1>4, TopStep
    <2> QED
      BY <2>9, StepComposed
  <1> QED
    BY <1>8, <1>9

(* weft() and fix(): the slots stay, the phase or a counter goes on.       *)
LEMMA FixStep ==
    ASSUME WeavingInv, NEW w \in Workers, Active(w), Media(Top(w)), NEW u, NEW X,
           SetTop(w, u), UNCHANGED <<given, result, outcome, lost>>,
           RawProvider(bp'), Touches(bp, bp', X), X \subseteq Own(Top(w)),
           DOMAIN bp'.table \subseteq DOMAIN bp.table,
           FrameOK(u), u.port = Top(w).port, u.in = Top(w).in, u.out = Top(w).out,
           u.outBuff = Top(w).outBuff,
           \A i \in DOMAIN u.in : InputOK(u, i, bp'),
           \A i \in DOMAIN u.out : OutputOK(u, i, bp'),
           GivenLocked(u, HandedOn(stack[w], Len(stack[w]), given[w]), bp')
    PROVE  WeavingInv'
  <1> DEFINE s == stack[w]
             g == given[w]
             n == Len(s)
             f == Top(w)
  <1>1. /\ s # << >> /\ f = s[n] /\ RawProvider(bp) /\ StackOK(s, g, bp)
        /\ FrameInv(s, n, g, bp) /\ FrameHolds(f) \subseteq Held(w)
    BY ActiveFacts
  <1>2. StackOK(ReplaceTop(s, u), g, bp') /\ FrameHolds(u) = FrameHolds(f)
    BY <1>1, FixOK
  <1>3. X \subseteq (Held(w) \union (Blocks \ Created(bp))) \ {0}
    <2>1. Own(f) \subseteq Created(bp)
      BY <1>1, OwnCreated DEF FrameInv
    <2> QED
      BY <2>1, <1>1, OwnBlocks, CreatedBlocks
  <1>4. /\ FrameHolds(f) \subseteq FrameHolds(u)
        /\ FrameHolds(u) \subseteq FrameHolds(f) \union {g.block} \union (Created(bp') \ Created(bp))
        /\ DOMAIN bp'.table \subseteq DOMAIN bp.table \union FrameHolds(u)
    BY <1>2
  <1>5. WorkerStep(w, X)
    BY <1>2, <1>3, <1>4, TopStep
  <1> QED
    BY <1>5, StepComposed

(* The top frame of a media port.                                          *)
LEMMA MediaTop ==
    ASSUME WeavingInv, NEW w \in Workers, NEW phase, At(w, "media", phase)
    PROVE  LET f == Top(w)
           IN  /\ Active(w) /\ f \in Frame /\ Media(f) /\ ~ Param(f) /\ f.phase = phase
               /\ FrameOK(f) /\ BuffersOK(f, bp) /\ RawProvider(bp)
               /\ GivenLocked(f, HandedOn(stack[w], Len(stack[w]), given[w]), bp)
               /\ f.port \in Ports /\ f.freed \in Nat /\ f.emitted \in Nat
               /\ DOMAIN f.in = 1..Len(f.in) /\ DOMAIN f.out = 1..Len(f.out)
               /\ Len(f.in) \in Nat /\ Len(f.out) \in Nat
               /\ Outs[f.port] \in Nat /\ ResultSlot[f.port] \in Nat
  <1> DEFINE f == Top(w)
  <1>1. Active(w) /\ f.phase = phase /\ Media(f) /\ f = stack[w][Len(stack[w])]
    BY AtFacts DEF Media
  <1>2. /\ f \in Frame /\ RawProvider(bp)
        /\ FrameInv(stack[w], Len(stack[w]), given[w], bp)
    BY <1>1, ActiveFacts
  <1>3. /\ FrameOK(f) /\ BuffersOK(f, bp)
        /\ GivenLocked(f, HandedOn(stack[w], Len(stack[w]), given[w]), bp)
    BY <1>1, <1>2 DEF FrameInv
  <1> HIDE DEF f
  <1>4. /\ f.port \in Ports /\ f.freed \in Nat /\ f.emitted \in Nat /\ ~ Param(f)
        /\ DOMAIN f.in = 1..Len(f.in) /\ DOMAIN f.out = 1..Len(f.out)
        /\ Len(f.in) \in Nat /\ Len(f.out) \in Nat
        /\ Outs[f.port] \in Nat /\ ResultSlot[f.port] \in Nat
    BY <1>1, <1>2, KindOfFrame
  <1> QED
    BY <1>1, <1>2, <1>3, <1>4 DEF f

LEMMA WeftStep ==
    ASSUME WeavingInv, NEW w \in Workers, Weft(w)
    PROVE  WeavingInv'
  <1> DEFINE f == Top(w)
             u == [f EXCEPT !.phase = "fix"]
  <1>1. At(w, "media", "weft") /\ SetTop(w, u) /\ bp' = bp
        /\ UNCHANGED <<given, result, outcome, lost>>
    BY DEF Weft
  <1>2. /\ Active(w) /\ f \in Frame /\ Media(f) /\ ~ Param(f) /\ f.phase = "weft"
        /\ FrameOK(f) /\ BuffersOK(f, bp)
    BY <1>1, MediaTop
  <1>3. /\ u \in Frame /\ u.port = f.port /\ u.phase = "fix" /\ u.in = f.in /\ u.out = f.out
        /\ u.outBuff = f.outBuff /\ u.freed = f.freed /\ u.emitted = f.emitted
    BY <1>2 DEF Frame
  <1> HIDE DEF u, f
  <1>4. Media(u) /\ ~ Param(u)
    BY <1>2, <1>3 DEF Media, Param
  <1>5. FrameOK(u)
    BY <1>2, <1>3, <1>4 DEF FrameOK
  <1>6. /\ \A i \in DOMAIN u.in : InputOK(u, i, bp')
        /\ \A i \in DOMAIN u.out : OutputOK(u, i, bp')
    BY <1>1, <1>2, <1>3 DEF BuffersOK, InputOK, OutputOK
  <1>7. GivenLocked(u, HandedOn(stack[w], Len(stack[w]), given[w]), bp')
    BY <1>3 DEF GivenLocked
  <1>8. RawProvider(bp') /\ Touches(bp, bp', {}) /\ DOMAIN bp'.table \subseteq DOMAIN bp.table
    BY <1>1, UnchangedProvider
  <1> QED
    BY <1>1, <1>2, <1>3, <1>5, <1>6, <1>7, <1>8, FixStep DEF f

LEMMA ReleaseInputStep ==
    ASSUME WeavingInv, NEW w \in Workers, ReleaseInput(w)
    PROVE  WeavingInv'
  <1> DEFINE f == Top(w)
             e == f.freed + 1
             b == f.in[e].block
             u == [f EXCEPT !.freed = @ + 1]
  <1>1. /\ At(w, "media", "fix") /\ SetTop(w, u) /\ bp' = ReleaseBuffer(bp, b)
        /\ f.freed < Len(f.in) /\ UNCHANGED <<given, result, outcome, lost>>
    BY DEF ReleaseInput
  <1>2. /\ Active(w) /\ f \in Frame /\ Media(f) /\ ~ Param(f) /\ f.phase = "fix"
        /\ FrameOK(f) /\ BuffersOK(f, bp) /\ RawProvider(bp)
        /\ f.freed \in Nat /\ f.emitted \in Nat
        /\ DOMAIN f.in = 1..Len(f.in) /\ DOMAIN f.out = 1..Len(f.out)
        /\ Len(f.in) \in Nat /\ Len(f.out) \in Nat
    BY <1>1, MediaTop
  <1>3. /\ u \in Frame /\ u.port = f.port /\ u.phase = "fix" /\ u.in = f.in /\ u.out = f.out
        /\ u.outBuff = f.outBuff /\ u.freed = e /\ u.emitted = f.emitted
    BY <1>2 DEF Frame
  <1>4. e \in DOMAIN f.in /\ e \in Nat
    BY <1>1, <1>2
  <1> HIDE DEF u
  <1>5. /\ RawProvider(bp') /\ Created(bp') = Created(bp) /\ Touches(bp, bp', {b})
        /\ DOMAIN bp'.table = DOMAIN bp.table \ {b}
    BY <1>1, <1>2, ReleaseRaw
  <1> HIDE DEF b
  <1>6. Media(u) /\ ~ Param(u)
    BY <1>2, <1>3 DEF Media, Param
  <1>7. FrameOK(u)
    BY <1>1, <1>2, <1>3, <1>6 DEF FrameOK
  <1>8. b \in Own(f)
    BY <1>4, OwnBlocks DEF b
  <1>9. SlotsDistinct(f)
    BY <1>2 DEF BuffersOK
  <1>10. ASSUME NEW i \in DOMAIN u.in
         PROVE  InputOK(u, i, bp')
    <2>1. InputOK(f, i, bp) /\ i \in DOMAIN f.in
      BY <1>2, <1>3 DEF BuffersOK
    <2>2. CASE i = e
      <3>1. u.in[i].block = b /\ i <= u.freed
        BY <2>2, <1>3, <1>4 DEF b
      <3> QED
        BY <3>1, <2>1, <1>3, <1>5 DEF InputOK
    <2>3. CASE i # e
      <3>1. f.in[i].block # b
        BY <2>1, <2>3, <1>4, <1>9 DEF SlotsDistinct, b
      <3>2. i <= u.freed <=> i <= f.freed
        BY <2>1, <2>3, <1>2, <1>3
      <3> QED
        BY <3>1, <3>2, <2>1, <1>2, <1>3, <1>5, StateKept DEF InputOK
    <2> QED
      BY <2>2, <2>3
  <1>11. ASSUME NEW i \in DOMAIN u.out
         PROVE  OutputOK(u, i, bp')
    <2>1. OutputOK(f, i, bp) /\ i \in DOMAIN f.out
      BY <1>2, <1>3 DEF BuffersOK
    <2>2. f.out[i].block # b
      BY <2>1, <1>4, <1>9 DEF SlotsDistinct, b
    <2> QED
      BY <2>1, <2>2, <1>2, <1>3, <1>5, StateKept DEF OutputOK
  <1>12. GivenLocked(u, HandedOn(stack[w], Len(stack[w]), given[w]), bp')
    BY <1>3 DEF GivenLocked
  <1>13. {b} \subseteq Own(f) /\ DOMAIN bp'.table \subseteq DOMAIN bp.table
    BY <1>5, <1>8
  <1> HIDE DEF f
  <1> QED
    BY <1>1, <1>2, <1>3, <1>5, <1>7, <1>10, <1>11, <1>12, <1>13, FixStep DEF f

LEMMA EmitOutputStep ==
    ASSUME WeavingInv, NEW w \in Workers, EmitOutput(w)
    PROVE  WeavingInv'
  <1> DEFINE f == Top(w)
             e == f.emitted + 1
             b == f.out[e].block
             u == IF e = ResultSlot[f.port] THEN [f EXCEPT !.emitted = e]
                  ELSE [f EXCEPT !.phase = "drop"]
  <1>1. /\ At(w, "media", "fix") /\ SetTop(w, u) /\ bp' = EmitBuffer(bp, b)
        /\ e <= Len(f.out) /\ UNCHANGED <<given, result, outcome, lost>>
    BY DEF EmitOutput
  <1>2. /\ Active(w) /\ f \in Frame /\ Media(f) /\ ~ Param(f) /\ f.phase = "fix"
        /\ FrameOK(f) /\ BuffersOK(f, bp) /\ RawProvider(bp)
        /\ f.freed \in Nat /\ f.emitted \in Nat
        /\ DOMAIN f.in = 1..Len(f.in) /\ DOMAIN f.out = 1..Len(f.out)
        /\ Len(f.in) \in Nat /\ Len(f.out) \in Nat
    BY <1>1, MediaTop
  <1>3. /\ u \in Frame /\ u.port = f.port /\ u.in = f.in /\ u.out = f.out
        /\ u.outBuff = f.outBuff /\ u.freed = f.freed
        /\ u.phase = IF e = ResultSlot[f.port] THEN "fix" ELSE "drop"
        /\ u.emitted = IF e = ResultSlot[f.port] THEN e ELSE f.emitted
    <2>1. e \in Nat
      BY <1>2
    <2> HIDE DEF e, f
    <2>2. CASE e = ResultSlot[f.port]
      <3>1. u = [f EXCEPT !.emitted = e]
        BY <2>2
      <3> QED
        BY <2>1, <2>2, <3>1, <1>2 DEF Frame
    <2>3. CASE e # ResultSlot[f.port]
      <3>1. u = [f EXCEPT !.phase = "drop"]
        BY <2>3
      <3> QED
        BY <2>3, <3>1, <1>2 DEF Frame
    <2> QED
      BY <2>2, <2>3
  <1>4. e \in DOMAIN f.out /\ e \in Nat /\ e > f.emitted
    BY <1>1, <1>2
  <1>5. InState(bp, b, "LOCKED")
    BY <1>2, <1>4 DEF BuffersOK, OutputOK
  <1> HIDE DEF u
  <1>6. /\ RawProvider(bp') /\ Created(bp') = Created(bp) /\ Touches(bp, bp', {b})
        /\ DOMAIN bp'.table = DOMAIN bp.table /\ InState(bp', b, "EMITTED")
    BY <1>1, <1>2, <1>5, EmitRaw
  <1> HIDE DEF b
  <1>7. Media(u) /\ ~ Param(u)
    BY <1>2, <1>3 DEF Media, Param
  <1>8. FrameOK(u)
    <2>1. CASE e = ResultSlot[f.port]
      BY <2>1, <1>1, <1>2, <1>3, <1>7 DEF FrameOK
    <2>2. CASE e # ResultSlot[f.port]
      BY <2>2, <1>1, <1>2, <1>3, <1>7 DEF FrameOK
    <2> QED
      BY <2>1, <2>2
  <1>9. b \in Own(f)
    BY <1>4, OwnBlocks DEF b
  <1>10. SlotsDistinct(f)
    BY <1>2 DEF BuffersOK
  <1>11. ASSUME NEW i \in DOMAIN u.in
         PROVE  InputOK(u, i, bp')
    <2>1. InputOK(f, i, bp) /\ i \in DOMAIN f.in
      BY <1>2, <1>3 DEF BuffersOK
    <2>2. f.in[i].block # b
      BY <2>1, <1>4, <1>10 DEF SlotsDistinct, b
    <2> QED
      BY <2>1, <2>2, <1>2, <1>3, <1>6, StateKept DEF InputOK
  <1>12. ASSUME NEW i \in DOMAIN u.out
         PROVE  OutputOK(u, i, bp')
    <2>1. OutputOK(f, i, bp) /\ i \in DOMAIN f.out /\ u.out[i] = f.out[i]
      BY <1>2, <1>3 DEF BuffersOK
    <2>2. CASE i = e
      <3>1. u.out[i].block = b /\ u.out[i].ptr /\ u.out[i].block \in Created(bp')
        BY <2>1, <2>2, <1>3, <1>6 DEF OutputOK, b
      <3>2. IF e = ResultSlot[f.port] THEN i <= u.emitted /\ i = ResultSlot[u.port]
            ELSE ~ (i <= u.emitted) /\ u.phase = "drop" /\ i = u.emitted + 1
        BY <2>2, <1>2, <1>3, <1>4
      <3> QED
        BY <3>1, <3>2, <1>6 DEF OutputOK
    <2>3. CASE i # e
      <3>1. f.out[i].block # b
        BY <2>1, <2>3, <1>4, <1>10 DEF SlotsDistinct, b
      <3>2. (i <= u.emitted <=> i <= f.emitted) /\ ~ (u.phase = "drop" /\ i = u.emitted + 1)
        BY <2>1, <2>3, <1>2, <1>3
      <3> QED
        BY <3>1, <3>2, <2>1, <1>2, <1>3, <1>6, StateKept DEF OutputOK
    <2> QED
      BY <2>2, <2>3
  <1>13. GivenLocked(u, HandedOn(stack[w], Len(stack[w]), given[w]), bp')
    BY <1>3 DEF GivenLocked
  <1>14. {b} \subseteq Own(f) /\ DOMAIN bp'.table \subseteq DOMAIN bp.table
    BY <1>6, <1>9
  <1> HIDE DEF f
  <1> QED
    BY <1>1, <1>2, <1>3, <1>6, <1>8, <1>11, <1>12, <1>13, <1>14, FixStep DEF f

LEMMA ReleaseOutputStep ==
    ASSUME WeavingInv, NEW w \in Workers, ReleaseOutput(w)
    PROVE  WeavingInv'
  <1> DEFINE f == Top(w)
             e == f.emitted + 1
             b == f.out[e].block
             u == [f EXCEPT !.emitted = e, !.phase = "fix"]
  <1>1. /\ At(w, "media", "drop") /\ SetTop(w, u) /\ bp' = ReleaseBuffer(bp, b)
        /\ UNCHANGED <<given, result, outcome, lost>>
    BY DEF ReleaseOutput
  <1>2. /\ Active(w) /\ f \in Frame /\ Media(f) /\ ~ Param(f) /\ f.phase = "drop"
        /\ FrameOK(f) /\ BuffersOK(f, bp) /\ RawProvider(bp)
        /\ f.freed \in Nat /\ f.emitted \in Nat
        /\ DOMAIN f.in = 1..Len(f.in) /\ DOMAIN f.out = 1..Len(f.out)
        /\ Len(f.in) \in Nat /\ Len(f.out) \in Nat
    BY <1>1, MediaTop
  <1>3. /\ u \in Frame /\ u.port = f.port /\ u.phase = "fix" /\ u.in = f.in /\ u.out = f.out
        /\ u.outBuff = f.outBuff /\ u.freed = f.freed /\ u.emitted = e
    <2>1. e \in Nat
      BY <1>2
    <2> HIDE DEF e, f
    <2> QED
      BY <2>1, <1>2 DEF Frame
  <1>4. /\ e <= Len(f.out) /\ e # ResultSlot[f.port]
        /\ e \in DOMAIN f.out /\ e \in Nat /\ e > f.emitted
    <2>1. f.emitted < Len(f.out) /\ e # ResultSlot[f.port]
      BY <1>2 DEF FrameOK
    <2> QED
      BY <2>1, <1>2
  <1> HIDE DEF u
  <1>5. /\ RawProvider(bp') /\ Created(bp') = Created(bp) /\ Touches(bp, bp', {b})
        /\ DOMAIN bp'.table = DOMAIN bp.table \ {b}
    BY <1>1, <1>2, ReleaseRaw
  <1> HIDE DEF b
  <1>6. Media(u) /\ ~ Param(u)
    BY <1>2, <1>3 DEF Media, Param
  <1>7. FrameOK(u)
    BY <1>2, <1>3, <1>4, <1>6 DEF FrameOK
  <1>8. b \in Own(f)
    BY <1>4, OwnBlocks DEF b
  <1>9. SlotsDistinct(f)
    BY <1>2 DEF BuffersOK
  <1>10. ASSUME NEW i \in DOMAIN u.in
         PROVE  InputOK(u, i, bp')
    <2>1. InputOK(f, i, bp) /\ i \in DOMAIN f.in
      BY <1>2, <1>3 DEF BuffersOK
    <2>2. f.in[i].block # b
      BY <2>1, <1>4, <1>9 DEF SlotsDistinct, b
    <2> QED
      BY <2>1, <2>2, <1>2, <1>3, <1>5, StateKept DEF InputOK
  <1>11. ASSUME NEW i \in DOMAIN u.out
         PROVE  OutputOK(u, i, bp')
    <2>1. OutputOK(f, i, bp) /\ i \in DOMAIN f.out /\ u.out[i] = f.out[i]
      BY <1>2, <1>3 DEF BuffersOK
    <2>2. CASE i = e
      <3>1. u.out[i].block = b /\ u.out[i].ptr /\ u.out[i].block \in Created(bp')
        BY <2>1, <2>2, <1>3, <1>5 DEF OutputOK, b
      <3>2. i <= u.emitted /\ i # ResultSlot[u.port]
        BY <2>2, <1>2, <1>3, <1>4
      <3> QED
        BY <3>1, <3>2, <1>5 DEF OutputOK
    <2>3. CASE i # e
      <3>1. f.out[i].block # b
        BY <2>1, <2>3, <1>4, <1>9 DEF SlotsDistinct, b
      <3>2. (i <= u.emitted <=> i <= f.emitted) /\ u.phase # "drop"
        BY <2>1, <2>3, <1>2, <1>3
      <3> QED
        BY <3>1, <3>2, <2>1, <2>3, <1>2, <1>3, <1>5, StateKept DEF OutputOK
    <2> QED
      BY <2>2, <2>3
  <1>12. GivenLocked(u, HandedOn(stack[w], Len(stack[w]), given[w]), bp')
    BY <1>3 DEF GivenLocked
  <1>13. {b} \subseteq Own(f) /\ DOMAIN bp'.table \subseteq DOMAIN bp.table
    BY <1>5, <1>8
  <1> HIDE DEF f
  <1> QED
    BY <1>1, <1>2, <1>3, <1>5, <1>7, <1>10, <1>11, <1>12, <1>13, FixStep DEF f

-----------------------------------------------------------------------------
(* Calls, returns and exceptions.                                          *)

(* A change of the stack of w while the provider stays as it is.           *)
LEMMA StackStep ==
    ASSUME WeavingInv, NEW w \in Workers, OnlyWorker(w), bp' = bp, lost \subseteq lost',
           WorkerOK(stack'[w], given'[w], result'[w], outcome'[w], bp),
           HeldBy(stack'[w], given'[w], result'[w]) \subseteq Held(w) \union {0},
           DOMAIN bp.table \intersect Held(w)
              \subseteq HeldBy(stack'[w], given'[w], result'[w]) \union lost'
    PROVE  WeavingInv'
  <1>1. RawProvider(bp') /\ Touches(bp, bp', {})
    BY UnchangedProvider
  <1>2. WorkerStep(w, {})
    BY <1>1 DEF WorkerStep
  <1> QED
    BY <1>2, StepComposed

LEMMA CallStep ==
    ASSUME WeavingInv, NEW w \in Workers, Active(w), NEW port \in Ports, NEW h,
           h = IF Param(Top(w)) THEN Top(w).outBuff ELSE NullHandle,
           Top(w).phase = IF Param(Top(w)) THEN "weft" ELSE "pull",
           Call(w, Feed(port, h)), UNCHANGED <<bp, given, result, outcome, lost>>
    PROVE  WeavingInv'
  <1> DEFINE s == stack[w]
             g == given[w]
             r == result[w]
             c == Feed(port, h)
             t == Append(s, c)
  <1>1. /\ s # << >> /\ s \in Seq(Frame) /\ Top(w) = s[Len(s)] /\ RawProvider(bp)
        /\ StackOK(s, g, bp) /\ HandleOK(g, bp) /\ Held(w) = HeldBy(s, g, r)
        /\ Top(w) \in Frame /\ FrameHolds(Top(w)) \subseteq Held(w)
    BY ActiveFacts
  <1>2. /\ DOMAIN stack = Workers /\ DOMAIN given = Workers
        /\ DOMAIN result = Workers /\ DOMAIN outcome = Workers
        /\ WorkerOK(s, g, r, outcome[w], bp)
    BY DEF WeavingInv
  <1>3. stack' = [stack EXCEPT ![w] = t]
    BY DEF Call
  <1>4. StackOK(t, g, bp)
    <2>1. s[Len(s)].phase = IF Param(s[Len(s)]) THEN "weft" ELSE "pull"
      BY <1>1
    <2>2. h = IF Param(s[Len(s)]) THEN s[Len(s)].outBuff ELSE NullHandle
      BY <1>1
    <2> QED
      BY <2>1, <2>2, <1>1, Pushed
  <1>5. h \in Handle /\ h.block \in Held(w) \union {0}
    <2>1. CASE Param(Top(w))
      BY <2>1, <1>1, KindOfFrame DEF FrameHolds
    <2>2. CASE ~ Param(Top(w))
      BY <2>2, HandedOnCases
    <2> QED
      BY <2>1, <2>2
  <1>6. c \in Frame /\ FrameHolds(c) = {h.block}
    <2>1. c \in Frame /\ c.in = << >> /\ c.out = << >> /\ c.outBuff = h
      BY <1>5 DEF Feed, Frame
    <2> HIDE DEF c
    <2>2. DOMAIN c.in = {} /\ DOMAIN c.out = {}
      BY <2>1
    <2> QED
      BY <2>1, <2>2, SlotBlocks DEF FrameHolds
  <1> HIDE DEF c
  <1>7. StackHolds(t) = StackHolds(s) \union {h.block} /\ t # << >>
    BY <1>1, <1>6, HoldsPushed
  <1> HIDE DEF t
  <1>8. /\ DOMAIN stack' = Workers /\ stack'[w] = t
        /\ \A v \in Workers \ {w} : stack'[v] = stack[v]
    BY <1>2, <1>3
  <1>9. OnlyWorker(w)
    BY <1>2, <1>8 DEF OnlyWorker
  <1>10. WorkerOK(t, g, r, outcome[w], bp)
    BY <1>2, <1>4, <1>7 DEF WorkerOK, Active
  <1>11. HeldBy(t, g, r) \subseteq Held(w) \union {0} /\ Held(w) \subseteq HeldBy(t, g, r)
    BY <1>1, <1>5, <1>7 DEF HeldBy
  <1> QED
    BY <1>8, <1>9, <1>10, <1>11, StackStep

LEMMA PullLeadStep ==
    ASSUME WeavingInv, NEW w \in Workers, PullLead(w)
    PROVE  WeavingInv'
  <1> DEFINE f == Top(w)
             port == Lead[f.port][Len(f.in) + 1]
  <1>1. /\ At(w, "media", "pull") /\ Len(f.in) < Len(Lead[f.port])
        /\ Call(w, Feed(port, NullHandle)) /\ UNCHANGED <<bp, given, result, outcome, lost>>
    BY DEF PullLead
  <1>2. Active(w) /\ f.phase = "pull" /\ ~ Param(f) /\ f.port \in Ports /\ Len(f.in) \in Nat
    BY <1>1, MediaTop
  <1>3. port \in Ports
    <2>1. Lead[f.port] \in Seq(Ports)
      BY <1>2, WeavingAssumption
    <2> QED
      BY <2>1, <1>1, <1>2
  <1> QED
    BY <1>1, <1>2, <1>3, CallStep

LEMMA ParamTop ==
    ASSUME WeavingInv, NEW w \in Workers, NEW phase, At(w, "param", phase)
    PROVE  LET f == Top(w)
           IN  /\ Active(w) /\ f \in Frame /\ Param(f) /\ ~ Media(f) /\ f.phase = phase
               /\ FrameOK(f) /\ f.port \in Ports /\ f = stack[w][Len(stack[w])]
               /\ FrameInv(stack[w], Len(stack[w]), given[w], bp)
  <1> DEFINE f == Top(w)
  <1>1. Active(w) /\ f.phase = phase /\ Param(f) /\ f = stack[w][Len(stack[w])]
    BY AtFacts DEF Param
  <1>2. f \in Frame /\ FrameInv(stack[w], Len(stack[w]), given[w], bp)
    BY <1>1, ActiveFacts
  <1>3. FrameOK(f)
    BY <1>1, <1>2 DEF FrameInv
  <1> HIDE DEF f
  <1>4. f.port \in Ports /\ ~ Media(f)
    BY <1>1, <1>2, KindOfFrame
  <1> QED
    BY <1>1, <1>2, <1>3, <1>4 DEF f

LEMMA DelegateStep ==
    ASSUME WeavingInv, NEW w \in Workers, Delegate(w)
    PROVE  WeavingInv'
  <1> DEFINE f == Top(w)
             port == Lead[f.port][1]
  <1>1. /\ At(w, "param", "weft") /\ Call(w, Feed(port, f.outBuff))
        /\ UNCHANGED <<bp, given, result, outcome, lost>>
    BY DEF Delegate
  <1>2. Active(w) /\ f.phase = "weft" /\ Param(f) /\ ~ Media(f) /\ f.port \in Ports
    BY <1>1, ParamTop
  <1>3. port \in Ports
    <2>1. Lead[f.port] \in Seq(Ports) /\ Lead[f.port] # << >>
      BY <1>2, WeavingAssumption DEF Media
    <2> QED
      BY <2>1
  <1> QED
    BY <1>1, <1>2, <1>3, CallStep

LEMMA AttachStep ==
    ASSUME WeavingInv, NEW w \in Workers, Attach(w)
    PROVE  WeavingInv'
  <1> DEFINE f == Top(w)
             s == stack[w]
             g == given[w]
             h == HandedOn(s, Len(s), g)
             u == [f EXCEPT !.phase = "weft"]
  <1>1. /\ At(w, "param", "pull") /\ SetTop(w, u)
        /\ UNCHANGED <<bp, given, result, outcome, lost>>
    BY DEF Attach
  <1>2. /\ Active(w) /\ f \in Frame /\ f.phase = "pull" /\ Param(f) /\ ~ Media(f)
        /\ FrameOK(f) /\ f = s[Len(s)] /\ FrameInv(s, Len(s), g, bp)
    BY <1>1, ParamTop
  <1>3. /\ s # << >> /\ RawProvider(bp) /\ StackOK(s, g, bp) /\ FrameHolds(f) \subseteq Held(w)
    BY <1>2, ActiveFacts
  <1>4. /\ BuffersOK(f, bp) /\ GivenUsed(f, h) /\ GivenOnlyThere(f, h, g) /\ GivenLocked(f, h, bp)
    BY <1>2 DEF FrameInv
  <1>5. /\ u \in Frame /\ u.port = f.port /\ u.phase = "weft" /\ u.in = f.in /\ u.out = f.out
        /\ u.outBuff = f.outBuff /\ u.freed = f.freed /\ u.emitted = f.emitted
    BY <1>2 DEF Frame
  <1> HIDE DEF u, h, f
  <1>6. Param(u) /\ ~ Media(u) /\ ~ HasResult(u) /\ ~ HasResult(f)
    BY <1>2, <1>5 DEF Param, Media, HasResult
  <1>7. FrameOK(u)
    BY <1>2, <1>5, <1>6 DEF FrameOK
  <1>8. DOMAIN u.in = {} /\ DOMAIN u.out = {}
    BY <1>6, <1>7 DEF FrameOK
  <1>9. BuffersOK(u, bp) /\ GivenOnlyThere(u, h, g)
    BY <1>6, <1>8 DEF BuffersOK, SlotsDistinct, GivenOnlyThere
  <1>10. GivenUsed(u, h) /\ GivenLocked(u, h, bp)
    BY <1>2, <1>4, <1>5, <1>6, <1>8 DEF GivenUsed, GivenLocked
  <1>11. Own(u) = {}
    BY <1>5, <1>6, <1>7, WaitingParam
  <1>12. StackOK(ReplaceTop(s, u), g, bp)
    BY <1>3, <1>7, <1>9, <1>10, <1>11, TouchesNone, TopReplaced DEF h
  <1>13. FrameHolds(u) = FrameHolds(f)
    BY <1>5 DEF FrameHolds, Slots
  <1>14. RawProvider(bp') /\ Touches(bp, bp', {}) /\ Created(bp') = Created(bp) /\ bp' = bp
    BY <1>1, UnchangedProvider
  <1>15. WorkerStep(w, {})
    BY <1>1, <1>2, <1>7, <1>12, <1>13, <1>14, TopStep DEF f
  <1> QED
    BY <1>15, StepComposed

(* The buffer a frame was called with is the one given, or none.           *)
LEMMA CalledWith ==
    ASSUME NEW s, NEW g, NEW p, NEW k \in 1..Len(s), StackOK(s, g, p), ~ HasResult(s[k])
    PROVE  s[k].outBuff.block \in {g.block, 0}
  <1>1. s[k].outBuff = HandedOn(s, k, g)
    BY DEF StackOK, FrameInv, GivenUsed
  <1> QED
    BY <1>1, HandedOnCases

LEMMA EmptyStack ==
    ASSUME NEW g, NEW p
    PROVE  StackOK(<< >>, g, p) /\ StackHolds(<< >>) = {}
  <1>1. << >> \in Seq(Frame) /\ 1..Len(<< >>) = {}
    OBVIOUS
  <1> QED
    BY <1>1, StackHoldsFacts DEF StackOK

LEMMA ReturnStep ==
    ASSUME WeavingInv, NEW w \in Workers, Active(w), NEW h, Return(w, h),
           Returned(stack[w], h, given[w], bp),
           FrameHolds(Top(w)) \intersect DOMAIN bp.table \subseteq {h.block, given[w].block},
           UNCHANGED <<bp, given, lost>>
    PROVE  WeavingInv'
  <1> DEFINE s == stack[w]
             g == given[w]
             r == result[w]
             n == Len(s)
  <1>1. /\ s # << >> /\ s \in Seq(Frame) /\ Top(w) = s[n] /\ RawProvider(bp)
        /\ StackOK(s, g, bp) /\ HandleOK(g, bp) /\ Held(w) = HeldBy(s, g, r)
        /\ Depth(w) = n /\ n \in Nat \ {0} /\ n \in 1..n /\ r = NullHandle
        /\ FrameHolds(Top(w)) \subseteq Held(w)
    BY ActiveFacts
  <1>2. /\ DOMAIN stack = Workers /\ DOMAIN given = Workers
        /\ DOMAIN result = Workers /\ DOMAIN outcome = Workers
        /\ WorkerOK(s, g, r, outcome[w], bp)
    BY DEF WeavingInv
  <1>3. /\ h \in Handle /\ h.ptr /\ InState(bp, h.block, "EMITTED") /\ h.block \in Own(s[n])
        /\ h.block \in Held(w)
    BY <1>1, OwnBlocks DEF Returned
  <1>4. 0 \notin DOMAIN bp.table /\ r.block = 0
    BY <1>1, CreatedBlocks, HandedOnCases
  <1>5. HeldBy(s, g, r) = StackHolds(s) \union {r.block, g.block}
    BY DEF HeldBy
  <1>6. CASE n = 1
    <2>1. /\ stack' = [stack EXCEPT ![w] = << >>] /\ result' = [result EXCEPT ![w] = h]
          /\ outcome' = [outcome EXCEPT ![w] = "done"]
      BY <1>1, <1>6 DEF Return
    <2>2. OnlyWorker(w) /\ stack'[w] = << >> /\ result'[w] = h /\ outcome'[w] = "done"
      BY <2>1, <1>2 DEF OnlyWorker
    <2>3. WorkerOK(<< >>, g, h, "done", bp)
      <3>1. HandleOK(h, bp)
        BY <1>1, <1>3, CreatedBlocks DEF HandleOK, InState
      <3>2. g.ptr => h = g
        <4>1. ParamsBelow(s, n)
          BY <1>6 DEF ParamsBelow
        <4> QED
          BY <4>1, HandedOnCases DEF Returned
      <3>3. ResultOK(h, g, "done", bp)
        BY <3>2, <1>3 DEF ResultOK
      <3> QED
        BY <3>1, <3>3, <1>1, EmptyStack DEF WorkerOK
    <2>4. HeldBy(<< >>, g, h) = {h.block, g.block}
      BY EmptyStack DEF HeldBy
    <2>5. StackHolds(s) \subseteq FrameHolds(Top(w))
      BY <1>1, <1>6, StackHoldsFacts
    <2>6. /\ HeldBy(<< >>, g, h) \subseteq Held(w) \union {0}
          /\ DOMAIN bp.table \intersect Held(w) \subseteq HeldBy(<< >>, g, h)
      BY <2>4, <2>5, <1>1, <1>3, <1>4, <1>5
    <2> QED
      BY <2>2, <2>3, <2>6, StackStep
  <1>7. CASE n # 1
    <2> DEFINE t == PopTo(s, h)
               m == n - 1
    <2>0. n > 1 /\ m \in 1..n /\ m < n /\ m \in Nat
      <3>1. n \in Nat \ {0} /\ n # 1
        BY <1>1, <1>7
      <3> HIDE DEF n
      <3> QED
        BY <3>1
    <2>1. stack' = [stack EXCEPT ![w] = t] /\ result' = result /\ outcome' = outcome
      BY <1>1, <1>7 DEF Return, PopTo, Got
    <2>2. StackOK(t, g, bp)
      BY <2>0, <1>1, Popped
    <2>3. /\ StackHolds(t) \subseteq StackHolds(s) \union {h.block}
          /\ StackHolds(s) \subseteq StackHolds(t) \union FrameHolds(s[n])
                \union (IF Param(s[m]) THEN {s[m].outBuff.block} ELSE {})
          /\ h.block \in StackHolds(t)
      BY <2>0, <1>1, <1>3, HoldsPopped
    <2>4. t # << >>
      <3>1. s[m] \in Frame
        BY <2>0, <1>1
      <3>2. Got(s[m], h) \in Frame
        BY <3>1, <1>3, GotOwn
      <3> DEFINE c == Got(s[m], h)
      <3> HIDE DEF c
      <3>3. t = Append(SubSeq(s, 1, n - 2), c) /\ c \in Frame
        BY <3>2 DEF PopTo, c
      <3>4. Len(t) = n - 1
        BY <3>3, <2>0, <1>1, PoppedTo
      <3> HIDE DEF t
      <3> QED
        BY <3>4, <2>0, <1>1
    <2> HIDE DEF t
    <2>5. OnlyWorker(w) /\ stack'[w] = t /\ result'[w] = r /\ outcome'[w] = outcome[w]
      BY <2>1, <1>2 DEF OnlyWorker
    <2>6. WorkerOK(t, g, r, outcome[w], bp)
      BY <2>2, <2>4, <1>2 DEF WorkerOK, Active
    <2>7. Param(s[m]) => s[m].outBuff.block \in {g.block, 0}
      <3> SUFFICES ASSUME Param(s[m])
                   PROVE  s[m].outBuff.block \in {g.block, 0}
        OBVIOUS
      <3>1. s[m].phase = "weft"
        BY <2>0, <1>1 DEF StackOK, FrameInv
      <3> QED
        BY <3>1, <2>0, <1>1, CalledWith DEF HasResult
    <2>8. HeldBy(t, g, r) = StackHolds(t) \union {r.block, g.block}
      BY DEF HeldBy
    <2> HIDE DEF m
    <2>9. HeldBy(t, g, r) \subseteq Held(w) \union {0}
      BY <2>3, <2>8, <1>1, <1>3, <1>5
    <2>10. DOMAIN bp.table \intersect Held(w) \subseteq HeldBy(t, g, r)
      BY <2>3, <2>7, <2>8, <1>1, <1>4, <1>5
    <2> QED
      BY <2>5, <2>6, <2>9, <2>10, StackStep
  <1> QED
    BY <1>6, <1>7

LEMMA FixReturnStep ==
    ASSUME WeavingInv, NEW w \in Workers, FixReturn(w)
    PROVE  WeavingInv'
  <1> DEFINE f == Top(w)
             s == stack[w]
             g == given[w]
             h == f.out[ResultSlot[f.port]]
  <1>1. /\ At(w, "media", "fix") /\ f.freed = Len(f.in) /\ f.emitted = Len(f.out)
        /\ Return(w, h) /\ UNCHANGED <<bp, given, lost>>
    BY DEF FixReturn
  <1>2. Active(w) /\ f.phase = "fix" /\ Media(f) /\ ~ Param(f)
    BY <1>1, MediaTop
  <1>3. /\ s # << >> /\ f = s[Len(s)] /\ RawProvider(bp) /\ StackOK(s, g, bp)
        /\ Len(s) \in 1..Len(s)
    BY <1>2, ActiveFacts
  <1>4. Returned(s, h, g, bp) /\ Slots(f) \intersect DOMAIN bp.table \subseteq {h.block}
    BY <1>1, <1>2, <1>3, MediaReturns
  <1>5. f.outBuff.block \in {g.block, 0}
    <2>1. ~ HasResult(s[Len(s)])
      BY <1>2, <1>3 DEF HasResult
    <2>2. s[Len(s)].outBuff.block \in {g.block, 0}
      BY <2>1, <1>3, CalledWith
    <2> QED
      BY <2>2, <1>3
  <1>6. FrameHolds(f) \intersect DOMAIN bp.table \subseteq {h.block, g.block}
    BY <1>3, <1>4, <1>5, CreatedBlocks DEF FrameHolds
  <1> QED
    BY <1>1, <1>2, <1>4, <1>6, ReturnStep

LEMMA DetachStep ==
    ASSUME WeavingInv, NEW w \in Workers, Detach(w)
    PROVE  WeavingInv'
  <1> DEFINE f == Top(w)
             s == stack[w]
             g == given[w]
  <1>1. At(w, "param", "fix") /\ Return(w, f.outBuff) /\ UNCHANGED <<bp, given, lost>>
    BY DEF Detach
  <1>2. Active(w) /\ f.phase = "fix" /\ Param(f)
    BY <1>1, ParamTop
  <1>3. s # << >> /\ f = s[Len(s)] /\ StackOK(s, g, bp)
    BY <1>2, ActiveFacts
  <1>4. Returned(s, f.outBuff, g, bp) /\ Slots(f) = {}
    BY <1>2, <1>3, ParamReturns
  <1>5. FrameHolds(f) \intersect DOMAIN bp.table \subseteq {f.outBuff.block, g.block}
    BY <1>4 DEF FrameHolds
  <1> QED
    BY <1>1, <1>2, <1>4, <1>5, ReturnStep

LEMMA ThrowStep ==
    ASSUME WeavingInv, NEW w \in Workers, Throw(w)
    PROVE  WeavingInv'
  <1> DEFINE s == stack[w]
             g == given[w]
             r == result[w]
             n == Len(s)
  <1>1. Active(w) /\ Top(w).phase \in {"pull", "weft"}
    BY DEF Throw, At
  <1>2. /\ s \in Seq(Frame) /\ Top(w) = s[n] /\ RawProvider(bp) /\ Depth(w) = n
        /\ StackOK(s, g, bp) /\ HandleOK(g, bp) /\ Held(w) = HeldBy(s, g, r)
        /\ n \in Nat \ {0} /\ r = NullHandle
    BY <1>1, ActiveFacts
  <1>3. /\ DOMAIN stack = Workers /\ DOMAIN given = Workers
        /\ DOMAIN result = Workers /\ DOMAIN outcome = Workers
    BY DEF WeavingInv
  <1>4. /\ stack' = [stack EXCEPT ![w] = << >>] /\ outcome' = [outcome EXCEPT ![w] = "failed"]
        /\ UNCHANGED <<bp, given, result>>
        /\ lost' = lost \union ((UNION {Slots(s[k]) : k \in 1..n}) \ {g.block})
    BY <1>2 DEF Throw
  <1>5. OnlyWorker(w) /\ stack'[w] = << >> /\ outcome'[w] = "failed"
    BY <1>3, <1>4 DEF OnlyWorker
  <1>6. WorkerOK(<< >>, g, r, "failed", bp)
    <2>1. HandleOK(r, bp) /\ ResultOK(r, g, "failed", bp)
      BY <1>2, HandedOnCases DEF HandleOK, ResultOK
    <2> QED
      BY <2>1, <1>2, EmptyStack DEF WorkerOK
  <1>7. HeldBy(<< >>, g, r) = {r.block, g.block}
    BY EmptyStack DEF HeldBy
  <1>8. r.block \in Held(w) /\ g.block \in Held(w)
    BY <1>2, HeldFacts
  <1>9. ASSUME NEW b \in DOMAIN bp.table, b \in Held(w)
        PROVE  b \in {r.block, g.block} \union lost'
    <2>1. CASE b \in {r.block, g.block}
      BY <2>1
    <2>2. ASSUME NEW k \in 1..n, b \in FrameHolds(s[k])
          PROVE  b \in {r.block, g.block} \union lost'
      <3>1. CASE b \in Slots(s[k])
        BY <3>1, <1>4
      <3>2. CASE b = s[k].outBuff.block
        <4>1. s[k].phase # "fix"
          <5>1. CASE k = n
            BY <5>1, <1>1, <1>2
          <5>2. CASE k < n
            BY <5>2, <1>2 DEF StackOK, FrameInv
          <5> QED
            BY <5>1, <5>2, <1>2
        <4>2. b \in {g.block, 0}
          BY <3>2, <4>1, <1>2, CalledWith DEF HasResult
        <4>3. b # 0
          BY <1>2, CreatedBlocks
        <4> QED
          BY <4>2, <4>3
      <3> QED
        BY <2>2, <3>1, <3>2 DEF FrameHolds
    <2> QED
      BY <1>9, <2>1, <2>2, <1>2, HeldFacts
  <1>10. /\ HeldBy(<< >>, g, r) \subseteq Held(w) \union {0}
         /\ DOMAIN bp.table \intersect Held(w) \subseteq HeldBy(<< >>, g, r) \union lost'
    BY <1>7, <1>8, <1>9
  <1>11. lost \subseteq lost' /\ bp' = bp /\ given'[w] = g /\ result'[w] = r
    BY <1>4
  <1> QED
    BY <1>5, <1>6, <1>10, <1>11, StackStep

LEMMA ConcludeStep ==
    ASSUME WeavingInv, NEW w \in Workers, Conclude(w)
    PROVE  WeavingInv'
  <1> DEFINE s == stack[w]
             g == given[w]
             r == result[w]
             o == outcome[w]
             h == IF o = "done" THEN r ELSE g
             X == IF h.ptr THEN {h.block} ELSE {}
  <1>1. /\ o \in {"done", "failed"} /\ bp' = IF h.ptr THEN ReleaseBuffer(bp, h.block) ELSE bp
        /\ result' = [result EXCEPT ![w] = NullHandle]
        /\ given' = [given EXCEPT ![w] = NullHandle]
        /\ outcome' = [outcome EXCEPT ![w] = "idle"] /\ UNCHANGED <<stack, lost>>
    BY DEF Conclude
  <1>2. /\ DOMAIN stack = Workers /\ DOMAIN given = Workers
        /\ DOMAIN result = Workers /\ DOMAIN outcome = Workers
        /\ WorkerOK(s, g, r, o, bp) /\ RawProvider(bp)
    BY DEF WeavingInv
  <1>3. s = << >>
    BY <1>1, <1>2 DEF WorkerOK
  <1>4. Held(w) = {r.block, g.block}
    BY <1>3, HeldIs, EmptyStack DEF HeldBy
  <1>5. /\ h.ptr => h.block \in Created(bp)
        /\ {r.block, g.block} \subseteq IF h.ptr THEN {h.block, 0} ELSE {0}
    <2>1. /\ g.ptr => g.block \in Created(bp)
          /\ r.ptr => r.block \in Created(bp)
          /\ ~ g.ptr => g.block = 0
          /\ ~ r.ptr => r.block = 0
      BY <1>2, HandedOnCases DEF WorkerOK, HandleOK
    <2>2. CASE o = "done"
      <3>1. r.ptr /\ (g.ptr => r = g)
        BY <2>2, <1>2 DEF WorkerOK, ResultOK
      <3> QED
        BY <2>1, <2>2, <3>1
    <2>3. CASE o = "failed"
      <3>1. r = NullHandle
        BY <2>3, <1>2 DEF WorkerOK, ResultOK
      <3> QED
        BY <2>1, <2>3, <3>1, HandedOnCases
    <2> QED
      BY <1>1, <2>2, <2>3
  <1>6. /\ OnlyWorker(w) /\ stack'[w] = << >> /\ given'[w] = NullHandle
        /\ result'[w] = NullHandle /\ outcome'[w] = "idle"
    BY <1>1, <1>2, <1>3 DEF OnlyWorker
  <1> HIDE DEF h
  <1>7. /\ RawProvider(bp') /\ Touches(bp, bp', X) /\ Created(bp') = Created(bp)
        /\ DOMAIN bp'.table = DOMAIN bp.table \ X
    <2>1. CASE h.ptr
      BY <2>1, <1>1, <1>2, ReleaseRaw
    <2>2. CASE ~ h.ptr
      BY <2>2, <1>1, <1>2, TouchesNone
    <2> QED
      BY <2>1, <2>2
  <1>8. X \subseteq (Held(w) \union (Blocks \ Created(bp))) \ {0}
    <2>1. h.ptr => h.block \in {r.block, g.block}
      BY DEF h
    <2> QED
      BY <2>1, <1>2, <1>4, <1>5, CreatedBlocks
  <1>9. WorkerOK(<< >>, NullHandle, NullHandle, "idle", bp')
    <2>1. HandleOK(NullHandle, bp') /\ ResultOK(NullHandle, NullHandle, "idle", bp')
      BY HandedOnCases DEF HandleOK, ResultOK
    <2> QED
      BY <2>1, EmptyStack DEF WorkerOK
  <1>10. HeldBy(<< >>, NullHandle, NullHandle) = {0}
    BY EmptyStack, HandedOnCases DEF HeldBy
  <1>11. DOMAIN bp'.table \intersect Held(w) = {}
    <2>1. 0 \notin DOMAIN bp.table
      BY <1>2, CreatedBlocks
    <2> QED
      BY <2>1, <1>4, <1>5, <1>7
  <1>12. WorkerStep(w, X)
    BY <1>1, <1>6, <1>7, <1>8, <1>9, <1>10, <1>11 DEF WorkerStep
  <1> QED
    BY <1>12, StepComposed

(* A stack with one new frame.                                             *)
LEMMA FirstFrame ==
    ASSUME NEW g, NEW p, HandleOK(g, p), g.ptr => InState(p, g.block, "LOCKED")
    PROVE  /\ StackOK(<<Feed(Root, g)>>, g, p)
           /\ StackHolds(<<Feed(Root, g)>>) = {g.block}
  <1> DEFINE c == Feed(Root, g)
             s == <<c>>
  <1>1. g \in Handle /\ Root \in Ports
    BY WeavingAssumption DEF HandleOK
  <1>2. /\ c \in Frame /\ c.port = Root /\ c.phase = "pull" /\ c.in = << >> /\ c.out = << >>
        /\ c.outBuff = g /\ c.freed = 0 /\ c.emitted = 0
    BY <1>1 DEF Feed, Frame
  <1> HIDE DEF c
  <1>3. s \in Seq(Frame) /\ Len(s) = 1 /\ s[1] = c /\ \A k \in 1..Len(s) : k = 1
    BY <1>2
  <1> HIDE DEF s
  <1>4. HandedOn(s, 1, g) = g
    BY DEF HandedOn, ParamsBelow
  <1>5. DOMAIN c.in = {} /\ DOMAIN c.out = {} /\ ~ HasResult(c)
    BY <1>2 DEF HasResult
  <1>6. FrameOK(c)
    <2>1. Len(c.in) = 0 /\ Len(c.out) = 0
      BY <1>2
    <2>2. Media(c) => 0 < Outs[c.port]
      <3>1. Outs[c.port] \in Nat /\ (Media(c) => ResultSlot[c.port] \in 1..Outs[c.port])
        BY <1>2, KindOfFrame
      <3> QED
        BY <3>1
    <2> QED
      BY <2>1, <2>2, <1>2 DEF FrameOK
  <1>7. /\ BuffersOK(c, p) /\ GivenUsed(c, g) /\ GivenOnlyThere(c, g, g) /\ GivenLocked(c, g, p)
    BY <1>2, <1>5 DEF BuffersOK, SlotsDistinct, GivenUsed, GivenOnlyThere, GivenLocked
  <1>8. FrameInv(s, 1, g, p)
    BY <1>3, <1>4, <1>6, <1>7 DEF FrameInv
  <1>9. StackOK(s, g, p)
    BY <1>3, <1>8 DEF StackOK
  <1>10. FrameHolds(c) = {g.block}
    BY <1>2, <1>5, SlotBlocks DEF FrameHolds
  <1>11. StackHolds(s) = {g.block}
    BY <1>3, <1>10, StackHoldsFacts
  <1> QED
    BY <1>9, <1>11 DEF s, c

LEMMA PullStep ==
    ASSUME WeavingInv, NEW w \in Workers, NEW withBuff \in BOOLEAN, Pull(w, withBuff)
    PROVE  WeavingInv'
  <1> DEFINE b == NextBlock(bp)
             g == IF withBuff THEN NewBuff ELSE NullHandle
             X == IF withBuff THEN {b} ELSE {}
             s == <<Feed(Root, g)>>
  <1>1. outcome[w] = "idle" /\ (withBuff => CanCreate(bp))
    BY DEF Pull
  <1>2. /\ bp' = IF withBuff THEN LockBuffer(bp, "RAW", TRUE) ELSE bp
        /\ given' = [given EXCEPT ![w] = g] /\ stack' = [stack EXCEPT ![w] = s]
        /\ outcome' = [outcome EXCEPT ![w] = "running"] /\ UNCHANGED <<result, lost>>
    BY DEF Pull
  <1>3. /\ DOMAIN stack = Workers /\ DOMAIN given = Workers
        /\ DOMAIN result = Workers /\ DOMAIN outcome = Workers
        /\ WorkerOK(stack[w], given[w], result[w], outcome[w], bp) /\ RawProvider(bp)
    BY DEF WeavingInv
  <1>4. stack[w] = << >> /\ given[w] = NullHandle /\ result[w] = NullHandle
    BY <1>1, <1>3 DEF WorkerOK, ResultOK
  <1>5. Held(w) = {0}
    BY <1>4, HeldIs, EmptyStack, HandedOnCases DEF HeldBy
  <1>6. /\ X \subseteq Blocks \ Created(bp) /\ RawProvider(bp') /\ Touches(bp, bp', X)
        /\ Created(bp') = Created(bp) \union X
        /\ DOMAIN bp'.table = DOMAIN bp.table \union X
        /\ HandleOK(g, bp') /\ (g.ptr => InState(bp', g.block, "LOCKED"))
        /\ X \subseteq {g.block} /\ {g.block} \subseteq X \union {0}
    <2>1. CASE withBuff
      <3>1. /\ b \in Blocks /\ b \notin Created(bp) /\ RawProvider(bp')
            /\ Created(bp') = Created(bp) \union {b}
            /\ Touches(bp, bp', {b}) /\ InState(bp', b, "LOCKED")
            /\ DOMAIN bp'.table = DOMAIN bp.table \union {b}
        BY <2>1, <1>1, <1>2, <1>3, LockRaw
      <3>2. g = NewBuff /\ X = {b}
        BY <2>1
      <3>3. NewBuff \in Handle /\ NewBuff.ptr /\ NewBuff.block = b
        BY <3>1 DEF NewBuff, Handle
      <3> HIDE DEF b, g, X
      <3> QED
        BY <3>1, <3>2, <3>3 DEF HandleOK
    <2>2. CASE ~ withBuff
      <3>1. g = NullHandle /\ X = {} /\ bp' = bp
        BY <2>2, <1>2
      <3> HIDE DEF b, g, X
      <3> QED
        BY <3>1, <1>3, TouchesNone, HandedOnCases DEF HandleOK
    <2> QED
      BY <2>1, <2>2
  <1> HIDE DEF g, X, b
  <1>7. StackOK(s, g, bp') /\ StackHolds(s) = {g.block} /\ s # << >>
    BY <1>6, FirstFrame
  <1> HIDE DEF s
  <1>8. /\ OnlyWorker(w) /\ stack'[w] = s /\ given'[w] = g
        /\ result'[w] = NullHandle /\ outcome'[w] = "running"
    BY <1>2, <1>3, <1>4 DEF OnlyWorker
  <1>9. WorkerOK(s, g, NullHandle, "running", bp')
    <2>1. HandleOK(NullHandle, bp') /\ ResultOK(NullHandle, g, "running", bp')
      BY HandedOnCases DEF HandleOK, ResultOK
    <2> QED
      BY <2>1, <1>6, <1>7 DEF WorkerOK
  <1>10. HeldBy(s, g, NullHandle) = {0, g.block}
    BY <1>7, HandedOnCases DEF HeldBy
  <1>11. X \subseteq (Held(w) \union (Blocks \ Created(bp))) \ {0}
    BY <1>3, <1>6, CreatedBlocks
  <1>12. /\ HeldBy(s, g, NullHandle) \subseteq Held(w) \union {0} \union (Created(bp') \ Created(bp))
         /\ DOMAIN bp'.table \subseteq DOMAIN bp.table \union HeldBy(s, g, NullHandle)
         /\ DOMAIN bp'.table \intersect Held(w) \subseteq HeldBy(s, g, NullHandle)
    BY <1>5, <1>6, <1>10
  <1>13. WorkerStep(w, X)
    BY <1>2, <1>6, <1>8, <1>9, <1>11, <1>12 DEF WorkerStep
  <1> QED
    BY <1>13, StepComposed

LEMMA WeavingInit == Init => WeavingInv
  <1> SUFFICES ASSUME Init
               PROVE  WeavingInv
    OBVIOUS
  <1>1. /\ bp = NoProvider
        /\ DOMAIN stack = Workers /\ DOMAIN given = Workers
        /\ DOMAIN result = Workers /\ DOMAIN outcome = Workers
        /\ \A w \in Workers : /\ stack[w] = << >> /\ given[w] = NullHandle
                              /\ result[w] = NullHandle /\ outcome[w] = "idle"
    BY DEF Init
  <1>2. RawProvider(bp) /\ DOMAIN bp.table = {}
    <2>1. /\ bp.table = [b \in {} |-> 0] /\ bp.pool = {} /\ bp.outSeq = << >>
          /\ bp.released = {} /\ bp.object = [b \in Blocks |-> "raw"]
      BY <1>1 DEF NoProvider
    <2>2. bp.table \in RawTable /\ DOMAIN bp.table = {}
      BY <2>1, RawTableType
    <2>3. bp \in RawType
      <3> DEFINE t == [b \in {} |-> 0]
      <3>1. t \in RawTable
        BY <2>1, <2>2
      <3>2. bp = [table |-> t, pool |-> {}, outSeq |-> << >>,
                  released |-> {}, object |-> [b \in Blocks |-> "raw"]]
        BY <1>1 DEF NoProvider
      <3> HIDE DEF t
      <3>3. [b \in Blocks |-> "raw"] \in [Blocks -> ObjectState]
        BY DEF ObjectState
      <3> QED
        BY <3>1, <3>2, <3>3 DEF RawType
    <2> QED
      BY <2>2, <2>3 DEF RawProvider
  <1>3. ASSUME NEW w \in Workers
        PROVE  WorkerOK(stack[w], given[w], result[w], outcome[w], bp)
    <2>1. HandleOK(NullHandle, bp) /\ ResultOK(NullHandle, NullHandle, "idle", bp)
      BY HandedOnCases DEF HandleOK, ResultOK
    <2>2. WorkerOK(<< >>, NullHandle, NullHandle, "idle", bp)
      BY <2>1, EmptyStack DEF WorkerOK
    <2> QED
      BY <2>2, <1>1
  <1>4. Apart
    <2>1. HeldBy(<< >>, NullHandle, NullHandle) = {0}
      BY EmptyStack, HandedOnCases DEF HeldBy
    <2>2. ASSUME NEW w \in Workers
          PROVE  Held(w) = {0}
      BY <2>1, <1>1, HeldIs
    <2> QED
      BY <2>2 DEF Apart
  <1>5. NothingLeaked
    BY <1>2 DEF NothingLeaked
  <1> QED
    BY <1>1, <1>2, <1>3, <1>4, <1>5 DEF WeavingInv

LEMMA WeavingStutter ==
    ASSUME WeavingInv, UNCHANGED vars
    PROVE  WeavingInv'
  <1>1. /\ bp' = bp /\ stack' = stack /\ given' = given /\ result' = result
        /\ outcome' = outcome /\ lost' = lost
    BY DEF vars
  <1>2. \A w \in Workers : Held(w)' = Held(w)
    BY <1>1 DEF Held, Depth
  <1>3. Apart' /\ NothingLeaked'
    BY <1>1, <1>2 DEF WeavingInv, Apart, NothingLeaked
  <1>4. /\ RawProvider(bp)'
        /\ (\A w \in Workers : WorkerOK(stack[w], given[w], result[w], outcome[w], bp))'
    BY <1>1 DEF WeavingInv
  <1> QED
    BY <1>1, <1>3, <1>4 DEF WeavingInv

(* The inductive invariant: what is in the slots of the frames is in the   *)
(* state the phase of the frame calls for, the buffer given is handed on,  *)
(* and no block is in the hands of two workers.                            *)
THEOREM WeavingSafety == Spec => []WeavingInv
  <1>1. WeavingInv /\ [Next]_vars => WeavingInv'
    <2> SUFFICES ASSUME WeavingInv, [Next]_vars
                 PROVE  WeavingInv'
      OBVIOUS
    <2>1. CASE UNCHANGED vars
      BY <2>1, WeavingStutter
    <2>2. ASSUME NEW w \in Workers, NEW b \in BOOLEAN, Pull(w, b)
          PROVE  WeavingInv'
      BY <2>2, PullStep
    <2>3. ASSUME NEW w \in Workers, Conclude(w)
          PROVE  WeavingInv'
      BY <2>3, ConcludeStep
    <2>4. ASSUME NEW w \in Workers, Throw(w)
          PROVE  WeavingInv'
      BY <2>4, ThrowStep
    <2>5. ASSUME NEW w \in Workers, Step(w)
          PROVE  WeavingInv'
      <3>1. CASE PullLead(w)
        BY <3>1, PullLeadStep
      <3>2. CASE Shed(w)
        BY <3>2, ShedStep
      <3>3. CASE Weft(w)
        BY <3>3, WeftStep
      <3>4. CASE ReleaseInput(w)
        BY <3>4, ReleaseInputStep
      <3>5. CASE EmitOutput(w)
        BY <3>5, EmitOutputStep
      <3>6. CASE ReleaseOutput(w)
        BY <3>6, ReleaseOutputStep
      <3>7. CASE FixReturn(w)
        BY <3>7, FixReturnStep
      <3>8. CASE Attach(w)
        BY <3>8, AttachStep
      <3>9. CASE Delegate(w)
        BY <3>9, DelegateStep
      <3>10. CASE Detach(w)
        BY <3>10, DetachStep
      <3> QED
        BY <2>5, <3>1, <3>2, <3>3, <3>4, <3>5, <3>6, <3>7, <3>8, <3>9, <3>10 DEF Step
    <2> QED
      BY <2>1, <2>2, <2>3, <2>4, <2>5 DEF Next
  <1> QED
    BY <1>1, WeavingInit, PTL DEF Spec

(* A buffer known to the provider is valid.                                *)
LEMMA RawValid ==
    ASSUME NEW p, RawProvider(p), NEW h, h.ptr, NEW st, InState(p, h.block, st)
    PROVE  IsValid(p, h) /\ p.table[h.block].state = st
  <1>1. p.table \in [DOMAIN p.table -> RawEntry] /\ h.block \in DOMAIN p.table
    BY RawTableType DEF RawProvider, RawType, InState
  <1>2. p.table[h.block].buffer = TRUE
    BY <1>1 DEF RawEntry
  <1> QED
    BY <1>1, <1>2 DEF IsValid, Locked, Known, InState

LEMMA SlotsInjective ==
    ASSUME NEW f \in Frame, SlotsDistinct(f)
    PROVE  IsInjective(f.in \o f.out)
  <1> DEFINE i == f.in
             o == f.out
             c == i \o o
  <1>1. i \in Seq(Handle) /\ o \in Seq(Handle)
    BY KindOfFrame
  <1>2. /\ \A a, b \in DOMAIN i : i[a].block = i[b].block => a = b
        /\ \A a, b \in DOMAIN o : o[a].block = o[b].block => a = b
        /\ \A a \in DOMAIN i, b \in DOMAIN o : i[a].block # o[b].block
    BY DEF SlotsDistinct
  <1> HIDE DEF i, o
  <1>3. /\ DOMAIN i = 1..Len(i) /\ DOMAIN o = 1..Len(o) /\ DOMAIN c = 1..Len(i) + Len(o)
        /\ Len(i) \in Nat /\ Len(o) \in Nat
        /\ \A k \in 1..Len(i) + Len(o) : c[k] = IF k <= Len(i) THEN i[k] ELSE o[k - Len(i)]
    BY <1>1
  <1> HIDE DEF c
  <1>4. ASSUME NEW a \in DOMAIN c, NEW b \in DOMAIN c, c[a] = c[b]
        PROVE  a = b
    <2>1. CASE a <= Len(i) /\ b <= Len(i)
      BY <2>1, <1>2, <1>3, <1>4
    <2>2. CASE a <= Len(i) /\ b > Len(i)
      <3>1. a \in DOMAIN i /\ b - Len(i) \in DOMAIN o
        BY <2>2, <1>3
      <3>2. c[a] = i[a] /\ c[b] = o[b - Len(i)]
        BY <2>2, <1>3
      <3> QED
        BY <3>1, <3>2, <1>2, <1>4
    <2>3. CASE a > Len(i) /\ b <= Len(i)
      <3>1. b \in DOMAIN i /\ a - Len(i) \in DOMAIN o
        BY <2>3, <1>3
      <3>2. c[b] = i[b] /\ c[a] = o[a - Len(i)]
        BY <2>3, <1>3
      <3> QED
        BY <3>1, <3>2, <1>2, <1>4
    <2>4. CASE a > Len(i) /\ b > Len(i)
      <3>1. a - Len(i) \in DOMAIN o /\ b - Len(i) \in DOMAIN o
        BY <2>4, <1>3
      <3>2. c[a] = o[a - Len(i)] /\ c[b] = o[b - Len(i)]
        BY <2>4, <1>3
      <3>3. a - Len(i) = b - Len(i)
        BY <3>1, <3>2, <1>2, <1>4
      <3> QED
        BY <3>3, <1>3
    <2> QED
      BY <2>1, <2>2, <2>3, <2>4, <1>3
  <1>5. IsInjective(c)
    BY <1>4 DEF IsInjective
  <1> QED
    BY <1>5 DEF c, i, o

(* What a frame has in its slots is in no slot of any other frame.         *)
LEMMA SlotsApart ==
    ASSUME WeavingInv, NEW w \in Workers, NEW k \in 1..Len(stack[w]),
           NEW v \in Workers, NEW j \in 1..Len(stack[v]), v # w \/ j # k
    PROVE  Slots(stack[v][j]) \intersect Slots(stack[w][k]) = {}
  <1>1. /\ StackOK(stack[w], given[w], bp) /\ StackOK(stack[v], given[v], bp) /\ RawProvider(bp)
    BY DEF WeavingInv, WorkerOK
  <1>2. CASE v = w
    <2>1. Own(stack[w][j]) \intersect Own(stack[w][k]) = {}
      BY <1>1, <1>2 DEF StackOK
    <2> QED
      BY <2>1, <1>2, OwnBlocks
  <1>3. CASE v # w
    <2>1. Held(v) \intersect Held(w) \subseteq {0}
      BY <1>3 DEF WeavingInv, Apart
    <2>2. Slots(stack[v][j]) \subseteq Held(v)
      BY HeldIs, HeldFacts DEF FrameHolds
    <2>3. Slots(stack[w][k]) \subseteq Held(w)
      BY HeldIs, HeldFacts DEF FrameHolds
    <2>4. Own(stack[w][k]) \subseteq Created(bp)
      BY <1>1, OwnCreated DEF StackOK, FrameInv
    <2>5. 0 \notin Slots(stack[w][k])
      BY <2>4, <1>1, OwnBlocks, CreatedBlocks
    <2> QED
      BY <2>1, <2>2, <2>3, <2>5
  <1> QED
    BY <1>2, <1>3

LEMMA InvReady == WeavingInv => ReadyToProcess
  <1> SUFFICES ASSUME WeavingInv, NEW w \in Workers, At(w, "media", "weft")
               PROVE  LET f == Top(w) IN
                      /\ \A h \in Range(f.in) :
                            IsValid(bp, h) /\ bp.table[h.block].state = "EMITTED"
                      /\ \A h \in Range(f.out) :
                            IsValid(bp, h) /\ bp.table[h.block].state = "LOCKED"
                      /\ IsInjective(f.in \o f.out)
                      /\ \A v \in Workers : \A k \in 1..Depth(v) :
                            v # w \/ k # Depth(w) => Slots(stack[v][k]) \intersect Slots(f) = {}
    BY DEF ReadyToProcess
  <1> DEFINE f == Top(w)
  <1>1. /\ Active(w) /\ f \in Frame /\ Media(f) /\ f.phase = "weft"
        /\ FrameOK(f) /\ BuffersOK(f, bp) /\ RawProvider(bp)
        /\ DOMAIN f.in = 1..Len(f.in) /\ DOMAIN f.out = 1..Len(f.out)
        /\ Len(f.in) \in Nat /\ Len(f.out) \in Nat
    BY MediaTop
  <1>2. Depth(w) = Len(stack[w]) /\ f = stack[w][Len(stack[w])] /\ Len(stack[w]) \in 1..Len(stack[w])
    BY <1>1, ActiveFacts
  <1> HIDE DEF f
  <1>3. f.freed = 0 /\ f.emitted = 0
    BY <1>1 DEF FrameOK
  <1>4. ASSUME NEW h \in Range(f.in)
        PROVE  IsValid(bp, h) /\ bp.table[h.block].state = "EMITTED"
    <2>1. PICK i \in DOMAIN f.in : h = f.in[i]
      BY DEF Range
    <2>2. ~ (i <= f.freed)
      BY <1>1, <1>3
    <2>3. h.ptr /\ InState(bp, h.block, "EMITTED")
      BY <2>1, <2>2, <1>1 DEF BuffersOK, InputOK
    <2> QED
      BY <2>3, <1>1, RawValid
  <1>5. ASSUME NEW h \in Range(f.out)
        PROVE  IsValid(bp, h) /\ bp.table[h.block].state = "LOCKED"
    <2>1. PICK i \in DOMAIN f.out : h = f.out[i]
      BY DEF Range
    <2>2. ~ (i <= f.emitted) /\ f.phase # "drop"
      BY <1>1, <1>3
    <2>3. h.ptr /\ InState(bp, h.block, "LOCKED")
      BY <2>1, <2>2, <1>1 DEF BuffersOK, OutputOK
    <2> QED
      BY <2>3, <1>1, RawValid
  <1>6. IsInjective(f.in \o f.out)
    BY <1>1, SlotsInjective DEF BuffersOK
  <1>7. ASSUME NEW v \in Workers, NEW k \in 1..Depth(v), v # w \/ k # Depth(w)
        PROVE  Slots(stack[v][k]) \intersect Slots(f) = {}
    <2>1. k \in 1..Len(stack[v])
      BY DEF Depth
    <2>2. v # w \/ k # Len(stack[w])
      BY <1>2, <1>7
    <2>3. Slots(stack[v][k]) \intersect Slots(stack[w][Len(stack[w])]) = {}
      BY <2>1, <2>2, <1>2, SlotsApart
    <2> QED
      BY <2>3, <1>2
  <1> QED
    BY <1>4, <1>5, <1>6, <1>7 DEF f

(* When a processing function is invoked (media-weaving-pattern.hpp        *)
(* weft), all its inputs are emitted and not yet released, its outputs are *)
(* locked, and no other call of any worker has one of these buffers.       *)
THEOREM BuffersReady == Spec => []ReadyToProcess
  BY WeavingSafety, InvReady, PTL

(* Each buffer known to the provider is in use by an active call, is a     *)
(* result not consumed yet, or was left behind by an exception: pull(),    *)
(* shed() and fix() release all others.                                    *)
THEOREM NoBufferLeaked == Spec => []NothingLeaked
  <1>1. WeavingInv => NothingLeaked
    BY DEF WeavingInv
  <1> QED
    BY <1>1, WeavingSafety, PTL

LEMMA InvResult == WeavingInv => ResultInGivenBuffer
  <1> SUFFICES ASSUME WeavingInv, NEW w \in Workers, outcome[w] = "done"
               PROVE  /\ IsValid(bp, result[w]) /\ bp.table[result[w].block].state = "EMITTED"
                      /\ given[w].ptr => result[w] = given[w]
    BY DEF ResultInGivenBuffer
  <1>1. RawProvider(bp) /\ ResultOK(result[w], given[w], "done", bp)
    BY DEF WeavingInv, WorkerOK
  <1>2. /\ result[w].ptr /\ InState(bp, result[w].block, "EMITTED")
        /\ given[w].ptr => result[w] = given[w]
    BY <1>1 DEF ResultOK
  <1> QED
    BY <1>1, <1>2, RawValid

(* The outcome of ProcNode::pull() is an emitted buffer, and if the caller *)
(* passed one, it is that buffer, through any nesting of parameter nodes   *)
(* (param-weaving-pattern.hpp weft and fix).                               *)
THEOREM GivenBufferReturned == Spec => []ResultInGivenBuffer
  BY WeavingSafety, InvResult, PTL

-----------------------------------------------------------------------------
(* The chain of parameter blocks.  That WeavingInv holds before and after  *)
(* each step spares to look at the shape of the stacks again.              *)

ChainInv ==
  /\ DOMAIN chain = Workers
  /\ \A w \in Workers : Active(w) => ChainOK(stack[w], chain[w])

(* The same frames are linked in both stacks.                              *)
SameLinks(s, t) ==
  /\ \A k \in 1..Len(t) : Linked(t[k]) => k \in 1..Len(s) /\ Linked(s[k])
  /\ \A k \in 1..Len(s) : Linked(s[k]) => /\ k \in 1..Len(t) /\ Linked(t[k])
                                          /\ t[k].port = s[k].port

LEMMA ChainKept ==
    ASSUME NEW s, NEW t, NEW c, ChainOK(s, c), SameLinks(s, t)
    PROVE  ChainOK(t, c)
  <1>1. \A k \in 1..Len(t) : Linked(t[k]) => \E i \in DOMAIN c : c[i] = k
    BY DEF ChainOK, SameLinks
  <1>2. \A i \in DOMAIN c : /\ c[i] \in 1..Len(t) /\ Linked(t[c[i]])
                            /\ Segment[t[c[i]].port] = i
    BY DEF ChainOK, SameLinks
  <1> QED
    BY <1>1, <1>2 DEF ChainOK

(* Linking the innermost frame.                                            *)
LEMMA ChainAttached ==
    ASSUME NEW s, NEW t, NEW c, ChainOK(s, c), NEW n \in Nat \ {0},
           Len(s) = n, Len(t) = n, \A k \in 1..n - 1 : t[k] = s[k],
           ~ Linked(s[n]), Linked(t[n]), Segment[t[n].port] = Len(c) + 1
    PROVE  ChainOK(t, Append(c, n))
  <1> DEFINE a == Append(c, n)
  <1>1. c \in Seq(Nat)
    BY DEF ChainOK
  <1>2. /\ a \in Seq(Nat) /\ DOMAIN c = 1..Len(c) /\ DOMAIN a = 1..Len(c) + 1
        /\ Len(c) \in Nat /\ a[Len(c) + 1] = n /\ \A i \in 1..Len(c) : a[i] = c[i]
    BY <1>1
  <1> HIDE DEF a
  <1>3. \A i \in DOMAIN c : c[i] \in 1..n - 1
    <2> SUFFICES ASSUME NEW i \in DOMAIN c
                 PROVE  c[i] \in 1..n - 1
      OBVIOUS
    <2>1. c[i] \in 1..n /\ Linked(s[c[i]])
      BY DEF ChainOK
    <2>2. c[i] # n
      BY <2>1
    <2> QED
      BY <2>1, <2>2
  <1>4. ASSUME NEW k \in 1..n, Linked(t[k])
        PROVE  \E i \in DOMAIN a : a[i] = k
    <2>1. CASE k = n
      BY <2>1, <1>2
    <2>2. CASE k # n
      <3>1. k \in 1..n - 1
        BY <2>2
      <3>2. PICK i \in DOMAIN c : c[i] = k
        BY <3>1, <1>4 DEF ChainOK
      <3> QED
        BY <3>2, <1>2
    <2> QED
      BY <2>1, <2>2
  <1>5. ASSUME NEW i \in DOMAIN a
        PROVE  a[i] \in 1..n /\ Linked(t[a[i]]) /\ Segment[t[a[i]].port] = i
    <2>1. CASE i = Len(c) + 1
      BY <2>1, <1>2
    <2>2. CASE i \in DOMAIN c
      <3>1. a[i] = c[i] /\ c[i] \in 1..n - 1
        BY <2>2, <1>2, <1>3
      <3>2. Linked(s[c[i]]) /\ Segment[s[c[i]].port] = i
        BY <2>2 DEF ChainOK
      <3>3. t[c[i]] = s[c[i]] /\ c[i] \in 1..n
        BY <3>1
      <3> QED
        BY <3>1, <3>2, <3>3
    <2> QED
      BY <2>1, <2>2, <1>2
  <1>6. ASSUME NEW i \in DOMAIN a, NEW j \in DOMAIN a, i < j
        PROVE  a[i] < a[j]
    <2>1. i \in DOMAIN c /\ a[i] = c[i]
      BY <1>2, <1>6
    <2>2. CASE j = Len(c) + 1
      <3>1. c[i] \in 1..n - 1 /\ a[j] = n
        BY <2>1, <2>2, <1>2, <1>3
      <3> QED
        BY <3>1, <2>1
    <2>3. CASE j \in DOMAIN c
      BY <2>1, <2>3, <1>2, <1>6 DEF ChainOK
    <2> QED
      BY <2>2, <2>3, <1>2
  <1>7. ChainOK(t, a)
    BY <1>2, <1>4, <1>5, <1>6 DEF ChainOK
  <1> QED
    BY <1>7 DEF a

(* The innermost frame's block is the last of the chain, and severing at   *)
(* the segment of its type removes just this one.                          *)
LEMMA ChainDetached ==
    ASSUME NEW s, NEW t, NEW c, ChainOK(s, c), NEW n \in Nat \ {0},
           Len(s) = n, Linked(s[n]), Len(t) = n - 1,
           \A k \in 1..n - 1 : (Linked(t[k]) <=> Linked(s[k])) /\ t[k].port = s[k].port
    PROVE  ChainOK(t, SubSeq(c, 1, Segment[s[n].port] - 1))
  <1>1. c \in Seq(Nat) /\ DOMAIN c = 1..Len(c) /\ Len(c) \in Nat
    BY DEF ChainOK
  <1>2. PICK i \in DOMAIN c : c[i] = n
    BY DEF ChainOK
  <1>3. i = Len(c)
    <2>1. Len(c) \in DOMAIN c
      BY <1>1, <1>2
    <2>2. c[Len(c)] \in 1..n
      BY <2>1 DEF ChainOK
    <2>3. ~ (i < Len(c))
      <3> SUFFICES ASSUME i < Len(c)
                   PROVE  FALSE
        OBVIOUS
      <3>1. c[i] < c[Len(c)]
        BY <2>1 DEF ChainOK
      <3> QED
        BY <3>1, <2>2, <1>2
    <2> QED
      BY <2>3, <1>1
  <1>4. Segment[s[n].port] = Len(c)
    BY <1>2, <1>3 DEF ChainOK
  <1> DEFINE m == Len(c) - 1
             a == SubSeq(c, 1, m)
  <1>5. m \in Nat /\ m <= Len(c) /\ Len(c) \in DOMAIN c /\ c[Len(c)] = n /\ m + 1 = Len(c)
    BY <1>1, <1>2, <1>3
  <1>6. a \in Seq(Nat) /\ Len(a) = m /\ \A k \in 1..m : a[k] = c[k]
    <2> HIDE DEF m
    <2> QED
      BY <1>1, <1>5, Prefix
  <1> HIDE DEF a
  <1>7. DOMAIN a = 1..m /\ \A k \in 1..m : k \in DOMAIN c /\ k < Len(c)
    BY <1>1, <1>5, <1>6
  <1> HIDE DEF m
  <1>8. ASSUME NEW k \in DOMAIN a
        PROVE  a[k] = c[k] /\ c[k] \in 1..n - 1
    <2>1. k \in DOMAIN c /\ k < Len(c) /\ a[k] = c[k]
      BY <1>6, <1>7
    <2>2. c[k] < c[Len(c)]
      BY <2>1, <1>5 DEF ChainOK
    <2>3. c[k] \in 1..n
      BY <2>1 DEF ChainOK
    <2> QED
      BY <2>1, <2>2, <2>3, <1>5
  <1>9. ASSUME NEW k \in 1..n - 1, Linked(t[k])
        PROVE  \E j \in DOMAIN a : a[j] = k
    <2>1. k \in 1..n /\ k # n /\ Linked(s[k])
      BY <1>9
    <2>2. PICK j \in DOMAIN c : c[j] = k
      BY <2>1 DEF ChainOK
    <2>3. j # Len(c)
      BY <2>1, <2>2, <1>5
    <2>4. j \in 1..m
      BY <2>3, <1>1, <1>5
    <2> QED
      BY <2>2, <2>4, <1>6, <1>7
  <1>10. ASSUME NEW k \in DOMAIN a
         PROVE  a[k] \in 1..n - 1 /\ Linked(t[a[k]]) /\ Segment[t[a[k]].port] = k
    <2>1. a[k] = c[k] /\ c[k] \in 1..n - 1
      BY <1>8
    <2>2. Linked(s[c[k]]) /\ Segment[s[c[k]].port] = k
      BY <1>7 DEF ChainOK
    <2> QED
      BY <2>1, <2>2
  <1>11. ASSUME NEW k \in DOMAIN a, NEW j \in DOMAIN a, k < j
         PROVE  a[k] < a[j]
    BY <1>7, <1>8, <1>11 DEF ChainOK
  <1>12. ChainOK(t, a)
    BY <1>6, <1>9, <1>10, <1>11 DEF ChainOK
  <1> QED
    BY <1>12, <1>4 DEF a, m

-----------------------------------------------------------------------------
(* The steps, as seen by the chain.                                        *)

LEMMA ChainStep ==
    ASSUME ChainInv, NEW w \in Workers, DOMAIN chain' = Workers,
           \A v \in Workers \ {w} : /\ chain'[v] = chain[v] /\ stack'[v] = stack[v]
                                    /\ outcome'[v] = outcome[v],
           outcome'[w] = "running" => ChainOK(stack'[w], chain'[w])
    PROVE  ChainInv'
  <1>1. ASSUME NEW v \in Workers, outcome'[v] = "running"
        PROVE  ChainOK(stack'[v], chain'[v])
    <2>1. CASE v = w
      BY <2>1, <1>1
    <2>2. CASE v # w
      BY <2>2, <1>1 DEF ChainInv, Active
    <2> QED
      BY <2>1, <2>2
  <1> QED
    BY <1>1 DEF ChainInv, Active

(* The types of the state after a step.                                    *)
LEMMA NextStacks ==
    ASSUME WeavingInv, WeavingInv', ChainInv
    PROVE  /\ DOMAIN stack = Workers /\ DOMAIN outcome = Workers /\ DOMAIN chain = Workers
           /\ DOMAIN stack' = Workers /\ DOMAIN outcome' = Workers
           /\ \A w \in Workers : stack[w] \in Seq(Frame) /\ stack'[w] \in Seq(Frame)
  <1>1. \A w \in Workers : stack[w] \in Seq(Frame)
    BY DEF WeavingInv, WorkerOK, StackOK
  <1>2. \A w \in Workers : stack'[w] \in Seq(Frame)
    BY DEF WeavingInv, WorkerOK, StackOK
  <1> QED
    BY <1>1, <1>2 DEF WeavingInv, ChainInv

(* The innermost frame goes on: what SetTop does.                          *)
LEMMA TopSet ==
    ASSUME WeavingInv, WeavingInv', ChainInv, NEW w \in Workers, Active(w), NEW u, SetTop(w, u)
    PROVE  LET n == Len(stack[w])
           IN  /\ n \in Nat \ {0} /\ Len(stack'[w]) = n /\ stack'[w][n] = u
               /\ \A k \in 1..n - 1 : stack'[w][k] = stack[w][k]
               /\ \A v \in Workers \ {w} : stack'[v] = stack[v]
  <1> DEFINE s == stack[w]
             t == ReplaceTop(s, u)
             n == Len(s)
  <1>1. DOMAIN stack = Workers /\ s \in Seq(Frame) /\ stack'[w] \in Seq(Frame)
    BY NextStacks
  <1>2. s # << >>
    BY ActiveFacts
  <1>3. stack'[w] = t /\ \A v \in Workers \ {w} : stack'[v] = stack[v]
    BY <1>1, SetTopStack
  <1>4. n \in Nat \ {0} /\ n \in 1..n /\ DOMAIN s = 1..n
    BY <1>1, <1>2
  <1>5. /\ DOMAIN t = 1..n /\ t[n] = u /\ \A k \in 1..n - 1 : t[k] = s[k]
    <2> HIDE DEF s, n
    <2>1. DOMAIN t = DOMAIN s /\ t[n] = u
      BY <1>4 DEF ReplaceTop, n
    <2>2. ASSUME NEW k \in 1..n - 1
          PROVE  t[k] = s[k]
      <3>1. k \in DOMAIN s /\ k # n
        BY <1>4
      <3> QED
        BY <3>1 DEF ReplaceTop, n
    <2> QED
      BY <2>1, <2>2, <1>4
  <1> HIDE DEF t
  <1>6. Len(t) = n
    <2>1. t \in Seq(Frame)
      BY <1>1, <1>3
    <2>2. Len(t) \in Nat /\ DOMAIN t = 1..Len(t)
      BY <2>1
    <2> HIDE DEF n
    <2>3. Len(t) \in 1..Len(t) \/ Len(t) = 0
      BY <2>2
    <2>4. Len(t) <= n
      BY <2>2, <2>3, <1>4, <1>5
    <2>5. n <= Len(t)
      BY <2>2, <1>4, <1>5
    <2>6. Len(t) \in Nat /\ n \in Nat
      BY <2>2, <1>4
    <2> QED
      BY <2>4, <2>5, <2>6
  <1> QED
    BY <1>3, <1>4, <1>5, <1>6

LEMMA MediaChain ==
    ASSUME WeavingInv, WeavingInv', ChainInv, NEW w \in Workers, NEW phase,
           At(w, "media", phase), NEW u, SetTop(w, u), u.port = Top(w).port,
           UNCHANGED <<chain, outcome>>
    PROVE  ChainInv'
  <1> DEFINE s == stack[w]
             n == Len(s)
             t == stack'[w]
  <1>1. Active(w) /\ Media(Top(w)) /\ ~ Param(Top(w)) /\ Top(w) = s[n]
    BY MediaTop, AtFacts
  <1>2. /\ n \in Nat \ {0} /\ Len(t) = n /\ t[n] = u
        /\ \A k \in 1..n - 1 : t[k] = s[k]
        /\ \A v \in Workers \ {w} : stack'[v] = stack[v]
    BY <1>1, TopSet
  <1>3. ~ Linked(s[n]) /\ ~ Linked(t[n])
    BY <1>1, <1>2 DEF Linked, Param
  <1> HIDE DEF s, n, t
  <1>4. \A k \in 1..n : Linked(s[k]) \/ Linked(t[k]) => t[k] = s[k]
    <2> SUFFICES ASSUME NEW k \in 1..n, k # n
                 PROVE  t[k] = s[k]
      BY <1>3
    <2>1. k \in 1..n - 1
      BY <1>2
    <2> QED
      BY <2>1, <1>2
  <1>5. SameLinks(s, t)
    BY <1>2, <1>4 DEF SameLinks, n
  <1>6. ChainOK(s, chain[w])
    BY <1>1 DEF ChainInv, s
  <1>7. ChainOK(t, chain[w])
    BY <1>5, <1>6, ChainKept
  <1> QED
    BY <1>2, <1>7, ChainStep DEF t, ChainInv

LEMMA CallChain ==
    ASSUME WeavingInv, WeavingInv', ChainInv, NEW w \in Workers, Active(w), NEW port, NEW h,
           Call(w, Feed(port, h)), UNCHANGED <<chain, outcome>>
    PROVE  ChainInv'
  <1> DEFINE s == stack[w]
             n == Len(s)
             c == Feed(port, h)
             t == Append(s, c)
  <1>1. DOMAIN stack = Workers /\ s \in Seq(Frame) /\ stack'[w] \in Seq(Frame) /\ n \in Nat
    BY NextStacks
  <1>2. stack' = [stack EXCEPT ![w] = t]
    BY DEF Call
  <1>3. c.phase = "pull"
    BY DEF Feed
  <1> HIDE DEF c
  <1>4. Len(t) = n + 1 /\ t[n + 1] = c /\ \A k \in 1..n : t[k] = s[k]
    BY <1>1
  <1>5. stack'[w] = t /\ \A v \in Workers \ {w} : stack'[v] = stack[v]
    BY <1>1, <1>2
  <1> HIDE DEF t, s
  <1>6. ~ Linked(t[n + 1])
    BY <1>3, <1>4 DEF Linked
  <1>7. SameLinks(s, t)
    <2> HIDE DEF n
    <2>1. ASSUME NEW k \in 1..n + 1, Linked(t[k])
          PROVE  k \in 1..n /\ Linked(s[k])
      <3>1. k # n + 1
        BY <2>1, <1>6
      <3>2. k \in 1..n
        BY <3>1, <1>1
      <3> QED
        BY <3>2, <2>1, <1>4
    <2>2. ASSUME NEW k \in 1..n, Linked(s[k])
          PROVE  k \in 1..n + 1 /\ Linked(t[k]) /\ t[k].port = s[k].port
      BY <2>2, <1>1, <1>4
    <2> QED
      BY <2>1, <2>2, <1>4 DEF SameLinks, n
  <1>8. ChainOK(s, chain[w])
    BY DEF ChainInv, s
  <1>9. ChainOK(t, chain[w])
    BY <1>7, <1>8, ChainKept
  <1> QED
    BY <1>5, <1>9, ChainStep DEF ChainInv

LEMMA AttachChain ==
    ASSUME WeavingInv, WeavingInv', ChainInv, NEW w \in Workers, Attach(w)
    PROVE  ChainInv'
  <1> DEFINE s == stack[w]
             n == Len(s)
             t == stack'[w]
             f == Top(w)
             u == [f EXCEPT !.phase = "weft"]
  <1>1. /\ At(w, "param", "pull") /\ Segment[f.port] = Len(chain[w]) + 1
        /\ chain' = [chain EXCEPT ![w] = Append(@, Depth(w))]
        /\ SetTop(w, u) /\ outcome' = outcome
    BY DEF Attach
  <1>2. Active(w) /\ f \in Frame /\ f.phase = "pull" /\ Param(f) /\ f = s[n]
    BY <1>1, ParamTop
  <1>3. u.phase = "weft" /\ u.port = f.port
    BY <1>2 DEF Frame
  <1> HIDE DEF u
  <1>4. /\ n \in Nat \ {0} /\ Len(t) = n /\ t[n] = u
        /\ \A k \in 1..n - 1 : t[k] = s[k]
        /\ \A v \in Workers \ {w} : stack'[v] = stack[v]
    BY <1>1, <1>2, TopSet
  <1>5. ~ Linked(s[n]) /\ Linked(t[n]) /\ Segment[t[n].port] = Len(chain[w]) + 1
    BY <1>1, <1>2, <1>3, <1>4 DEF Linked, Param
  <1>6. ChainOK(s, chain[w]) /\ DOMAIN chain = Workers
    BY <1>2 DEF ChainInv
  <1> HIDE DEF s, t, f
  <1>7. ChainOK(t, Append(chain[w], n))
    <2>1. Len(s) = n
      OBVIOUS
    <2> HIDE DEF n
    <2> QED
      BY <2>1, <1>4, <1>5, <1>6, ChainAttached
  <1>8. Depth(w) = n
    BY DEF Depth, s
  <1> DEFINE c == Append(chain[w], n)
  <1>9. chain' = [chain EXCEPT ![w] = c]
    BY <1>1, <1>8
  <1> HIDE DEF c
  <1>10. /\ chain'[w] = c /\ DOMAIN chain' = Workers
         /\ \A v \in Workers \ {w} : chain'[v] = chain[v]
    BY <1>6, <1>9
  <1>11. ChainOK(stack'[w], chain'[w])
    BY <1>7, <1>10 DEF c, t
  <1> QED
    BY <1>1, <1>4, <1>10, <1>11, ChainStep

(* A call returns to its caller, which is linked as before.                *)
LEMMA ReturnLinks ==
    ASSUME WeavingInv, WeavingInv', ChainInv, NEW w \in Workers, Active(w),
           NEW h \in Handle, Return(w, h)
    PROVE  LET n == Len(stack[w])
           IN  /\ n \in Nat \ {0}
               /\ \A v \in Workers \ {w} : stack'[v] = stack[v] /\ outcome'[v] = outcome[v]
               /\ n = 1 => outcome'[w] = "done"
               /\ n # 1 => /\ Len(stack'[w]) = n - 1
                           /\ \A k \in 1..n - 1 :
                                /\ Linked(stack'[w][k]) <=> Linked(stack[w][k])
                                /\ stack'[w][k].port = stack[w][k].port
  <1> DEFINE s == stack[w]
             n == Len(s)
  <1>1. /\ DOMAIN stack = Workers /\ DOMAIN outcome = Workers /\ s \in Seq(Frame)
    BY NextStacks
  <1>2. n \in Nat \ {0} /\ Depth(w) = n /\ StackOK(s, given[w], bp)
    BY ActiveFacts
  <1>3. CASE n = 1
    <2>1. stack' = [stack EXCEPT ![w] = << >>] /\ outcome' = [outcome EXCEPT ![w] = "done"]
      BY <1>2, <1>3 DEF Return
    <2> QED
      BY <2>1, <1>1, <1>2, <1>3
  <1>4. CASE n # 1
    <2> DEFINE m == n - 1
               c == s[m]
               u == Got(c, h)
               t == Append(SubSeq(s, 1, n - 2), u)
    <2>1. n > 1 /\ m \in Nat \ {0} /\ m \in 1..n /\ m < n
      <3>1. n \in Nat \ {0} /\ n # 1
        BY <1>2, <1>4
      <3> HIDE DEF n
      <3> QED
        BY <3>1
    <2>2. c \in Frame
      BY <2>1, <1>1
    <2>3. stack' = [stack EXCEPT ![w] = t] /\ outcome' = outcome
      BY <1>2, <1>4 DEF Return, Got
    <2>4. c.phase = IF Param(c) THEN "weft" ELSE "pull"
      BY <2>1, <1>2 DEF StackOK, FrameInv
    <2> HIDE DEF c
    <2>5. u \in Frame /\ u.port = c.port /\ (Linked(u) <=> Linked(c))
      <3>1. CASE Media(c)
        <4>1. u \in Frame /\ u.port = c.port /\ Media(u)
          BY <3>1, <2>2, GotMedia
        <4> HIDE DEF u
        <4> QED
          BY <4>1, <3>1, <2>2, KindOfFrame DEF Linked
      <3>2. CASE Param(c)
        <4>1. u \in Frame /\ u.port = c.port /\ Param(u) /\ u.phase = "fix"
          BY <3>2, <2>2, GotParam
        <4> HIDE DEF u
        <4> QED
          BY <4>1, <3>2, <2>4 DEF Linked
      <3> QED
        BY <3>1, <3>2, <2>2, KindOfFrame
    <2> HIDE DEF u
    <2>6. Len(t) = n - 1 /\ t[n - 1] = u /\ \A k \in 1..n - 2 : t[k] = s[k]
      BY <2>1, <2>5, <1>1, PoppedTo
    <2> HIDE DEF t
    <2>7. /\ stack'[w] = t
          /\ \A v \in Workers \ {w} : stack'[v] = stack[v] /\ outcome'[v] = outcome[v]
      BY <2>3, <1>1
    <2>8. ASSUME NEW k \in 1..n - 1
          PROVE  (Linked(t[k]) <=> Linked(s[k])) /\ t[k].port = s[k].port
      <3> HIDE DEF s
      <3>1. CASE k = m
        BY <3>1, <2>5, <2>6 DEF c
      <3>2. CASE k # m
        <4>1. k \in 1..n - 2
          BY <3>2, <2>1
        <4> QED
          BY <4>1, <2>6
      <3> QED
        BY <3>1, <3>2
    <2> QED
      BY <2>6, <2>7, <2>8, <1>2, <1>4
  <1> QED
    BY <1>3, <1>4

LEMMA FixReturnChain ==
    ASSUME WeavingInv, WeavingInv', ChainInv, NEW w \in Workers, FixReturn(w)
    PROVE  ChainInv'
  <1> DEFINE f == Top(w)
             s == stack[w]
             n == Len(s)
             t == stack'[w]
             h == f.out[ResultSlot[f.port]]
  <1>1. /\ At(w, "media", "fix") /\ f.freed = Len(f.in) /\ f.emitted = Len(f.out)
        /\ Return(w, h) /\ chain' = chain
    BY DEF FixReturn
  <1>2. Active(w) /\ f.phase = "fix" /\ Media(f) /\ ~ Param(f)
    BY <1>1, MediaTop
  <1>3. s # << >> /\ f = s[n] /\ RawProvider(bp) /\ StackOK(s, given[w], bp)
    BY <1>2, ActiveFacts
  <1>4. h \in Handle
    <2>1. Returned(s, h, given[w], bp)
      BY <1>1, <1>2, <1>3, MediaReturns
    <2> QED
      BY <2>1 DEF Returned
  <1> HIDE DEF h
  <1>5. /\ n \in Nat \ {0}
        /\ \A v \in Workers \ {w} : stack'[v] = stack[v] /\ outcome'[v] = outcome[v]
        /\ n = 1 => outcome'[w] = "done"
        /\ n # 1 => /\ Len(t) = n - 1
                    /\ \A k \in 1..n - 1 : /\ Linked(t[k]) <=> Linked(s[k])
                                           /\ t[k].port = s[k].port
    BY <1>1, <1>2, <1>4, ReturnLinks
  <1>6. ~ Linked(s[n])
    BY <1>2, <1>3 DEF Linked
  <1>7. ChainOK(s, chain[w]) /\ DOMAIN chain = Workers
    BY <1>2 DEF ChainInv
  <1>8. Len(s) = n
    OBVIOUS
  <1> HIDE DEF s, t, n, f
  <1>9. ASSUME outcome'[w] = "running"
        PROVE  ChainOK(t, chain[w])
    <2>1. n # 1
      BY <1>5, <1>9
    <2>2. ASSUME NEW k \in 1..n, Linked(s[k])
          PROVE  k \in 1..n - 1
      BY <2>2, <1>5, <1>6
    <2>3. \A k \in 1..n - 1 : k \in 1..n
      BY <1>5
    <2>4. SameLinks(s, t)
      BY <2>1, <2>2, <2>3, <1>5, <1>8 DEF SameLinks
    <2> QED
      BY <2>4, <1>7, ChainKept
  <1> QED
    BY <1>1, <1>5, <1>7, <1>9, ChainStep DEF t

LEMMA DetachChain ==
    ASSUME WeavingInv, WeavingInv', ChainInv, NEW w \in Workers, Detach(w)
    PROVE  ChainInv'
  <1> DEFINE f == Top(w)
             s == stack[w]
             n == Len(s)
             t == stack'[w]
             c == Severed(w)
  <1>1. /\ At(w, "param", "fix") /\ Return(w, f.outBuff)
        /\ chain' = [chain EXCEPT ![w] = c]
    BY DEF Detach
  <1>2. Active(w) /\ f.phase = "fix" /\ Param(f) /\ f \in Frame /\ f = s[n]
    BY <1>1, ParamTop
  <1>3. f.outBuff \in Handle
    BY <1>2, KindOfFrame
  <1>4. /\ n \in Nat \ {0}
        /\ \A v \in Workers \ {w} : stack'[v] = stack[v] /\ outcome'[v] = outcome[v]
        /\ n = 1 => outcome'[w] = "done"
        /\ n # 1 => /\ Len(t) = n - 1
                    /\ \A k \in 1..n - 1 : /\ Linked(t[k]) <=> Linked(s[k])
                                           /\ t[k].port = s[k].port
    BY <1>1, <1>2, <1>3, ReturnLinks
  <1>5. Linked(s[n])
    BY <1>2 DEF Linked
  <1>6. ChainOK(s, chain[w]) /\ DOMAIN chain = Workers
    BY <1>2 DEF ChainInv
  <1>7. c = SubSeq(chain[w], 1, Segment[s[n].port] - 1)
    BY <1>2 DEF Severed
  <1>8. Len(s) = n
    OBVIOUS
  <1> HIDE DEF s, t, n, f, c
  <1>9. ASSUME outcome'[w] = "running"
        PROVE  ChainOK(t, c)
    BY <1>4, <1>5, <1>6, <1>7, <1>8, <1>9, ChainDetached
  <1>10. /\ chain'[w] = c /\ DOMAIN chain' = Workers
         /\ \A v \in Workers \ {w} : chain'[v] = chain[v]
    BY <1>1, <1>6
  <1> QED
    BY <1>4, <1>9, <1>10, ChainStep DEF t

LEMMA PullChain ==
    ASSUME WeavingInv, WeavingInv', ChainInv, NEW w \in Workers, NEW b \in BOOLEAN, Pull(w, b)
    PROVE  ChainInv'
  <1> DEFINE g == IF b THEN NewBuff ELSE NullHandle
             f == Feed(Root, g)
             t == <<f>>
  <1>1. /\ stack' = [stack EXCEPT ![w] = t] /\ chain' = [chain EXCEPT ![w] = << >>]
        /\ outcome' = [outcome EXCEPT ![w] = "running"]
    BY DEF Pull
  <1>2. f.phase = "pull"
    BY DEF Feed
  <1> HIDE DEF f
  <1>3. Len(t) = 1 /\ t[1] = f /\ \A k \in 1..Len(t) : k = 1
    OBVIOUS
  <1> HIDE DEF t
  <1>4. \A k \in 1..Len(t) : ~ Linked(t[k])
    BY <1>2, <1>3 DEF Linked
  <1>5. << >> \in Seq(Nat) /\ DOMAIN << >> = {}
    OBVIOUS
  <1>6. ChainOK(t, << >>)
    BY <1>4, <1>5 DEF ChainOK
  <1>7. DOMAIN stack = Workers /\ DOMAIN outcome = Workers /\ DOMAIN chain = Workers
    BY NextStacks
  <1>8. /\ stack'[w] = t /\ chain'[w] = << >> /\ DOMAIN chain' = Workers
        /\ \A v \in Workers \ {w} : /\ chain'[v] = chain[v] /\ stack'[v] = stack[v]
                                    /\ outcome'[v] = outcome[v]
    BY <1>1, <1>7
  <1> QED
    BY <1>6, <1>8, ChainStep

(* The call is over.                                                       *)
LEMMA EndChain ==
    ASSUME WeavingInv, WeavingInv', ChainInv, NEW w \in Workers, Conclude(w) \/ Throw(w)
    PROVE  ChainInv'
  <1>1. DOMAIN stack = Workers /\ DOMAIN outcome = Workers /\ DOMAIN chain = Workers
    BY NextStacks
  <1>2. /\ chain' = chain
        /\ \/ stack' = stack /\ outcome' = [outcome EXCEPT ![w] = "idle"]
           \/ /\ stack' = [stack EXCEPT ![w] = << >>]
              /\ outcome' = [outcome EXCEPT ![w] = "failed"]
    BY DEF Conclude, Throw
  <1>3. /\ outcome'[w] # "running"
        /\ \A v \in Workers \ {w} : stack'[v] = stack[v] /\ outcome'[v] = outcome[v]
    BY <1>1, <1>2
  <1> QED
    BY <1>1, <1>2, <1>3, ChainStep

(* The other steps of the innermost frame of a media port keep the port.   *)
LEMMA MediaSteps ==
    ASSUME WeavingInv, WeavingInv', ChainInv, NEW w \in Workers,
           \/ Shed(w) \/ Weft(w) \/ ReleaseInput(w) \/ EmitOutput(w) \/ ReleaseOutput(w)
    PROVE  ChainInv'
  <1> DEFINE f == Top(w)
  <1>1. PICK phase, u : /\ At(w, "media", phase) /\ SetTop(w, u)
                        /\ f \in Frame => u.port = f.port
                        /\ UNCHANGED <<chain, outcome>>
    <2>1. CASE Shed(w)
      <3> DEFINE buff == IF TakesGiven(f) THEN f.outBuff ELSE NewBuff
                 u == [f EXCEPT !.out = Append(@, buff),
                                !.phase = IF Len(f.out) + 1 = Outs[f.port]
                                          THEN "weft" ELSE "pull"]
      <3>1. At(w, "media", "pull") /\ SetTop(w, u) /\ UNCHANGED <<chain, outcome>>
        BY <2>1 DEF Shed
      <3>2. f \in Frame => u.port = f.port
        BY DEF Frame
      <3> QED
        BY <3>1, <3>2
    <2>2. CASE Weft(w)
      <3> DEFINE u == [f EXCEPT !.phase = "fix"]
      <3>1. At(w, "media", "weft") /\ SetTop(w, u) /\ UNCHANGED <<chain, outcome>>
        BY <2>2 DEF Weft
      <3>2. f \in Frame => u.port = f.port
        BY DEF Frame
      <3> QED
        BY <3>1, <3>2
    <2>3. CASE ReleaseInput(w)
      <3> DEFINE u == [f EXCEPT !.freed = @ + 1]
      <3>1. At(w, "media", "fix") /\ SetTop(w, u) /\ UNCHANGED <<chain, outcome>>
        BY <2>3 DEF ReleaseInput
      <3>2. f \in Frame => u.port = f.port
        BY DEF Frame
      <3> QED
        BY <3>1, <3>2
    <2>4. CASE EmitOutput(w)
      <3> DEFINE u == IF f.emitted + 1 = ResultSlot[f.port]
                      THEN [f EXCEPT !.emitted = f.emitted + 1]
                      ELSE [f EXCEPT !.phase = "drop"]
      <3>1. At(w, "media", "fix") /\ SetTop(w, u) /\ UNCHANGED <<chain, outcome>>
        BY <2>4 DEF EmitOutput
      <3>2. f \in Frame => u.port = f.port
        BY DEF Frame
      <3> QED
        BY <3>1, <3>2
    <2>5. CASE ReleaseOutput(w)
      <3> DEFINE u == [f EXCEPT !.emitted = f.emitted + 1, !.phase = "fix"]
      <3>1. At(w, "media", "drop") /\ SetTop(w, u) /\ UNCHANGED <<chain, outcome>>
        BY <2>5 DEF ReleaseOutput
      <3>2. f \in Frame => u.port = f.port
        BY DEF Frame
      <3> QED
        BY <3>1, <3>2
    <2> QED
      BY <2>1, <2>2, <2>3, <2>4, <2>5
  <1>2. f \in Frame
    BY <1>1, MediaTop
  <1> QED
    BY <1>1, <1>2, MediaChain

LEMMA ChainNext ==
    ASSUME WeavingInv, WeavingInv', ChainInv, [Next]_vars
    PROVE  ChainInv'
  <1>1. CASE UNCHANGED vars
    BY <1>1 DEF ChainInv, Active, vars
  <1>2. ASSUME NEW w \in Workers, NEW b \in BOOLEAN, Pull(w, b)
        PROVE  ChainInv'
    BY <1>2, PullChain
  <1>3. ASSUME NEW w \in Workers, Conclude(w) \/ Throw(w)
        PROVE  ChainInv'
    BY <1>3, EndChain
  <1>4. ASSUME NEW w \in Workers, Step(w)
        PROVE  ChainInv'
    <2>1. CASE \/ Shed(w) \/ Weft(w) \/ ReleaseInput(w) \/ EmitOutput(w) \/ ReleaseOutput(w)
      BY <2>1, MediaSteps
    <2>2. CASE PullLead(w)
      BY <2>2, CallChain DEF PullLead, At
    <2>3. CASE Delegate(w)
      BY <2>3, CallChain DEF Delegate, At
    <2>4. CASE FixReturn(w)
      BY <2>4, FixReturnChain
    <2>5. CASE Attach(w)
      BY <2>5, AttachChain
    <2>6. CASE Detach(w)
      BY <2>6, DetachChain
    <2> QED
      BY <1>4, <2>1, <2>2, <2>3, <2>4, <2>5, <2>6 DEF Step
  <1> QED
    BY <1>1, <1>2, <1>3, <1>4 DEF Next

LEMMA ChainScope ==
    ASSUME ChainInv
    PROVE  ChainInScope
  <1> SUFFICES ASSUME NEW w \in Workers, Active(w)
               PROVE  /\ Range(chain[w]) = {k \in 1..Depth(w) : Kind[stack[w][k].port] = "param"
                                                                /\ stack[w][k].phase # "pull"}
                      /\ \A i, j \in DOMAIN chain[w] : i < j => chain[w][i] < chain[w][j]
    BY DEF ChainInScope
  <1>1. ChainOK(stack[w], chain[w])
    BY DEF ChainInv
  <1>2. \A k : k \in Range(chain[w]) <=> k \in 1..Len(stack[w]) /\ Linked(stack[w][k])
    BY <1>1 DEF ChainOK, Range
  <1>3. Range(chain[w]) = {k \in 1..Depth(w) : Linked(stack[w][k])}
    BY <1>2 DEF Depth
  <1> QED
    BY <1>1, <1>3 DEF ChainOK, Linked, Param

(* The parameter blocks linked into the TurnoutSystem of a call are those  *)
(* of the parameter nodes whose delegate is being evaluated, in call order *)
(* (hetero-data.hpp checkedTraversal and checkedDetach): each block is the *)
(* segment its accessor type counts to, and fix() severs the chain at the  *)
(* block of the returning node, however the nodes are nested.              *)
THEOREM ChainAlwaysInScope == Spec => []ChainInScope
  <1>1. Init => ChainInv
    BY DEF Init, ChainInv, Active
  <1>2. WeavingInv /\ WeavingInv' /\ ChainInv /\ [Next]_vars => ChainInv'
    BY ChainNext
  <1>3. ChainInv => ChainInScope
    BY ChainScope
  <1> QED
    BY <1>1, <1>2, <1>3, WeavingSafety, PTL DEF Spec

=============================================================================
