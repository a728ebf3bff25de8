---------------------------- MODULE BufferProofs ----------------------------
(***************************************************************************)
(* The metadata of buffers agrees with the blocks, for any number of       *)
(* blocks and handles; embedded objects are built and destroyed in pairs.  *)
(***************************************************************************)
EXTENDS BufferProvider, TLAPS

(* A partial function into entries is what its domain and values say.      *)
LEMMA TableType ==
    ASSUME NEW t
    PROVE  t \in UNION {[S -> Entry] : S \in SUBSET Blocks}
             <=> DOMAIN t \subseteq Blocks /\ t \in [DOMAIN t -> Entry]
  OBVIOUS

(* The embedded constructor and destructor touch the object only.          *)
SameBut(q, p) ==
  /\ q \in ProviderType
  /\ q.table = p.table /\ q.pool = p.pool
  /\ q.outSeq = p.outSeq /\ q.released = p.released

LEMMA ObjectFields ==
    ASSUME NEW p \in ProviderType, NEW o \in [Blocks -> ObjectState]
    PROVE  /\ SameBut([p EXCEPT !.object = o], p)
           /\ [p EXCEPT !.object = o].object = o
  BY DEF ProviderType, SameBut

LEMMA CtorFields ==
    ASSUME NEW p \in ProviderType, NEW b \in DOMAIN p.table
    PROVE  /\ SameBut(InvokeCtor(p, b), p)
           /\ \A c \in Blocks \ {b} : InvokeCtor(p, b).object[c] = p.object[c]
           /\ InvokeCtor(p, b).object[b] =
                IF p.table[b].instanceFunc = "RAW" THEN p.object[b]
                ELSE IF p.object[b] = "live" THEN "wrecked" ELSE "live"
  <1>1. b \in Blocks /\ p.object \in [Blocks -> ObjectState]
    BY DEF ProviderType
  <1>2. CASE p.table[b].instanceFunc = "RAW"
    BY <1>2 DEF InvokeCtor, SameBut
  <1>3. CASE p.table[b].instanceFunc # "RAW"
    <2> DEFINE o == [p.object EXCEPT ![b] = IF @ = "live" THEN "wrecked" ELSE "live"]
    <2>1. InvokeCtor(p, b) = [p EXCEPT !.object = o]
      BY <1>3 DEF InvokeCtor, ProviderType
    <2>2. o \in [Blocks -> ObjectState]
      BY <1>1 DEF ObjectState
    <2>3. /\ o[b] = IF p.object[b] = "live" THEN "wrecked" ELSE "live"
          /\ \A c \in Blocks \ {b} : o[c] = p.object[c]
      BY <1>1
    <2> HIDE DEF o
    <2>4. SameBut([p EXCEPT !.object = o], p) /\ [p EXCEPT !.object = o].object = o
      BY <2>2, ObjectFields
    <2> QED
      BY <1>3, <2>1, <2>3, <2>4
  <1> QED
    BY <1>2, <1>3

LEMMA DtorFields ==
    ASSUME NEW p \in ProviderType, NEW b \in DOMAIN p.table
    PROVE  /\ SameBut(InvokeDtor(p, b), p)
           /\ \A c \in Blocks \ {b} : InvokeDtor(p, b).object[c] = p.object[c]
           /\ InvokeDtor(p, b).object[b] =
                IF p.table[b].instanceFunc = "RAW" THEN p.object[b]
                ELSE IF p.object[b] = "live" THEN "gone" ELSE "wrecked"
  <1>1. b \in Blocks /\ p.object \in [Blocks -> ObjectState]
    BY DEF ProviderType
  <1>2. CASE p.table[b].instanceFunc = "RAW"
    BY <1>2 DEF InvokeDtor, SameBut
  <1>3. CASE p.table[b].instanceFunc # "RAW"
    <2> DEFINE o == [p.object EXCEPT ![b] = IF @ = "live" THEN "gone" ELSE "wrecked"]
    <2>1. InvokeDtor(p, b) = [p EXCEPT !.object = o]
      BY <1>3 DEF InvokeDtor, ProviderType
    <2>2. o \in [Blocks -> ObjectState]
      BY <1>1 DEF ObjectState
    <2>3. /\ o[b] = IF p.object[b] = "live" THEN "gone" ELSE "wrecked"
          /\ \A c \in Blocks \ {b} : o[c] = p.object[c]
      BY <1>1
    <2> HIDE DEF o
    <2>4. SameBut([p EXCEPT !.object = o], p) /\ [p EXCEPT !.object = o].object = o
      BY <2>2, ObjectFields
    <2> QED
      BY <1>3, <2>1, <2>3, <2>4
  <1> QED
    BY <1>2, <1>3

(* Replacing one entry of the table.                                       *)
LEMMA TableFields ==
    ASSUME NEW p \in ProviderType, NEW b \in DOMAIN p.table, NEW e \in Entry
    PROVE  LET q == [p EXCEPT !.table[b] = e]
           IN  /\ q \in ProviderType
               /\ q.table = [p.table EXCEPT ![b] = e]
               /\ q.pool = p.pool /\ q.outSeq = p.outSeq
               /\ q.released = p.released /\ q.object = p.object
  <1> DEFINE t == [p.table EXCEPT ![b] = e]
  <1>1. [p EXCEPT !.table[b] = e] = [p EXCEPT !.table = t]
    BY DEF ProviderType
  <1>2. p.table \in [DOMAIN p.table -> Entry] /\ DOMAIN p.table \subseteq Blocks
    BY TableType DEF ProviderType
  <1>3. t \in UNION {[S -> Entry] : S \in SUBSET Blocks}
    BY <1>2, TableType
  <1> HIDE DEF t
  <1>4. [p EXCEPT !.table = t] \in ProviderType
    BY <1>3 DEF ProviderType
  <1>5. /\ [p EXCEPT !.table = t].table = t /\ [p EXCEPT !.table = t].pool = p.pool
        /\ [p EXCEPT !.table = t].outSeq = p.outSeq
        /\ [p EXCEPT !.table = t].released = p.released
        /\ [p EXCEPT !.table = t].object = p.object
    BY DEF ProviderType
  <1> QED
    BY <1>1, <1>4, <1>5 DEF t

(* What the operations do to the fields of the provider.                   *)
LEMMA LockFields ==
    ASSUME NEW p \in ProviderType, CanCreate(p), NEW func \in Handler, NEW ok \in BOOLEAN
    PROVE  LET q == LockBuffer(p, func, ok)
               b == NextBlock(p)
           IN  /\ b \in Blocks /\ b \notin Created(p)
               /\ q \in ProviderType
               /\ q.pool = p.pool \union {b}
               /\ q.outSeq = p.outSeq /\ q.released = p.released
               /\ DOMAIN q.table = DOMAIN p.table \union {b}
               /\ \A c \in DOMAIN p.table \ {b} : q.table[c] = p.table[c]
               /\ q.table[b] = [state |-> IF ok THEN "LOCKED" ELSE "FREE",
                                buffer |-> ok, instanceFunc |-> func]
               /\ \A c \in Blocks \ {b} : q.object[c] = p.object[c]
               /\ ok => q.object[b] = IF func = "RAW" THEN p.object[b]
                                      ELSE IF p.object[b] = "live" THEN "wrecked" ELSE "live"
  <1> DEFINE b == NextBlock(p)
             e == [state |-> "LOCKED", buffer |-> TRUE, instanceFunc |-> func]
             t == [c \in DOMAIN p.table \union {b} |-> IF c = b THEN e ELSE p.table[c]]
             p1 == [p EXCEPT !.pool = @ \union {b}]
             st == [p1 EXCEPT !.table = t]
  <1>1. b \in Blocks /\ b \notin Created(p)
    BY DEF CanCreate, NextBlock
  <1>2. p.table \in [DOMAIN p.table -> Entry] /\ DOMAIN p.table \subseteq Blocks
    BY TableType DEF ProviderType
  <1>3. e \in Entry
    BY DEF Entry, BufferState
  <1>4. t \in UNION {[S -> Entry] : S \in SUBSET Blocks}
    BY <1>1, <1>2, <1>3, TableType
  <1>5. /\ DOMAIN t = DOMAIN p.table \union {b} /\ t[b] = e
        /\ \A c \in DOMAIN p.table \ {b} : t[c] = p.table[c]
    OBVIOUS
  <1>6. p1 \in ProviderType /\ p1.table = p.table
    BY <1>1 DEF ProviderType
  <1>7. LockBuffer(p, func, ok) = IF ok THEN InvokeCtor(st, b) ELSE MarkFree(st, b)
    BY <1>6 DEF LockBuffer, StoreAsLocked
  <1> HIDE DEF t, e, b
  <1>8. /\ st \in ProviderType /\ st.table = t /\ st.pool = p.pool \union {b}
        /\ st.outSeq = p.outSeq /\ st.released = p.released /\ st.object = p.object
    BY <1>1, <1>4 DEF ProviderType
  <1> HIDE DEF st
  <1>9. b \in DOMAIN st.table
    BY <1>5, <1>8
  <1>10. CASE ok
    <2>1. LockBuffer(p, func, ok) = InvokeCtor(st, b)
      BY <1>7, <1>10
    <2> DEFINE r == InvokeCtor(st, b)
    <2>2. /\ SameBut(r, st)
          /\ \A c \in Blocks \ {b} : r.object[c] = st.object[c]
          /\ r.object[b] = IF st.table[b].instanceFunc = "RAW" THEN st.object[b]
                           ELSE IF st.object[b] = "live" THEN "wrecked" ELSE "live"
      BY <1>8, <1>9, CtorFields
    <2> HIDE DEF r
    <2>3. st.table[b].instanceFunc = func
      BY <1>5, <1>8 DEF e
    <2>4. LockBuffer(p, func, ok) = r
      BY <2>1 DEF r
    <2>5. e = [state |-> IF ok THEN "LOCKED" ELSE "FREE", buffer |-> ok, instanceFunc |-> func]
      BY <1>10 DEF e
    <2>6. /\ r \in ProviderType /\ r.pool = p.pool \union {b}
          /\ r.outSeq = p.outSeq /\ r.released = p.released
          /\ DOMAIN r.table = DOMAIN p.table \union {b}
          /\ \A c \in DOMAIN p.table \ {b} : r.table[c] = p.table[c]
          /\ r.table[b] = e
          /\ \A c \in Blocks \ {b} : r.object[c] = p.object[c]
          /\ r.object[b] = IF func = "RAW" THEN p.object[b]
                           ELSE IF p.object[b] = "live" THEN "wrecked" ELSE "live"
      BY <1>5, <1>8, <2>2, <2>3 DEF SameBut
    <2> QED
      BY <1>1, <2>4, <2>5, <2>6 DEF b
  <1>11. CASE ~ok
    <2> DEFINE d == InvokeDtor(st, b)
    <2>0. /\ SameBut(d, st)
          /\ \A c \in Blocks \ {b} : d.object[c] = st.object[c]
      BY <1>8, <1>9, DtorFields
    <2>1. /\ d \in ProviderType /\ d.table = t /\ d.pool = p.pool \union {b}
          /\ d.outSeq = p.outSeq /\ d.released = p.released
          /\ \A c \in Blocks \ {b} : d.object[c] = p.object[c]
      BY <1>8, <2>0 DEF SameBut
    <2>2. Freed(e) = [state |-> "FREE", buffer |-> FALSE, instanceFunc |-> func]
      <3>1. e \in [state : BufferState, buffer : BOOLEAN, instanceFunc : Handler]
        BY <1>3 DEF Entry
      <3>2. e.instanceFunc = func
        BY DEF e
      <3> QED
        BY <3>1, <3>2 DEF Freed
    <2>3. Freed(e) \in Entry
      BY <2>2 DEF Entry, BufferState
    <2>4. LockBuffer(p, func, ok) = [d EXCEPT !.table[b] = Freed(e)]
      BY <1>5, <1>7, <1>11, <2>1 DEF MarkFree, Invalidate
    <2> HIDE DEF d
    <2>5. /\ [d EXCEPT !.table[b] = Freed(e)] \in ProviderType
          /\ [d EXCEPT !.table[b] = Freed(e)].table = [t EXCEPT ![b] = Freed(e)]
          /\ [d EXCEPT !.table[b] = Freed(e)].pool = d.pool
          /\ [d EXCEPT !.table[b] = Freed(e)].outSeq = d.outSeq
          /\ [d EXCEPT !.table[b] = Freed(e)].released = d.released
          /\ [d EXCEPT !.table[b] = Freed(e)].object = d.object
      BY <1>5, <2>1, <2>3, TableFields
    <2>6. [t EXCEPT ![b] = Freed(e)] = [c \in DOMAIN t |-> IF c = b THEN Freed(e) ELSE t[c]]
      OBVIOUS
    <2>7. Freed(e) = [state |-> IF ok THEN "LOCKED" ELSE "FREE", buffer |-> ok, instanceFunc |-> func]
      BY <1>11, <2>2
    <2> DEFINE r == LockBuffer(p, func, ok)
    <2>8. /\ r \in ProviderType /\ r.pool = p.pool \union {b}
          /\ r.outSeq = p.outSeq /\ r.released = p.released
          /\ r.table = [c \in DOMAIN t |-> IF c = b THEN Freed(e) ELSE t[c]]
          /\ \A c \in Blocks \ {b} : r.object[c] = p.object[c]
      BY <2>1, <2>4, <2>5, <2>6
    <2> HIDE DEF r
    <2>9. /\ DOMAIN r.table = DOMAIN p.table \union {b}
          /\ \A c \in DOMAIN p.table \ {b} : r.table[c] = p.table[c]
          /\ r.table[b] = Freed(e)
      BY <1>5, <2>8
    <2> QED
      BY <1>1, <1>11, <2>7, <2>8, <2>9 DEF b, r
  <1> QED
    BY <1>10, <1>11

LEMMA ForgetFields ==
    ASSUME NEW p \in ProviderType, NEW b \in DOMAIN p.table, NEW e \in Entry
    PROVE  LET q == ForgetEntry(DetachBuffer([p EXCEPT !.table[b] = e], b), b)
           IN  /\ q \in ProviderType
               /\ DOMAIN q.table = DOMAIN p.table \ {b}
               /\ \A c \in DOMAIN p.table \ {b} : q.table[c] = p.table[c]
               /\ q.pool = p.pool /\ q.outSeq = p.outSeq
               /\ q.released = p.released \union {b} /\ q.object = p.object
  <1> DEFINE f == [p EXCEPT !.table[b] = e]
             d == [f EXCEPT !.released = @ \union {b}]
             t == [c \in DOMAIN d.table \ {b} |-> d.table[c]]
  <1>1. b \in Blocks
    BY DEF ProviderType
  <1>2. /\ f \in ProviderType /\ f.table = [p.table EXCEPT ![b] = e]
        /\ f.pool = p.pool /\ f.outSeq = p.outSeq
        /\ f.released = p.released /\ f.object = p.object
    BY TableFields
  <1> HIDE DEF f
  <1>3. /\ d \in ProviderType /\ d.table = f.table /\ d.pool = f.pool
        /\ d.outSeq = f.outSeq /\ d.object = f.object
        /\ d.released = p.released \union {b}
    BY <1>1, <1>2 DEF ProviderType
  <1>4. ForgetEntry(DetachBuffer(f, b), b) = [d EXCEPT !.table = t]
    BY DEF ForgetEntry, DetachBuffer
  <1> HIDE DEF d
  <1>5. d.table \in [DOMAIN d.table -> Entry] /\ DOMAIN d.table \subseteq Blocks
    BY <1>3, TableType DEF ProviderType
  <1>6. t \in UNION {[S -> Entry] : S \in SUBSET Blocks}
    BY <1>5, TableType
  <1>7. /\ DOMAIN t = DOMAIN p.table \ {b}
        /\ \A c \in DOMAIN p.table \ {b} : t[c] = p.table[c]
    BY <1>2, <1>3
  <1> HIDE DEF t
  <1>8. /\ [d EXCEPT !.table = t] \in ProviderType /\ [d EXCEPT !.table = t].table = t
        /\ [d EXCEPT !.table = t].pool = d.pool /\ [d EXCEPT !.table = t].outSeq = d.outSeq
        /\ [d EXCEPT !.table = t].released = d.released
        /\ [d EXCEPT !.table = t].object = d.object
    BY <1>3, <1>6 DEF ProviderType
  <1> DEFINE q == [d EXCEPT !.table = t]
  <1>9. ForgetEntry(DetachBuffer([p EXCEPT !.table[b] = e], b), b) = q
    BY <1>4 DEF f
  <1> HIDE DEF q
  <1>10. /\ q \in ProviderType
         /\ DOMAIN q.table = DOMAIN p.table \ {b}
         /\ \A c \in DOMAIN p.table \ {b} : q.table[c] = p.table[c]
         /\ q.pool = p.pool /\ q.outSeq = p.outSeq
         /\ q.released = p.released \union {b} /\ q.object = p.object
    BY <1>2, <1>3, <1>7, <1>8 DEF q
  <1> QED
    BY <1>9, <1>10

(* Replacing the state or the handler of one entry.                        *)
LEMMA MarkedEntry ==
    ASSUME NEW e \in Entry
    PROVE  /\ [e EXCEPT !.state = "EMITTED"] \in Entry
           /\ [e EXCEPT !.state = "EMITTED"].state = "EMITTED"
           /\ [e EXCEPT !.state = "EMITTED"].buffer = e.buffer
           /\ [e EXCEPT !.state = "EMITTED"].instanceFunc = e.instanceFunc
           /\ [e EXCEPT !.instanceFunc = "Object"] \in Entry
           /\ [e EXCEPT !.instanceFunc = "Object"].state = e.state
           /\ [e EXCEPT !.instanceFunc = "Object"].buffer = e.buffer
           /\ [e EXCEPT !.instanceFunc = "Object"].instanceFunc = "Object"
  BY DEF Entry, BufferState, Handler

LEMMA MarkFields ==
    ASSUME NEW p \in ProviderType, NEW b \in DOMAIN p.table
    PROVE  LET q == MarkEmitted(p, b)
           IN  /\ q \in ProviderType
               /\ DOMAIN q.table = DOMAIN p.table
               /\ \A c \in DOMAIN p.table \ {b} : q.table[c] = p.table[c]
               /\ q.table[b].state = "EMITTED" /\ q.table[b].buffer = p.table[b].buffer
               /\ q.table[b].instanceFunc = p.table[b].instanceFunc
               /\ q.pool = p.pool /\ q.outSeq = p.outSeq
               /\ q.released = p.released /\ q.object = p.object
  <1> DEFINE e == [p.table[b] EXCEPT !.state = "EMITTED"]
             q == [p EXCEPT !.table[b] = e]
  <1>1. p.table \in [DOMAIN p.table -> Entry]
    BY TableType DEF ProviderType
  <1>2. /\ e \in Entry /\ e.state = "EMITTED" /\ e.buffer = p.table[b].buffer
        /\ e.instanceFunc = p.table[b].instanceFunc
    BY <1>1, MarkedEntry
  <1>3. MarkEmitted(p, b) = q
    BY DEF MarkEmitted
  <1> HIDE DEF e
  <1>4. /\ q \in ProviderType /\ q.table = [p.table EXCEPT ![b] = e]
        /\ q.pool = p.pool /\ q.outSeq = p.outSeq
        /\ q.released = p.released /\ q.object = p.object
    BY <1>2, TableFields
  <1> HIDE DEF q
  <1>5. /\ DOMAIN q.table = DOMAIN p.table /\ q.table[b] = e
        /\ \A c \in DOMAIN p.table \ {b} : q.table[c] = p.table[c]
    BY <1>1, <1>4
  <1> QED
    BY <1>2, <1>3, <1>4, <1>5

LEMMA AttachFields ==
    ASSUME NEW p \in ProviderType, NEW b \in DOMAIN p.table
    PROVE  LET q == AttachTypeHandler(p, b)
           IN  /\ q \in ProviderType
               /\ DOMAIN q.table = DOMAIN p.table
               /\ \A c \in DOMAIN p.table \ {b} : q.table[c] = p.table[c]
               /\ q.table[b].state = p.table[b].state /\ q.table[b].buffer = p.table[b].buffer
               /\ q.table[b].instanceFunc = "Object"
               /\ q.pool = p.pool /\ q.outSeq = p.outSeq
               /\ q.released = p.released /\ q.object = p.object
  <1> DEFINE e == [p.table[b] EXCEPT !.instanceFunc = "Object"]
             q == [p EXCEPT !.table[b] = e]
  <1>1. p.table \in [DOMAIN p.table -> Entry]
    BY TableType DEF ProviderType
  <1>2. /\ e \in Entry /\ e.state = p.table[b].state /\ e.buffer = p.table[b].buffer
        /\ e.instanceFunc = "Object"
    BY <1>1, MarkedEntry
  <1>3. AttachTypeHandler(p, b) = q
    BY DEF AttachTypeHandler
  <1> HIDE DEF e
  <1>4. /\ q \in ProviderType /\ q.table = [p.table EXCEPT ![b] = e]
        /\ q.pool = p.pool /\ q.outSeq = p.outSeq
        /\ q.released = p.released /\ q.object = p.object
    BY <1>2, TableFields
  <1> HIDE DEF q
  <1>5. /\ DOMAIN q.table = DOMAIN p.table /\ q.table[b] = e
        /\ \A c \in DOMAIN p.table \ {b} : q.table[c] = p.table[c]
    BY <1>1, <1>4
  <1> QED
    BY <1>2, <1>3, <1>4, <1>5

(* The move from the pool to the output sequence.                          *)
LEMMA MoveFields ==
    ASSUME NEW p \in ProviderType, NEW b \in Blocks
    PROVE  LET q == [p EXCEPT !.pool = @ \ {b}, !.outSeq = Append(@, b)]
           IN  /\ q \in ProviderType /\ q.table = p.table
               /\ q.pool = p.pool \ {b} /\ q.outSeq = Append(p.outSeq, b)
               /\ q.released = p.released /\ q.object = p.object
  <1> DEFINE q1 == [p EXCEPT !.pool = p.pool \ {b}]
             s == Append(p.outSeq, b)
  <1>1. s \in Seq(Blocks)
    BY DEF ProviderType
  <1>2. /\ q1 \in ProviderType /\ q1.table = p.table /\ q1.pool = p.pool \ {b}
        /\ q1.outSeq = p.outSeq /\ q1.released = p.released /\ q1.object = p.object
    BY DEF ProviderType
  <1>3. [p EXCEPT !.pool = @ \ {b}, !.outSeq = Append(@, b)] = [q1 EXCEPT !.outSeq = s]
    BY <1>2
  <1> HIDE DEF q1, s
  <1> DEFINE q == [q1 EXCEPT !.outSeq = s]
  <1>4. /\ q \in ProviderType /\ q.table = q1.table /\ q.pool = q1.pool
        /\ q.outSeq = s /\ q.released = q1.released /\ q.object = q1.object
    BY <1>1, <1>2 DEF ProviderType
  <1> HIDE DEF q
  <1>5. [p EXCEPT !.pool = @ \ {b}, !.outSeq = Append(@, b)] = q
    BY <1>3 DEF q
  <1>6. /\ q \in ProviderType /\ q.table = p.table
        /\ q.pool = p.pool \ {b} /\ q.outSeq = Append(p.outSeq, b)
        /\ q.released = p.released /\ q.object = p.object
    BY <1>2, <1>4 DEF s
  <1> QED
    BY <1>5, <1>6

LEMMA AppendFacts ==
    ASSUME NEW s \in Seq(Blocks), NEW b \in Blocks
    PROVE  /\ Range(Append(s, b)) = Range(s) \union {b}
           /\ IsInjective(s) /\ b \notin Range(s) => IsInjective(Append(s, b))
  <1> DEFINE a == Append(s, b)
  <1>1. /\ Len(a) = Len(s) + 1 /\ a[Len(s) + 1] = b
        /\ \A i \in 1..Len(s) : a[i] = s[i]
        /\ DOMAIN a = 1..Len(a) /\ DOMAIN s = 1..Len(s) /\ Len(s) \in Nat
    OBVIOUS
  <1> HIDE DEF a
  <1>2. DOMAIN a = DOMAIN s \union {Len(s) + 1}
    BY <1>1
  <1>3. Range(a) = Range(s) \union {b}
    BY <1>1, <1>2 DEF Range
  <1>4. ASSUME IsInjective(s), b \notin Range(s)
        PROVE  IsInjective(a)
    BY <1>1, <1>2, <1>4 DEF IsInjective, Range
  <1> QED
    BY <1>3, <1>4 DEF a

-----------------------------------------------------------------------------
(* The inductive invariant.                                                *)

\* A FREE entry has no pointer, and the pointer says which states a client
\* may meet; blocks once released were created.
Pointers(p) ==
  /\ p.released \subseteq Created(p)
  /\ \A b \in DOMAIN p.table :
        p.table[b].state \in IF p.table[b].buffer THEN {"LOCKED", "EMITTED"} ELSE {"FREE"}

Consistent(p) ==
  p \in ProviderType /\ OwnedOnce(p) /\ MetadataMatches(p) /\ Pointers(p)

\* Blocks are only added, and none of the old ones gets locked again.
Onward(p, q) ==
  /\ Created(p) \subseteq Created(q)
  /\ \A c \in Created(p) : Locked(q, c) => Locked(p, c)

LEMMA LockConsistent ==
    ASSUME NEW p, Consistent(p), CanCreate(p), NEW func \in Handler, NEW ok \in BOOLEAN
    PROVE  /\ Consistent(LockBuffer(p, func, ok))
           /\ ObjectsBalanced(p) => ObjectsBalanced(LockBuffer(p, func, ok))
           /\ Onward(p, LockBuffer(p, func, ok))
           /\ NextBlock(p) \in Created(LockBuffer(p, func, ok))
  <1> DEFINE q == LockBuffer(p, func, ok)
             b == NextBlock(p)
  <1>0. p \in ProviderType
    BY DEF Consistent
  <1>1. /\ b \in Blocks /\ b \notin Created(p)
        /\ q \in ProviderType
        /\ q.pool = p.pool \union {b}
        /\ q.outSeq = p.outSeq /\ q.released = p.released
        /\ DOMAIN q.table = DOMAIN p.table \union {b}
        /\ \A c \in DOMAIN p.table \ {b} : q.table[c] = p.table[c]
        /\ q.table[b] = [state |-> IF ok THEN "LOCKED" ELSE "FREE",
                         buffer |-> ok, instanceFunc |-> func]
        /\ \A c \in Blocks \ {b} : q.object[c] = p.object[c]
        /\ ok => q.object[b] = IF func = "RAW" THEN p.object[b]
                               ELSE IF p.object[b] = "live" THEN "wrecked" ELSE "live"
    BY <1>0, LockFields
  <1> HIDE DEF q, b
  <1>2. /\ q.table[b].state = IF ok THEN "LOCKED" ELSE "FREE"
        /\ q.table[b].buffer = ok /\ q.table[b].instanceFunc = func
    BY <1>1
  <1>3. OwnedOnce(q)
    BY <1>1 DEF Consistent, OwnedOnce, Created
  <1>4. b \notin p.released /\ b \notin DOMAIN p.table
    BY <1>1 DEF Consistent, Pointers, MetadataMatches
  <1>5. MetadataMatches(q)
    <2>1. DOMAIN q.table = Created(q) \ q.released
      BY <1>1, <1>4 DEF Consistent, MetadataMatches, Created
    <2>2. \A c \in DOMAIN q.table : q.table[c].state = "EMITTED" <=> c \in Range(q.outSeq)
      BY <1>1, <1>2, <1>4 DEF Consistent, MetadataMatches, Created
    <2> QED
      BY <2>1, <2>2 DEF MetadataMatches
  <1>6. Pointers(q)
    BY <1>1, <1>2, <1>4 DEF Consistent, Pointers, Created
  <1>7. ASSUME ObjectsBalanced(p)
        PROVE  ObjectsBalanced(q)
    <2>1. p.object[b] # "live" /\ p.object[b] # "wrecked"
      BY <1>1, <1>4, <1>7 DEF ObjectsBalanced, BrokenOnLock, Locked, Known
    <2>2. ok => /\ q.object[b] # "wrecked"
                /\ q.object[b] = "live" <=> func = "Object"
      BY <1>1, <1>7, <2>1 DEF Handler
    <2>3. \A c \in Blocks \ {b} : /\ c \in DOMAIN q.table <=> c \in DOMAIN p.table
                                 /\ c \in DOMAIN p.table => q.table[c] = p.table[c]
      BY <1>1
    <2>4. ~ok => BrokenOnLock(q, b)
      BY <1>1, <1>2 DEF BrokenOnLock, Known
    <2>5. ASSUME NEW c \in Blocks, ~ BrokenOnLock(q, c)
          PROVE  /\ q.object[c] # "wrecked"
                 /\ q.object[c] = "live" <=> Locked(q, c) /\ q.table[c].instanceFunc = "Object"
      <3>1. CASE c = b
        BY <1>1, <1>2, <2>2, <2>4, <2>5, <3>1 DEF Locked, Known
      <3>2. CASE c # b
        BY <1>1, <1>7, <2>3, <2>5, <3>2 DEF ObjectsBalanced, BrokenOnLock, Locked, Known
      <3> QED
        BY <3>1, <3>2
    <2> QED
      BY <2>5 DEF ObjectsBalanced
  <1>8. Onward(p, q)
    <2>1. Created(q) = Created(p) \union {b}
      BY <1>1 DEF Created
    <2>2. \A c \in Created(p) : c # b
      BY <1>1
    <2> QED
      BY <1>1, <2>1, <2>2 DEF Onward, Locked, Known
  <1>9. b \in Created(q)
    BY <1>1 DEF Created
  <1> QED
    BY <1>1, <1>3, <1>5, <1>6, <1>7, <1>8, <1>9 DEF Consistent, q, b

LEMMA EmitConsistent ==
    ASSUME NEW p, Consistent(p), NEW b, Locked(p, b)
    PROVE  /\ Consistent(EmitBuffer(p, b))
           /\ ObjectsBalanced(p) => ObjectsBalanced(EmitBuffer(p, b))
           /\ Onward(p, EmitBuffer(p, b))
  <1>0. /\ p \in ProviderType /\ b \in DOMAIN p.table /\ b \in Blocks
        /\ p.table[b].buffer /\ p.table[b].state \in {"LOCKED", "EMITTED"}
    BY TableType DEF Consistent, Locked, Known, Pointers, ProviderType
  <1>1. CASE p.table[b].state = "EMITTED"
    <2>1. b \notin p.pool
      BY <1>0, <1>1 DEF Consistent, MetadataMatches, OwnedOnce
    <2>2. EmitBuffer(p, b) = p
      BY <1>0, <1>1, <2>1 DEF EmitBuffer, MayMark, Known
    <2> QED
      BY <2>2 DEF Onward
  <1>2. CASE p.table[b].state = "LOCKED"
    <2> DEFINE m == [p EXCEPT !.pool = @ \ {b}, !.outSeq = Append(@, b)]
               q == MarkEmitted(m, b)
    <2>1. b \in p.pool /\ b \notin Range(p.outSeq)
      BY <1>0, <1>2 DEF Consistent, MetadataMatches, OwnedOnce, Created
    <2>2. EmitBuffer(p, b) = q
      BY <1>0, <1>2, <2>1 DEF EmitBuffer, MayMark, Known
    <2>3. /\ m \in ProviderType /\ m.table = p.table
          /\ m.pool = p.pool \ {b} /\ m.outSeq = Append(p.outSeq, b)
          /\ m.released = p.released /\ m.object = p.object
      BY <1>0, MoveFields
    <2> HIDE DEF m
    <2>4. /\ q \in ProviderType
          /\ DOMAIN q.table = DOMAIN m.table
          /\ \A c \in DOMAIN m.table \ {b} : q.table[c] = m.table[c]
          /\ q.table[b].state = "EMITTED" /\ q.table[b].buffer = m.table[b].buffer
          /\ q.table[b].instanceFunc = m.table[b].instanceFunc
          /\ q.pool = m.pool /\ q.outSeq = m.outSeq
          /\ q.released = m.released /\ q.object = m.object
      BY <1>0, <2>3, MarkFields
    <2> HIDE DEF q
    <2>5. /\ Range(q.outSeq) = Range(p.outSeq) \union {b} /\ IsInjective(q.outSeq)
      <3>1. p.outSeq \in Seq(Blocks) /\ IsInjective(p.outSeq)
        BY <1>0 DEF Consistent, OwnedOnce, ProviderType
      <3> QED
        BY <1>0, <2>1, <2>3, <2>4, <3>1, AppendFacts
    <2>6. OwnedOnce(q)
      BY <2>3, <2>4, <2>5 DEF Consistent, OwnedOnce
    <2>7. Created(q) = Created(p)
      BY <2>1, <2>3, <2>4, <2>5 DEF Created
    <2>8. MetadataMatches(q)
      BY <2>3, <2>4, <2>5, <2>7 DEF Consistent, MetadataMatches
    <2>9. Pointers(q)
      BY <1>0, <2>3, <2>4, <2>7 DEF Consistent, Pointers
    <2>10. ObjectsBalanced(p) => ObjectsBalanced(q)
      <3>1. \A c \in DOMAIN p.table : /\ q.table[c].buffer = p.table[c].buffer
                                     /\ q.table[c].instanceFunc = p.table[c].instanceFunc
                                     /\ q.table[c].state = "FREE" <=> p.table[c].state = "FREE"
        BY <1>2, <2>3, <2>4
      <3> QED
        BY <2>3, <2>4, <3>1 DEF ObjectsBalanced, BrokenOnLock, Locked, Known
    <2>11. Onward(p, q)
      BY <2>3, <2>4, <2>7 DEF Onward, Locked, Known
    <2> QED
      BY <2>2, <2>4, <2>6, <2>8, <2>9, <2>10, <2>11 DEF Consistent
  <1> QED
    BY <1>0, <1>1, <1>2

(* Dropping the entry of a block known, when its object is not left alive. *)
LEMMA ForgetConsistent ==
    ASSUME NEW p, Consistent(p), NEW b \in DOMAIN p.table, NEW q \in ProviderType,
           DOMAIN q.table = DOMAIN p.table \ {b},
           \A c \in DOMAIN p.table \ {b} : q.table[c] = p.table[c],
           q.pool = p.pool, q.outSeq = p.outSeq, q.released = p.released \union {b},
           \A c \in Blocks \ {b} : q.object[c] = p.object[c]
    PROVE  /\ Consistent(q)
           /\ ObjectsBalanced(p) /\ q.object[b] \notin {"live", "wrecked"}
                => ObjectsBalanced(q)
           /\ Onward(p, q)
  <1>1. OwnedOnce(q) /\ Created(q) = Created(p)
    BY DEF Consistent, OwnedOnce, Created
  <1>2. MetadataMatches(q)
    BY <1>1 DEF Consistent, MetadataMatches
  <1>3. Pointers(q)
    BY <1>1 DEF Consistent, Pointers, MetadataMatches
  <1>4. ASSUME ObjectsBalanced(p), q.object[b] \notin {"live", "wrecked"}
        PROVE  ObjectsBalanced(q)
    <2>1. \A c \in Blocks \ {b} : /\ c \in DOMAIN q.table <=> c \in DOMAIN p.table
                                 /\ c \in DOMAIN p.table => q.table[c] = p.table[c]
      OBVIOUS
    <2> QED
      BY <1>4, <2>1 DEF ObjectsBalanced, BrokenOnLock, Locked, Known
  <1>5. Onward(p, q)
    BY <1>1 DEF Onward, Locked, Known
  <1> QED
    BY <1>1, <1>2, <1>3, <1>4, <1>5 DEF Consistent

LEMMA ReleaseConsistent ==
    ASSUME NEW p, Consistent(p), NEW b, Locked(p, b)
    PROVE  /\ Consistent(ReleaseBuffer(p, b))
           /\ ObjectsBalanced(p) => ObjectsBalanced(ReleaseBuffer(p, b))
           /\ Onward(p, ReleaseBuffer(p, b))
  <1> DEFINE d == InvokeDtor(p, b)
             e == Freed(d.table[b])
             q == ForgetEntry(DetachBuffer([d EXCEPT !.table[b] = e], b), b)
  <1>0. /\ p \in ProviderType /\ b \in DOMAIN p.table /\ b \in Blocks
        /\ p.table[b].buffer /\ p.table[b].state \in {"LOCKED", "EMITTED"}
        /\ p.table[b] \in Entry
    BY TableType DEF Consistent, Locked, Known, Pointers, ProviderType
  <1>1. ReleaseBuffer(p, b) = q
    BY <1>0 DEF ReleaseBuffer, MayMark, Known, MarkFree, Invalidate
  <1>2. /\ SameBut(d, p)
        /\ \A c \in Blocks \ {b} : d.object[c] = p.object[c]
        /\ d.object[b] = IF p.table[b].instanceFunc = "RAW" THEN p.object[b]
                         ELSE IF p.object[b] = "live" THEN "gone" ELSE "wrecked"
    BY <1>0, DtorFields
  <1> HIDE DEF d
  <1>3. d \in ProviderType /\ d.table = p.table /\ d.pool = p.pool
        /\ d.outSeq = p.outSeq /\ d.released = p.released
    BY <1>2 DEF SameBut
  <1>4. e \in Entry
    BY <1>0, <1>3 DEF Freed, Entry, BufferState
  <1> HIDE DEF e
  <1>5. /\ q \in ProviderType
        /\ DOMAIN q.table = DOMAIN d.table \ {b}
        /\ \A c \in DOMAIN d.table \ {b} : q.table[c] = d.table[c]
        /\ q.pool = d.pool /\ q.outSeq = d.outSeq
        /\ q.released = d.released \union {b} /\ q.object = d.object
    BY <1>0, <1>3, <1>4, ForgetFields
  <1> HIDE DEF q
  <1>6. ObjectsBalanced(p) => q.object[b] \notin {"live", "wrecked"}
    <2>1. ObjectsBalanced(p) => /\ p.object[b] # "wrecked"
                                /\ p.object[b] = "live" <=> p.table[b].instanceFunc = "Object"
      BY <1>0 DEF ObjectsBalanced, BrokenOnLock, Locked, Known
    <2>2. p.table[b].instanceFunc \in {"RAW", "Object"}
      BY <1>0 DEF Entry, Handler
    <2> QED
      BY <1>2, <1>5, <2>1, <2>2
  <1>7. /\ Consistent(q)
        /\ ObjectsBalanced(p) /\ q.object[b] \notin {"live", "wrecked"} => ObjectsBalanced(q)
        /\ Onward(p, q)
    BY <1>0, <1>2, <1>3, <1>5, ForgetConsistent
  <1> QED
    BY <1>1, <1>6, <1>7

(* create(), when the constructor succeeds, and when it throws.            *)
LEMMA CreateConsistent ==
    ASSUME NEW p, Consistent(p), NEW b, CanAttach(p, b)
    PROVE  /\ Consistent(InvokeCtor(AttachTypeHandler(p, b), b))
           /\ ObjectsBalanced(p) => ObjectsBalanced(InvokeCtor(AttachTypeHandler(p, b), b))
           /\ Consistent(EmergencyCleanup(AttachTypeHandler(p, b), b))
           /\ ObjectsBalanced(p) => ObjectsBalanced(EmergencyCleanup(AttachTypeHandler(p, b), b))
           /\ Onward(p, InvokeCtor(AttachTypeHandler(p, b), b))
           /\ Onward(p, EmergencyCleanup(AttachTypeHandler(p, b), b))
  <1> DEFINE a == AttachTypeHandler(p, b)
             r == InvokeCtor(a, b)
             e == Freed(a.table[b])
             q == ForgetEntry(DetachBuffer([a EXCEPT !.table[b] = e], b), b)
  <1>0. /\ p \in ProviderType /\ b \in DOMAIN p.table /\ b \in Blocks
        /\ p.table[b].buffer /\ p.table[b].instanceFunc = "RAW"
        /\ p.table[b].state # "FREE"
    BY TableType DEF Consistent, CanAttach, Locked, Known, ProviderType, Pointers
  <1>1. /\ a \in ProviderType
        /\ DOMAIN a.table = DOMAIN p.table
        /\ \A c \in DOMAIN p.table \ {b} : a.table[c] = p.table[c]
        /\ a.table[b].state = p.table[b].state /\ a.table[b].buffer = p.table[b].buffer
        /\ a.table[b].instanceFunc = "Object"
        /\ a.pool = p.pool /\ a.outSeq = p.outSeq
        /\ a.released = p.released /\ a.object = p.object
    BY <1>0, AttachFields
  <1>2. EmergencyCleanup(a, b) = q
    BY <1>0, <1>1 DEF EmergencyCleanup, Known, Invalidate
  <1> HIDE DEF a
  <1>3. /\ SameBut(r, a)
        /\ \A c \in Blocks \ {b} : r.object[c] = a.object[c]
        /\ r.object[b] = IF a.object[b] = "live" THEN "wrecked" ELSE "live"
    <2>1. /\ SameBut(r, a)
          /\ \A c \in Blocks \ {b} : r.object[c] = a.object[c]
          /\ r.object[b] = IF a.table[b].instanceFunc = "RAW" THEN a.object[b]
                           ELSE IF a.object[b] = "live" THEN "wrecked" ELSE "live"
      BY <1>0, <1>1, CtorFields
    <2> QED
      BY <1>1, <2>1
  <1> HIDE DEF r
  <1>4. Consistent(a)
    <2>1. OwnedOnce(a) /\ Created(a) = Created(p)
      BY <1>1 DEF Consistent, OwnedOnce, Created
    <2>2. MetadataMatches(a)
      BY <1>1, <2>1 DEF Consistent, MetadataMatches
    <2>3. Pointers(a)
      BY <1>1, <2>1 DEF Consistent, Pointers
    <2> QED
      BY <1>1, <2>1, <2>2, <2>3 DEF Consistent
  <1>5. Consistent(r)
    <2>1. OwnedOnce(r) /\ Created(r) = Created(a)
      BY <1>3, <1>4 DEF Consistent, OwnedOnce, Created, SameBut
    <2>2. MetadataMatches(r)
      BY <1>3, <1>4, <2>1 DEF Consistent, MetadataMatches, SameBut
    <2>3. Pointers(r)
      BY <1>3, <1>4, <2>1 DEF Consistent, Pointers, SameBut
    <2> QED
      BY <1>3, <2>1, <2>2, <2>3 DEF Consistent, SameBut
  <1>6. ObjectsBalanced(p) => p.object[b] \notin {"live", "wrecked"}
    BY <1>0 DEF ObjectsBalanced, BrokenOnLock, Locked, Known
  <1>7. ObjectsBalanced(p) => ObjectsBalanced(r)
    <2>1. DOMAIN r.table = DOMAIN p.table /\ r.table = a.table
      BY <1>1, <1>3 DEF SameBut
    <2>2. ObjectsBalanced(p) => r.object[b] = "live"
      BY <1>1, <1>3, <1>6
    <2>3. \A c \in Blocks \ {b} : r.object[c] = p.object[c]
      BY <1>1, <1>3
    <2>4. \A c \in DOMAIN p.table \ {b} : r.table[c] = p.table[c]
      BY <1>1, <2>1
    <2>5. b \in DOMAIN r.table /\ r.table[b].buffer /\ r.table[b].instanceFunc = "Object"
      BY <1>0, <1>1, <2>1
    <2>6. ASSUME ObjectsBalanced(p), NEW c \in Blocks, ~ BrokenOnLock(r, c)
          PROVE  /\ r.object[c] # "wrecked"
                 /\ r.object[c] = "live" <=> Locked(r, c) /\ r.table[c].instanceFunc = "Object"
      <3>1. CASE c = b
        BY <2>2, <2>5, <2>6, <3>1 DEF Locked, Known
      <3>2. CASE c # b
        BY <2>1, <2>3, <2>4, <2>6, <3>2 DEF ObjectsBalanced, BrokenOnLock, Locked, Known
      <3> QED
        BY <3>1, <3>2
    <2> QED
      BY <2>6 DEF ObjectsBalanced
  <1>8. e \in Entry
    BY <1>1 DEF Freed, Entry, BufferState, Handler
  <1> HIDE DEF e
  <1>9. /\ q \in ProviderType
        /\ DOMAIN q.table = DOMAIN a.table \ {b}
        /\ \A c \in DOMAIN a.table \ {b} : q.table[c] = a.table[c]
        /\ q.pool = a.pool /\ q.outSeq = a.outSeq
        /\ q.released = a.released \union {b} /\ q.object = a.object
    BY <1>0, <1>1, <1>8, ForgetFields
  <1> HIDE DEF q
  <1>10. /\ Consistent(q)
         /\ ObjectsBalanced(p) /\ q.object[b] \notin {"live", "wrecked"} => ObjectsBalanced(q)
         /\ Onward(p, q)
    BY <1>0, <1>1, <1>9, ForgetConsistent
  <1>11. Onward(p, r)
    <2>1. /\ Created(r) = Created(p) /\ DOMAIN r.table = DOMAIN p.table
          /\ \A c \in DOMAIN p.table : r.table[c].buffer = p.table[c].buffer
      BY <1>1, <1>3 DEF Created, SameBut
    <2> QED
      BY <2>1 DEF Onward, Locked, Known
  <1> QED
    BY <1>1, <1>2, <1>5, <1>6, <1>7, <1>9, <1>10, <1>11 DEF a, r

-----------------------------------------------------------------------------

\* A handle with a pointer stands for a block created once.
Pointing == \A h \in Handles : handle[h].ptr => handle[h].block \in Created(bp)

BufferInv ==
  /\ Consistent(bp) /\ ObjectsBalanced(bp)
  /\ handle \in [Handles -> Handle] /\ Pointing

LEMMA InitBuffers == Init => BufferInv
  <1> SUFFICES ASSUME Init PROVE BufferInv
    OBVIOUS
  <1>1. /\ bp.pool = {} /\ bp.outSeq = << >> /\ bp.released = {}
        /\ bp.object = [b \in Blocks |-> "raw"] /\ bp.table = [b \in {} |-> 0]
        /\ bp = NoProvider
    BY DEF Init, NoProvider
  <1>2. bp.table \in UNION {[S -> Entry] : S \in SUBSET Blocks}
    BY <1>1, TableType
  <1>3. bp \in ProviderType
    <2>1. bp.outSeq \in Seq(Blocks) /\ bp.object \in [Blocks -> ObjectState]
      BY <1>1 DEF ObjectState
    <2>2. bp = [table |-> bp.table, pool |-> bp.pool, outSeq |-> bp.outSeq,
                released |-> bp.released, object |-> bp.object]
      BY <1>1 DEF NoProvider
    <2>3. ASSUME NEW t \in UNION {[S -> Entry] : S \in SUBSET Blocks},
                 NEW o \in [Blocks -> ObjectState], NEW s \in Seq(Blocks),
                 NEW x \in SUBSET Blocks, NEW y \in SUBSET Blocks
          PROVE  [table |-> t, pool |-> x, outSeq |-> s, released |-> y, object |-> o]
                   \in ProviderType
      BY DEF ProviderType
    <2>4. bp.pool \in SUBSET Blocks /\ bp.released \in SUBSET Blocks
      BY <1>1
    <2>5. [table |-> bp.table, pool |-> bp.pool, outSeq |-> bp.outSeq,
           released |-> bp.released, object |-> bp.object] \in ProviderType
      BY <1>2, <2>1, <2>3, <2>4
    <2> QED
      BY <2>2, <2>5
  <1>4. Range(bp.outSeq) = {} /\ IsInjective(bp.outSeq)
    BY <1>1 DEF Range, IsInjective
  <1>5. OwnedOnce(bp) /\ MetadataMatches(bp) /\ Pointers(bp)
    BY <1>1, <1>4 DEF OwnedOnce, MetadataMatches, Pointers, Created
  <1>6. ObjectsBalanced(bp)
    BY <1>1 DEF ObjectsBalanced, BrokenOnLock, Locked, Known
  <1>7. handle \in [Handles -> Handle] /\ Pointing
    BY DEF Init, NullHandle, Handle, Pointing
  <1> QED
    BY <1>3, <1>5, <1>6, <1>7 DEF BufferInv, Consistent

(* Each call of a client preserves the invariant, and moves the provider on. *)
LEMMA StepBuffers ==
    ASSUME BufferInv, Next
    PROVE  BufferInv' /\ Onward(bp, bp')
  <1> DEFINE Goal == /\ Consistent(bp') /\ ObjectsBalanced(bp') /\ Onward(bp, bp')
                     /\ handle' \in [Handles -> Handle]
                     /\ \A g \in Handles : handle'[g].ptr => handle'[g].block \in Created(bp')
  <1>0. /\ Consistent(bp) /\ ObjectsBalanced(bp) /\ bp \in ProviderType
        /\ handle \in [Handles -> Handle]
        /\ \A g \in Handles : handle[g].ptr => handle[g].block \in Created(bp)
    BY DEF BufferInv, Consistent, Pointing
  <1>1. ASSUME NEW h \in Handles, NEW func \in Handler, NEW ok \in BOOLEAN, Lock(h, func, ok)
        PROVE  Goal
    <2>1. CanCreate(bp) /\ bp' = LockBuffer(bp, func, ok)
      BY <1>1 DEF Lock
    <2>2. /\ Consistent(bp') /\ ObjectsBalanced(bp')
          /\ Onward(bp, bp') /\ NextBlock(bp) \in Created(bp')
      BY <1>0, <2>1, LockConsistent
    <2>3. NextBlock(bp) \in Blocks
      BY <2>1 DEF CanCreate, NextBlock
    <2>4. handle' \in [Handles -> Handle]
      BY <1>0, <1>1, <2>3 DEF Lock, Handle
    <2>5. \A g \in Handles : \/ handle'[g] = handle[g]
                             \/ handle'[g].block = NextBlock(bp)
      BY <1>0, <1>1 DEF Lock
    <2> QED
      BY <1>0, <2>2, <2>4, <2>5 DEF Onward
  <1>2. ASSUME NEW h \in Handles, NEW g \in Handles, Copy(h, g)
        PROVE  Goal
    BY <1>0, <1>2 DEF Copy, Onward
  <1>3. ASSUME NEW h \in Handles, NEW ok \in BOOLEAN, Create(h, ok)
        PROVE  Goal
    <2> DEFINE b == handle[h].block
    <2>1. CanAttach(bp, b)
      BY <1>3 DEF Create
    <2>2. \/ bp' = InvokeCtor(AttachTypeHandler(bp, b), b)
          \/ bp' = EmergencyCleanup(AttachTypeHandler(bp, b), b)
      BY <1>3 DEF Create
    <2>3. Consistent(bp') /\ ObjectsBalanced(bp') /\ Onward(bp, bp')
      BY <1>0, <2>1, <2>2, CreateConsistent
    <2>4. handle' \in [Handles -> Handle]
      BY <1>0, <1>3 DEF Create, Handle
    <2>5. \A g \in Handles : handle'[g] = handle[g] \/ ~ handle'[g].ptr
      BY <1>0, <1>3 DEF Create, Handle
    <2> QED
      BY <1>0, <2>3, <2>4, <2>5 DEF Onward
  <1>4. ASSUME NEW h \in Handles, Emit(h)
        PROVE  Goal
    <2>1. Locked(bp, handle[h].block) /\ bp' = EmitBuffer(bp, handle[h].block) /\ handle' = handle
      BY <1>4 DEF Emit, Valid, IsValid
    <2>2. Consistent(bp') /\ ObjectsBalanced(bp') /\ Onward(bp, bp')
      BY <1>0, <2>1, EmitConsistent
    <2> QED
      BY <1>0, <2>1, <2>2 DEF Onward
  <1>5. ASSUME NEW h \in Handles, Release(h)
        PROVE  Goal
    <2>1. Locked(bp, handle[h].block) /\ bp' = ReleaseBuffer(bp, handle[h].block)
      BY <1>5 DEF Release, Valid, IsValid
    <2>2. Consistent(bp') /\ ObjectsBalanced(bp') /\ Onward(bp, bp')
      BY <1>0, <2>1, ReleaseConsistent
    <2>3. handle' \in [Handles -> Handle]
      BY <1>0, <1>5 DEF Release, Handle
    <2>4. \A g \in Handles : handle'[g] = handle[g] \/ ~ handle'[g].ptr
      BY <1>0, <1>5 DEF Release, Handle
    <2> QED
      BY <1>0, <2>2, <2>3, <2>4 DEF Onward
  <1>6. Goal
    BY <1>1, <1>2, <1>3, <1>4, <1>5 DEF Next
  <1> QED
    BY <1>6 DEF BufferInv, Pointing

(* A stuttering step changes neither provider nor handles.                 *)
LEMMA StutterBuffers ==
    ASSUME BufferInv, UNCHANGED vars
    PROVE  BufferInv'
  BY DEF BufferInv, Pointing, vars

(* The metadata and the blocks agree after any sequence of client calls,   *)
(* and every block is emitted at most once, also when constructors fail    *)
(* (BufferProvider::emitBuffer, releaseBuffer, BufferMetadata::lock).      *)
THEOREM BuffersConsistent == Spec => [](TypeOK /\ MetadataMatchesBlocks)
  <1>1. BufferInv /\ [Next]_vars => BufferInv'
    BY StepBuffers, StutterBuffers
  <1>2. BufferInv => TypeOK /\ MetadataMatchesBlocks
    BY DEF BufferInv, Consistent, TypeOK, MetadataMatchesBlocks
  <1> QED
    BY <1>1, <1>2, InitBuffers, PTL DEF Spec

(* Objects live in a buffer exactly while it is locked with a type handler, *)
(* also when create() fails or a buffer is emitted and released through     *)
(* copies; but for the buffers left FREE because the constructor threw out  *)
(* of lockBuffer() (BufferMetadata::store_as_locked).                       *)
THEOREM ObjectsPaired == Spec => []ObjectLifecycle
  <1>1. BufferInv /\ [Next]_vars => BufferInv'
    BY StepBuffers, StutterBuffers
  <1>2. BufferInv => ObjectLifecycle
    BY DEF BufferInv, ObjectLifecycle
  <1> QED
    BY <1>1, <1>2, InitBuffers, PTL DEF Spec

(* A handle that became invalid while it kept its value is never valid     *)
(* again, although its buffer may have been released through another copy  *)
(* and any number of buffers were locked since (releaseBuffer).            *)
THEOREM HandlesNeverRevived == Spec => NeverRevived
  <1>1. BufferInv /\ [Next]_vars => BufferInv'
    BY StepBuffers, StutterBuffers
  <1>2. BufferInv /\ [Next]_vars =>
          [\A h \in Handles : handle'[h] = handle[h] /\ ~ Valid(h) => ~ Valid(h)']_vars
    <2> SUFFICES ASSUME BufferInv, Next, NEW h \in Handles,
                        handle'[h] = handle[h], ~ Valid(h)
                 PROVE  ~ Valid(h)'
      OBVIOUS
    <2>1. Onward(bp, bp')
      BY StepBuffers
    <2>2. handle[h].ptr => handle[h].block \in Created(bp)
      BY DEF BufferInv, Pointing
    <2> QED
      BY <2>1, <2>2 DEF Onward, Valid, IsValid
  <1> QED
    BY <1>1, <1>2, InitBuffers, PTL DEF Spec, NeverRevived
=============================================================================
