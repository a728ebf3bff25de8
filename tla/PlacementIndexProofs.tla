------------------------ MODULE PlacementIndexProofs ------------------------
(***************************************************************************)
(* The tables of the placement index agree, and form a tree below root,    *)
(* after any sequence of operations and for any number of placements. The  *)
(* paths kept by the query focus lead to where they claim to lead, for any *)
(* number of handles and frames.                                           *)
(***************************************************************************)
EXTENDS QueryFocus, FiniteSetTheorems, WellFoundedInduction, SequenceTheorems, TLAPS

(* A scope exists before the elements added to it: the reason why there   *)
(* are no loops. The index never moves an element to another scope.       *)
ScopeFirst == \A i \in Contained \ {root} : tab[i] < i

(* The inductive invariant. *)
IndexInv == TypeOK /\ TablesAgree /\ ScopeFirst

(* What the recursive removal reaches: the element itself, with each scope *)
(* its contents, never root, and besides the element only members of such  *)
(* a scope.                                                                *)
LEMMA SubtreeFacts ==
    ASSUME TablesAgree, NEW id \in Contained \ {root}
    PROVE  /\ Subtree(id) \subseteq Contained
           /\ id \in Subtree(id) /\ root \notin Subtree(id)
           /\ \A i \in Contained \ {root} : tab[i] \in Subtree(id) => i \in Subtree(id)
           /\ \A i \in Subtree(id) \ {id} : tab[i] \in Subtree(id)
  <1> DEFINE T == Subtree(id)
             Closed(S) == \A s \in S : Contents(s) \subseteq S
  <1>0. /\ root \in Contained /\ tab[root] = root
        /\ \A i \in Contained : tab[i] \in Contained
        /\ \A s, i \in Contained : i \in Contents(s) <=> i # root /\ tab[i] = s
    BY DEF TablesAgree, Contents
  <1>1. \A x : x \in T <=> x \in Contained
                            /\ \A S \in SUBSET Contained : id \in S /\ Closed(S) => x \in S
    BY DEF Subtree
  <1>2. T \subseteq Contained /\ id \in T
    BY <1>1
  <1>3. root \notin T
    <2>1. Closed(Contained \ {root})
      BY <1>0 DEF Contents
    <2> QED
      BY <1>1, <2>1
  <1>4. ASSUME NEW i \in Contained \ {root}, tab[i] \in T
        PROVE  i \in T
    <2>1. SUFFICES ASSUME NEW S \in SUBSET Contained, id \in S, Closed(S)
                   PROVE  i \in S
      BY <1>1
    <2>2. tab[i] \in S
      BY <1>1, <1>4, <2>1
    <2>3. i \in Contents(tab[i])
      BY <1>0
    <2> QED
      BY <2>1, <2>2, <2>3
  <1>5. ASSUME NEW i \in T \ {id}
        PROVE  tab[i] \in T
    <2> DEFINE S == {x \in T : x = id \/ tab[x] \in T}
    <2>1. S \in SUBSET Contained /\ id \in S
      BY <1>2
    <2>2. Closed(S)
      <3>1. SUFFICES ASSUME NEW s \in S, NEW c \in Contents(s)
                     PROVE  c \in S
        OBVIOUS
      <3>2. c \in Contained \ {root} /\ tab[c] = s
        BY <1>0, <2>1, <3>1 DEF Contents
      <3> QED
        BY <1>4, <3>1, <3>2
    <2>3. i \in S
      BY <1>1, <2>1, <2>2
    <2> QED
      BY <2>3
  <1> QED
    BY <1>2, <1>3, <1>4, <1>5

LEMMA InitIndex == Init => IndexInv
  BY MaxIdsAssumption DEF Init, IndexInv, TypeOK, TablesAgree, ScopeFirst, SetupRoot, Contained

(* A purge starts over with a root of its own. *)
LEMMA PurgeIndex ==
    ASSUME IndexInv, Purge
    PROVE  IndexInv'
  <1>1. lastId \in 1 .. MaxIds /\ lastId' \in 1 .. MaxIds /\ root' = lastId'
    BY MaxIdsAssumption DEF IndexInv, TypeOK, Purge
  <1>2. tab' = [i \in {root'} |-> root'] /\ scopeTab' = {}
    BY DEF Purge, SetupRoot
  <1> QED
    BY <1>1, <1>2 DEF IndexInv, TypeOK, TablesAgree, ScopeFirst, Contained

LEMMA InsertIndex ==
    ASSUME IndexInv, NEW scope \in Contained, Insert(scope)
    PROVE  IndexInv'
  <1> DEFINE id == lastId'
  <1>1. /\ lastId \in 1 .. MaxIds /\ id \in 1 .. MaxIds /\ id = lastId + 1
        /\ root' = root /\ root \in 1 .. lastId
        /\ Contained \subseteq 1 .. lastId /\ id \notin Contained
    BY MaxIdsAssumption DEF IndexInv, TypeOK, Insert
  <1>2. /\ tab' = [i \in Contained \cup {id} |-> IF i = id THEN scope ELSE tab[i]]
        /\ scopeTab' = scopeTab \cup {<<scope, id>>}
    BY DEF Insert, AddEntry
  <1>3. /\ Contained' = Contained \cup {id}
        /\ tab'[id] = scope /\ \A i \in Contained : tab'[i] = tab[i]
    BY <1>1, <1>2 DEF Contained
  <1>4. TypeOK'
    BY <1>1, <1>2, <1>3 DEF IndexInv, TypeOK
  <1>5. TablesAgree'
    BY <1>1, <1>2, <1>3 DEF IndexInv, TablesAgree
  <1>6. ScopeFirst'
    BY <1>1, <1>3 DEF IndexInv, ScopeFirst
  <1> QED
    BY <1>4, <1>5, <1>6 DEF IndexInv

(* Removing a set of elements, with all the entries they have as members. *)
LEMMA DiscardIndex ==
    ASSUME IndexInv, NEW T \in SUBSET (Contained \ {root}),
           \A i \in Contained \ {root} : tab[i] \in T => i \in T,
           tab' = Discard(T), scopeTab' = {<<tab[i], i>> : i \in (Contained \ T) \ {root}},
           UNCHANGED <<root, lastId>>
    PROVE  IndexInv'
  <1>1. Contained' = Contained \ T /\ \A i \in Contained \ T : tab'[i] = tab[i]
    BY DEF Discard, Contained
  <1>2. TypeOK'
    BY <1>1 DEF IndexInv, TypeOK, Discard
  <1>3. TablesAgree'
    BY <1>1 DEF IndexInv, TablesAgree
  <1>4. ScopeFirst'
    BY <1>1 DEF IndexInv, ScopeFirst
  <1> QED
    BY <1>2, <1>3, <1>4 DEF IndexInv

LEMMA RemoveEntryIndex ==
    ASSUME IndexInv, NEW id \in Contained, RemoveEntry(id)
    PROVE  IndexInv'
  <1>1. id # root /\ Contents(id) = {} /\ tab' = Discard({id}) /\ UNCHANGED <<root, lastId>>
    BY DEF RemoveEntry
  <1>2. \A i \in Contained \ {root} : tab[i] # id
    BY <1>1 DEF IndexInv, TablesAgree, Contents
  <1>3. scopeTab' = {<<tab[i], i>> : i \in (Contained \ {id}) \ {root}}
    BY DEF RemoveEntry, IndexInv, TablesAgree
  <1> QED
    BY <1>1, <1>2, <1>3, DiscardIndex

LEMMA RemoveAllIndex ==
    ASSUME IndexInv, NEW id \in Contained \ {root}, RemoveAll(id)
    PROVE  IndexInv'
  <1> DEFINE T == Subtree(id)
  <1>1. /\ T \subseteq Contained /\ id \in T /\ root \notin T
        /\ \A i \in Contained \ {root} : tab[i] \in T => i \in T
        /\ \A i \in T \ {id} : tab[i] \in T
    BY SubtreeFacts DEF IndexInv
  <1>2. /\ tab' = Discard(T) /\ UNCHANGED <<root, lastId>>
        /\ scopeTab' = {e \in scopeTab : e[1] \notin T} \ {<<tab[id], id>>}
    BY DEF RemoveAll
  <1>3. scopeTab = {<<tab[i], i>> : i \in Contained \ {root}}
    BY DEF IndexInv, TablesAgree
  <1> HIDE DEF T
  <1>4. scopeTab' = {<<tab[i], i>> : i \in (Contained \ T) \ {root}}
    <2>1. ASSUME NEW e \in scopeTab'
          PROVE  \E i \in (Contained \ T) \ {root} : e = <<tab[i], i>>
      <3>1. PICK i \in Contained \ {root} : e = <<tab[i], i>>
        BY <1>2, <1>3, <2>1
      <3>2. tab[i] \notin T /\ i # id
        BY <1>2, <2>1, <3>1
      <3> QED
        BY <1>1, <3>1, <3>2
    <2>2. ASSUME NEW i \in (Contained \ T) \ {root}
          PROVE  <<tab[i], i>> \in scopeTab'
      BY <1>1, <1>2, <1>3
    <2> QED
      BY <2>1, <2>2
  <1> QED
    BY <1>1, <1>2, <1>4, DiscardIndex

LEMMA NextIndex == IndexInv /\ [Next]_index => IndexInv'
  <1> SUFFICES ASSUME IndexInv, [Next]_index
               PROVE  IndexInv'
    OBVIOUS
  <1>1. CASE UNCHANGED index
    BY <1>1 DEF index, IndexInv, TypeOK, TablesAgree, ScopeFirst, Contained
  <1>2. ASSUME NEW id \in Contained, Insert(id) \/ RemoveEntry(id) \/ Clear(id)
        PROVE  IndexInv'
    <2>1. CASE Clear(id)
      BY <2>1, PurgeIndex, RemoveAllIndex DEF Clear
    <2> QED
      BY <1>2, <2>1, InsertIndex, RemoveEntryIndex
  <1> QED
    BY <1>1, <1>2 DEF Next

(* Any sequence of insertions, removals and purges keeps both tables of    *)
(* the index in agreement.                                                 *)
THEOREM IndexConsistent == Spec => [](TypeOK /\ TablesAgree)
  <1>1. IndexInv => TypeOK /\ TablesAgree
    BY DEF IndexInv
  <1> QED
    BY <1>1, InitIndex, NextIndex, PTL DEF Spec

(* The smallest element missing from a set which contains root and, with   *)
(* each scope, the elements of this scope, would have its scope missing.   *)
LEMMA TreeFromOrder == IndexInv => AttachedBelowRoot
  <1> SUFFICES ASSUME IndexInv, NEW S \in SUBSET Contained, root \in S,
                      \A i \in Contained : tab[i] \in S => i \in S
               PROVE  S = Contained
    BY DEF AttachedBelowRoot
  <1> DEFINE T == Contained \ S
  <1>1. SUFFICES ASSUME T # {} PROVE FALSE
    OBVIOUS
  <1>2. T \subseteq Nat
    BY DEF IndexInv, TypeOK
  <1>3. PICK x \in T : \A y \in T : ~(<<y, x>> \in OpToRel(<, Nat))
    BY <1>1, <1>2, WFMin, NatLessThanWellFounded
  <1>4. tab[x] \in T /\ tab[x] < x
    BY <1>2 DEF IndexInv, TablesAgree, ScopeFirst
  <1>5. <<tab[x], x>> \in OpToRel(<, Nat)
    BY <1>2, <1>4 DEF OpToRel
  <1> QED
    BY <1>3, <1>4, <1>5

(* The placements form one tree below the model root at all times.         *)
THEOREM IndexIsTree == Spec => []AttachedBelowRoot
  BY TreeFromOrder, InitIndex, NextIndex, PTL DEF Spec

(* Counting: each element but root has exactly one entry in a scope.       *)
LEMMA CountEntries == IndexInv => NothingLeaked
  <1> SUFFICES ASSUME IndexInv
               PROVE  NothingLeaked
    OBVIOUS
  <1> DEFINE C == Contained \ {root}
             f == [i \in C |-> <<tab[i], i>>]
  <1>1. IsFiniteSet(Contained)
    <2>1. IsFiniteSet(1 .. lastId)
      BY FS_Interval DEF IndexInv, TypeOK
    <2> QED
      BY <2>1, FS_Subset DEF IndexInv, TypeOK
  <1>2. root \in Contained /\ \A i \in Contained : tab[i] \in Contained
    BY DEF IndexInv, TablesAgree
  <1>3. IsFiniteSet(C) /\ Cardinality(C) = Cardinality(Contained) - 1
    BY <1>1, <1>2, FS_RemoveElement
  <1>4. f \in Bijection(C, scopeTab)
    BY DEF Bijection, Injection, Surjection, IsInjective, IndexInv, TablesAgree
  <1>5. Cardinality(scopeTab) = Cardinality(C)
    BY <1>3, <1>4, FS_Bijection DEF ExistsBijection
  <1>6. Cardinality(Contained) \in Nat
    BY <1>1, FS_CardinalityType
  <1>7. Contained \cup {tab[i] : i \in Contained} \cup {root} = Contained
    BY <1>2
  <1>8. Cardinality(Contained) = Cardinality(scopeTab) + 1
    BY <1>3, <1>5, <1>6
  <1> QED
    BY <1>7, <1>8 DEF NothingLeaked

(* A purge leaks no placement and leaves no entry behind.                  *)
THEOREM IndexLeaksNothing == Spec => []NothingLeaked
  BY CountEntries, InitIndex, NextIndex, PTL DEF Spec

-----------------------------------------------------------------------------
(* The query focus *)

(* What is kept for each path of the stack; no ID is known which was not   *)
(* yet created, thus no path refers to a placement to be created later.    *)
PathOK(path) ==
    /\ path \in Seq(1 .. lastId)
    /\ Len(path) >= 1
    /\ Leaf(path) \in Contained =>
         /\ path[1] = root
         /\ \A k \in 2 .. Len(path) :
              path[k] \in Contained \ {root} /\ tab[path[k]] = path[k - 1]

Frames == [path : Seq(Nat), refs : Nat]

Linked(fo, i) == {h \in Handles : fo[h] = i}

FrameOK(frame, fo, i) == frame.refs = Cardinality(Linked(fo, i)) /\ PathOK(frame.path)

(* Each frame has one reference per handle linked to it, and handles are   *)
(* linked only to frames within the stack.                                 *)
StackOK(st, fo) ==
    /\ st \in Seq(Frames)
    /\ Len(st) >= 1
    /\ fo \in [Handles -> 0 .. Len(st)]
    /\ \A i \in 1 .. Len(st) : FrameOK(st[i], fo, i)

(* The inductive invariant of the focus on top of the index. *)
FocusInv == IndexInv /\ StackOK(stack, focus)

(* A set of positions has a last one. *)
LEMMA LastPosition ==
    ASSUME NEW n \in Nat, NEW S \in SUBSET (1 .. n), S # {}
    PROVE  \E m \in S : \A i \in S : i <= m
  <1> DEFINE D == {n - i : i \in S}
  <1>1. D \subseteq Nat /\ D # {}
    OBVIOUS
  <1>2. PICK d \in D : \A e \in D : ~(<<e, d>> \in OpToRel(<, Nat))
    BY <1>1, WFMin, NatLessThanWellFounded
  <1>3. \A e \in D : ~(e < d)
    BY <1>1, <1>2 DEF OpToRel
  <1>4. PICK m \in S : d = n - m
    OBVIOUS
  <1>5. ASSUME NEW i \in S PROVE i <= m
    <2>1. n - i \in D /\ i \in Nat /\ m \in Nat
      OBVIOUS
    <2>2. ~(n - i < n - m)
      BY <1>3, <1>4, <2>1
    <2> QED
      BY <2>1, <2>2
  <1> QED
    BY <1>4, <1>5

(* The function computed by climbing up from an element. *)
Climb(g, x) == IF tab[x] = x THEN <<x>> ELSE Append(g[tab[x]], x)

(* Climbing terminates: a scope is older than its elements, thus the paths *)
(* can be defined for one ID after the other.                              *)
LEMMA ClimbDefined ==
    ASSUME IndexInv
    PROVE  \E g : g = [x \in Contained |-> Climb(g, x)]
  <1> DEFINE D(n) == {x \in Contained : x = root \/ x <= n}
             Def(n) == \E g : g = [x \in D(n) |-> Climb(g, x)]
             Bad == {n \in Nat : ~Def(n)}
  <1>0. /\ root \in Contained /\ tab[root] = root /\ lastId \in Nat
        /\ (\A x \in Contained : x \in Nat /\ 1 <= x /\ x <= lastId) /\ \A i \in Contained : tab[i] \in Contained
        /\ \A i \in Contained \ {root} : tab[i] < i
    BY MaxIdsAssumption DEF IndexInv, TypeOK, TablesAgree, ScopeFirst
  <1>1. Bad = {}
    <2>1. SUFFICES ASSUME Bad # {} PROVE FALSE
      OBVIOUS
    <2>2. PICK n \in Bad : \A m \in Bad : ~(<<m, n>> \in OpToRel(<, Nat))
      BY <2>1, WFMin, NatLessThanWellFounded
    <2>3. CASE n = 0
      <3> DEFINE g == [x \in D(0) |-> <<x>>]
      <3>1. D(0) = {root}
        BY <1>0
      <3>2. g = [x \in D(0) |-> Climb(g, x)]
        BY <1>0, <3>1 DEF Climb
      <3> QED
        BY <2>3, <3>2
    <2>4. CASE n # 0
      <3>0. n \in Nat /\ \A m \in Bad : ~(m < n)
        <4> HIDE DEF Def
        <4> QED
          BY <2>2 DEF OpToRel
      <3>1. n - 1 \in Nat /\ n - 1 \notin Bad
        <4> HIDE DEF Bad
        <4> QED
          BY <2>4, <3>0
      <3>2. PICK f : f = [x \in D(n - 1) |-> Climb(f, x)]
        BY <3>1
      <3> DEFINE g == [x \in D(n) |-> Climb(f, x)]
      <3>3. ASSUME NEW x \in D(n) PROVE Climb(f, x) = Climb(g, x)
        <4>1. CASE x = root
          BY <1>0, <4>1 DEF Climb
        <4>2. CASE x # root
          <5>1. tab[x] \in D(n - 1) /\ tab[x] \in D(n)
            BY <1>0, <4>2, <3>1
          <5>2. f[tab[x]] = Climb(f, tab[x])
            BY <3>2, <5>1
          <5>3. g[tab[x]] = Climb(f, tab[x])
            BY <5>1
          <5> QED
            BY <5>2, <5>3 DEF Climb
        <4> QED
          BY <4>1, <4>2
      <3>4. g = [x \in D(n) |-> Climb(g, x)]
        BY <3>3
      <3> QED
        BY <3>4
    <2> QED
      BY <2>3, <2>4
  <1>2. D(lastId) = Contained
    BY <1>0
  <1>3. Def(lastId)
    BY <1>0, <1>1
  <1> QED
    BY <1>2, <1>3

(* Navigating to an element of the model yields the exact path from root. *)
LEMMA NavigatePath ==
    ASSUME IndexInv, NEW id \in Contained
    PROVE  PathOK(Navigate(id)) /\ Leaf(Navigate(id)) = id
  <1> DEFINE P == CHOOSE g : g = [x \in Contained |-> Climb(g, x)]
  <1>1. P = [x \in Contained |-> Climb(P, x)]
    BY ClimbDefined
  <1>2. Navigate(id) = P[id]
    BY DEF Navigate, Climb
  <1> HIDE DEF P
  <1> DEFINE Good(x) == PathOK(P[x]) /\ Leaf(P[x]) = x
             Bad == {x \in Contained : ~Good(x)}
  <1>0. /\ root \in Contained /\ tab[root] = root /\ lastId \in Nat
        /\ (\A x \in Contained : x \in Nat /\ 1 <= x /\ x <= lastId) /\ \A i \in Contained : tab[i] \in Contained
        /\ \A i \in Contained \ {root} : tab[i] < i
    BY MaxIdsAssumption DEF IndexInv, TypeOK, TablesAgree, ScopeFirst
  <1>3. SUFFICES ASSUME Bad # {} PROVE FALSE
    BY <1>2
  <1>4. PICK x \in Bad : \A y \in Bad : ~(<<y, x>> \in OpToRel(<, Nat))
    <2>1. Bad \subseteq Nat
      BY <1>0
    <2> QED
      BY <1>3, <2>1, WFMin, NatLessThanWellFounded
  <1>5. CASE x = root
    <2>1. P[x] = <<x>>
      BY <1>0, <1>1, <1>5 DEF Climb
    <2>2. /\ P[x] \in Seq(1 .. lastId) /\ Len(P[x]) = 1
          /\ P[x][1] = x /\ Leaf(P[x]) = x
      BY <1>0, <1>5, <2>1 DEF Leaf
    <2>3. PathOK(P[x])
      BY <1>5, <2>2 DEF PathOK
    <2> QED
      BY <1>4, <2>2, <2>3
  <1>6. CASE x # root
    <2> DEFINE q == P[tab[x]]
    <2>1. tab[x] \in Contained /\ tab[x] < x /\ x \in Contained
      BY <1>0, <1>6
    <2>2. tab[x] \notin Bad
      <3> HIDE DEF Bad
      <3> QED
        BY <1>0, <1>4, <2>1 DEF OpToRel
    <2>3. PathOK(q) /\ Leaf(q) = tab[x]
      BY <2>1, <2>2
    <2>4. P[x] = Append(q, x)
      <3>1. P[x] = Climb(P, x)
        BY <1>1, <2>1
      <3>2. tab[x] # x
        BY <1>0, <2>1
      <3> QED
        BY <3>1, <3>2 DEF Climb
    <2> HIDE DEF q
    <2>5. /\ q \in Seq(1 .. lastId) /\ Len(q) >= 1 /\ q[1] = root /\ q[Len(q)] = tab[x]
          /\ \A k \in 2 .. Len(q) : q[k] \in Contained \ {root} /\ tab[q[k]] = q[k - 1]
      BY <2>1, <2>3 DEF PathOK, Leaf
    <2> DEFINE p == Append(q, x)
    <2>6. /\ p \in Seq(1 .. lastId) /\ Len(p) = Len(q) + 1 /\ p[Len(p)] = x
          /\ \A k \in 1 .. Len(q) : p[k] = q[k]
      BY <1>0, <2>1, <2>5
    <2> HIDE DEF p
    <2>7. ASSUME NEW k \in 2 .. Len(p)
          PROVE  p[k] \in Contained \ {root} /\ tab[p[k]] = p[k - 1]
      <3>0. Len(q) \in Nat
        BY <2>5
      <3>1. CASE k = Len(p)
        BY <1>6, <2>1, <2>5, <2>6, <3>0, <3>1
      <3>2. CASE k # Len(p)
        <4>1. k \in 2 .. Len(q) /\ k \in 1 .. Len(q) /\ k - 1 \in 1 .. Len(q)
          BY <2>6, <3>0, <3>2
        <4> QED
          BY <2>5, <2>6, <4>1
      <3> QED
        BY <3>1, <3>2
    <2>8. PathOK(p) /\ Leaf(p) = x
      BY <2>5, <2>6, <2>7 DEF PathOK, Leaf
    <2> QED
      BY <1>4, <2>4, <2>8 DEF p
  <1> QED
    BY <1>5, <1>6

(* A step of the index creates new IDs only, and an element which is kept  *)
(* stays where it is: paths are not changed behind the scenes.             *)
LEMMA IndexStep ==
    ASSUME IndexInv, [Next]_index
    PROVE  /\ lastId \in Nat /\ lastId' \in Nat /\ lastId <= lastId'
           /\ \A x \in Contained' : x <= lastId =>
                x \in Contained /\ tab'[x] = tab[x] /\ root' = root
  <1>0. /\ lastId \in Nat /\ \A x \in Contained : x \in Nat /\ x <= lastId
        /\ IndexInv'
    BY NextIndex, MaxIdsAssumption DEF IndexInv, TypeOK
  <1>1. CASE UNCHANGED index
    BY <1>0, <1>1 DEF index, Contained
  <1>2. ASSUME NEW id \in Contained, Insert(id)
        PROVE  /\ lastId' = lastId + 1 /\ root' = root
               /\ Contained' = Contained \cup {lastId'}
               /\ \A x \in Contained : tab'[x] = tab[x]
    BY <1>0, <1>2 DEF Insert, AddEntry, Contained
  <1>3. ASSUME NEW T, tab' = Discard(T)
        PROVE  /\ Contained' = Contained \ T
               /\ \A x \in Contained \ T : tab'[x] = tab[x]
    BY <1>3 DEF Discard, Contained
  <1>4. ASSUME Purge
        PROVE  lastId' = lastId + 1 /\ Contained' = {lastId'}
    BY <1>4 DEF Purge, SetupRoot, Contained
  <1>5. ASSUME NEW id \in Contained, RemoveEntry(id)
        PROVE  \E T : tab' = Discard(T) /\ UNCHANGED <<root, lastId>>
    BY <1>5 DEF RemoveEntry
  <1>6. ASSUME NEW id \in Contained, RemoveAll(id)
        PROVE  \E T : tab' = Discard(T) /\ UNCHANGED <<root, lastId>>
    BY <1>6 DEF RemoveAll
  <1>7. ASSUME \E T : tab' = Discard(T) /\ UNCHANGED <<root, lastId>>
        PROVE  /\ lastId' = lastId /\ root' = root
               /\ \A x \in Contained' : x \in Contained /\ tab'[x] = tab[x]
    BY <1>3, <1>7
  <1> QED
    BY <1>0, <1>1, <1>2, <1>4, <1>5, <1>6, <1>7 DEF Next, Clear

(* Going up from the leaf, each scope on the path is still there.          *)
LEMMA PathKept ==
    ASSUME IndexInv, [Next]_index, NEW path, PathOK(path)
    PROVE  PathOK(path)'
  <1> DEFINE n == Len(path)
  <1>0. /\ path \in Seq(1 .. lastId) /\ n \in Nat /\ n >= 1
        /\ \A k \in 1 .. n : path[k] \in Nat /\ path[k] <= lastId
    BY IndexStep DEF PathOK
  <1>1. path \in Seq(1 .. lastId')
    BY IndexStep, <1>0
  <1>2. ASSUME Leaf(path) \in Contained'
        PROVE  /\ path[1] = root'
               /\ \A k \in 2 .. n : path[k] \in Contained' \ {root'} /\ tab'[path[k]] = path[k - 1]
    <2>1. \A x \in Contained' : tab'[x] \in Contained'
      BY NextIndex DEF IndexInv, TablesAgree
    <2>2. \A k \in 1 .. n : path[k] \in Contained' =>
            path[k] \in Contained /\ tab'[path[k]] = tab[path[k]] /\ root' = root
      BY <1>0, IndexStep
    <2>3. path[n] \in Contained'
      BY <1>2 DEF Leaf
    <2>4. /\ path[1] = root /\ root' = root
          /\ \A k \in 2 .. n : path[k] \in Contained \ {root} /\ tab[path[k]] = path[k - 1]
      BY <1>0, <2>2, <2>3 DEF PathOK, Leaf
    <2> DEFINE Gone == {k \in 1 .. n : path[k] \notin Contained'}
    <2>5. Gone = {}
      <3>1. SUFFICES ASSUME Gone # {} PROVE FALSE
        OBVIOUS
      <3>2. PICK m \in Gone : \A i \in Gone : i <= m
        BY <1>0, <3>1, LastPosition
      <3>3. m \in 1 .. n /\ m # n
        BY <2>3
      <3>4. m + 1 \in 2 .. n /\ m + 1 \in 1 .. n /\ m + 1 \notin Gone /\ (m + 1) - 1 = m
        BY <1>0, <3>2, <3>3
      <3>5. path[m + 1] \in Contained'
        BY <3>4
      <3>6. tab'[path[m + 1]] = tab[path[m + 1]] /\ tab[path[m + 1]] = path[m]
        BY <2>2, <2>4, <3>4, <3>5
      <3> QED
        BY <2>1, <3>2, <3>5, <3>6
    <2>6. ASSUME NEW k \in 2 .. n
          PROVE  path[k] \in Contained' \ {root'} /\ tab'[path[k]] = path[k - 1]
      <3>1. k \in 1 .. n
        BY <1>0
      <3>2. path[k] \in Contained'
        BY <2>5, <3>1
      <3> QED
        BY <2>2, <2>4, <3>1, <3>2
    <2> QED
      BY <2>4, <2>6
  <1> QED
    BY <1>0, <1>1, <1>2 DEF PathOK, Leaf

(* A path to root is right as long as root is known. *)
LEMMA RootPath ==
    ASSUME IndexInv
    PROVE  PathOK(<<root>>)
  <1>1. root \in 1 .. lastId
    BY DEF IndexInv, TypeOK
  <1>2. <<root>> \in Seq(1 .. lastId) /\ Len(<<root>>) = 1 /\ <<root>>[1] = root
    BY <1>1
  <1> QED
    BY <1>2 DEF PathOK

(* No handle is linked to a frame without references. *)
LEMMA NoHandles ==
    ASSUME NEW st, NEW fo, StackOK(st, fo), NEW i \in 1 .. Len(st), ~(st[i].refs > 0)
    PROVE  \A h \in Handles : fo[h] # i
  <1>1. IsFiniteSet(Linked(fo, i))
    BY FocusAssumption, FS_Subset DEF Linked
  <1>2. Cardinality(Linked(fo, i)) \in Nat /\ st[i].refs = Cardinality(Linked(fo, i))
    BY <1>1, FS_CardinalityType DEF StackOK, FrameOK
  <1>3. Cardinality(Linked(fo, i)) = 0
    BY <1>2
  <1>4. Linked(fo, i) = {}
    BY <1>1, <1>3, FS_EmptySet
  <1> QED
    BY <1>4 DEF Linked

(* A frame opened without a handle. *)
LEMMA NewFrame ==
    ASSUME NEW fo, NEW n \in Nat, \A h \in Handles : fo[h] # n, IndexInv, NEW path, PathOK(path)
    PROVE  Frame(path, 0) \in Frames /\ FrameOK(Frame(path, 0), fo, n)
  <1>1. path \in Seq(Nat)
    BY MaxIdsAssumption DEF PathOK, IndexInv, TypeOK
  <1>2. Linked(fo, n) = {}
    BY DEF Linked
  <1>3. Cardinality(Linked(fo, n)) = 0
    BY <1>2, FS_EmptySet
  <1> QED
    BY <1>1, <1>3 DEF Frame, Frames, FrameOK

LEMMA PopUnusedOK ==
    ASSUME IndexInv, NEW st, NEW fo, StackOK(st, fo)
    PROVE  StackOK(PopUnused(st), fo)
  <1> DEFINE used == {i \in 1 .. Len(st) : st[i].refs > 0}
  <1>0. /\ st \in Seq(Frames) /\ Len(st) \in Nat /\ Len(st) >= 1
        /\ fo \in [Handles -> 0 .. Len(st)]
    BY DEF StackOK
  <1>1. CASE used = {}
    <2>1. LastUsed(st) = 0
      BY <1>1 DEF LastUsed
    <2>2. ASSUME NEW h \in Handles PROVE fo[h] = 0
      <3>1. fo[h] \in 0 .. Len(st)
        BY <1>0
      <3>2. ASSUME fo[h] # 0 PROVE FALSE
        <4>1. fo[h] \in 1 .. Len(st)
          BY <1>0, <3>1, <3>2
        <4>2. ~(st[fo[h]].refs > 0)
          BY <1>1, <4>1
        <4> QED
          BY <4>1, <4>2, NoHandles
      <3> QED
        BY <3>2
    <2>3. DefaultFrame \in Frames /\ FrameOK(DefaultFrame, fo, 1)
      BY <2>2, NewFrame, RootPath DEF DefaultFrame
    <2>4. fo \in [Handles -> 0 .. 1]
      BY <1>0, <2>2
    <2>5. StackOK(<<DefaultFrame>>, fo)
      <3> DEFINE d == <<DefaultFrame>>
      <3>1. d \in Seq(Frames) /\ Len(d) = 1 /\ d[1] = DefaultFrame
        BY <2>3
      <3>2. \A i \in 1 .. 1 : i = 1
        OBVIOUS
      <3> HIDE DEF d
      <3>3. StackOK(d, fo)
        BY <2>3, <2>4, <3>1, <3>2 DEF StackOK
      <3> QED
        BY <3>3 DEF d
    <2> QED
      BY <2>1, <2>5 DEF PopUnused
  <1>2. CASE used # {}
    <2> DEFINE m == LastUsed(st)
               s == SubSeq(st, 1, m)
    <2>1. m \in used /\ \A i \in used : i <= m
      <3>1. \E x \in used : \A i \in used : i <= x
        BY <1>0, <1>2, LastPosition
      <3>2. \E x \in used : \A i \in used : x >= i
        BY <1>0, <3>1
      <3>3. Max(used) \in used /\ \A i \in used : Max(used) >= i
        BY <3>2 DEF Max
      <3>4. m = Max(used)
        BY <1>2 DEF LastUsed
      <3> QED
        BY <1>0, <3>3, <3>4
    <2>2. m \in 1 .. Len(st)
      BY <2>1
    <2> HIDE DEF m
    <2>3. s \in Seq(Frames) /\ Len(s) = m /\ \A i \in 1 .. m : s[i] = st[i]
      BY <1>0, <2>2
    <2>4. ASSUME NEW h \in Handles PROVE fo[h] \in 0 .. m
      <3>1. fo[h] \in 0 .. Len(st)
        BY <1>0
      <3>2. ASSUME fo[h] > m PROVE FALSE
        <4>1. fo[h] \in 1 .. Len(st) /\ fo[h] \notin used
          BY <1>0, <2>1, <2>2, <3>1, <3>2
        <4> QED
          BY <4>1, NoHandles
      <3> QED
        BY <2>2, <3>1, <3>2
    <2>5. \A i \in 1 .. m : FrameOK(s[i], fo, i)
      BY <1>0, <2>2, <2>3 DEF StackOK
    <2>6. fo \in [Handles -> 0 .. m] /\ m >= 1
      BY <1>0, <2>2, <2>4
    <2> HIDE DEF s
    <2>7. StackOK(s, fo)
      BY <2>3, <2>5, <2>6 DEF StackOK
    <2>8. PopUnused(st) = st \/ PopUnused(st) = s
      BY <2>2 DEF PopUnused, s, m
    <2> QED
      BY <2>7, <2>8
  <1> QED
    BY <1>1, <1>2

LEMMA TopOK ==
    ASSUME IndexInv, NEW st, NEW fo, StackOK(st, fo)
    PROVE  StackOK(Top(st), fo)
  BY PopUnusedOK DEF Top

(* One frame is changed, and only the handles linked to this frame.        *)
LEMMA UpdateOK ==
    ASSUME NEW st, NEW fo, StackOK(st, fo), NEW pos \in 1 .. Len(st),
           NEW frame \in Frames, NEW f \in [Handles -> 0 .. Len(st)], FrameOK(frame, f, pos),
           \A i \in 1 .. Len(st) : i # pos => Linked(f, i) = Linked(fo, i)
    PROVE  StackOK([st EXCEPT ![pos] = frame], f)
  <1> DEFINE s == [st EXCEPT ![pos] = frame]
  <1>1. st \in Seq(Frames) /\ Len(st) >= 1 /\ \A i \in 1 .. Len(st) : FrameOK(st[i], fo, i)
    BY DEF StackOK
  <1>2. s \in Seq(Frames) /\ Len(s) = Len(st)
    BY <1>1
  <1>3. \A i \in 1 .. Len(st) : s[i] = IF i = pos THEN frame ELSE st[i]
    BY <1>1
  <1> HIDE DEF s
  <1>4. \A i \in 1 .. Len(st) : FrameOK(s[i], f, i)
    BY <1>1, <1>3 DEF FrameOK
  <1>5. StackOK(s, f)
    BY <1>1, <1>2, <1>4 DEF StackOK
  <1> QED
    BY <1>5 DEF s

(* Linking a handle which was not in use counts as one reference. *)
LEMMA AddRefOK ==
    ASSUME NEW st, NEW fo, StackOK(st, fo), NEW h \in Handles, fo[h] = 0,
           NEW pos \in 1 .. Len(st)
    PROVE  StackOK(AddRef(st, pos), [fo EXCEPT ![h] = pos])
  <1> DEFINE f == [fo EXCEPT ![h] = pos]
             frame == [st[pos] EXCEPT !.refs = @ + 1]
             H == Linked(fo, pos)
  <1>0. /\ st \in Seq(Frames) /\ fo \in [Handles -> 0 .. Len(st)] /\ Len(st) \in Nat
        /\ FrameOK(st[pos], fo, pos) /\ st[pos] \in Frames
    BY DEF StackOK
  <1>1. f \in [Handles -> 0 .. Len(st)] /\ f[h] = pos /\ \A g \in Handles \ {h} : f[g] = fo[g]
    BY <1>0
  <1> HIDE DEF f
  <1>2. \A i \in 1 .. Len(st) : i # pos => Linked(f, i) = Linked(fo, i)
    BY <1>1 DEF Linked
  <1>3. Linked(f, pos) = H \cup {h} /\ h \notin H
    BY <1>1 DEF Linked
  <1>4. IsFiniteSet(H)
    BY FocusAssumption, FS_Subset DEF Linked
  <1>5. Cardinality(H \cup {h}) = Cardinality(H) + 1
    BY <1>3, <1>4, FS_AddElement
  <1>6. frame \in Frames /\ frame.refs = st[pos].refs + 1 /\ frame.path = st[pos].path
    <2>1. st[pos].refs + 1 \in Nat
      BY <1>0 DEF Frames
    <2> QED
      BY <1>0, <2>1 DEF Frames
  <1>7. FrameOK(frame, f, pos)
    BY <1>0, <1>3, <1>5, <1>6 DEF FrameOK
  <1>8. AddRef(st, pos) = [st EXCEPT ![pos] = frame]
    BY DEF AddRef
  <1> HIDE DEF frame
  <1>9. StackOK([st EXCEPT ![pos] = frame], f)
    BY <1>1, <1>2, <1>6, <1>7, UpdateOK
  <1> QED
    BY <1>8, <1>9 DEF f

(* Giving up a handle counts as one reference less. *)
LEMMA ReleaseOK ==
    ASSUME NEW st, NEW fo, StackOK(st, fo), NEW h \in Handles, fo[h] # 0
    PROVE  StackOK(Release(st, fo[h]), [fo EXCEPT ![h] = 0])
  <1> DEFINE pos == fo[h]
             f == [fo EXCEPT ![h] = 0]
             frame == [st[pos] EXCEPT !.refs = IF @ > 0 THEN @ - 1 ELSE 0]
             H == Linked(fo, pos)
  <1>0. st \in Seq(Frames) /\ fo \in [Handles -> 0 .. Len(st)] /\ Len(st) \in Nat
    BY DEF StackOK
  <1>a. pos \in 1 .. Len(st)
    BY <1>0
  <1>b. FrameOK(st[pos], fo, pos) /\ st[pos] \in Frames
    BY <1>0, <1>a DEF StackOK
  <1>1. f \in [Handles -> 0 .. Len(st)] /\ f[h] = 0 /\ \A g \in Handles \ {h} : f[g] = fo[g]
    BY <1>0
  <1> HIDE DEF f
  <1>2. \A i \in 1 .. Len(st) : i # pos => Linked(f, i) = Linked(fo, i)
    BY <1>0, <1>1 DEF Linked
  <1>3. Linked(f, pos) = H \ {h} /\ h \in H
    BY <1>0, <1>1 DEF Linked
  <1>4. IsFiniteSet(H)
    BY FocusAssumption, FS_Subset DEF Linked
  <1>5. Cardinality(H \ {h}) = Cardinality(H) - 1
    BY <1>3, <1>4, FS_RemoveElement
  <1>6. Cardinality(H) \in Nat /\ Cardinality(H) # 0
    BY <1>3, <1>4, FS_CardinalityType, FS_EmptySet
  <1>7. st[pos].refs = Cardinality(H) /\ PathOK(st[pos].path)
    BY <1>b DEF FrameOK
  <1>8. frame \in Frames /\ frame.refs = st[pos].refs - 1 /\ frame.path = st[pos].path
    <2>1. st[pos].refs \in Nat /\ st[pos].refs > 0
      BY <1>6, <1>7
    <2> QED
      BY <1>b, <2>1 DEF Frames
  <1>9. FrameOK(frame, f, pos)
    BY <1>3, <1>5, <1>7, <1>8 DEF FrameOK
  <1>10. Release(st, pos) = [st EXCEPT ![pos] = frame]
    BY DEF Release
  <1> HIDE DEF frame, pos
  <1>11. StackOK([st EXCEPT ![pos] = frame], f)
    BY <1>a, <1>1, <1>2, <1>8, <1>9, UpdateOK
  <1> QED
    BY <1>10, <1>11 DEF f, pos

LEMMA SetPathOK ==
    ASSUME IndexInv, NEW st, NEW fo, StackOK(st, fo), NEW pos \in 1 .. Len(st),
           NEW path, PathOK(path)
    PROVE  StackOK(SetPath(st, pos, path), fo)
  <1> DEFINE frame == [st[pos] EXCEPT !.path = path]
  <1>0. /\ st \in Seq(Frames) /\ fo \in [Handles -> 0 .. Len(st)]
        /\ FrameOK(st[pos], fo, pos) /\ st[pos] \in Frames
    BY DEF StackOK
  <1>1. path \in Seq(Nat)
    BY MaxIdsAssumption DEF PathOK, IndexInv, TypeOK
  <1>2. frame \in Frames /\ frame.refs = st[pos].refs /\ frame.path = path
    BY <1>0, <1>1 DEF Frames
  <1>3. FrameOK(frame, fo, pos)
    BY <1>0, <1>2 DEF FrameOK
  <1>4. SetPath(st, pos, path) = [st EXCEPT ![pos] = frame]
    BY DEF SetPath
  <1> HIDE DEF frame
  <1> QED
    BY <1>0, <1>2, <1>3, <1>4, UpdateOK

LEMMA AppendOK ==
    ASSUME IndexInv, NEW st, NEW fo, StackOK(st, fo), NEW path, PathOK(path)
    PROVE  StackOK(Append(st, Frame(path, 0)), fo)
  <1> DEFINE frame == Frame(path, 0)
             s == Append(st, frame)
             n == Len(st)
  <1>0. /\ st \in Seq(Frames) /\ n \in Nat /\ n >= 1 /\ fo \in [Handles -> 0 .. n]
        /\ \A i \in 1 .. n : FrameOK(st[i], fo, i)
    BY DEF StackOK
  <1>1. frame \in Frames /\ FrameOK(frame, fo, n + 1)
    <2>1. n + 1 \in Nat /\ \A h \in Handles : fo[h] # n + 1
      BY <1>0
    <2> QED
      BY <2>1, NewFrame
  <1> HIDE DEF frame
  <1>2. s \in Seq(Frames) /\ Len(s) = n + 1 /\ s[n + 1] = frame /\ \A i \in 1 .. n : s[i] = st[i]
    BY <1>0, <1>1
  <1>3. fo \in [Handles -> 0 .. n + 1]
    BY <1>0
  <1>4. \A i \in 1 .. n + 1 : i = n + 1 \/ i \in 1 .. n
    BY <1>0
  <1> HIDE DEF s, n
  <1>5. StackOK(s, fo)
    BY <1>0, <1>1, <1>2, <1>3, <1>4 DEF StackOK
  <1> QED
    BY <1>5 DEF s, frame

-----------------------------------------------------------------------------
LEMMA InitFocus == FocusInit => FocusInv
  <1> SUFFICES ASSUME FocusInit PROVE FocusInv
    OBVIOUS
  <1>1. IndexInv
    BY InitIndex DEF FocusInit
  <1>2. /\ stack = <<DefaultFrame>>
        /\ focus \in [Handles -> 0 .. 1] /\ \A h \in Handles : focus[h] # 1
    BY DEF FocusInit, Unused
  <1>3. DefaultFrame \in Frames /\ FrameOK(DefaultFrame, focus, 1)
    BY <1>1, <1>2, NewFrame, RootPath DEF DefaultFrame
  <1>4. stack \in Seq(Frames) /\ Len(stack) = 1 /\ stack[1] = DefaultFrame
    BY <1>2, <1>3
  <1>5. \A i \in 1 .. 1 : i = 1
    OBVIOUS
  <1>6. StackOK(stack, focus)
    BY <1>2, <1>3, <1>4, <1>5 DEF StackOK
  <1> QED
    BY <1>1, <1>6 DEF FocusInv

(* Linking a handle to the last frame. *)
LEMMA AttachHandleOK ==
    ASSUME NEW st, NEW h \in Handles, StackOK(st, [focus EXCEPT ![h] = 0]), AttachHandle(h, st),
           focus \in [Handles -> Nat]
    PROVE  StackOK(stack', focus')
  <1> DEFINE f == [focus EXCEPT ![h] = 0]
  <1>1. Len(st) \in 1 .. Len(st)
    BY DEF StackOK
  <1>2. f[h] = 0 /\ [f EXCEPT ![h] = Len(st)] = [focus EXCEPT ![h] = Len(st)]
    OBVIOUS
  <1>3. StackOK(st, f)
    OBVIOUS
  <1> HIDE DEF f
  <1>4. StackOK(AddRef(st, Len(st)), [f EXCEPT ![h] = Len(st)])
    BY <1>1, <1>2, <1>3, AddRefOK
  <1> QED
    BY <1>2, <1>4 DEF AttachHandle

(* Operations on handles and on the current path, with the index unchanged. *)
LEMMA HandleStep ==
    ASSUME IndexInv, StackOK(stack, focus), NEW h \in Handles,
           \/ Open(h) \/ Drop(h) \/ Pop(h) \/ PushHere(h) \/ Reset(h)
           \/ \E other \in Handles : Copy(h, other)
           \/ \E id \in Contained : Shift(h, id) \/ Push(h, id)
    PROVE  StackOK(stack', focus') /\ UNCHANGED index
  <1>0. focus \in [Handles -> 0 .. Len(stack)] /\ focus \in [Handles -> Nat] /\ Len(stack) \in Nat
    BY DEF StackOK
  <1>a. focus[h] = 0 => [focus EXCEPT ![h] = 0] = focus
    BY <1>0
  <1>b. focus[h] # 0 => focus[h] \in 1 .. Len(stack)
    BY <1>0
  <1>c. StackOK(Top(stack), focus)
    BY TopOK
  <1>1. CASE Open(h)
    BY <1>0, <1>a, <1>c, <1>1, AttachHandleOK DEF Open, Unused
  <1>2. CASE Drop(h)
    BY <1>2, ReleaseOK DEF Drop, Unused
  <1>3. CASE Pop(h)
    <2>1. StackOK(Release(stack, focus[h]), [focus EXCEPT ![h] = 0])
      BY <1>3, ReleaseOK DEF Pop, Unused
    <2>2. StackOK(Top(Release(stack, focus[h])), [focus EXCEPT ![h] = 0])
      BY <2>1, TopOK
    <2> QED
      BY <1>0, <1>3, <2>2, AttachHandleOK DEF Pop
  <1>4. ASSUME NEW st, StackOK(st, focus), NEW id \in Contained, PushFrame(h, st, id)
        PROVE  StackOK(stack', focus') /\ UNCHANGED index
    <2>1. StackOK(Append(st, Frame(Navigate(id), 0)), focus)
      BY <1>4, NavigatePath, AppendOK
    <2> QED
      BY <1>0, <1>a, <1>4, <2>1, AttachHandleOK DEF PushFrame, Unused
  <1>5. CASE PushHere(h)
    BY <1>c, <1>4, <1>5 DEF PushHere
  <1>6. CASE Reset(h)
    BY <1>b, <1>6, RootPath, SetPathOK DEF Reset, Unused
  <1>7. ASSUME NEW other \in Handles, Copy(h, other)
        PROVE  StackOK(stack', focus') /\ UNCHANGED index
    <2>1. focus[other] \in 1 .. Len(stack)
      BY <1>0, <1>7 DEF Copy, Unused
    <2> QED
      BY <1>7, <2>1, AddRefOK DEF Copy, Unused
  <1>8. ASSUME NEW id \in Contained, Shift(h, id)
        PROVE  StackOK(stack', focus') /\ UNCHANGED index
    BY <1>b, <1>8, NavigatePath, SetPathOK DEF Shift, Unused
  <1>9. ASSUME NEW id \in Contained, Push(h, id)
        PROVE  StackOK(stack', focus') /\ UNCHANGED index
    BY <1>4, <1>9 DEF Push
  <1> QED
    BY <1>1, <1>2, <1>3, <1>5, <1>6, <1>7, <1>8, <1>9

(* The current path is set, or just looked up: this is done before the     *)
(* index is changed.                                                       *)
LEMMA CurrentPath ==
    ASSUME IndexInv, StackOK(stack, focus)
    PROVE  /\ StackOK(Top(stack), focus)
           /\ \A id \in Contained :
                StackOK(SetPath(Top(stack), Len(Top(stack)), Navigate(id)), focus)
  <1>1. StackOK(Top(stack), focus)
    BY TopOK
  <1>2. Len(Top(stack)) \in 1 .. Len(Top(stack))
    BY <1>1 DEF StackOK
  <1> QED
    BY <1>1, <1>2, NavigatePath, SetPathOK

LEMMA ModelStep ==
    ASSUME IndexInv, StackOK(stack, focus),
           \/ \E id \in Contained :
                \/ Locate(id) \/ Detach(id)
                \/ AttachToModel(id) \/ DetachElement(id) \/ DetachAndClear(id)
           \/ Attach \/ FailsOnStale
           \/ ResetSession
    PROVE  StackOK(stack', focus') /\ [Next]_index
  <1>1. \A id \in Contained : tab[id] \in Contained
    BY DEF IndexInv, TablesAgree
  <1>2. root \in Contained
    BY DEF IndexInv, TablesAgree
  <1>3. CASE Attach
    BY <1>3, CurrentPath DEF Attach, Insert, Next
  <1>4. CASE FailsOnStale
    BY <1>4, CurrentPath DEF FailsOnStale
  <1>5. CASE ResetSession
    BY <1>2, <1>5 DEF ResetSession, Next, Clear
  <1>6. ASSUME NEW id \in Contained, Locate(id)
        PROVE  StackOK(stack', focus') /\ [Next]_index
    BY <1>6, CurrentPath DEF Locate
  <1>7. ASSUME NEW id \in Contained, Detach(id)
        PROVE  StackOK(stack', focus') /\ [Next]_index
    BY <1>1, <1>7, CurrentPath DEF Detach, Next
  <1>8. ASSUME NEW id \in Contained, AttachToModel(id) \/ DetachElement(id) \/ DetachAndClear(id)
        PROVE  StackOK(stack', focus') /\ [Next]_index
    BY <1>8 DEF AttachToModel, DetachElement, DetachAndClear, Next
  <1> QED
    BY <1>3, <1>4, <1>5, <1>6, <1>7, <1>8

LEMMA NextFocus == FocusInv /\ [FocusNext]_vars => FocusInv'
  <1> SUFFICES ASSUME FocusInv, [FocusNext]_vars
               PROVE  FocusInv'
    OBVIOUS
  <1>0. IndexInv /\ StackOK(stack, focus)
    BY DEF FocusInv
  <1>1. StackOK(stack', focus') /\ [Next]_index
    <2>1. CASE UNCHANGED vars
      BY <1>0, <2>1 DEF vars
    <2>2. CASE FocusNext
      BY <1>0, <2>2, HandleStep, ModelStep DEF FocusNext
    <2> QED
      BY <2>1, <2>2
  <1>2. IndexInv'
    BY <1>0, <1>1, NextIndex
  <1>3. ASSUME NEW i \in 1 .. Len(stack')
        PROVE  FrameOK(stack[i], focus, i)'
    <2>1. PICK p : p = stack'[i].path
      OBVIOUS
    <2>2. FrameOK(stack'[i], focus', i)
      BY <1>1 DEF StackOK
    <2>3. PathOK(p)
      BY <2>1, <2>2 DEF FrameOK
    <2>4. PathOK(p)'
      BY <1>0, <1>1, <2>3, PathKept
    <2>5. PathOK(stack[i].path)'
      BY <2>1, <2>4 DEF PathOK, Leaf
    <2> QED
      BY <2>2, <2>5 DEF FrameOK, Linked
  <1>4. StackOK(stack, focus)'
    BY <1>1, <1>3 DEF StackOK
  <1> QED
    BY <1>2, <1>4 DEF FocusInv

(* Whatever clients do with their handles, and whatever happens to the     *)
(* model meanwhile, each frame counts the handles linked to it: a frame in *)
(* use is never popped, and no frame stays without a handle.               *)
THEOREM FocusCountsExact == FocusSpec => []RefCountExact
  <1>1. FocusInv => RefCountExact
    <2> SUFFICES ASSUME FocusInv PROVE RefCountExact
      OBVIOUS
    <2> DEFINE S == {Len(stack)} \cup {focus[h] : h \in Handles}
    <2>1. Len(stack) \in Nat /\ focus \in [Handles -> 0 .. Len(stack)]
      BY DEF FocusInv, StackOK
    <2>2. Len(stack) \in S /\ \A x \in S : x \in Nat /\ Len(stack) >= x
      BY <2>1
    <2>3. Max(S) \in S /\ Max(S) >= Len(stack)
      BY <2>2 DEF Max
    <2>4. Max(S) = Len(stack)
      BY <2>1, <2>2, <2>3
    <2> QED
      BY <2>1, <2>4 DEF RefCountExact, FocusInv, StackOK, FrameOK, Linked
  <1> QED
    BY <1>1, InitFocus, NextFocus, PTL DEF FocusSpec

(* A frame whose leaf is part of the model holds the exact path to it, in  *)
(* spite of all insertions, removals, purges and new sessions since then.  *)
THEOREM FocusPathsFaithful == FocusSpec => []PathsFaithful
  <1>1. FocusInv => PathsFaithful
    BY DEF FocusInv, StackOK, FrameOK, PathOK, PathsFaithful
  <1> QED
    BY <1>1, InitFocus, NextFocus, PTL DEF FocusSpec

-----------------------------------------------------------------------------
(* Relations between paths *)

(* A path into the model. *)
TreePath(p) ==
    /\ p \in Seq(Nat) /\ Len(p) >= 1 /\ p[1] = root
    /\ \A k \in 2 .. Len(p) : p[k] # root /\ tab[p[k]] = p[k - 1]

(* Two paths have a common element only at the same depth. *)
LEMMA SameDepth ==
    ASSUME NEW p, NEW q, TreePath(p), TreePath(q),
           NEW k \in 1 .. Len(p), NEW j \in 1 .. Len(q), p[k] = q[j]
    PROVE  k = j
  <1> DEFINE Bad == {a \in Nat : a \in 1 .. Len(p) /\ \E b \in 1 .. Len(q) : p[a] = q[b] /\ a # b}
  <1>0. Len(p) \in Nat /\ Len(q) \in Nat
    BY DEF TreePath
  <1>1. SUFFICES ASSUME Bad # {} PROVE FALSE
    BY <1>0
  <1>2. PICK a \in Bad : \A c \in Bad : ~(<<c, a>> \in OpToRel(<, Nat))
    BY <1>1, WFMin, NatLessThanWellFounded
  <1>3. a \in Nat /\ a \in 1 .. Len(p) /\ \A c \in Bad : ~(c < a)
    BY <1>2 DEF OpToRel
  <1>4. PICK b \in 1 .. Len(q) : p[a] = q[b] /\ a # b
    OBVIOUS
  <1>5. a # 1 /\ b # 1
    <2>1. a \in 2 .. Len(p) \/ a = 1
      BY <1>0, <1>3
    <2>2. b \in 2 .. Len(q) \/ b = 1
      BY <1>0, <1>4
    <2> QED
      BY <1>4, <2>1, <2>2 DEF TreePath
  <1>6. a \in 2 .. Len(p) /\ b \in 2 .. Len(q) /\ a - 1 \in 1 .. Len(p) /\ b - 1 \in 1 .. Len(q)
    BY <1>0, <1>3, <1>4, <1>5
  <1>7. p[a - 1] = q[b - 1]
    BY <1>4, <1>6 DEF TreePath
  <1>8. a - 1 # b - 1 /\ a - 1 < a /\ a - 1 \in Nat
    BY <1>0, <1>3, <1>4, <1>6
  <1>9. a - 1 \in Bad
    BY <1>6, <1>7, <1>8
  <1> HIDE DEF Bad
  <1> QED
    BY <1>3, <1>8, <1>9

(* Up to an element in common, the paths are the same. *)
LEMMA SamePrefix ==
    ASSUME NEW p, NEW q, TreePath(p), TreePath(q),
           NEW k \in 1 .. Len(p), k \in 1 .. Len(q), p[k] = q[k]
    PROVE  \A i \in 1 .. k : p[i] = q[i]
  <1> DEFINE Bad == {i \in 1 .. k : p[i] # q[i]}
  <1>0. Len(p) \in Nat /\ Len(q) \in Nat /\ k \in Nat
    BY DEF TreePath
  <1>1. SUFFICES ASSUME Bad # {} PROVE FALSE
    OBVIOUS
  <1>2. PICK m \in Bad : \A i \in Bad : i <= m
    BY <1>0, <1>1, LastPosition
  <1>3. m \in 1 .. k /\ m # k /\ p[m] # q[m]
    BY <1>2
  <1>4. m + 1 \in 1 .. k /\ m + 1 \in 2 .. Len(p) /\ m + 1 \in 2 .. Len(q) /\ (m + 1) - 1 = m
    BY <1>0, <1>3
  <1>5. m + 1 \notin Bad
    <2> HIDE DEF Bad
    <2> QED
      BY <1>2, <1>3
  <1>6. p[m + 1] = q[m + 1]
    BY <1>4, <1>5
  <1>7. p[m] = q[m]
    BY <1>4, <1>6 DEF TreePath
  <1> QED
    BY <1>3, <1>7

LEMMA PrefixFacts ==
    ASSUME NEW S, NEW s \in Seq(S), NEW t \in Seq(S)
    PROVE  IsPrefix(s, t) <=> Len(s) <= Len(t) /\ \A i \in 1 .. Len(s) : s[i] = t[i]
  <1>0. Len(s) \in Nat /\ Len(t) \in Nat
    OBVIOUS
  <1>1. CASE Len(s) <= Len(t)
    <2> DEFINE a == SubSeq(s, 1, Len(s))
               b == SubSeq(t, 1, Len(s))
    <2>1. a \in Seq(S) /\ Len(a) = Len(s) /\ \A i \in 1 .. Len(s) : a[i] = s[i]
      BY <1>0
    <2>2. b \in Seq(S) /\ Len(b) = Len(s) /\ \A i \in 1 .. Len(s) : b[i] = t[i]
      BY <1>0, <1>1
    <2> HIDE DEF a, b
    <2>3. a = b <=> \A i \in 1 .. Len(s) : s[i] = t[i]
      BY <2>1, <2>2, SeqEqual
    <2> QED
      BY <1>1, <2>3 DEF IsPrefix, a, b
  <1>2. CASE ~(Len(s) <= Len(t))
    BY <1>2 DEF IsPrefix
  <1> QED
    BY <1>1, <1>2

(* The step of the loop in commonPrefix() at position i. *)
Collect(p, q, g, i) ==
    IF i = 0 THEN <<>>
    ELSE IF p[i] = q[i] THEN Append(g[i - 1], p[i]) ELSE g[i - 1]

LEMMA CollectDefined ==
    ASSUME NEW p, NEW q, NEW len \in Nat
    PROVE  \E g : g = [i \in 0 .. len |-> Collect(p, q, g, i)]
  <1> DEFINE Def(n) == \E g : g = [i \in 0 .. n |-> Collect(p, q, g, i)]
             Bad == {n \in Nat : ~Def(n)}
  <1>1. SUFFICES ASSUME Bad # {} PROVE FALSE
    OBVIOUS
  <1>2. PICK n \in Bad : \A m \in Bad : ~(<<m, n>> \in OpToRel(<, Nat))
    BY <1>1, WFMin, NatLessThanWellFounded
  <1>3. n \in Nat /\ ~Def(n)
    OBVIOUS
  <1>4. CASE n = 0
    <2> DEFINE g == [i \in 0 .. 0 |-> <<>>]
    <2>1. \A i \in 0 .. 0 : Collect(p, q, g, i) = <<>>
      BY DEF Collect
    <2>2. g = [i \in 0 .. 0 |-> Collect(p, q, g, i)]
      BY <2>1
    <2> QED
      BY <1>3, <1>4, <2>2
  <1>5. CASE n # 0
    <2>0. \A m \in Bad : ~(m < n)
      <3> HIDE DEF Def
      <3> QED
        BY <1>2 DEF OpToRel
    <2>1. n - 1 \in Nat /\ n - 1 \notin Bad
      <3> HIDE DEF Bad
      <3> QED
        BY <1>3, <1>5, <2>0
    <2>2. PICK f : f = [i \in 0 .. n - 1 |-> Collect(p, q, f, i)]
      BY <2>1
    <2> DEFINE g == [i \in 0 .. n |-> Collect(p, q, f, i)]
    <2>3. ASSUME NEW i \in 0 .. n PROVE Collect(p, q, f, i) = Collect(p, q, g, i)
      <3>1. CASE i = 0
        BY <3>1 DEF Collect
      <3>2. CASE i # 0
        <4>1. i - 1 \in 0 .. n - 1 /\ i - 1 \in 0 .. n
          BY <1>3, <3>2
        <4>2. f[i - 1] = Collect(p, q, f, i - 1)
          BY <2>2, <4>1
        <4>3. g[i - 1] = Collect(p, q, f, i - 1)
          BY <4>1
        <4> QED
          BY <4>2, <4>3 DEF Collect
      <3> QED
        BY <3>1, <3>2
    <2>4. g = [i \in 0 .. n |-> Collect(p, q, g, i)]
      BY <2>3
    <2> QED
      BY <1>3, <2>4
  <1> QED
    BY <1>4, <1>5

(* The elements collected are the first m ones, where m is the last        *)
(* position with the same element.                                         *)
LEMMA CommonPrefixIs ==
    ASSUME NEW p, NEW q, TreePath(p), TreePath(q)
    PROVE  \E m \in Nat :
             /\ m \in 1 .. Len(p) /\ m \in 1 .. Len(q)
             /\ \A i \in 1 .. m : p[i] = q[i]
             /\ \A i \in 1 .. Len(p) : i > m /\ i <= Len(q) => p[i] # q[i]
             /\ CommonPrefix(p, q) = SubSeq(p, 1, m)
  <1> DEFINE len == Min({Len(p), Len(q)})
             Eq == {i \in 1 .. len : p[i] = q[i]}
  <1>0. p \in Seq(Nat) /\ Len(p) \in Nat /\ Len(q) \in Nat /\ Len(p) >= 1 /\ Len(q) >= 1 /\ p[1] = q[1]
    BY DEF TreePath
  <1>1. len \in Nat /\ len >= 1 /\ len <= Len(p) /\ len <= Len(q) /\ (len = Len(p) \/ len = Len(q))
    <2>1. \E x \in {Len(p), Len(q)} : \A y \in {Len(p), Len(q)} : x =< y
      BY <1>0
    <2>2. len \in {Len(p), Len(q)} /\ \A y \in {Len(p), Len(q)} : len =< y
      BY <2>1 DEF Min
    <2> QED
      BY <1>0, <2>2
  <1>2. CommonPrefix(p, q) = (CHOOSE g : g = [i \in 0 .. len |-> Collect(p, q, g, i)])[len]
    BY DEF CommonPrefix, Collect
  <1> HIDE DEF len
  <1> DEFINE G == CHOOSE g : g = [i \in 0 .. len |-> Collect(p, q, g, i)]
  <1>3. G = [i \in 0 .. len |-> Collect(p, q, G, i)]
    BY <1>1, CollectDefined
  <1> HIDE DEF G
  <1>4. 1 \in Eq
    BY <1>0, <1>1
  <1>5. PICK m \in Eq : \A i \in Eq : i <= m
    BY <1>1, <1>4, LastPosition
  <1>6. m \in 1 .. len /\ m \in 1 .. Len(p) /\ m \in 1 .. Len(q) /\ p[m] = q[m] /\ m \in Nat
    BY <1>0, <1>1, <1>5
  <1>7. \A i \in 1 .. m : p[i] = q[i]
    BY <1>6, SamePrefix
  <1>8. \A i \in 1 .. len : i > m => p[i] # q[i]
    BY <1>1, <1>5, <1>6
  <1> HIDE DEF Eq
  <1> DEFINE Upto(i) == IF i <= m THEN i ELSE m
             Bad == {i \in Nat : i \in 0 .. len /\ G[i] # SubSeq(p, 1, Upto(i))}
  <1>9. Bad = {}
    <2>1. SUFFICES ASSUME Bad # {} PROVE FALSE
      OBVIOUS
    <2>2. PICK i \in Bad : \A c \in Bad : ~(<<c, i>> \in OpToRel(<, Nat))
      BY <2>1, WFMin, NatLessThanWellFounded
    <2>3. i \in Nat /\ i \in 0 .. len /\ G[i] # SubSeq(p, 1, Upto(i))
      BY <2>2
    <2>4. G[i] = Collect(p, q, G, i)
      BY <1>3, <2>3
    <2>5. CASE i = 0
      <3>1. SubSeq(p, 1, 0) = <<>>
        BY <1>0
      <3>2. Upto(i) = 0
        BY <1>6, <2>5
      <3> QED
        BY <2>3, <2>4, <2>5, <3>1, <3>2 DEF Collect
    <2>6. CASE i # 0
      <3>1. i - 1 \in Nat /\ i - 1 \in 0 .. len /\ i \in 1 .. len
        BY <1>1, <2>3, <2>6
      <3>2. i - 1 \notin Bad
        <4>1. \A c \in Bad : ~(c < i)
          BY <2>2 DEF OpToRel
        <4> HIDE DEF Bad
        <4> QED
          BY <2>3, <3>1, <4>1
      <3>3. G[i - 1] = SubSeq(p, 1, Upto(i - 1))
        BY <3>1, <3>2
      <3>4. CASE i <= m
        <4>1. Upto(i) = i /\ Upto(i - 1) = i - 1 /\ i \in 1 .. m
          BY <1>6, <2>3, <2>6, <3>4
        <4>2. p[i] = q[i]
          BY <1>7, <4>1
        <4>3. G[i] = Append(SubSeq(p, 1, i - 1), p[i])
          BY <2>4, <2>6, <3>3, <4>1, <4>2 DEF Collect
        <4>4. Append(SubSeq(p, 1, i - 1), p[i]) = SubSeq(p, 1, i)
          BY <1>0, <1>6, <4>1
        <4> QED
          BY <2>3, <4>1, <4>3, <4>4
      <3>5. CASE i > m
        <4>1. Upto(i) = m /\ Upto(i - 1) = m
          BY <1>6, <2>3, <3>5
        <4>2. p[i] # q[i]
          BY <1>8, <3>1, <3>5
        <4> QED
          BY <2>3, <2>4, <2>6, <3>3, <4>1, <4>2 DEF Collect
      <3> QED
        BY <1>6, <2>3, <3>4, <3>5
    <2> QED
      BY <2>5, <2>6
  <1>10. len \in 0 .. len /\ Upto(len) = m
    BY <1>1, <1>6
  <1>11. CommonPrefix(p, q) = G[len]
    BY <1>2 DEF G
  <1>12. CommonPrefix(p, q) = SubSeq(p, 1, m)
    BY <1>1, <1>9, <1>10, <1>11
  <1>13. \A i \in 1 .. Len(p) : i > m /\ i <= Len(q) => p[i] # q[i]
    <2>1. \A i \in 1 .. Len(p) : i <= Len(q) => i \in 1 .. len
      BY <1>0, <1>1
    <2> QED
      BY <1>8, <2>1
  <1> QED
    BY <1>6, <1>7, <1>12, <1>13

(* What the three relations amount to. *)
LEMMA RelationsOfPaths ==
    ASSUME NEW p, NEW q, TreePath(p), TreePath(q)
    PROVE  LET prefix == CommonPrefix(p, q)
           IN  /\ IsPrefix(prefix, p) /\ IsPrefix(prefix, q)
               /\ \A k \in Len(prefix) + 1 .. Len(p) : ~IsPrefix(SubSeq(p, 1, k), q)
               /\ IsValid(q) => (PathContains(p, q) <=> IsPrefix(q, p))
               /\ IsValid(p) /\ IsValid(q) => (Disjoint(p, q) <=> prefix = <<root>>)
  <1> DEFINE prefix == CommonPrefix(p, q)
  <1>0. /\ p \in Seq(Nat) /\ Len(p) \in Nat /\ Len(p) >= 1
        /\ q \in Seq(Nat) /\ Len(q) \in Nat /\ Len(q) >= 1
        /\ p[1] = root /\ q[1] = root
    BY DEF TreePath
  <1>1. PICK m \in Nat :
             /\ m \in 1 .. Len(p) /\ m \in 1 .. Len(q)
             /\ \A i \in 1 .. m : p[i] = q[i]
             /\ \A i \in 1 .. Len(p) : i > m /\ i <= Len(q) => p[i] # q[i]
             /\ prefix = SubSeq(p, 1, m)
    BY CommonPrefixIs
  <1> HIDE DEF prefix
  <1>2. prefix \in Seq(Nat) /\ Len(prefix) = m /\ \A i \in 1 .. m : prefix[i] = p[i]
    BY <1>0, <1>1
  <1>3. IsPrefix(prefix, p) /\ IsPrefix(prefix, q)
    <2>1. Len(prefix) <= Len(p) /\ Len(prefix) <= Len(q)
      BY <1>0, <1>1, <1>2
    <2>2. \A i \in 1 .. Len(prefix) : prefix[i] = p[i] /\ prefix[i] = q[i]
      BY <1>1, <1>2
    <2> QED
      BY <1>0, <1>2, <2>1, <2>2, PrefixFacts
  <1>4. ASSUME NEW k \in m + 1 .. Len(p), IsPrefix(SubSeq(p, 1, k), q)
        PROVE  FALSE
    <2> DEFINE s == SubSeq(p, 1, k)
    <2>0. k \in 1 .. Len(p) /\ k > m
      BY <1>0, <1>1
    <2>1. s \in Seq(Nat) /\ Len(s) = k /\ s[k] = p[k]
      <3>1. k \in Nat /\ k <= Len(p) /\ k \in 1 .. k
        BY <1>0, <2>0
      <3>2. s \in Seq(Nat)
        BY <1>0, <3>1
      <3>3. Len(s) = k
        BY <1>0, <3>1
      <3>4. s[k] = p[(1 + k) - 1] /\ (1 + k) - 1 = k
        BY <1>0, <3>1
      <3> QED
        BY <3>2, <3>3, <3>4
    <2>2. IsPrefix(s, q)
      BY <1>4
    <2> HIDE DEF s
    <2>3. k <= Len(q) /\ s[k] = q[k]
      BY <1>0, <2>0, <2>1, <2>2, PrefixFacts
    <2> QED
      BY <1>1, <2>0, <2>1, <2>3
  <1>5. ASSUME IsValid(q), PathContains(p, q)
        PROVE  IsPrefix(q, p)
    <2>1. q[Len(q)] \in Range(p)
      <3>1. Range(q) \subseteq Range(p)
        BY <1>5 DEF PathContains
      <3>2. Len(q) \in DOMAIN q
        BY <1>0
      <3> QED
        BY <3>1, <3>2 DEF Range
    <2>2. PICK j \in 1 .. Len(p) : q[Len(q)] = p[j]
      BY <1>0, <2>1 DEF Range
    <2>3. Len(q) \in 1 .. Len(q)
      BY <1>0
    <2>4. j = Len(q)
      BY <2>2, <2>3, SameDepth
    <2>5. \A i \in 1 .. Len(q) : p[i] = q[i]
      BY <2>2, <2>3, <2>4, SamePrefix
    <2> QED
      BY <1>0, <2>2, <2>4, <2>5, PrefixFacts
  <1>6. ASSUME IsValid(q), IsPrefix(q, p)
        PROVE  PathContains(p, q)
    <2>1. Len(q) <= Len(p) /\ \A i \in 1 .. Len(q) : q[i] = p[i]
      BY <1>0, <1>6, PrefixFacts
    <2>2. IsValid(p)
      BY <1>0, <1>6, <2>1 DEF IsValid
    <2>3. Range(q) \subseteq Range(p)
      BY <1>0, <2>1 DEF Range
    <2> QED
      BY <2>2, <2>3 DEF PathContains
  <1>7. ASSUME IsValid(p), IsValid(q)
        PROVE  Disjoint(p, q) <=> prefix = <<root>>
    <2>1. 2 \in 1 .. Len(p) /\ 2 <= Len(q)
      BY <1>0, <1>7 DEF IsValid
    <2>2. p[2] # q[2] <=> m = 1
      <3>1. ASSUME p[2] = q[2] PROVE m # 1
        BY <1>1, <2>1, <3>1
      <3>2. ASSUME m # 1 PROVE p[2] = q[2]
        <4>1. 2 \in 1 .. m
          BY <1>1, <3>2
        <4> QED
          BY <1>1, <4>1
      <3> QED
        BY <3>1, <3>2
    <2>3. m = 1 <=> prefix = <<root>>
      <3>1. Len(<<root>>) = 1 /\ <<root>>[1] = root /\ <<root>> \in Seq({root})
        OBVIOUS
      <3>2. ASSUME m = 1 PROVE prefix = <<root>>
        <4>1. prefix[1] = root
          BY <1>0, <1>2, <3>2
        <4> QED
          BY <1>2, <3>2, <4>1
      <3> QED
        BY <1>2, <3>1, <3>2
    <2> QED
      BY <1>7, <2>2, <2>3 DEF Disjoint
  <1> QED
    BY <1>2, <1>3, <1>4, <1>5, <1>6, <1>7 DEF prefix

(* commonPrefix(), contains() and disjoint() are right for all paths which *)
(* lead into the model.                                                    *)
THEOREM FocusPathRelations == FocusSpec => []PathRelations
  <1>1. FocusInv => PathRelations
    <2> SUFFICES ASSUME FocusInv PROVE PathRelations
      OBVIOUS
    <2>1. ASSUME NEW i \in 1 .. Len(stack), Leaf(stack[i].path) \in Contained
          PROVE  TreePath(stack[i].path)
      <3>1. PathOK(stack[i].path)
        BY DEF FocusInv, StackOK, FrameOK
      <3>2. stack[i].path \in Seq(Nat)
        BY <3>1, MaxIdsAssumption DEF PathOK, FocusInv, IndexInv, TypeOK
      <3> QED
        BY <2>1, <3>1, <3>2 DEF PathOK, TreePath
    <2>2. ASSUME NEW i \in 1 .. Len(stack), NEW j \in 1 .. Len(stack),
                 {Leaf(stack[i].path), Leaf(stack[j].path)} \subseteq Contained
          PROVE  TreePath(stack[i].path) /\ TreePath(stack[j].path)
      BY <2>1, <2>2
    <2> QED
      BY <2>2, RelationsOfPaths DEF PathRelations
  <1> QED
    BY <1>1, InitFocus, NextFocus, PTL DEF FocusSpec
=============================================================================
