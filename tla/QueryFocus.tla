----------------------------- MODULE QueryFocus -----------------------------
(***************************************************************************)
(* The current location for queries and for attaching objects to the       *)
(* session: a stack of paths into the model (query-focus-stack.hpp,        *)
(* scope-path.cpp), owned by the ScopeLocator, which outlives any session. *)
(* Clients use QueryFocus handles, intrusive pointers keeping the count of *)
(* references within the path frame. The frames are nodes of a std::list   *)
(* changed only at the end, thus a position stands for the address.        *)
(* A Scope is represented by the ID of its placement: copying a Scope      *)
(* throws when this ID is no longer registered (placement-ref.hpp:129).    *)
(* The module follows a release build: the checks of debug and alpha       *)
(* builds, noted at Navigate and IsValid, are not evaluated.               *)
(***************************************************************************)
EXTENDS PlacementIndex, SequencesExt

CONSTANTS Handles,    \* QueryFocus instances of client code
          MaxFrames,  \* bound: path frames on the stack
          MaxResets   \* bound: sessions replacing the first one

ASSUME FocusAssumption ==
    /\ {MaxFrames, MaxResets} \subseteq Nat
    /\ IsFiniteSet(Handles)

VARIABLES stack,   \* paths_: the frames, each a path and its refcount_
          focus,   \* focus_ of each handle: a position in the stack; 0 is no handle
          resets   \* sessions started after the first one

vars == <<index, stack, focus, resets>>

Unused == 0

-----------------------------------------------------------------------------
(* ScopePath *)

Frame(path, refs) == [path |-> path, refs |-> refs]

(* a valid path consists of more than the root element; an alpha build also *)
(* demands hasValidRoot(), which differs for paths kept from a session gone *)
IsValid(path) == Len(path) > 1

Leaf(path) == path[Len(path)]

(* mutant: the path discovered is not reversed *)
AscendingPath(id) ==
    LET up[x \in Contained] == IF tab[x] = x THEN <<x>> ELSE <<x>> \o up[tab[x]]
    IN  up[id]

(* UpExplorer, reversed; the ASSERT on sharing the root element fails when *)
(* a frame kept from a session gone is navigated, and aborts a debug build *)
Navigate(id) ==
    LET path[x \in Contained] == IF tab[x] = x THEN <<x>> ELSE Append(path[tab[x]], x)
    IN  path[id]

(* contains(): each scope of the other path appears in this one *)
PathContains(path, other) ==
    \/ ~IsValid(other)
    \/ IsValid(path) /\ Range(other) \subseteq Range(path)

(* commonPrefix() goes on after the first mismatch *)
CommonPrefix(p, q) ==
    LET len == Min({Len(p), Len(q)})
        prefix[pos \in 0 .. len] ==
            IF pos = 0 THEN <<>>
            ELSE IF p[pos] = q[pos] THEN Append(prefix[pos - 1], p[pos]) ELSE prefix[pos - 1]
    IN  prefix[len]

Disjoint(p, q) == IsValid(p) /\ IsValid(q) /\ p[2] # q[2]

-----------------------------------------------------------------------------
(* QueryFocusStack *)

DefaultFrame == Frame(<<root>>, 0)

LastUsed(st) == LET used == {i \in 1 .. Len(st) : st[i].refs > 0}
                IN  IF used = {} THEN 0 ELSE Max(used)

PopUnused(st) ==
    IF Len(st) = 1 /\ ~IsValid(st[1].path) THEN st
    ELSE IF LastUsed(st) = 0 THEN <<DefaultFrame>>
         ELSE SubSeq(st, 1, LastUsed(st))

(* top(): the stack afterwards; the last frame is the current one *)
Top(st) == IF Last(st).refs = 0 THEN PopUnused(st) ELSE st

AddRef(st, pos) == [st EXCEPT ![pos].refs = @ + 1]

(* mutant: the reference of a discarded handle is kept *)
ReleaseNothing(st, pos) == st

Release(st, pos) == [st EXCEPT ![pos].refs = IF @ > 0 THEN @ - 1 ELSE 0]

SetPath(st, pos, path) == [st EXCEPT ![pos].path = path]

-----------------------------------------------------------------------------
(* QueryFocus *)

(* link a handle to what is the current path *)
AttachHandle(h, st) ==
    /\ stack' = AddRef(st, Len(st))
    /\ focus' = [focus EXCEPT ![h] = Len(st)]

Open(h) ==
    /\ focus[h] = Unused
    /\ AttachHandle(h, Top(stack))
    /\ UNCHANGED <<index, resets>>

Copy(h, other) ==
    /\ focus[h] = Unused /\ focus[other] # Unused
    /\ stack' = AddRef(stack, focus[other])
    /\ focus' = [focus EXCEPT ![h] = focus[other]]
    /\ UNCHANGED <<index, resets>>

Drop(h) ==
    /\ focus[h] # Unused
    /\ stack' = Release(stack, focus[h])
    /\ focus' = [focus EXCEPT ![h] = Unused]
    /\ UNCHANGED <<index, resets>>

(* release, then link to the frame which is current by now *)
Pop(h) ==
    /\ focus[h] # Unused
    /\ AttachHandle(h, Top(Release(stack, focus[h])))
    /\ UNCHANGED <<index, resets>>

Shift(h, id) ==
    /\ focus[h] # Unused
    /\ id \in Contained
    /\ stack' = SetPath(stack, focus[h], Navigate(id))
    /\ UNCHANGED <<index, focus, resets>>

(* pushPath() opens a frame at root, on top of frames no longer in use *)
PushFrame(h, st, id) ==
    /\ focus[h] = Unused
    /\ Len(st) < MaxFrames
    /\ AttachHandle(h, Append(st, Frame(Navigate(id), 0)))
    /\ UNCHANGED <<index, resets>>

Push(h, id) == id \in Contained /\ PushFrame(h, stack, id)

(* push at the current location *)
PushHere(h) == Leaf(Last(Top(stack)).path) \in Contained
               /\ PushFrame(h, Top(stack), Leaf(Last(Top(stack)).path))

Reset(h) ==
    /\ focus[h] # Unused
    /\ stack' = SetPath(stack, focus[h], <<root>>)
    /\ UNCHANGED <<index, focus, resets>>

(* ScopeLocator::locate() navigates the current path, without a handle *)
Locate(id) ==
    /\ id \in Contained
    /\ stack' = LET st == Top(stack) IN SetPath(st, Len(st), Navigate(id))
    /\ UNCHANGED <<index, focus, resets>>

-----------------------------------------------------------------------------
(* SessionImpl and the services working on the model *)

(* attach below the current location; the temporary handle is discarded *)
Attach ==
    /\ Insert(Leaf(Last(Top(stack)).path))
    /\ stack' = Top(stack)
    /\ UNCHANGED <<focus, resets>>

(* attach() and push() throw when the current location is stale: copying  *)
(* its Scope fails, yet the frames no longer in use are gone              *)
FailsOnStale ==
    /\ Leaf(Last(Top(stack)).path) \notin Contained
    /\ stack' = Top(stack)
    /\ UNCHANGED <<index, focus, resets>>

(* the current location moves to the enclosing scope, before the removal *)
Detach(id) ==
    /\ id \in Contained \ {root}
    /\ stack' = LET st == Top(stack) IN SetPath(st, Len(st), Navigate(tab[id]))
    /\ Clear(id)
    /\ UNCHANGED <<focus, resets>>

(* SessionServiceMutate *)
AttachToModel(id) == Insert(id) /\ UNCHANGED <<stack, focus, resets>>
DetachElement(id) == RemoveEntry(id) /\ UNCHANGED <<stack, focus, resets>>
DetachAndClear(id) == Clear(id) /\ UNCHANGED <<stack, focus, resets>>

(* a new session has an index of its own; the ScopeLocator is not touched *)
ResetSession ==
    /\ resets < MaxResets
    /\ resets' = resets + 1
    /\ Purge
    /\ UNCHANGED <<stack, focus>>

-----------------------------------------------------------------------------
FocusInit ==
    /\ Init
    /\ stack = <<DefaultFrame>>
    /\ focus = [h \in Handles |-> Unused]
    /\ resets = 0

FocusNext ==
    \/ \E h \in Handles :
         \/ Open(h) \/ Drop(h) \/ Pop(h) \/ PushHere(h) \/ Reset(h)
         \/ \E other \in Handles : Copy(h, other)
         \/ \E id \in Contained : Shift(h, id) \/ Push(h, id)
    \/ \E id \in Contained :
         Locate(id) \/ Detach(id) \/ AttachToModel(id) \/ DetachElement(id) \/ DetachAndClear(id)
    \/ Attach \/ FailsOnStale
    \/ ResetSession

FocusSpec == FocusInit /\ [][FocusNext]_vars

-----------------------------------------------------------------------------
(* Each frame holds as many references as there are handles linked to it,  *)
(* thus no handle refers to a frame already popped from the stack by       *)
(* pop_unused(), and none keeps a frame alive it has given up.             *)
RefCountExact ==
    \A i \in 1 .. Max({Len(stack)} \cup {focus[h] : h \in Handles}) :
        /\ i <= Len(stack)
        /\ stack[i].refs = Cardinality({h \in Handles : focus[h] = i})

(* The paths kept in the stack never turn into a wrong location: as long  *)
(* as the leaf of a frame is part of the model, the frame holds the exact *)
(* sequence of nested scopes from root, whatever was added, removed or    *)
(* purged since navigate().                                               *)
PathsFaithful ==
    \A i \in 1 .. Len(stack) :
        LET path == stack[i].path
        IN  Leaf(path) \in Contained =>
              /\ path[1] = root
              /\ \A k \in 2 .. Len(path) :
                   path[k] \in Contained \ {root} /\ tab[path[k]] = path[k - 1]

(* commonPrefix() collects equal positions after the first mismatch too,   *)
(* contains() ignores any order, and disjoint() looks at one position. For *)
(* paths into the model they nevertheless yield the longest common prefix, *)
(* the prefix relation, and paths which have just root in common.          *)
PathRelations ==
    \A i, j \in 1 .. Len(stack) :
        LET p == stack[i].path
            q == stack[j].path
            prefix == CommonPrefix(p, q)
        IN  {Leaf(p), Leaf(q)} \subseteq Contained =>
              /\ IsPrefix(prefix, p) /\ IsPrefix(prefix, q)
              /\ \A k \in Len(prefix) + 1 .. Len(p) : ~IsPrefix(SubSeq(p, 1, k), q)
              /\ IsValid(q) => (PathContains(p, q) <=> IsPrefix(q, p))
              /\ IsValid(p) /\ IsValid(q) => (Disjoint(p, q) <=> prefix = <<root>>)
=============================================================================
