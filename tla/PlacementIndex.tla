--------------------------- MODULE PlacementIndex ---------------------------
(***************************************************************************)
(* The index of all placements attached to the session                     *)
(* (steam/mobject/session/placement-index.cpp), the backbone of the        *)
(* high-level model: a main table from the ID of a placement to the entry, *)
(* holding the scope it belongs to, and a reverse table listing the        *)
(* contents of each scope. A placement is represented by its ID. Copying a *)
(* placement creates a new ID (placement.hpp:194), drawn here from a       *)
(* counter. A call that throws leaves the tables alone and is no step.     *)
(***************************************************************************)
EXTENDS Naturals, FiniteSets

CONSTANT MaxIds    \* bound: IDs created

ASSUME MaxIdsAssumption == MaxIds \in Nat \ {0}

VARIABLES tab,       \* placementTab_: ID -> ID of the scope; root is its own scope
          scopeTab,  \* scopeTab_: the pairs <<scope, element>>
          root,      \* ID of root_
          lastId     \* the ID most recently created

index == <<tab, scopeTab, root, lastId>>

Contained == DOMAIN tab

(* the root element is stored as a copy of the given definition *)
SetupRoot(id) == [i \in {id} |-> id]

Init ==
    /\ tab = SetupRoot(1)
    /\ scopeTab = {}
    /\ root = 1
    /\ lastId = 1

(* Table::clear() *)
Purge ==
    /\ lastId < MaxIds
    /\ lastId' = lastId + 1
    /\ root' = lastId'
    /\ tab' = SetupRoot(root')
    /\ scopeTab' = {}

AddEntry(id, scope) ==
    /\ tab' = [i \in Contained \cup {id} |-> IF i = id THEN scope ELSE tab[i]]
    /\ scopeTab' = scopeTab \cup {<<scope, id>>}

Discard(ids) == [i \in Contained \ ids |-> tab[i]]

Contents(scope) == {i \in Contained : <<scope, i>> \in scopeTab}

(* mutant: one level is removed, without recursion *)
OneLevel(id) == {id} \cup Contents(id)

(* the element itself and whatever the recursion through scopeTab_ reaches *)
Subtree(id) ==
    {x \in Contained : \A S \in SUBSET Contained :
        (id \in S /\ \A s \in S : Contents(s) \subseteq S) => x \in S}

(* insert() throws for a scope which is not registered *)
Insert(scope) ==
    /\ scope \in Contained
    /\ lastId < MaxIds
    /\ lastId' = lastId + 1
    /\ AddEntry(lastId', scope)
    /\ UNCHANGED root

(* remove() throws for root and for a scope with contents *)
RemoveEntry(id) ==
    /\ id \in Contained \ {root}
    /\ Contents(id) = {}
    /\ tab' = Discard({id})
    /\ scopeTab' = scopeTab \ {<<tab[id], id>>}
    /\ UNCHANGED <<root, lastId>>

(* mutant: the element is left in the contents of the enclosing scope *)
RemoveAllBelow(id) ==
    /\ tab' = Discard(Subtree(id))
    /\ scopeTab' = {e \in scopeTab : e[1] \notin Subtree(id)}
    /\ UNCHANGED <<root, lastId>>

(* the scopes below are erased as a whole, the top-level element with its  *)
(* entry within the enclosing scope                                        *)
RemoveAll(id) ==
    /\ tab' = Discard(Subtree(id))
    /\ scopeTab' = {e \in scopeTab : e[1] \notin Subtree(id)} \ {<<tab[id], id>>}
    /\ UNCHANGED <<root, lastId>>

Clear(scope) ==
    \/ scope = root /\ Purge
    \/ scope \in Contained \ {root} /\ RemoveAll(scope)

Next ==
    \E id \in Contained : Insert(id) \/ RemoveEntry(id) \/ Clear(id)

Spec == Init /\ [][Next]_index

-----------------------------------------------------------------------------
(* The tables hold IDs, and the bound on IDs is kept. *)
TypeOK ==
    /\ lastId \in 1 .. MaxIds
    /\ root \in 1 .. lastId
    /\ Contained \subseteq 1 .. lastId
    /\ tab \in [Contained -> 1 .. lastId]
    /\ scopeTab \subseteq (1 .. lastId) \X (1 .. lastId)

(* The main table and the table of scopes always agree, whatever sequence *)
(* of insertions, removals and recursive purges led here: each element is *)
(* listed exactly once, as member of a scope which itself is part of the  *)
(* index, and nothing else is listed (checks 1.7, 1.8, 2.1, 2.5 and 2.8   *)
(* of the self-check in placement-index.cpp).                             *)
TablesAgree ==
    /\ root \in Contained /\ tab[root] = root
    /\ \A i \in Contained : tab[i] \in Contained
    /\ scopeTab = {<<tab[i], i>> : i \in Contained \ {root}}

(* From each element the way up through the enclosing scopes ends at root, *)
(* thus a removal never leaves a detached part nor a loop behind (check    *)
(* 2.4): only the whole index contains root and, with any scope, all the   *)
(* elements which belong to this scope.                                    *)
AttachedBelowRoot ==
    \A S \in SUBSET Contained :
        (root \in S /\ \A i \in Contained : tab[i] \in S => i \in S) => S = Contained

(* The placements kept alive by some entry, as element or as scope, are   *)
(* just those registered, and the tables have matching sizes (checks 4.3  *)
(* and 4.4): purging a scope leaks no placement.                          *)
NothingLeaked ==
    LET live == Contained \cup {tab[i] : i \in Contained} \cup {root}
    IN  /\ Cardinality(live) = Cardinality(Contained)
        /\ Cardinality(Contained) = Cardinality(scopeTab) + 1
=============================================================================
