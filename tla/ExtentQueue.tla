---------------------------- MODULE ExtentQueue ----------------------------
(***************************************************************************)
(* What the memory manager of vault/mem/extent-family.hpp promises to its  *)
(* users: a sequence of storage extents in use, which grows at the end and *)
(* is discarded from the front, and where an extent in use stays the same  *)
(* and keeps its place in the sequence.                                    *)
(***************************************************************************)
EXTENDS Naturals, Sequences

VARIABLE active    \* the extents in use, oldest first

Distinct(s) == \A i, j \in 1 .. Len(s) : s[i] = s[j] => i = j

Init == active = <<>>

(* claim cnt further extents; none of them may be in use *)
OpenNew(cnt) ==
    /\ Len(active') = Len(active) + cnt
    /\ SubSeq(active', 1, Len(active)) = active
    /\ Distinct(active')

DropOld(cnt) ==
    /\ cnt <= Len(active)
    /\ active' = SubSeq(active, cnt + 1, Len(active))

Next == \/ \E cnt \in {Len(active') - Len(active)} : cnt > 0 /\ OpenNew(cnt)
        \/ \E cnt \in 1 .. Len(active) : DropOld(cnt)

Spec == Init /\ [][Next]_active

=============================================================================
