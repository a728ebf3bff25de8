---------------------------- MODULE MCQueryFocus ----------------------------
(* Instances of the query focus for model checking: handles are alike. *)
EXTENDS QueryFocus

HandleSymmetry == Permutations(Handles)
=============================================================================
