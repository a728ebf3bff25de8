---------------------------- MODULE MCBlockFlow ----------------------------
(***************************************************************************)
(* Instances of the Activity allocator for model checking.                 *)
(***************************************************************************)
EXTENDS BlockFlow, TLC

CONSTANTS h1, h2

MCAnytime == -1000

HandleSymmetry == Permutations(Handles)

=============================================================================
