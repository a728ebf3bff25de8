----------------------------- MODULE MCBuffers -----------------------------
(* Instances of BufferProvider for TLC.                                    *)
EXTENDS BufferProvider, TLC

CONSTANTS h1, h2, h3
MCHandles == {h1, h2, h3}
HandleSymmetry == Permutations(MCHandles)
=============================================================================
