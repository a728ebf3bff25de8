----------------------------- MODULE MCSession -----------------------------
(* Instances of the session loop for model checking. *)
EXTENDS SteamDispatcher

CONSTANTS c1, c2
=============================================================================
