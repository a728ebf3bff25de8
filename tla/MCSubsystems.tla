---------------------------- MODULE MCSubsystems ----------------------------
(* The application: the dependencies set up in main(). *)
EXTENDS SubsystemRunner

CONSTANTS session, playOut, player, gui

Application == {session, playOut, player, gui}

(* lumiera/main.cpp:64-68 *)
MainPrereq == [s \in Application |->
                 CASE s = session -> <<>>
                   [] s = playOut -> <<session>>
                   [] s = player  -> <<playOut>>
                   [] s = gui     -> <<session, player>>]

MainPrimary == <<playOut, gui>>
=============================================================================
