SPECIFICATION Spec
CONSTANTS
  session = session
  playOut = playOut
  player = player
  gui = gui
  Subsystems = {session, playOut, player, gui}
  Prereq <- MainPrereq
  Primary <- MainPrimary
  Wanted = {gui}
  Spontaneous = {session, playOut, gui}
  Failing = {session, playOut, gui}
  StartFails = {playOut, gui}
  StartRefused = {session, playOut}
  Synchronous = {player}
  DeafAtStart = {gui}
  MaxStarts = 2
INVARIANT CleanExit
PROPERTIES StartupAllOrNothing ShutdownCascades
CHECK_DEADLOCK FALSE
