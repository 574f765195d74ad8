SPECIFICATION FairSpec
CONSTANTS
  RestartLimit = 2
  Retries = 2
  Launcher = TRUE
  ServerCanCrash = TRUE
  SafeCanFail = TRUE
  ReadbackCanFail = FALSE
INVARIANTS
  AbandonsNoSignal
  ReplacesSafely
  OneServerOnBoard
PROPERTIES
  HungServerEnds
  NoUnwatchedServer
