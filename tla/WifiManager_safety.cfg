SPECIFICATION Spec
CONSTANTS
  ClockMod = 7
  ReconnectMs = 1
  AttemptTimeoutMs = 5
  ConnectMayFail = TRUE
  StaleGotIp = TRUE
  BlinkMs = 1
  OnMs = 1
  OffMs = 1
  PauseMs = 2
  BlinkCount = 2
  Losses = {"LOST_HARD", "LOST_SOFT"}
  MaxLag = 1
  MaxQueue = 3
INVARIANTS
  TypeOK
  LedFollowsState
  AttemptStaysYoung
  BeliefSettles
PROPERTY DisconnectedHasCause
