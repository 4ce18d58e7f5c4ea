SPECIFICATION FairSpec
CONSTANTS
  ClockMod = 7
  ReconnectMs = 1
  AttemptTimeoutMs = 5
  ConnectMayFail = TRUE
  StaleGotIp = TRUE
  BlinkMs = 1
  OnMs = 1
  OffMs = 1
  PauseMs = 2
  BlinkCount = 2
  Losses = {"LOST_HARD"}
  MaxLag = 1
  MaxQueue = 2
PROPERTY AutoReconnect
