SPECIFICATION FairSpec
CONSTANTS
  RECV_INTERVAL = 2
  TRANS_LATENCY = 2
  MaxChars = 3
INVARIANTS DeviceInv
PROPERTIES KeptForInterval TransmitPaced ImplementsChannel TransmitterRecovers TypedIsTaken
CHECK_DEADLOCK FALSE
