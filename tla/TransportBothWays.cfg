SPECIFICATION Spec
CONSTANTS
  NumHosts = 2
  W = 2
  MAX_SEQ_NUM = 3
  SCALE = 4
  DUP_MODULUS = 256
  RecvAcceptRate = 2
  TIMEOUT = 3
  Sessions <- BothWaysAndSelf
  MaxMessages = 2
  MaxFragments = 3
  MaxFaults = 2
  EndOfInput = TRUE
  NoFrame = NoFrame
  Src = 0
  Dst = 1
INVARIANTS TypeOK InOrderDelivery PhasesSeparate NoStall ExitLosesNothing
PROPERTY PairSpec
