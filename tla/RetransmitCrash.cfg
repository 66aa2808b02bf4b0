SPECIFICATION Spec
CONSTANTS
  NumHosts = 2
  W = 7
  MAX_SEQ_NUM = 15
  SCALE = 4
  DUP_MODULUS = 256
  RecvAcceptRate = 8
  TIMEOUT = 3
  Sessions <- OneWay
  MaxMessages = 1
  MaxFragments = 9
  MaxFaults = 3
  EndOfInput = FALSE
  NoFrame = NoFrame
  Src = 0
  Dst = 1
INVARIANT RetransmitFindsFrame
