SPECIFICATION FairSpec
CONSTANTS
  NumHosts = 3
  W = 2
  MAX_SEQ_NUM = 3
  SCALE = 4
  DUP_MODULUS = 256
  RecvAcceptRate = 1
  TIMEOUT = 3
  Sessions <- TwoToOne
  MaxMessages = 2
  MaxFragments = 2
  MaxFaults = 1
  EndOfInput = FALSE
  NoFrame = NoFrame
  Src = 0
  Dst = 2
PROPERTIES EventuallyPrinted EventuallyExits
