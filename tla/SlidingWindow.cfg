SPECIFICATION Spec
CONSTANTS
  MAX_SEQ_NUM = 5
  W = 3
  MaxFrames = 7
  MaxInFlight = 4
  NoFrame = NoFrame
INVARIANTS InOrderDelivery ForgetsOnlyDelivered IInv
PROPERTY RDSpec
CHECK_DEADLOCK FALSE
