SPECIFICATION Spec
CONSTANTS
  MAX_SEQ_NUM = 3
  SCALE = 6
  DUP_MODULUS = 6
  W = 4
  MaxCwnd = 60
INVARIANTS CwndAtLeastOne FastRecoveryInflated
PROPERTY ShrinksOnlyOnLoss
