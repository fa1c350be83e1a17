CONSTANTS
  Blocks = 2
  SeqMod = 256
  MaxErrors = 45
  HelloTries = 45
  AckTries = 10
  MaxFaults = 0
  MaxResends = 1
SPECIFICATION Spec
INVARIANT SuccessIsReported
CHECK_DEADLOCK FALSE
