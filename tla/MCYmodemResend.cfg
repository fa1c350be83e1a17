CONSTANTS
  Blocks = 2
  SeqMod = 256
  MaxErrors = 45
  HelloTries = 45
  AckTries = 10
  MaxFaults = 1
  MaxResends = 11
SPECIFICATION Spec
INVARIANT ResendBound
CHECK_DEADLOCK FALSE
