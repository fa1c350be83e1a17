CONSTANTS
  Blocks = 3
  SeqMod = 4
  MaxErrors = 3
  HelloTries = 2
  AckTries = 3
  MaxFaults = 2
  MaxResends = 1
SPECIFICATION Spec
INVARIANTS TypeOK InOrder NoFalseSuccess
PROPERTIES Terminates CleanTransfer
CHECK_DEADLOCK FALSE
