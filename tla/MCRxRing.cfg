CONSTANTS
  N = 2
  Wrap = 4
  Devices = {"usb", "bt"}
  Chars = {1, 2}
  NoChar = 0
  MaxBatch <- MCMaxBatch
  MaxIdle = 1
SPECIFICATION Spec
INVARIANTS TypeOK NoLostWakeup IdleClock
PROPERTIES IsDropOldest InputIsRead
