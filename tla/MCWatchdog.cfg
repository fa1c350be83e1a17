SPECIFICATION Spec
CONSTANTS
  Interval = 1
  Rst = 2
  Tmo = 7
  MaxResets = 2
  MaxCCalls = 3
  PanicTime = 30
  LuaThreads = {"main", "shell"}
  Latency = 1
INVARIANTS TypeOK NoSpuriousFire HangBound KickBound
PROPERTY UptimeBounded
