CONSTANTS
  Day = 4
  Month = 8
  Limits = {1, 2}
  Limit0 = 1
  Intervals = {0, 2}
  Interval0 = 2
  Delays = {1}
SPECIFICATION Spec
INVARIANT TypeOK
PROPERTIES SleepsForAReason WakesUp SleepsWhenIdle
