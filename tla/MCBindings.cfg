CONSTANTS
  Objects = {o1, o2}
  Ids = {i1, i2}
  NtpSockets = {s1, s2}
  NtpTimeOut = 1
  Channels = {1, 2}
  Urls = {1, 2}
  Connections = {c1, c2}
  NULL = NULL
  Numbers = {n1, n2}
  Bits = 3
  FamilyBits = 2
  Devices <- MCDevices
  DS18B20 <- MCDS18B20
  MAX_ONEWIRE_SENSORS = 2
  Sensors = {d1, d2}
  Fixed = {d2}
SPECIFICATION Spec
INVARIANTS TypeOK LiveCallbacks SendsWhatWasAsked PortIsWhole SendsItsData CanHangUp SearchFindsAll NoStaleTemperature
PROPERTIES OwnTimers RequestsEnd
