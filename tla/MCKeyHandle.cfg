SPECIFICATION Spec
CONSTANTS
  t1 = t1
  t2 = t2
  k1 = k1
  k2 = k2
  Threads <- TwoThreads
  Objects <- TwoObjects
  Devices <- SomeDevices
  Present <- PresentDevices
  MaxFaults = 1
  OneAtATime = TRUE
INVARIANTS
  TypeOK
  UsedAlive
  NoLeak
  DeviceRestored
  OnItsDevice
SYMMETRY Interchangeable
CHECK_DEADLOCK FALSE
