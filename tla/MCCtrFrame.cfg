SPECIFICATION Spec
CONSTANTS
  AES_BLOCK = 2
  HEADER_LEN = 2
  TAG_LEN = 1
  THREADS = 2
  COUNTER_WRAP = 4
  SIZE_WRAP = 64
  INT_MAX = 3
  Memory <- MemoryBytes
  Capacities <- SomeCapacities
  Lengths <- SomeLengths
  MaxCalls = 3
INVARIANTS
  TypeOK
  KeystreamOnce
  FrameComplete
  FailedOpenZeroes
  OpensExact
CHECK_DEADLOCK FALSE
