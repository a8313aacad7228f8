SPECIFICATION Spec
CONSTANTS
  MODES <- AllModes
  SIZES_MIB <- TwoSizes
  PROCESS_REPEATS = 3
  WARMUP = 1
  ITERATIONS = 2
  Durations <- Times
  MaxFaults = 1
CHECK_DEADLOCK FALSE
INVARIANTS
  SummaryFaithful
  SummaryVerified
  TimedWarm
PROPERTY
  RawRetained
