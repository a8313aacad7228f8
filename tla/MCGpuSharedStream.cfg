SPECIFICATION Spec
CONSTANTS
  t1 = t1
  t2 = t2
  s1 = s1
  s2 = s2
  h1 = h1
  h2 = h2
  p1 = p1
  p2 = p2
  p3 = p3
  p4 = p4
  none = none
  zeros = zeros
  None <- none
  Zeros <- zeros
  Ptrs <- FourPtrs
  GHASH_SEGMENT_BLOCKS <- SegmentBlocks
  Threads <- TwoThreads
  Streams <- OneStream
  Handles <- OneHandle
  Lens <- LensGrow
  Uploads <- NoUploads
  QueueDepth = 3
  MaxCalls = 2
  MaxFaults = 0
  Faulty <- NoFaults
  ClearAuth = TRUE
  SerialCalls = FALSE
CHECK_DEADLOCK FALSE
INVARIANTS
  SealedFramesCorrect
