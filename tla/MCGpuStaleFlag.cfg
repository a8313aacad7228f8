SPECIFICATION Spec
CONSTANTS
  t1 = t1
  t2 = t2
  s1 = s1
  s2 = s2
  h1 = h1
  h2 = h2
  p1 = p1
  p2 = p2
  p3 = p3
  p4 = p4
  none = none
  zeros = zeros
  None <- none
  Zeros <- zeros
  Ptrs <- FourPtrs
  GHASH_SEGMENT_BLOCKS <- SegmentBlocks
  Threads <- OneThread
  Streams <- OneStream
  Handles <- OneHandle
  Lens <- LensGrow
  Uploads <- AllUploads
  QueueDepth = 3
  MaxCalls = 3
  MaxFaults = 1
  Faulty <- VerifyFaults
  ClearAuth = FALSE
  SerialCalls = TRUE
CHECK_DEADLOCK FALSE
INVARIANTS
  PlaintextAuthentic
