SPECIFICATION Spec
CONSTANTS
  t1 = t1
  t2 = t2
  s1 = s1
  s2 = s2
  h1 = h1
  h2 = h2
  p1 = p1
  p2 = p2
  p3 = p3
  p4 = p4
  none = none
  zeros = zeros
  None <- none
  Zeros <- zeros
  Ptrs <- FourPtrs
  GHASH_SEGMENT_BLOCKS <- SegmentBlocks
  Threads <- OneThread
  Streams <- OneStream
  Handles <- TwoHandles
  Lens <- LensAll
  Uploads <- AllUploads
  QueueDepth = 3
  MaxCalls = 2
  MaxFaults = 1
  Faulty <- AllFaults
  ClearAuth = TRUE
  SerialCalls = TRUE
SYMMETRY KeyNames
CHECK_DEADLOCK FALSE
INVARIANTS
  TypeOK
  OneOwner
  SealedFramesCorrect
  OpensDecide
  PlaintextAuthentic
PROPERTY
  IsEndpoint
