SPECIFICATION BenchSpec
CONSTANTS
  t1 = t1
  s0 = s0
  s1 = s1
  h1 = h1
  p1 = p1
  p2 = p2
  p3 = p3
  p4 = p4
  none = none
  zeros = zeros
  None <- none
  Zeros <- zeros
  Ptrs <- FourPtrs
  GHASH_SEGMENT_BLOCKS <- SegmentBlocks
  Threads <- OneThread
  Streams <- BothStreams
  Handles <- OneHandle
  Lens <- LensBench
  Uploads <- NoUploads
  QueueDepth = 6
  MaxCalls = 40
  MaxFaults = 2
  Faulty <- RuntimeAndKernels
  ClearAuth = FALSE
  SerialCalls = TRUE
  thread <- t1
  key <- h1
  stream <- s1
  default_stream <- s0
  SIZES <- ThreeSizes
  WARMUP = 1
  ITERATIONS = 2
CHECK_DEADLOCK FALSE
PROPERTIES
  SamplesGenuine
  KeyClosed
