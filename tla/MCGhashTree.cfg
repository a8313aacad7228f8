SPECIFICATION Spec
CONSTANTS
  AES_BLOCK <- BlockBytes
  GHASH_SEGMENT_BLOCKS <- SegmentBlocks
  THREADS <- ThreadsPerBlock
  Lengths <- SomeLengths
INVARIANTS
  TypeOK
  RootIsGhash
  InBounds
  NodesAreSegments
PROPERTY
  ChainEnds
