---------------------------- MODULE MCGhashTree ----------------------------
(***************************************************************************)
(* The reduction checked on small blocks and segments.  Five nodes make    *)
(* the chain 5, 3, 2, 1, in which the odd node is carried over twice.      *)
(***************************************************************************)
EXTENDS GhashTree

BlockBytes == 2
SegmentBlocks == 2
ThreadsPerBlock == 2
\* Segments: 1 (the length block alone), 1, 2, 3 and 5.
SomeLengths == {0, 1, 4, 9, 16}

=============================================================================
