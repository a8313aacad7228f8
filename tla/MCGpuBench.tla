----------------------------- MODULE MCGpuBench -----------------------------
(***************************************************************************)
(* A small GPU benchmark: three sizes, which need 1, 2 and 3 nodes.        *)
(***************************************************************************)
EXTENDS GpuBench

CONSTANTS t1, s0, s1, h1, p1, p2, p3, p4, none, zeros

OneThread == {t1}
BothStreams == {s0, s1}
OneHandle == {h1}
FourPtrs == {p1, p2, p3, p4}
SegmentBlocks == 2
LensBench == {1, 3, 5}
ThreeSizes == <<1, 3, 5>>
NoUploads == {}
RuntimeAndKernels == {"runtime", "malloc", "init", "header", "encrypt",
                      "segment", "combine", "finalize", "verify", "decrypt"}
=============================================================================
