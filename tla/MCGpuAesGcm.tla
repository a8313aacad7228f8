---------------------------- MODULE MCGpuAesGcm ----------------------------
(***************************************************************************)
(* Small instances of the seal and open engine.                            *)
(***************************************************************************)
EXTENDS GpuAesGcm, TLC

CONSTANTS t1, t2, s1, s2, h1, h2, p1, p2, p3, p4, none, zeros

OneThread == {t1}
TwoThreads == {t1, t2}
OneStream == {s1}
TwoStreams == {s1, s2}
OneHandle == {h1}
TwoHandles == {h1, h2}
FourPtrs == {p1, p2, p3, p4}

\* An empty plaintext, one of one node and one of three: 3, 2, 1.
SegmentBlocks == 2
LensAll == {0, 1, 5}
LensGrow == {1, 5}
LensOne == {1}

AllFaults == {"malloc", "init", "header", "encrypt", "segment", "combine",
              "finalize", "verify", "decrypt"}
InitFaults == {"init"}
VerifyFaults == {"verify"}
MallocFaults == {"malloc"}
NoFaults == {}

AllUploads == {"none", "ver", "iv", "ct", "tag"}
AlteredUploads == {"ct"}
NoUploads == {}

\* Which of two keys is which does not matter.
KeyNames == Permutations(TwoHandles)
=============================================================================
