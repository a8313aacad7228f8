---------------------------- MODULE MCKeyHandle ----------------------------
(***************************************************************************)
(* Two threads, two keys and two devices; callers may also name a third    *)
(* device that is not there.                                               *)
(***************************************************************************)
EXTENDS KeyHandle, TLC

CONSTANTS t1, t2, k1, k2

TwoThreads == {t1, t2}
TwoObjects == {k1, k2}
SomeDevices == 0 .. 2
PresentDevices == 0 .. 1

Interchangeable == Permutations(TwoThreads) \cup Permutations(TwoObjects)

=============================================================================
