----------------------------- MODULE MCCtrFrame -----------------------------
(***************************************************************************)
(* Frames with a two-byte header, two-byte blocks and a one-byte tag.  The *)
(* counter has four values, so that a seal has room for two blocks, and    *)
(* callers try up to four.                                                 *)
(***************************************************************************)
EXTENDS CtrFrame

MemoryBytes == 10
SomeLengths == 0 .. 7
SomeCapacities == {5, 7, 10}

ASSUME LengthsOfBuffers == NoWrap

=============================================================================
