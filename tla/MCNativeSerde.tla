--------------------------- MODULE MCNativeSerde ---------------------------
(***************************************************************************)
(* Small instances of the CPU path.  Frame buffers have room for two       *)
(* chunks, so that a length of three is refused and a tag can lie where    *)
(* another length looks for ciphertext.                                    *)
(***************************************************************************)
EXTENDS NativeSerde

CONSTANTS w1, w2, f1, o1, m1, m2, salt1, salt2, none

OneWorker == {w1}
TwoWorkers == {w1, w2}
OneFrame == {f1}
OneOut == {o1}
OneMaster == {m1}
TwoMasters == {m1, m2}
OneSalt == {salt1}
TwoSalts == {salt1, salt2}
KeySizes == {128, 256}

LensAll == {0, 1, 2, 3}
LensTwo == {1, 2}

AllCalls == {"new", "reset", "rand", "init", "settag", "update", "final",
             "gettag"}
NoCalls == {}
AllFields == {"ver", "iv", "ct", "tag"}
NoFields == {}
=============================================================================
