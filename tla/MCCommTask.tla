---------------------------- MODULE MCCommTask ----------------------------
(* Small instances of CommTask. *)
EXTENDS CommTask

TwoFds == {1, 2}
NoNoise == {}
(* a wrong first byte, a wrong terminator, a frame that is no greeting *)
SomeNoise == {<<0, 0, 0>>, <<123, 0, 1, 7>>, <<123, 0, 1, 125>>}
NoSentence == {}
OneSentence == {1}
(* the longitude of a sentence behind a latitude that was blank *)
OneMerged == {<<0, 1>>}
NoMerged == {}
=============================================================================
