---------------------------- MODULE MCFrameBuffer ----------------------------
(* The limits keep their order: 256 slots, jumps of 100 and a distance of    *)
(* 256 for video; 4096, 50 and 384 for sound.                                *)
EXTENDS FrameBuffer

Video == [slots |-> 4, top |-> 12, jump |-> 2, distance |-> 4, wraps |-> TRUE, clears |-> FALSE]
Audio == [slots |-> 7, top |-> 9, jump |-> 1, distance |-> 2, wraps |-> FALSE, clears |-> TRUE]
MCKinds == {Video, Audio}
=============================================================================
