------------------------- MODULE MCStreamLifecycle --------------------------
(* Two videos: with a channel and a room each, or of one channel and room.   *)
EXTENDS StreamLifecycle

OwnIds == <<1, 2>>
SharedIds == <<1, 1>>
=============================================================================
