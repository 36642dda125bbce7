------------------------ MODULE MCVoiceChannelAlloc ------------------------
(* Model-checking instance of VoiceChannelAlloc: a pool of five channels,    *)
(* enough for a release at the head, at the tail, in the middle and of the   *)
(* only node of the used list, with the free list empty, single or longer.   *)
EXTENDS VoiceChannelAlloc

MCNodeNum == 5
=============================================================================
