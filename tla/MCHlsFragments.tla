--------------------------- MODULE MCHlsFragments ---------------------------
(* Small instances of the segmenter.  The audio buffer holds more than a     *)
(* fragment, as the megabyte of HLS_AUDIO_BUF_LEN holds more than the 300 KB *)
(* of HLS_MAX_TS_LEN, and a fragment of three ticks is one second and a half *)
(* long.                                                                     *)
EXTENDS HlsFragments

MCElapsed == {-3, -1, 1, 3}
MCShortElapsed == {1, 3}
=============================================================================
