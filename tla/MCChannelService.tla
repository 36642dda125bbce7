-------------------------- MODULE MCChannelService --------------------------
(* Two rows of three and two cells, two keys that meet in the first row and  *)
(* two in the second.                                                        *)
EXTENDS ChannelService

MCHashBase == <<3, 2>>
MCKey == {1, 3, 4, 6}
=============================================================================
