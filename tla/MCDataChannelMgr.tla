------------------------ MODULE MCDataChannelMgr ---------------------------
(* Model-checking instances of DataChannelMgr.  Two rows of three cells with *)
(* the moduli that CMultiHash::init computes for them, 3 and 2; five keys,   *)
(* of which 3 and 6 and also 1 and 4 share a cell of the first row, so that  *)
(* keys move on to the second row and a key may find both cells taken; three *)
(* channels, so that the pool runs out before the hash does.                 *)
EXTENDS DataChannelMgr, Sequences

MCHashBase == <<3, 2>>
MCKey == {1, 2, 3, 4, 6}
=============================================================================
