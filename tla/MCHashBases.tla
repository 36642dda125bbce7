----------------------------- MODULE MCHashBases -----------------------------
(* Every length up to one with a few primes on either side of its root, and  *)
(* rows enough to use them up for most.                                      *)
EXTENDS HashBases

MCLengths == 1 .. 30
MCTimes == 1 .. 8
=============================================================================
