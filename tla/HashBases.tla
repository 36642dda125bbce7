------------------------------ MODULE HashBases ------------------------------
(* The rows of a multi-hash: how CMultiHash::init and hls_hashbase_init find *)
(* a base for each, counting down from the length of a row with an unsigned  *)
(* integer.  A row of CMultiHash then takes a key modulo its base; those of  *)
(* the HLS tables are scanned instead.                                       *)
EXTENDS Integers, FiniteSets

CONSTANTS Lengths, Times,    \* the sizes asked for
          Wrap               \* 2^32

ASSUME SizesAssumption == /\ Lengths \subseteq 1 .. Wrap - 1 /\ Times \subseteq Nat \ {0}
                          /\ Wrap \in Nat

(* There are more numbers that pass the sieve between a length and the wrap, *)
(* where the search goes on when it runs out of good bases, than there are   *)
(* rows: each prime there does, some two hundred million below 2^32.         *)
ASSUME RangeAssumption ==
  \A l \in Lengths, t \in Times :
     t <= Cardinality({n \in l + 1 .. Wrap - 1 : \A k \in 2 .. l : k * k <= l => n % k # 0})

VARIABLES table,      \* "CMultiHash" or "hls"
          len, time,  \* length of a row, number of rows
          i, bases,   \* the next number to try, m_uiHashBase
          exited      \* exit(-1)

vars == <<table, len, time, i, bases, exited>>

Init == /\ table \in {"CMultiHash", "hls"} /\ len \in Lengths /\ time \in Times
        /\ i = len /\ bases = [j \in {} |-> 0] /\ exited = FALSE

TypeOK == /\ len \in Lengths /\ time \in Times /\ i \in 0 .. Wrap - 1
          /\ \E n \in 0 .. time : bases \in [0 .. n - 1 -> 0 .. Wrap - 1]
          /\ exited \in BOOLEAN
-----------------------------------------------------------------------------
Rows == Cardinality(DOMAIN bases)
Done == Rows = time \/ exited

(* A bound that leaves the square root itself out. *)
DivisorsBelowRoot == {k \in 2 .. len : k * k < len}

(* The square root is that of the length, whatever number is tried. *)
Divisors == {k \in 2 .. len : k * k <= len}

Passes(n) == \A k \in Divisors : n % k # 0

(* Signed, as the test i<=0 has it. *)
BeforeSigned(n) == n - 1

Before(n) == IF n = 0 THEN Wrap - 1 ELSE n - 1

(* "HashLen is too small!"  From a length of 4 on 0 does not pass the sieve, *)
(* and the search goes on behind the wrap instead.                           *)
Exits == table = "hls" /\ i = 0

Skip == /\ ~Done /\ ~Passes(i)
        /\ i' = Before(i)
        /\ UNCHANGED <<table, len, time, bases, exited>>

Take == /\ ~Done /\ Passes(i)
        /\ bases' = [j \in 0 .. Rows |-> IF j = Rows THEN i ELSE bases[j]]
        /\ exited' = Exits
        /\ i' = IF Exits THEN i ELSE Before(i)
        /\ UNCHANGED <<table, len, time>>

Next == Skip \/ Take
Spec == Init /\ [][Next]_vars
-----------------------------------------------------------------------------
Prime(n) == n > 1 /\ \A k \in 2 .. n - 1 : n % k # 0

(* The numbers up to the length that make good bases: its primes but those   *)
(* that divide for the others, and 1.                                        *)
GoodBases == {n \in 1 .. len : n = 1 \/ (Prime(n) /\ n * n > len)}

(* As long as there are good bases left the rows have the largest of them,   *)
(* in descending order: no two rows share one, and no key hashes past the    *)
(* end of its row.  With more rows than that a base is another number than   *)
(* the code means: 0, or one close to the wrap.                              *)
LargestPrimesFirst ==
  \A j \in DOMAIN bases :
     IF j < Cardinality(GoodBases)
     THEN bases[j] \in GoodBases /\ Cardinality({n \in GoodBases : n > bases[j]}) = j
     ELSE bases[j] \notin 1 .. len
=============================================================================
