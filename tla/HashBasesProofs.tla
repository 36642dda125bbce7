-------------------------- MODULE HashBasesProofs ---------------------------
(* Why the search for the bases of a multi-hash finds the largest primes,    *)
(* for any lengths, numbers of rows and width of the integers.               *)
(*                                                                           *)
(* What passes the sieve among the numbers up to the length are the good     *)
(* bases (SieveFindsGood): a number that is not prime is divided by one no   *)
(* larger than its root.  So the rows hold the good bases above i, until i   *)
(* gets to 0 (FirstRound); beyond the wrap the rows fill up before i is at   *)
(* the length once more (AfterWrap), since more numbers pass between the two *)
(* than there are rows.                                                      *)
EXTENDS HashBases, NaturalTheorems, FiniteSetTheorems

Above(n) == {g \in GoodBases : g > n}
PassersAbove(n) == {m \in n + 1 .. Wrap - 1 : Passes(m)}

(* The rows have the good bases that were tried, and nothing else. *)
FirstRound == ~exited /\ i \in 0 .. len /\ Rows = Cardinality(Above(i))

(* The good bases are used up, and so is what passes between i and the wrap. *)
AfterWrap ==
  /\ Rows >= Cardinality(GoodBases)
  /\ IF exited THEN Rows > Cardinality(GoodBases)
     ELSE i \in len .. Wrap - 1 /\ Rows >= Cardinality(PassersAbove(i))

IInv == TypeOK /\ (FirstRound \/ AfterWrap) /\ LargestPrimesFirst

-----------------------------------------------------------------------------
(* What it means for k to divide n. *)
LEMMA DividesFacts ==
  ASSUME NEW n \in Nat, NEW k \in Nat, k > 0
  PROVE  n % k = 0 <=> \E q \in Nat : n = k * q
<1> DEFINE p == n \div k
           r == n % k
<1>1. p \in Nat /\ r \in Nat /\ r < k /\ n = k * p + r
  OBVIOUS
<1>2. r = n % k
  OBVIOUS
<1> HIDE DEF p, r
<1>3. ASSUME r = 0 PROVE \E q \in Nat : n = k * q
  <2>1. k * p \in Nat
    BY <1>1
  <2>2. n = k * p
    BY <1>1, <1>3, <2>1
  <2> QED
    BY <1>1, <2>2
<1>4. ASSUME NEW q \in Nat, n = k * q PROVE r = 0
  <2>1. k * p \in Nat /\ k * q \in Nat /\ k * q = k * p + r
    BY <1>1, <1>4
  <2>2. CASE q <= p
    <3>1. PICK d \in Nat : p = q + d
      BY <1>1, <2>2
    <3>2. k * p = k * q + k * d /\ k * d \in Nat
      BY <3>1
    <3> QED
      BY <1>1, <2>1, <3>2
  <2>3. CASE q > p
    <3>1. PICK d \in Nat : q = p + 1 + d
      BY <1>1, <2>3
    <3>2. k * q = k * p + k + k * d /\ k * d \in Nat
      BY <1>1, <3>1
    <3> QED
      BY <1>1, <2>1, <3>2
  <2> QED
    BY <1>1, <2>2, <2>3
<1> QED
  BY <1>2, <1>3, <1>4

(* Of two factors one is no larger than the root, and each more than 1 when  *)
(* the other is less than the product.                                       *)
LEMMA SmallerFactor ==
  ASSUME NEW n \in Nat, NEW k \in Nat, NEW q \in Nat, n = k * q, k > 1, k < n
  PROVE  /\ q > 1 /\ q <= n
         /\ k * k <= n \/ q * q <= n
<1>1. q # 0 /\ q # 1
  BY k * 0 = 0, k * 1 = k
<1>2. q > 1
  BY <1>1
<1>3. PICK d \in Nat : k = 1 + d
  BY k > 1
<1>4. n = q + d * q /\ d * q \in Nat
  BY <1>3
<1>5. q <= n
  BY <1>4
<1>6. CASE k <= q
  <2>1. PICK e \in Nat : q = k + e
    BY <1>6
  <2>2. k * q = k * k + k * e /\ k * k \in Nat /\ k * e \in Nat
    BY <2>1
  <2> QED
    BY <1>2, <1>5, <2>2
<1>7. CASE q < k
  <2>1. PICK e \in Nat : k = q + e
    BY <1>7
  <2>2. k * q = q * q + e * q /\ q * q \in Nat /\ e * q \in Nat
    BY <2>1
  <2> QED
    BY <1>2, <1>5, <2>2
<1> QED
  BY <1>6, <1>7

(* Squares grow with their numbers. *)
LEMMA SquaresGrow == ASSUME NEW m \in Nat, NEW n \in Nat, m < n
                     PROVE  m * m < n * n
<1>1. PICK d \in Nat : n = m + 1 + d
  OBVIOUS
<1>2. n * n = m * m + m * (1 + d) + (1 + d) * m + (1 + d) * (1 + d)
  BY <1>1
<1>3. m * (1 + d) \in Nat /\ (1 + d) * m \in Nat /\ m * m \in Nat
  OBVIOUS
<1>4. (1 + d) * (1 + d) = 1 + d + d + d * d /\ d * d \in Nat
  OBVIOUS
<1> QED
  BY <1>2, <1>3, <1>4

(* A number from 1 to the length passes the sieve just when it is a good     *)
(* base.                                                                     *)
LEMMA SieveFindsGood ==
  ASSUME len \in Nat, NEW n \in 1 .. len
  PROVE  Passes(n) <=> n \in GoodBases
<1>1. ASSUME Passes(n), n # 1 PROVE Prime(n) /\ n * n > len
  <2>1. n > 1 /\ n \in Nat /\ n * n \in Nat
    BY <1>1
  <2>2. ASSUME NEW k \in 2 .. n - 1, n % k = 0 PROVE FALSE
    <3>1. k \in Nat /\ k > 1 /\ k < n
      BY <2>1
    <3>2. PICK q \in Nat : n = k * q
      BY <2>1, <2>2, <3>1, DividesFacts
    <3>3. q > 1 /\ q <= n /\ (k * k <= n \/ q * q <= n)
      BY <2>1, <3>1, <3>2, SmallerFactor
    <3>4. k * k \in Nat /\ q * q \in Nat
      BY <3>1
    <3>5. n % q = 0
      <4>1. n = q * k
        BY <3>1, <3>2
      <4> QED
        BY <2>1, <3>1, <3>3, <4>1, DividesFacts
    <3>6. CASE k * k <= n
      <4>1. k \in Divisors
        BY <2>1, <3>1, <3>4, <3>6 DEF Divisors
      <4> QED
        BY <1>1, <2>2, <4>1 DEF Passes
    <3>7. CASE q * q <= n
      <4>1. q \in Divisors
        BY <2>1, <3>3, <3>4, <3>7 DEF Divisors
      <4> QED
        BY <1>1, <3>5, <4>1 DEF Passes
    <3> QED
      BY <3>3, <3>6, <3>7
  <2>3. ASSUME ~ (n * n > len) PROVE FALSE
    <3>1. n \in Divisors
      BY <2>1, <2>3 DEF Divisors
    <3>2. n % n = 0
      <4>1. n = n * 1
        BY <2>1
      <4> QED
        BY <2>1, <4>1, DividesFacts
    <3> QED
      BY <1>1, <3>1, <3>2 DEF Passes
  <2> QED
    BY <2>1, <2>2, <2>3 DEF Prime
<1>2. ASSUME n = 1 PROVE Passes(n)
  <2>1. \A k \in 2 .. len : 1 % k = 1
    OBVIOUS
  <2> QED
    BY <1>2, <2>1 DEF Passes, Divisors
<1>3. ASSUME Prime(n), n * n > len PROVE Passes(n)
  <2>1. ASSUME NEW k \in Divisors PROVE n % k # 0
    <3>1. k \in Nat /\ k >= 2 /\ k * k <= len /\ k * k \in Nat /\ n * n \in Nat
      BY DEF Divisors
    <3>2. ~ (n < k) /\ n # k
      BY <1>3, <3>1, SquaresGrow
    <3>3. k \in 2 .. n - 1
      BY <3>1, <3>2
    <3> QED
      BY <1>3, <3>3 DEF Prime
  <2> QED
    BY <2>1 DEF Passes
<1> QED
  BY <1>1, <1>2, <1>3 DEF GoodBases
-----------------------------------------------------------------------------
(* The sets that the search counts are finite. *)
LEMMA CountsAreNumbers ==
  ASSUME len \in Nat, NEW n \in Nat
  PROVE  /\ IsFiniteSet(GoodBases) /\ Cardinality(GoodBases) \in Nat
         /\ IsFiniteSet(Above(n)) /\ Cardinality(Above(n)) \in Nat
         /\ IsFiniteSet(PassersAbove(n)) /\ Cardinality(PassersAbove(n)) \in Nat
<1>1. IsFiniteSet(1 .. len) /\ IsFiniteSet(n + 1 .. Wrap - 1)
  BY FS_Interval, SizesAssumption
<1>2. GoodBases \in SUBSET (1 .. len)
  BY DEF GoodBases
<1>3. Above(n) \in SUBSET GoodBases
  BY DEF Above
<1>4. PassersAbove(n) \in SUBSET (n + 1 .. Wrap - 1)
  BY DEF PassersAbove
<1> QED
  BY <1>1, <1>2, <1>3, <1>4, FS_Subset, FS_CardinalityType

(* Counting the good bases above n as n goes down from the length to 0. *)
LEMMA AboveFacts ==
  ASSUME len \in Nat
  PROVE  /\ Cardinality(Above(len)) = 0
         /\ Above(0) = GoodBases
         /\ \A n \in 1 .. len :
              /\ n \in GoodBases => /\ Cardinality(Above(n - 1)) = Cardinality(Above(n)) + 1
                                    /\ Cardinality(Above(n)) < Cardinality(GoodBases)
              /\ n \notin GoodBases => Above(n - 1) = Above(n)
<1>1. \A g \in GoodBases : g \in Nat /\ 1 <= g /\ g <= len
  BY DEF GoodBases
<1>2. Above(len) = {} /\ Above(0) = GoodBases
  BY <1>1 DEF Above
<1>3. ASSUME NEW n \in 1 .. len, n \in GoodBases
      PROVE  /\ Cardinality(Above(n - 1)) = Cardinality(Above(n)) + 1
             /\ Cardinality(Above(n)) < Cardinality(GoodBases)
  <2>1. \A g \in GoodBases : g > n - 1 <=> g > n \/ g = n
    BY <1>1
  <2>2. n \notin Above(n)
    BY DEF Above
  <2>3. ASSUME NEW x PROVE x \in Above(n - 1) <=> x \in Above(n) \cup {n}
    BY <1>3, <2>1, Zenon DEF Above
  <2>4. Above(n - 1) = Above(n) \cup {n}
    BY <2>3
  <2>5. Above(n - 1) \in SUBSET GoodBases
    BY DEF Above
  <2>6. Cardinality(Above(n - 1)) = Cardinality(Above(n)) + 1
    BY <2>2, <2>4, CountsAreNumbers, FS_AddElement
  <2>7. Cardinality(Above(n - 1)) <= Cardinality(GoodBases)
    BY <2>5, CountsAreNumbers, FS_Subset
  <2> QED
    BY <2>6, <2>7, CountsAreNumbers
<1>4. ASSUME NEW n \in 1 .. len, n \notin GoodBases
      PROVE  Above(n - 1) = Above(n)
  <2>1. \A g \in GoodBases : g > n - 1 <=> g > n
    BY <1>1, <1>4
  <2> QED
    BY <2>1 DEF Above
<1> QED
  BY <1>2, <1>3, <1>4, FS_EmptySet

(* Counting what passes between n and the wrap: at the length there is as    *)
(* much of it as rows.                                                       *)
LEMMA PassersFacts ==
  ASSUME len \in Lengths, time \in Times
  PROVE  /\ Cardinality(PassersAbove(Wrap - 1)) = 0
         /\ time <= Cardinality(PassersAbove(len))
         /\ \A n \in len + 1 .. Wrap - 1 :
              /\ Passes(n) => Cardinality(PassersAbove(n - 1)) = Cardinality(PassersAbove(n)) + 1
              /\ ~Passes(n) => PassersAbove(n - 1) = PassersAbove(n)
<1>1. len \in Nat /\ Wrap \in Nat
  BY SizesAssumption
<1>2. PassersAbove(Wrap - 1) = {}
  BY <1>1 DEF PassersAbove
<1>3. PassersAbove(len)
        = {n \in len + 1 .. Wrap - 1 : \A k \in 2 .. len : k * k <= len => n % k # 0}
  BY DEF PassersAbove, Passes, Divisors
<1>4. time <= Cardinality(PassersAbove(len))
  BY <1>3, RangeAssumption
<1>5. ASSUME NEW n \in len + 1 .. Wrap - 1
      PROVE  PassersAbove(n - 1) = IF Passes(n) THEN PassersAbove(n) \cup {n} ELSE PassersAbove(n)
  <2>1. n - 1 + 1 = n /\ n .. Wrap - 1 = (n + 1 .. Wrap - 1) \cup {n}
    BY <1>1
  <2> QED
    BY <2>1 DEF PassersAbove
<1>6. ASSUME NEW n \in len + 1 .. Wrap - 1
      PROVE  n \notin PassersAbove(n) /\ n \in Nat
  BY <1>1 DEF PassersAbove
<1>7. ASSUME NEW n \in len + 1 .. Wrap - 1, Passes(n)
      PROVE  Cardinality(PassersAbove(n - 1)) = Cardinality(PassersAbove(n)) + 1
  <2>1. IsFiniteSet(PassersAbove(n)) /\ n \notin PassersAbove(n)
    BY <1>1, <1>6, CountsAreNumbers
  <2>2. PassersAbove(n - 1) = PassersAbove(n) \cup {n}
    BY <1>5, <1>7
  <2> QED
    BY <2>1, <2>2, FS_AddElement
<1> QED
  BY <1>2, <1>4, <1>5, <1>7, FS_EmptySet

(* The rows that have a base are the first ones. *)
LEMMA RowsFacts ==
  ASSUME TypeOK
  PROVE  /\ len \in Nat /\ len > 0 /\ len < Wrap /\ time \in Nat /\ Wrap \in Nat /\ i \in Nat
         /\ Rows \in 0 .. time /\ bases \in [0 .. Rows - 1 -> 0 .. Wrap - 1]
<1>1. PICK n \in 0 .. time : bases \in [0 .. n - 1 -> 0 .. Wrap - 1]
  BY DEF TypeOK
<1>2. time \in Nat /\ n \in Nat
  BY SizesAssumption DEF TypeOK
<1>3. Cardinality(0 .. n - 1) = n
  BY <1>2, FS_Interval
<1>4. Rows = n
  BY <1>1, <1>3 DEF Rows
<1> QED
  BY <1>1, <1>2, <1>4, SizesAssumption DEF TypeOK

(* Taking i as the base of the next row. *)
LEMMA TakeFacts ==
  ASSUME TypeOK, Take
  PROVE  /\ Rows' = Rows + 1 /\ Rows < time
         /\ bases' \in [0 .. Rows -> 0 .. Wrap - 1]
         /\ bases'[Rows] = i /\ \A j \in 0 .. Rows - 1 : bases'[j] = bases[j]
<1>1. /\ Rows \in 0 .. time /\ time \in Nat /\ bases \in [0 .. Rows - 1 -> 0 .. Wrap - 1]
      /\ i \in 0 .. Wrap - 1
  BY RowsFacts DEF TypeOK
<1>2. bases' = [j \in 0 .. Rows |-> IF j = Rows THEN i ELSE bases[j]]
  BY DEF Take
<1>3. Cardinality(0 .. Rows) = Rows + 1
  BY <1>1, FS_Interval
<1>4. DOMAIN bases' = 0 .. Rows
  BY <1>2
<1>5. Rows' = Rows + 1
  BY <1>3, <1>4 DEF Rows
<1>6. Rows # time
  BY DEF Take, Done
<1> QED
  BY <1>1, <1>2, <1>5, <1>6
-----------------------------------------------------------------------------
(* At the start nothing above the length has been tried.                     *)
LEMMA InitInv == ASSUME Init PROVE IInv
<1>1. /\ len \in Lengths /\ time \in Times /\ i = len /\ bases = [j \in {} |-> 0]
      /\ exited = FALSE
  BY DEF Init
<1>2. len \in Nat /\ len < Wrap /\ Wrap \in Nat /\ time \in Nat /\ len > 0
  BY <1>1, SizesAssumption
<1>3. TypeOK
  <2>1. bases \in [0 .. 0 - 1 -> 0 .. Wrap - 1] /\ 0 \in 0 .. time
    BY <1>1, <1>2
  <2>2. \E n \in 0 .. time : bases \in [0 .. n - 1 -> 0 .. Wrap - 1]
    BY <2>1
  <2>3. i \in 0 .. Wrap - 1
    BY <1>1, <1>2
  <2> QED
    BY <1>1, <2>2, <2>3, Zenon DEF TypeOK
<1>4. Rows = 0 /\ DOMAIN bases = {}
  BY <1>1, FS_EmptySet DEF Rows
<1>5. FirstRound
  BY <1>1, <1>2, <1>4, AboveFacts DEF FirstRound
<1> QED
  BY <1>3, <1>4, <1>5 DEF IInv, LargestPrimesFirst

(* A number that does not pass leaves the rows as they are. *)
LEMMA SkipInv == ASSUME IInv, Skip PROVE IInv'
<1>1. /\ ~exited /\ Rows # time /\ ~Passes(i) /\ i' = Before(i)
      /\ UNCHANGED <<table, len, time, bases, exited>>
  BY DEF Skip, Done
<1>2. /\ TypeOK /\ len \in Lengths /\ time \in Times
  BY DEF IInv, TypeOK
<1>3. /\ len \in Nat /\ len > 0 /\ len < Wrap /\ time \in Nat /\ Wrap \in Nat /\ i \in Nat
      /\ Rows \in 0 .. time /\ i < Wrap
  BY <1>2, RowsFacts DEF TypeOK
<1>4. /\ Rows' = Rows /\ GoodBases' = GoodBases
      /\ \A n : Above(n)' = Above(n) /\ PassersAbove(n)' = PassersAbove(n)
  BY <1>1 DEF Rows, GoodBases, Above, PassersAbove, Passes, Divisors
<1>5. LargestPrimesFirst'
  BY <1>1 DEF IInv, LargestPrimesFirst, GoodBases
<1>6. TypeOK'
  <2>1. i' \in 0 .. Wrap - 1
    BY <1>1, <1>3 DEF Before
  <2>2. \E n \in 0 .. time' : bases' \in [0 .. n - 1 -> 0 .. Wrap - 1]
    BY <1>1, <1>2 DEF TypeOK
  <2> QED
    BY <1>1, <1>2, <2>1, <2>2, Zenon DEF TypeOK
<1>7. CASE FirstRound /\ i = 0
  <2>1. i' = Wrap - 1 /\ Rows = Cardinality(GoodBases)
    BY <1>1, <1>3, <1>7, AboveFacts DEF FirstRound, Before
  <2>2. i' \in len .. Wrap - 1 /\ Rows >= Cardinality(PassersAbove(i'))
    BY <1>2, <1>3, <2>1, PassersFacts
  <2>3. AfterWrap'
    BY <1>1, <1>3, <1>4, <2>1, <2>2 DEF AfterWrap
  <2> QED
    BY <1>5, <1>6, <2>3 DEF IInv
<1>8. CASE FirstRound /\ i # 0
  <2>1. i \in 1 .. len /\ i' = i - 1
    BY <1>1, <1>3, <1>8 DEF FirstRound, Before
  <2>2. Above(i - 1) = Above(i)
    BY <1>1, <1>3, <2>1, AboveFacts, SieveFindsGood
  <2>3. FirstRound'
    BY <1>1, <1>3, <1>4, <1>8, <2>1, <2>2 DEF FirstRound
  <2> QED
    BY <1>5, <1>6, <2>3 DEF IInv
<1>9. CASE AfterWrap
  <2>1. i \in len .. Wrap - 1 /\ Rows >= Cardinality(PassersAbove(i))
    BY <1>1, <1>9 DEF AfterWrap
  <2>2. i # len
    BY <1>1, <1>2, <1>3, <2>1, PassersFacts, CountsAreNumbers
  <2>3. i \in len + 1 .. Wrap - 1 /\ i' = i - 1 /\ i' \in len .. Wrap - 1
    BY <1>1, <1>3, <2>1, <2>2 DEF Before
  <2>4. PassersAbove(i - 1) = PassersAbove(i)
    BY <1>1, <1>2, <2>3, PassersFacts
  <2>5. AfterWrap'
    BY <1>1, <1>4, <1>9, <2>1, <2>3, <2>4 DEF AfterWrap
  <2> QED
    BY <1>5, <1>6, <2>5 DEF IInv
<1> QED
  BY <1>7, <1>8, <1>9 DEF IInv

(* A number that passes becomes the base of the next row. *)
LEMMA TakeInv == ASSUME IInv, Take PROVE IInv'
<1>1. /\ ~exited /\ Passes(i) /\ exited' = Exits /\ i' = (IF Exits THEN i ELSE Before(i))
      /\ UNCHANGED <<table, len, time>>
  BY DEF Take, Done
<1>2. /\ TypeOK /\ len \in Lengths /\ time \in Times
  BY DEF IInv, TypeOK
<1>3. /\ len \in Nat /\ len > 0 /\ len < Wrap /\ time \in Nat /\ Wrap \in Nat /\ i \in Nat
      /\ Rows \in 0 .. time /\ i < Wrap /\ bases \in [0 .. Rows - 1 -> 0 .. Wrap - 1]
  BY <1>2, RowsFacts DEF TypeOK
<1>4. /\ Rows' = Rows + 1 /\ Rows < time /\ bases' \in [0 .. Rows -> 0 .. Wrap - 1]
      /\ bases'[Rows] = i /\ \A j \in 0 .. Rows - 1 : bases'[j] = bases[j]
  BY <1>2, TakeFacts
<1>5. /\ GoodBases' = GoodBases
      /\ \A n : Above(n)' = Above(n) /\ PassersAbove(n)' = PassersAbove(n)
  BY <1>1 DEF GoodBases, Above, PassersAbove, Passes, Divisors
<1>6. IsFiniteSet(GoodBases) /\ Cardinality(GoodBases) \in Nat
  BY <1>3, CountsAreNumbers
<1>7. TypeOK'
  <2>1. Rows + 1 \in 0 .. time /\ bases' \in [0 .. (Rows + 1) - 1 -> 0 .. Wrap - 1]
    BY <1>3, <1>4
  <2>2. \E n \in 0 .. time : bases' \in [0 .. n - 1 -> 0 .. Wrap - 1]
    BY <2>1
  <2>3. i' \in 0 .. Wrap - 1
    BY <1>1, <1>3 DEF Before
  <2>4. exited' \in BOOLEAN
    BY <1>1 DEF Exits
  <2> QED
    BY <1>1, <1>2, <2>2, <2>3, <2>4 DEF TypeOK
(* What the new base is, and where the search stands after it. *)
<1>8. /\ IF Rows < Cardinality(GoodBases)
         THEN i \in GoodBases /\ Cardinality(Above(i)) = Rows
         ELSE i \notin 1 .. len
      /\ FirstRound' \/ AfterWrap'
  <2>1. CASE FirstRound /\ i = 0
    <3>1. Rows = Cardinality(GoodBases) /\ ~ (i \in 1 .. len)
      BY <1>3, <2>1, AboveFacts DEF FirstRound
    <3>2. CASE Exits
      BY <1>1, <1>3, <1>4, <1>5, <1>6, <3>1, <3>2 DEF AfterWrap
    <3>3. CASE ~Exits
      <4>1. i' = Wrap - 1 /\ ~exited'
        BY <1>1, <1>3, <2>1, <3>3 DEF Before
      <4>2. i' \in len .. Wrap - 1 /\ Cardinality(PassersAbove(i')) = 0
        BY <1>2, <1>3, <4>1, PassersFacts
      <4> QED
        BY <1>1, <1>3, <1>4, <1>5, <1>6, <3>1, <4>1, <4>2 DEF AfterWrap
    <3> QED
      BY <3>1, <3>2, <3>3, <1>3
  <2>2. CASE FirstRound /\ i # 0
    <3>1. ~Exits /\ ~exited'
      BY <1>1, <2>2, Zenon DEF Exits
    <3>2. i \in 1 .. len /\ i' = i - 1
      BY <1>1, <1>3, <2>2, <3>1 DEF FirstRound, Before
    <3>3. i \in GoodBases
      BY <1>1, <1>3, <3>2, SieveFindsGood
    <3>4. /\ Cardinality(Above(i - 1)) = Cardinality(Above(i)) + 1
          /\ Cardinality(Above(i)) < Cardinality(GoodBases)
      BY <1>3, <3>2, <3>3, AboveFacts
    <3> QED
      BY <1>1, <1>3, <1>4, <1>5, <2>2, <3>1, <3>2, <3>3, <3>4 DEF FirstRound
  <2>3. CASE AfterWrap
    <3>1. /\ i \in len .. Wrap - 1 /\ Rows >= Cardinality(PassersAbove(i))
          /\ Rows >= Cardinality(GoodBases)
      BY <1>1, <2>3 DEF AfterWrap
    <3>2. i # len
      <4>1. time <= Cardinality(PassersAbove(len)) /\ Cardinality(PassersAbove(len)) \in Nat
        BY <1>2, <1>3, PassersFacts, CountsAreNumbers
      <4> QED
        BY <1>3, <1>4, <3>1, <4>1
    <3>3. ~Exits /\ ~exited'
      <4>1. i # 0
        BY <1>3, <3>1
      <4> QED
        BY <1>1, <4>1, Zenon DEF Exits
    <3>4. /\ i \in len + 1 .. Wrap - 1 /\ i' = i - 1 /\ i' \in len .. Wrap - 1
          /\ i \notin 1 .. len
      BY <1>1, <1>3, <3>1, <3>2, <3>3 DEF Before
    <3>5. /\ Cardinality(PassersAbove(i - 1)) = Cardinality(PassersAbove(i)) + 1
          /\ Cardinality(PassersAbove(i)) \in Nat
      BY <1>1, <1>2, <1>3, <3>4, PassersFacts, CountsAreNumbers
    <3>6. Rows' >= Cardinality(GoodBases) /\ Rows' >= Cardinality(PassersAbove(i'))
      BY <1>3, <1>4, <1>6, <3>1, <3>4, <3>5
    <3>7. AfterWrap'
      BY <1>1, <1>5, <3>3, <3>4, <3>6 DEF AfterWrap
    <3> QED
      BY <1>3, <1>6, <3>1, <3>4, <3>7
  <2> QED
    BY <2>1, <2>2, <2>3 DEF IInv
<1>9. LargestPrimesFirst'
  <2> SUFFICES ASSUME NEW j \in DOMAIN bases'
               PROVE  IF j < Cardinality(GoodBases)
                      THEN bases'[j] \in GoodBases /\ Cardinality(Above(bases'[j])) = j
                      ELSE bases'[j] \notin 1 .. len
    BY <1>1, <1>5 DEF LargestPrimesFirst, Above
  <2>1. CASE j = Rows
    BY <1>4, <1>8, <2>1
  <2>2. CASE j # Rows
    <3>1. j \in DOMAIN bases /\ bases'[j] = bases[j]
      BY <1>3, <1>4, <2>2
    <3> QED
      BY <3>1 DEF IInv, LargestPrimesFirst, Above
  <2> QED
    BY <2>1, <2>2
<1> QED
  BY <1>7, <1>8, <1>9 DEF IInv

(* The inductive invariant. *)
LEMMA Inductive == Spec => []IInv
<1>1. Init => IInv
  BY InitInv
<1>2. IInv /\ [Next]_vars => IInv'
  <2> SUFFICES ASSUME IInv, [Next]_vars PROVE IInv'
    OBVIOUS
  <2>1. CASE Skip
    BY <2>1, SkipInv
  <2>2. CASE Take
    BY <2>2, TakeInv
  <2>3. CASE UNCHANGED vars
    BY <2>3 DEF vars, IInv, TypeOK, FirstRound, AfterWrap, Rows, Above, PassersAbove, Passes,
       Divisors, GoodBases, LargestPrimesFirst
  <2> QED
    BY <2>1, <2>2, <2>3 DEF Next
<1> QED
  BY <1>1, <1>2, PTL DEF Spec
-----------------------------------------------------------------------------
(* The numbers tried and the bases found are those of unsigned integers.     *)
THEOREM TypeCorrect == Spec => []TypeOK
BY Inductive, PTL DEF IInv

(* The bases are the largest good ones, in descending order, as long as      *)
(* there are any; what comes after them is not a number from 1 to the        *)
(* length.                                                                   *)
THEOREM LargestBasesFound == Spec => []LargestPrimesFirst
BY Inductive, PTL DEF IInv

(* A multi-hash with no more rows than there are good bases gets a base      *)
(* within its length for each row, no two the same, and the process does not *)
(* stop: what the tables that use the hash rely on.                          *)
BasesFit ==
  time <= Cardinality(GoodBases) =>
    /\ ~exited
    /\ bases \in [0 .. Rows - 1 -> 1 .. len]
    /\ \A j, k \in 0 .. Rows - 1 : bases[j] = bases[k] => j = k

THEOREM EnoughGoodBases == Spec => []BasesFit
<1>1. IInv => BasesFit
  <2> SUFFICES ASSUME IInv, time <= Cardinality(GoodBases)
               PROVE  /\ ~exited
                      /\ bases \in [0 .. Rows - 1 -> 1 .. len]
                      /\ \A j, k \in 0 .. Rows - 1 : bases[j] = bases[k] => j = k
    BY DEF BasesFit
  <2>1. /\ len \in Nat /\ Rows \in 0 .. time /\ time \in Nat
        /\ bases \in [0 .. Rows - 1 -> 0 .. Wrap - 1]
    BY RowsFacts DEF IInv
  <2>2. Cardinality(GoodBases) \in Nat
    BY <2>1, CountsAreNumbers
  <2>3. ~exited
    BY <2>1, <2>2 DEF IInv, FirstRound, AfterWrap
  <2>4. \A j \in 0 .. Rows - 1 : /\ bases[j] \in GoodBases
                                 /\ Cardinality({n \in GoodBases : n > bases[j]}) = j
    BY <2>1, <2>2 DEF IInv, LargestPrimesFirst
  <2>5. GoodBases \subseteq 1 .. len
    BY DEF GoodBases
  <2> QED
    BY <2>1, <2>3, <2>4, <2>5
<1> QED
  BY <1>1, Inductive, PTL
=============================================================================
