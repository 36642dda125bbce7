----------------------------- MODULE ShmMQProofs -----------------------------
(* What the ring promises for a block, a buffer and messages of any size.    *)
(*                                                                           *)
(* Head and tail alone do not say what is in the ring.  The invariant does:  *)
(* there are messages q, laid one behind the other from the head to the tail *)
(* (o[i] is the place, counted from the head, where the i-th of them ends),  *)
(* and what each process has done so far of its copy agrees with them.  The  *)
(* writer works behind o[Len(q)], the reader on q[1], and only the steps     *)
(* that move the tail and the head change q: by one message each.            *)
EXTENDS ShmMQ, NaturalTheorems, FiniteSetTheorems

(* The record of message m starts at position p. *)
HeaderAt(p, m) == block[Cell(p, 0)] = total_len(m) /\ block[Cell(p, 1)] = m.flow
Holds(p, m) == HeaderAt(p, m) /\ \A j \in 1 .. Len(m.data) : block[Cell(p, 1 + j)] = m.data[j]

(* The messages q end at the places o, and the last at the tail. *)
Layout(q, o) == /\ q \in Seq(Message)
                /\ o \in [0 .. Len(q) -> 0 .. BlockSize - 1]
                /\ o[0] = 0
                /\ \A i \in 1 .. Len(q) : o[i] = o[i - 1] + total_len(q[i])
                /\ \A i, j \in 0 .. Len(q) : i <= j => o[j] - o[i] >= j - i
                /\ tail = Moved(head, o[Len(q)])

InPlace(q, o) == \A i \in 1 .. Len(q) : Holds(Moved(head, o[i - 1]), q[i])

(* The writer has room behind the messages and has written so much. *)
WriterAt(q, o) ==
  /\ writer \in {"header", "data", "publish"} =>
       msg \in Message /\ o[Len(q)] + total_len(msg) < BlockSize
  /\ writer = "data" => HeaderAt(tail, msg)
  /\ writer = "publish" => Holds(tail, msg)

(* The message in the reader's buffer. *)
Copied == [flow |-> rec.flow, data |-> rec.data]

(* The reader is busy with the first of the messages and has copied so much, *)
(* or it has one in hand that is no longer among them.                       *)
ReaderAt(q) ==
  /\ reader \in {"header", "data", "consume"} => Len(q) > 0 /\ count < MaxCount
  /\ reader = "header" => total_len(q[1]) <= rec.used
  /\ reader \in {"data", "consume"} => rec.total = total_len(q[1]) /\ rec.flow = q[1].flow
  /\ reader = "consume" => rec.data = q[1].data
  /\ reader = "handle" => Copied \in Message /\ count < MaxCount

Explains(q, o) == Layout(q, o) /\ InPlace(q, o) /\ WriterAt(q, o) /\ ReaderAt(q)

IInv == TypeOK /\ \E q, o : Explains(q, o)
-----------------------------------------------------------------------------
(* A position moved on within the block is a position, and its cells are     *)
(* those of the first position further on.                                   *)
LEMMA MovedCell == ASSUME NEW p \in Position, NEW a \in 0 .. BlockSize, NEW i \in Nat
                   PROVE  /\ Moved(p, a) \in Position
                          /\ Cell(Moved(p, a), i) = Cell(p, a + i)
                          /\ Cell(p, i) \in 0 .. BlockSize - 1
<1>1. BlockSize \in Nat /\ BlockSize > 0 /\ p \in Nat /\ p <= BlockSize /\ a \in Nat /\ a <= BlockSize
  BY SizesAssumption DEF Position, C_HEAD_SIZE
<1>2. Moved(p, a) \in Position
  BY <1>1 DEF Moved, Position
<1>3. CASE p + a > BlockSize
  <2>1. p + a - BlockSize + i \in Nat /\ (p + a - BlockSize + i) + BlockSize = p + (a + i)
    BY <1>1, <1>3
  <2>2. (p + a - BlockSize + i) % BlockSize = (p + (a + i)) % BlockSize
    BY <1>1, <2>1, RoundTheRing
  <2> QED
    BY <1>1, <1>2, <1>3, <2>2 DEF Moved, Cell
<1>4. CASE ~(p + a > BlockSize)
  <2>1. (p + a) + i = p + (a + i)
    BY <1>1
  <2> QED
    BY <1>1, <1>2, <1>4, <2>1 DEF Moved, Cell
<1> QED
  BY <1>3, <1>4

(* Two moves make one, as long as they stay within a block. *)
LEMMA MovedTwice == ASSUME NEW p \in Position, NEW a \in Nat, NEW b \in Nat, a + b <= BlockSize
                    PROVE  Moved(Moved(p, a), b) = Moved(p, a + b)
  BY SizesAssumption DEF Position, Moved, C_HEAD_SIZE

(* Within a block, different places are different cells and positions. *)
LEMMA PlacesApart == ASSUME NEW p \in Position, NEW a \in Nat, NEW b \in Nat,
                            a < b, b < BlockSize
                     PROVE  Cell(p, a) # Cell(p, b) /\ Moved(p, a) # Moved(p, b)
<1>1. BlockSize \in Nat /\ BlockSize > 0 /\ p \in Nat /\ p <= BlockSize
  BY SizesAssumption DEF Position, C_HEAD_SIZE
<1>2. p + a \in Nat /\ p + b \in Nat /\ p + a < p + b /\ (p + b) - (p + a) < BlockSize
  BY <1>1
<1>3. (p + a) % BlockSize # (p + b) % BlockSize
  BY <1>1, <1>2, ApartInRing
<1> QED
  BY <1>1, <1>3 DEF Cell, Moved

(* A message has a header and some data. *)
LEMMA MessageFacts == ASSUME NEW m \in Message
                      PROVE  /\ m = [flow |-> m.flow, data |-> m.data]
                             /\ m.flow \in Nat /\ m.data \in Seq(Nat) /\ Len(m.data) \in Nat \ {0}
                             /\ total_len(m) \in Nat /\ total_len(m) = Len(m.data) + 2
                             /\ total_len(m) > 2
<1>1. m \in [flow : Nat, data : Seq(Nat)] /\ m.data # <<>>
  BY MessageAssumption
<1>2. m = [flow |-> m.flow, data |-> m.data] /\ m.flow \in Nat /\ m.data \in Seq(Nat)
  BY <1>1
<1>3. Len(m.data) \in Nat /\ Len(m.data) # 0
  BY <1>1, <1>2
<1> QED
  BY <1>2, <1>3 DEF total_len, C_HEAD_SIZE

(* What enqueue and dequeue compute from head and tail is the length of the  *)
(* messages.                                                                 *)
LEMMA Lengths == ASSUME TypeOK, NEW n \in 0 .. BlockSize - 1, tail = Moved(head, n)
                 PROVE  /\ head = tail <=> n = 0
                        /\ n > 0 => used_len = n
                        /\ free_len = BlockSize - n
  BY SizesAssumption DEF TypeOK, Position, Moved, used_len, free_len, C_HEAD_SIZE

(* The facts of a layout that the proofs use. *)
LEMMA LayoutFacts == ASSUME TypeOK, NEW q, NEW o, Layout(q, o)
                     PROVE  /\ q \in Seq(Message) /\ Len(q) \in Nat
                            /\ \A i \in 1 .. Len(q) : q[i] \in Message
                            /\ \A i \in 0 .. Len(q) :
                                 o[i] \in Nat /\ o[i] >= i /\ o[i] <= o[Len(q)]
                            /\ o[Len(q)] < BlockSize /\ Len(q) < BlockSize
                            /\ BlockSize \in Nat /\ BlockSize > 2
                            /\ head \in Position /\ tail \in Position
                            /\ tail = Moved(head, o[Len(q)])
<1>1. q \in Seq(Message) /\ Len(q) \in Nat
  BY DEF Layout
<1>2. \A i \in 1 .. Len(q) : q[i] \in Message
  BY <1>1
<1>3. BlockSize \in Nat /\ BlockSize > 2
  BY SizesAssumption DEF C_HEAD_SIZE
<1>4. \A i \in 0 .. Len(q) : o[i] \in 0 .. BlockSize - 1
  BY <1>1 DEF Layout
<1>5. \A i \in 0 .. Len(q) : o[i] \in Nat /\ o[i] < BlockSize
  BY <1>3, <1>4
<1>6. ASSUME NEW i \in 0 .. Len(q)
      PROVE  o[i] >= i /\ o[i] <= o[Len(q)]
  <2>1. 0 \in 0 .. Len(q) /\ Len(q) \in 0 .. Len(q) /\ 0 <= i /\ i <= Len(q)
    BY <1>1
  <2>2. o[i] - o[0] >= i - 0 /\ o[Len(q)] - o[i] >= Len(q) - i /\ o[0] = 0
    BY <2>1 DEF Layout
  <2> QED
    BY <1>1, <1>5, <2>1, <2>2
<1>7. Len(q) \in 0 .. Len(q)
  BY <1>1
<1>8. Len(q) < BlockSize
  BY <1>1, <1>3, <1>5, <1>6, <1>7
<1> QED
  BY <1>1, <1>2, <1>3, <1>5, <1>6, <1>7, <1>8 DEF TypeOK, Layout

(* A record is what it was if none of its cells is written. *)
LEMMA HoldsKept == ASSUME NEW p, NEW m \in Message, Holds(p, m),
                          \A j \in 0 .. total_len(m) - 1 : block'[Cell(p, j)] = block[Cell(p, j)]
                   PROVE  Holds(p, m)'
<1>1. Len(m.data) \in Nat /\ total_len(m) = Len(m.data) + 2
  BY MessageFacts
<1>2. 0 \in 0 .. total_len(m) - 1 /\ 1 \in 0 .. total_len(m) - 1
  BY <1>1
<1>3. \A j \in 1 .. Len(m.data) : 1 + j \in 0 .. total_len(m) - 1
  BY <1>1
<1>4. HeaderAt(p, m)'
  BY <1>2 DEF Holds, HeaderAt, Cell, total_len
<1>5. ASSUME NEW j \in 1 .. Len(m.data)
      PROVE  block'[Cell(p, 1 + j)] = m.data[j]
  BY <1>3 DEF Holds
<1> QED
  BY <1>4, <1>5 DEF Holds, Cell

(* The messages are what they were if none of their cells is written. *)
LEMMA InPlaceKept ==
  ASSUME TypeOK, NEW q, NEW o, Layout(q, o), InPlace(q, o), UNCHANGED head,
         \A c \in 0 .. o[Len(q)] - 1 : block'[Cell(head, c)] = block[Cell(head, c)]
  PROVE  InPlace(q, o)'
<1> SUFFICES ASSUME NEW i \in 1 .. Len(q)
             PROVE  Holds(Moved(head, o[i - 1]), q[i])'
  BY DEF InPlace
<1> DEFINE p == Moved(head, o[i - 1])
<1>1. /\ Len(q) \in Nat /\ q[i] \in Message /\ head \in Position
      /\ i \in 0 .. Len(q) /\ i - 1 \in 0 .. Len(q)
  BY LayoutFacts
<1>2. /\ o[i] \in Nat /\ o[i - 1] \in Nat /\ o[i] <= o[Len(q)]
      /\ o[Len(q)] \in Nat /\ o[Len(q)] < BlockSize /\ BlockSize \in Nat
  BY <1>1, LayoutFacts
<1>3. o[i] = o[i - 1] + total_len(q[i]) /\ total_len(q[i]) \in Nat
  BY <1>1, MessageFacts DEF Layout
<1>4. ASSUME NEW j \in 0 .. total_len(q[i]) - 1
      PROVE  block'[Cell(p, j)] = block[Cell(p, j)]
  <2>1. o[i - 1] \in 0 .. BlockSize /\ j \in Nat
    BY <1>2, <1>3
  <2>2. Cell(p, j) = Cell(head, o[i - 1] + j)
    BY <1>1, <2>1, MovedCell
  <2>3. o[i - 1] + j \in 0 .. o[Len(q)] - 1
    BY <1>2, <1>3, <2>1
  <2> QED
    BY <2>2, <2>3
<1>5. Holds(p, q[i])
  BY DEF InPlace
<1>6. p' = p
  BY DEF Moved
<1> HIDE DEF p
<1>7. Holds(p, q[i])'
  <2>1. \A x : Holds(x, q[i]) /\ x = p => Holds(x, q[i])'
    BY <1>1, <1>4, HoldsKept
  <2> QED
    BY <1>5, <1>6, <2>1 DEF Holds, HeaderAt, Cell
<1> QED
  BY <1>7 DEF p

(* Writing s at p changes the cells of s, each to its unit, and no other. *)
LEMMA WrittenFacts ==
  ASSUME TypeOK, NEW p \in Position, NEW s \in Seq(Nat), Len(s) <= BlockSize
  PROVE  /\ Written(p, s) \in [0 .. BlockSize - 1 -> Unit]
         /\ \A i \in 1 .. Len(s) : Written(p, s)[Cell(p, i - 1)] = s[i]
         /\ \A u \in 0 .. BlockSize - 1 :
              (\A i \in 1 .. Len(s) : u # Cell(p, i - 1)) => Written(p, s)[u] = block[u]
<1> DEFINE at(u) == CHOOSE i \in 1 .. Len(s) : u = Cell(p, i - 1)
<1>1. BlockSize \in Nat /\ Len(s) \in Nat /\ \A i \in 1 .. Len(s) : s[i] \in Nat
  BY SizesAssumption
<1>2. \A i \in 1 .. Len(s) : Cell(p, i - 1) \in 0 .. BlockSize - 1
  BY <1>1, MovedCell, 0 \in 0 .. BlockSize, \A i \in 1 .. Len(s) : i - 1 \in Nat
<1>3. ASSUME NEW i \in 1 .. Len(s), NEW j \in 1 .. Len(s), Cell(p, i - 1) = Cell(p, j - 1)
      PROVE  i = j
  <2>1. i - 1 \in Nat /\ j - 1 \in Nat /\ i - 1 < BlockSize /\ j - 1 < BlockSize
    BY <1>1
  <2>2. ~(i - 1 < j - 1) /\ ~(j - 1 < i - 1)
    BY <1>3, <2>1, PlacesApart
  <2> QED
    BY <2>1, <2>2
<1>4. ASSUME NEW i \in 1 .. Len(s) PROVE at(Cell(p, i - 1)) = i
  BY <1>3
<1>5. ASSUME NEW u, \E i \in 1 .. Len(s) : u = Cell(p, i - 1)
      PROVE  at(u) \in 1 .. Len(s)
  BY <1>5
<1> HIDE DEF at
<1>6. Written(p, s) = [u \in 0 .. BlockSize - 1 |->
                         IF \E i \in 1 .. Len(s) : u = Cell(p, i - 1) THEN s[at(u)] ELSE block[u]]
  BY Zenon DEF Written, at
<1>7. \A u \in 0 .. BlockSize - 1 : block[u] \in Nat
  BY DEF TypeOK, Unit
<1>8. Written(p, s) \in [0 .. BlockSize - 1 -> Unit]
  BY <1>1, <1>5, <1>6, <1>7 DEF Unit
<1>9. ASSUME NEW i \in 1 .. Len(s) PROVE Written(p, s)[Cell(p, i - 1)] = s[i]
  BY <1>2, <1>4, <1>6
<1> QED
  BY <1>6, <1>8, <1>9
-----------------------------------------------------------------------------
(* The cleared locals of dequeue are of their type. *)
LEMMA NoRecFits == NoRec \in [used : Nat, total : Nat, flow : Nat, data : Seq(Nat)]
<1>1. <<>> \in Seq(Nat)
  OBVIOUS
<1> QED
  BY <1>1 DEF NoRec

(* At first there is no message. *)
LEMMA InitExplained == Init => TypeOK /\ \E o : Explains(<<>>, o)
<1> SUFFICES ASSUME Init PROVE TypeOK /\ \E o : Explains(<<>>, o)
  OBVIOUS
<1>1. BlockSize \in Nat /\ BlockSize > 2
  BY SizesAssumption DEF C_HEAD_SIZE
<1>2. TypeOK
  <2>1. NoRec \in [used : Nat, total : Nat, flow : Nat, data : Seq(Nat)]
    BY NoRecFits
  <2>2. block \in [0 .. BlockSize - 1 -> Nat]
    BY <1>1 DEF Init
  <2>3. 0 \in Position /\ 0 \in 0 .. MaxCount /\ 0 \in 0 .. PipeSize
    BY <1>1, SizesAssumption DEF Position
  <2> QED
    BY <2>1, <2>2, <2>3 DEF Init, TypeOK, Unit
<1> DEFINE o == [i \in 0 .. Len(<<>>) |-> 0]
<1>3. Layout(<<>>, o)
  <2>1. Len(<<>>) = 0 /\ <<>> \in Seq(Message)
    OBVIOUS
  <2>2. o \in [0 .. Len(<<>>) -> 0 .. BlockSize - 1] /\ \A i \in 0 .. Len(<<>>) : o[i] = 0
    BY <1>1
  <2> HIDE DEF o
  <2>3. tail = Moved(head, o[Len(<<>>)])
    BY <1>1, <2>1, <2>2 DEF Init, Moved
  <2>4. \A i, j \in 0 .. Len(<<>>) : i <= j => o[j] - o[i] >= j - i
    BY <2>1, <2>2
  <2>5. \A i \in 1 .. Len(<<>>) : o[i] = o[i - 1] + total_len(<<>>[i])
    BY <2>1
  <2> QED
    BY <2>1, <2>2, <2>3, <2>4, <2>5 DEF Layout
<1>4. InPlace(<<>>, o) /\ WriterAt(<<>>, o) /\ ReaderAt(<<>>)
  BY DEF InPlace, WriterAt, ReaderAt, Init
<1> QED
  BY <1>2, <1>3, <1>4 DEF Explains

(* A step that leaves the ring alone leaves the messages in it alone. *)
LEMMA RingKept == ASSUME NEW q, NEW o, Layout(q, o), InPlace(q, o), UNCHANGED <<head, tail, block>>
                  PROVE  Layout(q, o)' /\ InPlace(q, o)'
  BY DEF Layout, InPlace, Holds, HeaderAt, Cell, Moved

(* The messages behind the head when the step is over, and what became of    *)
(* the one in hand.                                                          *)
Same(q, r) == r = q /\ InHand' = InHand /\ taken' = taken
Sent(q, r) == (\E m \in Message : r = Append(q, m)) /\ InHand' = InHand /\ taken' = taken
Took(q, r) == q # <<>> /\ r = Tail(q) /\ InHand = None /\ InHand' = Head(q) /\ taken' = taken
Handled(q, r) == r = q /\ InHand # None /\ InHand' = None /\ taken' = InHand
Lost(q, r) == r = q /\ InHand # None /\ InHand' = None /\ taken' = taken

Outcome(q, r) == Same(q, r) \/ Sent(q, r) \/ Took(q, r) \/ Handled(q, r) \/ Lost(q, r)

Explained(q) == TypeOK' /\ \E r, o : Explains(r, o)' /\ Outcome(q, r)

(* A message in hand is a message. *)
LEMMA InHandFacts == ASSUME NEW q, NEW o, Explains(q, o)
                     PROVE  /\ reader # "handle" => InHand = None
                            /\ reader = "handle" => InHand = Copied /\ InHand \in Message /\ InHand # None
  BY MessageAssumption DEF Explains, ReaderAt, InHand, Copied
-----------------------------------------------------------------------------
(* The writer starts a message for which there is room. *)
LEMMA EnqueueStep == ASSUME TypeOK, NEW q, NEW o, Explains(q, o), NEW m \in Message, Enqueue(m)
                     PROVE  Explained(q)
<1>1. TypeOK'
  BY DEF TypeOK, Enqueue, readerVars
<1>2. Layout(q, o)' /\ InPlace(q, o)' /\ ReaderAt(q)'
  BY RingKept DEF Explains, Enqueue, readerVars, ReaderAt, Copied
<1>3. WriterAt(q, o)'
  <2>1. /\ o[Len(q)] \in Nat /\ o[Len(q)] < BlockSize /\ BlockSize \in Nat
        /\ tail = Moved(head, o[Len(q)])
    BY LayoutFacts, Len(q) \in 0 .. Len(q) DEF Explains
  <2>2. free_len = BlockSize - o[Len(q)]
    BY <2>1, Lengths
  <2>3. total_len(m) \in Nat
    BY MessageFacts
  <2>4. o[Len(q)] + total_len(m) < BlockSize
    BY <2>1, <2>2, <2>3 DEF Enqueue
  <2> QED
    BY <2>4 DEF WriterAt, Enqueue
<1> QED
  BY <1>1, <1>2, <1>3 DEF Explained, Outcome, Explains, Same, InHand, Enqueue, readerVars

(* What the writer fills are cells behind the messages. *)
LEMMA Behind == ASSUME TypeOK, NEW q, NEW o, Explains(q, o),
                       writer \in {"header", "data", "publish"},
                       NEW j \in 0 .. total_len(msg) - 1
                PROVE  /\ Cell(tail, j) \in 0 .. BlockSize - 1
                       /\ \A c \in 0 .. o[Len(q)] - 1 : Cell(tail, j) # Cell(head, c)
                       /\ \A k \in 0 .. total_len(msg) - 1 : k # j => Cell(tail, j) # Cell(tail, k)
<1> DEFINE e == o[Len(q)]
           t == total_len(msg)
<1>1. e \in Nat /\ e < BlockSize /\ BlockSize \in Nat /\ tail = Moved(head, e) /\ head \in Position
  BY LayoutFacts, Len(q) \in 0 .. Len(q) DEF Explains
<1>2. t \in Nat /\ e + t < BlockSize
  BY MessageFacts DEF Explains, WriterAt
<1> HIDE DEF e, t
<1>3. ASSUME NEW k \in 0 .. t - 1
      PROVE  /\ Cell(tail, k) = Cell(head, e + k) /\ e + k \in Nat /\ e + k < BlockSize
             /\ Cell(tail, k) \in 0 .. BlockSize - 1
  <2>1. e \in 0 .. BlockSize /\ k \in Nat /\ e + k \in Nat
    BY <1>1, <1>2
  <2>2. Cell(tail, k) = Cell(head, e + k) /\ Cell(head, e + k) \in 0 .. BlockSize - 1
    BY <1>1, <2>1, MovedCell
  <2> QED
    BY <1>1, <1>2, <2>1, <2>2
<1>4. j \in 0 .. t - 1
  BY DEF t
<1>5. ASSUME NEW c \in 0 .. e - 1
      PROVE  Cell(tail, j) # Cell(head, c)
  <2>1. c \in Nat /\ c < e + j /\ e + j \in Nat /\ e + j < BlockSize
    BY <1>1, <1>2, <1>3, <1>4
  <2>2. Cell(head, c) # Cell(head, e + j)
    BY <1>1, <2>1, PlacesApart
  <2> QED
    BY <1>3, <1>4, <2>2
<1>6. ASSUME NEW k \in 0 .. t - 1, k # j
      PROVE  Cell(tail, j) # Cell(tail, k)
  <2>1. /\ e + j \in Nat /\ e + k \in Nat /\ e + j < BlockSize /\ e + k < BlockSize
        /\ e + j < e + k \/ e + k < e + j
    BY <1>1, <1>2, <1>3, <1>4, <1>6
  <2>2. Cell(head, e + j) # Cell(head, e + k)
    BY <1>1, <2>1, PlacesApart
  <2> QED
    BY <1>3, <1>4, <1>6, <2>2
<1> QED
  BY <1>3, <1>4, <1>5, <1>6 DEF e, t

(* A part of the record, written a places behind the tail, is there          *)
(* afterwards; what it wrote before and the messages of the ring are kept.   *)
LEMMA WriteFacts ==
  ASSUME TypeOK, NEW q, NEW o, Explains(q, o), writer \in {"header", "data"},
         NEW a \in Nat, NEW s \in Seq(Nat), a + Len(s) <= total_len(msg),
         block' = Written(Moved(tail, a), s), UNCHANGED <<head, tail>>
  PROVE  /\ block' \in [0 .. BlockSize - 1 -> Unit]
         /\ Layout(q, o)' /\ InPlace(q, o)'
         /\ \A i \in 1 .. Len(s) : block'[Cell(tail, a + (i - 1))] = s[i]
         /\ \A j \in 0 .. a - 1 : block'[Cell(tail, j)] = block[Cell(tail, j)]
<1> DEFINE e == o[Len(q)]
           p == Moved(tail, a)
<1>1. /\ e \in Nat /\ e < BlockSize /\ BlockSize \in Nat
      /\ head \in Position /\ tail \in Position
  <2>1. Layout(q, o)
    BY DEF Explains
  <2>2. Len(q) \in 0 .. Len(q)
    BY <2>1, LayoutFacts
  <2> QED
    BY <2>1, <2>2, LayoutFacts
<1>2. /\ total_len(msg) \in Nat /\ total_len(msg) < BlockSize /\ Len(s) \in Nat
      /\ a \in 0 .. BlockSize
  <2>1. msg \in Message /\ e + total_len(msg) < BlockSize
    BY DEF Explains, WriterAt
  <2>2. total_len(msg) \in Nat
    BY <2>1, MessageFacts
  <2>3. Len(s) \in Nat
    OBVIOUS
  <2> HIDE DEF e
  <2> QED
    BY <1>1, <2>1, <2>2, <2>3
<1>3. p \in Position
  BY <1>1, <1>2, MovedCell, 0 \in Nat
<1>4. ASSUME NEW i \in 1 .. Len(s)
      PROVE  /\ Cell(p, i - 1) = Cell(tail, a + (i - 1))
             /\ a + (i - 1) \in 0 .. total_len(msg) - 1
  <2>1. i - 1 \in Nat
    BY <1>2
  <2>2. Cell(p, i - 1) = Cell(tail, a + (i - 1))
    BY <1>1, <1>2, <2>1, MovedCell
  <2> QED
    BY <1>2, <2>1, <2>2
<1>5. block' = Written(p, s) /\ Len(s) <= BlockSize
  BY <1>1, <1>2
<1> HIDE DEF e, p
<1>6. /\ block' \in [0 .. BlockSize - 1 -> Unit]
      /\ \A i \in 1 .. Len(s) : block'[Cell(p, i - 1)] = s[i]
      /\ \A u \in 0 .. BlockSize - 1 :
           (\A i \in 1 .. Len(s) : u # Cell(p, i - 1)) => block'[u] = block[u]
  BY <1>3, <1>5, WrittenFacts
<1>7. \A i \in 1 .. Len(s) : block'[Cell(tail, a + (i - 1))] = s[i]
  BY <1>4, <1>6
<1>8. ASSUME NEW c \in 0 .. e - 1
      PROVE  block'[Cell(head, c)] = block[Cell(head, c)]
  <2>1. Cell(head, c) \in 0 .. BlockSize - 1
    BY <1>1, MovedCell, c \in Nat, 0 \in 0 .. BlockSize
  <2>2. \A i \in 1 .. Len(s) : Cell(head, c) # Cell(p, i - 1)
    BY <1>4, Behind DEF e
  <2> QED
    BY <1>6, <2>1, <2>2
<1>9. ASSUME NEW j \in 0 .. a - 1
      PROVE  block'[Cell(tail, j)] = block[Cell(tail, j)]
  <2>1. j \in 0 .. total_len(msg) - 1 /\ \A i \in 1 .. Len(s) : a + (i - 1) # j
    BY <1>2
  <2>2. Cell(tail, j) \in 0 .. BlockSize - 1
    BY <2>1, Behind
  <2>3. \A i \in 1 .. Len(s) : Cell(tail, j) # Cell(p, i - 1)
    BY <1>4, <2>1, Behind
  <2> QED
    BY <1>6, <2>2, <2>3
<1>10. InPlace(q, o)'
  BY <1>8, InPlaceKept DEF Explains, e
<1>11. Layout(q, o)'
  BY DEF Explains, Layout, Moved
<1> QED
  BY <1>6, <1>7, <1>9, <1>10, <1>11

(* The header is written. *)
LEMMA HeaderStep == ASSUME TypeOK, NEW q, NEW o, Explains(q, o), WriteHeader
                    PROVE  Explained(q)
<1> DEFINE s == <<total_len(msg), msg.flow>>
<1>1. writer = "header" /\ msg \in Message
  BY DEF WriteHeader, Explains, WriterAt
<1>2. /\ s \in Seq(Nat) /\ Len(s) = 2 /\ s[1] = total_len(msg) /\ s[2] = msg.flow
      /\ total_len(msg) \in Nat /\ total_len(msg) > 2
  BY <1>1, MessageFacts
<1>3. tail \in Position /\ BlockSize \in Nat
  BY SizesAssumption DEF TypeOK
<1>4. Moved(tail, 0) = tail
  BY <1>3 DEF Moved, Position
<1>5. block' = Written(tail, s) /\ UNCHANGED <<tail, msg, readerVars, pipe>> /\ writer' = "data"
  BY DEF WriteHeader
<1> HIDE DEF s
<1>6. block' = Written(Moved(tail, 0), s) /\ 0 + Len(s) <= total_len(msg) /\ UNCHANGED <<head, tail>>
  BY <1>2, <1>4, <1>5 DEF readerVars
<1>7. /\ block' \in [0 .. BlockSize - 1 -> Unit]
      /\ Layout(q, o)' /\ InPlace(q, o)'
      /\ \A i \in 1 .. Len(s) : block'[Cell(tail, 0 + (i - 1))] = s[i]
  BY <1>1, <1>2, <1>6, WriteFacts, 0 \in Nat
<1>8. TypeOK'
  BY <1>5, <1>7 DEF TypeOK, readerVars
<1>9. WriterAt(q, o)'
  <2>1. 1 \in 1 .. Len(s) /\ 2 \in 1 .. Len(s) /\ 0 + (1 - 1) = 0 /\ 0 + (2 - 1) = 1
    BY <1>2
  <2>2. block'[Cell(tail, 0)] = total_len(msg) /\ block'[Cell(tail, 1)] = msg.flow
    BY <1>2, <1>7, <2>1
  <2>3. o[Len(q)] + total_len(msg) < BlockSize
    BY <1>1 DEF Explains, WriterAt
  <2> QED
    BY <1>1, <1>5, <2>2, <2>3 DEF WriterAt, HeaderAt, Cell
<1>10. ReaderAt(q)' /\ taken' = taken /\ InHand' = InHand
  BY <1>5 DEF Explains, ReaderAt, readerVars, Copied, InHand
<1> QED
  BY <1>7, <1>8, <1>9, <1>10 DEF Explained, Outcome, Explains, Same

(* The data is written behind the header. *)
LEMMA DataStep == ASSUME TypeOK, NEW q, NEW o, Explains(q, o), WriteData
                  PROVE  Explained(q)
<1> DEFINE s == msg.data
<1>1. writer = "data" /\ msg \in Message
  BY DEF WriteData, Explains, WriterAt
<1>2. /\ s \in Seq(Nat) /\ Len(s) \in Nat \ {0} /\ total_len(msg) = 2 + Len(s)
  BY <1>1, MessageFacts
<1>3. /\ block' = Written(Moved(tail, 2), s)
      /\ UNCHANGED <<tail, msg, readerVars, pipe>> /\ writer' = "publish"
  BY DEF WriteData, C_HEAD_SIZE
<1> HIDE DEF s
<1>4. 2 + Len(s) <= total_len(msg) /\ UNCHANGED <<head, tail>>
  BY <1>2, <1>3 DEF readerVars
<1>5. /\ block' \in [0 .. BlockSize - 1 -> Unit]
      /\ Layout(q, o)' /\ InPlace(q, o)'
      /\ \A i \in 1 .. Len(s) : block'[Cell(tail, 2 + (i - 1))] = s[i]
      /\ \A j \in 0 .. 2 - 1 : block'[Cell(tail, j)] = block[Cell(tail, j)]
  BY <1>1, <1>2, <1>3, <1>4, WriteFacts, 2 \in Nat
<1>6. TypeOK'
  BY <1>3, <1>5 DEF TypeOK, readerVars
<1>7. WriterAt(q, o)'
  <2>1. HeaderAt(tail, msg) /\ o[Len(q)] + total_len(msg) < BlockSize
    BY <1>1 DEF Explains, WriterAt
  <2>2. block'[Cell(tail, 0)] = total_len(msg) /\ block'[Cell(tail, 1)] = msg.flow
    BY <1>5, <2>1 DEF HeaderAt
  <2>3. \A i \in 1 .. Len(s) : 2 + (i - 1) = 1 + i
    BY <1>2
  <2>4. \A i \in 1 .. Len(s) : block'[Cell(tail, 1 + i)] = s[i]
    BY <1>5, <2>3
  <2>5. Holds(tail, msg)'
    BY <1>3, <2>2, <2>4 DEF Holds, HeaderAt, Cell, s
  <2> QED
    BY <1>1, <1>3, <2>1, <2>5 DEF WriterAt
<1>8. ReaderAt(q)' /\ taken' = taken /\ InHand' = InHand
  BY <1>3 DEF Explains, ReaderAt, readerVars, Copied, InHand
<1> QED
  BY <1>5, <1>6, <1>7, <1>8 DEF Explained, Outcome, Explains, Same

(* The tail moves over the record, which is now the last of the messages.    *)
LEMMA PublishStep == ASSUME TypeOK, NEW q, NEW o, Explains(q, o), Publish
                     PROVE  Explained(q)
<1> DEFINE n == Len(q)
           t == total_len(msg)
<1>1. Layout(q, o) /\ msg \in Message /\ o[n] + t < BlockSize /\ Holds(tail, msg)
  BY DEF Explains, WriterAt, Publish
<1>2. /\ n \in Nat /\ q \in Seq(Message) /\ t \in Nat /\ t > 2 /\ BlockSize \in Nat
      /\ head \in Position /\ tail \in Position /\ tail = Moved(head, o[n])
  BY <1>1, LayoutFacts, MessageFacts
<1>3. \A i \in 0 .. n : o[i] \in Nat /\ o[i] <= o[n] /\ o[i] < BlockSize
  BY <1>1, LayoutFacts
<1>4. o[n] \in Nat
  BY <1>2, <1>3
<1>5. tail' = Moved(tail, t) /\ writer' = "notify" /\ UNCHANGED <<block, msg, readerVars, pipe>>
  BY DEF Publish
<1>6. PICK r \in Seq(Message) :
        /\ r = Append(q, msg)
        /\ Len(r) = n + 1 /\ r[n + 1] = msg
        /\ \A i \in 1 .. n : r[i] = q[i]
  <2> DEFINE a == Append(q, msg)
  <2>1. a \in Seq(Message) /\ Len(a) = n + 1 /\ a[n + 1] = msg
    BY <1>1, <1>2
  <2>2. \A i \in 1 .. n : a[i] = q[i]
    BY <1>1, <1>2
  <2> HIDE DEF n
  <2> QED
    BY <2>1, <2>2 DEF a
<1>7. PICK o2 \in [0 .. n + 1 -> 0 .. BlockSize - 1] :
        /\ \A i \in 0 .. n : o2[i] = o[i]
        /\ o2[n + 1] = o[n] + t
  <2> DEFINE f == [i \in 0 .. n + 1 |-> IF i <= n THEN o[i] ELSE o[n] + t]
  <2>1. \A i \in 0 .. n + 1 : f[i] \in 0 .. BlockSize - 1
    BY <1>1, <1>2, <1>3, <1>4
  <2>2. n + 1 \in 0 .. n + 1 /\ ~(n + 1 <= n) /\ \A i \in 0 .. n : i \in 0 .. n + 1 /\ i <= n
    BY <1>2
  <2>3. f \in [0 .. n + 1 -> 0 .. BlockSize - 1]
    BY <2>1
  <2>4. (\A i \in 0 .. n : f[i] = o[i]) /\ f[n + 1] = o[n] + t
    BY <2>2
  <2> HIDE DEF f
  <2> QED
    BY <2>3, <2>4
<1> HIDE DEF n, t
<1>8. t \in 0 .. BlockSize /\ Moved(head, o[n] + t) = tail'
  <2>1. t \in 0 .. BlockSize /\ o[n] + t <= BlockSize
    BY <1>1, <1>2, <1>4
  <2>2. Moved(Moved(head, o[n]), t) = Moved(head, o[n] + t)
    BY <1>2, <1>4, <2>1, MovedTwice
  <2> QED
    BY <1>2, <1>5, <2>1, <2>2
<1>9. TypeOK'
  <2>1. tail' \in Position
    BY <1>2, <1>5, <1>8, MovedCell, 0 \in Nat
  <2> QED
    BY <1>5, <2>1 DEF TypeOK, readerVars
<1>10. Layout(r, o2)'
  <2>1. o2[0] = 0
    BY <1>1, <1>2, <1>7 DEF Layout
  <2>2. ASSUME NEW i \in 1 .. n + 1
        PROVE  o2[i] = o2[i - 1] + total_len(r[i])
    <3>1. CASE i <= n
      <4>1. i \in 1 .. n /\ i \in 0 .. n /\ i - 1 \in 0 .. n
        BY <1>2, <3>1
      <4>2. o[i] = o[i - 1] + total_len(q[i])
        BY <1>1, <4>1 DEF Layout, n
      <4> QED
        BY <1>6, <1>7, <4>1, <4>2
    <3>2. CASE i = n + 1
      <4>1. i - 1 = n /\ n \in 0 .. n
        BY <1>2, <3>2
      <4> QED
        BY <1>6, <1>7, <3>2, <4>1 DEF t
    <3> QED
      BY <1>2, <3>1, <3>2
  <2>3. ASSUME NEW i \in 0 .. n + 1, NEW j \in 0 .. n + 1, i <= j
        PROVE  o2[j] - o2[i] >= j - i
    <3>1. CASE j <= n
      <4>1. i \in 0 .. n /\ j \in 0 .. n
        BY <1>2, <2>3, <3>1
      <4>2. o[j] - o[i] >= j - i
        BY <1>1, <2>3, <4>1 DEF Layout, n
      <4> QED
        BY <1>7, <4>1, <4>2
    <3>2. CASE j = n + 1 /\ i <= n
      <4>1. i \in 0 .. n /\ n \in 0 .. n /\ i <= n
        BY <1>2, <3>2
      <4>2. o[n] - o[i] >= n - i
        BY <1>1, <4>1 DEF Layout, n
      <4>3. o2[i] = o[i] /\ o2[j] = o[n] + t /\ o[i] \in Nat
        BY <1>3, <1>7, <3>2, <4>1
      <4>4. \A x, y \in Nat : x - y >= n - i => (x + t) - y >= (n + 1) - i
        BY <1>2, <4>1
      <4>5. (o[n] + t) - o[i] >= (n + 1) - i
        BY <1>4, <4>2, <4>3, <4>4
      <4> QED
        BY <3>2, <4>3, <4>5
    <3>3. CASE j = n + 1 /\ i = n + 1
      <4>1. o2[n + 1] \in Nat /\ o2[j] = o2[n + 1] /\ o2[i] = o2[n + 1]
        BY <1>2, <1>4, <1>7, <3>3
      <4> QED
        BY <1>2, <3>3, <4>1
    <3> QED
      BY <1>2, <2>3, <3>1, <3>2, <3>3
  <2>4. tail' = Moved(head', o2[n + 1])
    BY <1>5, <1>7, <1>8 DEF readerVars, Moved
  <2> QED
    BY <1>6, <1>7, <2>1, <2>2, <2>3, <2>4 DEF Layout, Moved
<1>11. InPlace(r, o2)'
  <2> SUFFICES ASSUME NEW i \in 1 .. n + 1
               PROVE  Holds(Moved(head, o2[i - 1]), r[i])'
    BY <1>6 DEF InPlace, Moved
  <2>1. CASE i <= n
    <3>1. i \in 1 .. n /\ i - 1 \in 0 .. n
      BY <1>2, <2>1
    <3>2. Holds(Moved(head, o2[i - 1]), r[i])
      BY <1>6, <1>7, <3>1 DEF Explains, InPlace, n
    <3> QED
      BY <1>5, <3>2 DEF Holds, HeaderAt, Cell, Moved, readerVars
  <2>2. CASE i = n + 1
    <3>1. i - 1 = n /\ n \in 0 .. n
      BY <1>2, <2>2
    <3>2. Moved(head, o2[i - 1]) = tail /\ r[i] = msg
      BY <1>2, <1>6, <1>7, <2>2, <3>1
    <3>3. Holds(Moved(head, o2[i - 1]), r[i])
      BY <1>1, <3>2
    <3> QED
      BY <1>5, <3>3 DEF Holds, HeaderAt, Cell, Moved, readerVars
  <2> QED
    BY <1>2, <2>1, <2>2
<1>12. WriterAt(r, o2)'
  BY <1>5 DEF WriterAt
<1>13. ReaderAt(r)'
  <2>1. reader \in {"header", "data", "consume"} => n > 0 /\ count < MaxCount
    BY DEF Explains, ReaderAt, n
  <2>2. n > 0 => r[1] = q[1] /\ Len(r) > 0
    BY <1>2, <1>6
  <2> QED
    BY <1>5, <2>1, <2>2 DEF Explains, ReaderAt, readerVars, Copied
<1> QED
  BY <1>1, <1>5, <1>6, <1>9, <1>10, <1>11, <1>12, <1>13
     DEF Explained, Outcome, Explains, Sent, InHand, readerVars

(* The other steps of the writer, and its crash. *)
LEMMA WriterStep == ASSUME TypeOK, NEW q, NEW o, Explains(q, o), Notify \/ WriterCrash
                    PROVE  Explained(q)
<1>1. /\ UNCHANGED <<tail, block, readerVars>>
      /\ pipe' \in 0 .. PipeSize /\ writer' = "idle" /\ msg' = None
  BY DEF TypeOK, Notify, WriterCrash
<1>2. TypeOK'
  BY <1>1 DEF TypeOK, readerVars
<1>3. Layout(q, o)' /\ InPlace(q, o)'
  BY <1>1, RingKept DEF Explains, readerVars
<1>4. WriterAt(q, o)' /\ ReaderAt(q)'
  BY <1>1 DEF Explains, WriterAt, ReaderAt, readerVars, Copied
<1> QED
  BY <1>1, <1>2, <1>3, <1>4 DEF Explained, Outcome, Explains, Same, InHand, readerVars
-----------------------------------------------------------------------------
(* What dequeue reads where a record starts is the message of the record.    *)
LEMMA RecordIs == ASSUME NEW p \in Position, NEW m \in Message, Holds(p, m)
                  PROVE  /\ Read(p, C_HEAD_SIZE)[1] = total_len(m)
                         /\ Read(p, C_HEAD_SIZE)[2] = m.flow
                         /\ Read(Moved(p, C_HEAD_SIZE), total_len(m) - C_HEAD_SIZE) = m.data
                         /\ RecordAt(p) = m
<1>1. /\ m = [flow |-> m.flow, data |-> m.data] /\ m.data \in Seq(Nat) /\ Len(m.data) \in Nat
      /\ total_len(m) - C_HEAD_SIZE = Len(m.data)
  BY MessageFacts DEF C_HEAD_SIZE
<1>2. /\ Read(p, C_HEAD_SIZE)[1] = block[Cell(p, 1 - 1)]
      /\ Read(p, C_HEAD_SIZE)[2] = block[Cell(p, 2 - 1)]
  BY DEF Read, C_HEAD_SIZE
<1>3. 1 - 1 = 0 /\ 2 - 1 = 1
  OBVIOUS
<1>4. Read(p, C_HEAD_SIZE)[1] = total_len(m) /\ Read(p, C_HEAD_SIZE)[2] = m.flow
  BY <1>2, <1>3 DEF Holds, HeaderAt
<1>5. Read(Moved(p, C_HEAD_SIZE), Len(m.data)) = m.data
  <2>1. ASSUME NEW i \in 1 .. Len(m.data)
        PROVE  block[Cell(Moved(p, C_HEAD_SIZE), i - 1)] = m.data[i]
    <3>1. 2 \in 0 .. BlockSize /\ i - 1 \in Nat /\ 2 + (i - 1) = 1 + i
      BY <1>1, SizesAssumption DEF C_HEAD_SIZE
    <3>2. Cell(Moved(p, 2), i - 1) = Cell(p, 1 + i)
      BY <3>1, MovedCell
    <3> QED
      BY <3>2 DEF Holds, C_HEAD_SIZE
  <2>2. m.data = [i \in 1 .. Len(m.data) |-> m.data[i]]
    BY <1>1
  <2> QED
    BY <2>1, <2>2 DEF Read
<1>6. RecordAt(p) = [flow |-> m.flow, data |-> m.data]
  BY <1>1, <1>4, <1>5 DEF RecordAt
<1> QED
  BY <1>1, <1>4, <1>5, <1>6

(* The oldest message starts at the head. *)
LEMMA FirstFacts == ASSUME TypeOK, NEW q, NEW o, Explains(q, o), Len(q) > 0
                    PROVE  /\ q[1] \in Message /\ Holds(head, q[1])
                           /\ o[1] = total_len(q[1])
                           /\ total_len(q[1]) <= o[Len(q)]
                           /\ o[Len(q)] # 0
<1>1. Layout(q, o)
  BY DEF Explains
<1>2. /\ Len(q) \in Nat /\ 1 \in 1 .. Len(q) /\ 1 \in 0 .. Len(q) /\ Len(q) \in 0 .. Len(q)
      /\ head \in Position
  BY <1>1, LayoutFacts
<1>3. /\ q[1] \in Message /\ o[Len(q)] \in Nat /\ o[1] \in Nat /\ o[1] >= 1 /\ o[1] <= o[Len(q)]
  BY <1>1, <1>2, LayoutFacts
<1>4. total_len(q[1]) \in Nat
  BY <1>3, MessageFacts
<1>5. o[1] = o[1 - 1] + total_len(q[1]) /\ o[0] = 0 /\ 1 - 1 = 0
  BY <1>1, <1>2 DEF Layout
<1>6. Moved(head, 0) = head
  BY <1>2, SizesAssumption DEF Moved, Position
<1>7. Holds(Moved(head, o[1 - 1]), q[1])
  BY <1>2 DEF Explains, InPlace
<1> QED
  BY <1>3, <1>4, <1>5, <1>6, <1>7

(* The steps that leave the locals of dequeue cleared or alone.  Of these,   *)
(* only a crash can meet a message in hand.                                  *)
LEMMA LoopStep == ASSUME TypeOK, NEW q, NEW o, Explains(q, o),
                         Wake \/ NoEvent \/ Poll \/ Return \/ ReaderCrash
                  PROVE  Explained(q)
<1>1. UNCHANGED <<head, taken, writerVars>>
  BY DEF Wake, NoEvent, Poll, Return, ReaderCrash
<1>2. reader' \in {"wait", "poll", "dequeue"}
  BY DEF Wake, NoEvent, Poll, Return, ReaderCrash, AfterDispatch
<1>3. /\ count' \in 0 .. MaxCount /\ active' \in BOOLEAN
      /\ pipe' \in 0 .. PipeSize
      /\ rec' \in [used : Nat, total : Unit, flow : Unit, data : Seq(Unit)]
  <2>1. 0 \in 0 .. MaxCount /\ (pipe > 0 => pipe - 1 \in 0 .. PipeSize)
    BY SizesAssumption DEF TypeOK
  <2>2. NoRec \in [used : Nat, total : Unit, flow : Unit, data : Seq(Unit)]
    BY NoRecFits DEF Unit
  <2> QED
    BY <2>1, <2>2 DEF TypeOK, Wake, NoEvent, Poll, Return, ReaderCrash
<1>4. TypeOK'
  BY <1>1, <1>2, <1>3 DEF TypeOK, writerVars
<1>5. Layout(q, o)' /\ InPlace(q, o)'
  BY <1>1, RingKept DEF Explains, writerVars
<1>6. WriterAt(q, o)' /\ ReaderAt(q)'
  BY <1>1, <1>2 DEF Explains, WriterAt, ReaderAt, HeaderAt, Holds, Cell, writerVars
<1>7. Same(q, q) \/ Lost(q, q)
  <2>1. InHand' = None
    BY <1>2 DEF InHand
  <2>2. InHand = None \/ InHand # None
    OBVIOUS
  <2> QED
    BY <1>1, <2>1, <2>2 DEF Same, Lost
<1> QED
  BY <1>4, <1>5, <1>6, <1>7 DEF Explained, Outcome, Explains

(* The message in hand is handled. *)
LEMMA HandleStep == ASSUME TypeOK, NEW q, NEW o, Explains(q, o), Handle
                    PROVE  Explained(q)
<1>1. /\ UNCHANGED <<head, active, writerVars, pipe>> /\ reader = "handle" /\ reader' = "dequeue"
      /\ taken' = Copied /\ rec' = NoRec /\ count' = count + 1
  BY DEF Handle, Copied
<1>2. /\ InHand = Copied /\ InHand \in Message /\ InHand # None
      /\ count < MaxCount
  BY <1>1, InHandFacts DEF Explains, ReaderAt
<1>3. TypeOK'
  <2>1. rec' \in [used : Nat, total : Unit, flow : Unit, data : Seq(Unit)]
    BY <1>1, NoRecFits DEF Unit
  <2>2. count' \in 0 .. MaxCount
    BY <1>1, <1>2, SizesAssumption DEF TypeOK
  <2>3. taken' \in Message
    BY <1>1, <1>2
  <2> QED
    BY <1>1, <2>1, <2>2, <2>3 DEF TypeOK, writerVars
<1>4. Layout(q, o)' /\ InPlace(q, o)'
  BY <1>1, RingKept DEF Explains, writerVars
<1>5. WriterAt(q, o)' /\ ReaderAt(q)'
  BY <1>1 DEF Explains, WriterAt, ReaderAt, HeaderAt, Holds, Cell, writerVars
<1>6. Handled(q, q)
  BY <1>1, <1>2 DEF Handled, InHand
<1> QED
  BY <1>3, <1>4, <1>5, <1>6 DEF Explained, Outcome, Explains

(* dequeue finds a message. *)
LEMMA DequeueStep == ASSUME TypeOK, NEW q, NEW o, Explains(q, o), Dequeue
                     PROVE  Explained(q)
<1> DEFINE n == Len(q)
<1>1. Layout(q, o)
  BY DEF Explains
<1>2. n \in Nat /\ n \in 0 .. n /\ o[0] = 0 /\ o[n] \in 0 .. BlockSize - 1 /\ tail = Moved(head, o[n])
  BY <1>1, LayoutFacts DEF Layout
<1>3. o[n] # 0 /\ used_len = o[n] /\ o[n] \in Nat
  <2>1. o[n] \in Nat
    BY <1>1, <1>2, LayoutFacts
  <2>2. o[n] # 0
    BY <1>2, Lengths DEF Dequeue
  <2> QED
    BY <1>2, <2>1, <2>2, Lengths
<1>4. n > 0
  BY <1>2, <1>3
<1>5. total_len(q[1]) <= o[n]
  BY <1>4, FirstFacts
<1>6. /\ UNCHANGED <<head, count, active, taken, writerVars, pipe>>
      /\ rec' = [NoRec EXCEPT !.used = used_len] /\ reader' = "header" /\ count < MaxCount
  BY DEF Dequeue
<1>7. rec'.used = o[n] /\ rec' \in [used : Nat, total : Unit, flow : Unit, data : Seq(Unit)]
  BY <1>3, <1>6, NoRecFits DEF NoRec, Unit
<1>8. TypeOK'
  BY <1>6, <1>7 DEF TypeOK, writerVars
<1>9. Layout(q, o)' /\ InPlace(q, o)'
  BY <1>6, RingKept DEF Explains, writerVars
<1>10. WriterAt(q, o)'
  BY <1>6 DEF Explains, WriterAt, HeaderAt, Holds, Cell, writerVars
<1>11. ReaderAt(q)'
  BY <1>4, <1>5, <1>6, <1>7 DEF ReaderAt
<1> QED
  BY <1>6, <1>8, <1>9, <1>10, <1>11 DEF Explained, Outcome, Explains, Same, InHand, Dequeue

(* A header is read, or its record is too long for the buffer. *)
LEMMA ReadHeaderStep == ASSUME TypeOK, NEW q, NEW o, Explains(q, o), ReadHeader
                        PROVE  Explained(q)
<1>1. /\ UNCHANGED <<head, count, active, taken, writerVars, pipe>>
      /\ reader = "header" /\ reader' \in {"data", "wait", "poll"}
  BY DEF ReadHeader, AfterDispatch
<1>2. Len(q) > 0 /\ count < MaxCount
  BY <1>1 DEF Explains, ReaderAt
<1>3. /\ q[1] \in Message /\ Read(head, C_HEAD_SIZE)[1] = total_len(q[1])
      /\ Read(head, C_HEAD_SIZE)[2] = q[1].flow
  <2>1. q[1] \in Message /\ Holds(head, q[1])
    BY <1>2, FirstFacts
  <2>2. head \in Position
    BY DEF TypeOK
  <2> QED
    BY <2>1, <2>2, RecordIs
<1>4. total_len(q[1]) \in Nat /\ q[1].flow \in Nat
  BY <1>3, MessageFacts
<1>5. \/ reader' # "data" /\ rec' = NoRec
      \/ /\ reader' = "data"
         /\ rec' = [rec EXCEPT !.total = total_len(q[1]), !.flow = q[1].flow]
  BY <1>3 DEF ReadHeader, AfterDispatch
<1>6. /\ rec' \in [used : Nat, total : Unit, flow : Unit, data : Seq(Unit)]
      /\ reader' = "data" => rec'.total = total_len(q[1]) /\ rec'.flow = q[1].flow
  <2>1. NoRec \in [used : Nat, total : Unit, flow : Unit, data : Seq(Unit)]
    BY NoRecFits DEF Unit
  <2>2. rec \in [used : Nat, total : Unit, flow : Unit, data : Seq(Unit)]
    BY DEF TypeOK
  <2> QED
    BY <1>4, <1>5, <2>1, <2>2 DEF Unit
<1>7. TypeOK'
  BY <1>1, <1>6 DEF TypeOK, writerVars
<1>8. Layout(q, o)' /\ InPlace(q, o)'
  BY <1>1, RingKept DEF Explains, writerVars
<1>9. WriterAt(q, o)'
  BY <1>1 DEF Explains, WriterAt, HeaderAt, Holds, Cell, writerVars
<1>10. ReaderAt(q)'
  BY <1>1, <1>2, <1>6 DEF ReaderAt
<1> QED
  BY <1>1, <1>7, <1>8, <1>9, <1>10 DEF Explained, Outcome, Explains, Same, InHand

(* The data is read. *)
LEMMA ReadDataStep == ASSUME TypeOK, NEW q, NEW o, Explains(q, o), ReadData
                      PROVE  Explained(q)
<1>1. /\ UNCHANGED <<head, count, active, taken, writerVars, pipe>>
      /\ reader = "data" /\ reader' = "consume"
  BY DEF ReadData
<1>2. /\ Len(q) > 0 /\ count < MaxCount
      /\ rec.total = total_len(q[1]) /\ rec.flow = q[1].flow
  BY <1>1 DEF Explains, ReaderAt
<1>3. q[1] \in Message /\ Read(Moved(head, C_HEAD_SIZE), total_len(q[1]) - C_HEAD_SIZE) = q[1].data
  <2>1. q[1] \in Message /\ Holds(head, q[1])
    BY <1>2, FirstFacts
  <2>2. head \in Position
    BY DEF TypeOK
  <2> QED
    BY <2>1, <2>2, RecordIs
<1>4. q[1].data \in Seq(Nat)
  BY <1>3, MessageFacts
<1>5. rec' = [rec EXCEPT !.data = q[1].data]
  BY <1>2, <1>3 DEF ReadData
<1>6. /\ rec' \in [used : Nat, total : Unit, flow : Unit, data : Seq(Unit)]
      /\ rec'.total = rec.total /\ rec'.flow = rec.flow /\ rec'.data = q[1].data
  <2>1. rec \in [used : Nat, total : Unit, flow : Unit, data : Seq(Unit)]
    BY DEF TypeOK
  <2> QED
    BY <1>4, <1>5, <2>1 DEF Unit
<1>7. TypeOK'
  BY <1>1, <1>6 DEF TypeOK, writerVars
<1>8. Layout(q, o)' /\ InPlace(q, o)'
  BY <1>1, RingKept DEF Explains, writerVars
<1>9. WriterAt(q, o)'
  BY <1>1 DEF Explains, WriterAt, HeaderAt, Holds, Cell, writerVars
<1>10. ReaderAt(q)'
  BY <1>1, <1>2, <1>6 DEF ReaderAt
<1> QED
  BY <1>1, <1>7, <1>8, <1>9, <1>10 DEF Explained, Outcome, Explains, Same, InHand

(* The head moves over the oldest message, and the others stay where they    *)
(* are: their places are counted from the new head now.                      *)
LEMMA ConsumeStep == ASSUME TypeOK, NEW q, NEW o, Explains(q, o), Consume
                     PROVE  Explained(q)
<1> DEFINE n == Len(q)
           t == total_len(q[1])
<1>1. /\ UNCHANGED <<count, active, taken, writerVars, pipe>>
      /\ reader = "consume" /\ reader' = "handle"
      /\ rec' = [NoRec EXCEPT !.flow = rec.flow, !.data = rec.data]
  BY DEF Consume
<1>2. /\ Layout(q, o) /\ n > 0 /\ count < MaxCount
      /\ rec.total = t /\ rec.flow = q[1].flow /\ rec.data = q[1].data
  BY <1>1 DEF Explains, ReaderAt
<1>3. /\ n \in Nat /\ q \in Seq(Message) /\ BlockSize \in Nat
      /\ head \in Position /\ tail = Moved(head, o[n])
  BY <1>2, LayoutFacts
<1>4. \A i \in 0 .. n : o[i] \in Nat /\ o[i] >= i /\ o[i] <= o[n] /\ o[i] < BlockSize
  BY <1>2, LayoutFacts
<1>5. q[1] \in Message /\ o[1] = t /\ t <= o[n] /\ t \in Nat /\ t > 2 /\ o[n] \in Nat
  <2>1. q[1] \in Message /\ o[1] = t /\ t <= o[n]
    BY <1>2, FirstFacts
  <2>2. n \in 0 .. n
    BY <1>3
  <2> QED
    BY <1>4, <2>1, <2>2, MessageFacts
<1>6. InHand = None /\ InHand' = q[1] /\ Copied' = q[1]
  <2>1. rec'.flow = q[1].flow /\ rec'.data = q[1].data
    BY <1>1, <1>2 DEF NoRec
  <2>2. [flow |-> rec'.flow, data |-> rec'.data] = q[1]
    BY <1>5, <2>1, MessageFacts
  <2> QED
    BY <1>1, <2>2 DEF InHand, Copied
<1>7. PICK r \in Seq(Message) :
        /\ r = Tail(q) /\ q # <<>> /\ q[1] = Head(q)
        /\ Len(r) = n - 1
        /\ \A i \in 1 .. n - 1 : r[i] = q[i + 1]
  <2> DEFINE a == Tail(q)
  <2>1. q # <<>> /\ q[1] = Head(q)
    BY <1>2, <1>3
  <2>2. a \in Seq(Message) /\ Len(a) = n - 1 /\ \A i \in 1 .. n - 1 : a[i] = q[i + 1]
    BY <1>3, <2>1
  <2> HIDE DEF n
  <2> QED
    BY <2>1, <2>2 DEF a
<1> HIDE DEF n, t
<1>8. \A i \in 0 .. n - 1 : o[i + 1] \in Nat /\ o[i + 1] >= t /\ o[i + 1] <= o[n] /\ o[i + 1] < BlockSize
  <2>1. ASSUME NEW i \in 0 .. n - 1
        PROVE  o[i + 1] \in Nat /\ o[i + 1] >= t /\ o[i + 1] <= o[n] /\ o[i + 1] < BlockSize
    <3>1. i + 1 \in 0 .. n /\ 1 \in 0 .. n /\ 1 <= i + 1 /\ i \in Nat
      BY <1>2, <1>3
    <3>2. o[i + 1] - o[1] >= (i + 1) - 1
      BY <1>2, <3>1 DEF Layout, n
    <3>3. /\ o[i + 1] \in Nat /\ o[i + 1] <= o[n] /\ o[i + 1] < BlockSize
      BY <1>4, <3>1
    <3> QED
      BY <1>5, <3>1, <3>2, <3>3
  <2> QED
    BY <2>1
<1>9. PICK o2 \in [0 .. n - 1 -> 0 .. BlockSize - 1] : \A i \in 0 .. n - 1 : o2[i] = o[i + 1] - t
  <2> DEFINE f == [i \in 0 .. n - 1 |-> o[i + 1] - t]
  <2>1. \A i \in 0 .. n - 1 : o[i + 1] - t \in 0 .. BlockSize - 1
    BY <1>3, <1>5, <1>8
  <2>2. f \in [0 .. n - 1 -> 0 .. BlockSize - 1] /\ \A i \in 0 .. n - 1 : f[i] = o[i + 1] - t
    BY <2>1
  <2> HIDE DEF f
  <2> QED
    BY <2>2
<1>10. head' = Moved(head, t) /\ head' \in Position
  <2>1. head' = Moved(Moved(head, 2), t - 2)
    BY <1>2 DEF Consume, C_HEAD_SIZE
  <2>2. t - 2 \in Nat /\ 2 + (t - 2) = t /\ t \in 0 .. BlockSize /\ t <= BlockSize
    BY <1>3, <1>4, <1>5, n \in 0 .. n
  <2>3. head' = Moved(head, t)
    BY <1>3, <2>1, <2>2, MovedTwice
  <2> QED
    BY <1>3, <2>2, <2>3, MovedCell, 0 \in Nat
<1>11. ASSUME NEW i \in 0 .. n - 1
       PROVE  Moved(head, o2[i])' = Moved(head, o[i + 1])
  <2>1. o2[i] = o[i + 1] - t /\ o2[i] \in Nat /\ t + o2[i] = o[i + 1] /\ t + o2[i] <= BlockSize
    <3>1. /\ o2[i] = o[i + 1] - t
          /\ o[i + 1] \in Nat /\ o[i + 1] >= t /\ o[i + 1] < BlockSize
      BY <1>8, <1>9
    <3>2. \A x, y \in Nat : y >= t /\ x = y - t => x \in Nat /\ t + x = y
      BY <1>5
    <3>3. \A y \in Nat : y >= t => y - t \in Nat
      BY <1>5
    <3>4. o2[i] \in Nat
      BY <3>1, <3>3
    <3>5. t + o2[i] = o[i + 1]
      BY <3>1, <3>2, <3>4
    <3> QED
      BY <1>3, <3>1, <3>4, <3>5
  <2>2. Moved(Moved(head, t), o2[i]) = Moved(head, o[i + 1])
    BY <1>3, <1>5, <2>1, MovedTwice
  <2> QED
    BY <1>10, <2>2 DEF Moved
<1>12. TypeOK'
  <2>1. rec' \in [used : Nat, total : Unit, flow : Unit, data : Seq(Unit)]
    BY <1>1, NoRecFits DEF TypeOK, Unit
  <2> QED
    BY <1>1, <1>10, <2>1 DEF TypeOK, writerVars
<1>13. Layout(r, o2)'
  <2>1. o2[0] = 0
    <3>1. 0 \in 0 .. n - 1 /\ 0 + 1 = 1
      BY <1>2, <1>3
    <3> QED
      BY <1>5, <1>9, <3>1
  <2>2. ASSUME NEW i \in 1 .. n - 1
        PROVE  o2[i] = o2[i - 1] + total_len(r[i])
    <3>1. /\ i \in 0 .. n /\ i \in 0 .. n - 1 /\ i - 1 \in 0 .. n - 1 /\ i + 1 \in 1 .. n
          /\ (i - 1) + 1 = i /\ (i + 1) - 1 = i
      BY <1>3
    <3>2. o[i + 1] = o[i] + total_len(q[i + 1])
      BY <1>2, <3>1 DEF Layout, n
    <3>3. o2[i] = o[i + 1] - t /\ o2[i - 1] = o[i] - t
      BY <1>9, <3>1
    <3>4. q[i + 1] \in Message
      BY <1>2, <3>1, LayoutFacts DEF n
    <3>5. o[i] \in Nat /\ o[i + 1] \in Nat /\ total_len(q[i + 1]) \in Nat
      BY <1>4, <1>8, <3>1, <3>4, MessageFacts
    <3>6. \A x, y \in Nat : (x + y) - t = (x - t) + y
      BY <1>5
    <3>7. r[i] = q[i + 1]
      BY <1>7
    <3> QED
      BY <3>2, <3>3, <3>5, <3>6, <3>7
  <2>3. ASSUME NEW i \in 0 .. n - 1, NEW j \in 0 .. n - 1, i <= j
        PROVE  o2[j] - o2[i] >= j - i
    <3>1. i + 1 \in 0 .. n /\ j + 1 \in 0 .. n /\ i + 1 <= j + 1
      BY <1>3, <2>3
    <3>2. o[j + 1] - o[i + 1] >= (j + 1) - (i + 1)
      BY <1>2, <3>1 DEF Layout, n
    <3>3. o2[i] = o[i + 1] - t /\ o2[j] = o[j + 1] - t /\ o[i + 1] \in Nat /\ o[j + 1] \in Nat
      BY <1>8, <1>9
    <3>4. \A x, y \in Nat : (x - t) - (y - t) = x - y
      BY <1>5
    <3>5. (j + 1) - (i + 1) = j - i
      BY <1>3
    <3>6. o2[j] - o2[i] = o[j + 1] - o[i + 1]
      BY <3>3, <3>4
    <3> QED
      BY <3>2, <3>5, <3>6
  <2>4. tail' = Moved(head, o2[n - 1])'
    <3>1. n - 1 \in 0 .. n - 1 /\ (n - 1) + 1 = n
      BY <1>2, <1>3
    <3>2. Moved(head, o2[n - 1])' = Moved(head, o[(n - 1) + 1])
      BY <1>11, <3>1
    <3> QED
      BY <1>1, <1>3, <3>1, <3>2 DEF writerVars
  <2> QED
    BY <1>7, <1>9, <2>1, <2>2, <2>3, <2>4 DEF Layout
<1>14. InPlace(r, o2)'
  <2> SUFFICES ASSUME NEW i \in 1 .. n - 1
               PROVE  Holds(Moved(head, o2[i - 1]), r[i])'
    BY <1>7 DEF InPlace
  <2>1. i - 1 \in 0 .. n - 1 /\ (i - 1) + 1 = i /\ i + 1 \in 1 .. n /\ (i + 1) - 1 = i
    BY <1>3
  <2>2. Moved(head, o2[i - 1])' = Moved(head, o[i])
    BY <1>11, <2>1
  <2>3. Holds(Moved(head, o[i]), q[i + 1])
    <3>1. Holds(Moved(head, o[(i + 1) - 1]), q[i + 1])
      BY <2>1 DEF Explains, InPlace, n
    <3> QED
      BY <2>1, <3>1
  <2>4. r[i] = q[i + 1]
    BY <1>7
  <2>5. PICK p : p = Moved(head, o[i])
    OBVIOUS
  <2>6. Holds(p, r[i])
    BY <2>3, <2>4, <2>5
  <2>7. Holds(p, r[i])'
    BY <1>1, <2>6 DEF Holds, HeaderAt, Cell, writerVars
  <2>8. Moved(head, o2[i - 1])' = p
    BY <2>2, <2>5
  <2> QED
    BY <2>7, <2>8 DEF Holds, HeaderAt, Cell
<1>15. WriterAt(r, o2)'
  <2>1. o2[n - 1] <= o[n] /\ o2[n - 1] \in Nat
    <3>1. n - 1 \in 0 .. n - 1 /\ (n - 1) + 1 = n
      BY <1>2, <1>3
    <3>2. o2[n - 1] = o[n] - t
      BY <1>9, <3>1
    <3> QED
      BY <1>5, <3>2
  <2>2. writer \in {"header", "data", "publish"} => msg \in Message /\ o[n] + total_len(msg) < BlockSize
    BY DEF Explains, WriterAt, n
  <2>3. msg \in Message => total_len(msg) \in Nat
    BY MessageFacts
  <2>4. writer \in {"header", "data", "publish"} => msg \in Message /\ o2[n - 1] + total_len(msg) < BlockSize
    BY <1>3, <1>5, <2>1, <2>2, <2>3
  <2>5. /\ writer = "data" => HeaderAt(tail, msg)
        /\ writer = "publish" => Holds(tail, msg)
    BY DEF Explains, WriterAt
  <2> QED
    BY <1>1, <1>7, <2>4, <2>5 DEF WriterAt, HeaderAt, Holds, Cell, writerVars
<1>16. ReaderAt(r)'
  BY <1>1, <1>2, <1>5, <1>6 DEF ReaderAt
<1> QED
  BY <1>1, <1>6, <1>7, <1>12, <1>13, <1>14, <1>15, <1>16 DEF Explained, Outcome, Explains, Took
-----------------------------------------------------------------------------
(* Every step has an explanation: what was in the ring is still there, less  *)
(* the oldest message if it was taken and more by one if it was published.   *)
LEMMA StepExplained == ASSUME TypeOK, NEW q, NEW o, Explains(q, o), [Next]_vars
                       PROVE  Explained(q)
<1>1. CASE UNCHANGED vars
  <2>1. TypeOK'
    BY <1>1 DEF TypeOK, vars, writerVars, readerVars
  <2>2. Layout(q, o)' /\ InPlace(q, o)'
    BY <1>1, RingKept DEF Explains, vars, writerVars, readerVars
  <2>3. WriterAt(q, o)' /\ ReaderAt(q)'
    BY <1>1 DEF Explains, WriterAt, ReaderAt, Copied, HeaderAt, Holds, Cell,
                vars, writerVars, readerVars
  <2> QED
    BY <1>1, <2>1, <2>2, <2>3 DEF Explained, Outcome, Explains, Same, InHand, vars, readerVars
<1>2. CASE Writing
  <2>1. ASSUME NEW m \in Message, Enqueue(m) PROVE Explained(q)
    BY <2>1, EnqueueStep
  <2>2. CASE WriteHeader
    BY <2>2, HeaderStep
  <2>3. CASE WriteData
    BY <2>3, DataStep
  <2>4. CASE Publish
    BY <2>4, PublishStep
  <2>5. CASE Notify
    BY <2>5, WriterStep
  <2> QED
    BY <1>2, <2>1, <2>2, <2>3, <2>4, <2>5 DEF Writing
<1>3. CASE EventLoop
  <2>1. CASE Wake \/ NoEvent \/ Poll \/ Return
    BY <2>1, LoopStep
  <2>2. CASE Dequeue
    BY <2>2, DequeueStep
  <2>3. CASE ReadHeader
    BY <2>3, ReadHeaderStep
  <2>4. CASE ReadData
    BY <2>4, ReadDataStep
  <2>5. CASE Consume
    BY <2>5, ConsumeStep
  <2>6. CASE Handle
    BY <2>6, HandleStep
  <2> QED
    BY <1>3, <2>1, <2>2, <2>3, <2>4, <2>5, <2>6 DEF EventLoop
<1>4. CASE WriterCrash
  BY <1>4, WriterStep
<1>5. CASE ReaderCrash
  BY <1>5, LoopStep
<1> QED
  BY <1>1, <1>2, <1>3, <1>4, <1>5 DEF Next

(* The invariant is inductive. *)
LEMMA StepIInv == IInv /\ [Next]_vars => IInv'
<1> SUFFICES ASSUME IInv, [Next]_vars PROVE IInv'
  OBVIOUS
<1>1. PICK q, o : Explains(q, o)
  BY DEF IInv
<1>2. Explained(q)
  BY <1>1, StepExplained DEF IInv
<1> QED
  BY <1>2 DEF Explained, IInv

(* It holds in every state the two processes reach. *)
LEMMA Invariance == Spec => []IInv
<1>1. Init => IInv
  BY InitExplained DEF IInv
<1> QED
  BY <1>1, StepIInv, PTL DEF Spec

(* The state keeps its types, so no index leaves the block and no length is  *)
(* negative, at any length of block and messages.                            *)
THEOREM TypeCorrect == Spec => []TypeOK
<1>1. IInv => TypeOK
  BY DEF IInv
<1> QED
  BY <1>1, Invariance, PTL

(* The writer, without a lock, fills only cells that no message of the ring  *)
(* uses.                                                                     *)
THEOREM WriterKeepsOff == Spec => []WritesOnlyFreeCells
<1>1. IInv => WritesOnlyFreeCells
  <2> SUFFICES ASSUME IInv, NEW u \in WrittenCells, u \in UsedCells PROVE FALSE
    BY DEF WritesOnlyFreeCells
  <2>1. PICK q, o : TypeOK /\ Explains(q, o)
    BY DEF IInv
  <2>2. writer \in {"header", "data"} /\ \E j \in 0 .. total_len(msg) - 1 : u = Cell(tail, j)
    BY DEF WrittenCells
  <2>3. head # tail /\ \E c \in 0 .. used_len - 1 : u = Cell(head, c)
    BY DEF UsedCells
  <2>4. used_len = o[Len(q)]
    <3>1. /\ Layout(q, o) /\ tail = Moved(head, o[Len(q)]) /\ o[Len(q)] \in 0 .. BlockSize - 1
          /\ o[Len(q)] \in Nat
      <4>1. Layout(q, o)
        BY <2>1 DEF Explains
      <4>2. Len(q) \in 0 .. Len(q)
        BY <2>1, <4>1, LayoutFacts
      <4> QED
        BY <2>1, <4>1, <4>2, LayoutFacts DEF Layout
    <3> QED
      BY <2>1, <2>3, <3>1, Lengths
  <2> QED
    BY <2>1, <2>2, <2>3, <2>4, Behind
<1> QED
  BY <1>1, Invariance, PTL

(* The assertion of dequeue on the length it reads never fails.              *)
THEOREM AssertionHolds == Spec => []AssertTotalLen
<1>1. IInv => AssertTotalLen
  <2> SUFFICES ASSUME IInv, reader = "header"
               PROVE  /\ Read(head, C_HEAD_SIZE)[1] >= C_HEAD_SIZE
                      /\ Read(head, C_HEAD_SIZE)[1] <= rec.used
    BY DEF AssertTotalLen
  <2>1. PICK q, o : TypeOK /\ Explains(q, o)
    BY DEF IInv
  <2>2. Len(q) > 0 /\ total_len(q[1]) <= rec.used
    BY <2>1 DEF Explains, ReaderAt
  <2>3. q[1] \in Message /\ Holds(head, q[1]) /\ head \in Position
    BY <2>1, <2>2, FirstFacts DEF TypeOK
  <2>4. Read(head, C_HEAD_SIZE)[1] = total_len(q[1]) /\ total_len(q[1]) \in Nat /\ total_len(q[1]) > 2
    BY <2>3, RecordIs, MessageFacts
  <2> QED
    BY <2>2, <2>4 DEF C_HEAD_SIZE
<1> QED
  BY <1>1, Invariance, PTL

(* What dequeue has copied is the oldest message until the head moves.       *)
THEOREM CopyIsOldest == Spec => []CopiedIsOldest
<1>1. IInv => CopiedIsOldest
  <2> SUFFICES ASSUME IInv, reader = "consume"
               PROVE  /\ head # tail
                      /\ [flow |-> rec.flow, data |-> rec.data] = RecordAt(head)
    BY DEF CopiedIsOldest
  <2>1. PICK q, o : TypeOK /\ Explains(q, o)
    BY DEF IInv
  <2>2. Len(q) > 0 /\ rec.flow = q[1].flow /\ rec.data = q[1].data
    BY <2>1 DEF Explains, ReaderAt
  <2>3. q[1] \in Message /\ Holds(head, q[1]) /\ o[Len(q)] # 0 /\ head \in Position
    BY <2>1, <2>2, FirstFacts DEF TypeOK
  <2>4. RecordAt(head) = q[1] /\ q[1] = [flow |-> q[1].flow, data |-> q[1].data]
    BY <2>3, RecordIs, MessageFacts
  <2>5. o[Len(q)] \in 0 .. BlockSize - 1 /\ tail = Moved(head, o[Len(q)])
    <3>1. Layout(q, o)
      BY <2>1 DEF Explains
    <3>2. Len(q) \in 0 .. Len(q)
      BY <2>1, <3>1, LayoutFacts
    <3> QED
      BY <3>1, <3>2 DEF Layout
  <2>6. head # tail
    BY <2>1, <2>3, <2>5, Lengths
  <2> QED
    BY <2>2, <2>4, <2>6
<1> QED
  BY <1>1, Invariance, PTL
-----------------------------------------------------------------------------
(* The walk from the head over the lengths of the records meets the messages *)
(* of the layout, and ends at the tail.                                      *)
LEMMA WalkIsLayout == ASSUME TypeOK, NEW q, NEW o, Layout(q, o), InPlace(q, o)
                      PROVE  \A i \in 0 .. BlockSize :
                               Start[i] = IF i <= Len(q) THEN Moved(head, o[i]) ELSE tail
<1> DEFINE n == Len(q)
           w == [i \in 0 .. BlockSize |-> IF i <= n THEN Moved(head, o[i]) ELSE tail]
           Walks(f) == f = [i \in 0 .. BlockSize |->
                              IF i = 0 THEN head
                              ELSE IF f[i - 1] = tail THEN tail
                              ELSE Moved(f[i - 1], Read(f[i - 1], C_HEAD_SIZE)[1])]
<1>1. /\ n \in Nat /\ n < BlockSize /\ BlockSize \in Nat /\ BlockSize > 2
      /\ head \in Position /\ tail = Moved(head, o[n])
      /\ \A i \in 1 .. n : q[i] \in Message
  BY LayoutFacts
<1>2. \A i \in 0 .. n : o[i] \in Nat /\ o[i] < BlockSize
  BY <1>1, LayoutFacts
<1>3. ASSUME NEW i \in 0 .. n, i < n PROVE Moved(head, o[i]) # tail
  <2>1. n \in 0 .. n /\ i <= n
    BY <1>1, <1>3
  <2>2. o[n] - o[i] >= n - i
    BY <2>1 DEF Layout
  <2>3. o[i] < o[n]
    BY <1>1, <1>2, <1>3, <2>1, <2>2
  <2> QED
    BY <1>1, <1>2, <2>1, <2>3, PlacesApart
<1> HIDE DEF n
<1>4. ASSUME NEW i \in 1 .. BlockSize
      PROVE  w[i] = IF w[i - 1] = tail THEN tail
                    ELSE Moved(w[i - 1], Read(w[i - 1], C_HEAD_SIZE)[1])
  <2>1. i \in 0 .. BlockSize /\ i - 1 \in 0 .. BlockSize
    BY <1>1
  <2>2. CASE i <= n
    <3>1. i \in 1 .. n /\ i \in 0 .. n /\ i - 1 \in 0 .. n /\ i - 1 < n /\ i - 1 <= n
      BY <1>1, <2>2
    <3>2. w[i - 1] = Moved(head, o[i - 1]) /\ w[i] = Moved(head, o[i])
      BY <2>1, <2>2, <3>1
    <3> HIDE DEF w
    <3>3. w[i - 1] # tail
      BY <1>3, <3>1, <3>2
    <3>4. Read(w[i - 1], C_HEAD_SIZE)[1] = total_len(q[i])
      <4>1. Moved(head, o[i - 1]) \in Position
        <5>1. o[i - 1] \in 0 .. BlockSize
          BY <1>1, <1>2, <3>1
        <5> QED
          BY <1>1, <5>1, MovedCell, 0 \in Nat
      <4>2. q[i] \in Message /\ Holds(Moved(head, o[i - 1]), q[i])
        BY <1>1, <3>1 DEF InPlace, n
      <4> QED
        BY <3>2, <4>1, <4>2, RecordIs
    <3>5. o[i] = o[i - 1] + total_len(q[i]) /\ total_len(q[i]) \in Nat
      BY <1>1, <3>1, MessageFacts DEF Layout, n
    <3>6. /\ o[i - 1] \in Nat /\ o[i - 1] + total_len(q[i]) <= BlockSize
      BY <1>1, <1>2, <3>1, <3>5
    <3>7. Moved(Moved(head, o[i - 1]), total_len(q[i])) = Moved(head, o[i])
      BY <1>1, <3>5, <3>6, MovedTwice
    <3> QED
      BY <3>2, <3>3, <3>4, <3>7
  <2>3. CASE i = n + 1
    <3>1. i - 1 = n /\ n <= n /\ ~(i <= n)
      BY <1>1, <2>3
    <3>2. w[i - 1] = tail /\ w[i] = tail
      BY <1>1, <2>1, <3>1
    <3> QED
      BY <3>2
  <2>4. CASE i > n + 1
    <3>1. ~(i - 1 <= n) /\ ~(i <= n)
      BY <1>1, <2>4
    <3>2. w[i - 1] = tail /\ w[i] = tail
      BY <2>1, <3>1
    <3> QED
      BY <3>2
  <2> QED
    BY <1>1, <2>2, <2>3, <2>4
<1>5. w[0] = head
  <2>1. w[0] = Moved(head, o[0]) /\ o[0] = 0
    BY <1>1 DEF Layout
  <2> HIDE DEF w
  <2> QED
    BY <1>1, <2>1 DEF Moved, Position
<1>6. Walks(w)
  <2>1. ASSUME NEW i \in 0 .. BlockSize
        PROVE  w[i] = IF i = 0 THEN head
                      ELSE IF w[i - 1] = tail THEN tail
                      ELSE Moved(w[i - 1], Read(w[i - 1], C_HEAD_SIZE)[1])
    <3>1. i = 0 \/ i \in 1 .. BlockSize
      BY <1>1
    <3> HIDE DEF w
    <3> QED
      BY <1>1, <1>4, <1>5, <3>1
  <2>2. w = [i \in 0 .. BlockSize |-> w[i]]
    OBVIOUS
  <2> HIDE DEF w
  <2> QED
    BY <2>1, <2>2
<1> DEFINE s == Start
<1>7. Walks(s)
  <2> HIDE DEF w
  <2> QED
    BY <1>6, Zenon DEF Start
<1> HIDE DEF s
<1>8. ASSUME NEW i \in 1 .. BlockSize
      PROVE  s[i] = IF s[i - 1] = tail THEN tail
                    ELSE Moved(s[i - 1], Read(s[i - 1], C_HEAD_SIZE)[1])
  <2>1. i \in 0 .. BlockSize /\ i # 0
    BY <1>1
  <2> QED
    BY <1>7, <2>1
<1>9. s[0] = head
  BY <1>1, <1>7
<1>10. ASSUME NEW k \in 0 .. BlockSize PROVE s[k] = w[k]
  <2> DEFINE T == {i \in 0 .. BlockSize : s[i] # w[i]}
  <2>1. T = {}
    <3> SUFFICES ASSUME T # {} PROVE FALSE
      OBVIOUS
    <3>1. T \in SUBSET Nat
      BY <1>1
    <3> HIDE DEF T
    <3>2. PICK i \in T : \A j \in T : i <= j
      BY <3>1, LeastMember
    <3>3. i \in 0 .. BlockSize /\ s[i] # w[i]
      BY <3>2 DEF T
    <3> HIDE DEF w
    <3>4. i \in 1 .. BlockSize /\ i - 1 \in 0 .. BlockSize
      BY <1>1, <1>5, <1>9, <3>3
    <3>5. i - 1 \notin T
      BY <3>1, <3>2, <3>4
    <3>6. s[i - 1] = w[i - 1]
      BY <3>4, <3>5 DEF T
    <3> QED
      BY <1>4, <1>8, <3>3, <3>4, <3>6
  <2> QED
    BY <2>1
<1> QED
  BY <1>10 DEF s, n

(* The messages between head and tail are those of the layout. *)
ContentsAre == TypeOK => \A q, o : Layout(q, o) /\ InPlace(q, o) => Contents = q

LEMMA ContentsFacts == ContentsAre
<1> SUFFICES ASSUME TypeOK, NEW q, NEW o, Layout(q, o), InPlace(q, o)
             PROVE  Contents = q
  BY DEF ContentsAre
<1> DEFINE n == Len(q)
<1>1. /\ n \in Nat /\ n < BlockSize /\ BlockSize \in Nat
      /\ q \in Seq(Message) /\ head \in Position /\ tail = Moved(head, o[n])
      /\ \A i \in 1 .. n : q[i] \in Message
  BY LayoutFacts
<1>2. \A i \in 0 .. n : o[i] \in Nat /\ o[i] < BlockSize
  BY <1>1, LayoutFacts
<1>3. \A i \in 0 .. n : Start[i] = Moved(head, o[i])
  BY <1>1, WalkIsLayout
<1>4. \A i \in 0 .. BlockSize : ~(i <= n) => Start[i] = tail
  BY <1>1, WalkIsLayout
<1> HIDE DEF n
<1>5. ASSUME NEW i \in 0 .. n, i < n PROVE Start[i] # tail
  <2>1. n \in 0 .. n /\ i <= n
    BY <1>1, <1>5
  <2>2. o[n] - o[i] >= n - i
    BY <2>1 DEF Layout, n
  <2>3. o[i] < o[n]
    BY <1>1, <1>2, <1>5, <2>1, <2>2
  <2> QED
    BY <1>1, <1>2, <1>3, <2>1, <2>3, PlacesApart
<1>6. {j \in 0 .. BlockSize : Start[j] # tail} = 0 .. n - 1
  <2>1. ASSUME NEW j \in 0 .. BlockSize, Start[j] # tail PROVE j \in 0 .. n - 1
    <3>1. Start[n] = tail
      BY <1>1, <1>3, n \in 0 .. n
    <3> QED
      BY <1>1, <1>4, <2>1, <3>1
  <2>2. ASSUME NEW j \in 0 .. n - 1 PROVE j \in 0 .. BlockSize /\ Start[j] # tail
    <3>1. j \in 0 .. n /\ j < n /\ j \in 0 .. BlockSize
      BY <1>1
    <3> QED
      BY <1>5, <3>1
  <2> QED
    BY <2>1, <2>2
<1>7. Cardinality(0 .. n - 1) = n
  BY <1>1, FS_Interval
<1>8. Contents = [i \in 1 .. n |-> RecordAt(Start[i - 1])]
  BY <1>6, <1>7 DEF Contents
<1>9. ASSUME NEW i \in 1 .. n PROVE RecordAt(Start[i - 1]) = q[i]
  <2>1. i - 1 \in 0 .. n
    BY <1>1
  <2>2. Moved(head, o[i - 1]) \in Position
    <3>1. o[i - 1] \in 0 .. BlockSize
      BY <1>1, <1>2, <2>1
    <3> QED
      BY <1>1, <3>1, MovedCell, 0 \in Nat
  <2>3. q[i] \in Message /\ Holds(Moved(head, o[i - 1]), q[i])
    BY <1>1 DEF InPlace, n
  <2> QED
    BY <1>3, <2>1, <2>2, <2>3, RecordIs
<1>10. q = [i \in 1 .. n |-> q[i]]
  BY <1>1 DEF n
<1> QED
  BY <1>8, <1>9, <1>10

(* The ring implements the queue: Publish sends a message, Consume takes the *)
(* oldest, Handle delivers it, a crash of the reader between these two loses *)
(* it, and every other step of the two processes, their crashes at any other *)
(* place too, changes nothing that the queue shows.                          *)
THEOREM RingImplementsQueue == Spec => ImplementsQueue
<1>1. Init => Queue!QueueInit
  <2> SUFFICES ASSUME Init PROVE Queue!QueueInit
    OBVIOUS
  <2>1. PICK o : TypeOK /\ Explains(<<>>, o)
    BY InitExplained
  <2>2. Contents = <<>>
    BY <2>1, ContentsFacts DEF ContentsAre, Explains
  <2> QED
    BY <2>2 DEF Queue!QueueInit, Init, InHand
<1>2. ContentsAre'
  BY ContentsFacts, PTL
<1>3. IInv /\ [Next]_vars => [Queue!QueueNext]_Queue!queueVars
  <2> SUFFICES ASSUME IInv, [Next]_vars
               PROVE  [Queue!QueueNext]_Queue!queueVars
    OBVIOUS
  <2>1. PICK q, o : TypeOK /\ Explains(q, o)
    BY DEF IInv
  <2>2. Explained(q)
    BY <2>1, StepExplained
  <2>3. PICK r, o2 : Explains(r, o2)' /\ Outcome(q, r)
    BY <2>2 DEF Explained
  <2>4. Contents = q
    BY <2>1, ContentsFacts DEF ContentsAre, Explains
  <2>5. Contents' = r
    BY <1>2, <2>2, <2>3 DEF ContentsAre, Explained, Explains
  <2>6. CASE Same(q, r)
    BY <2>4, <2>5, <2>6 DEF Same, Queue!queueVars
  <2>7. CASE Sent(q, r)
    BY <2>4, <2>5, <2>7 DEF Sent, Queue!QueueNext, Queue!Send
  <2>8. CASE Took(q, r)
    BY <2>4, <2>5, <2>8 DEF Took, Queue!QueueNext, Queue!Take
  <2>9. CASE Handled(q, r)
    BY <2>4, <2>5, <2>9 DEF Handled, Queue!QueueNext, Queue!Deliver
  <2>10. CASE Lost(q, r)
    BY <2>4, <2>5, <2>10 DEF Lost, Queue!QueueNext, Queue!Lose
  <2> QED
    BY <2>3, <2>6, <2>7, <2>8, <2>9, <2>10 DEF Outcome
<1> QED
  BY <1>1, <1>3, Invariance, PTL DEF Spec, ImplementsQueue, Queue!QueueSpec
=============================================================================
