------------------------ MODULE ChannelServiceProofs ------------------------
(* Proofs about the pool of channels, VoiceChannelAlloc, and about the       *)
(* channel manager on top of it, for a pool and a hash of any size.          *)
(*                                                                           *)
(* The inductive invariant of the pool is TypeOK /\ ListsLinked.  A sequence *)
(* s that lists the members of a linked list in order is carried through     *)
(* each operation: appending a node appends to s, and unlinking the j-th     *)
(* node closes the gap in s.  The same sequence is what the program's walks  *)
(* return (WalkIsThread), so the refinement of the FIFO pool follows from    *)
(* the same lemmas.                                                          *)
(*                                                                           *)
(* The invariant of the service joins that of the pool with that of the hash *)
(* (HInv, as in DataChannelMgrProofs): OneToOne makes what is released a     *)
(* channel that is held, which is all that the pool asks of its callers;     *)
(* Placed and Unique make the lookup by key lead back to the entry that the  *)
(* sweep has seen.  Between sweeps the refinement mapping changes nothing,   *)
(* the first step of a sweep is the abstract one, and each release takes an  *)
(* entry that is gone already.                                               *)
EXTENDS ChannelService, NaturalTheorems, FiniteSetTheorems, SequenceTheorems

(* The links of a list of nodes, as two functions. *)
Links == [Node -> Link]

(* s without its j-th element, when s has k elements *)
Drop(s, k, j) == [i \in 1 .. k - 1 |-> IF i < j THEN s[i] ELSE s[i + 1]]

(* s with c behind its k elements *)
Push(s, k, c) == [i \in 1 .. k + 1 |-> IF i <= k THEN s[i] ELSE c]

(* s lists the members of S as a doubly linked list from h to t. *)
IsList(s, S, h, t, p, n) ==
  s \in Orders(S) /\ Threads(s, Cardinality(S), h, t, p, n)

(* p2 and n2 are p and n with c linked behind t, the tail of S. *)
Appended(S, c, t, p, n, p2, n2) ==
  /\ p2[c] = t /\ n2[c] = INVALID /\ (t # INVALID => n2[t] = c)
  /\ \A x \in S : p2[x] = p[x]
  /\ \A x \in S \ {t} : n2[x] = n[x]

(* p2 and n2 are p and n with the neighbours of c in S linked to each other. *)
Unlinked(S, c, p, n, p2, n2) ==
  /\ \A x \in S \ {c} : p2[x] = IF x = n[c] THEN p[c] ELSE p[x]
  /\ \A x \in S \ {c} : n2[x] = IF x = p[c] THEN n[c] ELSE n[x]

(* Where the links of x, a node of the list S from h to t, lead. *)
LinkedIn(x, S, h, t, p, n) ==
  /\ p[x] \in (S \ {x}) \cup {INVALID}
  /\ n[x] \in (S \ {x}) \cup {INVALID}
  /\ p[x] = INVALID <=> x = h
  /\ n[x] = INVALID <=> x = t
  /\ p[x] # INVALID => n[p[x]] = x
  /\ n[x] # INVALID => p[n[x]] = x

(* Where the list S begins and ends. *)
EndsIn(S, h, t) == /\ h \in S \cup {INVALID} /\ (h = INVALID <=> S = {})
                   /\ t \in S \cup {INVALID} /\ (t = INVALID <=> S = {})

-----------------------------------------------------------------------------
(* The mark of a missing link is not the number of a channel. *)
LEMMA InvalidIsNoNode == INVALID \notin Node
BY NodeNumAssumption DEF Node, INVALID, INVALID_VOICECHANNEL_ID

(* Every set of nodes is finite, and its size a natural number. *)
LEMMA NodesFinite ==
  ASSUME NEW S \in SUBSET Node
  PROVE  /\ IsFiniteSet(S) /\ Cardinality(S) \in Nat
         /\ Cardinality(S) = 0 <=> S = {}
<1>1. IsFiniteSet(Node)
  BY FS_Interval, NodeNumAssumption DEF Node
<1> QED
  BY <1>1, FS_Subset, FS_CardinalityType, FS_EmptySet

(* What it means to list the members of S. *)
LEMMA OrderFacts ==
  ASSUME NEW S \in SUBSET Node, NEW s
  PROVE  s \in Orders(S) <=>
           /\ s \in [1 .. Cardinality(S) -> S]
           /\ \A i, j \in 1 .. Cardinality(S) : s[i] = s[j] => i = j
           /\ \A x \in S : \E i \in 1 .. Cardinality(S) : s[i] = x
BY DEF Orders, Bijection, Injection, Surjection, IsInjective

(* Linking c behind the tail of a list.                                      *)
LEMMA AppendThread ==
  ASSUME NEW S \in SUBSET Node, NEW c \in Node \ S,
         NEW h, NEW t, NEW p, NEW n, NEW p2, NEW n2, NEW s,
         IsList(s, S, h, t, p, n), Appended(S, c, t, p, n, p2, n2)
  PROVE  IsList(Push(s, Cardinality(S), c), S \cup {c},
                IF h = INVALID THEN c ELSE h, c, p2, n2)
<1> DEFINE k == Cardinality(S)
           r == Push(s, k, c)
<1>0. s \in Orders(S) /\ Threads(s, k, h, t, p, n)
  BY DEF IsList
<1>1. k \in Nat /\ Cardinality(S \cup {c}) = k + 1
  BY NodesFinite, FS_AddElement
<1>2. /\ s \in [1 .. k -> S]
      /\ \A i, j \in 1 .. k : s[i] = s[j] => i = j
      /\ \A x \in S : \E i \in 1 .. k : s[i] = x
  BY <1>0, OrderFacts
<1>3. /\ r \in [1 .. k + 1 -> S \cup {c}] /\ r[k + 1] = c
      /\ \A i \in 1 .. k : r[i] = s[i]
  BY <1>1, <1>2 DEF Push
<1>4. r \in Orders(S \cup {c})
  <2>1. \A i, j \in 1 .. k + 1 : r[i] = r[j] => i = j
    <3> SUFFICES ASSUME NEW i \in 1 .. k + 1, NEW j \in 1 .. k + 1, r[i] = r[j]
                 PROVE  i = j
      OBVIOUS
    <3>1. CASE i \in 1 .. k /\ j \in 1 .. k
      BY <3>1, <1>1, <1>2, <1>3
    <3>2. CASE i = k + 1 \/ j = k + 1
      BY <3>2, <1>1, <1>2, <1>3
    <3> QED
      BY <3>1, <3>2, <1>1
  <2>2. \A x \in S \cup {c} : \E i \in 1 .. k + 1 : r[i] = x
    BY <1>1, <1>2, <1>3
  <2> HIDE DEF r
  <2> QED
    BY <1>1, <1>3, <2>1, <2>2, OrderFacts
<1>5. Threads(r, k + 1, IF h = INVALID THEN c ELSE h, c, p2, n2)
  <2>0. /\ p2[c] = t /\ n2[c] = INVALID /\ (t # INVALID => n2[t] = c)
        /\ \A x \in S : p2[x] = p[x]
        /\ \A x \in S \ {t} : n2[x] = n[x]
    BY DEF Appended
  <2>1. /\ h = IF k = 0 THEN INVALID ELSE s[1]
        /\ t = IF k = 0 THEN INVALID ELSE s[k]
        /\ \A i \in 1 .. k : /\ p[s[i]] = IF i = 1 THEN INVALID ELSE s[i - 1]
                             /\ n[s[i]] = IF i = k THEN INVALID ELSE s[i + 1]
    BY <1>0 DEF Threads
  <2>2. (IF h = INVALID THEN c ELSE h) = r[1]
    BY <2>1, <1>1, <1>2, <1>3, InvalidIsNoNode
  <2>3. ASSUME NEW i \in 1 .. k
        PROVE  /\ p2[r[i]] = IF i = 1 THEN INVALID ELSE r[i - 1]
               /\ n2[r[i]] = r[i + 1]
    <3>1. p2[r[i]] = IF i = 1 THEN INVALID ELSE r[i - 1]
      BY <2>0, <2>1, <1>1, <1>2, <1>3
    <3>2. CASE i = k
      BY <3>2, <3>1, <2>0, <2>1, <1>1, <1>2, <1>3, InvalidIsNoNode
    <3>3. CASE i # k
      <4>1. s[i] # t
        BY <3>3, <2>1, <1>1, <1>2
      <4> QED
        BY <4>1, <3>1, <3>3, <2>0, <2>1, <1>1, <1>2, <1>3
    <3> QED
      BY <3>2, <3>3
  <2>4. p2[r[k + 1]] = IF k + 1 = 1 THEN INVALID ELSE r[k]
    BY <2>0, <2>1, <1>1, <1>3
  <2> HIDE DEF r, k
  <2>5. ASSUME NEW i \in 1 .. k + 1
        PROVE  /\ p2[r[i]] = IF i = 1 THEN INVALID ELSE r[i - 1]
               /\ n2[r[i]] = IF i = k + 1 THEN INVALID ELSE r[i + 1]
    <3>1. CASE i \in 1 .. k
      BY <3>1, <2>3, <1>1
    <3>2. CASE i = k + 1
      BY <3>2, <2>0, <2>4, <1>1, <1>3
    <3> QED
      BY <3>1, <3>2, <1>1
  <2>6. k + 1 # 0 /\ c = r[k + 1]
    BY <1>1, <1>3
  <2> QED
    BY <2>2, <2>5, <2>6 DEF Threads
<1> QED
  BY <1>1, <1>4, <1>5 DEF IsList

(* Unlinking a node: its neighbours are linked to each other, and the head   *)
(* or the tail moves on when it was the one unlinked.                        *)
LEMMA UnlinkThread ==
  ASSUME NEW S \in SUBSET Node, NEW c \in S,
         NEW h, NEW t, NEW p, NEW n, NEW p2, NEW n2, NEW s,
         NEW j \in 1 .. Cardinality(S), s[j] = c,
         IsList(s, S, h, t, p, n), Unlinked(S, c, p, n, p2, n2),
         NEW h2, h2 = IF c = h THEN n[c] ELSE h,
         NEW t2, t2 = IF c = t THEN p[c] ELSE t
  PROVE  IsList(Drop(s, Cardinality(S), j), S \ {c}, h2, t2, p2, n2)
<1> DEFINE k == Cardinality(S)
           r == Drop(s, k, j)
<1>0. s \in Orders(S) /\ Threads(s, k, h, t, p, n)
  BY DEF IsList
<1>1. k \in Nat \ {0} /\ Cardinality(S \ {c}) = k - 1
  BY NodesFinite, FS_RemoveElement
<1>2. /\ s \in [1 .. k -> S]
      /\ \A i, l \in 1 .. k : s[i] = s[l] => i = l
      /\ \A x \in S : \E i \in 1 .. k : s[i] = x
  BY <1>0, OrderFacts
<1>3. /\ \A i \in 1 .. k : s[i] # INVALID
      /\ h = s[1] /\ t = s[k]
      /\ \A i \in 1 .. k : /\ p[s[i]] = IF i = 1 THEN INVALID ELSE s[i - 1]
                           /\ n[s[i]] = IF i = k THEN INVALID ELSE s[i + 1]
  BY <1>0, <1>1, <1>2, InvalidIsNoNode DEF Threads
<1>4. /\ \A i \in 1 .. k - 1 : r[i] = IF i < j THEN s[i] ELSE s[i + 1]
      /\ r \in [1 .. k - 1 -> S \ {c}]
  BY <1>1, <1>2 DEF Drop
<1>5. r \in Orders(S \ {c})
  <2>1. \A i, l \in 1 .. k - 1 : r[i] = r[l] => i = l
    BY <1>1, <1>2, <1>4
  <2>2. ASSUME NEW x \in S \ {c} PROVE \E i \in 1 .. k - 1 : r[i] = x
    <3>1. PICK i \in 1 .. k : s[i] = x
      BY <1>2
    <3>2. CASE i < j
      BY <3>1, <3>2, <1>1, <1>4
    <3>3. CASE i > j
      <4>1. i - 1 \in 1 .. k - 1 /\ r[i - 1] = x
        BY <3>1, <3>3, <1>1, <1>4
      <4> QED
        BY <4>1
    <3> QED
      BY <3>1, <3>2, <3>3
  <2> HIDE DEF r
  <2> QED
    BY <1>1, <1>4, <2>1, <2>2, OrderFacts
<1>u. /\ \A x \in S \ {c} : p2[x] = IF x = n[c] THEN p[c] ELSE p[x]
      /\ \A x \in S \ {c} : n2[x] = IF x = p[c] THEN n[c] ELSE n[x]
  BY DEF Unlinked
<1>6. ASSUME NEW i \in 1 .. k - 1
      PROVE  /\ p2[r[i]] = IF i = 1 THEN INVALID ELSE r[i - 1]
             /\ n2[r[i]] = IF i = k - 1 THEN INVALID ELSE r[i + 1]
  <2>1. CASE i < j
    <3>1. r[i] = s[i] /\ s[i] \in S \ {c} /\ s[i] # n[c]
      BY <2>1, <1>1, <1>2, <1>3, <1>u, <1>4, SMTT(30)
    <3>2. i # 1 => r[i - 1] = s[i - 1]
      BY <2>1, <1>1, <1>4
    <3>3. p2[r[i]] = IF i = 1 THEN INVALID ELSE r[i - 1]
      BY <3>1, <3>2, <1>1, <1>3, <1>u
    <3>4. CASE i = j - 1
      <4>1. s[i] = p[c] /\ n2[r[i]] = n[c]
        BY <3>1, <3>4, <1>1, <1>3, <1>u
      <4> QED
        BY <4>1, <3>3, <3>4, <1>1, <1>3, <1>u, <1>4
    <3>5. CASE i # j - 1
      <4>1. s[i] # p[c]
        BY <2>1, <3>5, <1>1, <1>2, <1>3, <1>u
      <4>2. n2[r[i]] = s[i + 1] /\ r[i + 1] = s[i + 1]
        BY <2>1, <4>1, <3>1, <3>5, <1>1, <1>3, <1>u, <1>4
      <4> QED
        BY <4>2, <3>3, <2>1, <3>5, <1>1
    <3> QED
      BY <3>4, <3>5
  <2>2. CASE i >= j
    <3>1. r[i] = s[i + 1] /\ s[i + 1] \in S \ {c} /\ i + 1 \in 1 .. k
      BY <2>2, <1>1, <1>2, <1>4
    <3>2. s[i + 1] # p[c]
      BY <2>2, <3>1, <1>1, <1>2, <1>3, <1>u
    <3>6. n2[r[i]] = n[s[i + 1]]
      BY <3>1, <3>2, <1>u
    <3>7. ASSUME i # k - 1 PROVE r[i + 1] = s[i + 1 + 1]
      <4>1. i + 1 \in 1 .. k - 1 /\ ~ (i + 1 < j)
        BY <2>2, <3>7, <1>1
      <4> QED
        BY <4>1, <1>4
    <3>3. n2[r[i]] = IF i = k - 1 THEN INVALID ELSE r[i + 1]
      BY <3>1, <3>6, <3>7, <1>1, <1>3, <1>u
    <3>4. CASE i = j
      <4>1. s[i + 1] = n[c] /\ p2[r[i]] = p[c]
        BY <3>1, <3>4, <1>1, <1>3, <1>u
      <4> QED
        BY <4>1, <3>3, <3>4, <1>1, <1>3, <1>u, <1>4
    <3>5. CASE i # j
      <4>1. s[i + 1] # n[c]
        BY <2>2, <3>5, <3>1, <1>1, <1>2, <1>3, <1>u
      <4>2. p2[r[i]] = s[i] /\ r[i - 1] = s[i]
        BY <2>2, <3>5, <4>1, <3>1, <1>1, <1>3, <1>u, <1>4
      <4> QED
        BY <4>2, <3>3, <2>2, <3>5, <1>1
    <3> QED
      BY <3>4, <3>5
  <2> QED
    BY <2>1, <2>2
<1>7. h2 = IF k - 1 = 0 THEN INVALID ELSE r[1]
  <2>1. c = h <=> j = 1
    BY <1>1, <1>2, <1>3
  <2>2. k - 1 # 0 => r[1] = IF 1 < j THEN s[1] ELSE s[1 + 1]
    BY <1>1, <1>4
  <2> QED
    BY <2>1, <2>2, <1>1, <1>3
<1>8. t2 = IF k - 1 = 0 THEN INVALID ELSE r[k - 1]
  <2>1. c = t <=> j = k
    BY <1>1, <1>2, <1>3
  <2>2. ASSUME k - 1 # 0 PROVE r[k - 1] = IF k - 1 < j THEN s[k - 1] ELSE s[k]
    <3>1. k - 1 \in 1 .. k - 1 /\ (k - 1) + 1 = k
      BY <2>2, <1>1
    <3> QED
      BY <3>1, <1>4
  <2>3. CASE j = k
    BY <2>1, <2>2, <2>3, <1>1, <1>3
  <2>4. CASE j # k
    BY <2>1, <2>2, <2>4, <1>1, <1>3
  <2> QED
    BY <2>3, <2>4
<1> HIDE DEF r
<1> QED
  <2>1. Threads(r, k - 1, h2, t2, p2, n2)
    BY <1>6, <1>7, <1>8 DEF Threads
  <2> QED
    BY <2>1, <1>1, <1>5 DEF r, IsList

(* Whatever happens elsewhere, a list whose own links do not change stays.   *)
LEMMA FrameThread ==
  ASSUME NEW S \in SUBSET Node, NEW h, NEW t, NEW p, NEW n, NEW p2, NEW n2,
         NEW s, IsList(s, S, h, t, p, n),
         \A x \in S : p2[x] = p[x] /\ n2[x] = n[x]
  PROVE  IsList(s, S, h, t, p2, n2)
<1>1. s \in [1 .. Cardinality(S) -> S]
  BY OrderFacts DEF IsList
<1> QED
  BY <1>1 DEF IsList, Threads

(* Where a list begins and ends, and where the links of its nodes lead.      *)
LEMMA ListFacts ==
  ASSUME NEW S \in SUBSET Node, NEW h, NEW t, NEW p, NEW n,
         NEW s, IsList(s, S, h, t, p, n)
  PROVE  /\ EndsIn(S, h, t)
         /\ \A x \in S : LinkedIn(x, S, h, t, p, n)
<1> DEFINE k == Cardinality(S)
<1>1. k \in Nat /\ (k = 0 <=> S = {})
  BY NodesFinite
<1>2. /\ s \in [1 .. k -> S]
      /\ \A i, l \in 1 .. k : s[i] = s[l] => i = l
      /\ \A x \in S : \E i \in 1 .. k : s[i] = x
  BY OrderFacts DEF IsList
<1>3. /\ h = IF k = 0 THEN INVALID ELSE s[1]
      /\ t = IF k = 0 THEN INVALID ELSE s[k]
      /\ \A i \in 1 .. k : /\ p[s[i]] = IF i = 1 THEN INVALID ELSE s[i - 1]
                           /\ n[s[i]] = IF i = k THEN INVALID ELSE s[i + 1]
  BY DEF IsList, Threads
<1>4. \A i \in 1 .. k : s[i] \in S /\ s[i] # INVALID
  BY <1>2, InvalidIsNoNode
<1> HIDE DEF k
<1>5. EndsIn(S, h, t)
  BY <1>1, <1>3, <1>4 DEF EndsIn
<1>6. ASSUME NEW x \in S
      PROVE  LinkedIn(x, S, h, t, p, n)
  <2>1. PICK i \in 1 .. k : s[i] = x
    BY <1>2
  <2>2. p[x] = INVALID <=> i = 1
    BY <2>1, <1>1, <1>3, <1>4
  <2>3. n[x] = INVALID <=> i = k
    BY <2>1, <1>1, <1>3, <1>4
  <2>4. (x = h <=> i = 1) /\ (x = t <=> i = k)
    BY <2>1, <1>1, <1>2, <1>3
  <2>5. i # 1 => p[x] = s[i - 1] /\ s[i - 1] \in S \ {x} /\ n[s[i - 1]] = x
    <3>1. i # 1 => i - 1 \in 1 .. k /\ i - 1 # i /\ i - 1 # k /\ (i - 1) + 1 = i
      BY <1>1
    <3> QED
      BY <3>1, <2>1, <1>2, <1>3
  <2>6. i # k => n[x] = s[i + 1] /\ s[i + 1] \in S \ {x} /\ p[s[i + 1]] = x
    <3>1. i # k => i + 1 \in 1 .. k /\ i + 1 # i /\ i + 1 # 1 /\ (i + 1) - 1 = i
      BY <1>1
    <3> QED
      BY <3>1, <2>1, <1>2, <1>3
  <2> QED
    BY <2>2, <2>3, <2>4, <2>5, <2>6 DEF LinkedIn
<1> QED
  BY <1>5, <1>6
-----------------------------------------------------------------------------
(* u lists the used nodes and f the free ones, in the order of their lists.  *)
Lists(u, f) ==
  /\ IsList(u, held, usedHead, usedTail, prev, next)
  /\ IsList(f, Node \ held, freeHead, freeTail, prev, next)

IInv == TypeOK /\ ListsLinked

(* The linked lists of the invariant, with the two orders named. *)
LEMMA InvLists == ListsLinked <=> \E u, f : Lists(u, f)
BY DEF ListsLinked, ListOf, Lists, IsList

(* The initialisation loop leaves every node on the free list, in order.     *)
LEMMA InitLists ==
  Init => TypeOK /\ Lists(<<>>, [i \in 1 .. NodeNum |-> i - 1])
<1> SUFFICES ASSUME Init PROVE TypeOK /\ Lists(<<>>, [i \in 1 .. NodeNum |-> i - 1])
  OBVIOUS
<1> DEFINE f == [i \in 1 .. NodeNum |-> i - 1]
<1>1. TypeOK
  BY NodeNumAssumption DEF Init, Built, TypeOK, Link, Node
<1>2. held = {} /\ Node \ held = Node /\ Node \in SUBSET Node
  BY DEF Init, Built
<1>3. Cardinality(Node) = NodeNum /\ Cardinality({}) = 0
  BY FS_Interval, FS_EmptySet, NodeNumAssumption DEF Node
<1>4. f \in Orders(Node)
  <2>1. f \in [1 .. NodeNum -> Node]
    BY NodeNumAssumption DEF Node
  <2>2. \A i, j \in 1 .. NodeNum : f[i] = f[j] => i = j
    BY NodeNumAssumption
  <2>3. ASSUME NEW x \in Node PROVE \E i \in 1 .. NodeNum : f[i] = x
    <3>1. x + 1 \in 1 .. NodeNum /\ f[x + 1] = x
      BY NodeNumAssumption DEF Node
    <3> QED
      BY <3>1
  <2> HIDE DEF f
  <2> QED
    BY <1>2, <1>3, <2>1, <2>2, <2>3, OrderFacts, ZenonT(60)
<1>5. Threads(f, NodeNum, freeHead, freeTail, prev, next)
  BY NodeNumAssumption DEF Init, Built, Threads, Node
<1>6. <<>> \in Orders({})
  <2>1. \A g : g \in Orders({}) <=>
          /\ g \in [1 .. 0 -> {}]
          /\ \A i, j \in 1 .. 0 : g[i] = g[j] => i = j
          /\ \A x \in {} : \E i \in 1 .. 0 : g[i] = x
    BY <1>3, OrderFacts
  <2>2. <<>> \in [1 .. 0 -> {}]
    OBVIOUS
  <2>3. \A i \in 1 .. 0 : FALSE
    OBVIOUS
  <2> QED
    BY <2>1, <2>2, <2>3
<1>7. Threads(<<>>, 0, usedHead, usedTail, prev, next)
  BY DEF Init, Built, Threads
<1> HIDE DEF f
<1>8. Lists(<<>>, f)
  BY <1>2, <1>3, <1>4, <1>5, <1>6, <1>7 DEF Lists, IsList
<1> QED
  BY <1>1, <1>8 DEF f

(* allocate_voice_channel moves the first free node to the end of the used   *)
(* list.                                                                     *)
LEMMA AllocateLists ==
  ASSUME TypeOK, NEW u, NEW f, Lists(u, f), Allocate,
         NEW u2, u2 = Push(u, Cardinality(held), freeHead),
         NEW f2, f2 = Drop(f, Cardinality(Node \ held), 1)
  PROVE  TypeOK' /\ freeHead \in Node \ held /\ Lists(u2, f2)'
<1> DEFINE c == freeHead
           h == next[c]
           F == Node \ held
<1>0. held \in SUBSET Node /\ F \in SUBSET Node
  BY DEF TypeOK
<1>u. /\ IsList(u, held, usedHead, usedTail, prev, next)
      /\ IsList(f, F, freeHead, freeTail, prev, next)
  BY DEF Lists
<1>1. /\ c \in F
      /\ h \in (F \ {c}) \cup {INVALID}
      /\ h = INVALID <=> c = freeTail
      /\ h # INVALID => prev[h] = c
      /\ prev[c] = INVALID
  <2>1. c # INVALID
    BY DEF Allocate
  <2> HIDE DEF F
  <2>2. EndsIn(F, freeHead, freeTail) /\ c \in F
    BY <1>0, <1>u, <2>1, ListFacts DEF EndsIn
  <2>3. LinkedIn(c, F, c, freeTail, prev, next)
    BY <1>0, <1>u, <2>2, ListFacts
  <2> QED
    BY <2>2, <2>3, ZenonT(60) DEF LinkedIn
<1>2. usedTail \in held \cup {INVALID} /\ usedHead \in held \cup {INVALID}
  BY <1>0, <1>u, ListFacts DEF EndsIn, LinkedIn
<1>3. TypeOK'
  BY <1>1, <1>2, InvalidIsNoNode, ZenonT(60) DEF TypeOK, Allocate, Store, Link
<1>4. /\ prev' = [x \in Node |-> IF x = c THEN usedTail
                                 ELSE IF x = h THEN INVALID ELSE prev[x]]
      /\ next' = [x \in Node |-> IF x = c THEN INVALID
                                 ELSE IF x = usedTail THEN c ELSE next[x]]
  BY <1>1, <1>2, InvalidIsNoNode DEF TypeOK, Allocate, Store
<1>5. /\ held' = held \cup {c} /\ (Node \ held)' = F \ {c}
      /\ usedTail' = c /\ usedHead' = (IF usedHead = INVALID THEN c ELSE usedHead)
      /\ freeHead' = h /\ freeTail' = (IF c = freeTail THEN prev[c] ELSE freeTail)
  BY <1>1 DEF Allocate
<1>6. IsList(u2, held \cup {c}, IF usedHead = INVALID THEN c ELSE usedHead, c,
             prev', next')
  <2>1. Appended(held, c, usedTail, prev, next, prev', next')
    BY <1>0, <1>1, <1>2, <1>4, InvalidIsNoNode DEF Appended
  <2> QED
    BY <1>0, <1>1, <1>u, <2>1, AppendThread
<1>7. IsList(f2, F \ {c}, freeHead', freeTail', prev', next')
  <2>1. Unlinked(F, c, prev, next, prev', next')
    BY <1>1, <1>2, <1>4, InvalidIsNoNode DEF Unlinked
  <2>2. 1 \in 1 .. Cardinality(F) /\ f[1] = c
    BY <1>0, <1>1, <1>u, NodesFinite, InvalidIsNoNode DEF IsList, Threads
  <2>3. freeHead' = IF c = freeHead THEN next[c] ELSE freeHead
    BY <1>5
  <2>4. c \in F /\ freeTail' = IF c = freeTail THEN prev[c] ELSE freeTail
    BY <1>1, <1>5
  <2>5. F \in SUBSET Node /\ IsList(f, F, c, freeTail, prev, next)
    BY <1>0, <1>u
  <2>6. IsList(Drop(f, Cardinality(F), 1), F \ {c}, freeHead', freeTail', prev', next')
    <3> HIDE DEF F, c, h
    <3>1. freeHead' = IF c = c THEN next[c] ELSE c
      BY <2>3 DEF c
    <3> QED
      BY ONLY <2>1, <2>2, <2>4, <2>5, <3>1, UnlinkThread
  <2> QED
    BY <2>6
<1> HIDE DEF h, F
<1>8. Lists(u2, f2)'
  BY <1>5, <1>6, <1>7, Zenon DEF Lists
<1> QED
  BY <1>1, <1>3, <1>8 DEF F

(* All three branches of release_voice_channel unlink the node from the used *)
(* list and leave the links of the free list alone.                          *)
LEMMA ReleaseUnlinks ==
  ASSUME TypeOK, NEW u, NEW f, Lists(u, f), NEW c \in held, Release(c)
  PROVE  \E pm, nm \in Links :
           /\ AppendFree(c, pm, nm)
           /\ Unlinked(held, c, prev, next, pm, nm)
           /\ \A x \in Node \ held : pm[x] = prev[x] /\ nm[x] = next[x]
           /\ usedHead' = IF c = usedHead THEN next[c] ELSE usedHead
           /\ usedTail' = IF c = usedTail THEN prev[c] ELSE usedTail
<1>0. held \in SUBSET Node /\ prev \in Links /\ next \in Links
  BY DEF TypeOK, Links
<1>1. /\ prev[c] \in (held \ {c}) \cup {INVALID}
      /\ next[c] \in (held \ {c}) \cup {INVALID}
      /\ prev[c] = INVALID <=> c = usedHead
      /\ next[c] = INVALID <=> c = usedTail
  <2>1. IsList(u, held, usedHead, usedTail, prev, next)
    BY DEF Lists
  <2>2. LinkedIn(c, held, usedHead, usedTail, prev, next)
    BY <1>0, <2>1, ListFacts
  <2> QED
    BY <2>2 DEF LinkedIn
<1>2. CASE ReleaseHead(c)
  <2> DEFINE pm == Store(prev, next[c], INVALID)
  <2>1. pm = [x \in Node |-> IF x = next[c] THEN INVALID ELSE prev[x]]
    BY <1>0, <1>1, InvalidIsNoNode DEF Store, Links
  <2>2. pm \in Links
    BY <2>1, <1>0 DEF Links, Link
  <2>3. Unlinked(held, c, prev, next, pm, next)
    BY <2>1, <1>0, <1>1, <1>2, InvalidIsNoNode DEF Unlinked, ReleaseHead
  <2>4. \A x \in Node \ held : pm[x] = prev[x] /\ next[x] = next[x]
    BY <2>1, <1>1, InvalidIsNoNode
  <2>5. AppendFree(c, pm, next)
    BY <1>2 DEF ReleaseHead
  <2>6. /\ usedHead' = IF c = usedHead THEN next[c] ELSE usedHead
        /\ usedTail' = IF c = usedTail THEN prev[c] ELSE usedTail
    BY <1>1, <1>2 DEF ReleaseHead
  <2> QED
    BY <1>0, <2>2, <2>3, <2>4, <2>5, <2>6
<1>3. CASE ReleaseTail(c)
  <2> DEFINE nm == [next EXCEPT ![prev[c]] = INVALID]
  <2>0. prev[c] \in held \ {c} /\ next[c] = INVALID
    BY <1>1, <1>3 DEF ReleaseTail
  <2>1. nm = [x \in Node |-> IF x = prev[c] THEN INVALID ELSE next[x]]
    BY <1>0, <2>0 DEF Links
  <2>2. nm \in Links
    BY <2>1, <1>0 DEF Links, Link
  <2>3. Unlinked(held, c, prev, next, prev, nm)
    BY <2>0, <2>1, <1>0, InvalidIsNoNode DEF Unlinked
  <2>4. \A x \in Node \ held : prev[x] = prev[x] /\ nm[x] = next[x]
    BY <2>0, <2>1
  <2>5. AppendFree(c, prev, nm)
    BY <1>3 DEF ReleaseTail
  <2>6. /\ usedHead' = IF c = usedHead THEN next[c] ELSE usedHead
        /\ usedTail' = IF c = usedTail THEN prev[c] ELSE usedTail
    BY <1>3 DEF ReleaseTail
  <2> QED
    BY <1>0, <2>2, <2>3, <2>4, <2>5, <2>6
<1>4. CASE ReleaseMiddle(c)
  <2> DEFINE pm == [prev EXCEPT ![next[c]] = prev[c]]
             nm == [next EXCEPT ![prev[c]] = next[c]]
  <2>0. prev[c] \in held \ {c} /\ next[c] \in held \ {c}
    BY <1>1, <1>4 DEF ReleaseMiddle
  <2>1. /\ pm = [x \in Node |-> IF x = next[c] THEN prev[c] ELSE prev[x]]
        /\ nm = [x \in Node |-> IF x = prev[c] THEN next[c] ELSE next[x]]
    BY <1>0, <2>0 DEF Links
  <2>2. pm \in Links /\ nm \in Links
    BY <2>0, <2>1, <1>0 DEF Links, Link
  <2>3. Unlinked(held, c, prev, next, pm, nm)
    BY <2>0, <2>1, <1>0 DEF Unlinked
  <2>4. \A x \in Node \ held : pm[x] = prev[x] /\ nm[x] = next[x]
    BY <2>0, <2>1
  <2>5. AppendFree(c, pm, nm)
    BY <1>4 DEF ReleaseMiddle
  <2>6. /\ usedHead' = IF c = usedHead THEN next[c] ELSE usedHead
        /\ usedTail' = IF c = usedTail THEN prev[c] ELSE usedTail
    BY <1>4 DEF ReleaseMiddle
  <2> HIDE DEF pm, nm
  <2> QED
    BY <2>2, <2>3, <2>4, <2>5, <2>6
<1> QED
  BY <1>2, <1>3, <1>4 DEF Release

(* release_voice_channel takes a node out of the used list, wherever it      *)
(* stands there, and puts it at the end of the free list.                    *)
LEMMA ReleaseLists ==
  ASSUME TypeOK, NEW u, NEW f, Lists(u, f), NEW c \in held, Release(c),
         NEW f2, f2 = Push(f, Cardinality(Node \ held), c)
  PROVE  TypeOK' /\ \E u2 : Lists(u2, f2)'
<1> DEFINE F == Node \ held
<1>0. held \in SUBSET Node /\ F \in SUBSET Node /\ c \in Node /\ c \notin F
  BY DEF TypeOK
<1>u. /\ IsList(u, held, usedHead, usedTail, prev, next)
      /\ IsList(f, F, freeHead, freeTail, prev, next)
  BY DEF Lists
<1>1. PICK pm \in Links, nm \in Links :
           /\ AppendFree(c, pm, nm)
           /\ Unlinked(held, c, prev, next, pm, nm)
           /\ \A x \in F : pm[x] = prev[x] /\ nm[x] = next[x]
           /\ usedHead' = IF c = usedHead THEN next[c] ELSE usedHead
           /\ usedTail' = IF c = usedTail THEN prev[c] ELSE usedTail
  BY ReleaseUnlinks
<1>2. /\ freeTail \in F \cup {INVALID}
      /\ prev[c] \in (held \ {c}) \cup {INVALID}
      /\ next[c] \in (held \ {c}) \cup {INVALID}
  <2>1. freeTail \in F \cup {INVALID}
    BY <1>0, <1>u, ListFacts DEF EndsIn, LinkedIn
  <2>2. LinkedIn(c, held, usedHead, usedTail, prev, next)
    BY <1>0, <1>u, ListFacts
  <2> QED
    BY <2>1, <2>2 DEF LinkedIn
<1>3. /\ prev' = [x \in Node |-> IF x = c THEN freeTail ELSE pm[x]]
      /\ next' = [x \in Node |-> IF x = c THEN INVALID
                                 ELSE IF x = freeTail THEN c ELSE nm[x]]
      /\ freeTail' = c /\ freeHead' = IF freeHead = INVALID THEN c ELSE freeHead
      /\ held' = held \ {c}
  BY <1>0, <1>1, <1>2, InvalidIsNoNode DEF AppendFree, Store, Links, Release
<1>4. TypeOK'
  BY <1>0, <1>1, <1>2, <1>3 DEF TypeOK, Links, Link
<1>5. PICK j \in 1 .. Cardinality(held) : u[j] = c
  BY <1>0, <1>u, OrderFacts DEF IsList
<1>d. PICK u2 : u2 = Drop(u, Cardinality(held), j)
  OBVIOUS
<1>6. IsList(u2, held \ {c}, usedHead', usedTail', prev', next')
  <2>1. IsList(u2, held \ {c}, usedHead', usedTail', pm, nm)
    <3>1. Unlinked(held, c, prev, next, pm, nm) /\ held \in SUBSET Node
      BY <1>0, <1>1
    <3>2. IsList(u, held, usedHead, usedTail, prev, next)
      BY <1>u
    <3>3. /\ usedHead' = IF c = usedHead THEN next[c] ELSE usedHead
          /\ usedTail' = IF c = usedTail THEN prev[c] ELSE usedTail
      BY <1>1
    <3> QED
      BY ONLY <3>1, <3>2, <3>3, <1>5, <1>d, c \in held, UnlinkThread, SMTT(40)
  <2>2. \A x \in held \ {c} : prev'[x] = pm[x] /\ next'[x] = nm[x]
    BY <1>0, <1>2, <1>3, InvalidIsNoNode
  <2> QED
    BY <1>0, <2>1, <2>2, FrameThread
<1>7. IsList(f2, F \cup {c}, freeHead', freeTail', prev', next')
  <2>1. IsList(f, F, freeHead, freeTail, pm, nm)
    BY <1>0, <1>1, <1>u, FrameThread
  <2>2. Appended(F, c, freeTail, pm, nm, prev', next')
    BY <1>0, <1>2, <1>3, InvalidIsNoNode DEF Appended
  <2>3. c \in Node \ F
    BY <1>0
  <2> HIDE DEF F
  <2> QED
    BY <1>0, <1>3, <2>1, <2>2, <2>3, AppendThread DEF F
<1>8. (Node \ held)' = F \cup {c}
  BY <1>0, <1>3
<1> HIDE DEF F
<1>9. Lists(u2, f2)'
  BY <1>3, <1>6, <1>7, <1>8 DEF Lists
<1> QED
  BY <1>4, <1>9
-----------------------------------------------------------------------------
(* Every step keeps both lists whole. *)
LEMMA InvStep == IInv /\ [Next]_vars => IInv'
<1> SUFFICES ASSUME IInv, [Next]_vars PROVE IInv'
  OBVIOUS
<1>1. PICK u, f : Lists(u, f)
  BY InvLists DEF IInv
<1>2. CASE Allocate
  <2>1. PICK u2, f2 : /\ u2 = Push(u, Cardinality(held), freeHead)
                      /\ f2 = Drop(f, Cardinality(Node \ held), 1)
    OBVIOUS
  <2>2. TypeOK' /\ Lists(u2, f2)'
    BY <1>1, <1>2, <2>1, AllocateLists DEF IInv
  <2> QED
    BY <2>2 DEF IInv, ListsLinked, ListOf, Lists, IsList
<1>3. ASSUME NEW c \in held, Release(c) PROVE IInv'
  <2>1. PICK f2 : f2 = Push(f, Cardinality(Node \ held), c)
    OBVIOUS
  <2>2. TypeOK' /\ \E u2 : Lists(u2, f2)'
    BY <1>1, <1>3, <2>1, ReleaseLists DEF IInv
  <2> QED
    BY <2>2 DEF IInv, ListsLinked, ListOf, Lists, IsList
<1>4. CASE UNCHANGED vars
  BY <1>4 DEF IInv, TypeOK, ListsLinked, ListOf, vars
<1> QED
  BY <1>2, <1>3, <1>4 DEF Next

(* The initial state satisfies the invariant. *)
LEMMA InitInv == Init => IInv
BY InitLists, InvLists DEF IInv

(* The fields of the pool always hold node numbers or INVALID.               *)
THEOREM TypeCorrect == Spec => []TypeOK
BY InitInv, InvStep, PTL DEF Spec, IInv

(* In a pool of any size and after any sequence of allocations and releases, *)
(* the used list holds the held channels and the free list all others.       *)
THEOREM ListsStayLinked == Spec => []ListsLinked
BY InitInv, InvStep, PTL DEF Spec, IInv

(* The head of the free list is not held. *)
LEMMA FreeHeadIsFree == IInv => NoDoubleAllocation
<1> SUFFICES ASSUME IInv PROVE NoDoubleAllocation
  OBVIOUS
<1>1. PICK u, f : Lists(u, f)
  BY InvLists DEF IInv
<1>2. EndsIn(Node \ held, freeHead, freeTail)
  BY <1>1, ListFacts DEF Lists
<1>3. held \in SUBSET Node
  BY DEF IInv, TypeOK
<1> QED
  BY <1>2, <1>3, InvalidIsNoNode DEF EndsIn, NoDoubleAllocation

(* allocate_voice_channel never returns a channel that is already in use.    *)
THEOREM NeverDoublyAllocated == Spec => []NoDoubleAllocation
BY FreeHeadIsFree, InitInv, InvStep, PTL DEF Spec

(* The neighbours of a held channel in the used list are nodes. *)
LEMMA HeldHasNeighbours == IInv => ReleaseStoresInBounds
<1> SUFFICES ASSUME IInv, NEW c \in held
             PROVE  /\ usedHead # INVALID /\ usedTail # INVALID
                    /\ c # usedHead => prev[c] \in Node
                    /\ c # usedHead /\ c # usedTail => next[c] \in Node
  BY DEF ReleaseStoresInBounds
<1>1. PICK u, f : Lists(u, f)
  BY InvLists DEF IInv
<1>2. held \in SUBSET Node /\ IsList(u, held, usedHead, usedTail, prev, next)
  BY <1>1 DEF IInv, TypeOK, Lists
<1>3. EndsIn(held, usedHead, usedTail)
  BY <1>2, ListFacts
<1>4. LinkedIn(c, held, usedHead, usedTail, prev, next)
  BY <1>2, ListFacts
<1> QED
  BY <1>2, <1>3, <1>4 DEF EndsIn, LinkedIn

(* release_voice_channel never stores through an INVALID index.              *)
THEOREM ReleaseNeverOutOfBounds == Spec => []ReleaseStoresInBounds
BY HeldHasNeighbours, InitInv, InvStep, PTL DEF Spec
-----------------------------------------------------------------------------
(* The walk along uiNext from the head of a list meets its nodes in order,   *)
(* each once.                                                                *)
LEMMA WalkIsThread ==
  ASSUME TypeOK, NEW S \in SUBSET Node, NEW h, NEW t, NEW s,
         IsList(s, S, h, t, prev, next)
  PROVE  Walk(h) = s
<1> DEFINE k == Cardinality(S)
           w == [i \in 1 .. NodeNum |-> IF i <= k THEN s[i] ELSE INVALID]
<1>1. k \in Nat /\ k <= NodeNum
  <2>1. Cardinality(Node) = NodeNum /\ IsFiniteSet(Node)
    BY FS_Interval, NodeNumAssumption DEF Node
  <2>2. Cardinality(S) <= Cardinality(Node)
    BY <2>1, FS_Subset
  <2> QED
    BY <2>1, <2>2, NodesFinite
<1>2. s \in [1 .. k -> S] /\ \A i \in 1 .. k : s[i] # INVALID
  <2>1. s \in [1 .. Cardinality(S) -> S]
    BY OrderFacts DEF IsList
  <2> QED
    BY <2>1, InvalidIsNoNode
<1>3. /\ h = IF k = 0 THEN INVALID ELSE s[1]
      /\ \A i \in 1 .. k : next[s[i]] = IF i = k THEN INVALID ELSE s[i + 1]
  BY DEF IsList, Threads
<1> HIDE DEF k
<1>4. w = [i \in 1 .. NodeNum |->
             IF i = 1 THEN h
             ELSE IF w[i - 1] = INVALID THEN INVALID ELSE next[w[i - 1]]]
  <2>1. ASSUME NEW i \in 1 .. NodeNum
        PROVE  w[i] = IF i = 1 THEN h
                      ELSE IF w[i - 1] = INVALID THEN INVALID ELSE next[w[i - 1]]
    <3>1. CASE i = 1
      BY <3>1, <1>1, <1>3
    <3>2. CASE i # 1
      <4>1. i - 1 \in 1 .. NodeNum /\ (i - 1) + 1 = i
        BY <3>2, NodeNumAssumption
      <4>2. w[i - 1] = IF i - 1 <= k THEN s[i - 1] ELSE INVALID
        BY <4>1
      <4>3. CASE i <= k
        BY <4>1, <4>2, <4>3, <3>2, <1>1, <1>2, <1>3
      <4>4. CASE i = k + 1
        BY <4>1, <4>2, <4>4, <3>2, <1>1, <1>2, <1>3
      <4>5. CASE i > k + 1
        BY <4>1, <4>2, <4>5, <3>2, <1>1
      <4> QED
        BY <4>3, <4>4, <4>5, <1>1
    <3> QED
      BY <3>1, <3>2
  <2> QED
    BY <2>1
<1> DEFINE at == At(h)
<1>5. at = [i \in 1 .. NodeNum |->
              IF i = 1 THEN h
              ELSE IF at[i - 1] = INVALID THEN INVALID ELSE next[at[i - 1]]]
  <2> HIDE DEF w
  <2> QED
    BY <1>4, Zenon DEF At
<1> HIDE DEF at
<1>6. at = w
  <2> DEFINE T == {i \in 1 .. NodeNum : at[i] # w[i]}
  <2>1. T = {}
    <3> SUFFICES ASSUME T # {} PROVE FALSE
      OBVIOUS
    <3>1. T \in SUBSET Nat
      OBVIOUS
    <3> HIDE DEF T
    <3>2. PICK i \in T : \A j \in T : i <= j
      BY <3>1, LeastMember
    <3>3. i \in 1 .. NodeNum /\ at[i] # w[i]
      BY <3>2 DEF T
    <3> HIDE DEF w
    <3>4. i # 1
      BY <3>3, <1>4, <1>5
    <3>5. i - 1 \in 1 .. NodeNum /\ i - 1 \notin T
      BY <3>1, <3>2, <3>3, <3>4, NodeNumAssumption
    <3>6. at[i - 1] = w[i - 1]
      BY <3>5 DEF T
    <3>7. at[i] = IF at[i - 1] = INVALID THEN INVALID ELSE next[at[i - 1]]
      BY <3>3, <3>4, <1>5
    <3>8. w[i] = IF w[i - 1] = INVALID THEN INVALID ELSE next[w[i - 1]]
      BY <3>3, <3>4, <1>4
    <3> QED
      BY <3>3, <3>6, <3>7, <3>8
  <2>2. \A i \in 1 .. NodeNum : at[i] = w[i]
    BY <2>1
  <2> HIDE DEF w
  <2> QED
    BY <2>2, <1>4, <1>5
<1>7. {j \in 1 .. NodeNum : at[j] # INVALID} = 1 .. k
  BY <1>1, <1>2, <1>6, NodeNumAssumption
<1>8. Cardinality(1 .. k) = k
  BY <1>1, FS_Interval
<1>9. Walk(h) = [i \in 1 .. k |-> at[i]]
  BY <1>7, <1>8 DEF Walk, at
<1> QED
  BY <1>1, <1>2, <1>6, <1>9, NodeNumAssumption

(* The walks over both lists meet every channel once. *)
LEMMA WalksMeetAll == IInv => NoChannelLost
<1> SUFFICES ASSUME IInv PROVE NoChannelLost
  OBVIOUS
<1>1. PICK u, f : Lists(u, f)
  BY InvLists DEF IInv
<1>2. TypeOK /\ held \in SUBSET Node /\ Node \ held \in SUBSET Node
  BY DEF IInv, TypeOK
<1>3. Walk(usedHead) = u /\ u \in Orders(held)
  BY <1>1, <1>2, WalkIsThread DEF Lists, IsList
<1>4. Walk(freeHead) = f /\ f \in Orders(Node \ held)
  BY <1>1, <1>2, WalkIsThread DEF Lists, IsList
<1>5. /\ f \in [1 .. Cardinality(Node \ held) -> Node \ held]
      /\ Cardinality(Node \ held) \in Nat /\ Cardinality(held) \in Nat
  BY <1>2, <1>4, OrderFacts, NodesFinite
<1>6. Len(f) = Cardinality(Node \ held)
  BY <1>5
<1>7. NodeNum = Cardinality(Node \ held) + Cardinality(held)
  <2>1. Cardinality(Node) = NodeNum /\ IsFiniteSet(Node)
    BY FS_Interval, NodeNumAssumption DEF Node
  <2>2. Cardinality(Node \ held) = Cardinality(Node) - Cardinality(Node \cap held)
    BY <2>1, FS_Difference, <1>2, NodesFinite
  <2>3. Node \cap held = held
    BY <1>2
  <2>4. NodeNum = Cardinality(Node)
    BY <2>1
  <2>5. Cardinality(Node \ held) = Cardinality(Node) - Cardinality(held)
    BY <2>2, <2>3
  <2>6. \A a, b, c \in Nat : a = c - b => c = a + b
    OBVIOUS
  <2> QED
    BY <2>4, <2>5, <2>6, <1>5, NodeNumAssumption
<1> QED
  BY <1>3, <1>4, <1>5, <1>6, <1>7
     DEF NoChannelLost, get_used_voice_channel, freeChannelNum

(* The free walk and the used walk together meet every channel once.         *)
THEOREM ChannelsNeverLost == Spec => []NoChannelLost
BY WalksMeetAll, InitInv, InvStep, PTL DEF Spec
-----------------------------------------------------------------------------
FreeWalkOK == TypeOK => \A u, f : Lists(u, f) => Walk(freeHead) = f

(* The walk from the head of the free list meets the free channels in order. *)
LEMMA FreeWalk == FreeWalkOK
<1> SUFFICES ASSUME TypeOK, NEW u, NEW f, Lists(u, f) PROVE Walk(freeHead) = f
  BY DEF FreeWalkOK
<1>1. Node \ held \in SUBSET Node
  OBVIOUS
<1>2. IsList(f, Node \ held, freeHead, freeTail, prev, next)
  BY DEF Lists
<1> QED
  BY <1>1, <1>2, WalkIsThread

(* A sequence is the function of its elements. *)
LEMMA SeqIsFunction ==
  ASSUME NEW S, NEW g \in Seq(S), NEW n \in Nat, Len(g) = n
  PROVE  g = [i \in 1 .. n |-> g[i]]
BY LenProperties

(* Push and Drop as operations of the FIFO pool. *)
LEMMA SequenceFacts ==
  ASSUME NEW S, NEW n \in Nat, NEW f \in [1 .. n -> S], NEW c \in Node
  PROVE  /\ Push(f, n, c) = Append(f, c)
         /\ n # 0 => f # <<>> /\ Head(f) = f[1] /\ Drop(f, n, 1) = Tail(f)
<1>1. f \in Seq(S) /\ Len(f) = n
  OBVIOUS
<1>2. Append(f, c) = [i \in 1 .. n + 1 |-> IF i <= n THEN f[i] ELSE c]
  <2>1. f \in Seq(S \cup {c}) /\ c \in S \cup {c}
    OBVIOUS
  <2>2. /\ Append(f, c) \in Seq(S \cup {c}) /\ Len(Append(f, c)) = n + 1
        /\ \A i \in 1 .. n : Append(f, c)[i] = f[i]
        /\ Append(f, c)[n + 1] = c
    BY <1>1, <2>1, AppendProperties
  <2>3. Append(f, c) = [i \in 1 .. n + 1 |-> Append(f, c)[i]]
    <3>1. n + 1 \in Nat
      OBVIOUS
    <3> QED
      BY <2>2, <3>1, SeqIsFunction, Zenon
  <2>4. \A i \in 1 .. n + 1 : Append(f, c)[i] = IF i <= n THEN f[i] ELSE c
    BY <2>2
  <2> QED
    BY <2>3, <2>4
<1>3. CASE n # 0
  <2>1. Tail(f) = [i \in 1 .. n - 1 |-> f[i + 1]]
    <3>1. f # <<>>
      BY <1>1, <1>3
    <3>2. /\ Tail(f) \in Seq(S) /\ Len(Tail(f)) = n - 1
          /\ \A i \in 1 .. n - 1 : Tail(f)[i] = f[i + 1]
      BY <1>1, <3>1, HeadTailProperties
    <3>3. Tail(f) = [i \in 1 .. n - 1 |-> Tail(f)[i]]
      <4>1. n - 1 \in Nat
        BY <1>3
      <4> QED
        BY <3>2, <4>1, SeqIsFunction, Zenon
    <3> QED
      BY <3>2, <3>3
  <2>2. Drop(f, n, 1) = [i \in 1 .. n - 1 |-> f[i + 1]]
    BY DEF Drop
  <2>3. f # <<>> /\ Head(f) = f[1]
    BY <1>1, <1>3
  <2> QED
    BY <1>2, <2>1, <2>2, <2>3 DEF Push
<1> QED
  BY <1>2, <1>3 DEF Push

(* The linked lists implement the FIFO pool: allocation takes the channel    *)
(* that was given back longest ago.                                          *)
THEOREM ImplementsFifoPool == Spec => ImplementsPool
<1>1. Init => Pool!PoolInit
  <2> SUFFICES ASSUME Init PROVE Pool!PoolInit
    OBVIOUS
  <2>1. Walk(freeHead) = [i \in 1 .. NodeNum |-> i - 1]
    BY InitLists, FreeWalk DEF FreeWalkOK
  <2> QED
    BY <2>1 DEF Init, Built, Pool!PoolInit
<1>w. FreeWalkOK'
  BY FreeWalk, PTL
<1>2. IInv /\ [Next]_vars => [Pool!PoolNext]_(Pool!poolVars)
  <2> SUFFICES ASSUME IInv, [Next]_vars PROVE [Pool!PoolNext]_(Pool!poolVars)
    OBVIOUS
  <2>1. PICK u, f : Lists(u, f)
    BY InvLists DEF IInv
  <2>2. Walk(freeHead) = f
    BY <2>1, FreeWalk DEF IInv, FreeWalkOK
  <2>3. held \in SUBSET Node /\ Node \ held \in SUBSET Node
    BY DEF IInv, TypeOK
  <2>4. /\ f \in [1 .. Cardinality(Node \ held) -> Node \ held]
        /\ Cardinality(Node \ held) \in Nat
        /\ freeHead = IF Cardinality(Node \ held) = 0 THEN INVALID ELSE f[1]
    BY <2>1, <2>3, OrderFacts, NodesFinite DEF Lists, IsList, Threads
  <2>7. CASE Allocate
    <3>1. PICK u2, f2 : /\ u2 = Push(u, Cardinality(held), freeHead)
                        /\ f2 = Drop(f, Cardinality(Node \ held), 1)
      OBVIOUS
    <3>2. TypeOK' /\ Lists(u2, f2)'
      BY <2>1, <2>7, <3>1, AllocateLists DEF IInv
    <3>3. Walk(freeHead)' = f2
      BY <1>w, <3>2 DEF FreeWalkOK
    <3>4. f # <<>> /\ Head(f) = freeHead
      BY <2>4, <2>7, AllocateLists, <2>1, <3>1, SequenceFacts DEF Allocate, IInv
    <3>5. f2 = Tail(f)
      BY <2>4, <2>7, AllocateLists, <2>1, <3>1, SequenceFacts DEF Allocate, IInv
    <3>6. held' = held \cup {freeHead}
      BY <2>7 DEF Allocate
    <3> QED
      BY <2>2, <3>3, <3>4, <3>5, <3>6 DEF Pool!PoolNext, Pool!Take
  <2>8. ASSUME NEW c \in held, Release(c) PROVE Pool!PoolNext
    <3>1. PICK f2 : f2 = Push(f, Cardinality(Node \ held), c)
      OBVIOUS
    <3>2. TypeOK' /\ \E u2 : Lists(u2, f2)'
      BY <2>1, <2>8, <3>1, ReleaseLists, ZenonT(60) DEF IInv
    <3>3. Walk(freeHead)' = f2
      BY <1>w, <3>2 DEF FreeWalkOK
    <3>4. f2 = Append(f, c)
      BY <2>3, <2>4, <3>1, SequenceFacts
    <3>5. held' = held \ {c}
      BY <2>8 DEF Release
    <3> QED
      BY <2>2, <2>8, <3>3, <3>4, <3>5 DEF Pool!PoolNext, Pool!Give
  <2>9. CASE UNCHANGED vars
    BY <2>9 DEF vars, Pool!poolVars, Walk, At
  <2> QED
    BY <2>7, <2>8, <2>9 DEF Next
<1> QED
  BY <1>1, <1>2, InitInv, InvStep, PTL DEF Spec, ImplementsPool, Pool!PoolSpec
-----------------------------------------------------------------------------

Occupied == Mgr!Occupied
Placed == \A c \in Occupied : c = Mgr!Probe(c[1], table[c].uiKey)
Unique == \A c, d \in Occupied : table[c].uiKey = table[d].uiKey => c = d

HInv == Mgr!TypeOK /\ Mgr!OneToOne /\ Placed /\ Unique
SInv == IInv /\ HInv /\ pending \subseteq Occupied

(* The minimum of a set of rows is one of them. *)
LEMMA MinRow == ASSUME NEW S \in SUBSET Mgr!Row, S # {}
                PROVE  Mgr!Min(S) \in S
<1>1. S \subseteq Nat
  BY DEF Mgr!Row
<1>2. \E x \in S : \A y \in S : x <= y
  BY <1>1, LeastMember
<1> QED
  BY <1>2 DEF Mgr!Min

(* A key has a cell of the table in every row. *)
LEMMA ProbeCell == ASSUME NEW i \in Mgr!Row, NEW k \in Nat
                   PROVE  Mgr!Probe(i, k) \in Mgr!Cell /\ Mgr!Probe(i, k)[1] = i
<1>1. HashBase[i] \in 1 .. HashLen
  BY ServiceAssumption DEF Mgr!Row
<1>2. k % HashBase[i] \in 0 .. HashBase[i] - 1
  BY <1>1, ServiceAssumption
<1>3. k % HashBase[i] \in 0 .. HashLen - 1
  BY <1>1, <1>2, ServiceAssumption
<1> QED
  BY <1>3 DEF Mgr!Probe, Mgr!Cell

(* What a successful lookup returns: the entry of the key. *)
LEMMA GetFacts == ASSUME Mgr!TypeOK, NEW k \in Key, Mgr!Found(k)
                  PROVE  /\ Mgr!get(k) \in Occupied
                         /\ table[Mgr!get(k)].uiKey = k
                         /\ Mgr!ChannelOf(k) = table[Mgr!get(k)].uiChannelId
                         /\ Mgr!ChannelOf(k) \in Node
<1>1. k \in Nat /\ k # 0
  BY ServiceAssumption
<1>2. Mgr!Min(Mgr!RowsWith(k)) \in Mgr!RowsWith(k)
  BY MinRow DEF Mgr!Found, Mgr!RowsWith
<1>3. PICK i \in Mgr!Row : table[Mgr!Probe(i, k)].uiKey = k /\ Mgr!get(k) = Mgr!Probe(i, k)
  BY <1>2 DEF Mgr!get, Mgr!RowsWith
<1>4. Mgr!get(k) \in Mgr!Cell
  BY <1>1, <1>3, ProbeCell
<1> QED
  BY <1>1, <1>3, <1>4 DEF Occupied, Mgr!Occupied, Mgr!ChannelOf, Mgr!TypeOK, Mgr!Entry,
     Mgr!Channel, Node

(* The lookup of an entry's key returns that entry. *)
LEMMA LookupFinds == ASSUME HInv, NEW c \in Occupied
                     PROVE  /\ table[c].uiKey \in Key
                            /\ Mgr!Found(table[c].uiKey) /\ Mgr!get(table[c].uiKey) = c
<1> DEFINE k == table[c].uiKey
<1>1. k \in Key /\ c \in Mgr!Cell
  BY DEF HInv, Occupied, Mgr!Occupied, Mgr!TypeOK, Mgr!Entry
<1>2. c[1] \in Mgr!RowsWith(k)
  BY <1>1 DEF HInv, Placed, Mgr!RowsWith, Mgr!Cell
<1>3. Mgr!Found(k)
  BY <1>2 DEF Mgr!Found
<1>4. Mgr!get(k) \in Occupied /\ table[Mgr!get(k)].uiKey = table[c].uiKey
  BY <1>1, <1>3, GetFacts DEF HInv
<1> QED
  BY <1>1, <1>3, <1>4 DEF HInv, Unique

(* An allocation that finds no channel for k works on an empty cell of k.    *)
LEMMA InsFacts == ASSUME Mgr!TypeOK, NEW k \in Key, ~Mgr!HasChannel(k), Mgr!CanIns(k)
                  PROVE  /\ ~Mgr!Found(k)
                         /\ Mgr!ins(k) \in Mgr!Cell
                         /\ table[Mgr!ins(k)].uiKey = 0
                         /\ Mgr!ins(k) = Mgr!Probe(Mgr!ins(k)[1], k)
<1>1. ~Mgr!Found(k)
  BY GetFacts, NodeNumAssumption DEF Mgr!HasChannel, Mgr!INVALID, Mgr!INVALID_VOICECHANNEL_ID, Node
<1>2. Mgr!RowsFree(k) # {} /\ Mgr!RowsFree(k) \in SUBSET Mgr!Row
  BY <1>1 DEF Mgr!CanIns, Mgr!RowsFree
<1>3. Mgr!Min(Mgr!RowsFree(k)) \in Mgr!RowsFree(k)
  BY <1>2, MinRow
<1>4. PICK i \in Mgr!Row : Mgr!ins(k) = Mgr!Probe(i, k) /\ table[Mgr!Probe(i, k)].uiKey = 0
  BY <1>1, <1>3 DEF Mgr!ins, Mgr!RowsFree
<1>5. k \in Nat
  BY ServiceAssumption
<1> QED
  BY <1>1, <1>4, <1>5, ProbeCell

(* No entry has key k when the lookup of k fails. *)
LEMMA NotFound == ASSUME HInv, NEW k \in Key, ~Mgr!Found(k), NEW c \in Occupied
                  PROVE  table[c].uiKey # k
  BY LookupFinds

(* The channels of the manager are the nodes of the pool, and those with an  *)
(* entry are held.                                                           *)
LEMMA HeldFacts == ASSUME SInv
                   PROVE  /\ Mgr!Channel = Node /\ held \in SUBSET Node
                          /\ \A c \in Occupied : table[c].uiChannelId \in held
                          /\ held = {table[c].uiChannelId : c \in Occupied}
  BY DEF SInv, HInv, Mgr!OneToOne, Mgr!TypeOK, Mgr!Channel, Node, Occupied
-----------------------------------------------------------------------------
(* A new entry for a free channel keeps the invariant of the hash. *)
LEMMA OpenHash ==
  ASSUME SInv, NEW k \in Key, ~Mgr!HasChannel(k), Mgr!CanIns(k), NEW ch \in Node \ held,
         table' = [table EXCEPT ![Mgr!ins(k)] = [uiKey |-> k, uiChannelId |-> ch]],
         held' = held \cup {ch},
         NEW age \in 0 .. Mgr!Expired, idle' = [idle EXCEPT ![ch] = age]
  PROVE  HInv' /\ Occupied \subseteq Occupied'
<1> DEFINE x == Mgr!ins(k)
<1>2. /\ HInv /\ Mgr!TypeOK /\ k \in Nat /\ k # 0 /\ Mgr!Channel = Node /\ ch \in Node
      /\ held \in SUBSET Node
  BY ServiceAssumption, HeldFacts DEF SInv, HInv
<1>3. /\ ~Mgr!Found(k) /\ x \in Mgr!Cell /\ table[x].uiKey = 0 /\ x = Mgr!Probe(x[1], k)
  BY <1>2, InsFacts
<1>4. \A c \in Occupied : table[c].uiKey # k
  BY <1>2, <1>3, NotFound
<1>5. /\ table'[x] = [uiKey |-> k, uiChannelId |-> ch]
      /\ \A c \in Mgr!Cell : c # x => table'[c] = table[c]
  BY <1>2, <1>3 DEF Mgr!TypeOK
<1>6a. table' = [table EXCEPT ![x] = [uiKey |-> k, uiChannelId |-> ch]]
  OBVIOUS
<1> HIDE DEF x
<1>6. Occupied' = Occupied \cup {x} /\ x \notin Occupied
  BY <1>2, <1>3, <1>5 DEF Occupied, Mgr!Occupied
<1>7. \A c \in Occupied : c # x /\ table'[c] = table[c]
  BY <1>5, <1>6 DEF Occupied, Mgr!Occupied
<1>8. Mgr!TypeOK'
  <2>1. [uiKey |-> k, uiChannelId |-> ch] \in Mgr!Entry
    BY <1>2 DEF Mgr!Entry
  <2>2. table' \in [Mgr!Cell -> Mgr!Entry]
    BY <1>2, <1>6a, <2>1 DEF Mgr!TypeOK
  <2>3. idle' \in [Mgr!Channel -> 0 .. Mgr!Expired]
    BY <1>2 DEF Mgr!TypeOK
  <2> QED
    BY <1>2, <2>2, <2>3 DEF Mgr!TypeOK
<1>9. Mgr!OneToOne'
  <2>1. \A c \in Occupied : table[c].uiChannelId \in held
    BY HeldFacts
  <2>2. \A c, d \in Occupied' : table'[c].uiChannelId = table'[d].uiChannelId => c = d
    <3>1. \A c, d \in Occupied : table[c].uiChannelId = table[d].uiChannelId => c = d
      BY <1>2 DEF HInv, Mgr!OneToOne, Occupied
    <3> QED
      BY <1>5, <1>6, <1>7, <2>1, <3>1
  <2>3. held' = {table'[c].uiChannelId : c \in Occupied'}
    <3>1. held = {table[c].uiChannelId : c \in Occupied}
      BY HeldFacts
    <3> QED
      BY <1>5, <1>6, <1>7, <3>1
  <2> QED
    BY <2>2, <2>3 DEF Mgr!OneToOne, Occupied
<1>10. Placed'
  <2>1. ASSUME NEW c \in Occupied' PROVE c = Mgr!Probe(c[1], table'[c].uiKey)
    BY <1>2, <1>3, <1>5, <1>6, <1>7 DEF HInv, Placed
  <2> QED
    BY <2>1 DEF Placed, Mgr!Probe
<1>11. Unique'
  BY <1>2, <1>4, <1>5, <1>6, <1>7 DEF HInv, Unique
<1> QED
  BY <1>6, <1>8, <1>9, <1>10, <1>11 DEF HInv

(* So does a step that empties a cell, and gives back its channel if it had  *)
(* an entry.                                                                 *)
LEMMA RemoveHash ==
  ASSUME SInv, NEW x \in Mgr!Cell, idle' = idle,
         table' = [table EXCEPT ![x] = Mgr!Empty],
         held' = IF x \in Occupied THEN held \ {table[x].uiChannelId} ELSE held
  PROVE  /\ HInv' /\ Occupied' = Occupied \ {x}
         /\ \A c \in Occupied' : table'[c] = table[c]
<1>0. HInv /\ Mgr!TypeOK
  BY DEF SInv, HInv
<1>1. Occupied' = Occupied \ {x} /\ \A c \in Occupied' : table'[c] = table[c]
  BY <1>0 DEF Occupied, Mgr!Occupied, Mgr!Empty, Mgr!TypeOK
<1>2. Mgr!TypeOK'
  <2>1. Mgr!Empty \in Mgr!Entry
    BY NodeNumAssumption DEF Mgr!Entry, Mgr!Empty, Mgr!Channel
  <2> QED
    BY <1>0, <2>1 DEF Mgr!TypeOK
<1>3. Mgr!OneToOne'
  <2>1. /\ \A c, d \in Occupied : table[c].uiChannelId = table[d].uiChannelId => c = d
        /\ held = {table[c].uiChannelId : c \in Occupied}
    BY <1>0 DEF HInv, Mgr!OneToOne, Occupied
  <2>2. held' = {table'[c].uiChannelId : c \in Occupied'}
    BY <1>1, <2>1
  <2>3. \A c, d \in Occupied' : table'[c].uiChannelId = table'[d].uiChannelId => c = d
    BY <1>1, <2>1
  <2> QED
    BY <2>2, <2>3 DEF Mgr!OneToOne, Occupied
<1>4. Placed'
  <2>1. \A c \in Occupied' : c = Mgr!Probe(c[1], table'[c].uiKey)
    BY <1>0, <1>1 DEF HInv, Placed
  <2> QED
    BY <2>1 DEF Placed, Mgr!Probe
<1>5. Unique'
  BY <1>0, <1>1 DEF HInv, Unique
<1> QED
  BY <1>1, <1>2, <1>3, <1>4, <1>5 DEF HInv
-----------------------------------------------------------------------------
(* The head of the free list is a channel that nobody holds; without a head  *)
(* all are held.                                                             *)
LEMMA FreeHeadFacts == ASSUME IInv
                       PROVE  /\ freeHead # INVALID => freeHead \in Node \ held
                              /\ freeHead = INVALID => held = Node
<1>1. PICK u, f : Lists(u, f)
  BY InvLists DEF IInv
<1>2. EndsIn(Node \ held, freeHead, freeTail)
  BY <1>1, ListFacts DEF Lists
<1> QED
  BY <1>2 DEF EndsIn, IInv, TypeOK

(* The invariant holds at the start. *)
LEMMA InitHash == ASSUME Mgr!Init
                  PROVE  HInv
<1>1. Mgr!TypeOK
  BY ServiceAssumption, NodeNumAssumption
     DEF Mgr!Init, Mgr!TypeOK, Mgr!Entry, Mgr!Empty, Mgr!Channel, Mgr!Expired
<1>2. Occupied = {}
  BY DEF Mgr!Init, Occupied, Mgr!Occupied, Mgr!Empty
<1> QED
  BY <1>1, <1>2 DEF Mgr!Init, HInv, Mgr!OneToOne, Placed, Unique, Occupied

(* A frame for a stream with a channel touches the channel only. *)
LEMMA PushBackInv == ASSUME SInv, NEW k \in Key, PushBack(k)
                     PROVE  SInv'
<1>1. Mgr!ChannelOf(k) \in Mgr!Channel /\ HInv
  BY GetFacts, HeldFacts DEF SInv, HInv, PushBack, Mgr!PushBack, Mgr!HasChannel
<1>2. UNCHANGED <<table, held>> /\ pending' = {} /\ UNCHANGED vars
  BY DEF PushBack, Mgr!PushBack, Quiet, lists, vars
<1>3. Mgr!TypeOK'
  BY <1>1, <1>2, ServiceAssumption
     DEF PushBack, Mgr!PushBack, HInv, Mgr!TypeOK, Mgr!Expired
<1>4. IInv'
  BY <1>2, InvStep DEF SInv
<1>5. HInv'
  BY <1>1, <1>2, <1>3 DEF HInv, Mgr!OneToOne, Placed, Unique, Occupied, Mgr!Occupied, Mgr!Probe
<1> QED
  BY <1>2, <1>4, <1>5 DEF SInv

(* So does a second that passes. *)
LEMMA TickInv == ASSUME SInv, Tick
                 PROVE  SInv'
<1>2. UNCHANGED <<table, held>> /\ pending' = {} /\ UNCHANGED vars
  BY DEF Tick, Mgr!Tick, Quiet, lists, vars
<1>3. Mgr!TypeOK'
  BY <1>2, ServiceAssumption DEF SInv, Tick, Mgr!Tick, HInv, Mgr!TypeOK, Mgr!Expired
<1>4. IInv'
  BY <1>2, InvStep DEF SInv
<1>5. HInv'
  BY <1>2, <1>3 DEF SInv, HInv, Mgr!OneToOne, Placed, Unique, Occupied, Mgr!Occupied, Mgr!Probe
<1> QED
  BY <1>2, <1>4, <1>5 DEF SInv

(* What an allocation of the manager does to the hash. *)
LEMMA OpenSteps == ASSUME SInv, NEW k \in Key, NEW taken \in BOOLEAN, OpenChannel(k, taken)
                   PROVE  /\ SInv' /\ freeHead \in Mgr!Channel \ held
                          /\ held' = held \cup {freeHead}
<1>1. freeHead \in Node \ held /\ held' = held \cup {freeHead}
  BY FreeHeadFacts DEF SInv, OpenChannel, Allocate
<1>2. (IF taken THEN 0 ELSE Mgr!Expired) \in 0 .. Mgr!Expired
  BY ServiceAssumption DEF Mgr!Expired
<1>3. HInv'
  BY <1>1, <1>2, OpenHash DEF OpenChannel
<1>4. IInv'
  BY InvStep DEF SInv, OpenChannel, Next
<1> QED
  BY <1>1, <1>3, <1>4, HeldFacts DEF SInv, OpenChannel, Quiet

(* A failed one puts back the empty entry that it found. *)
LEMMA OpenFailsInv == ASSUME SInv, NEW k \in Key, OpenFails(k)
                      PROVE  SInv' /\ held = Mgr!Channel
<1>1. Mgr!ins(k) \in Mgr!Cell /\ Mgr!ins(k) \notin Occupied
  BY InsFacts DEF SInv, HInv, OpenFails, Occupied, Mgr!Occupied
<1>2. HInv'
  BY <1>1, RemoveHash DEF OpenFails, vars
<1>3. IInv'
  BY InvStep DEF SInv, OpenFails
<1> QED
  BY <1>2, <1>3, HeldFacts, FreeHeadFacts DEF SInv, OpenFails, Quiet

(* The list of a sweep is of entries. *)
LEMMA SweepInv == ASSUME SInv, Sweep
                  PROVE  SInv'
<1>1. UNCHANGED vars /\ UNCHANGED <<table, idle, held>> /\ pending' = Mgr!Seen
  BY DEF Sweep, vars
<1>2. IInv'
  BY <1>1, InvStep DEF SInv
<1>3. HInv' /\ Occupied' = Occupied
  BY <1>1 DEF SInv, HInv, Mgr!TypeOK, Mgr!OneToOne, Placed, Unique, Occupied, Mgr!Occupied, Mgr!Probe
<1>4. Mgr!Seen \subseteq Occupied
  BY DEF Mgr!Seen, Occupied
<1> QED
  BY <1>1, <1>2, <1>3, <1>4 DEF SInv

(* There is a next entry of a sweep. *)
LEMMA EarliestFacts == ASSUME SInv, pending # {}
                       PROVE  Earliest \in pending /\ Earliest \in Occupied
<1> DEFINE P == {Mgr!Position(c) : c \in pending}
<1>1. pending \subseteq Mgr!Cell
  BY DEF SInv, Occupied, Mgr!Occupied
<1>2. ASSUME NEW c \in Mgr!Cell PROVE Mgr!Position(c) \in Nat
  <2>1. c[1] \in Nat /\ c[2] \in Nat /\ HashLen \in Nat
    BY <1>2, ServiceAssumption DEF Mgr!Cell, Mgr!Row
  <2> QED
    BY <2>1 DEF Mgr!Position
<1>3. P \in SUBSET Nat /\ P # {}
  BY <1>1, <1>2
<1>4. \E x \in P : \A y \in P : x <= y
  <2> HIDE DEF P
  <2> QED
    BY <1>3, LeastMember
<1>5. \E c \in pending : \A d \in pending : Mgr!Position(c) <= Mgr!Position(d)
  BY <1>4
<1>6. Earliest \in pending
  BY <1>5 DEF Earliest
<1> QED
  BY <1>6 DEF SInv

(* A release by key: the entry that the sweep has seen is the one the key    *)
(* leads to, and its channel is held.                                        *)
LEMMA ReleaseFacts ==
  ASSUME SInv, NEW e \in Occupied, ReleaseChannel(table[e].uiKey), idle' = idle
  PROVE  /\ IInv' /\ HInv' /\ Occupied' = Occupied \ {e}
         /\ table' = [table EXCEPT ![e] = Mgr!Empty]
         /\ held' = held \ {table[e].uiChannelId}
         /\ \A c \in Occupied' : table'[c] = table[c]
<1> DEFINE k == table[e].uiKey
           c == Mgr!ChannelOf(k)
<1>1. HInv /\ Mgr!TypeOK
  BY DEF SInv, HInv
<1>2. k \in Key /\ Mgr!Found(k) /\ Mgr!get(k) = e
  BY <1>1, LookupFinds
<1>3. c = table[e].uiChannelId
  BY <1>1, <1>2, GetFacts
<1>4. c \in held
  BY <1>3, HeldFacts
<1>5. Release(c)
  BY <1>4 DEF ReleaseChannel, Release
<1>6. IInv'
  BY <1>4, <1>5, InvStep DEF SInv, Next
<1>7. /\ table' = [table EXCEPT ![e] = Mgr!Empty]
      /\ held' = held \ {table[e].uiChannelId}
  BY <1>2, <1>3 DEF ReleaseChannel
<1>8. e \in Mgr!Cell
  BY DEF Occupied, Mgr!Occupied
<1> QED
  BY <1>6, <1>7, <1>8, RemoveHash

(* One visit of a sweep keeps the invariant. *)
LEMMA VisitInv == ASSUME SInv, Visit
                  PROVE  SInv'
<1>1. Earliest \in pending /\ Earliest \in Occupied
  BY EarliestFacts DEF Visit
<1>2. pending \subseteq Occupied
  BY DEF SInv
<1>3. CASE Old(Earliest)
  <2>1. ReleaseChannel(table[Earliest].uiKey) /\ idle' = idle
    BY <1>3 DEF Visit
  <2>2. IInv' /\ HInv' /\ Occupied' = Occupied \ {Earliest}
    BY <1>1, <2>1, ReleaseFacts
  <2> QED
    BY <1>2, <2>2 DEF SInv, Visit
<1>4. CASE ~Old(Earliest)
  <2>1. UNCHANGED vars /\ UNCHANGED <<table, idle, held>>
    BY <1>4 DEF Visit, vars
  <2>2. IInv'
    BY <2>1, InvStep DEF SInv
  <2>3. HInv' /\ Occupied' = Occupied
    BY <2>1 DEF SInv, HInv, Mgr!TypeOK, Mgr!OneToOne, Placed, Unique, Occupied, Mgr!Occupied, Mgr!Probe
  <2> QED
    BY <1>2, <2>2, <2>3 DEF SInv, Visit
<1> QED
  BY <1>3, <1>4

(* A new process: both tables are as they were at first. *)
LEMMA RestartInv == SInv /\ Restart => SInv'
<1>1. Restart => Init' /\ Mgr!Init' /\ pending' = {}
  BY DEF Restart, Init, Mgr!Restart, Mgr!Init
<1>2. Mgr!Init => HInv
  BY InitHash
<1>3. Init' => IInv'
  BY InitInv, PTL
<1>4. Mgr!Init' => HInv'
  BY <1>2, PTL
<1> QED
  BY <1>1, <1>3, <1>4 DEF SInv

(* Every step keeps the invariant. *)
LEMMA ServiceStep == SInv /\ [ServiceNext]_serviceVars => SInv'
<1> SUFFICES ASSUME SInv, [ServiceNext]_serviceVars PROVE SInv'
  OBVIOUS
<1>1. CASE UNCHANGED serviceVars
  <2>1. UNCHANGED vars /\ UNCHANGED <<table, idle, held, pending>>
    BY <1>1 DEF serviceVars, vars
  <2>2. IInv'
    BY <2>1, InvStep DEF SInv
  <2> QED
    BY <2>1, <2>2 DEF SInv, HInv, Mgr!TypeOK, Mgr!OneToOne, Placed, Unique, Occupied, Mgr!Occupied,
       Mgr!Probe
<1> QED
  BY <1>1, PushBackInv, OpenSteps, OpenFailsInv, SweepInv, VisitInv, TickInv, RestartInv
     DEF ServiceNext
-----------------------------------------------------------------------------
(* What the mapping makes of the table and of the channels held. *)
MappedTable == [c \in Mgr!Cell |-> IF c \in Gone THEN Mgr!Empty ELSE table[c]]
MappedUsed == held \ {table[c].uiChannelId : c \in Gone}

(* Between sweeps it leaves them as they are. *)
LEMMA MappedQuiet == ASSUME Mgr!TypeOK, pending = {}
                     PROVE  MappedTable = table /\ MappedUsed = held
<1>1. Gone = {}
  BY DEF Gone
<1> QED
  BY <1>1 DEF MappedTable, MappedUsed, Mgr!TypeOK

(* The lookups of the abstract manager are then those of the real one. *)
LEMMA SameLookups ==
  ASSUME MappedTable = table, NEW k
  PROVE  /\ Manager!Found(k) = Mgr!Found(k) /\ Manager!get(k) = Mgr!get(k)
         /\ Manager!CanIns(k) = Mgr!CanIns(k) /\ Manager!ins(k) = Mgr!ins(k)
         /\ Manager!ChannelOf(k) = Mgr!ChannelOf(k)
         /\ Manager!HasChannel(k) = Mgr!HasChannel(k)
<1>1. Manager!Row = Mgr!Row /\ \A i \in Mgr!Row : Manager!Probe(i, k) = Mgr!Probe(i, k)
  BY DEF Manager!Row, Mgr!Row, Manager!Probe, Mgr!Probe
<1>2. Manager!RowsWith(k) = Mgr!RowsWith(k) /\ Manager!RowsFree(k) = Mgr!RowsFree(k)
  BY <1>1 DEF Manager!RowsWith, Mgr!RowsWith, Manager!RowsFree, Mgr!RowsFree, MappedTable
<1>3. Manager!Min(Manager!RowsWith(k)) = Mgr!Min(Mgr!RowsWith(k))
  BY <1>2 DEF Manager!Min, Mgr!Min
<1>4. Manager!Min(Manager!RowsFree(k)) = Mgr!Min(Mgr!RowsFree(k))
  BY <1>2 DEF Manager!Min, Mgr!Min
<1>5. Manager!Found(k) = Mgr!Found(k)
  BY <1>2 DEF Manager!Found, Mgr!Found
<1>6. Manager!get(k) = Mgr!get(k)
  BY <1>3 DEF Manager!get, Mgr!get, Manager!Probe, Mgr!Probe
<1>7. Manager!CanIns(k) = Mgr!CanIns(k)
  BY <1>2, <1>5 DEF Manager!CanIns, Mgr!CanIns
<1>8. Manager!ins(k) = Mgr!ins(k)
  BY <1>4, <1>5, <1>6 DEF Manager!ins, Mgr!ins, Manager!Probe, Mgr!Probe
<1>9. Manager!ChannelOf(k) = Mgr!ChannelOf(k)
  BY <1>6 DEF Manager!ChannelOf, Mgr!ChannelOf, MappedTable
<1> QED
  BY <1>5, <1>6, <1>7, <1>8, <1>9
     DEF Manager!HasChannel, Mgr!HasChannel, Manager!INVALID, Mgr!INVALID,
         Manager!INVALID_VOICECHANNEL_ID, Mgr!INVALID_VOICECHANNEL_ID
(* The initial states map to initial states. *)
LEMMA MappedInit == ASSUME ServiceInit
                    PROVE  Manager!Init
<1>1. MappedTable = table /\ MappedUsed = held
  BY InitHash, MappedQuiet DEF ServiceInit, HInv
<1> QED
  BY <1>1 DEF ServiceInit, Mgr!Init, Manager!Init, MappedTable, MappedUsed, Manager!Cell, Mgr!Cell,
     Manager!Row, Mgr!Row, Manager!Empty, Mgr!Empty, Manager!Channel, Mgr!Channel,
     Manager!Expired, Mgr!Expired

(* A step between sweeps is a step of the mapped variables. *)
LEMMA QuietStep == ASSUME SInv, SInv', pending = {}, pending' = {}
                   PROVE  /\ MappedTable = table /\ MappedUsed = held
                          /\ MappedTable' = table' /\ MappedUsed' = held'
<1>1. Mgr!TypeOK /\ pending = {} => MappedTable = table /\ MappedUsed = held
  BY MappedQuiet
<1>2. (Mgr!TypeOK /\ pending = {} => MappedTable = table /\ MappedUsed = held)'
  BY MappedQuiet, PTL
<1> QED
  BY <1>1, <1>2 DEF SInv, HInv

(* The steps of the handlers and of the clock map to the same steps. *)
LEMMA PushBackMaps == ASSUME SInv, NEW k \in Key, PushBack(k)
                      PROVE  Manager!PushBack(k)
<1>1. SInv' /\ pending = {} /\ pending' = {}
  BY PushBackInv DEF PushBack, Quiet
<1>2. /\ MappedTable = table /\ MappedUsed = held
      /\ MappedTable' = table' /\ MappedUsed' = held'
  BY <1>1, QuietStep
<1> QED
  BY <1>2, SameLookups DEF PushBack, Mgr!PushBack, Manager!PushBack, MappedTable, MappedUsed

(* The head of the free list is a channel that the abstract manager may take. *)
LEMMA OpenMaps == ASSUME SInv, NEW k \in Key, NEW taken \in BOOLEAN, OpenChannel(k, taken)
                  PROVE  Manager!OpenChannel(k, taken)
<1>1. /\ SInv' /\ pending = {} /\ pending' = {}
      /\ freeHead \in Mgr!Channel \ held /\ held' = held \cup {freeHead}
  BY OpenSteps DEF OpenChannel, Quiet
<1>2. /\ MappedTable = table /\ MappedUsed = held
      /\ MappedTable' = table' /\ MappedUsed' = held'
  BY <1>1, QuietStep
<1>3. Manager!Channel = Mgr!Channel /\ Manager!Expired = Mgr!Expired
  BY DEF Manager!Channel, Mgr!Channel, Manager!Expired, Mgr!Expired
<1>4. /\ ~Manager!HasChannel(k) /\ Manager!CanIns(k) /\ Manager!ins(k) = Mgr!ins(k)
  BY <1>2, SameLookups DEF OpenChannel
<1>5. /\ MappedTable' = [MappedTable EXCEPT ![Manager!ins(k)] =
                           [uiKey |-> k, uiChannelId |-> freeHead]]
      /\ MappedUsed' = MappedUsed \cup {freeHead}
      /\ idle' = [idle EXCEPT ![freeHead] = IF taken THEN 0 ELSE Manager!Expired]
      /\ freeHead \in Manager!Channel \ MappedUsed
  BY <1>1, <1>2, <1>3, <1>4 DEF OpenChannel
<1> QED
  BY <1>4, <1>5 DEF Manager!OpenChannel, MappedTable, MappedUsed

(* The free list is empty when the abstract manager has no channel left.     *)
LEMMA OpenFailsMaps == ASSUME SInv, NEW k \in Key, OpenFails(k)
                       PROVE  Manager!OpenFails(k)
<1>1. SInv' /\ held = Mgr!Channel /\ pending = {} /\ pending' = {} /\ held' = held
  BY OpenFailsInv DEF OpenFails, Quiet, vars
<1>2. /\ MappedTable = table /\ MappedUsed = held
      /\ MappedTable' = table' /\ MappedUsed' = held'
  BY <1>1, QuietStep
<1>3. Manager!Channel = Mgr!Channel /\ Manager!Empty = Mgr!Empty
  BY DEF Manager!Channel, Mgr!Channel, Manager!Empty, Mgr!Empty
<1>4. /\ ~Manager!HasChannel(k) /\ Manager!CanIns(k) /\ Manager!ins(k) = Mgr!ins(k)
  BY <1>2, SameLookups DEF OpenFails
<1>5. /\ MappedTable' = [MappedTable EXCEPT ![Manager!ins(k)] = Manager!Empty]
      /\ MappedUsed' = MappedUsed /\ MappedUsed = Manager!Channel /\ idle' = idle
  BY <1>1, <1>2, <1>3, <1>4 DEF OpenFails
<1> QED
  BY <1>4, <1>5 DEF Manager!OpenFails, MappedTable, MappedUsed

(* The clock is the same one.                                                *)
LEMMA TickMaps == ASSUME SInv, Tick
                  PROVE  Manager!Tick
<1>1. SInv' /\ pending = {} /\ pending' = {}
  BY TickInv DEF Tick, Quiet
<1>2. /\ MappedTable = table /\ MappedUsed = held
      /\ MappedTable' = table' /\ MappedUsed' = held'
  BY <1>1, QuietStep
<1> QED
  BY <1>2 DEF Tick, Mgr!Tick, Manager!Tick, MappedTable, MappedUsed, Manager!Channel, Mgr!Channel,
     Manager!Expired, Mgr!Expired

(* A new process has nothing pending, whatever the old one died in.          *)
LEMMA RestartMaps == ASSUME SInv, Restart
                     PROVE  Manager!Restart
<1>1. Gone' = {} /\ table' = [c \in Mgr!Cell |-> Mgr!Empty] /\ held' = {}
  BY DEF Restart, Mgr!Restart, Gone
<1>2. MappedTable' = table' /\ MappedUsed' = {}
  BY <1>1 DEF MappedTable, MappedUsed
<1> QED
  BY <1>1, <1>2 DEF Restart, Mgr!Restart, Manager!Restart, MappedTable, MappedUsed, Manager!Cell,
     Mgr!Cell, Manager!Row, Mgr!Row, Manager!Empty, Mgr!Empty, Manager!Channel, Mgr!Channel,
     Manager!Expired, Mgr!Expired
-----------------------------------------------------------------------------
(* The first step of a sweep takes all that is stale. *)
LEMMA SweepMaps == ASSUME SInv, Sweep
                   PROVE  Manager!Clean
<1>1. /\ UNCHANGED <<table, idle, held>> /\ pending = {} /\ pending' = Mgr!Seen
  BY DEF Sweep, vars
<1>2. MappedTable = table /\ MappedUsed = held
  BY <1>1, MappedQuiet DEF SInv, HInv
<1>3. Manager!Stale = Mgr!Stale
  <2>1. Manager!Cell = Mgr!Cell /\ \A c \in Mgr!Cell : Manager!Position(c) = Mgr!Position(c)
    BY DEF Manager!Cell, Mgr!Cell, Manager!Row, Mgr!Row, Manager!Position, Mgr!Position
  <2>2. Manager!Occupied = Mgr!Occupied
    BY <1>2, <2>1 DEF Manager!Occupied, Mgr!Occupied, MappedTable
  <2>3. \A c \in Mgr!Occupied : {d \in Manager!Occupied : Manager!Position(d) <= Manager!Position(c)}
                              = {d \in Mgr!Occupied : Mgr!Position(d) <= Mgr!Position(c)}
    BY <2>1, <2>2 DEF Mgr!Occupied
  <2>4. \A S : Manager!Cardinality(S) = Mgr!Cardinality(S)
    BY DEF Manager!Cardinality, Mgr!Cardinality
  <2>5. Manager!Seen = Mgr!Seen
    BY <2>2, <2>3, <2>4 DEF Manager!Seen, Mgr!Seen
  <2> QED
    BY <1>2, <2>5 DEF Manager!Stale, Mgr!Stale, MappedTable
<1>4. Mgr!Stale = Gone'
  BY <1>1 DEF Mgr!Stale, Gone, Old
<1>5. Mgr!Stale \subseteq Occupied /\ Mgr!Stale \subseteq Mgr!Cell
  BY DEF Mgr!Stale, Mgr!Seen, Occupied, Mgr!Occupied
<1>6. {Manager!get(MappedTable[c].uiKey) : c \in Manager!Stale} = Mgr!Stale
  <2>1. \A c \in Mgr!Stale : Manager!get(MappedTable[c].uiKey) = c
    BY <1>2, <1>5, SameLookups, LookupFinds DEF SInv
  <2> QED
    BY <1>3, <2>1
<1>7. /\ MappedTable' = [c \in Manager!Cell |-> IF c \in Mgr!Stale THEN Manager!Empty ELSE MappedTable[c]]
      /\ MappedUsed' = MappedUsed \ {MappedTable[c].uiChannelId : c \in Mgr!Stale}
  BY <1>1, <1>2, <1>4 DEF MappedTable, MappedUsed, Manager!Cell, Mgr!Cell, Manager!Row, Mgr!Row,
     Manager!Empty, Mgr!Empty
<1> QED
  BY <1>1, <1>6, <1>7 DEF Manager!Clean, MappedTable, MappedUsed

(* Its visits change nothing of what the mapping shows. *)
LEMMA VisitMaps == ASSUME SInv, Visit
                   PROVE  UNCHANGED <<MappedTable, MappedUsed, idle>>
<1> DEFINE e == Earliest
<1>1. e \in pending /\ e \in Occupied /\ pending \subseteq Occupied
  BY EarliestFacts DEF Visit, SInv
<1>2. pending' = pending \ {e} /\ idle' = idle
  BY DEF Visit
<1>3. CASE Old(e)
  <2>1. ReleaseChannel(table[e].uiKey)
    BY <1>3 DEF Visit
  <2>2. /\ table' = [table EXCEPT ![e] = Mgr!Empty]
        /\ held' = held \ {table[e].uiChannelId}
        /\ Occupied' = Occupied \ {e} /\ \A c \in Occupied' : table'[c] = table[c]
    BY <1>1, <1>2, <2>1, ReleaseFacts
  <2>3. e \in Gone /\ \A c \in pending' : table'[c] = table[c]
    BY <1>1, <1>2, <1>3, <2>2 DEF Gone
  <2> HIDE DEF e
  <2>4. Gone' = Gone \ {e}
    BY <1>2, <2>3 DEF Gone, Old
  <2>5. \A c \in Gone' : table'[c] = table[c]
    BY <2>3 DEF Gone
  <2>6. MappedUsed' = MappedUsed
    BY <2>2, <2>3, <2>4, <2>5 DEF MappedUsed
  <2>7. \A c \in Mgr!Cell : table'[c] = IF c = e THEN Mgr!Empty ELSE table[c]
    BY <2>2 DEF SInv, HInv, Mgr!TypeOK
  <2>8. MappedTable' = MappedTable
    BY <2>3, <2>4, <2>7 DEF MappedTable
  <2> QED
    BY <1>2, <2>6, <2>8
<1>4. CASE ~Old(e)
  <2>1. UNCHANGED <<table, held>>
    BY <1>4 DEF Visit, vars
  <2> HIDE DEF e
  <2>2. Gone' = Gone
    BY <1>2, <1>4, <2>1 DEF Gone, Old
  <2> QED
    BY <1>2, <2>1, <2>2 DEF MappedTable, MappedUsed
<1> QED
  BY <1>3, <1>4

(* The composition implements the manager.  Everything that                  *)
(* DataChannelMgrProofs shows of a manager with a set of channels holds of   *)
(* CDataChannelMgr with the linked lists of CVoiceChannelAllocMgr, sweeping  *)
(* entry by entry and dying in the middle of a sweep.                        *)
THEOREM ServiceImplementsManager == ServiceSpec => ImplementsManager
<1>1. ServiceInit => SInv
  BY InitInv, InitHash DEF ServiceInit, SInv
<1>2. ServiceInit => Manager!Init
  BY MappedInit
<1>3. SInv /\ [ServiceNext]_serviceVars => [Manager!Next]_(Manager!vars)
  <2> SUFFICES ASSUME SInv, [ServiceNext]_serviceVars
               PROVE  Manager!Next \/ UNCHANGED <<MappedTable, MappedUsed, idle>>
    BY DEF Manager!vars, MappedTable, MappedUsed
  <2>1. CASE UNCHANGED serviceVars
    BY <2>1 DEF serviceVars, vars, MappedTable, MappedUsed, Gone, Old
  <2>2. CASE ServiceNext
    BY <2>2, PushBackMaps, OpenMaps, OpenFailsMaps, TickMaps, RestartMaps, SweepMaps, VisitMaps
       DEF ServiceNext, Manager!Next
  <2> QED
    BY <2>1, <2>2
<1> QED
  BY <1>1, <1>2, <1>3, ServiceStep, PTL DEF ServiceSpec, ImplementsManager, Manager!Spec

-----------------------------------------------------------------------------
(* The invariant of the service. *)
LEMMA ServiceInvariant == ServiceSpec => []SInv
<1>1. ServiceInit => SInv
  BY InitInv, InitHash DEF ServiceInit, SInv
<1> QED
  BY <1>1, ServiceStep, PTL DEF ServiceSpec

(* The channels and the table keep their types, also between the visits of a *)
(* sweep and in a process that dies there.                                   *)
THEOREM ServiceTypeCorrect == ServiceSpec => []ServiceTypeOK
<1>1. SInv => ServiceTypeOK
  BY DEF SInv, IInv, HInv, ServiceTypeOK, Occupied, Mgr!Occupied
<1> QED
  BY <1>1, ServiceInvariant, PTL

(* The pool was shown to work for callers that release what they hold.  The  *)
(* manager is such a caller: the lists stay whole under its allocations and  *)
(* releases too, no channel is lost or handed out twice, and the unguarded   *)
(* stores of a release go to nodes.                                          *)
PoolWhole == ListsLinked /\ NoDoubleAllocation /\ ReleaseStoresInBounds /\ NoChannelLost

THEOREM ServicePoolWhole == ServiceSpec => []PoolWhole
<1>1. SInv => PoolWhole
  BY FreeHeadIsFree, HeldHasNeighbours, WalksMeetAll DEF SInv, IInv, PoolWhole
<1> QED
  BY <1>1, ServiceInvariant, PTL

(* Whatever a sweep has released before, the key of an entry it still has to *)
(* look at leads to that entry, and the channel that a release by this key   *)
(* gives back to the pool is held.                                           *)
SweepReleasesHeld ==
  \A c \in pending : LET k == table[c].uiKey
                     IN  Mgr!Found(k) /\ Mgr!get(k) = c /\ Mgr!ChannelOf(k) \in held

THEOREM ReleasedAreHeld == ServiceSpec => []SweepReleasesHeld
<1>1. SInv => SweepReleasesHeld
  <2> SUFFICES ASSUME SInv, NEW c \in pending
               PROVE  /\ Mgr!Found(table[c].uiKey) /\ Mgr!get(table[c].uiKey) = c
                      /\ Mgr!ChannelOf(table[c].uiKey) \in held
    BY DEF SweepReleasesHeld
  <2>1. c \in Occupied /\ HInv /\ Mgr!TypeOK
    BY DEF SInv, HInv
  <2>2. /\ table[c].uiKey \in Key
        /\ Mgr!Found(table[c].uiKey) /\ Mgr!get(table[c].uiKey) = c
    BY <2>1, LookupFinds
  <2>3. Mgr!ChannelOf(table[c].uiKey) = table[c].uiChannelId
    BY <2>1, <2>2, GetFacts
  <2> QED
    BY <2>1, <2>2, <2>3, HeldFacts
<1> QED
  BY <1>1, ServiceInvariant, PTL
-----------------------------------------------------------------------------
Reachable == \A c \in Occupied : Mgr!Found(table[c].uiKey) /\ Mgr!get(table[c].uiKey) = c

(* Every entry is the one that the lookup of its key returns. *)
LEMMA EntriesReachable == SInv => Reachable
BY LookupFinds DEF SInv, Reachable

(* A key whose entry a step leaves as it is keeps its channel. *)
LEMMA SameEntryStays ==
  ASSUME SInv, Reachable', NEW k \in Key, Mgr!HasChannel(k),
         table'[Mgr!get(k)] = table[Mgr!get(k)]
  PROVE  Mgr!HasChannel(k)' /\ Mgr!ChannelOf(k)' = Mgr!ChannelOf(k)
<1>1. PICK c \in Occupied : c = Mgr!get(k) /\ table[c].uiKey = k
  BY GetFacts DEF SInv, HInv, Mgr!HasChannel
<1>2. c \in Occupied' /\ table'[c].uiKey = k
  BY <1>1 DEF Occupied, Mgr!Occupied
<1>3. Mgr!Found(k)' /\ Mgr!get(k)' = c
  BY <1>2 DEF Reachable
<1> QED
  BY <1>1, <1>3 DEF Mgr!HasChannel, Mgr!ChannelOf

(* A video that was fed within Timeout keeps its channel through every step  *)
(* of the service, the visits of a sweep one by one among them; only a       *)
(* restart takes it away.                                                    *)
FedKeepsItsChannel ==
  [][\A k \in Key :
       (Mgr!HasChannel(k) /\ idle[Mgr!ChannelOf(k)] <= Timeout) =>
          \/ Restart
          \/ Mgr!HasChannel(k)' /\ Mgr!ChannelOf(k)' = Mgr!ChannelOf(k)]_serviceVars

THEOREM ServiceKeepsFed == ServiceSpec => FedKeepsItsChannel
<1> DEFINE Kept(k) == Mgr!HasChannel(k)' /\ Mgr!ChannelOf(k)' = Mgr!ChannelOf(k)
<1>1. ASSUME SInv, Reachable', ServiceNext, NEW k \in Key,
             Mgr!HasChannel(k), idle[Mgr!ChannelOf(k)] <= Timeout
      PROVE  Restart \/ Kept(k)
  <2>1. /\ Mgr!get(k) \in Occupied /\ table[Mgr!get(k)].uiKey = k
        /\ Mgr!ChannelOf(k) = table[Mgr!get(k)].uiChannelId
    BY <1>1, GetFacts DEF SInv, HInv, Mgr!HasChannel
  <2>2. ASSUME table' = table PROVE Kept(k)
    BY <1>1, <2>2, SameEntryStays
  <2>3. ASSUME NEW j \in Key, NEW e, ~Mgr!HasChannel(j), Mgr!CanIns(j),
               table' = [table EXCEPT ![Mgr!ins(j)] = e]
        PROVE  Kept(k)
    <3>1. table[Mgr!ins(j)].uiKey = 0
      BY <1>1, <2>3, InsFacts DEF SInv, HInv
    <3>2. table'[Mgr!get(k)] = table[Mgr!get(k)]
      BY <2>1, <2>3, <3>1 DEF Occupied, Mgr!Occupied
    <3> QED
      BY <1>1, <3>2, SameEntryStays
  <2>4. ASSUME Visit PROVE Kept(k)
    <3>1. CASE ~Old(Earliest)
      BY <2>2, <2>4, <3>1 DEF Visit
    <3>2. CASE Old(Earliest)
      <4>1. Earliest \in Occupied /\ ReleaseChannel(table[Earliest].uiKey) /\ idle' = idle
        BY <1>1, <2>4, <3>2, EarliestFacts DEF Visit
      <4>2. Occupied' = Occupied \ {Earliest} /\ \A c \in Occupied' : table'[c] = table[c]
        BY <1>1, <4>1, ReleaseFacts
      <4>3. Mgr!get(k) # Earliest
        <5>1. idle[Mgr!ChannelOf(k)] \in Nat
          BY <1>1, <2>1, ServiceAssumption
             DEF SInv, HInv, Mgr!TypeOK, Mgr!Entry, Mgr!Expired, Occupied, Mgr!Occupied
        <5> QED
          BY <1>1, <2>1, <3>2, <5>1, ServiceAssumption DEF Old
      <4>4. table'[Mgr!get(k)] = table[Mgr!get(k)]
        BY <2>1, <4>2, <4>3
      <4> QED
        BY <1>1, <4>4, SameEntryStays
    <3> QED
      BY <3>1, <3>2
  <2> HIDE DEF Kept
  <2> QED
    BY <1>1, <2>2, <2>3, <2>4
       DEF ServiceNext, PushBack, Mgr!PushBack, OpenChannel, OpenFails, Sweep, Tick, Mgr!Tick
<1>2. SInv /\ Reachable' /\ [ServiceNext]_serviceVars =>
        [\A k \in Key :
           (Mgr!HasChannel(k) /\ idle[Mgr!ChannelOf(k)] <= Timeout) =>
              \/ Restart
              \/ Mgr!HasChannel(k)' /\ Mgr!ChannelOf(k)' = Mgr!ChannelOf(k)]_serviceVars
  BY <1>1
<1> HIDE DEF Kept
<1> QED
  BY <1>2, EntriesReachable, ServiceInvariant, PTL DEF ServiceSpec, FedKeepsItsChannel
-----------------------------------------------------------------------------
(* There are never more entries than channels. *)
LEMMA ServiceEntriesBounded ==
  ASSUME SInv
  PROVE  IsFiniteSet(Occupied) /\ Cardinality(Occupied) <= NodeNum
<1> DEFINE f == [c \in Occupied |-> table[c].uiChannelId]
<1>1. f \in [Occupied -> Node] /\ \A c, d \in Occupied : f[c] = f[d] => c = d
  BY HeldFacts DEF SInv, HInv, Mgr!OneToOne, Occupied
<1>2. IsFiniteSet(Node) /\ Cardinality(Node) = NodeNum
  BY FS_Interval, NodeNumAssumption DEF Node
<1>3. f \in Injection(Occupied, Node)
  BY <1>1 DEF Injection, IsInjective
<1> QED
  BY <1>2, <1>3, FS_Injection

(* So a sweep looks at all of them. *)
LEMMA SeesAllEntries ==
  ASSUME SInv PROVE Mgr!Seen = Occupied
<1>1. IsFiniteSet(Occupied) /\ Cardinality(Occupied) <= NodeNum
  BY ServiceEntriesBounded
<1>2. ASSUME NEW c \in Occupied
      PROVE  Cardinality({d \in Occupied : Mgr!Position(d) <= Mgr!Position(c)}) <= NodeNum
  <2> DEFINE D == {d \in Occupied : Mgr!Position(d) <= Mgr!Position(c)}
  <2>1. IsFiniteSet(D) /\ Cardinality(D) <= Cardinality(Occupied)
    BY <1>1, FS_Subset
  <2>2. Cardinality(D) \in Nat /\ Cardinality(Occupied) \in Nat
    BY <1>1, <2>1, FS_CardinalityType
  <2> HIDE DEF D
  <2>3. Cardinality(D) <= NodeNum
    BY <1>1, <2>1, <2>2, NodeNumAssumption
  <2> QED
    BY <2>3 DEF D
<1>3. \A S : Mgr!Cardinality(S) = Cardinality(S)
  BY DEF Mgr!Cardinality, Cardinality
<1> QED
  BY <1>2, <1>3 DEF Mgr!Seen, Occupied

(* The stale entries that a sweep in progress has not released are among     *)
(* those it still has to look at.                                            *)
NoneBehind == pending # {} => \A c \in Occupied : Old(c) => c \in pending

LEMMA VisitLeaves ==
  ASSUME SInv, NoneBehind, Visit
  PROVE  \A c \in Occupied' : Old(c)' => c \in pending'
<1> DEFINE e == Earliest
<1>1. e \in pending /\ e \in Occupied
  BY EarliestFacts DEF Visit
<1>2. pending' = pending \ {e} /\ idle' = idle /\ \A c \in Occupied : Old(c) => c \in pending
  BY DEF Visit, NoneBehind
<1>3. CASE Old(e)
  <2>1. ReleaseChannel(table[e].uiKey)
    BY <1>3 DEF Visit
  <2>2. Occupied' = Occupied \ {e} /\ \A c \in Occupied' : table'[c] = table[c]
    BY <1>1, <1>2, <2>1, ReleaseFacts
  <2> HIDE DEF e
  <2> QED
    BY <1>2, <2>2 DEF Old
<1>4. CASE ~Old(e)
  <2>1. table' = table
    BY <1>4 DEF Visit
  <2>2. Occupied' = Occupied
    BY <2>1 DEF Occupied, Mgr!Occupied
  <2> HIDE DEF e
  <2> QED
    BY <1>2, <1>4, <2>1, <2>2 DEF Old
<1> QED
  BY <1>3, <1>4

LEMMA NoneLeftBehind == ServiceSpec => []NoneBehind
<1>1. ServiceInit => NoneBehind
  BY DEF ServiceInit, NoneBehind
<1>2. SInv /\ NoneBehind /\ [ServiceNext]_serviceVars => NoneBehind'
  <2> SUFFICES ASSUME SInv, NoneBehind, [ServiceNext]_serviceVars PROVE NoneBehind'
    OBVIOUS
  <2>1. CASE UNCHANGED serviceVars
    BY <2>1 DEF serviceVars, NoneBehind, Occupied, Mgr!Occupied, Old
  <2>2. CASE Sweep
    <3>1. pending' = Occupied /\ table' = table
      BY <2>2, SeesAllEntries DEF Sweep
    <3>2. Occupied' = Occupied
      BY <3>1 DEF Occupied, Mgr!Occupied
    <3> QED
      BY <3>1, <3>2 DEF NoneBehind
  <2>3. CASE Visit
    BY <2>3, VisitLeaves DEF NoneBehind
  <2>4. ASSUME pending' = {} PROVE NoneBehind'
    BY <2>4 DEF NoneBehind
  <2> QED
    BY <2>1, <2>2, <2>3, <2>4
       DEF ServiceNext, PushBack, OpenChannel, OpenFails, Tick, Restart, Quiet
<1> QED
  BY <1>1, <1>2, ServiceInvariant, PTL DEF ServiceSpec

(* When a sweep has made its last visit no channel is left that no frame has *)
(* reached for longer than Timeout: not the cut-off by the size of the pool  *)
(* nor anything released on the way hides one.                               *)
SweepEndsClean == [][Visit /\ pending' = {} => \A c \in Occupied' : ~Old(c)']_serviceVars

THEOREM ServiceSweepComplete == ServiceSpec => SweepEndsClean
<1>1. SInv /\ NoneBehind /\ [ServiceNext]_serviceVars =>
        [Visit /\ pending' = {} => \A c \in Occupied' : ~Old(c)']_serviceVars
  BY VisitLeaves
<1> QED
  BY <1>1, NoneLeftBehind, ServiceInvariant, PTL DEF ServiceSpec, SweepEndsClean
=============================================================================
