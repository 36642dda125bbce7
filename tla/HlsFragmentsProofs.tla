------------------------- MODULE HlsFragmentsProofs -------------------------
(* Why players get what a playlist lists, for a window, slots, frames and    *)
(* times of any size and calls nested to any depth.                          *)
(*                                                                           *)
(* Handlers change the session and its memory in four ways only: they set a  *)
(* duration, reopen, store a packet, or start a new session.  So the         *)
(* invariant is about those (Core), whatever calls are in progress: the ring *)
(* of fragment records holds the window and the open fragment, that of       *)
(* memory slots the last 2 * WinFrags - 1 and the open one, and the playlist *)
(* is what the ring of records was when the last fragment was closed.        *)
(* Numbers less than the size of the rings apart do not share a slot.        *)
EXTENDS HlsFragments, NaturalTheorems, SequenceTheorems

CoreType ==
  /\ opened \in BOOLEAN /\ frag \in Nat /\ nfrags \in 0 .. WinFrags
  /\ frags \in [Slot -> Fragment]
  /\ mem \in [Slot -> [id : Nat \cup {Overrun}, len : Nat]]
  /\ playlist \in [sequence : Nat, target : Nat, list : Seq(Fragment)]

(* A session that has nothing open has not closed anything either. *)
NothingYet == ~opened => frag = 0 /\ nfrags = 0

OpenServed == opened => Served(fragid)
RecordsOfWindow == opened => \A id \in frag .. fragid : frags[slot(id)].id = id

Core == /\ CoreType /\ NothingYet /\ OpenServed /\ RecordsOfWindow
        /\ ListedAreServed /\ RecentStillServed /\ TargetCoversList

Call == {"flush", "put", "video", "append"}
CallsType == audio \in 0 .. AudioLen /\ video \in Nat /\ work \in Seq(Call)

IInv == Core /\ CallsType

(* The ring is twice the window and one.                                     *)
LEMMA Sizes == /\ WinFrags \in Nat /\ WinFrags > 0
               /\ MAX_FRAGMENT_NUM \in Nat /\ MAX_FRAGMENT_NUM = 2 * WinFrags + 1
  BY SizesAssumption DEF MAX_FRAGMENT_NUM

(* What is needed of slots: from here on slot itself is not looked into. *)
LEMMA SlotFacts ==
  /\ \A m \in Nat : slot(m) \in Slot
  /\ \A m, n \in Nat : m < n /\ n - m <= 2 * WinFrags => slot(m) # slot(n)
  /\ \A n \in Nat : slot(n) + 1 \in Slot => slot(n + 1) = slot(n) + 1
<1>0. MAX_FRAGMENT_NUM \in Nat /\ MAX_FRAGMENT_NUM > 0
  BY Sizes
<1>1. \A m \in Nat : slot(m) \in Slot
  BY <1>0 DEF slot, Slot
<1>2. ASSUME NEW m \in Nat, NEW n \in Nat, m < n, n - m <= 2 * WinFrags
      PROVE  slot(m) # slot(n)
  <2>1. n - m < MAX_FRAGMENT_NUM
    BY <1>2, Sizes
  <2>2. m % MAX_FRAGMENT_NUM # n % MAX_FRAGMENT_NUM
    BY <1>0, <1>2, <2>1, ApartInRing
  <2> QED
    BY <2>2 DEF slot
<1>3. ASSUME NEW n \in Nat, slot(n) + 1 \in Slot PROVE slot(n + 1) = slot(n) + 1
  <2> DEFINE r == n % MAX_FRAGMENT_NUM
  <2>1. r \in Nat /\ MAX_FRAGMENT_NUM \in Nat /\ r + 1 \in 0 .. MAX_FRAGMENT_NUM - 1
    BY <1>0, <1>3 DEF slot, Slot
  <2> HIDE DEF r
  <2>2. r + 1 < MAX_FRAGMENT_NUM
    BY <2>1
  <2> USE DEF r
  <2> QED
    BY <1>0, <2>2, NextInRing DEF slot
<1> QED
  BY <1>1, <1>2, <1>3
-----------------------------------------------------------------------------
(* A duration that is more than m seconds does not round to less than m, and *)
(* one that is not does not round to more.                                   *)
LEMMA RoundedFacts == ASSUME NEW d \in Nat, NEW m \in Nat
                      PROVE  /\ Rounded(d) \in Nat
                             /\ d > m * Second => Rounded(d) >= m
                             /\ d <= m * Second => Rounded(d) <= m
<1> DEFINE s == Second
           q == (2 * d + s) \div (2 * s)
           r == (2 * d + s) % (2 * s)
           p == m * s
<1>1. s \in Nat /\ s > 0 /\ 2 * s \in Nat /\ 2 * s > 0 /\ 2 * d + s \in Nat
  BY TimeAssumption
<1>2. q \in Nat /\ r \in Nat /\ r < 2 * s /\ 2 * d + s = (2 * s) * q + r
  BY <1>1
<1>3. p \in Nat /\ s * m = p
  BY <1>1
<1>4. (2 * s) * q = 2 * (s * q) /\ s * q \in Nat
  BY <1>1, <1>2
<1>5. Rounded(d) = q
  BY DEF Rounded
<1> HIDE DEF q, r, s, p
<1>6. ASSUME d > p, q < m PROVE FALSE
  <2>1. PICK e \in Nat : m = q + 1 + e
    BY <1>2, <1>6
  <2>2. s * m = s * q + s + s * e /\ s * e \in Nat
    BY <1>1, <1>2, <2>1
  <2> QED
    BY <1>1, <1>2, <1>3, <1>4, <1>6, <2>2
<1>7. ASSUME d <= p, q > m PROVE FALSE
  <2>1. PICK e \in Nat : q = m + 1 + e
    BY <1>2, <1>7
  <2>2. s * q = s * m + s + s * e /\ s * e \in Nat
    BY <1>1, <1>2, <2>1
  <2> QED
    BY <1>1, <1>2, <1>3, <1>4, <1>7, <2>2
<1>8. (d > p => q >= m) /\ (d <= p => q <= m)
  BY <1>2, <1>6, <1>7
<1> QED
  BY <1>2, <1>5, <1>8 DEF s, p

(* One turn of the loop of hls_write_playlist, from the target m so far. *)
Turn(m, d) == IF d > m * Second THEN Rounded(d) ELSE m

(* A turn raises the target if need be, and to no less than the duration.    *)
LEMMA TurnFacts == ASSUME NEW m \in Nat, NEW d \in Nat
                   PROVE  Turn(m, d) \in Nat /\ Turn(m, d) >= m /\ Turn(m, d) >= Rounded(d)
<1>1. m * Second \in Nat
  BY TimeAssumption
<1> DEFINE p == m * Second
           q == Rounded(d)
<1>2. q \in Nat /\ p \in Nat /\ (d > p => q >= m) /\ (d <= p => q <= m)
  BY <1>1, RoundedFacts
<1>3. Turn(m, d) = IF d > p THEN q ELSE m
  BY DEF Turn
<1> HIDE DEF p, q
<1>4. Turn(m, d) \in Nat /\ Turn(m, d) >= m /\ Turn(m, d) >= q
  BY <1>2, <1>3
<1> QED
  BY <1>4 DEF q

(* g holds the targets after each of the first k turns. *)
Turns(g, k, list) ==
  /\ g \in [0 .. k -> Nat] /\ g[0] = FragLen \div Second
  /\ \A i \in 1 .. k : g[i] = Turn(g[i - 1], list[i].duration)

(* The loop has a result for every list, so the recursive definition of      *)
(* Target does define something.                                             *)
LEMMA LoopEnds == ASSUME NEW list \in Seq(Fragment), NEW n \in 0 .. Len(list)
                  PROVE  \E g : Turns(g, n, list)
<1> DEFINE T == {k \in 0 .. Len(list) : ~\E g : Turns(g, k, list)}
<1> SUFFICES ASSUME T # {} PROVE FALSE
  OBVIOUS
<1>1. T \in SUBSET Nat
  OBVIOUS
<1> HIDE DEF T
<1>2. PICK k \in T : \A j \in T : k <= j
  BY <1>1, LeastMember
<1> USE DEF T
<1>3. k \in Nat /\ k \in 0 .. Len(list) /\ ~\E g : Turns(g, k, list)
  OBVIOUS
<1>4. FragLen \div Second \in Nat
  BY TimeAssumption
<1>5. k # 0
  <2>1. Turns([i \in 0 .. 0 |-> FragLen \div Second], 0, list)
    BY <1>4 DEF Turns
  <2> QED
    BY <1>3, <2>1
<1>6. k - 1 \in 0 .. Len(list) /\ k - 1 \notin T
  BY <1>1, <1>2, <1>3, <1>5
<1>7. PICK g : Turns(g, k - 1, list)
  BY <1>6
<1> DEFINE h == [i \in 0 .. k |-> IF i < k THEN g[i] ELSE Turn(g[k - 1], list[k].duration)]
<1>8. list[k].duration \in Nat
  <2>1. list[k] \in Fragment
    BY <1>3, <1>5
  <2> QED
    BY <2>1 DEF Fragment
<1>9. g[k - 1] \in Nat
  BY <1>3, <1>5, <1>7 DEF Turns
<1>10. Turn(g[k - 1], list[k].duration) \in Nat
  BY <1>8, <1>9, TurnFacts
<1>11. h \in [0 .. k -> Nat]
  BY <1>3, <1>7, <1>10 DEF Turns
<1>12. h[0] = FragLen \div Second
  BY <1>3, <1>5, <1>7 DEF Turns
<1>13. ASSUME NEW i \in 1 .. k PROVE h[i] = Turn(h[i - 1], list[i].duration)
  <2>1. h[i - 1] = g[i - 1]
    BY <1>3
  <2>2. CASE i < k
    <3>1. h[i] = g[i] /\ i \in 1 .. k - 1
      BY <1>3, <2>2
    <3> QED
      BY <1>7, <2>1, <3>1 DEF Turns
  <2>3. CASE i = k
    BY <1>3, <2>1, <2>3
  <2> QED
    BY <1>3, <2>2, <2>3
<1> HIDE DEF h
<1>14. Turns(h, k, list)
  BY <1>11, <1>12, <1>13 DEF Turns
<1> QED
  BY <1>3, <1>14

(* The target covers every fragment of its list. *)
LEMMA TargetFacts == ASSUME NEW list \in Seq(Fragment)
                     PROVE  /\ Target(list) \in Nat
                            /\ \A i \in 1 .. Len(list) : Rounded(list[i].duration) <= Target(list)
<1> DEFINE n == Len(list)
<1>1. n \in Nat /\ n \in 0 .. n
  OBVIOUS
<1>2. PICK g : Turns(g, n, list)
  BY <1>1, LoopEnds
<1>3. \A i \in 1 .. n : list[i].duration \in Nat
  <2>1. \A i \in 1 .. n : list[i] \in Fragment
    OBVIOUS
  <2> QED
    BY <2>1 DEF Fragment
<1> DEFINE Loop(f) == f = [i \in 0 .. n |->
                             IF i = 0 THEN FragLen \div Second
                             ELSE IF list[i].duration > f[i - 1] * Second
                                  THEN Rounded(list[i].duration) ELSE f[i - 1]]
           max == CHOOSE f : Loop(f)
<1> HIDE DEF n
<1>4. Loop(g)
  <2>1. ASSUME NEW i \in 0 .. n
        PROVE  g[i] = IF i = 0 THEN FragLen \div Second
                      ELSE IF list[i].duration > g[i - 1] * Second
                           THEN Rounded(list[i].duration) ELSE g[i - 1]
    BY <1>1, <1>2 DEF Turns, Turn
  <2>2. g \in [0 .. n -> Nat]
    BY <1>2 DEF Turns
  <2> QED
    BY <2>1, <2>2
<1>5. Target(list) = max[n]
  BY Zenon DEF Target, n
<1> HIDE DEF Loop
<1>6. Loop(max)
  BY <1>4
<1> HIDE DEF max
<1>7. \A i \in 0 .. n : max[i] = g[i]
  <2> DEFINE T == {i \in 0 .. n : max[i] # g[i]}
  <2> SUFFICES ASSUME T # {} PROVE FALSE
    OBVIOUS
  <2>1. T \in SUBSET Nat
    BY <1>1
  <2> HIDE DEF T
  <2>2. PICK k \in T : \A j \in T : k <= j
    BY <2>1, LeastMember
  <2>3. k \in 0 .. n /\ max[k] # g[k]
    BY <2>2 DEF T
  <2>4. k # 0
    BY <1>4, <1>6, <2>3 DEF Loop
  <2>5. k - 1 \in 0 .. n /\ k - 1 \notin T
    BY <1>1, <2>1, <2>2, <2>3, <2>4
  <2>6. max[k - 1] = g[k - 1]
    BY <2>5 DEF T
  <2> QED
    BY <1>4, <1>6, <2>3, <2>4, <2>6 DEF Loop
<1>8. ASSUME NEW i \in 1 .. n
      PROVE  g[i - 1] \in Nat /\ g[i] \in Nat /\ g[i] >= g[i - 1] /\ g[i] >= Rounded(list[i].duration)
  <2>1. g[i - 1] \in Nat /\ g[i] \in Nat /\ g[i] = Turn(g[i - 1], list[i].duration)
    BY <1>1, <1>2 DEF Turns
  <2>2. list[i].duration \in Nat
    BY <1>3
  <2> QED
    BY <2>1, <2>2, TurnFacts
<1>9. ASSUME NEW i \in 1 .. n PROVE Rounded(list[i].duration) <= g[n]
  <2> DEFINE T == {j \in i .. n : ~(Rounded(list[i].duration) <= g[j])}
  <2>1. T = {}
    <3> SUFFICES ASSUME T # {} PROVE FALSE
      OBVIOUS
    <3>1. T \in SUBSET Nat
      BY <1>1
    <3> HIDE DEF T
    <3>2. PICK k \in T : \A j \in T : k <= j
      BY <3>1, LeastMember
    <3>3. k \in i .. n /\ ~(Rounded(list[i].duration) <= g[k])
      BY <3>2 DEF T
    <3>4. Rounded(list[i].duration) \in Nat
      BY <1>3, RoundedFacts
    <3>5. k # i
      BY <1>8, <3>3, <3>4
    <3>6. k - 1 \in i .. n /\ k \in 1 .. n
      BY <1>1, <3>3, <3>5
    <3>7. k - 1 \notin T
      BY <3>1, <3>2, <3>6
    <3>8. Rounded(list[i].duration) <= g[k - 1]
      BY <3>6, <3>7 DEF T
    <3> QED
      BY <1>8, <3>3, <3>4, <3>6, <3>8
  <2> QED
    BY <1>1, <2>1
<1>10. g[n] \in Nat
  BY <1>1, <1>2 DEF Turns
<1> QED
  BY <1>1, <1>5, <1>7, <1>9, <1>10 DEF n
-----------------------------------------------------------------------------
(* A playlist p of the n fragments from number f on lists them, with a       *)
(* target that covers them.                                                  *)
ListsFrom(p, f, n) ==
  /\ p \in [sequence : Nat, target : Nat, list : Seq(Fragment)]
  /\ p.sequence = f /\ Len(p.list) = n
  /\ \A i \in 1 .. n : p.list[i].id = f + i - 1
  /\ \A i \in 1 .. Len(p.list) : Rounded(p.list[i].duration) <= p.target

(* What is written from records of the window is such a playlist.            *)
LEMMA PlaylistFacts ==
  ASSUME NEW f \in Nat, NEW n \in Nat, NEW fr \in [Slot -> Fragment],
         \A id \in f .. f + n - 1 : fr[slot(id)].id = id
  PROVE  ListsFrom(Playlist(f, n, fr), f, n)
<1> DEFINE list == [i \in 1 .. n |-> fr[slot(f + i - 1)]]
           p == Playlist(f, n, fr)
<1>1. \A i \in 1 .. n : f + i - 1 \in Nat /\ slot(f + i - 1) \in Slot
  BY SlotFacts
<1>2. list \in [1 .. n -> Fragment]
  BY <1>1
<1>3. list \in Seq(Fragment) /\ Len(list) = n
  BY <1>2
<1>4. \A i \in 1 .. n : list[i].id = f + i - 1
  BY <1>1
<1>5. p = [sequence |-> f, target |-> Target(list), list |-> list]
  BY DEF Playlist
<1> HIDE DEF list, p
<1>6. ListsFrom(p, f, n)
  BY <1>3, <1>4, <1>5, TargetFacts DEF ListsFrom
<1> QED
  BY <1>6 DEF p

(* Nothing of the session or its memory changes. *)
LEMMA SameCore == ASSUME Core, UNCHANGED <<session, fragmem>>
                  PROVE  Core'
  BY DEF Core, session, fragmem, CoreType, NothingYet, OpenServed, RecordsOfWindow, ListedAreServed,
     RecentStillServed, TargetCoversList, Listed, Served, fragid, slot, MAX_FRAGMENT_NUM

(* A session starts: nothing is promised of the memory that it finds. *)
LEMMA CreateCore == ASSUME Core, CreateSession
                    PROVE  Core'
<1>1. CoreType'
  <2>1. 0 \in 0 .. WinFrags
    BY Sizes
  <2>2. [id |-> 0, duration |-> 0] \in Fragment
    BY DEF Fragment
  <2> QED
    BY <2>1, <2>2 DEF Core, CoreType, CreateSession, fragmem
<1>2. opened' = FALSE /\ frag' = 0 /\ nfrags' = 0 /\ playlist' = playlist
  BY DEF CreateSession, fragmem
<1>3. TargetCoversList'
  BY <1>2 DEF Core, TargetCoversList
<1> QED
  BY <1>1, <1>2, <1>3 DEF Core, NothingYet, OpenServed, RecordsOfWindow, ListedAreServed,
     RecentStillServed, fragid

(* The records fr differ from those of the session in durations only. *)
SameNumbers(fr) == fr \in [Slot -> Fragment] /\ \A i \in Slot : fr[i].id = frags[i].id

(* The duration of the open fragment grows. *)
LEMMA TimedCore == ASSUME Core, NEW fr, SameNumbers(fr), frags' = fr,
                          UNCHANGED <<opened, frag, nfrags, fragmem>>
                   PROVE  Core'
<1>1. CoreType'
  BY DEF Core, CoreType, SameNumbers, fragmem
<1>2. \A id \in Nat : slot(id) \in Slot
  BY SlotFacts
<1>3. RecordsOfWindow'
  <2> SUFFICES ASSUME opened, NEW id \in frag .. fragid PROVE fr[slot(id)].id = id
    BY DEF RecordsOfWindow, fragid, slot, MAX_FRAGMENT_NUM
  <2>1. id \in Nat /\ frags[slot(id)].id = id
    BY DEF Core, CoreType, RecordsOfWindow
  <2> QED
    BY <1>2, <2>1 DEF SameNumbers
<1> QED
  BY <1>1, <1>3 DEF Core, fragmem, NothingYet, OpenServed, ListedAreServed, RecentStillServed,
     TargetCoversList, Listed, Served, fragid, slot, MAX_FRAGMENT_NUM

(* A fragment is opened as number fragid, the first of a session or the next *)
(* after the one just closed.                                                *)
LEMMA OpenCore ==
  ASSUME Core, NEW f \in Nat, NEW n \in 0 .. WinFrags, NEW fr \in [Slot -> Fragment],
         Open(f, n, fr), frag <= f,
         \/ ~opened /\ f = frag /\ n = nfrags /\ playlist' = playlist
         \/ opened /\ f + n = fragid + 1 /\ playlist' = Playlist(f, n, fr),
         opened => \A id \in f .. f + n - 1 : fr[slot(id)].id = id
  PROVE  Core'
<1> DEFINE id0 == f + n
<1>1. /\ CoreType /\ frag \in Nat /\ nfrags \in Nat /\ n \in Nat /\ n <= WinFrags
      /\ WinFrags \in Nat /\ WinFrags > 0 /\ id0 \in Nat /\ fragid \in Nat
  <2>1. WinFrags \in Nat /\ WinFrags > 0
    BY Sizes
  <2>2. CoreType /\ frag \in Nat /\ nfrags \in 0 .. WinFrags
    BY DEF Core, CoreType
  <2>3. \A m \in 0 .. WinFrags : m \in Nat /\ m <= WinFrags
    BY <2>1
  <2>4. nfrags \in Nat /\ n \in Nat /\ n <= WinFrags
    BY <2>2, <2>3
  <2> QED
    BY <2>1, <2>2, <2>4 DEF fragid
<1>2. /\ opened' = TRUE /\ frag' = f /\ nfrags' = n /\ fragid' = id0
      /\ frags' = [fr EXCEPT ![slot(id0)] = [id |-> id0, duration |-> 0]]
      /\ mem' = [mem EXCEPT ![slot(id0)] = [id |-> id0, len |-> HeaderLen]]
  BY DEF Open, fragid
<1>3. slot(id0) \in Slot /\ \A id \in Nat : slot(id) \in Slot
  BY <1>1, SlotFacts
<1>4. \A id \in Nat : id < id0 /\ id0 - id <= 2 * WinFrags => slot(id) # slot(id0)
  BY <1>1, SlotFacts
<1>5. ~opened => f = 0 /\ n = 0
  BY DEF Core, NothingYet
<1>6. /\ playlist' \in [sequence : Nat, target : Nat, list : Seq(Fragment)]
      /\ TargetCoversList'
      /\ n > 0 => /\ playlist'.sequence = f /\ Len(playlist'.list) = n
                  /\ \A i \in 1 .. n : playlist'.list[i].id = f + i - 1
  <2>1. CASE ~opened
    BY <1>5, <2>1 DEF Core, CoreType, TargetCoversList
  <2>2. CASE opened
    <3>1. playlist' = Playlist(f, n, fr) /\ \A id \in f .. f + n - 1 : fr[slot(id)].id = id
      BY <2>2
    <3>2. f \in Nat /\ n \in Nat /\ fr \in [Slot -> Fragment]
      BY <1>1
    <3>3. ListsFrom(Playlist(f, n, fr), f, n)
      BY <3>1, <3>2, PlaylistFacts
    <3>4. ListsFrom(playlist', f, n)
      BY <3>1, <3>3
    <3> QED
      BY <3>4 DEF ListsFrom, TargetCoversList
  <2> QED
    BY <2>1, <2>2
<1>7. CoreType'
  <2>1. frags' \in [Slot -> Fragment]
    BY <1>1, <1>2 DEF Fragment
  <2>2. mem' \in [Slot -> [id : Nat \cup {Overrun}, len : Nat]]
    BY <1>1, <1>2 DEF CoreType, HeaderLen
  <2> QED
    BY <1>2, <1>6, <2>1, <2>2 DEF CoreType
<1> HIDE DEF id0
<1>8. Served(id0)'
  BY <1>1, <1>2, <1>3 DEF Served, CoreType, slot, MAX_FRAGMENT_NUM
<1>9. ASSUME NEW id \in Nat, id < id0, id0 - id < 2 * WinFrags
      PROVE  mem'[slot(id)].id = id
  <2>1. opened /\ id0 = fragid + 1
    BY <1>1, <1>5, <1>9 DEF id0
  <2>2. Served(id)
    <3>1. CASE id = fragid
      BY <2>1, <3>1 DEF Core, OpenServed
    <3>2. CASE id # fragid
      <4>1. id \in 0 .. fragid - 1 /\ fragid - id < 2 * WinFrags
        BY <1>1, <1>9, <2>1, <3>2
      <4> QED
        BY <4>1 DEF Core, RecentStillServed
    <3> QED
      BY <3>1, <3>2
  <2>3. slot(id) # slot(id0) /\ slot(id) \in Slot
    BY <1>1, <1>3, <1>4, <1>9
  <2> QED
    BY <1>1, <1>2, <2>2, <2>3 DEF Served, CoreType
<1>10. RecentStillServed'
  <2> SUFFICES ASSUME NEW id \in 0 .. id0 - 1, id0 - id < 2 * WinFrags
               PROVE  mem'[slot(id)].id = id
    BY <1>2 DEF RecentStillServed, Served, slot, MAX_FRAGMENT_NUM
  <2> QED
    BY <1>1, <1>9
<1>11. RecordsOfWindow'
  <2> SUFFICES ASSUME NEW id \in f .. id0 PROVE frags'[slot(id)].id = id
    BY <1>2 DEF RecordsOfWindow, slot, MAX_FRAGMENT_NUM
  <2>1. CASE id = id0
    BY <1>2, <1>3, <2>1
  <2>2. CASE id # id0
    <3>1. id \in Nat /\ id < id0 /\ id0 - id <= 2 * WinFrags /\ n # 0
      BY <1>1, <2>2 DEF id0
    <3>2. slot(id) # slot(id0) /\ slot(id) \in Slot
      BY <1>1, <1>3, <1>4, <3>1
    <3>3. fr[slot(id)].id = id
      BY <1>1, <1>5, <2>2, <3>1 DEF id0
    <3> QED
      BY <1>2, <1>3, <3>2, <3>3
  <2> QED
    BY <2>1, <2>2
<1>12. ListedAreServed'
  <2> SUFFICES ASSUME n > 0 PROVE \A id \in f .. id0 - 1 : mem'[slot(id)].id = id
    BY <1>2, <1>6 DEF ListedAreServed, Listed, Served, slot, MAX_FRAGMENT_NUM
  <2> QED
    BY <1>1, <1>9 DEF id0
<1> QED
  BY <1>2, <1>6, <1>7, <1>8, <1>10, <1>11, <1>12 DEF Core, NothingYet, OpenServed
(* What hls_close_fragment and hls_open_fragment open. *)
LEMMA ReopenOpens ==
  ASSUME Core, NEW fr, SameNumbers(fr), Reopen(fr)
  PROVE  \E f \in Nat, n \in 0 .. WinFrags :
           /\ Open(f, n, fr) /\ frag <= f
           /\ \/ ~opened /\ f = frag /\ n = nfrags /\ playlist' = playlist
              \/ opened /\ f + n = fragid + 1 /\ playlist' = Playlist(f, n, fr)
           /\ opened => \A id \in f .. f + n - 1 : fr[slot(id)].id = id
<1>1. /\ CoreType /\ frag \in Nat /\ nfrags \in 0 .. WinFrags /\ WinFrags \in Nat /\ WinFrags > 0
      /\ fragid = frag + nfrags
  BY Sizes DEF Core, CoreType, fragid
<1>2. CASE ~opened
  BY <1>1, <1>2 DEF Reopen
<1>3. CASE opened
  <2> DEFINE f == IF nfrags = WinFrags THEN frag + 1 ELSE frag
             n == IF nfrags = WinFrags THEN nfrags ELSE nfrags + 1
  <2>1. f \in Nat /\ n \in 0 .. WinFrags /\ frag <= f /\ f + n = fragid + 1
    BY <1>1
  <2>2. Open(f, n, fr) /\ playlist' = Playlist(f, n, fr)
    BY <1>3 DEF Reopen
  <2> HIDE DEF f, n
  <2>3. ASSUME NEW id \in f .. f + n - 1 PROVE fr[slot(id)].id = id
    <3>1. id \in frag .. fragid /\ id \in Nat
      BY <1>1, <2>1
    <3> QED
      BY <1>3, <3>1, SlotFacts DEF Core, RecordsOfWindow, SameNumbers
  <2> QED
    BY <1>3, <2>1, <2>2, <2>3
<1> QED
  BY <1>2, <1>3

(* Closing a fragment and opening the next keeps the core.                   *)
LEMMA ReopenCore == ASSUME Core, NEW fr, SameNumbers(fr), Reopen(fr)
                    PROVE  Core'
<1>1. fr \in [Slot -> Fragment]
  BY DEF SameNumbers
<1> QED
  BY <1>1, ReopenOpens, OpenCore

(* A packet reaches the header of the open fragment's slot and, if it goes   *)
(* past its end, of the next one, which is the oldest of the ring.           *)
LEMMA StoreFacts ==
  ASSUME Core, mem' = Stored
  PROVE  /\ mem' \in [Slot -> [id : Nat \cup {Overrun}, len : Nat]]
         /\ mem'[slot(fragid)].id = mem[slot(fragid)].id
         /\ \A id \in Nat : id < fragid /\ fragid - id < 2 * WinFrags =>
               mem'[slot(id)] = mem[slot(id)]
<1> DEFINE s == slot(fragid)
           stored == [mem EXCEPT ![s].len = @ + 1]
<1>1. fragid \in Nat /\ CoreType
  BY DEF Core, CoreType, fragid
<1>2. s \in Slot /\ s \in Nat /\ (s + 1 \in Slot => s + 1 = slot(fragid + 1))
  BY <1>1, SlotFacts DEF Slot
<1>3. mem' = IF mem[s].len >= MaxTsLen /\ s + 1 \in Slot
             THEN [stored EXCEPT ![s + 1].id = Overrun] ELSE stored
  BY DEF Stored
<1>4. ASSUME NEW id \in Nat, id < fragid, fragid - id < 2 * WinFrags
      PROVE  slot(id) \in Slot /\ slot(id) # s /\ (s + 1 \in Slot => slot(id) # s + 1)
  <2>1. slot(id) # s
    BY <1>1, <1>4, SlotFacts, Sizes
  <2>2. slot(id) # slot(fragid + 1)
    <3>1. fragid + 1 \in Nat /\ id < fragid + 1 /\ (fragid + 1) - id <= 2 * WinFrags
      BY <1>1, <1>4, Sizes
    <3> QED
      BY <3>1, SlotFacts
  <2> QED
    BY <1>2, <2>1, <2>2, SlotFacts
<1>5. s + 1 # s
  BY <1>2
<1> HIDE DEF s
<1>6. mem \in [Slot -> [id : Nat \cup {Overrun}, len : Nat]]
  BY <1>1 DEF CoreType
<1>7. /\ stored \in [Slot -> [id : Nat \cup {Overrun}, len : Nat]]
      /\ stored[s].id = mem[s].id
      /\ \A i \in Slot : i # s => stored[i] = mem[i]
  BY <1>2, <1>6
<1> HIDE DEF stored
<1>8. /\ mem' \in [Slot -> [id : Nat \cup {Overrun}, len : Nat]]
      /\ mem'[s].id = mem[s].id
      /\ \A i \in Slot : i # s /\ (s + 1 \in Slot => i # s + 1) => mem'[i] = mem[i]
  BY <1>2, <1>3, <1>5, <1>7
<1> QED
  BY <1>4, <1>8 DEF s

(* So does a packet, in its place or past the end of its slot.               *)
LEMMA StoreCore == ASSUME Core, mem' = Stored, UNCHANGED <<session, playlist>>
                   PROVE  Core'
<1>1. /\ frag \in Nat /\ nfrags \in Nat /\ nfrags <= WinFrags /\ WinFrags \in Nat /\ WinFrags > 0
      /\ fragid \in Nat /\ fragid = frag + nfrags
  BY Sizes DEF Core, CoreType, fragid
<1>2. /\ UNCHANGED <<opened, frag, nfrags, frags, playlist>> /\ fragid' = fragid
  BY DEF session, fragid
<1>3. CoreType' /\ TargetCoversList' /\ NothingYet' /\ RecordsOfWindow'
  BY <1>2, StoreFacts DEF Core, CoreType, TargetCoversList, NothingYet, RecordsOfWindow, slot,
     MAX_FRAGMENT_NUM
<1>4. OpenServed'
  BY <1>1, <1>2, StoreFacts DEF Core, OpenServed, Served, slot, MAX_FRAGMENT_NUM
<1>5. RecentStillServed'
  <2> SUFFICES ASSUME NEW id \in 0 .. fragid - 1, fragid - id < 2 * WinFrags
               PROVE  mem'[slot(id)].id = id
    BY <1>2 DEF RecentStillServed, Served, slot, MAX_FRAGMENT_NUM
  <2>1. mem[slot(id)].id = id
    BY DEF Core, RecentStillServed, Served
  <2> QED
    BY <1>1, <2>1, StoreFacts
<1>6. ListedAreServed'
  <2> SUFFICES ASSUME nfrags > 0, NEW id \in frag .. fragid - 1
               PROVE  mem'[slot(id)].id = id
    BY <1>2 DEF Core, ListedAreServed, Listed, Served, slot, MAX_FRAGMENT_NUM
  <2>1. mem[slot(id)].id = id
    BY DEF Core, ListedAreServed, Listed, Served
  <2>2. id \in Nat /\ id < fragid /\ fragid - id < 2 * WinFrags
    BY <1>1
  <2> QED
    BY <2>1, <2>2, StoreFacts
<1> QED
  BY <1>3, <1>4, <1>5, <1>6 DEF Core
-----------------------------------------------------------------------------
(* The steps of the handlers, as steps of the core. *)
UpdateCut(fr) == SameNumbers(fr) /\ \/ Reopen(fr)
                                    \/ frags' = fr /\ UNCHANGED <<opened, frag, nfrags, fragmem>>

(* hls_update_fragments sets a duration, or reopens, or neither.             *)
LEMMA UpdateFacts ==
  ASSUME IInv, NEW d \in Elapsed, NEW boundary \in BOOLEAN, NEW late \in BOOLEAN,
         NEW next \in Call, UpdateFragments(d, boundary, late, next)
  PROVE  work' \in Seq(Call) /\ \E fr : UpdateCut(fr)
<1> DEFINE force == opened /\ (d > FragLen \/ d < -Second)
           elapsed == IF d < 0 THEN Wrap + d ELSE d
           timed == IF opened /\ ~force
                    THEN [frags EXCEPT ![slot(fragid)].duration = elapsed]
                    ELSE frags
<1>1. frags \in [Slot -> Fragment] /\ fragid \in Nat /\ slot(fragid) \in Slot
  <2>1. fragid \in Nat
    BY DEF IInv, Core, CoreType, fragid
  <2> QED
    BY <2>1, SlotFacts DEF IInv, Core, CoreType
<1>2. SameNumbers(timed)
  <2>1. CASE opened /\ ~force
    <3>1. elapsed \in Nat
      BY <2>1, TimeAssumption
    <3>2. timed = [frags EXCEPT ![slot(fragid)].duration = elapsed]
      BY <2>1
    <3> HIDE DEF timed, elapsed
    <3> QED
      BY <1>1, <3>1, <3>2 DEF SameNumbers, Fragment
  <2>2. CASE ~(opened /\ ~force)
    BY <1>1, <2>2 DEF SameNumbers
  <2> QED
    BY <2>1, <2>2
<1>3. Reopen(timed) \/ (frags' = timed /\ UNCHANGED <<opened, frag, nfrags, fragmem>>)
  BY DEF UpdateFragments
<1>4. work' = <<"flush", next>> \/ work' = <<next>>
  BY DEF UpdateFragments
<1>5. <<"flush", next>> \in Seq(Call) /\ <<next>> \in Seq(Call)
  BY DEF Call
<1> HIDE DEF timed
<1> QED
  BY <1>2, <1>3, <1>4, <1>5 DEF UpdateCut

(* Either keeps the core.                                                    *)
LEMMA CutCore == ASSUME Core, NEW fr, UpdateCut(fr)
                 PROVE  Core'
  BY ReopenCore, TimedCore DEF UpdateCut

(* What a packet does. *)
LEMMA WriteFacts == ASSUME IInv, Write
                    PROVE  /\ Core' /\ work' \in Seq(Call)
                           /\ \/ mem' = Stored /\ UNCHANGED <<session, playlist>>
                              \/ \E fr : UpdateCut(fr)
<1>1. work \in Seq(Call) /\ Core /\ SameNumbers(frags)
  BY DEF IInv, CallsType, Core, CoreType, SameNumbers
<1>2. CASE mem' = Stored /\ UNCHANGED <<session, playlist, work>>
  BY <1>1, <1>2, StoreCore
<1>3. CASE Reopen(frags) /\ work' = <<"flush", "put">> \o work
  <2>1. <<"flush", "put">> \in Seq(Call)
    BY DEF Call
  <2>2. work' \in Seq(Call)
    BY <1>1, <1>3, <2>1
  <2> QED
    BY <1>1, <1>3, <2>2, ReopenCore DEF UpdateCut
<1> QED
  BY <1>2, <1>3 DEF Write
(* Whatever the handlers do, the core makes one of four moves. *)
Moves == \/ UNCHANGED <<session, fragmem>>
         \/ CreateSession
         \/ \E fr : UpdateCut(fr)
         \/ mem' = Stored /\ UNCHANGED <<session, playlist>>

(* The calls in progress keep their types, and the core moves.               *)
LEMMA StepMoves == ASSUME IInv, [Next]_vars
                   PROVE  CallsType' /\ Moves
<1>1. /\ audio \in 0 .. AudioLen /\ video \in Nat /\ work \in Seq(Call) /\ AudioLen \in Nat
      /\ AudioLen > 0
  BY SizesAssumption DEF IInv, CallsType
<1>2. work # <<>> => Head(work) \in Call /\ Tail(work) \in Seq(Call)
  BY <1>1
<1>3. {"video", "append", "flush"} \subseteq Call
  BY DEF Call
<1>4. CASE UNCHANGED vars
  BY <1>4, <1>1 DEF vars, CallsType, Moves
<1>5. CASE CreateSession
  BY <1>5, <1>1 DEF CreateSession, CallsType, Moves
<1>6. ASSUME NEW d \in Elapsed, NEW key \in BOOLEAN, NEW late \in BOOLEAN, NEW n \in FrameLen,
             VideoFrame(d, key, late, n)
      PROVE  CallsType' /\ Moves
  <2>1. /\ UpdateFragments(d, key /\ (~opened \/ audio > 0), late, "video")
        /\ video' = n /\ audio' = audio
    BY <1>6 DEF VideoFrame
  <2>2. (key /\ (~opened \/ audio > 0)) \in BOOLEAN
    OBVIOUS
  <2>3. work' \in Seq(Call) /\ \E fr : UpdateCut(fr)
    BY <1>3, <2>1, <2>2, UpdateFacts
  <2>4. n \in Nat
    BY TimeAssumption
  <2> QED
    BY <1>1, <2>1, <2>3, <2>4 DEF CallsType, Moves
<1>7. ASSUME NEW d \in Elapsed, NEW late \in BOOLEAN, AudioFrame(d, late)
      PROVE  CallsType' /\ Moves
  <2>1. UpdateFragments(d, FALSE, late, "append") /\ video' = video /\ audio' = audio
    BY <1>7 DEF AudioFrame
  <2>2. work' \in Seq(Call) /\ \E fr : UpdateCut(fr)
    BY <1>3, <2>1, UpdateFacts
  <2> QED
    BY <1>1, <2>1, <2>2 DEF CallsType, Moves
<1>8. CASE BufferAudio
  <2>1. UNCHANGED <<session, fragmem>> /\ video' = video
    BY <1>8 DEF BufferAudio
  <2>2. audio' \in 0 .. AudioLen
    BY <1>1, <1>8 DEF BufferAudio
  <2>3. work' \in Seq(Call)
    <3>1. work # <<>>
      BY <1>8 DEF BufferAudio
    <3>2. <<"flush">> \o work \in Seq(Call)
      <4>1. <<"flush">> \in Seq(Call)
        BY DEF Call
      <4> QED
        BY <1>1, <4>1
    <3> QED
      BY <1>2, <1>8, <3>1, <3>2 DEF BufferAudio
  <2> QED
    BY <1>1, <2>1, <2>2, <2>3 DEF CallsType, Moves
<1>9. CASE FlushAudio
  <2>1. CASE opened /\ audio > 0
    <3>1. Write /\ audio' = audio - 1 /\ video' = video
      BY <1>9, <2>1 DEF FlushAudio
    <3> QED
      BY <1>1, <2>1, <3>1, WriteFacts DEF CallsType, Moves
  <2>2. CASE ~(opened /\ audio > 0)
    BY <1>1, <1>2, <1>9, <2>2 DEF FlushAudio, CallsType, Moves
  <2> QED
    BY <2>1, <2>2
<1>10. CASE WriteVideo
  <2>1. CASE opened /\ video > 0
    <3>1. Write /\ video' = video - 1 /\ audio' = audio
      BY <1>10, <2>1 DEF WriteVideo
    <3> QED
      BY <1>1, <2>1, <3>1, WriteFacts DEF CallsType, Moves
  <2>2. CASE ~(opened /\ video > 0)
    BY <1>1, <1>2, <1>10, <2>2 DEF WriteVideo, CallsType, Moves
  <2> QED
    BY <2>1, <2>2
<1>11. CASE Put
  BY <1>1, <1>2, <1>11 DEF Put, CallsType, Moves
<1> QED
  BY <1>4, <1>5, <1>6, <1>7, <1>8, <1>9, <1>10, <1>11 DEF Next, Frame, Handler

(* Every step keeps the invariant. *)
LEMMA StepIInv == IInv /\ [Next]_vars => IInv'
<1> SUFFICES ASSUME IInv, [Next]_vars PROVE IInv'
  OBVIOUS
<1>1. Core /\ CallsType' /\ Moves
  BY StepMoves DEF IInv
<1> QED
  BY <1>1, SameCore, CreateCore, CutCore, StoreCore DEF IInv, Moves

(* A segmenter without a session has promised nothing yet. *)
LEMMA InitIInv == Init => IInv
<1> SUFFICES ASSUME Init PROVE IInv
  OBVIOUS
<1>1. WinFrags \in Nat /\ AudioLen \in Nat
  BY SizesAssumption
<1>2. [id |-> 0, duration |-> 0] \in Fragment /\ <<>> \in Seq(Fragment) /\ <<>> \in Seq(Call)
  BY DEF Fragment
<1>3. CoreType
  <2>1. frags \in [Slot -> Fragment] /\ nfrags \in 0 .. WinFrags
    BY <1>1, <1>2 DEF Init
  <2>2. playlist \in [sequence : Nat, target : Nat, list : Seq(Fragment)]
    BY <1>2 DEF Init
  <2> QED
    BY <2>1, <2>2 DEF Init, CoreType
<1>4. CallsType
  BY <1>1, <1>2 DEF Init, CallsType
<1> QED
  BY <1>3, <1>4 DEF Init, IInv, Core, NothingYet, OpenServed, RecordsOfWindow, ListedAreServed,
     RecentStillServed, TargetCoversList, fragid

(* The invariant holds in every reachable state. *)
LEMMA Invariance == Spec => []IInv
  BY InitIInv, StepIInv, PTL DEF Spec

(* Numbers, lengths, durations and pending calls keep their types; in        *)
(* particular the target duration of every playlist exists.                  *)
THEOREM TypeCorrect == Spec => []TypeOK
<1>1. IInv => TypeOK
  BY DEF IInv, Core, CoreType, CallsType, Call, TypeOK
<1> QED
  BY <1>1, Invariance, PTL

(* In the middle of any handler too, the playlist lists the window, one      *)
(* fragment after the other, and the slot of each answers for it.            *)
THEOREM PlaylistsAreServed == Spec => []ListedAreServed
<1>1. IInv => ListedAreServed
  BY DEF IInv, Core
<1> QED
  BY <1>1, Invariance, PTL

(* A ring of twice the window and one serves a playlist that is WinFrags - 1 *)
(* fragments old, whatever overran its slot meanwhile.                       *)
THEOREM OldPlaylistsAreServed == Spec => []RecentStillServed
<1>1. IInv => RecentStillServed
  BY DEF IInv, Core
<1> QED
  BY <1>1, Invariance, PTL

(* The loop of hls_write_playlist ends with a target no listed fragment      *)
(* exceeds, whatever the order of durations.                                 *)
THEOREM TargetsCover == Spec => []TargetCoversList
<1>1. IInv => TargetCoversList
  BY DEF IInv, Core
<1> QED
  BY <1>1, Invariance, PTL

(* The memory of a listed fragment is left alone until it leaves the window. *)
THEOREM ListedLeftAlone == Spec => ListedNeverRewritten
<1> DEFINE Alone == \A id \in Listed : mem'[slot(id)] = mem[slot(id)]
<1>1. ASSUME IInv, [Next]_vars PROVE Alone
  <2> SUFFICES ASSUME nfrags # 0, NEW id \in frag .. fragid - 1
               PROVE  mem'[slot(id)] = mem[slot(id)]
    BY DEF Listed
  <2>1. /\ Core /\ opened /\ frag \in Nat /\ nfrags \in Nat /\ nfrags <= WinFrags
        /\ WinFrags \in Nat /\ WinFrags > 0 /\ fragid = frag + nfrags
    BY <1>1, Sizes DEF IInv, Core, CoreType, NothingYet, fragid
  <2>2. id \in Nat /\ id < fragid /\ fragid - id < 2 * WinFrags /\ slot(id) \in Slot
    BY <2>1, SlotFacts
  <2>3. Moves
    BY <1>1, StepMoves
  <2>4. CASE UNCHANGED <<session, fragmem>> \/ CreateSession
    BY <2>4 DEF CreateSession, fragmem
  <2>5. CASE mem' = Stored /\ UNCHANGED <<session, playlist>>
    BY <2>1, <2>2, <2>5, StoreFacts
  <2>6. ASSUME NEW fr, UpdateCut(fr) PROVE mem'[slot(id)] = mem[slot(id)]
    <3>1. CASE UNCHANGED <<opened, frag, nfrags, fragmem>>
      BY <3>1 DEF fragmem
    <3>2. CASE Reopen(fr)
      <4>1. PICK f \in Nat, n \in 0 .. WinFrags : Open(f, n, fr) /\ f + n = fragid + 1
        BY <2>1, <2>6, <3>2, ReopenOpens DEF UpdateCut
      <4>2. id < fragid + 1 /\ (fragid + 1) - id <= 2 * WinFrags /\ fragid + 1 \in Nat
        BY <2>1, <2>2
      <4>3. slot(id) # slot(fragid + 1)
        BY <2>2, <4>2, SlotFacts
      <4> QED
        BY <2>1, <2>2, <4>1, <4>3 DEF Open, Core, CoreType
    <3> QED
      BY <2>6, <3>1, <3>2 DEF UpdateCut
  <2> QED
    BY <2>3, <2>4, <2>5, <2>6 DEF Moves
<1>2. IInv /\ [Next]_vars => [Alone]_vars
  BY <1>1
<1> QED
  BY <1>2, Invariance, PTL DEF Spec, ListedNeverRewritten
-----------------------------------------------------------------------------
(* How deep the calls nest and how far a fragment overruns its slot.  A      *)
(* "put" in the stack is a packet that found its slot full and waits for the *)
(* next one, where the audio goes first.  There are two puts in the stack    *)
(* only if audio has filled a slot in between, so the audio buffer limits    *)
(* how many packets can follow each other past the end of one slot.          *)

(* What stands above what in the stack of calls w. *)
StackShape(w) ==
  \A i \in 1 .. Len(w) :
     /\ w[i] \in {"video", "append"} => i = Len(w)
     /\ w[i] = "put" => i < Len(w) /\ w[i + 1] \in {"flush", "video"}
     /\ w[i] = "flush" => i < Len(w) /\ w[i + 1] \in {"put", "video", "append"}

(* How many puts there are: every other call, from the first flush or put on. *)
Puts(w) == IF w = <<>> THEN 0
           ELSE IF w[1] = "put" THEN Len(w) \div 2 ELSE (Len(w) - 1) \div 2

(* What the shape says of the innermost call. *)
LEMMA HeadFacts ==
  ASSUME NEW w \in Seq(Call), StackShape(w), w # <<>>
  PROVE  /\ Head(w) = w[1] /\ Puts(w) \in Nat /\ Len(w) \in Nat /\ Len(w) > 0
         /\ w[1] \in {"video", "append"} => Len(w) = 1 /\ Puts(w) = 0
         /\ w[1] = "put" => Len(w) > 1 /\ Puts(w) > 0 /\ w[2] \in {"flush", "video"}
         /\ w[1] = "flush" => /\ Len(w) > 1 /\ w[2] \in {"put", "video", "append"}
                              /\ w[2] = "put" => Puts(w) > 0
<1>1. Len(w) \in Nat /\ Len(w) > 0 /\ 1 \in 1 .. Len(w) /\ Head(w) = w[1]
  OBVIOUS
<1>2. /\ w[1] \in {"video", "append"} => 1 = Len(w)
      /\ w[1] = "put" => 1 < Len(w) /\ w[1 + 1] \in {"flush", "video"}
      /\ w[1] = "flush" => 1 < Len(w) /\ w[1 + 1] \in {"put", "video", "append"}
  BY <1>1 DEF StackShape
<1>3. w[1] = "flush" /\ w[2] = "put" => Len(w) > 2
  <2> SUFFICES ASSUME w[1] = "flush", w[2] = "put" PROVE Len(w) > 2
    OBVIOUS
  <2>1. 2 \in 1 .. Len(w)
    BY <1>1, <1>2
  <2> QED
    BY <1>1, <2>1 DEF StackShape
<1>4. Puts(w) = IF w[1] = "put" THEN Len(w) \div 2 ELSE (Len(w) - 1) \div 2
  BY DEF Puts
<1>5. \A n \in Nat : n > 0 => /\ n \div 2 \in Nat /\ (n - 1) \div 2 \in Nat
                              /\ n = 1 => (n - 1) \div 2 = 0
                              /\ n > 1 => n \div 2 > 0
                              /\ n > 2 => (n - 1) \div 2 > 0
  OBVIOUS
<1> QED
  BY <1>1, <1>2, <1>3, <1>4, <1>5

(* A packet that has to wait calls the flush of the next fragment. *)
LEMMA PushPut ==
  ASSUME NEW w \in Seq(Call), StackShape(w), w # <<>>, w[1] \in {"flush", "video"},
         NEW v, v = <<"flush", "put">> \o w
  PROVE  /\ v \in Seq(Call) /\ StackShape(v) /\ v # <<>> /\ v[1] = "flush"
         /\ Len(v) = Len(w) + 2 /\ v[Len(v)] = w[Len(w)] /\ Puts(v) = Puts(w) + 1
<1>1. Len(w) \in Nat /\ Len(w) > 0
  OBVIOUS
<1>2. <<"flush", "put">> \in Seq(Call)
  BY DEF Call
<1>3. /\ v \in Seq(Call) /\ Len(v) = Len(w) + 2 /\ v[1] = "flush" /\ v[2] = "put"
      /\ \A i \in 1 .. Len(w) : v[i + 2] = w[i]
  BY <1>1, <1>2
<1>4. StackShape(v)
  <2> SUFFICES ASSUME NEW i \in 1 .. Len(v)
               PROVE  /\ v[i] \in {"video", "append"} => i = Len(v)
                      /\ v[i] = "put" => i < Len(v) /\ v[i + 1] \in {"flush", "video"}
                      /\ v[i] = "flush" => i < Len(v) /\ v[i + 1] \in {"put", "video", "append"}
    BY DEF StackShape
  <2>1. CASE i = 1
    BY <1>1, <1>3, <2>1
  <2>2. CASE i = 2
    <3>1. v[3] = w[1]
      BY <1>1, <1>3
    <3> QED
      BY <1>1, <1>3, <2>2, <3>1
  <2>3. CASE i > 2
    <3>1. PICK j \in 1 .. Len(w) : i = j + 2
      <4>1. i - 2 \in 1 .. Len(w) /\ i = (i - 2) + 2
        BY <1>1, <1>3, <2>3
      <4> QED
        BY <4>1
    <3>2. v[i] = w[j]
      BY <1>3, <3>1
    <3>3. j < Len(w) => v[i + 1] = w[j + 1]
      <4> SUFFICES ASSUME j < Len(w) PROVE v[i + 1] = w[j + 1]
        OBVIOUS
      <4>1. j + 1 \in 1 .. Len(w) /\ i + 1 = (j + 1) + 2
        BY <1>1, <3>1
      <4> QED
        BY <1>3, <4>1
    <3>4. /\ w[j] \in {"video", "append"} => j = Len(w)
          /\ w[j] = "put" => j < Len(w) /\ w[j + 1] \in {"flush", "video"}
          /\ w[j] = "flush" => j < Len(w) /\ w[j + 1] \in {"put", "video", "append"}
      BY DEF StackShape
    <3>5. (j = Len(w) <=> i = Len(v)) /\ (j < Len(w) <=> i < Len(v))
      BY <1>1, <1>3, <3>1
    <3> QED
      BY <3>2, <3>3, <3>4, <3>5
  <2> QED
    BY <1>1, <1>3, <2>1, <2>2, <2>3
<1>5. v[Len(v)] = w[Len(w)]
  BY <1>1, <1>3
<1>6. Puts(w) = (Len(w) - 1) \div 2 /\ Puts(v) = (Len(w) + 1) \div 2
  <2>1. v # <<>> /\ v[1] # "put" /\ Len(v) - 1 = Len(w) + 1
    BY <1>1, <1>3
  <2> QED
    BY <2>1 DEF Puts
<1>7. \A n \in Nat : n > 0 => (n + 1) \div 2 = (n - 1) \div 2 + 1
  OBVIOUS
<1> QED
  BY <1>1, <1>3, <1>4, <1>5, <1>6, <1>7

(* A full buffer calls the flush before the audio is appended. *)
LEMMA PushFlush ==
  ASSUME NEW w \in Seq(Call), StackShape(w), w # <<>>, w[1] = "append",
         NEW v, v = <<"flush">> \o w
  PROVE  /\ v \in Seq(Call) /\ StackShape(v) /\ v # <<>> /\ v[1] = "flush" /\ Len(w) = 1
         /\ Len(v) = 2 /\ v[2] = "append" /\ Puts(v) = 0
<1>1. Len(w) = 1
  BY HeadFacts
<1>2. <<"flush">> \in Seq(Call)
  BY DEF Call
<1>3. v \in Seq(Call) /\ Len(v) = 2 /\ v[1] = "flush" /\ v[2] = "append"
  <2>1. v \in Seq(Call) /\ Len(v) = Len(w) + 1
    BY <1>2
  <2>2. v[1] = "flush"
    OBVIOUS
  <2>3. \A i \in 1 .. Len(w) : v[i + 1] = w[i]
    BY <1>2
  <2>4. v[1 + 1] = w[1]
    BY <1>1, <2>3
  <2> QED
    BY <1>1, <2>1, <2>2, <2>4
<1>4. StackShape(v)
  BY <1>3 DEF StackShape
<1>5. Puts(v) = 0
  BY <1>3 DEF Puts
<1> QED
  BY <1>1, <1>3, <1>4, <1>5

(* A call returns to the one below it. *)
LEMMA PopCall ==
  ASSUME NEW w \in Seq(Call), StackShape(w), w # <<>>, NEW v, v = Tail(w)
  PROVE  /\ v \in Seq(Call) /\ StackShape(v) /\ Len(v) = Len(w) - 1
         /\ v # <<>> => v[1] = w[2] /\ v[Len(v)] = w[Len(w)] /\ Len(w) > 1
         /\ w[1] = "put" => Puts(v) = Puts(w) - 1
         /\ w[1] # "put" => Puts(v) = Puts(w)
<1>1. Len(w) \in Nat /\ Len(w) > 0 /\ Head(w) = w[1]
  OBVIOUS
<1>2. v \in Seq(Call) /\ Len(v) = Len(w) - 1 /\ \A i \in 1 .. Len(w) - 1 : v[i] = w[i + 1]
  OBVIOUS
<1>3. StackShape(v)
  <2> SUFFICES ASSUME NEW i \in 1 .. Len(v)
               PROVE  /\ v[i] \in {"video", "append"} => i = Len(v)
                      /\ v[i] = "put" => i < Len(v) /\ v[i + 1] \in {"flush", "video"}
                      /\ v[i] = "flush" => i < Len(v) /\ v[i + 1] \in {"put", "video", "append"}
    BY DEF StackShape
  <2>1. PICK j \in 2 .. Len(w) : j = i + 1
    BY <1>1, <1>2
  <2>2. v[i] = w[j] /\ (i < Len(v) => v[i + 1] = w[j + 1])
    BY <1>1, <1>2, <2>1
  <2>3. /\ w[j] \in {"video", "append"} => j = Len(w)
        /\ w[j] = "put" => j < Len(w) /\ w[j + 1] \in {"flush", "video"}
        /\ w[j] = "flush" => j < Len(w) /\ w[j + 1] \in {"put", "video", "append"}
    <3>1. j \in 1 .. Len(w)
      BY <1>1, <2>1
    <3> QED
      BY <3>1 DEF StackShape
  <2>4. (j = Len(w) <=> i = Len(v)) /\ (j < Len(w) <=> i < Len(v))
    BY <1>1, <1>2, <2>1
  <2> QED
    BY <2>2, <2>3, <2>4
<1>4. ASSUME v # <<>> PROVE v[1] = w[2] /\ v[Len(v)] = w[Len(w)] /\ Len(w) > 1
  <2>1. Len(w) > 1
    BY <1>1, <1>2, <1>4
  <2> QED
    BY <1>1, <1>2, <2>1
<1>5. /\ w[1] \in {"video", "append"} => Len(w) = 1 /\ Puts(w) = 0
      /\ w[1] = "put" => Len(w) > 1 /\ w[2] \in {"flush", "video"}
      /\ w[1] = "flush" => Len(w) > 1 /\ w[2] \in {"put", "video", "append"}
  BY HeadFacts
<1>5a. Len(w) > 1 => v # <<>> /\ v[1] = w[2]
  <2>1. Len(w) > 1 => v # <<>>
    <3>1. v = <<>> => Len(v) = 0
      OBVIOUS
    <3> QED
      BY <1>1, <1>2, <3>1
  <2> QED
    BY <1>4, <2>1
<1>6. w[1] \in Call
  BY <1>1
<1>7. \A n \in Nat : n > 1 => (n - 1 - 1) \div 2 = n \div 2 - 1
  OBVIOUS
<1>8. CASE w[1] \in {"video", "append"}
  <2>1. v = <<>>
    BY <1>2, <1>5, <1>8
  <2> QED
    BY <1>2, <1>3, <1>5, <1>8, <2>1 DEF Puts
<1>9. CASE w[1] = "put"
  <2>1. v # <<>> /\ v[1] # "put" /\ Len(v) = Len(w) - 1
    BY <1>2, <1>5, <1>5a, <1>9
  <2>2. Puts(v) = (Len(w) - 1 - 1) \div 2 /\ Puts(w) = Len(w) \div 2
    BY <1>9, <2>1 DEF Puts
  <2> QED
    BY <1>1, <1>2, <1>3, <1>4, <1>5, <1>7, <1>9, <2>2
<1>10. CASE w[1] = "flush"
  <2>1. v # <<>> /\ v[1] = w[2] /\ Len(v) = Len(w) - 1
    BY <1>2, <1>5, <1>5a, <1>10
  <2>2. CASE w[2] = "put"
    <3>1. Puts(v) = (Len(w) - 1) \div 2 /\ Puts(w) = (Len(w) - 1) \div 2
      BY <1>10, <2>1, <2>2 DEF Puts
    <3> QED
      BY <1>2, <1>3, <1>4, <1>10, <3>1
  <2>3. CASE w[2] \in {"video", "append"}
    <3>1. Len(v) = 1
      <4>1. v \in Seq(Call) /\ StackShape(v) /\ v[1] \in {"video", "append"}
        BY <1>2, <1>3, <2>1, <2>3
      <4> QED
        BY <2>1, <4>1, HeadFacts
    <3>2. Puts(v) = 0 /\ Puts(w) = 0
      <4>1. Len(w) = 2 /\ v[1] # "put"
        BY <1>1, <2>1, <2>3, <3>1
      <4> QED
        BY <1>10, <2>1, <3>1, <4>1 DEF Puts
    <3> QED
      BY <1>2, <1>3, <1>4, <1>10, <3>2
  <2> QED
    BY <1>5, <1>10, <2>2, <2>3
<1> QED
  BY <1>6, <1>8, <1>9, <1>10 DEF Call
-----------------------------------------------------------------------------
(* Packets, and the header, in the open fragment. *)
OpenLen == mem[slot(fragid)].len

(* The shape of the calls; a packet is put when the audio is out, and only   *)
(* into an open fragment.                                                    *)
CallInv == /\ StackShape(work)
           /\ work # <<>> /\ Head(work) = "put" => audio = 0
           /\ Puts(work) > 0 => opened

(* With p packets waiting and a packets' worth of audio left, l packets are  *)
(* in the slot: every put but the last cost a slot's room of audio, or,      *)
(* once the slot is full, those that wait still fit past its end.            *)
Pend(p, l, a) ==
  /\ HeaderLen <= l
  /\ \/ l <= MaxTsLen /\ Room * p + (l - HeaderLen) + a <= Room + AudioLen
     \/ l > MaxTsLen /\ a = 0 /\ p + (l - MaxTsLen) <= Over

Pending == Puts(work) > 0 => Pend(Puts(work), OpenLen, audio)

OverInv == CallInv /\ Pending /\ OverrunLimited

LEMMA RoomFacts == /\ Room \in Nat /\ Room > 0 /\ MaxTsLen \in Nat /\ MaxTsLen = Room + HeaderLen
                   /\ HeaderLen \in Nat /\ AudioLen \in Nat /\ Over \in Nat
                   /\ \A x \in Nat : Room * x <= AudioLen => x <= Over
<1>1. /\ Room \in Nat /\ Room > 0 /\ MaxTsLen \in Nat /\ MaxTsLen = Room + HeaderLen
      /\ HeaderLen \in Nat /\ AudioLen \in Nat
  BY SizesAssumption DEF Room, HeaderLen
<1>2. \A r, n, x \in Nat : r > 0 => n \div r \in Nat /\ (r * x <= n => x <= n \div r)
  <2> SUFFICES ASSUME NEW r \in Nat, NEW n \in Nat, NEW x \in Nat, r > 0
               PROVE  n \div r \in Nat /\ (r * x <= n => x <= n \div r)
    OBVIOUS
  <2> DEFINE q == n \div r
             m == n % r
  <2>1. q \in Nat /\ m \in Nat /\ m < r /\ n = r * q + m
    OBVIOUS
  <2> HIDE DEF q, m
  <2>2. ASSUME r * x <= n, q < x PROVE FALSE
    <3>1. PICK y \in Nat : x = q + 1 + y
      <4>1. x - q - 1 \in Nat /\ x = q + 1 + (x - q - 1)
        BY <2>1, <2>2
      <4> QED
        BY <4>1
    <3>2. r * x = r * q + r + r * y /\ r * y >= 0 /\ r * q \in Nat /\ r * y \in Nat
      BY <2>1, <3>1
    <3> QED
      BY <2>1, <2>2, <3>2
  <2>3. r * x <= n => x <= q
    BY <2>1, <2>2
  <2> QED
    BY <2>1, <2>3 DEF q
<1> QED
  BY <1>1, <1>2 DEF Over

(* The arithmetic of a packet stored, of one that has to wait and of one     *)
(* that waited.                                                              *)
LEMMA PendFacts ==
  ASSUME NEW p \in Nat, NEW l \in Nat, NEW a \in Nat, a <= AudioLen
  PROVE  /\ l < MaxTsLen /\ a > 0 /\ Pend(p, l, a) => Pend(p, l + 1, a - 1)
         /\ l >= MaxTsLen /\ a > 0 /\ (p > 0 => Pend(p, l, a)) => Pend(p + 1, HeaderLen, a - 1)
         /\ p > 0 /\ Pend(p, l, 0) => /\ l + 1 <= MaxTsLen + Over
                                      /\ p - 1 > 0 => Pend(p - 1, l + 1, 0)
         /\ Pend(1, HeaderLen, a)
         /\ p > 0 /\ Pend(p, l, a) => p <= Over + 1
<1> USE RoomFacts
<1> DEFINE x == Room * p
<1>1. x \in Nat /\ Room * (p + 1) = x + Room /\ Room * (p - 1) = x - Room /\ Room * 1 = Room
  OBVIOUS
<1>2. p = 0 => x = 0
  OBVIOUS
<1>3. x <= AudioLen => p <= Over
  OBVIOUS
<1> HIDE DEF x
<1>4. Pend(p, l, a) <=>
         /\ HeaderLen <= l
         /\ \/ l <= MaxTsLen /\ x + (l - HeaderLen) + a <= Room + AudioLen
            \/ l > MaxTsLen /\ a = 0 /\ p + (l - MaxTsLen) <= Over
  BY DEF Pend, x
<1>5. Pend(p, l, 0) <=>
         /\ HeaderLen <= l
         /\ \/ l <= MaxTsLen /\ x + (l - HeaderLen) + 0 <= Room + AudioLen
            \/ l > MaxTsLen /\ p + (l - MaxTsLen) <= Over
  BY DEF Pend, x
<1>6. l < MaxTsLen /\ a > 0 /\ Pend(p, l, a) => Pend(p, l + 1, a - 1)
  <2> SUFFICES ASSUME l < MaxTsLen, a > 0, Pend(p, l, a) PROVE Pend(p, l + 1, a - 1)
    OBVIOUS
  <2>1. HeaderLen <= l /\ x + (l - HeaderLen) + a <= Room + AudioLen
    BY <1>4
  <2>2. HeaderLen <= l + 1 /\ l + 1 <= MaxTsLen /\ x + ((l + 1) - HeaderLen) + (a - 1) <= Room + AudioLen
    BY <1>1, <2>1
  <2> QED
    BY <2>2 DEF Pend, x
<1>7. l >= MaxTsLen /\ a > 0 /\ (p > 0 => Pend(p, l, a)) => Pend(p + 1, HeaderLen, a - 1)
  <2> SUFFICES ASSUME l >= MaxTsLen, a > 0, p > 0 => Pend(p, l, a)
               PROVE  Pend(p + 1, HeaderLen, a - 1)
    OBVIOUS
  <2>1. x + a <= AudioLen
    BY <1>1, <1>2, <1>4
  <2>2. Room * (p + 1) + (HeaderLen - HeaderLen) + (a - 1) <= Room + AudioLen
    BY <1>1, <2>1
  <2> QED
    BY <2>2 DEF Pend
<1>8. p > 0 /\ Pend(p, l, 0) => l + 1 <= MaxTsLen + Over
  BY <1>1, <1>3, <1>5
<1>9. p - 1 > 0 /\ Pend(p, l, 0) => Pend(p - 1, l + 1, 0)
  <2> SUFFICES ASSUME p - 1 > 0, Pend(p, l, 0) PROVE Pend(p - 1, l + 1, 0)
    OBVIOUS
  <2>1. Pend(p - 1, l + 1, 0) <=>
           /\ HeaderLen <= l + 1
           /\ \/ l + 1 <= MaxTsLen /\ x - Room + ((l + 1) - HeaderLen) + 0 <= Room + AudioLen
              \/ l + 1 > MaxTsLen /\ (p - 1) + ((l + 1) - MaxTsLen) <= Over
    BY <1>1 DEF Pend
  <2> QED
    BY <1>1, <1>3, <1>5, <2>1
<1>10. Pend(1, HeaderLen, a)
  BY <1>1 DEF Pend
<1>11. p > 0 /\ Pend(p, l, a) => p <= Over + 1
  <2>1. x <= Room + AudioLen /\ p > 0 => p - 1 <= Over
    <3>1. p > 0 => p - 1 \in Nat
      OBVIOUS
    <3> QED
      BY <1>1, <3>1
  <2> QED
    BY <1>1, <1>4, <2>1
<1> QED
  BY <1>6, <1>7, <1>8, <1>9, <1>10, <1>11
-----------------------------------------------------------------------------
(* What the moves do to lengths: a packet lengthens the open fragment,       *)
(* reopening starts one that is a header long.                               *)
LEMMA StoreLens ==
  ASSUME Core, mem' = Stored, UNCHANGED session
  PROVE  /\ OpenLen \in Nat /\ OpenLen' = OpenLen + 1
         /\ \A i \in Slot : i # slot(fragid) => mem'[i].len = mem[i].len
<1> DEFINE s == slot(fragid)
           stored == [mem EXCEPT ![s].len = @ + 1]
<1>1. fragid \in Nat /\ mem \in [Slot -> [id : Nat \cup {Overrun}, len : Nat]]
  BY DEF Core, CoreType, fragid
<1>2. s \in Slot /\ s + 1 # s
  <2>1. s \in Slot
    BY <1>1, SlotFacts
  <2> HIDE DEF s
  <2>2. s \in Int
    BY <2>1 DEF Slot
  <2> QED
    BY <2>1, <2>2
<1>3. mem' = IF mem[s].len >= MaxTsLen /\ s + 1 \in Slot
             THEN [stored EXCEPT ![s + 1].id = Overrun] ELSE stored
  BY DEF Stored
<1>4. slot(fragid)' = s
  BY DEF session, slot, fragid, MAX_FRAGMENT_NUM
<1> HIDE DEF s
<1>5. /\ stored \in [Slot -> [id : Nat \cup {Overrun}, len : Nat]]
      /\ mem[s].len \in Nat /\ stored[s].len = mem[s].len + 1
      /\ \A i \in Slot : i # s => stored[i].len = mem[i].len
  BY <1>1, <1>2
<1> HIDE DEF stored
<1>6. \A i \in Slot : mem'[i].len = stored[i].len
  BY <1>2, <1>3, <1>5
<1> QED
  BY <1>2, <1>4, <1>5, <1>6 DEF OpenLen, s

LEMMA ReopenLens ==
  ASSUME Core, NEW fr, SameNumbers(fr), Reopen(fr)
  PROVE  /\ opened' = TRUE /\ OpenLen' = HeaderLen
         /\ \A i \in Slot : mem'[i].len \in {mem[i].len, HeaderLen}
<1>1. PICK f \in Nat, n \in 0 .. WinFrags : Open(f, n, fr)
  BY ReopenOpens
<1>2. /\ opened' = TRUE /\ frag' = f /\ nfrags' = n
      /\ mem' = [mem EXCEPT ![slot(f + n)] = [id |-> f + n, len |-> HeaderLen]]
  BY <1>1 DEF Open
<1>3. slot(f + n) \in Slot
  <2>1. f + n \in Nat
    BY <1>1, Sizes
  <2> QED
    BY <2>1, SlotFacts
<1>4. slot(fragid)' = slot(f + n)
  BY <1>2 DEF slot, fragid, MAX_FRAGMENT_NUM
<1>5. mem \in [Slot -> [id : Nat \cup {Overrun}, len : Nat]]
  BY DEF Core, CoreType
<1>6. /\ mem'[slot(f + n)].len = HeaderLen
      /\ \A i \in Slot : i # slot(f + n) => mem'[i] = mem[i]
  BY <1>2, <1>3, <1>5
<1> QED
  BY <1>2, <1>4, <1>6 DEF OpenLen

LEMMA CutLens ==
  ASSUME Core, NEW fr, UpdateCut(fr)
  PROVE  /\ opened => opened'
         /\ \A i \in Slot : mem'[i].len \in {mem[i].len, HeaderLen}
<1>1. CASE Reopen(fr)
  BY <1>1, ReopenLens DEF UpdateCut
<1>2. CASE UNCHANGED <<opened, frag, nfrags, fragmem>>
  BY <1>2 DEF fragmem
<1> QED
  BY <1>1, <1>2 DEF UpdateCut

(* A header is not longer than a slot. *)
LEMMA OverrunKept ==
  ASSUME OverrunLimited, \A i \in Slot : mem'[i].len \in {mem[i].len, HeaderLen}
  PROVE  OverrunLimited'
<1>1. HeaderLen <= MaxTsLen + Over
  BY RoomFacts
<1> QED
  BY <1>1 DEF OverrunLimited, Slot, MAX_FRAGMENT_NUM, Over, Room

(* A packet written by either writer: it fits, or waits for the next slot.   *)
LEMMA WriteOver ==
  ASSUME IInv, OverInv, opened, Write, work # <<>>,
         \/ work[1] = "flush" /\ audio > 0 /\ audio' = audio - 1
         \/ work[1] = "video" /\ audio' = audio
  PROVE  OverInv'
<1>1. /\ Core /\ audio \in 0 .. AudioLen /\ work \in Seq(Call) /\ StackShape(work)
      /\ audio \in Nat /\ audio <= AudioLen /\ Head(work) = work[1]
  BY SizesAssumption DEF IInv, CallsType, OverInv, CallInv
<1>2. Puts(work) \in Nat /\ (work[1] = "video" => Puts(work) = 0)
  BY <1>1, HeadFacts
<1>3. OpenLen \in Nat
  <2>1. fragid \in Nat
    BY <1>1 DEF Core, CoreType, fragid
  <2> QED
    BY <1>1, <2>1, SlotFacts DEF OpenLen, Core, CoreType
<1>4. CASE /\ mem[slot(fragid)].len < MaxTsLen /\ mem' = Stored
           /\ UNCHANGED <<session, playlist, work>>
  <2>1. /\ OpenLen < MaxTsLen /\ OpenLen' = OpenLen + 1
        /\ \A i \in Slot : i # slot(fragid) => mem'[i].len = mem[i].len
    BY <1>1, <1>4, StoreLens DEF OpenLen
  <2>2. slot(fragid)' = slot(fragid)
    BY <1>4 DEF session, slot, fragid, MAX_FRAGMENT_NUM
  <2>3. OverrunLimited'
    <3>1. mem'[slot(fragid)].len <= MaxTsLen + Over
      BY <1>3, <2>1, <2>2, RoomFacts DEF OpenLen
    <3> QED
      BY <2>1, <3>1 DEF OverInv, OverrunLimited, Slot, MAX_FRAGMENT_NUM, Over, Room
  <2>4. CallInv'
    BY <1>1, <1>4 DEF OverInv, CallInv, StackShape, Puts, session
  <2>5. ASSUME Puts(work) > 0 PROVE Pend(Puts(work), OpenLen + 1, audio - 1) /\ audio' = audio - 1
    BY <1>1, <1>2, <1>3, <2>1, <2>5, PendFacts DEF OverInv, Pending
  <2>6. Pending'
    BY <1>4, <2>1, <2>5 DEF Pending, Pend, Puts, Room, Over
  <2> QED
    BY <2>3, <2>4, <2>6 DEF OverInv
<1>5. CASE /\ mem[slot(fragid)].len >= MaxTsLen /\ Reopen(frags)
           /\ work' = <<"flush", "put">> \o work
  <2>1. SameNumbers(frags)
    BY <1>1 DEF Core, CoreType, SameNumbers
  <2>2. /\ opened' = TRUE /\ OpenLen' = HeaderLen
        /\ \A i \in Slot : mem'[i].len \in {mem[i].len, HeaderLen}
    BY <1>1, <1>5, <2>1, ReopenLens
  <2>3. OverrunLimited'
    BY <2>2, OverrunKept DEF OverInv
  <2>4. /\ work' \in Seq(Call) /\ StackShape(work') /\ work' # <<>> /\ work'[1] = "flush"
        /\ Puts(work') = Puts(work) + 1
    BY <1>1, <1>5, PushPut
  <2>5. CallInv'
    BY <2>2, <2>4 DEF CallInv
  <2>6. Pend(Puts(work) + 1, HeaderLen, audio')
    <3>1. CASE work[1] = "flush" /\ audio > 0 /\ audio' = audio - 1
      <4>1. OpenLen >= MaxTsLen
        BY <1>5 DEF OpenLen
      <4>2. Puts(work) > 0 => Pend(Puts(work), OpenLen, audio)
        BY DEF OverInv, Pending
      <4> QED
        BY <1>1, <1>2, <1>3, <3>1, <4>1, <4>2, PendFacts
    <3>2. CASE work[1] = "video" /\ audio' = audio
      <4>1. Pend(1, HeaderLen, audio)
        BY <1>1, <1>3, PendFacts
      <4> QED
        BY <1>2, <3>2, <4>1
    <3> QED
      BY <3>1, <3>2
  <2>7. Pending'
    <3>1. Pend(Puts(work'), OpenLen', audio')
      BY <2>2, <2>4, <2>6
    <3> QED
      BY <3>1 DEF Pending, Pend, Room, Over
  <2> QED
    BY <2>3, <2>5, <2>7 DEF OverInv
<1> QED
  BY <1>4, <1>5 DEF Write
-----------------------------------------------------------------------------
(* Nothing is waiting when a frame comes, nor once the frame is on its way.  *)
LEMMA NoneWaiting ==
  /\ StackShape(<<>>) /\ Puts(<<>>) = 0
  /\ \A next \in {"video", "append"} :
        /\ StackShape(<<next>>) /\ Puts(<<next>>) = 0
        /\ StackShape(<<"flush", next>>) /\ Puts(<<"flush", next>>) = 0
<1>1. StackShape(<<>>) /\ Puts(<<>>) = 0
  BY DEF StackShape, Puts
<1>2. ASSUME NEW next \in {"video", "append"}
      PROVE  /\ StackShape(<<next>>) /\ Puts(<<next>>) = 0
             /\ StackShape(<<"flush", next>>) /\ Puts(<<"flush", next>>) = 0
  BY DEF StackShape, Puts
<1> QED
  BY <1>1, <1>2

LEMMA UpdateOver ==
  ASSUME IInv, OverInv, NEW d \in Elapsed, NEW boundary \in BOOLEAN, NEW late \in BOOLEAN,
         NEW next \in {"video", "append"}, UpdateFragments(d, boundary, late, next)
  PROVE  OverInv'
<1>1. next \in Call /\ Core
  BY DEF Call, IInv
<1>2. PICK fr : UpdateCut(fr)
  BY <1>1, UpdateFacts
<1>3. OverrunLimited'
  BY <1>1, <1>2, CutLens, OverrunKept DEF OverInv
<1>4. work' = <<"flush", next>> \/ work' = <<next>>
  BY DEF UpdateFragments
<1>5. StackShape(work') /\ Puts(work') = 0 /\ work' # <<>> /\ Head(work') # "put"
  BY <1>4, NoneWaiting
<1> QED
  BY <1>3, <1>5 DEF OverInv, CallInv, Pending

(* When a call returns without writing, what is below it finds what it       *)
(* relied on.                                                                *)
LEMMA ReturnOver ==
  ASSUME IInv, OverInv, work # <<>>, work[1] # "put", work' = Tail(work),
         UNCHANGED <<session, fragmem>>, audio' = audio \/ work[1] = "append",
         work[1] = "flush" => ~(opened /\ audio > 0)
  PROVE  OverInv'
<1>1. /\ work \in Seq(Call) /\ StackShape(work) /\ audio \in Nat
      /\ Puts(work) > 0 => opened
  BY SizesAssumption DEF IInv, CallsType, OverInv, CallInv
<1>2. /\ Puts(work) \in Nat
      /\ work[1] \in {"video", "append"} => Len(work) = 1 /\ Puts(work) = 0
      /\ work[1] = "flush" /\ work[2] = "put" => Puts(work) > 0
  BY <1>1, HeadFacts
<1>3. /\ work' \in Seq(Call) /\ StackShape(work') /\ Puts(work') = Puts(work)
      /\ work' # <<>> => work'[1] = work[2] /\ Len(work) > 1
  BY <1>1, PopCall
<1>4. /\ opened' = opened /\ mem' = mem /\ slot(fragid)' = slot(fragid)
  BY DEF session, fragmem, slot, fragid, MAX_FRAGMENT_NUM
<1>5. OverrunLimited'
  BY <1>4 DEF OverInv, OverrunLimited, Slot, MAX_FRAGMENT_NUM, Over, Room
<1>6. work[1] \in Call /\ Len(work) \in Nat
  BY <1>1
<1>7. ASSUME work' # <<>>, Head(work') = "put" PROVE audio' = 0
  <2>1. work[2] = "put" /\ work[1] = "flush"
    BY <1>2, <1>3, <1>6, <1>7 DEF Call
  <2> QED
    BY <1>1, <1>2, <2>1
<1>8. CallInv'
  BY <1>1, <1>3, <1>4, <1>7 DEF CallInv
<1>9. Pending'
  <2>1. CASE Puts(work) = 0
    BY <1>3, <2>1 DEF Pending
  <2>2. CASE Puts(work) > 0
    <3>1. audio' = audio
      BY <1>2, <2>2
    <3>2. OpenLen' = OpenLen
      BY <1>4 DEF OpenLen
    <3>3. Pend(Puts(work), OpenLen, audio)
      BY <2>2 DEF OverInv, Pending
    <3> QED
      BY <1>3, <3>1, <3>2, <3>3 DEF Pending, Pend, Room, Over
  <2> QED
    BY <1>2, <2>1, <2>2
<1> QED
  BY <1>5, <1>8, <1>9 DEF OverInv

(* The packet that waited is stored, past the end of the slot if need be.    *)
LEMMA PutOver == ASSUME IInv, OverInv, Put PROVE OverInv'
<1>1. /\ Core /\ work \in Seq(Call) /\ StackShape(work) /\ work # <<>> /\ Head(work) = "put"
      /\ audio = 0 /\ audio' = 0 /\ work' = Tail(work) /\ (Puts(work) > 0 => opened)
      /\ mem' = Stored /\ UNCHANGED session /\ UNCHANGED playlist
  BY DEF IInv, CallsType, OverInv, CallInv, Put
<1>2. /\ work[1] = "put" /\ Puts(work) \in Nat /\ Puts(work) > 0
      /\ Len(work) > 1 /\ work[2] \in {"flush", "video"}
  BY <1>1, HeadFacts
<1>3. /\ work' \in Seq(Call) /\ StackShape(work') /\ Puts(work') = Puts(work) - 1
      /\ work' # <<>> => work'[1] = work[2]
  BY <1>1, <1>2, PopCall
<1>4. /\ OpenLen \in Nat /\ OpenLen' = OpenLen + 1
      /\ \A i \in Slot : i # slot(fragid) => mem'[i].len = mem[i].len
  BY <1>1, StoreLens
<1>5. slot(fragid)' = slot(fragid) /\ opened' = opened
  BY <1>1 DEF session, slot, fragid, MAX_FRAGMENT_NUM
<1>6. Pend(Puts(work), OpenLen, 0)
  BY <1>1, <1>2 DEF OverInv, Pending
<1>7. /\ OpenLen + 1 <= MaxTsLen + Over
      /\ Puts(work) - 1 > 0 => Pend(Puts(work) - 1, OpenLen + 1, 0)
  <2>1. 0 \in Nat /\ 0 <= AudioLen
    BY RoomFacts
  <2> QED
    BY <1>2, <1>4, <1>6, <2>1, PendFacts
<1>8. OverrunLimited'
  <2>1. mem'[slot(fragid)].len <= MaxTsLen + Over
    BY <1>4, <1>5, <1>7 DEF OpenLen
  <2> QED
    BY <1>4, <2>1 DEF OverInv, OverrunLimited, Slot, MAX_FRAGMENT_NUM, Over, Room
<1>9. CallInv'
  BY <1>1, <1>2, <1>3, <1>5 DEF CallInv
<1>10. Pending'
  BY <1>1, <1>3, <1>4, <1>7 DEF Pending, Pend, Room, Over
<1> QED
  BY <1>8, <1>9, <1>10 DEF OverInv

(* Every step keeps the bound. *)
LEMMA StepOver == ASSUME IInv, OverInv, [Next]_vars PROVE OverInv'
<1>1. /\ work \in Seq(Call) /\ StackShape(work) /\ Core /\ audio \in Nat /\ video \in Nat
      /\ (work # <<>> => Head(work) = work[1])
  BY SizesAssumption DEF IInv, CallsType, OverInv, CallInv
<1>2. CASE UNCHANGED vars
  BY <1>2 DEF OverInv, CallInv, Pending, OverrunLimited, Pend, OpenLen, Over, Room,
              StackShape, Puts,
     vars, session, fragmem, slot, fragid, MAX_FRAGMENT_NUM, Slot
<1>3. CASE CreateSession
  <2>1. work' = <<>> /\ mem' = mem
    BY <1>3 DEF CreateSession, fragmem
  <2> QED
    BY <2>1, NoneWaiting DEF OverInv, CallInv, Pending, OverrunLimited,
                             Over, Room, Slot, MAX_FRAGMENT_NUM
<1>4. ASSUME NEW d \in Elapsed, NEW key \in BOOLEAN, NEW late \in BOOLEAN, NEW n \in FrameLen,
             VideoFrame(d, key, late, n)
      PROVE  OverInv'
  <2>1. UpdateFragments(d, key /\ (~opened \/ audio > 0), late, "video")
    BY <1>4 DEF VideoFrame
  <2>2. (key /\ (~opened \/ audio > 0)) \in BOOLEAN
    OBVIOUS
  <2> QED
    BY <2>1, <2>2, UpdateOver
<1>5. ASSUME NEW d \in Elapsed, NEW late \in BOOLEAN, AudioFrame(d, late)
      PROVE  OverInv'
  <2>1. UpdateFragments(d, FALSE, late, "append")
    BY <1>5 DEF AudioFrame
  <2> QED
    BY <2>1, UpdateOver
<1>6. CASE BufferAudio
  <2>1. work # <<>> /\ work[1] = "append" /\ UNCHANGED <<session, fragmem>>
    BY <1>1, <1>6 DEF BufferAudio
  <2>2. CASE work' = Tail(work)
    BY <2>1, <2>2, ReturnOver
  <2>3. CASE work' = <<"flush">> \o work
    <3>1. StackShape(work') /\ work' # <<>> /\ work'[1] = "flush" /\ Puts(work') = 0
          /\ work' \in Seq(Call)
      BY <1>1, <2>1, <2>3, PushFlush
    <3>2. mem' = mem
      BY <2>1 DEF fragmem
    <3> QED
      BY <3>1, <3>2 DEF OverInv, CallInv, Pending, OverrunLimited,
                        Over, Room, Slot, MAX_FRAGMENT_NUM
  <2> QED
    BY <1>6, <2>2, <2>3 DEF BufferAudio
<1>7. CASE FlushAudio
  <2>1. work # <<>> /\ work[1] = "flush"
    BY <1>1, <1>7 DEF FlushAudio
  <2>2. CASE opened /\ audio > 0
    <3>1. Write /\ audio' = audio - 1
      BY <1>7, <2>2 DEF FlushAudio
    <3> QED
      BY <2>1, <2>2, <3>1, WriteOver
  <2>3. CASE ~(opened /\ audio > 0)
    <3>1. work' = Tail(work) /\ UNCHANGED <<session, audio, fragmem>>
      BY <1>7, <2>3 DEF FlushAudio
    <3> QED
      BY <2>1, <2>3, <3>1, ReturnOver
  <2> QED
    BY <2>2, <2>3
<1>8. CASE WriteVideo
  <2>1. work # <<>> /\ work[1] = "video" /\ audio' = audio
    BY <1>1, <1>8 DEF WriteVideo
  <2>2. CASE opened /\ video > 0
    <3>1. Write
      BY <1>8, <2>2 DEF WriteVideo
    <3> QED
      BY <2>1, <2>2, <3>1, WriteOver
  <2>3. CASE ~(opened /\ video > 0)
    <3>1. work' = Tail(work) /\ UNCHANGED <<session, fragmem>>
      BY <1>8, <2>3 DEF WriteVideo
    <3> QED
      BY <2>1, <3>1, ReturnOver
  <2> QED
    BY <2>2, <2>3
<1>9. CASE Put
  BY <1>9, PutOver
<1> QED
  BY <1>2, <1>3, <1>4, <1>5, <1>6, <1>7, <1>8, <1>9 DEF Next, Frame, Handler

LEMMA InitOver == Init => OverInv
  BY RoomFacts, NoneWaiting DEF Init, OverInv, CallInv, Pending, OverrunLimited

LEMMA OverInvariance == Spec => [](IInv /\ OverInv)
<1>1. IInv /\ OverInv /\ [Next]_vars => OverInv'
  BY StepOver
<1> QED
  BY <1>1, InitIInv, StepIInv, InitOver, PTL DEF Spec

(* A fragment is longer than its slot by no more packets than the audio      *)
(* buffer fills slots: the packets that wait for a new slot one after the    *)
(* other, each because audio filled the slot before it, are all stored in    *)
(* the last one.                                                             *)
THEOREM OverrunBounded == Spec => []OverrunLimited
<1>1. OverInv => OverrunLimited
  BY DEF OverInv
<1> QED
  BY <1>1, OverInvariance, PTL

(* The calls do not nest deeper than that either: a buffer of three slots    *)
(* takes ten of them at most, so the stack of the process holds them.        *)
THEOREM NestingBounded == Spec => [](Len(work) <= 2 * Over + 4)
<1>1. IInv /\ OverInv => Len(work) <= 2 * Over + 4
  <2> SUFFICES ASSUME IInv, OverInv PROVE Len(work) <= 2 * Over + 4
    OBVIOUS
  <2>1. /\ work \in Seq(Call) /\ StackShape(work) /\ Over \in Nat /\ audio \in Nat
        /\ audio <= AudioLen /\ Len(work) \in Nat
    BY SizesAssumption, RoomFacts DEF IInv, CallsType, OverInv, CallInv
  <2>2. CASE work = <<>>
    <3>1. Len(work) = 0
      BY <2>2
    <3> QED
      BY <2>1, <3>1
  <2>3. CASE work # <<>>
    <3>1. Puts(work) \in Nat /\ Len(work) > 0
      BY <2>1, <2>3, HeadFacts
    <3>2. OpenLen \in Nat
      <4>1. fragid \in Nat
        BY DEF IInv, Core, CoreType, fragid
      <4> QED
        BY <4>1, SlotFacts DEF OpenLen, IInv, Core, CoreType
    <3>3. Puts(work) <= Over + 1
      <4>1. CASE Puts(work) > 0
        <5>1. Pend(Puts(work), OpenLen, audio)
          BY <4>1 DEF OverInv, Pending
        <5> QED
          BY <2>1, <3>1, <3>2, <4>1, <5>1, PendFacts
      <4>2. CASE Puts(work) = 0
        BY <2>1, <4>2
      <4> QED
        BY <3>1, <4>1, <4>2
    <3>4. Len(work) <= 2 * Puts(work) + 2
      <4>1. \A n \in Nat : n > 0 => n <= 2 * (n \div 2) + 2 /\ n <= 2 * ((n - 1) \div 2) + 2
        OBVIOUS
      <4>2. Puts(work) \in {Len(work) \div 2, (Len(work) - 1) \div 2}
        BY <2>3 DEF Puts
      <4> QED
        BY <2>1, <3>1, <4>1, <4>2
    <3> QED
      BY <2>1, <3>1, <3>3, <3>4
  <2> QED
    BY <2>2, <2>3
<1> QED
  BY <1>1, OverInvariance, PTL
-----------------------------------------------------------------------------
(* Why every handler comes to an end: the measure of what is still to do is  *)
(* a number, and every step of a handler makes it less.  A packet written    *)
(* outweighs the two calls it may add; appending audio may add to the        *)
(* buffer, or call the flush, and is counted until it is done.               *)
AppendToDo(w) == IF w # <<>> /\ w[Len(w)] = "append" THEN 6 ELSE 0
FlushToCall == IF /\ work # <<>> /\ work[1] = "append"
                  /\ audio = AudioLen /\ opened
               THEN 2 ELSE 0
Weight(a, v, n, p, f) == 4 * (a + v) + n + p + f

Measure == Weight(audio, video, Len(work), AppendToDo(work), FlushToCall)

(* The arithmetic of it: of a number, of a packet of audio or video written, *)
(* of a call that returns, of audio appended or dropped, and of the flush of *)
(* a full buffer called.                                                     *)
LEMMA WeightIsNumber == \A a, v, n, p, f \in Nat : Weight(a, v, n, p, f) \in Nat
  BY DEF Weight

LEMMA AudioWritten == \A a, v, n, p, f, a2, n2 \in Nat :
  a2 = a - 1 /\ n2 <= n + 2 => Weight(a2, v, n2, p, 0) < Weight(a, v, n, p, f)
  BY DEF Weight

LEMMA VideoWritten == \A a, v, n, p, f, v2, n2 \in Nat :
  v2 = v - 1 /\ n2 <= n + 2 => Weight(a, v2, n2, p, 0) < Weight(a, v, n, p, f)
  BY DEF Weight

LEMMA CallReturned == \A a, v, n, p, f, v2, n2, p2 \in Nat :
  v2 \in {0, v} /\ n2 = n - 1 /\ p2 <= p => Weight(a, v2, n2, p2, 0) < Weight(a, v, n, p, f)
  BY DEF Weight

LEMMA AudioBuffered == \A a, v, f, a2 \in Nat :
  a2 \in {0, a + 1} => Weight(a2, v, 0, 0, 0) < Weight(a, v, 1, 6, f)
  BY DEF Weight

LEMMA FlushCalled == \A a, v, p2 \in Nat :
  p2 \in {0, 6} => Weight(a, v, 2, p2, 0) < Weight(a, v, 1, 6, 2)
  BY DEF Weight

LEMMA MeasureIsNumber ==
  ASSUME CallsType
  PROVE  /\ audio \in Nat /\ video \in Nat /\ Len(work) \in Nat
         /\ AppendToDo(work) \in {0, 6} /\ FlushToCall \in {0, 2}
         /\ AppendToDo(work) \in Nat /\ FlushToCall \in Nat /\ Measure \in Nat
<1>1. /\ audio \in Nat /\ video \in Nat /\ Len(work) \in Nat
      /\ AppendToDo(work) \in {0, 6} /\ FlushToCall \in {0, 2}
  BY SizesAssumption DEF CallsType, AppendToDo, FlushToCall
<1>2. AppendToDo(work) \in Nat /\ FlushToCall \in Nat
  BY <1>1
<1> QED
  BY <1>1, <1>2, WeightIsNumber DEF Measure

(* A writer's step: a packet less, and at most two calls more. *)
LEMMA WriteShrinks ==
  ASSUME IInv, OverInv, Write, work # <<>>, work[1] \in {"flush", "video"}
  PROVE  /\ Len(work') <= Len(work) + 2 /\ AppendToDo(work') = AppendToDo(work)
         /\ work' # <<>> /\ work'[1] \in {"flush", "video"}
<1>1. work \in Seq(Call) /\ StackShape(work)
  BY DEF IInv, CallsType, OverInv, CallInv
<1>2. CASE work' = work
  <2>1. Len(work) \in Nat
    BY <1>1
  <2> QED
    BY <1>2, <2>1
<1>3. CASE work' = <<"flush", "put">> \o work
  <2>1. /\ work' # <<>> /\ work'[1] = "flush"
        /\ Len(work') = Len(work) + 2 /\ work'[Len(work')] = work[Len(work)]
    BY <1>1, <1>3, PushPut
  <2>2. Len(work) \in Nat
    BY <1>1
  <2> QED
    BY <2>1, <2>2 DEF AppendToDo
<1> QED
  BY <1>2, <1>3 DEF Write

(* A call that returns leaves a call less. *)
LEMMA ReturnShrinks ==
  ASSUME IInv, OverInv, work # <<>>, work' = Tail(work)
  PROVE  /\ Len(work') = Len(work) - 1 /\ Len(work) > 0
         /\ AppendToDo(work') <= AppendToDo(work)
         /\ work[1] \in {"append", "video"} => work' = <<>> /\ Len(work) = 1
         /\ work' # <<>> => work'[1] = work[2]
<1>1. work \in Seq(Call) /\ StackShape(work)
  BY DEF IInv, CallsType, OverInv, CallInv
<1>2. Len(work) > 0 /\ (work[1] \in {"append", "video"} => Len(work) = 1)
  BY <1>1, HeadFacts
<1>3. /\ work' \in Seq(Call) /\ Len(work') = Len(work) - 1
      /\ work' # <<>> => work'[1] = work[2] /\ work'[Len(work')] = work[Len(work)]
  BY <1>1, PopCall
<1>4. AppendToDo(work') <= AppendToDo(work)
  BY <1>3 DEF AppendToDo
<1>5. Len(work) = 1 => work' = <<>>
  BY <1>3
<1> QED
  BY <1>2, <1>3, <1>4, <1>5

LEMMA HandlerShrinks ==
  ASSUME IInv, IInv', OverInv, Handler
  PROVE  Measure \in Nat /\ Measure' \in Nat /\ Measure' < Measure
<1>1. CallsType /\ CallsType' /\ StackShape(work) /\ work \in Seq(Call)
  BY DEF IInv, OverInv, CallInv, CallsType
<1>2. /\ audio \in Nat /\ video \in Nat /\ Len(work) \in Nat
      /\ AppendToDo(work) \in {0, 6} /\ FlushToCall \in {0, 2}
      /\ AppendToDo(work) \in Nat /\ FlushToCall \in Nat /\ Measure \in Nat
  BY <1>1, MeasureIsNumber
<1>3. /\ audio' \in Nat /\ video' \in Nat /\ Len(work') \in Nat
      /\ AppendToDo(work') \in {0, 6} /\ FlushToCall' \in {0, 2}
      /\ AppendToDo(work') \in Nat /\ FlushToCall' \in Nat /\ Measure' \in Nat
  <2>1. audio' \in Nat /\ video' \in Nat /\ Len(work') \in Nat
    BY <1>1, SizesAssumption DEF CallsType
  <2>2. AppendToDo(work') \in {0, 6} /\ FlushToCall' \in {0, 2}
    BY DEF AppendToDo, FlushToCall
  <2>3. AppendToDo(work') \in Nat /\ FlushToCall' \in Nat
    BY <2>2
  <2>4. Measure' = Weight(audio', video', Len(work'), AppendToDo(work'), FlushToCall')
    BY DEF Measure, Weight, AppendToDo
  <2> QED
    BY <2>1, <2>2, <2>3, <2>4, WeightIsNumber
<1>4. /\ Measure = Weight(audio, video, Len(work), AppendToDo(work), FlushToCall)
      /\ Measure' = Weight(audio', video', Len(work'), AppendToDo(work'), FlushToCall')
  BY DEF Measure, Weight, AppendToDo
<1>5. work # <<>> /\ Head(work) = work[1] /\ AudioLen \in Nat /\ AudioLen > 0
  <2>1. work # <<>>
    BY DEF Handler, BufferAudio, FlushAudio, WriteVideo, Put
  <2> QED
    BY <1>1, <2>1, SizesAssumption
<1>6. (work' = <<>> \/ work'[1] # "append") => FlushToCall' = 0
  BY DEF FlushToCall
<1>7. CASE BufferAudio
  <2>1. work[1] = "append" /\ video' = video /\ opened' = opened
    BY <1>5, <1>7 DEF BufferAudio, session
  <2>2. Len(work) = 1 /\ work[Len(work)] = "append" /\ AppendToDo(work) = 6
    <3>1. Len(work) = 1
      BY <1>1, <1>5, <2>1, HeadFacts
    <3> QED
      BY <1>5, <2>1, <3>1 DEF AppendToDo
  <2>3. ASSUME work' = Tail(work), audio' \in {0, audio + 1} PROVE Measure' < Measure
    <3>1. work' = <<>> /\ Len(work') = 0
      BY <1>5, <2>1, <2>2, <2>3, ReturnShrinks
    <3>2. AppendToDo(work') = 0 /\ FlushToCall' = 0
      BY <1>6, <3>1 DEF AppendToDo
    <3> QED
      BY <1>2, <1>3, <1>4, <2>1, <2>2, <2>3, <3>1, <3>2, AudioBuffered
  <2>4. ASSUME audio = AudioLen, opened, work' = <<"flush">> \o work, audio' = audio
        PROVE  Measure' < Measure
    <3>1. work' # <<>> /\ work'[1] = "flush" /\ Len(work') = 2
      BY <1>1, <1>5, <2>1, <2>4, PushFlush
    <3>2. FlushToCall = 2
      BY <1>5, <2>1, <2>4 DEF FlushToCall
    <3> QED
      BY <1>2, <1>3, <1>4, <1>6, <2>1, <2>2, <2>4, <3>1, <3>2, FlushCalled
  <2> QED
    BY <1>2, <1>3, <1>5, <1>7, <2>3, <2>4 DEF BufferAudio
<1>8. CASE FlushAudio
  <2>1. work[1] = "flush" /\ video' = video
    BY <1>5, <1>8 DEF FlushAudio
  <2>2. CASE opened /\ audio > 0
    <3>1. Write /\ audio' = audio - 1
      BY <1>8, <2>2 DEF FlushAudio
    <3>2. /\ Len(work') <= Len(work) + 2 /\ AppendToDo(work') = AppendToDo(work)
          /\ work'[1] \in {"flush", "video"}
      BY <1>5, <2>1, <3>1, WriteShrinks
    <3>3. FlushToCall' = 0
      BY <1>6, <3>2
    <3> QED
      BY <1>2, <1>3, <1>4, <2>1, <3>1, <3>2, <3>3, AudioWritten
  <2>3. CASE ~(opened /\ audio > 0)
    <3>1. work' = Tail(work) /\ audio' = audio /\ opened' = opened
      BY <1>8, <2>3 DEF FlushAudio, session
    <3>2. Len(work') = Len(work) - 1 /\ AppendToDo(work') <= AppendToDo(work)
      BY <1>5, <3>1, ReturnShrinks
    <3>3. FlushToCall' = 0
      BY <1>5, <2>3, <3>1 DEF FlushToCall
    <3> QED
      BY <1>2, <1>3, <1>4, <2>1, <3>1, <3>2, <3>3, CallReturned
  <2> QED
    BY <2>2, <2>3
<1>9. CASE WriteVideo
  <2>1. work[1] = "video" /\ audio' = audio
    BY <1>5, <1>9 DEF WriteVideo
  <2>2. CASE opened /\ video > 0
    <3>1. Write /\ video' = video - 1
      BY <1>9, <2>2 DEF WriteVideo
    <3>2. /\ Len(work') <= Len(work) + 2 /\ AppendToDo(work') = AppendToDo(work)
          /\ work'[1] \in {"flush", "video"}
      BY <1>5, <2>1, <3>1, WriteShrinks
    <3>3. FlushToCall' = 0
      BY <1>6, <3>2
    <3> QED
      BY <1>2, <1>3, <1>4, <2>1, <3>1, <3>2, <3>3, VideoWritten
  <2>3. CASE ~(opened /\ video > 0)
    <3>1. work' = Tail(work) /\ video' = 0
      BY <1>9, <2>3 DEF WriteVideo
    <3>2. work' = <<>> /\ Len(work') = Len(work) - 1 /\ AppendToDo(work') <= AppendToDo(work)
      BY <1>5, <2>1, <3>1, ReturnShrinks
    <3>3. FlushToCall' = 0
      BY <1>6, <3>2
    <3> QED
      BY <1>2, <1>3, <1>4, <2>1, <3>1, <3>2, <3>3, CallReturned
  <2> QED
    BY <2>2, <2>3
<1>10. CASE Put
  <2>1. work[1] = "put" /\ work' = Tail(work) /\ audio' = audio /\ video' = video
    BY <1>5, <1>10 DEF Put
  <2>2. work[2] \in {"flush", "video"}
    BY <1>1, <1>5, <2>1, HeadFacts
  <2>3. /\ Len(work') = Len(work) - 1 /\ AppendToDo(work') <= AppendToDo(work)
        /\ work' # <<>> => work'[1] = work[2]
    BY <1>5, <2>1, ReturnShrinks
  <2>4. FlushToCall' = 0
    BY <1>6, <2>2, <2>3
  <2> QED
    BY <1>2, <1>3, <1>4, <2>1, <2>3, <2>4, CallReturned
<1> QED
  BY <1>2, <1>3, <1>7, <1>8, <1>9, <1>10 DEF Handler

(* No chain of calls goes on for ever: every step of a handler, however      *)
(* deep, lessens a measure that is never negative, so a handler ends after   *)
(* as many steps at most.                                                    *)
THEOREM HandlersEnd ==
  Spec => [][Handler => Measure \in Nat /\ Measure' \in Nat /\ Measure' < Measure]_vars
<1>1. IInv /\ OverInv /\ IInv' /\ [Next]_vars
        => [Handler => Measure \in Nat /\ Measure' \in Nat /\ Measure' < Measure]_vars
  BY HandlerShrinks
<1> QED
  BY <1>1, OverInvariance, PTL DEF Spec
=============================================================================
