------------------------ MODULE DataChannelMgrProofs ------------------------
(* Proofs about DataChannelMgr, for a hash and a pool of any size.           *)
(* EveryEntryFound is not inductive in the words of the lookup; its two      *)
(* halves are: an entry stands where its key hashes to in its row (Placed),  *)
(* and no two entries have one key (Unique).  With OneToOne they also bound  *)
(* the entries by the size of the pool, which is what the cut-off of the     *)
(* sweep relies on.                                                          *)
EXTENDS DataChannelMgr, NaturalTheorems, FiniteSetTheorems

Placed == \A c \in Occupied : c = Probe(c[1], table[c].uiKey)
Unique == \A c, d \in Occupied : table[c].uiKey = table[d].uiKey => c = d

IInv == TypeOK /\ OneToOne /\ Placed /\ Unique

(* The minimum of a set of rows is the least of them. *)
LEMMA MinRow == ASSUME NEW S \in SUBSET Row, S # {}
                PROVE  Min(S) \in S
<1>1. S \subseteq Nat
  BY DEF Row
<1>2. \E x \in S : \A y \in S : x <= y
  BY <1>1, LeastMember
<1> QED
  BY <1>2 DEF Min

(* A key has a cell of the table in every row. *)
LEMMA ProbeCell == ASSUME NEW i \in Row, NEW k \in Nat
                   PROVE  Probe(i, k) \in Cell /\ Probe(i, k)[1] = i
<1>1. HashBase[i] \in 1 .. HashLen
  BY BaseAssumption DEF Row
<1>2. k % HashBase[i] \in 0 .. HashBase[i] - 1
  BY <1>1, SizesAssumption
<1>3. k % HashBase[i] \in 0 .. HashLen - 1
  BY <1>1, <1>2, SizesAssumption
<1> QED
  BY <1>3 DEF Probe, Cell

(* What a successful lookup returns: the entry of the key. *)
LEMMA GetFacts == ASSUME TypeOK, NEW k \in Key, Found(k)
                  PROVE  /\ get(k) \in Occupied
                         /\ table[get(k)].uiKey = k
                         /\ ChannelOf(k) \in Channel
<1>1. k \in Nat /\ k # 0
  BY SizesAssumption
<1>2. Min(RowsWith(k)) \in RowsWith(k)
  BY MinRow DEF Found, RowsWith
<1>3. PICK i \in Row : table[Probe(i, k)].uiKey = k /\ get(k) = Probe(i, k)
  BY <1>2 DEF get, RowsWith
<1>4. get(k) \in Cell
  BY <1>1, <1>3, ProbeCell
<1> QED
  BY <1>1, <1>3, <1>4 DEF Occupied, ChannelOf, TypeOK, Entry

(* With entries where they belong, the lookup of an entry's key returns that *)
(* entry.                                                                    *)
LEMMA LookupFinds == ASSUME TypeOK, Placed, Unique, NEW c \in Occupied
                     PROVE  Found(table[c].uiKey) /\ get(table[c].uiKey) = c
<1> DEFINE k == table[c].uiKey
<1>1. k \in Key /\ c \in Cell
  BY DEF Occupied, TypeOK, Entry
<1>2. c[1] \in RowsWith(k)
  BY <1>1 DEF Placed, RowsWith, Cell
<1>3. Found(k)
  BY <1>2 DEF Found
<1>4. get(k) \in Occupied /\ table[get(k)].uiKey = table[c].uiKey
  BY <1>1, <1>3, GetFacts
<1> QED
  BY <1>3, <1>4 DEF Unique

(* An allocation that finds no channel for k works on an empty cell of k.    *)
LEMMA InsFacts == ASSUME TypeOK, NEW k \in Key, ~HasChannel(k), CanIns(k)
                  PROVE  /\ ~Found(k)
                         /\ ins(k) \in Cell
                         /\ table[ins(k)].uiKey = 0
                         /\ ins(k) = Probe(ins(k)[1], k)
<1>1. ~Found(k)
  <2>1. ASSUME Found(k) PROVE FALSE
    BY <2>1, GetFacts DEF HasChannel, INVALID, INVALID_VOICECHANNEL_ID, Channel
  <2> QED
    BY <2>1
<1>2. RowsFree(k) # {} /\ RowsFree(k) \in SUBSET Row
  BY <1>1 DEF CanIns, RowsFree
<1>3. Min(RowsFree(k)) \in RowsFree(k)
  BY <1>2, MinRow
<1>4. PICK i \in Row : ins(k) = Probe(i, k) /\ table[Probe(i, k)].uiKey = 0
  BY <1>1, <1>3 DEF ins, RowsFree
<1>5. k \in Nat
  BY SizesAssumption
<1> QED
  BY <1>1, <1>4, <1>5, ProbeCell

(* No entry has key k when the lookup of k fails. *)
LEMMA NotFound == ASSUME TypeOK, Placed, NEW k \in Key, ~Found(k), NEW c \in Occupied
                  PROVE  table[c].uiKey # k
<1>1. c[1] \in Row /\ c = Probe(c[1], table[c].uiKey)
  BY DEF Occupied, Cell, Placed
<1> QED
  BY <1>1 DEF Found, RowsWith
-----------------------------------------------------------------------------
(* The empty table and pool satisfy the invariant. *)
LEMMA InitInv == Init => IInv
<1> SUFFICES ASSUME Init PROVE IInv
  OBVIOUS
<1>1. TypeOK
  BY SizesAssumption DEF Init, TypeOK, Entry, Empty, Channel, Expired
<1>2. Occupied = {}
  BY DEF Init, Occupied, Empty
<1> QED
  BY <1>1, <1>2 DEF Init, IInv, OneToOne, Placed, Unique

(* A new entry for a free channel keeps the invariant. *)
LEMMA OpenInv == ASSUME IInv, NEW k \in Key, NEW taken \in BOOLEAN, OpenChannel(k, taken)
                 PROVE  IInv'
<1> DEFINE x == ins(k)
<1>1. PICK ch \in Channel \ used :
        /\ table' = [table EXCEPT ![x] = [uiKey |-> k, uiChannelId |-> ch]]
        /\ used' = used \cup {ch}
        /\ idle' = [idle EXCEPT ![ch] = IF taken THEN 0 ELSE Expired]
  BY DEF OpenChannel
<1>2. /\ TypeOK /\ OneToOne /\ Placed /\ Unique
      /\ ~HasChannel(k) /\ CanIns(k) /\ k \in Nat /\ k # 0
  BY SizesAssumption DEF IInv, OpenChannel
<1>3. /\ ~Found(k) /\ x \in Cell /\ table[x].uiKey = 0 /\ x = Probe(x[1], k)
  BY <1>2, InsFacts
<1>4. \A c \in Occupied : table[c].uiKey # k
  BY <1>2, <1>3, NotFound
<1> HIDE DEF x
<1>5. /\ table'[x] = [uiKey |-> k, uiChannelId |-> ch]
      /\ \A c \in Cell : c # x => table'[c] = table[c]
  BY <1>1, <1>2, <1>3 DEF TypeOK
<1>6. Occupied' = Occupied \cup {x} /\ x \notin Occupied
  BY <1>2, <1>3, <1>5 DEF Occupied
<1>7. \A c \in Occupied : c # x /\ table'[c] = table[c]
  BY <1>5, <1>6 DEF Occupied
<1>8. TypeOK'
  <2>1. [uiKey |-> k, uiChannelId |-> ch] \in Entry
    BY DEF Entry
  <2>2. table' \in [Cell -> Entry]
    BY <1>1, <1>2, <2>1 DEF TypeOK
  <2>3. idle' \in [Channel -> 0 .. Expired]
    BY <1>1, <1>2, SizesAssumption DEF TypeOK, Expired
  <2> QED
    BY <1>1, <1>2, <2>2, <2>3 DEF TypeOK
<1>9. OneToOne'
  <2>1. \A c \in Occupied : table[c].uiChannelId \in used
    BY <1>2 DEF OneToOne
  <2>2. \A c, d \in Occupied' : table'[c].uiChannelId = table'[d].uiChannelId => c = d
    <3>1. \A c, d \in Occupied : table[c].uiChannelId = table[d].uiChannelId => c = d
      BY <1>2 DEF OneToOne
    <3> QED
      BY <1>5, <1>6, <1>7, <2>1, <3>1
  <2>3. used' = {table'[c].uiChannelId : c \in Occupied'}
    <3>1. used = {table[c].uiChannelId : c \in Occupied}
      BY <1>2 DEF OneToOne
    <3> QED
      BY <1>1, <1>5, <1>6, <1>7, <3>1
  <2> QED
    BY <2>2, <2>3 DEF OneToOne
<1>10. Placed'
  <2>1. ASSUME NEW c \in Occupied' PROVE c = Probe(c[1], table'[c].uiKey)
    BY <1>2, <1>3, <1>5, <1>6, <1>7 DEF Placed
  <2> QED
    BY <2>1 DEF Placed, Probe
<1>11. Unique'
  BY <1>2, <1>4, <1>5, <1>6, <1>7 DEF Unique
<1> QED
  BY <1>8, <1>9, <1>10, <1>11 DEF IInv

(* A step that only removes entries, and gives back exactly their channels,  *)
(* keeps the invariant.                                                      *)
LEMMA RemoveInv ==
  ASSUME IInv, NEW gone \in SUBSET Cell, idle' = idle,
         table' = [c \in Cell |-> IF c \in gone THEN Empty ELSE table[c]],
         used' = used \ {table[c].uiChannelId : c \in gone \cap Occupied}
  PROVE  IInv'
<1>1. Occupied' = Occupied \ gone /\ \A c \in Occupied' : table'[c] = table[c]
  BY DEF Occupied, Empty
<1>2. TypeOK'
  <2>1. Empty \in Entry
    BY SizesAssumption DEF Entry, Empty, Channel
  <2>2. table' \in [Cell -> Entry]
    BY <2>1 DEF IInv, TypeOK
  <2> QED
    BY <2>2 DEF IInv, TypeOK
<1>3. OneToOne'
  <2>1. /\ \A c, d \in Occupied : table[c].uiChannelId = table[d].uiChannelId => c = d
        /\ used = {table[c].uiChannelId : c \in Occupied}
    BY DEF IInv, OneToOne
  <2>2. used' = {table'[c].uiChannelId : c \in Occupied'}
    BY <1>1, <2>1
  <2> QED
    BY <1>1, <2>1, <2>2 DEF OneToOne
<1>4. Placed'
  <2>1. \A c \in Occupied' : c = Probe(c[1], table'[c].uiKey)
    BY <1>1 DEF IInv, Placed
  <2> QED
    BY <2>1 DEF Placed, Probe
<1>5. Unique'
  BY <1>1 DEF IInv, Unique
<1> QED
  BY <1>2, <1>3, <1>4, <1>5 DEF IInv

(* The sweep releases the stale entries themselves: the lookup by key leads  *)
(* back to each of them.                                                     *)
LEMMA CleanFacts ==
  ASSUME IInv, Clean
  PROVE  /\ table' = [c \in Cell |-> IF c \in Stale THEN Empty ELSE table[c]]
         /\ used' = used \ {table[c].uiChannelId : c \in Stale}
         /\ idle' = idle /\ Stale \subseteq Occupied
<1>1. Stale \subseteq Occupied
  BY DEF Stale, Seen
<1>2. \A c \in Stale : get(table[c].uiKey) = c
  BY <1>1, LookupFinds DEF IInv
<1>3. {get(table[c].uiKey) : c \in Stale} = Stale
  BY <1>2
<1> QED
  BY <1>1, <1>3 DEF Clean

(* Every step keeps the invariant. *)
LEMMA InvStep == IInv /\ [Next]_vars => IInv'
<1> SUFFICES ASSUME IInv, [Next]_vars PROVE IInv'
  OBVIOUS
<1>1. ASSUME NEW k \in Key, PushBack(k) PROVE IInv'
  <2>1. ChannelOf(k) \in Channel
    BY <1>1, GetFacts DEF IInv, PushBack, HasChannel
  <2>2. TypeOK'
    BY <1>1, <2>1, SizesAssumption DEF IInv, PushBack, TypeOK, Expired
  <2> QED
    BY <1>1, <2>2 DEF IInv, PushBack, OneToOne, Placed, Unique, Occupied, Probe
<1>2. ASSUME NEW k \in Key, NEW taken \in BOOLEAN, OpenChannel(k, taken) PROVE IInv'
  BY <1>2, OpenInv
<1>3. ASSUME NEW k \in Key, OpenFails(k) PROVE IInv'
  <2>1. ins(k) \in Cell /\ table[ins(k)].uiKey = 0
    BY <1>3, InsFacts DEF IInv, OpenFails
  <2>2. {ins(k)} \cap Occupied = {}
    BY <2>1 DEF Occupied
  <2>3. table' = [c \in Cell |-> IF c \in {ins(k)} THEN Empty ELSE table[c]]
    BY <1>3, <2>1 DEF OpenFails, IInv, TypeOK
  <2>4. used' = used \ {table[c].uiChannelId : c \in {ins(k)} \cap Occupied}
    BY <1>3, <2>2 DEF OpenFails
  <2>5. idle' = idle /\ {ins(k)} \in SUBSET Cell
    BY <1>3, <2>1 DEF OpenFails
  <2> HIDE DEF Empty
  <2> QED
    BY <2>3, <2>4, <2>5, RemoveInv
<1>4. ASSUME Clean PROVE IInv'
  <2>1. Stale \in SUBSET Cell /\ Stale \cap Occupied = Stale
    BY <1>4, CleanFacts DEF Occupied
  <2> QED
    BY <1>4, <2>1, CleanFacts, RemoveInv
<1>5. ASSUME Tick PROVE IInv'
  <2>1. TypeOK'
    BY <1>5, SizesAssumption DEF IInv, Tick, TypeOK, Expired
  <2> QED
    BY <1>5, <2>1 DEF IInv, Tick, OneToOne, Placed, Unique, Occupied, Probe
<1>6. ASSUME Restart PROVE IInv'
  <2>1. TypeOK'
    BY <1>6, SizesAssumption DEF Restart, TypeOK, Entry, Empty, Channel, Expired
  <2>2. Occupied' = {}
    BY <1>6 DEF Restart, Occupied, Empty
  <2> QED
    BY <1>6, <2>1, <2>2 DEF Restart, IInv, OneToOne, Placed, Unique
<1>7. ASSUME UNCHANGED vars PROVE IInv'
  BY <1>7 DEF vars, IInv, TypeOK, OneToOne, Placed, Unique, Occupied, Probe
<1> QED
  BY <1>1, <1>2, <1>3, <1>4, <1>5, <1>6, <1>7 DEF Next
-----------------------------------------------------------------------------
(* The invariant holds of every reachable state. *)
LEMMA InvAlways == Spec => []IInv
<1> QED
  BY InitInv, InvStep, PTL DEF Spec

(* The table, the pool and the time stamps keep their types; in particular   *)
(* no entry is left naming no channel.                                       *)
THEOREM TypeCorrect == Spec => []TypeOK
<1>1. IInv => TypeOK
  BY DEF IInv
<1> QED
  BY <1>1, InvAlways, PTL

(* No two videos ever share a channel, and the channels handed out are       *)
(* exactly those an entry names: allocate_voice_channel with its rollback,   *)
(* release_voice_channel and the sweep lose none and free none twice.        *)
THEOREM EntriesMatchChannels == Spec => []OneToOne
<1>1. IInv => OneToOne
  BY DEF IInv
<1> QED
  BY <1>1, InvAlways, PTL

(* With the invariant, every lookup of an entry's key succeeds. *)
LEMMA InvFound == IInv => EveryEntryFound
  BY LookupFinds DEF IInv, EveryEntryFound

(* CMultiHash never hides an entry from its lookup, in whatever order        *)
(* entries are inserted and cleared.                                         *)
THEOREM LookupsFindEntries == Spec => []EveryEntryFound
<1> QED
  BY InvFound, InvAlways, PTL

(* There are never more entries than channels in the pool. *)
LEMMA EntriesBounded ==
  ASSUME IInv
  PROVE  IsFiniteSet(Occupied) /\ Cardinality(Occupied) <= NodeNum
<1>1. IsFiniteSet(Channel) /\ Cardinality(Channel) = NodeNum
  BY FS_Interval, SizesAssumption DEF Channel
<1> DEFINE f == [c \in Occupied |-> table[c].uiChannelId]
<1>2. f \in [Occupied -> Channel]
  BY DEF IInv, TypeOK, Entry, Occupied
<1>3. \A c, d \in Occupied : f[c] = f[d] => c = d
  BY DEF IInv, OneToOne
<1>4. f \in Injection(Occupied, Channel)
  BY <1>2, <1>3 DEF Injection, IsInjective
<1> HIDE DEF f
<1> QED
  BY <1>1, <1>4, FS_Injection

(* The cut-off of the sweep hides no entry. *)
LEMMA SweepSeesAll == ASSUME IInv
                      PROVE  Seen = Occupied
<1>1. IsFiniteSet(Occupied) /\ Cardinality(Occupied) <= NodeNum
  BY EntriesBounded
<1>2. ASSUME NEW c \in Occupied
      PROVE  Cardinality({d \in Occupied : Position(d) <= Position(c)}) <= NodeNum
  <2> DEFINE D == {d \in Occupied : Position(d) <= Position(c)}
  <2>1. IsFiniteSet(D) /\ Cardinality(D) <= Cardinality(Occupied)
    BY <1>1, FS_Subset
  <2>2. Cardinality(D) \in Nat /\ Cardinality(Occupied) \in Nat
    BY <1>1, <2>1, FS_CardinalityType
  <2> HIDE DEF D
  <2>3. Cardinality(D) <= NodeNum
    BY <1>1, <2>1, <2>2, SizesAssumption
  <2> QED
    BY <2>3 DEF D
<1> QED
  BY <1>2 DEF Seen

(* A sweep leaves no channel in use that no frame has reached for longer     *)
(* than Timeout: however large the hash is against the pool, the cut-off by  *)
(* the size of the pool never stops the sweep early.                         *)
THEOREM SweepComplete == Spec => SweepLeavesNoneStale
<1>1. ASSUME IInv, Clean
      PROVE  \A c \in Occupied' : idle'[table'[c].uiChannelId] <= Timeout
  <2>1. Occupied' = Occupied \ Stale /\ \A c \in Occupied' : table'[c] = table[c]
    BY <1>1, CleanFacts DEF Occupied, Empty
  <2>2. \A c \in Occupied : c \in Stale \/ idle[table[c].uiChannelId] <= Timeout
    <3>1. \A c \in Occupied : idle[table[c].uiChannelId] \in Nat
      BY <1>1, SizesAssumption DEF IInv, TypeOK, Entry, Occupied, Expired
    <3> QED
      BY <1>1, <3>1, SweepSeesAll, SizesAssumption DEF Stale
  <2> QED
    BY <1>1, <2>1, <2>2, CleanFacts
<1>2. IInv /\ [Next]_vars =>
        [Clean => \A c \in Occupied' : idle'[table'[c].uiChannelId] <= Timeout]_vars
  BY <1>1
<1> QED
  BY <1>2, InvAlways, PTL DEF Spec, SweepLeavesNoneStale

(* A key whose entry a step leaves as it is keeps its channel. *)
LEMMA SameEntryKeeps ==
  ASSUME IInv, EveryEntryFound', NEW k \in Key, HasChannel(k),
         table'[get(k)] = table[get(k)]
  PROVE  HasChannel(k)' /\ ChannelOf(k)' = ChannelOf(k)
<1>1. PICK c \in Occupied : c = get(k) /\ table[c].uiKey = k
  BY GetFacts DEF IInv, HasChannel
<1>2. c \in Occupied' /\ table'[c].uiKey = k
  BY <1>1 DEF Occupied
<1>3. Found(k)' /\ get(k)' = c
  BY <1>2 DEF EveryEntryFound
<1> QED
  BY <1>1, <1>3 DEF HasChannel, ChannelOf

(* While a video is fed at least every Timeout seconds it keeps its channel, *)
(* whatever frames of other videos and sweeps come in between; only a        *)
(* restart of the process takes it away.                                     *)
THEOREM FedVideosKeepChannels == Spec => FedKeepsChannel
<1> DEFINE Kept(k) == HasChannel(k)' /\ ChannelOf(k)' = ChannelOf(k)
<1>1. ASSUME IInv, EveryEntryFound', Next, NEW k \in Key,
             HasChannel(k), idle[ChannelOf(k)] <= Timeout
      PROVE  Restart \/ Kept(k)
  <2>1. /\ get(k) \in Occupied /\ table[get(k)].uiKey = k
        /\ ChannelOf(k) = table[get(k)].uiChannelId
    BY <1>1, GetFacts DEF IInv, HasChannel, ChannelOf
  <2>2. CASE table' = table
    BY <1>1, <2>2, SameEntryKeeps
  <2>3. ASSUME NEW j \in Key, NEW e, ~HasChannel(j), CanIns(j),
               table' = [table EXCEPT ![ins(j)] = e]
        PROVE  Kept(k)
    <3>1. table[ins(j)].uiKey = 0
      BY <1>1, <2>3, InsFacts DEF IInv
    <3>2. table'[get(k)] = table[get(k)]
      BY <2>1, <2>3, <3>1 DEF Occupied
    <3> QED
      BY <1>1, <3>2, SameEntryKeeps
  <2>4. ASSUME Clean PROVE Kept(k)
    <3>1. get(k) \notin Stale
      <4>1. idle[ChannelOf(k)] \in Nat
        BY <1>1, <2>1, SizesAssumption DEF IInv, TypeOK, Entry, Occupied, Expired
      <4> QED
        BY <1>1, <2>1, <4>1, SizesAssumption DEF Stale
    <3>2. table'[get(k)] = table[get(k)]
      BY <1>1, <2>1, <2>4, <3>1, CleanFacts DEF Occupied
    <3> QED
      BY <1>1, <3>2, SameEntryKeeps
  <2> HIDE DEF Kept
  <2> QED
    BY <1>1, <2>2, <2>3, <2>4 DEF Next, PushBack, OpenChannel, OpenFails, Tick
<1>2. IInv /\ EveryEntryFound' /\ [Next]_vars =>
        [\A k \in Key :
           (HasChannel(k) /\ idle[ChannelOf(k)] <= Timeout) =>
              \/ Restart
              \/ HasChannel(k)' /\ ChannelOf(k)' = ChannelOf(k)]_vars
  BY <1>1
<1> HIDE DEF Kept
<1> QED
  BY <1>2, InvAlways, InvFound, PTL DEF Spec, FedKeepsChannel
=============================================================================
