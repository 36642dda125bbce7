--------------------------- MODULE DataChannelMgr ---------------------------
(* CDataChannelMgr (voice_channel.cpp): which voice channel carries which    *)
(* video.  A multi-hash (CMultiHash.h) kept in shared memory maps a video's  *)
(* key to a channel of the pool; a frame opens a channel for a key that has  *)
(* none; a sweep takes back the channels that no frame has reached for       *)
(* Timeout seconds.  The hash and the pool are sized by different keys of    *)
(* the configuration, either may fill up first.                              *)
(*                                                                           *)
(* The pool is the one of VoiceChannelAlloc, seen as the set of channels it  *)
(* has handed out: any free channel may come next.                           *)
EXTENDS Integers, FiniteSets, FiniteSetsExt

CONSTANTS HashLen, HashTime,  \* cells in a row of the multi-hash, rows
          HashBase,           \* m_uiHashBase, the modulus of each row
          NodeNum,            \* channels in the pool
          Key,                \* original video ids, never 0
          Timeout             \* seconds without a frame; 5 in the code

ASSUME SizesAssumption == /\ HashLen \in Nat \ {0} /\ HashTime \in Nat \ {0}
                          /\ NodeNum \in Nat \ {0} /\ Timeout \in Nat
                          /\ Key \subseteq Nat \ {0}
ASSUME BaseAssumption == HashBase \in [1 .. HashTime -> 1 .. HashLen]

INVALID_VOICECHANNEL_ID == -1      \* 0xffffffff
INVALID == INVALID_VOICECHANNEL_ID

Row == 1 .. HashTime
Cell == Row \X (0 .. HashLen - 1)
Channel == 0 .. NodeNum - 1

Entry == [uiKey : Key \cup {0}, uiChannelId : Channel]
Empty == [uiKey |-> 0, uiChannelId |-> 0]      \* clear() writes zeroes

VARIABLES table,    \* the multi-hash, one entry per cell
          used,     \* the channels the pool has handed out
          idle      \* seconds since a channel's m_uiPushTime, up to Expired

vars == <<table, used, idle>>

Expired == Timeout + 1    \* as old as the time stamp 0 of an unfed channel

TypeOK == /\ table \in [Cell -> Entry]
          /\ used \in SUBSET Channel
          /\ idle \in [Channel -> 0 .. Expired]
-----------------------------------------------------------------------------
Occupied == {c \in Cell : table[c].uiKey # 0}

(* The cell a key has in a row, and the rows whose cell holds the key: key 0 *)
(* stands for the rows where k finds its cell empty.                         *)
Probe(i, k) == <<i, k % HashBase[i]>>
RowsWith(k) == {i \in Row : table[Probe(i, k)].uiKey = k}
RowsFree(k) == {i \in Row : table[Probe(i, k)].uiKey = 0}

(* A lookup that gives up after the first row. *)
FoundInFirstRow(k) == 1 \in RowsWith(k)

(* CMultiHash::get: the first row that holds k, if one does. *)
Found(k) == RowsWith(k) # {}
get(k) == Probe(Min(RowsWith(k)), k)

(* CVoiceChannelIdMgr::ins: the entry of k, or else the first row whose cell *)
(* for k is empty, if there is one.                                          *)
CanIns(k) == Found(k) \/ RowsFree(k) # {}
ins(k) == IF Found(k) THEN get(k) ELSE Probe(Min(RowsFree(k)), k)

ChannelOf(k) == table[get(k)].uiChannelId
HasChannel(k) == Found(k) /\ ChannelOf(k) # INVALID
-----------------------------------------------------------------------------
(* init of both managers clears the hash and rebuilds the pool. *)
Init == /\ table = [c \in Cell |-> Empty]
        /\ used = {}
        /\ idle = [c \in Channel |-> Expired]

Restart == /\ table' = [c \in Cell |-> Empty]
           /\ used' = {}
           /\ idle' = [c \in Channel |-> Expired]

(* A video or audio frame for a key with a channel; its buffer takes it.  A  *)
(* frame that the buffer refuses changes nothing here.                       *)
PushBack(k) == /\ HasChannel(k)
               /\ idle' = [idle EXCEPT ![ChannelOf(k)] = 0]
               /\ UNCHANGED <<table, used>>

(* A frame for a key without a channel: allocate_voice_channel finds it a    *)
(* cell and a channel.  The handler may still fail before the buffer, or the *)
(* buffer refuse the frame (taken = FALSE); the channel stays open with no   *)
(* time stamp.  Without a cell for k nothing changes.                        *)
OpenChannel(k, taken) ==
  /\ ~HasChannel(k) /\ CanIns(k)
  /\ \E c \in Channel \ used :
        /\ table' = [table EXCEPT ![ins(k)] = [uiKey |-> k, uiChannelId |-> c]]
        /\ used' = used \cup {c}
        /\ idle' = [idle EXCEPT ![c] = IF taken THEN 0 ELSE Expired]

(* The entry stays behind when the pool is empty. *)
OpenWithoutRollback(k) ==
  /\ ~HasChannel(k) /\ CanIns(k) /\ used = Channel
  /\ table' = [table EXCEPT ![ins(k)] = [uiKey |-> k, uiChannelId |-> INVALID]]
  /\ UNCHANGED <<used, idle>>

(* The same frame when the pool is empty: the new entry is taken back. *)
OpenFails(k) == /\ ~HasChannel(k) /\ CanIns(k) /\ used = Channel
                /\ table' = [table EXCEPT ![ins(k)] = Empty]
                /\ UNCHANGED <<used, idle>>
-----------------------------------------------------------------------------
Position(c) == c[1] * HashLen + c[2]

(* Cut-offs of the sweep that miss an entry: one entry too early, and after  *)
(* as many cells, not entries, as there are channels.                        *)
SeenTooFew == {c \in Occupied :
                 Cardinality({d \in Occupied : Position(d) <= Position(c)}) < NodeNum}
SeenCells == {c \in Occupied : Position(c) - HashLen < NodeNum}

(* The sweep visits the entries row by row, and stops after as many as there *)
(* are channels.                                                             *)
Seen == {c \in Occupied :
           Cardinality({d \in Occupied : Position(d) <= Position(c)}) <= NodeNum}

StaleTooEarly == {c \in Seen : idle[table[c].uiChannelId] >= Timeout}

Stale == {c \in Seen : idle[table[c].uiChannelId] > Timeout}

(* A release that clears the entry before it reads the channel from it. *)
CleanReleasesCleared ==
  LET gone == {get(table[c].uiKey) : c \in Stale}
  IN  /\ table' = [c \in Cell |-> IF c \in gone THEN Empty ELSE table[c]]
      /\ used' = used \ {Empty.uiChannelId : c \in gone}
      /\ UNCHANGED idle

(* DoCleanInvalidVoiceChannel: each stale entry is released by its key, that *)
(* is, the lookup of the key decides which cell is cleared and which channel *)
(* goes back to the pool.  dispatch_timeout lets 30 seconds pass between two *)
(* sweeps; here they may come at any time.                                   *)
Clean == LET gone == {get(table[c].uiKey) : c \in Stale}
         IN  /\ table' = [c \in Cell |-> IF c \in gone THEN Empty ELSE table[c]]
             /\ used' = used \ {table[c].uiChannelId : c \in gone}
             /\ UNCHANGED idle

(* A second passes. *)
Tick == /\ idle' = [c \in Channel |-> IF idle[c] = Expired THEN Expired ELSE idle[c] + 1]
        /\ UNCHANGED <<table, used>>

Next == \/ \E k \in Key : \/ PushBack(k)
                          \/ \E taken \in BOOLEAN : OpenChannel(k, taken)
                          \/ OpenFails(k)
        \/ Clean \/ Tick \/ Restart

Spec == Init /\ [][Next]_vars

(* Time passes, and run() calls dispatch_timeout every 200 iterations.       *)
FairSpec == Spec /\ WF_vars(Tick) /\ WF_vars(Clean)
-----------------------------------------------------------------------------
(* The entries of the hash and the channels handed out match one to one: no  *)
(* two videos share a channel, no channel is lost to the pool, none is given *)
(* back while an entry still names it (allocate_voice_channel with its       *)
(* rollback, release_voice_channel, the sweep).                              *)
OneToOne == /\ \A c, d \in Occupied :
                  table[c].uiChannelId = table[d].uiChannelId => c = d
            /\ used = {table[c].uiChannelId : c \in Occupied}

(* Every entry is the one its key's lookup returns, though the rows before   *)
(* it empty and fill again: release by key frees the channel the sweep found *)
(* stale, and a key never has two entries, with one out of reach.            *)
EveryEntryFound == \A c \in Occupied : Found(table[c].uiKey) /\ get(table[c].uiKey) = c

(* A sweep leaves no stale channel behind: the cut-off by the size of the    *)
(* pool never hides one, although the hash may have more cells than that.    *)
SweepLeavesNoneStale ==
  [][Clean => \A c \in Occupied' : idle'[table'[c].uiChannelId] <= Timeout]_vars

(* A video that was fed within Timeout keeps its channel: no sweep and no    *)
(* frame of another video, whether that gets a channel or finds the hash or  *)
(* the pool full, takes it away or changes it.  Only a restart does.         *)
FedKeepsChannel ==
  [][\A k \in Key :
       (HasChannel(k) /\ idle[ChannelOf(k)] <= Timeout) =>
          \/ Restart
          \/ HasChannel(k)' /\ ChannelOf(k)' = ChannelOf(k)]_vars

(* A video that is no longer fed loses its channel: it is without one again  *)
(* and again unless it is fed again and again.                               *)
UnfedLosesChannel ==
  \A k \in Key : \/ []<>~HasChannel(k)
                 \/ []<>(HasChannel(k) /\ idle[ChannelOf(k)] = 0)
=============================================================================
