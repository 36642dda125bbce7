--------------------------- MODULE ChannelService ---------------------------
(* The channel manager on top of the pool it really has: DataChannelMgr with *)
(* the linked lists of VoiceChannelAlloc in place of a set of channels, and  *)
(* with the sweep one entry after the other, each released by its key.  The  *)
(* manager releases whatever channel its table says, held or not.            *)
EXTENDS VoiceChannelAlloc

CONSTANTS HashLen, HashTime, HashBase, Key, Timeout

ASSUME ServiceAssumption ==
  /\ HashLen \in Nat \ {0} /\ HashTime \in Nat \ {0} /\ Timeout \in Nat
  /\ Key \subseteq Nat \ {0}
  /\ HashBase \in [1 .. HashTime -> 1 .. HashLen]

VARIABLES table, idle,     \* as in DataChannelMgr
          pending          \* the entries that a sweep has still to look at

serviceVars == <<vars, table, idle, pending>>
lists == <<freeHead, freeTail, usedHead, usedTail, prev, next>>

Mgr == INSTANCE DataChannelMgr WITH used <- held

ServiceTypeOK == TypeOK /\ Mgr!TypeOK /\ pending \in SUBSET Mgr!Cell

ServiceInit == Init /\ Mgr!Init /\ pending = {}
-----------------------------------------------------------------------------
(* The process has one thread: nothing happens during a sweep, unless it dies. *)
Quiet == pending = {} /\ pending' = {}

PushBack(k) == Quiet /\ Mgr!PushBack(k) /\ UNCHANGED lists

(* CDataChannelMgr::allocate_voice_channel with the pool's own. *)
OpenChannel(k, taken) ==
  /\ Quiet /\ ~Mgr!HasChannel(k) /\ Mgr!CanIns(k)
  /\ Allocate
  /\ table' = [table EXCEPT ![Mgr!ins(k)] = [uiKey |-> k, uiChannelId |-> freeHead]]
  /\ idle' = [idle EXCEPT ![freeHead] = IF taken THEN 0 ELSE Mgr!Expired]

OpenFails(k) == /\ Quiet /\ ~Mgr!HasChannel(k) /\ Mgr!CanIns(k)
                /\ freeHead = INVALID
                /\ table' = [table EXCEPT ![Mgr!ins(k)] = Mgr!Empty]
                /\ UNCHANGED <<vars, idle>>

Sweep == /\ pending = {} /\ pending' = Mgr!Seen
         /\ UNCHANGED <<vars, table, idle>>

(* CDataChannelMgr::release_voice_channel that leaves the entry. *)
ReleaseKeepsEntry(k) ==
  LET c == Mgr!ChannelOf(k)
  IN  /\ Mgr!Found(k)
      /\ held' = held \ {c}
      /\ ReleaseHead(c) \/ ReleaseTail(c) \/ ReleaseMiddle(c)
      /\ UNCHANGED table

(* CDataChannelMgr::release_voice_channel *)
ReleaseChannel(k) ==
  LET c == Mgr!ChannelOf(k)
  IN  /\ Mgr!Found(k)
      /\ held' = held \ {c}
      /\ ReleaseHead(c) \/ ReleaseTail(c) \/ ReleaseMiddle(c)
      /\ table' = [table EXCEPT ![Mgr!get(k)] = Mgr!Empty]

Old(c) == idle[table[c].uiChannelId] > Timeout
Earliest == CHOOSE c \in pending : \A d \in pending : Mgr!Position(c) <= Mgr!Position(d)

(* The sweep looks at its next entry. *)
Visit == /\ pending # {} /\ pending' = pending \ {Earliest}
         /\ IF Old(Earliest) THEN ReleaseChannel(table[Earliest].uiKey)
                             ELSE UNCHANGED <<vars, table>>
         /\ UNCHANGED idle

Tick == Quiet /\ Mgr!Tick /\ UNCHANGED lists

(* Both tables are built anew in their memory. *)
Restart == /\ Mgr!Restart /\ pending' = {}
           /\ Built(freeHead', freeTail', usedHead', usedTail', prev', next')

ServiceNext ==
  \/ \E k \in Key : \/ PushBack(k) \/ OpenFails(k)
                    \/ \E taken \in BOOLEAN : OpenChannel(k, taken)
  \/ Sweep \/ Visit \/ Tick \/ Restart

ServiceSpec == ServiceInit /\ [][ServiceNext]_serviceVars
-----------------------------------------------------------------------------
(* The manager on the real pool behaves as DataChannelMgr says, so that all  *)
(* that is shown there holds: what the lists hand out is free, what is       *)
(* released by key is what the sweep has found, whatever was released before *)
(* it, and a sweep, in as many steps as it has entries, is one step to       *)
(* everyone else, the first.                                                 *)
Gone == {c \in pending : Old(c)}
Manager == INSTANCE DataChannelMgr WITH
             table <- [c \in Mgr!Cell |-> IF c \in Gone THEN Mgr!Empty ELSE table[c]],
             used <- held \ {table[c].uiChannelId : c \in Gone}
ImplementsManager == Manager!Spec
=============================================================================
