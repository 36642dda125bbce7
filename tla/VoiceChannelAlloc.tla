------------------------- MODULE VoiceChannelAlloc -------------------------
(* CVoiceChannelAllocMgr (voice_channel.h): the pool of voice channels kept  *)
(* in shared memory as an array of nodes threaded on two doubly linked       *)
(* lists, the free list and the used list.  Every load and store of a list   *)
(* field is kept; the channel data itself (m_pData) is left out, no list     *)
(* operation reads it.                                                       *)
EXTENDS Integers, Sequences, FiniteSets, Functions

CONSTANT NodeNum                    \* *m_puiNodeNum, the size of the pool

ASSUME NodeNumAssumption == NodeNum \in Nat \ {0}

INVALID_VOICECHANNEL_ID == -1       \* 0xffffffff
INVALID == INVALID_VOICECHANNEL_ID

Node == 0 .. NodeNum - 1
Link == Node \cup {INVALID}

VARIABLES freeHead, freeTail,       \* *m_uiFreeListHead, *m_uiFreeListTail
          usedHead, usedTail,       \* *m_uiUsedListHead, *m_uiUsedListTail
          prev, next,               \* m_pIndex[i].uiPrev, m_pIndex[i].uiNext
          held                      \* the callers' side: channels they were
                                    \* handed and have not released

vars == <<freeHead, freeTail, usedHead, usedTail, prev, next, held>>

TypeOK == /\ freeHead \in Link /\ freeTail \in Link
          /\ usedHead \in Link /\ usedTail \in Link
          /\ prev \in [Node -> Link]
          /\ next \in [Node -> Link]
          /\ held \in SUBSET Node
-----------------------------------------------------------------------------
(* A loop that leaves the tail of the free list one node too far. *)
BuiltTailTooFar(fh, ft, uh, ut, p, n) ==
  /\ fh = 0 /\ ft = NodeNum
  /\ uh = INVALID /\ ut = INVALID
  /\ p = [i \in Node |-> IF i = 0 THEN INVALID ELSE i - 1]
  /\ n = [i \in Node |-> IF i = NodeNum - 1 THEN INVALID ELSE i + 1]

(* What the initialisation loop leaves: nodes 0, 1, ... on the free list.    *)
(* The loop runs on every start of the process, new memory or not.           *)
Built(fh, ft, uh, ut, p, n) ==
  /\ fh = 0 /\ ft = NodeNum - 1
  /\ uh = INVALID /\ ut = INVALID
  /\ p = [i \in Node |-> IF i = 0 THEN INVALID ELSE i - 1]
  /\ n = [i \in Node |-> IF i = NodeNum - 1 THEN INVALID ELSE i + 1]

Init == /\ Built(freeHead, freeTail, usedHead, usedTail, prev, next)
        /\ held = {}

(* The guarded store  if (INVALID != n) m_pIndex[n].field = v.               *)
Store(field, n, v) == IF n = INVALID THEN field ELSE [field EXCEPT ![n] = v]

(* An allocation that forgets to set the head of an empty used list. *)
AllocateNoHead ==
  /\ freeHead # INVALID
  /\ LET c == freeHead
         h == next[c]
     IN  /\ freeHead' = h
         /\ freeTail' = IF h = INVALID THEN INVALID ELSE freeTail
         /\ prev' = [Store(prev, h, INVALID) EXCEPT ![c] = usedTail]
         /\ next' = [Store(next, usedTail, c) EXCEPT ![c] = INVALID]
         /\ usedTail' = c
         /\ UNCHANGED usedHead
         /\ held' = held \cup {c}

(* allocate_voice_channel on a non-empty free list; on an empty one it       *)
(* returns INVALID_VOICECHANNEL_ID and changes nothing.                      *)
Allocate ==
  /\ freeHead # INVALID
  /\ LET c == freeHead
         h == next[c]
     IN  /\ freeHead' = h
         /\ freeTail' = IF h = INVALID THEN INVALID ELSE freeTail
         /\ prev' = [Store(prev, h, INVALID) EXCEPT ![c] = usedTail]
         /\ next' = [Store(next, usedTail, c) EXCEPT ![c] = INVALID]
         /\ usedTail' = c
         /\ usedHead' = IF usedHead = INVALID THEN c ELSE usedHead
         /\ held' = held \cup {c}

(* A release that puts the channel at the head of the free list. *)
PrependFree(c, p, n) ==
  /\ next' = [n EXCEPT ![c] = freeHead]
  /\ prev' = [Store(p, freeHead, c) EXCEPT ![c] = INVALID]
  /\ freeHead' = c
  /\ freeTail' = IF freeTail = INVALID THEN c ELSE freeTail

(* A release that forgets the head of an empty free list. *)
AppendFreeNoHead(c, p, n) ==
  /\ prev' = [p EXCEPT ![c] = freeTail]
  /\ next' = [Store(n, freeTail, c) EXCEPT ![c] = INVALID]
  /\ freeTail' = c
  /\ UNCHANGED freeHead

(* The second half of release_voice_channel: c, unlinked from the used list, *)
(* goes to the tail of the free list.  p and n are the link fields so far.   *)
AppendFree(c, p, n) ==
  /\ prev' = [p EXCEPT ![c] = freeTail]
  /\ next' = [Store(n, freeTail, c) EXCEPT ![c] = INVALID]
  /\ freeTail' = c
  /\ freeHead' = IF freeHead = INVALID THEN c ELSE freeHead

(* A release of the only used node that leaves the tail of the used list. *)
ReleaseHeadStaleTail(c) ==
  /\ usedHead = c
  /\ usedHead' = next[c]
  /\ UNCHANGED usedTail
  /\ AppendFree(c, Store(prev, next[c], INVALID), next)

(* c is the head of the used list, perhaps its only node. *)
ReleaseHead(c) ==
  /\ usedHead = c
  /\ usedHead' = next[c]
  /\ usedTail' = IF next[c] = INVALID THEN INVALID ELSE usedTail
  /\ AppendFree(c, Store(prev, next[c], INVALID), next)

(* c is the tail of the used list and not its head. *)
ReleaseTail(c) ==
  /\ usedHead # c /\ usedTail = c
  /\ usedTail' = prev[c]
  /\ UNCHANGED usedHead
  /\ AppendFree(c, prev, [next EXCEPT ![prev[c]] = INVALID])

(* A release that links only one neighbour of the node to the other. *)
ReleaseMiddleOneWay(c) ==
  /\ usedHead # c /\ usedTail # c
  /\ UNCHANGED <<usedHead, usedTail>>
  /\ AppendFree(c, prev, [next EXCEPT ![prev[c]] = next[c]])

(* c is neither end of the used list.  The stores through prev[c] and        *)
(* next[c] are not guarded in the code; ReleaseStoresInBounds is about them.  *)
ReleaseMiddle(c) ==
  /\ usedHead # c /\ usedTail # c
  /\ UNCHANGED <<usedHead, usedTail>>
  /\ AppendFree(c, [prev EXCEPT ![next[c]] = prev[c]],
                   [next EXCEPT ![prev[c]] = next[c]])

(* release_voice_channel: its callers only release what they hold            *)
(* (DataChannelMgr shows that they do).                                      *)
Release(c) == /\ c \in held
              /\ held' = held \ {c}
              /\ ReleaseHead(c) \/ ReleaseTail(c) \/ ReleaseMiddle(c)

Next == Allocate \/ \E c \in held : Release(c)

Spec == Init /\ [][Next]_vars
-----------------------------------------------------------------------------
(* Where a walk from h along uiNext stands after i nodes: the loop that      *)
(* freeChannelNum and get_used_voice_channel both run, at most NodeNum times *)
(* and up to the first INVALID link.                                         *)
At(h) == LET at[i \in 1 .. NodeNum] ==
               IF i = 1 THEN h
               ELSE IF at[i - 1] = INVALID THEN INVALID ELSE next[at[i - 1]]
         IN  at

(* The nodes such a walk meets. *)
Walk(h) == [i \in 1 .. Cardinality({j \in 1 .. NodeNum : At(h)[j] # INVALID})
              |-> At(h)[i]]

freeChannelNum == Len(Walk(freeHead))
get_used_voice_channel == Walk(usedHead)
-----------------------------------------------------------------------------
(* s lists k nodes in the order of a doubly linked list from h to t.         *)
Threads(s, k, h, t, p, n) ==
  /\ h = IF k = 0 THEN INVALID ELSE s[1]
  /\ t = IF k = 0 THEN INVALID ELSE s[k]
  /\ \A i \in 1 .. k : /\ p[s[i]] = IF i = 1 THEN INVALID ELSE s[i - 1]
                       /\ n[s[i]] = IF i = k THEN INVALID ELSE s[i + 1]

(* The ways to list the members of S one by one. *)
Orders(S) == Bijection(1 .. Cardinality(S), S)

(* The nodes of S, each once, form one doubly linked list from h to t. *)
ListOf(S, h, t) == \E s \in Orders(S) : Threads(s, Cardinality(S), h, t, prev, next)

(* The held channels are the used list and all the others the free list:     *)
(* each is one doubly linked list with its own head and tail, whole and      *)
(* apart from the other, after any sequence of allocations and releases, in  *)
(* any order and wherever the released node stands in its list.              *)
ListsLinked == /\ ListOf(held, usedHead, usedTail)
               /\ ListOf(Node \ held, freeHead, freeTail)

(* A channel that a caller holds is never handed out a second time. *)
NoDoubleAllocation == freeHead \notin held

(* The comment at the top of release_voice_channel: whenever it is called,   *)
(* the head and the tail of the used list are not INVALID; and the one in    *)
(* its tail branch: the new tail is not INVALID either.  The unguarded       *)
(* stores of the middle branch go to real nodes.                             *)
ReleaseStoresInBounds ==
  \A c \in held :
     /\ usedHead # INVALID /\ usedTail # INVALID
     /\ c # usedHead => prev[c] \in Node
     /\ c # usedHead /\ c # usedTail => next[c] \in Node

(* No channel is lost: the two walks the program makes meet every channel    *)
(* exactly once, so that "total - freeChannelNum()" counts the channels in   *)
(* use (DoCleanInvalidVoiceChannel reports it so), and the used walk meets   *)
(* just the held ones.                                                       *)
NoChannelLost == /\ get_used_voice_channel \in Orders(held)
                 /\ Walk(freeHead) \in Orders(Node \ held)
                 /\ NodeNum - freeChannelNum = Cardinality(held)

(* The allocator is a FIFO pool of NodeNum channels. *)
Pool == INSTANCE ChannelPool WITH
          InitialFree <- [i \in 1 .. NodeNum |-> i - 1],
          free <- Walk(freeHead), used <- held
ImplementsPool == Pool!PoolSpec
=============================================================================
