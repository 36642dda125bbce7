---------------------------- MODULE ChannelPool ----------------------------
(* What the voice-channel allocator promises its callers: a fixed pool of    *)
(* channels, each either free or held by one caller.  A channel is handed    *)
(* out from the front of the free list and goes to its back when it is given *)
(* back, so the channel given back last is the last to be reused.            *)
(* VoiceChannelAlloc implements this with linked indices.                    *)
EXTENDS Sequences

CONSTANT InitialFree      \* the free list of a new pool, without repetition

VARIABLES free,           \* the free list, first to be handed out first
          used            \* the set of channels handed out

poolVars == <<free, used>>

PoolInit == free = InitialFree /\ used = {}

(* Hand out the first free channel. *)
Take == /\ free # <<>>
        /\ free' = Tail(free)
        /\ used' = used \cup {Head(free)}

(* Take back a channel that was handed out. *)
Give(c) == /\ c \in used
           /\ used' = used \ {c}
           /\ free' = Append(free, c)

PoolNext == Take \/ \E c \in used : Give(c)

PoolSpec == PoolInit /\ [][PoolNext]_poolVars
=============================================================================
