# Verification of the HLS / FLV streaming server

TLA+ models of `muxsvr_mcd` (`src/hlssvr2.0`), model-checked with TLC; every safety
property is also proved with TLAPS. Paths below are relative to `src/hlssvr2.0`.

## The system

One process, `muxsvr_mcd`, takes video and audio frames of live streams, cuts
them into transport stream fragments, and answers players that ask for a
playlist or a fragment. It is single-threaded: `CMCDProc::run`
(`muxsvr_mcd_proc.cpp:84`) looks at its signal flags every 100 rounds, runs the
time-outs every 200 rounds, and in each round dispatches the messages of its
queues. The queues are rings in shared memory; at the other end are the network
front ends (CCD for clients, DCC for servers), processes of their own.

| component | state | operations | what makes it correct |
|---|---|---|---|
| channel pool, `voice_channel.h:460-736` | two doubly linked lists over an array of nodes | init, allocate, release, the two walks | every channel is on one list, once; none is handed out twice or lost; FIFO reuse |
| multi-hash, `pub/CMultiHash.h` | rows of cells, a base per row | get, ins, del, val, the sieve of bases | a key has one entry and the lookup finds it |
| channel manager, `voice_channel.cpp` | multi-hash from stream key to channel, the pool, a time stamp per channel | get, allocate, release, sweep | entries and channels match one to one; fed streams keep their channel, others give it back |
| message queues, `comm/tfc_net_ipc_mq.cpp`, `comm/tfc_cache_proc.cpp` | ring, head, tail, pipe of wake-ups | enqueue, dequeue, poll | whole messages, in order, at most once, none forgotten, without a lock; a crash loses only the one in the reader's hand |
| HLS segmenter, `hls/hls_mpegts.c` | window of fragments, ring of memory slots, playlist, audio buffer | video frame, audio frame, close, open, write, flush | what the playlist lists is served; times fit; every handler returns |
| HLS tables, `hls/hls_stream.c`, `hls/hls_mpegts.c:1527-1651` | a table of sessions and a table of fragment memories, meant to go together | get-or-create, search, clean | one slot per stream, the same in both; a freed slot forgets its stream |
| information tables, `info_channel.cpp` | videos, rooms, flows of viewers | add, touch, delete, two sweeps | flows and videos refer to each other; what is idle goes away |
| frame buffers, `CFrameBuffer.cpp`, `CAudioBuffer.h` | slots by sequence number, data ring, read and write position | push, read in order | frames come out in order; a slot is not read in place of another |
| protocol handlers, `protol_process.cpp` | none of their own | frames, requests, notifications | the tables they touch stay consistent with each other |

The components interact by calls inside the one process (handlers call the
managers, the segmenter writes to the queue towards the cache servers) and by
the shared memory of the queues between processes. A channel holds a raw pointer
to the HLS session of its stream. Three sweeps of their own rhythm (channels,
videos, rooms) end what is idle. The behaviours that are hard: the queues'
interleavings and crashes; the lists of the pool under long call sequences; hash
rows that collide, empty and fill again; two limits that differ (cells of the
hash, nodes of the pool); the segmenter, which closes and opens fragments from
inside a write; and the life of a stream, spread over tables that different
sweeps clean. `PROJECT.json` lists these hazards line by line.

## Modules

| module | models | abstract specification |
|---|---|---|
| `VoiceChannelAlloc` | the pool, link by link | `ChannelPool`, a FIFO pool |
| `DataChannelMgr` | the channel manager with its multi-hash, the pool as a set | |
| `ChannelService` | the manager on the linked lists of the pool, its sweep entry by entry | `DataChannelMgr` |
| `HashBases` | the search for the bases of a multi-hash | |
| `ShmMQ` | one queue, its writer and its reader, step by step | `MsgQueue`, a queue that delivers whole messages at most once |
| `HlsFragments` | the segmenter of one stream | |
| `HlsTables` | the tables of sessions and of fragment memories | |
| `StreamLifecycle` | `HlsTables` with channels, videos, rooms, frames, sweeps and restarts | |
| `FrameBuffer` | the reordering buffers of a channel, video and sound | |
| `DataChannelMgrProofs`, `ChannelServiceProofs` (the pool's too), `HashBasesProofs`, `ShmMQProofs`, `HlsFragmentsProofs`, `StreamLifecycleProofs`, `FrameBufferProofs` | proofs | |
| `NaturalTheorems` | facts about numbers that the proofs share | |
| `MC...` | small instances for TLC | |

`StreamLifecycle` extends `HlsTables`; `ChannelService` extends
`VoiceChannelAlloc` and takes the manager's operations from `DataChannelMgr` by
`INSTANCE`. `StreamLifecycle` keeps a channel as one record per key, which is what
`DataChannelMgr` promises of the manager, and of a stream's fragments only whose
they are: `HlsFragments` has the rest.

Definitions keep the names of the source where there is one. Next to some
definitions stands a second form that a plausible slip would give
(`Release...StaleTail`, `...NoFlush`); nothing uses it, and replacing the
definition by it must make TLC report the property it belongs to.

### VoiceChannelAlloc

`freeHead`, `freeTail`, `usedHead`, `usedTail`, `prev`, `next` are the words of
the segment, `held` (which only the model has) the channels that the callers
have. `Allocate` is `allocate_voice_channel`; `Release` is
`release_voice_channel`, by its three cases, each ending in `AppendFree`.
A caller releases only what it holds: the one caller,
`CDataChannelMgr::release_voice_channel`, does so by `OneToOne` below.
The node fields that only carry data are left out.

### DataChannelMgr

`table` is the multi-hash, `used` the channels taken from the pool, `idle` the
seconds since a channel's last frame, capped one past the time-out (and at the
cap for a channel not fed yet: its time stamp is zero). `PushBack` is a frame for
a stream with a channel, `OpenChannel` and `OpenFails` the two outcomes of
`allocate_voice_channel` for one without, `Clean` the sweep, `Tick` a second,
`Restart` a new process, which clears both tables. Which channel the pool gives
is left open; `VoiceChannelAlloc` says that it is a free one, which is all that
is used. The bases of the rows are a constant, any function into `1 .. HashLen`; that
the search ends with such bases is `EnoughGoodBases` of `HashBasesProofs`.

### ChannelService

The composition of the two modules above: `OpenChannel` is the manager's
insertion together with the pool's `Allocate`, `ReleaseChannel` its deletion with
the three cases of the pool's release. Nothing says that a channel to be released is
held; that is to be shown. `Sweep` draws up the entries that
`DoCleanInvalidVoiceChannel` collects, `Visit` takes the next of them, looks at
its time stamp and releases it by its *key*, as the code does. The process may
die between two visits.

`ImplementsManager` says that this is `DataChannelMgr` under a refinement mapping:
`used` is `held` and `table` is `table`, but without the entries (`Gone`) that a sweep
under way has still to release. So a sweep takes effect at its first step, and the
visits are stutters. That they are hangs on what the composition could break: a
released key must be found where the sweep saw it, whatever went before.

### HashBases

`CMultiHash::init` and its second copy, `hls_hashbase_init`, count down from the
length of a row and take every number that no divisor up to the *length's* square
root divides. `i` is unsigned, so after 0 comes `Wrap - 1`. `table` says which copy
runs: only that of the HLS library ends the process when it has to take a 0.
`RangeAssumption` says that a word is wide enough: more numbers pass the sieve between a
length and `Wrap` than there are rows, so the search never comes round to the length again.
All primes there do; for `Wrap = 2^32` and the lengths of the configuration
they are about two hundred million.

### ShmMQ

The writer's `pc` is `writer`, the reader's `reader`. `Enqueue` tests for room;
`WriteHeader`, `WriteData` and `Publish` are its stores, `Notify` the optional
wake-up. `Wake`, `NoEvent`, `Poll` and `Return` are the event loop,
`Dequeue` ... `Consume` one call of `dequeue`, and `Handle` is the dispatch loop's handler
on what came back. Each access to shared memory that the other
side can see in between is a step of its own. `WriterCrash` and `ReaderCrash` may come at any
of these steps; they drop the locals of a process and leave the ring. Until `Consume` has
stored the head, a reader that starts again finds the message in the ring; between that store
and the end of the handler the message is in the reader's buffer only (`InHand`), and a crash
loses it. `MsgQueue` has the same window, its `inHand` and `Lose`: it promises delivery
at most once, and that nothing else is lost. The unit of length is a header field (four
bytes). The three places where a record may wrap are one definition, `Written`
(`Read` for the reader): the copies differ only in where they cut.

### HlsFragments

`opened`, `frag`, `nfrags`, `frags` are `hls_mpegts_ctx`; `mem` and `playlist`
are `hls_fragmem`, what players read; `audio` and `video` count packets still to
write. `work` is the stack of calls: `hls_write_fragmem_data` on a full slot
closes and opens a fragment, `hls_open_fragment` flushes the audio, and that
writes packets again. A packet that waits for the reopened fragment is a `"put"` on
the stack. `VideoFrame` and `AudioFrame` start a handler (`UpdateFragments` is
`hls_update_fragments`, part of both); the actions of `Handler` are its packets,
one step each. No request of a player comes in between, since the process has one
thread; what a player sees is nevertheless right in the middle of a handler too.
`CreateSession` is `hls_create_session` for a stream that has its slot already.

Abstracted: bytes of packets (a slot's length is in packets, and 1634 of them
fill 300 KB but for eight bytes), the 8-byte remainder, one audio frame as one
packet, time as the distance from the open fragment's start, which the network
is free to choose, and the audio delay as a choice (`late`). A packet written past the end
of a slot spoils the header of the next one (`Overrun`); past the last slot it leaves
the stream's memory, which this module does not follow.

### HlsTables and StreamLifecycle

`sessions` and `fragmems` are the arrays of `hls_stream.c` and `hls_mpegts.c`, reduced
to a cell's video, the session's pointer to its memory, and two pieces of what the
memory holds: whose fragments the playlist lists and whether the session has
listed any. `OpenTo` is the scan that creates (first cell that is free *or* the
video's own), `CellsOf` the one that searches; they differ, so a video may have
two cells. `Create`, `CreateFails`, `Write` and `Clean` are `hls_create_session`,
its two failures, a frame written, and `hls_clean_timeout_stream` for all the
videos a sweep takes. `Clean` leaves the rest of a cell as it was.

`channels` holds per key whether there is a channel, its `hls_session` pointer and
age; `rooms` is the mapping from a room to the key its audio goes to; `entries` the
table of videos; `clocks` the seconds since each of the three sweeps. The actions
`Video...` are `OnVideoFrame` by where it ends: without an original id, without a
channel, without a session, without an entry, and through to the end.
`HasSession` is the pointer test of the handler: the channel's session is taken if
it still has the video's id, else one is created. `Audio` is `OnRecvAudioData`,
which has no such test. `DispatchTimeout` runs the sweeps that are due, in the order
of `dispatch_timeout`: channels, videos, rooms. `SweepVideos` returns at the first
stale entry without a user; where that one stands is for the hash to say, so the
model lets it reach any of the others. `Restart` clears what `init` clears and
keeps the shared memory of videos and rooms; `CrashInFrame` leaves an entry of which only
the id was written.

Wherever a hash may have no cell left for a new key, the call may fail. Which
session a handler writes fragments to is kept, what it writes is not. Each player
is answered in one step from `search`.

### FrameBuffer

`CFrameBuffer` and `CAudioBuffer` are two copies of one algorithm; `buffer` says
which limits apply, whether the arithmetic on numbers wraps (32 bits of 32 for
video, 16 bits in 32 for sound) and whether a reset clears the slots (sound) or
not (video). `Push` is `push_back`, with the tests of `Resets`; `GetNothing`,
`GetFrame` and `GetMissing` are `get_frame_buffer_in_order` and
`get_voice_in_order`. A slot's `touch` is its time stamp as an age, or that it has none.
`fresh` is history, for the properties only: filled since the last reset.

## What the runs show

| run | instance | shows |
|---|---|---|
| `pool` | 5 nodes | linked lists, no double allocation, no loss, stores in bounds; refinement of `ChannelPool` |
| `channels` | 2 rows of 3 cells with bases 3 and 2, 3 channels, 5 keys, time-out 2 | one-to-one, lookups, a complete sweep, fed streams keep their channel, unfed ones lose it |
| `channel_service` | 3 nodes, 2 rows with bases 3 and 2, 4 keys, time-out 1 | the manager on the real pool implements the manager |
| `hash_bases` | both copies, lengths 1 to 30, 1 to 8 rows, integers modulo 64 | the largest primes in order while there are any, also past 0 and the wrap |
| `queue` | ring of 8 units, 3 messages of different length, one too long for the reader, 2 per dispatch, pipe of 1 | free cells only, the assertion on `total_len`, oldest message copied; refinement of `MsgQueue`: in order, at most once, one lost at most by a crash of the reader |
| `queue_live` | the two messages that fit | every message is taken |
| `fragments` | window 2, ring 5, slots of 4 packets, audio buffer of 3, 6 fragments and what overflows after them | playlists are served, also a while later; listed fragments are not touched; a slot is overrun by a limited number of packets |
| `fragment_times` | window 1, time differences -3, -1, 1, 3 with a second of 2 and a fragment of 3 ticks | target duration; handlers return |
| `fragment_overrun` | window 1 | the finding below |
| `streams` | 2 videos that share a channel and a room, 2 cells, time-outs 0 and 1, sweeps every 2 s | tables agree, playlists are the owner's, players find what frames write, and until the stream is idle |
| `streams_live` | 2 videos with a channel and a room each, 1 cell | audio stays with its stream; idle streams are forgotten |
| `frames` | video: 4 slots, numbers below 12, jump 2, distance 4; sound: 7 slots, below 9, 1, 2; time-out 0 | order and rounds, nothing overwritten, lag, no reader stuck |

Why the bounds are enough. Five nodes give a list with a proper middle and a
rest on the other list. With five keys over two rows, keys meet in the first
row, in the second and in both, more keys come than cells are in reach, and the
pool is smaller than the hash, as it is in the configuration. A ring of eight
units with records of three to five makes every wrap happen, in the header, between
header and data, in the data, and at the exact end. The ring of five memory slots
goes round once and the window slides over its end; two packets after the header are
the least that lets a fragment take some audio and fill up again; the audio
buffer (three packets) is larger than what a fragment takes, as 1 MB is larger
than 300 KB.

In `streams`, two cells are the least that lets both videos live, lets one of them
hold both (it is created before the cell in front of it is freed) and lets creation
fail while it does; the shared key makes the pointer of a channel go back and forth. In
`streams_live` the one cell is taken over at every change. The time-outs keep the order
of the code's (channels and rooms 5 s, videos 10 s, a sweep every 30 s): a stream
can be stale for the one table and not for the other, and frames come between a
time-out and the sweep it waits for. The sweeps start a second apart, as they do in `run`,
so they are due in different seconds. In `frames` the limits keep
their order too: for video as many slots as the distance and a jump of half (256, 256,
100), for sound more slots than both limits twice over (4096, 384, 50). Numbers
share slots in both, and those of video wrap, with a top that the slots divide
as 256 divides 2^32. The lengths of `hash_bases` have up to three primes below their
root and up to seven above, with rows enough to use all of them up.
`channel_service` has fewer nodes than keys and cells, so that insertions fail in
both ways.

The proofs lift the bounds of every safety property.

Bounds that only the models have: the cap on `idle`; `MaxFragment`, after which no
frame comes; `PipeSize` (a pipe holds 64 KB); ages, which count to one past the
largest limit they are compared with. Messages, keys, numbers and frame lengths come
from small sets.

Fairness. `channels`: seconds pass and the sweep comes again and again, for `run` calls
`dispatch_timeout` every 200 rounds and a round takes a millisecond at most when idle.
`queue_live`: the event loop goes on (`epoll_wait` has a time-out of 1 ms); nothing is asked
of the writer, and the reader crashes only finitely often, which the property says itself (a
crash that does what the loop would have done next does not count). `fragment_times`: a
handler that was called goes on; no frame need come. `streams_live`: seconds pass and
`dispatch_timeout` is called; since that happens several times a second, no second passes over
a sweep that is due. `frames`: time passes and the buffer is read again and again; a handler
reads after every push, so this assumes that frames of the stream keep coming, any frames.

### Finding

`hls_write_fragmem_data` (`hls/hls_mpegts.c:1700-1711`): when a slot is full the
fragment is closed and the next is opened, which flushes the buffered audio into
it; then the packet in hand is copied without another test for room. If the
header and the audio fill the new slot exactly, the packet goes past its end.
`hls_send_ts_to_cache` (`:473`) calls such a slot a "wrong mem" and does not send
it. It takes 300 KB of buffered audio, so time stamps that do not advance
for long; run `fragment_overrun` shows the sequence on a small slot.

`OverrunLimited`, checked by run `fragments` and proved, says how far it goes: by no more
packets than the audio buffer fills slots, which is three (564 bytes) for a buffer of 1 MB
and slots of 300 KB.

### What holds only with a reservation

After `CreateSession` the old playlist stays until the new session closes its
first fragment, while the new fragments overwrite slots that it lists:
`ListedAreServed` therefore speaks of sessions that have closed one.
`RecentStillServed` promises one fragment less than the ring holds, because of the
overrun. A message longer than the reader's buffer blocks its queue for good
(`tfc_net_ipc_mq.cpp:156`); `queue_live` has none. `dequeue` moves the head
(`tfc_net_ipc_mq.cpp:165`, `:170`) before the handler sees the message: a reader that dies
after that and before the handler is done loses it, so the queue delivers at most once and
not exactly once. A frame slightly older than
its fragment makes the duration wrap to almost 2^64 ticks (`hls_mpegts.c:721`):
the playlist then announces that, consistently, which is all that
`TargetCoversList` asks.

Streams (`StreamLifecycle`, `HlsTables`):

- A freed cell keeps its playlist, and a stream that takes it over shows that until
  its first fragment is closed: `PlaylistOfOwner` speaks of sessions that have listed
  one (`hls/hls_stream.c:188`).
- The audio path does not test whose session its channel points to. `AudioStaysHome`
  holds while the room's video is recent; audio that goes on alone may, between the sweep
  of videos and the sweep of rooms, be written into another stream's session
  (`protol_process.cpp:480`).
- A video with two cells has only the first of them cleaned, with its entry; the other
  stays, and its stream can be watched, until the video comes and goes once more.
- An entry without a user, left by a crash, ends each sweep of videos where it
  stands: `IdleStreamForgotten` excepts that case by name, as it does frames that keep coming
  and restarts that keep happening.
- The pointer that `hls_clean_timeout_stream` should test and does not
  (`hls/hls_stream.c:795`) is never null: `TablesAgree` is why.

Buffers (`FrameBuffer`):

- The video buffer keeps its slots over a reset and then delivers an old frame in place
  of a lost one with the same number: `OnlyOfRound` is about the sound.
- Number 0 also means "none yet". The frame after it skips the tests, hence the
  exception `write = 0` in the properties.
- The wait for a missing number is timed by its slot, which an earlier frame or an earlier
  wait may have touched: it may be shorter than the time-out, and begins again when another
  frame uses the slot (the exception in `ReaderNotStuck`).
- A stream that starts again a little lower is silent until it catches up:
  `LagBounded` is the limit on that.

Hash bases: beyond the good bases, the multi-hash goes on with 0 and with numbers next
to the wrap (`pub/CMultiHash.h:66`). The HLS copy ends the process when it has just taken a 0
(`hls/hls_cache.c:41`), which is modelled and claims nothing: no HLS table divides by a base
any more, the lines that did are commented out (`hls/hls_stream.c:96`, `:148`,
`hls/hls_mpegts.c:1578`, `:1629`), so the bases matter for the channel manager only.

## What is proved

All for every value of the constants that the named assumptions allow.

`DataChannelMgrProofs` (assumptions: sizes are positive, bases within a row, keys
nonzero): `TypeOK`, `OneToOne`, `EveryEntryFound`, and the two action properties
`SweepLeavesNoneStale` and `FedKeepsChannel`. `OneToOne` is not inductive by
itself: a sweep releases by key, and needs that the key's lookup gives the very
cell that the sweep found. Hence two more conjuncts: every entry stands in a cell
that its key probes (`Placed`), and no key has two entries (`Unique`). From `OneToOne`
there are never more entries than channels, so the cut-off of the sweep, at as many
entries as channels, hides none.

`ChannelServiceProofs`, first part, about the pool (assumption: a pool of at least one
node): type correctness, `ListsLinked`, `NoDoubleAllocation`, `ReleaseStoresInBounds`,
`NoChannelLost`, and that the lists implement `ChannelPool`. The inductive
invariant is that there are two sequences without repetition, one over the used
and one over the free nodes, that the heads, tails and links thread. `ListsLinked`
says just that; it is needed in this form because the action properties are about
what a walk meets, and a walk over raw links tells nothing about the nodes it does
not meet. Each case of a release is a lemma on how the sequence loses a member at
its head, its tail or in the middle. The step from "threaded" to "the walk of n steps
returns the sequence" needs induction on positions, which goes through the least
position where they differ (`LeastMember` of `NaturalTheorems`).

`ChannelServiceProofs`, second part, about the composition (the assumptions of both):
`ImplementsManager` and the types of the composed tables (`ServiceTypeOK`). Its invariant
joins the two above: `OneToOne` gives the pool its caller's side (what is released is held),
the lists give the manager a channel that is free. To it comes that what a sweep still has to
visit are entries of the table. Under the mapping only the first step of a sweep changes
anything: each visit removes an entry that `Gone` had taken out already, and finds it because
`Placed` and `Unique` make the lookup of its key lead there. The lemmas about the hash stand
there a second time, for the instance. Four theorems say what the refinement alone does not,
since it hides the pool's links and the visits: the lists stay whole under the manager
(`ServicePoolWhole`: what the pool promises to careful callers it keeps to this one); a key
that a sweep is to release leads back to its entry and to a channel that is held
(`ReleasedAreHeld`); a stream fed within the time-out keeps its channel in every visit
(`ServiceKeepsFed`); and no stale channel is left after the last visit
(`ServiceSweepComplete`, from that the entries not yet visited include all stale ones).

`HashBasesProofs` (assumptions: positive sizes below the wrap, and `RangeAssumption`):
`TypeOK` and `LargestPrimesFirst`. The sieve tries every number up to the root of the *length*
as a divisor, so a prime that small divides itself and does not pass; a number up to the
length passes just when it is a good base (`SieveFindsGood`: a number that is not prime has a
factor no larger than its root). In the first round the rows have the good bases above `i`, as
many as there are (`FirstRound`); once `i` is past 0 the good bases are used up, and the
numbers that pass above `i` are in the rows too (`AfterWrap`), so with `RangeAssumption` the
rows are full before `i` comes to the length. `EnoughGoodBases` is for the channel manager:
with as many good bases as rows, the process does not end and the bases are different numbers
from 1 to the length.

`ShmMQProofs` (assumptions: a block longer than a header, messages with some data):
`TypeOK`, `WritesOnlyFreeCells`, `AssertTotalLen`, `CopiedIsOldest`, and that the ring
implements `MsgQueue`. Head and tail do not say what is in the ring, so the invariant says
that there is a sequence `q` of messages and places `o` where they end, one behind the
other from head to tail (`Layout`), that the cells there hold them (`InPlace`), and what each
process has done so far: the writer has room behind them and a part of its record there
(`WriterAt`), the reader is about the first of them (`ReaderAt`). Each step explains itself: `q`
stays, gets one message more (`Publish`) or gives up the oldest (`Consume`), which is then the
message in hand because it is what was copied (`Copied`); `Handle` delivers that one and
`ReaderCrash` loses it, or has none to lose. The writer's old view
of the head does no harm because the head only moves towards the tail. The
places in a block are apart by `ApartInRing`, a record that wraps by `RoundTheRing`. That the
walk over the lengths (`Contents`) gives `q` again is `ContentsFacts`, by the least place where
it would not.

`HlsFragmentsProofs` (assumptions: sizes positive, a slot takes the header, a second no longer
than the wrap of times): `TypeOK`, `ListedAreServed`, `RecentStillServed`, `TargetCoversList`,
`OverrunLimited` and the action property `ListedNeverRewritten`. The handlers nest, but
whatever they are in the middle of, each step changes the session and its memory in one of
four ways (`Moves`): it sets a duration, reopens, stores a packet, or starts a new session.
The invariant is about those (`Core`): the ring of records has the window and the open
fragment (`RecordsOfWindow`), the slots have the last fragments (`RecentStillServed`), and the
playlist is what the records were at the last close. Numbers that are nearer than a ring is
long are in slots of their own. The target is the last value of a loop over the window that
only grows (`TargetFacts`).

Its second half is about the nesting. `StackShape` says which call stands above which: flushes
and waiting packets take turns. A packet waits below another only if audio has filled a slot
in between, so the number that wait and what is left of the audio together are limited, and
when the audio is out those that wait go into one slot one after the other (`Pend`). From that
come `OverrunLimited` and `NestingBounded`, the depth of the recursion. `HandlersEnd` is the
core of the liveness property `HandlersReturn`: each step of a handler lessens `Measure`, four
for each packet to write and one for each call on the stack, with something for the audio
still to be appended. What remains to TLC is that a handler can always go on.

`StreamLifecycleProofs` (assumptions: ids nonzero, each video with one original id and one
room, `VideoTimeout` no less than the other two, at least one cell, a period of at least a
second): `TypeOK`, `TablesAgree`, `PlaylistOfOwner`, `AudioStaysHome`, and the action
properties `FramesReachPlayers` and `WatchedUntilIdle`. Tables that agree are scanned alike,
so creation and cleaning choose the same cell in both (`TInv`, which adds that a cell's
pointer, even after the cell was freed, is to the memory of its own number, since audio may
still be written through it). `PInv` says what a channel's pointer is: if the cell still has
the channel's own video, it is the first that has, for only this channel makes cells for it;
that is why the search of players ends at the same memory. `AInv` adds how the tables age
together: while a room's mapping is recent, so is the entry of the video it came from, and so
the sweep has not freed the session. There is one lemma per action and conjunct; the two ways
in which a frame gets its session are shared by all handlers (`Arrival`).

`FrameBufferProofs` (assumptions: positive numbers of slots and of numbers): `TypeOK`,
`OnlyOfRound`, `LagBounded`, `NothingOverwritten`. The inductive invariant says that a slot
without a frame of this round holds number 0 if a reset clears (`StaleEmpty`), that a frame
not yet read is within both limits of the reader or the last one written (`FreshNear`), and
that every frame of this round stands in the slot of its number (`Placed`).
`NothingOverwritten` then follows since two numbers that share a slot are a table apart
(`ApartInRing`), which the limits do not allow.

Only model-checked: the liveness properties `UnfedLosesChannel`, `EveryMessageTaken`,
`HandlersReturn`, `IdleStreamForgotten` and `ReaderNotStuck`, since liveness under fairness
(and `ENABLED`) is beyond the prover; for `HandlersReturn` there is the measure above.

## Not modelled

Almost all of the tree is not the server: the vendored protocol buffers library and
its generated code (most of the lines), a JSON parser, the copies of the frame
library. Of the server itself:

- byte layouts (FLV tags, transport stream packets, HTTP text), configuration, logs,
  statistics: conversions and output without state that interacts;
- in `OnVideoFrame`, the FLV header that is kept per channel and the
  notifications to other servers; in the buffers, the ring of frame bytes and the
  averages;
- code that no call reaches: the flows of viewers in `info_channel.cpp` (the one call of
  `add_video_flow` is commented out, `protol_process.cpp:2506`), the block index
  `CP2PBlock` (`protol_process.cpp:967`), the second transport stream writer `264tots`,
  the disk cache library;
- signals (`check_flags`, `muxsvr_mcd_proc.cpp:1175`) and the start-up race of the two
  processes of a queue (`comm/tfc_net_ipc_mq.cpp:27`).

`PROJECT.json` gives the reason for each component, and lists the hazards that no property
covers with the reason why.

## Plan

1. The FLV header of a channel and the flag by which a buffer asks for a new one.
2. The start of a queue: the segment created by one process while the other attaches.
3. Signals that set flags while `run` reads them.
