---------------------------- MODULE HlsFragments ----------------------------
(* The segmenter of one stream (hls_mpegts.c): frames are cut into transport *)
(* stream fragments kept in a ring of memory slots, and a playlist lists the *)
(* last WinFrags of them for the players.  Writing a packet into a full slot *)
(* closes the fragment and opens the next one in the middle of a frame; that *)
(* flushes the buffered audio first, which may fill the next slot, and so on:*)
(* the calls nest, and "work" is their stack.                                *)
(*                                                                           *)
(* Lengths are counted in packets of 188 bytes, time in ticks, relative to   *)
(* the start of the open fragment.                                           *)
EXTENDS Integers, Sequences, FiniteSets

CONSTANTS WinFrags,      \* WIN_FRAGMENT_NUM
          MaxTsLen,      \* packets that fit in a slot, of HLS_MAX_TS_LEN bytes
          AudioLen,      \* packets that fit in the audio buffer
          FragLen,       \* fraglen and max_fraglen, in ticks
          Second,        \* ticks in a second
          Wrap,          \* 2^64: time is unsigned
          Elapsed,       \* what a frame's time can be ahead of the fragment's
          FrameLen,      \* packets of a video frame
          MaxFragment    \* bound: no frame comes after that many fragments

HeaderLen == 2           \* sizeof(hls_mpegts_header)

ASSUME SizesAssumption ==
  /\ WinFrags \in Nat \ {0} /\ MaxTsLen \in Nat /\ MaxTsLen > HeaderLen
  /\ AudioLen \in Nat \ {0} /\ MaxFragment \in Nat
ASSUME TimeAssumption ==
  /\ FragLen \in Nat /\ Second \in Nat \ {0} /\ Wrap \in Nat /\ Second <= Wrap
  /\ Elapsed \subseteq Int /\ FrameLen \subseteq Nat

VARIABLES opened, frag, nfrags, frags,    \* hls_mpegts_ctx
          audio,          \* packets' worth of audio in ctx->aframe
          video,          \* packets of the current video frame still to write
          mem, playlist,  \* hls_fragmem, what the players get
          work            \* the calls in progress, innermost first

session == <<opened, frag, nfrags, frags>>
fragmem == <<mem, playlist>>
vars == <<session, audio, video, fragmem, work>>

MAX_FRAGMENT_NUM == 2 * WinFrags + 1
Slot == 0 .. MAX_FRAGMENT_NUM - 1

(* A ring with one slot more than the window. *)
slotShort(id) == id % (WinFrags + 1)

slot(id) == id % MAX_FRAGMENT_NUM
Overrun == -1             \* the id of a slot whose header was written over
Fragment == [id : Nat, duration : Nat]

TypeOK ==
  /\ opened \in BOOLEAN /\ frag \in Nat /\ nfrags \in 0 .. WinFrags
  /\ frags \in [Slot -> Fragment]
  /\ audio \in 0 .. AudioLen /\ video \in Nat
  /\ mem \in [Slot -> [id : Nat \cup {Overrun}, len : Nat]]
  /\ playlist \in [sequence : Nat, target : Nat, list : Seq(Fragment)]
  /\ work \in Seq({"flush", "put", "video", "append"})
-----------------------------------------------------------------------------
(* hls_get_fragment_id: the fragment that is open, or will be next *)
fragid == frag + nfrags

(* hls_tsmem_get: the slot answers for id *)
Served(id) == mem[slot(id)].id = id

Rounded(ticks) == (2 * ticks + Second) \div (2 * Second)

(* The loop of hls_write_playlist that forgets to round up. *)
TargetTruncated(list) ==
  LET max[i \in 0 .. Len(list)] ==
        IF i = 0 THEN FragLen \div Second
        ELSE IF list[i].duration > max[i - 1] * Second
             THEN list[i].duration \div Second ELSE max[i - 1]
  IN  max[Len(list)]

(* EXT-X-TARGETDURATION: the loop over the listed durations *)
Target(list) ==
  LET max[i \in 0 .. Len(list)] ==
        IF i = 0 THEN FragLen \div Second
        ELSE IF list[i].duration > max[i - 1] * Second
             THEN Rounded(list[i].duration) ELSE max[i - 1]
  IN  max[Len(list)]

(* hls_write_playlist, of n fragments from number f on *)
Playlist(f, n, fr) ==
  LET list == [i \in 1 .. n |-> fr[slot(f + i - 1)]]
  IN  [sequence |-> f, target |-> Target(list), list |-> list]

(* hls_open_fragment and hls_fragmem_open, with the header written; the      *)
(* caller goes on with the audio                                             *)
Open(f, n, fr) ==
  LET id == f + n IN
  /\ opened' = TRUE /\ frag' = f /\ nfrags' = n
  /\ frags' = [fr EXCEPT ![slot(id)] = [id |-> id, duration |-> 0]]
  /\ mem' = [mem EXCEPT ![slot(id)] = [id |-> id, len |-> HeaderLen]]

(* A hls_next_frag that slides the window without counting. *)
ReopenTooWide(fr) ==
  LET f == IF nfrags = WinFrags THEN frag + 2 ELSE frag IN
  LET n == IF nfrags = WinFrags THEN nfrags ELSE nfrags + 1 IN
  IF opened THEN Open(f, n, fr) /\ playlist' = Playlist(f, n, fr)
            ELSE Open(frag, nfrags, fr) /\ UNCHANGED playlist

(* hls_close_fragment, with hls_next_frag, then hls_open_fragment *)
Reopen(fr) ==
  LET f == IF nfrags = WinFrags THEN frag + 1 ELSE frag IN
  LET n == IF nfrags = WinFrags THEN nfrags ELSE nfrags + 1 IN
  IF opened THEN Open(f, n, fr) /\ playlist' = Playlist(f, n, fr)
            ELSE Open(frag, nfrags, fr) /\ UNCHANGED playlist
-----------------------------------------------------------------------------
Init ==
  /\ opened = FALSE /\ frag = 0 /\ nfrags = 0
  /\ frags = [i \in Slot |-> [id |-> 0, duration |-> 0]]
  /\ audio = 0 /\ video = 0 /\ work = <<>>
  /\ mem = [i \in Slot |-> [id |-> 0, len |-> 0]]
  /\ playlist = [sequence |-> 0, target |-> 0, list |-> <<>>]

(* hls_create_session for a stream that has a slot: the session starts anew, *)
(* the memory stays.                                                         *)
CreateSession ==
  /\ work = <<>>
  /\ opened' = FALSE /\ frag' = 0 /\ nfrags' = 0
  /\ frags' = [i \in Slot |-> [id |-> 0, duration |-> 0]]
  /\ audio' = 0
  /\ UNCHANGED <<video, fragmem, work>>

(* hls_update_fragments: a frame d ticks after the fragment's start; late is *)
(* that the buffered audio has waited too long.  The handler goes on with    *)
(* next.                                                                     *)
UpdateFragments(d, boundary, late, next) ==
  LET force == opened /\ (d > FragLen \/ d < -Second)
      elapsed == IF d < 0 THEN Wrap + d ELSE d
      timed == IF opened /\ ~force
               THEN [frags EXCEPT ![slot(fragid)].duration = elapsed]
               ELSE frags
      short == opened /\ timed[slot(fragid)].duration < FragLen
      cut == force \/ (boundary /\ ~short)
  IN  /\ IF cut THEN Reopen(timed)
         ELSE frags' = timed /\ UNCHANGED <<opened, frag, nfrags, fragmem>>
      /\ work' = IF cut \/ (late /\ audio > 0) THEN <<"flush", next>> ELSE <<next>>

(* hls_video_handler: a key frame is a boundary when audio is buffered, or   *)
(* when no fragment is open                                                  *)
VideoFrame(d, key, late, n) ==
  /\ work = <<>> /\ fragid < MaxFragment
  /\ UpdateFragments(d, key /\ (~opened \/ audio > 0), late, "video")
  /\ video' = n
  /\ UNCHANGED audio

(* hls_audio_handler up to the buffering of the frame *)
AudioFrame(d, late) ==
  /\ work = <<>> /\ fragid < MaxFragment
  /\ UpdateFragments(d, FALSE, late, "append")
  /\ UNCHANGED <<audio, video>>

(* Buffered without a flush, and retried when no fragment is open. *)
BufferAudioNoFlush ==
  /\ work # <<>> /\ Head(work) = "append"
  /\ audio' = audio + 1 /\ work' = Tail(work)
  /\ UNCHANGED <<session, video, fragmem>>

BufferAudioRetry ==
  /\ work # <<>> /\ Head(work) = "append"
  /\ IF audio < AudioLen THEN audio' = audio + 1 /\ work' = Tail(work)
                         ELSE work' = <<"flush">> \o work /\ UNCHANGED audio
  /\ UNCHANGED <<session, video, fragmem>>

(* What follows hls_update_fragments in hls_audio_handler: a full buffer is  *)
(* flushed first, or dropped when no fragment is open.                       *)
BufferAudio ==
  /\ work # <<>> /\ Head(work) = "append"
  /\ \/ /\ audio < AudioLen
        /\ audio' = audio + 1 /\ work' = Tail(work)
     \/ /\ audio = AudioLen /\ ~opened
        /\ audio' = 0 /\ work' = Tail(work)
     \/ /\ audio = AudioLen /\ opened
        /\ work' = <<"flush">> \o work
        /\ UNCHANGED audio
  /\ UNCHANGED <<session, video, fragmem>>

(* A packet stored in the slot of the open fragment.  Past the slot's end is *)
(* the header of the next one.                                               *)
Stored ==
  LET s == slot(fragid)
      stored == [mem EXCEPT ![s].len = @ + 1]
  IN  IF mem[s].len >= MaxTsLen /\ s + 1 \in Slot
      THEN [stored EXCEPT ![s + 1].id = Overrun] ELSE stored

(* A packet is stored in a slot that is just full. *)
WriteOneMore ==
  \/ /\ mem[slot(fragid)].len <= MaxTsLen
     /\ mem' = Stored
     /\ UNCHANGED <<session, playlist, work>>
  \/ /\ mem[slot(fragid)].len > MaxTsLen
     /\ Reopen(frags)
     /\ work' = <<"flush", "put">> \o work

(* hls_write_fragmem_data for a packet; in a full slot the packet waits for  *)
(* the next fragment, where the audio goes first                             *)
Write ==
  \/ /\ mem[slot(fragid)].len < MaxTsLen
     /\ mem' = Stored
     /\ UNCHANGED <<session, playlist, work>>
  \/ /\ mem[slot(fragid)].len >= MaxTsLen
     /\ Reopen(frags)
     /\ work' = <<"flush", "put">> \o work

(* hls_flush_audio and the packets of its hls_mpegts_write_frame *)
FlushAudio ==
  /\ work # <<>> /\ Head(work) = "flush"
  /\ IF opened /\ audio > 0
     THEN Write /\ audio' = audio - 1
     ELSE work' = Tail(work) /\ UNCHANGED <<session, audio, fragmem>>
  /\ UNCHANGED video

(* The packets of hls_mpegts_write_frame for a video frame; it is dropped    *)
(* when no fragment is open                                                  *)
WriteVideo ==
  /\ work # <<>> /\ Head(work) = "video"
  /\ IF opened /\ video > 0
     THEN Write /\ video' = video - 1
     ELSE work' = Tail(work) /\ video' = 0 /\ UNCHANGED <<session, fragmem>>
  /\ UNCHANGED audio

(* The slot is not looked up again. *)
PutOld == /\ work # <<>> /\ Head(work) = "put"
          /\ mem' = [mem EXCEPT ![slot(fragid - 1)].len = @ + 1]
          /\ work' = Tail(work)
          /\ UNCHANGED <<session, audio, video, playlist>>

(* The memcpy after the fragment was reopened: the room is not tested again  *)
Put == /\ work # <<>> /\ Head(work) = "put"
       /\ mem' = Stored
       /\ work' = Tail(work)
       /\ UNCHANGED <<session, audio, video, playlist>>

Frame == \E d \in Elapsed, late \in BOOLEAN :
           \/ \E key \in BOOLEAN, n \in FrameLen : VideoFrame(d, key, late, n)
           \/ AudioFrame(d, late)

Handler == BufferAudio \/ FlushAudio \/ WriteVideo \/ Put

Next == CreateSession \/ Frame \/ Handler

Spec == Init /\ [][Next]_vars

(* A handler that was called runs on; no frame need ever come. *)
FairSpec == Spec /\ WF_vars(Handler)
-----------------------------------------------------------------------------
Listed == IF nfrags = 0 THEN {} ELSE frag .. fragid - 1

(* Once a session has closed a fragment, the playlist the players get lists  *)
(* the consecutive fragments of the window, and the ring of memory slots,    *)
(* which is indexed apart, still answers for each of them.                   *)
ListedAreServed ==
  nfrags > 0 => /\ playlist.sequence = frag
                /\ Len(playlist.list) = nfrags
                /\ \A i \in 1 .. nfrags : playlist.list[i].id = frag + i - 1
                /\ \A id \in Listed : Served(id)

(* A player that fetched the playlist can still get all of it when the       *)
(* window has moved on by WinFrags - 1 fragments: that is why the ring has   *)
(* twice the window and one more.  (The last slot, for a playlist one        *)
(* fragment older, is the one a fragment that overruns its own spoils.)      *)
RecentStillServed ==
  \A id \in 0 .. fragid - 1 : fragid - id < 2 * WinFrags => Served(id)

(* No step of any handler, nested as its calls may be, touches the memory of *)
(* a fragment that is listed: players read it while the next is written.     *)
ListedNeverRewritten ==
  [][\A id \in Listed : mem'[slot(id)] = mem[slot(id)]]_vars

(* No listed fragment lasts longer, rounded, than the target duration of its *)
(* playlist: a player relies on it to schedule its next request.             *)
TargetCoversList ==
  \A i \in 1 .. Len(playlist.list) : Rounded(playlist.list[i].duration) <= playlist.target

(* What hls_send_ts_to_cache checks of the fragment just closed before it    *)
(* sends it ("wrong mem"): it is not longer than its slot.                   *)
AssertTsLen == nfrags > 0 => mem[slot(fragid - 1)].len <= MaxTsLen

(* Packets that fit in a slot behind its header, and how many slots the      *)
(* audio buffer fills.                                                       *)
Room == MaxTsLen - HeaderLen
Over == AudioLen \div Room

(* The packets that wait for a new slot one after the other, each because    *)
(* flushed audio filled the slot before it, are all stored in the last one   *)
(* without a test.  However the calls nest, that goes past the end of the    *)
(* slot by no more packets than the audio buffer fills slots: it reaches the *)
(* start of what follows the slot in the ring and no further.                *)
OverrunLimited == \A s \in Slot : mem[s].len <= MaxTsLen + Over

(* Every handler returns: the chain of a full slot that opens a fragment     *)
(* that flushes audio that fills a slot comes to an end.                     *)
HandlersReturn == [](work # <<>> => <>(work = <<>>))
=============================================================================
