--------------------------- MODULE StreamLifecycle ---------------------------
(* The life of a stream: its HLS session and memory (HlsTables), its channel *)
(* with the pointer to the session, its entry in the table of videos and the *)
(* mapping of its room, filled by video and audio frames and emptied by      *)
(* three sweeps of different rhythm (protol_process.cpp, info_channel.cpp,   *)
(* muxsvr_mcd_proc.cpp).  The tables of videos and rooms outlive the         *)
(* process in their shared memory, everything else starts anew with it.      *)
(*                                                                           *)
(* Tables with a hash may have no cell left for a key that they do not have: *)
(* there a call may fail whenever the key is new.                            *)
EXTENDS HlsTables

CONSTANTS KeyOf, RoomOf,      \* the original id of a video, its room
          ChannelTimeout,     \* 5 s, 5 s and 10 s in the code
          RoomTimeout, VideoTimeout,
          Period              \* of each sweep, 30 s

Key == {KeyOf[v] : v \in Video}
Room == {RoomOf[v] : v \in Video}

ASSUME StreamsAssumption ==
  /\ DOMAIN KeyOf = Video /\ DOMAIN RoomOf = Video
  /\ Key \subseteq Nat \ {0}
ASSUME TimesAssumption ==
  /\ ChannelTimeout \in Nat /\ RoomTimeout \in Nat /\ VideoTimeout \in Nat
  /\ RoomTimeout <= VideoTimeout /\ ChannelTimeout <= VideoTimeout
  /\ Period \in Nat \ {0}

VARIABLES channels,   \* per key: open?, hls_session, seconds since a push
          rooms,      \* per room: SRoom2VideoId, seconds since its touch
          entries,    \* per video: SVideoIdInfo, seconds since its touch
          clocks      \* seconds since each sweep

vars == <<tables, channels, rooms, entries, clocks>>

(* An age counts to one past the limit that anything compares it with. *)
Age(limit) == 0 .. limit + 1
Sweep == {"channels", "videos", "rooms"}

Closed == [open |-> FALSE, session |-> NULL, idle |-> ChannelTimeout + 1]
NoMapping == [key |-> 0, idle |-> VideoTimeout + 1]
NoEntry == [is |-> "none", idle |-> VideoTimeout + 1]

TypeOK ==
  /\ sessions \in [Slot -> Session] /\ fragmems \in [Slot -> Fragmem]
  /\ channels \in [Key -> [open : BOOLEAN, session : Slot \cup {NULL},
                       idle : Age(ChannelTimeout)]]
  /\ rooms \in [Room -> [key : Key \cup {0}, idle : Age(VideoTimeout)]]
  /\ entries \in [Video -> [is : {"none", "anonymous", "named"}, idle : Age(VideoTimeout)]]
  /\ clocks \in [Sweep -> -3 .. Period]
-----------------------------------------------------------------------------
(* run(): the sweeps start a second apart. *)
StartClocks == [s \in Sweep |-> CASE s = "channels" -> -1
                                  [] s = "videos" -> -2
                                  [] s = "rooms" -> -3]

Init == /\ ClearTables(sessions, fragmems)
        /\ channels = [k \in Key |-> Closed]
        /\ rooms = [r \in Room |-> NoMapping]
        /\ entries = [v \in Video |-> NoEntry]
        /\ clocks = StartClocks

(* The room mapped to the video's own id in place of the original one. *)
MapRoomToVideo(v) == rooms' = [rooms EXCEPT ![RoomOf[v]] = [key |-> v, idle |-> 0]]

(* The video ids, original ids and rooms of the frames are whatever the      *)
(* video server sends; an id always comes with the same two others.          *)
MapRoom(v) == rooms' = [rooms EXCEPT ![RoomOf[v]] = [key |-> KeyOf[v], idle |-> 0]]

Channel(v) == channels[KeyOf[v]]
Point(v, s, taken) ==
  channels' = [channels EXCEPT ![KeyOf[v]] =
                 [open |-> TRUE, session |-> s, idle |-> IF taken THEN 0 ELSE @.idle]]

(* The channel's session is not tested for the video it belongs to. *)
OwnSessionUnchecked(v) == Channel(v).session # NULL

(* The channel's session still belongs to the video. *)
OwnSession(v) == Channel(v).session # NULL /\ sessions[Channel(v).session].videoid = v
-----------------------------------------------------------------------------
(* OnVideoFrame, by where it ends.  A frame for a room without a mapping,    *)
(* with the table of rooms full, changes nothing.                            *)

(* A frame without an original id: audio of the room is dropped from now on. *)
VideoWithoutKey(r) == /\ rooms' = [rooms EXCEPT ![r] = NoMapping]
                      /\ UNCHANGED <<tables, channels, entries, clocks>>

VideoWithoutChannel(v) == /\ MapRoom(v)
                          /\ ~Channel(v).open
                          /\ UNCHANGED <<tables, channels, entries, clocks>>

VideoWithoutSession(v) == /\ MapRoom(v)
                          /\ ~OwnSession(v) /\ CreateFails(v)
                          /\ Point(v, NULL, FALSE)
                          /\ UNCHANGED <<entries, clocks>>

(* The frame has its session: the one of the channel, or a new one. *)
HasSession(v, taken, cut) ==
  \/ OwnSession(v) /\ Write(Channel(v).session, cut) /\ Point(v, Channel(v).session, taken)
  \/ ~OwnSession(v) /\ Create(v, cut) /\ Point(v, Created(v), taken)

(* UpdateVideoIdInfo finds no cell for a new entry. *)
VideoWithoutEntry(v) == /\ MapRoom(v)
                        /\ HasSession(v, FALSE, FALSE)
                        /\ entries[v].is = "none"
                        /\ UNCHANGED <<entries, clocks>>

(* The frame gets through; taken if the buffer takes it.  It is named if it  *)
(* carries the user and both rooms, none of them 0.                          *)
VideoFrame(v, is, taken, cut) ==
  /\ entries' = [entries EXCEPT ![v] = [is |-> is, idle |-> 0]]
  /\ MapRoom(v)
  /\ HasSession(v, taken, cut)
  /\ UNCHANGED clocks

(* OnRecvAudioData: the session of the channel is used whoever has it now.   *)
(* Audio of a room without a mapping, or of another user than the room's,    *)
(* changes nothing.                                                          *)
Audio(r, taken, cut) ==
  LET k == rooms[r].key IN
  /\ k # 0
  /\ channels' = [channels EXCEPT ![k] = [open |-> TRUE, session |-> @.session,
                                           idle |-> IF taken THEN 0 ELSE @.idle]]
  /\ IF channels[k].session # NULL THEN Write(channels[k].session, cut)
                                   ELSE ~cut /\ UNCHANGED tables
  /\ UNCHANGED <<rooms, entries, clocks>>
-----------------------------------------------------------------------------
Due(s) == clocks[s] >= Period

(* DoCleanInvalidVoiceChannel *)
SweepChannels ==
  channels' = [k \in Key |-> IF channels[k].idle > ChannelTimeout THEN Closed
                                                                  ELSE channels[k]]

(* A sweep of videos that also takes those just as old as the time-out. *)
StaleTooEarly == {v \in Video : entries[v].is # "none" /\ entries[v].idle >= VideoTimeout}

StaleVideos == {v \in Video : entries[v].is # "none" /\ entries[v].idle > VideoTimeout}
Anonymous(V) == {v \in V : entries[v].is = "anonymous"}

(* A sweep that also returns at an entry that is not stale. *)
SweepStopsAtFresh ==
  \E gone \in SUBSET (StaleVideos \ Anonymous(StaleVideos)) :
     /\ (\A v \in Video : entries[v].is # "none" => v \in StaleVideos) => gone = StaleVideos
     /\ Clean(gone)
     /\ entries' = [v \in Video |-> IF v \in gone THEN NoEntry ELSE entries[v]]

(* DoCleanTimeOutVideoId returns at the first stale entry without a user:    *)
(* where the hash has put that one decides which of the others it reaches.   *)
SweepVideos ==
  \E gone \in SUBSET (StaleVideos \ Anonymous(StaleVideos)) :
     /\ Anonymous(StaleVideos) = {} => gone = StaleVideos
     /\ Clean(gone)
     /\ entries' = [v \in Video |-> IF v \in gone THEN NoEntry ELSE entries[v]]

(* DoCleanTimeOutRoomId2VideoId *)
SweepRooms ==
  rooms' = [r \in Room |-> IF rooms[r].idle > RoomTimeout THEN NoMapping ELSE rooms[r]]

(* dispatch_timeout: the sweeps that are due, in this order. *)
DispatchTimeout ==
  /\ \E s \in Sweep : Due(s)
  /\ IF Due("channels") THEN SweepChannels ELSE UNCHANGED channels
  /\ IF Due("videos") THEN SweepVideos ELSE UNCHANGED <<tables, entries>>
  /\ IF Due("rooms") THEN SweepRooms ELSE UNCHANGED rooms
  /\ clocks' = [s \in Sweep |-> IF Due(s) THEN 0 ELSE clocks[s]]

Older(age, limit) == IF age > limit THEN age ELSE age + 1

(* A second passes.  run() looks for sweeps several times a second, so none  *)
(* is still due.                                                             *)
Tick == /\ \A s \in Sweep : ~Due(s)
        /\ channels' = [k \in Key |-> [channels[k] EXCEPT !.idle = Older(@, ChannelTimeout)]]
        /\ rooms' = [r \in Room |-> [rooms[r] EXCEPT !.idle = Older(@, VideoTimeout)]]
        /\ entries' = [v \in Video |-> [entries[v] EXCEPT !.idle = Older(@, VideoTimeout)]]
        /\ clocks' = [s \in Sweep |-> clocks[s] + 1]
        /\ UNCHANGED tables

(* The process starts again: channels and HLS tables are cleared, the other  *)
(* two are found as they were.                                               *)
Restart == /\ ClearTables(sessions', fragmems')
           /\ channels' = [k \in Key |-> Closed]
           /\ clocks' = StartClocks
           /\ UNCHANGED <<rooms, entries>>

(* It dies in UpdateVideoIdInfo, with the new entry's id written and nothing *)
(* else, and starts again.                                                   *)
CrashInFrame(v) == /\ OwnSession(v) \/ Created(v) # NULL
                   /\ entries[v].is = "none"
                   /\ MapRoom(v)
                   /\ entries' = [entries EXCEPT ![v] = [NoEntry EXCEPT !.is = "anonymous"]]
                   /\ ClearTables(sessions', fragmems')
                   /\ channels' = [k \in Key |-> Closed]
                   /\ clocks' = StartClocks

Next ==
  \/ \E r \in Room : VideoWithoutKey(r)
  \/ \E v \in Video : \/ VideoWithoutChannel(v) \/ VideoWithoutSession(v)
                      \/ VideoWithoutEntry(v) \/ CrashInFrame(v)
                      \/ \E is \in {"anonymous", "named"}, taken, cut \in BOOLEAN :
                            VideoFrame(v, is, taken, cut)
  \/ \E r \in Room, taken, cut \in BOOLEAN : Audio(r, taken, cut)
  \/ DispatchTimeout \/ Tick \/ Restart

Spec == Init /\ [][Next]_vars

(* Time passes, and run() calls dispatch_timeout every 200 rounds. *)
FairSpec == Spec /\ WF_vars(Tick) /\ WF_vars(DispatchTimeout)
-----------------------------------------------------------------------------
(* What a frame writes is what players of its video are served: after every  *)
(* frame that gets through, the session that its channel points to is the    *)
(* video's own, and the search that answers players finds the very memory    *)
(* it writes to, though a video may have two cells and streams may share a   *)
(* channel.                                                                  *)
FramesReachPlayers ==
  [][\A v \in Video :
       (\E is \in {"anonymous", "named"}, taken, cut \in BOOLEAN : VideoFrame(v, is, taken, cut)) =>
         LET s == Channel(v)'.session
         IN  /\ s # NULL /\ sessions'[s].videoid = v
             /\ Found(v)' /\ search(v)' = sessions'[s].fragmem]_vars

(* A stream that can be watched stays so until it has been without a frame   *)
(* for longer than VideoTimeout: no frame of another stream, no failed       *)
(* creation and no sweep takes its last cell.  Only a restart does.          *)
WatchedUntilIdle ==
  [][\A v \in Video : Found(v) /\ ~Found(v)' =>
       \/ clocks' = StartClocks
       \/ entries[v].is # "none" /\ entries[v].idle > VideoTimeout]_vars

(* Audio goes into the session of its own stream, or into none, while the    *)
(* video of the room is not older than VideoTimeout.  Audio that goes on     *)
(* without its video has no such promise: between the sweep of videos and    *)
(* that of rooms it may be written into a session another stream has taken.  *)
AudioStaysHome ==
  \A r \in Room :
    LET k == rooms[r].key
    IN  k # 0 /\ rooms[r].idle <= VideoTimeout /\ channels[k].session # NULL =>
          LET v == sessions[channels[k].session].videoid
          IN  v # NULL /\ KeyOf[v] = k

(* An idle stream is forgotten: its entry goes away unless frames come again *)
(* and again, or an entry without a user blocks the sweep again and again,   *)
(* or the process keeps starting again.                                      *)
IdleStreamForgotten ==
  \A v \in Video : \/ []<>(entries[v].is = "none") \/ []<>(entries[v].idle = 0)
                   \/ []<>(Anonymous(StaleVideos) # {})
                   \/ []<>(clocks["videos"] < 0)
=============================================================================
