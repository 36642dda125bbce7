------------------------ MODULE StreamLifecycleProofs ------------------------
(* Why the tables of a stream stay together, for any number of cells, videos *)
(* and time-outs and any sharing of channels and rooms.                      *)
(*                                                                           *)
(* The two tables are scanned alike, so as long as they agree they are       *)
(* changed at the same cell (TInv, the first lemmas).  A channel that points *)
(* at a session of its own points at the first cell of the video, because    *)
(* only that channel ever makes cells for it, and only when it has none      *)
(* (PInv).  And a room that was touched no longer ago than VideoTimeout      *)
(* leads to a session whose video was touched no earlier (AInv), so that the *)
(* sweep of videos cannot have taken it.                                     *)
EXTENDS StreamLifecycle, NaturalTheorems

TablesType == sessions \in [Slot -> Session] /\ fragmems \in [Slot -> Fragmem]
OwnMemory == \A i \in Slot : sessions[i].fragmem \in {NULL, i}
TInv == TablesType /\ TablesAgree /\ PlaylistOfOwner /\ OwnMemory

(* The minimum of a set of cells is the least of them. *)
LEMMA MinSlot == ASSUME NEW S \in SUBSET Slot, S # {}
                 PROVE  Min(S) \in S /\ \A j \in S : Min(S) <= j
<1>1. S \subseteq Nat
  BY TablesAssumption DEF Slot
<1>2. \E x \in S : \A y \in S : x <= y
  BY <1>1, LeastMember
<1> QED
  BY <1>2 DEF Min

(* Tables that agree are scanned alike. *)
LEMMA SameScan == ASSUME TInv, NEW v
                  PROVE  /\ OpenTo(fragmems, v) = OpenTo(sessions, v)
                         /\ CellsOf(fragmems, v) = CellsOf(sessions, v)
<1>1. \A i \in Slot : sessions[i].videoid = fragmems[i].videoid
  BY DEF TInv, TablesAgree
<1> QED
  BY <1>1 DEF OpenTo, CellsOf

(* Cell c becomes v's, with its memory, in both tables. *)
Made(v, cut, c) ==
  /\ sessions' = [sessions EXCEPT ![c] = [videoid |-> v, fragmem |-> c, listed |-> cut]]
  /\ fragmems' = [fragmems EXCEPT ![c] =
                    [videoid |-> v, playlist |-> IF cut THEN v ELSE @.playlist]]

FirstOpen(v, c) == /\ c \in Slot /\ sessions[c].videoid \in {v, NULL}
                   /\ \A j \in Slot : j < c => sessions[j].videoid \notin {v, NULL}

(* A creation makes the first open cell the video's. *)
LEMMA CreateMakes == ASSUME TInv, NEW v, NEW cut, Create(v, cut)
                     PROVE  FirstOpen(v, Created(v)) /\ Made(v, cut, Created(v))
<1> DEFINE c == Min(OpenTo(sessions, v))
<1>1. OpenTo(sessions, v) # {} /\ Created(v) = c
  BY DEF Create, Created
<1>2. OpenTo(sessions, v) \in SUBSET Slot
  BY DEF OpenTo
<1>3. c \in OpenTo(sessions, v) /\ \A j \in OpenTo(sessions, v) : c <= j
  BY <1>1, <1>2, MinSlot
<1>4. Min(OpenTo(fragmems, v)) = c
  BY SameScan
<1>5. Made(v, cut, c)
  BY <1>1, <1>4 DEF Create, Made
<1> HIDE DEF c
<1>6. FirstOpen(v, c)
  BY <1>3, TablesAssumption DEF OpenTo, FirstOpen, Slot
<1> QED
  BY <1>1, <1>5, <1>6

(* Making a first open cell keeps the tables together. *)
LEMMA MadeTables == ASSUME TInv, NEW v \in Video, NEW cut \in BOOLEAN, NEW c,
                           FirstOpen(v, c), Made(v, cut, c)
                    PROVE  TInv'
<1>1. c \in Slot
  BY DEF FirstOpen
<1>2. TablesType'
  BY <1>1 DEF TInv, TablesType, Made, Session, Fragmem
<1>3. TablesAgree'
  BY <1>1 DEF TInv, TablesType, TablesAgree, Made, Session, Fragmem
<1>4. PlaylistOfOwner'
  BY <1>1 DEF TInv, TablesType, PlaylistOfOwner, Made, Session, Fragmem
<1>5. OwnMemory'
  BY <1>1 DEF TInv, TablesType, OwnMemory, Made, Session
<1> QED
  BY <1>2, <1>3, <1>4, <1>5 DEF TInv

(* A creation that fails changes nothing: a table full for one is full for   *)
(* both.                                                                     *)
LEMMA FailChangesNothing == ASSUME TInv, NEW v, CreateFails(v)
                            PROVE  UNCHANGED tables
<1>1. CASE OpenTo(sessions, v) = {}
  BY <1>1 DEF CreateFails, tables
<1>2. CASE OpenTo(sessions, v) # {}
  <2>1. Created(v) = Min(OpenTo(sessions, v))
    BY <1>2, SameScan DEF Created
  <2>2. OpenTo(sessions, v) \in SUBSET Slot
    BY DEF OpenTo
  <2>3. Created(v) \in Slot
    BY <1>2, <2>1, <2>2, MinSlot
  <2> QED
    BY <2>3, TablesAssumption DEF CreateFails, Slot, NULL
<1> QED
  BY <1>1, <1>2

SameOwners == \A j \in Slot : /\ sessions'[j].videoid = sessions[j].videoid
                              /\ sessions'[j].fragmem = sessions[j].fragmem

(* Writing through a session that has its memory keeps the tables together   *)
(* and everything where it is, whoever the session belongs to by now.        *)
LEMMA WriteTables == ASSUME TInv, NEW i \in Slot, sessions[i].fragmem = i,
                            NEW cut \in BOOLEAN, Write(i, cut)
                     PROVE  TInv' /\ SameOwners
<1>1. CASE ~cut
  BY <1>1 DEF Write, tables, TInv, TablesType, TablesAgree, PlaylistOfOwner, OwnMemory,
              SameOwners
<1>2. CASE cut
  <2>1. /\ sessions' = [sessions EXCEPT ![i].listed = TRUE]
        /\ fragmems' = [fragmems EXCEPT ![i].playlist = sessions[i].videoid]
    BY <1>2 DEF Write
  <2>2. TablesType'
    BY <2>1 DEF TInv, TablesType, Session, Fragmem
  <2>3. SameOwners
    BY <2>1 DEF TInv, TablesType, Session, SameOwners
  <2>4. \A j \in Slot : fragmems'[j].videoid = fragmems[j].videoid
    BY <2>1 DEF TInv, TablesType, Fragmem
  <2>5. TablesAgree' /\ OwnMemory'
    BY <2>3, <2>4 DEF TInv, TablesAgree, OwnMemory, SameOwners
  <2>6. PlaylistOfOwner'
    BY <2>1 DEF TInv, TablesType, Session, Fragmem, PlaylistOfOwner
  <2> QED
    BY <2>2, <2>3, <2>5, <2>6 DEF TInv
<1> QED
  BY <1>1, <1>2

(* Cells are only emptied, and only those of V. *)
Emptied(V) == \A j \in Slot :
  /\ sessions'[j].fragmem = sessions[j].fragmem
  /\ \/ sessions'[j].videoid = sessions[j].videoid
     \/ sessions'[j].videoid = NULL /\ sessions[j].videoid \in V

LEMMA CleanTables == ASSUME TInv, NEW V \in SUBSET Video, Clean(V)
                     PROVE  TInv' /\ Emptied(V)
<1> DEFINE G == {i \in Slot : /\ sessions[i].videoid \in V
                              /\ i = Min(CellsOf(sessions, sessions[i].videoid))}
<1>1. \A i \in Slot : sessions[i].videoid = fragmems[i].videoid
  BY DEF TInv, TablesAgree
<1>2. \A i \in Slot : CellsOf(sessions, sessions[i].videoid) # {}
  BY DEF CellsOf
<1>3. sessions' = [i \in Slot |-> IF i \in G THEN [sessions[i] EXCEPT !.videoid = NULL]
                                            ELSE sessions[i]]
  BY DEF Clean
<1>4. fragmems' = [i \in Slot |-> IF i \in G THEN [fragmems[i] EXCEPT !.videoid = NULL]
                                            ELSE fragmems[i]]
  BY <1>1, <1>2, SameScan DEF Clean
<1>5. \A i \in G : i \in Slot /\ sessions[i].videoid \in V
  OBVIOUS
<1> HIDE DEF G
<1>6. TablesType'
  BY <1>3, <1>4 DEF TInv, TablesType, Session, Fragmem
<1>7. Emptied(V)
  BY <1>3, <1>5 DEF TInv, TablesType, Session, Emptied
<1>8. TablesAgree'
  BY <1>3, <1>4 DEF TInv, TablesType, Session, Fragmem, TablesAgree
<1>9. PlaylistOfOwner'
  BY <1>3, <1>4 DEF TInv, TablesType, Session, Fragmem, PlaylistOfOwner
<1>10. OwnMemory'
  BY <1>7 DEF TInv, OwnMemory, Emptied
<1> QED
  BY <1>6, <1>7, <1>8, <1>9, <1>10 DEF TInv

LEMMA ClearedTables == ASSUME ClearTables(sessions', fragmems')
                       PROVE  TInv'
  BY DEF ClearTables, NoSession, NULL, TInv, TablesType, Session, Fragmem, TablesAgree,
         PlaylistOfOwner, OwnMemory
-----------------------------------------------------------------------------
ChannelsType == channels \in [Key -> [open : BOOLEAN, session : Slot \cup {NULL},
                                       idle : Age(ChannelTimeout)]]
RoomsType == rooms \in [Room -> [key : Key \cup {0}, idle : Age(VideoTimeout)]]
EntriesType == entries \in [Video -> [is : {"none", "anonymous", "named"},
                                       idle : Age(VideoTimeout)]]
ClocksType == clocks \in [Sweep -> -3 .. Period]

(* A channel that is not open points at no session; one that points at a     *)
(* session points at one with its own memory, and if it belongs to a video   *)
(* of the channel, at the first cell of that video.                          *)
PointsOwn(k) ==
  LET s == channels[k].session
  IN  s # NULL =>
        /\ channels[k].open /\ sessions[s].fragmem = s
        /\ sessions[s].videoid # NULL /\ KeyOf[sessions[s].videoid] = k =>
              \A j \in Slot : j < s => sessions[j].videoid # sessions[s].videoid
PInv == \A k \in Key : PointsOwn(k)

(* The room leads to a session whose video was touched no earlier than it.   *)
LeadsHome(r) ==
  LET s == channels[rooms[r].key].session
      v == sessions[s].videoid
  IN  rooms[r].key # 0 /\ rooms[r].idle <= VideoTimeout /\ s # NULL =>
        /\ v # NULL /\ KeyOf[v] = rooms[r].key
        /\ entries[v].is = "none" \/ entries[v].idle <= rooms[r].idle
AInv == \A r \in Room : LeadsHome(r)

IInv == TInv /\ ChannelsType /\ RoomsType /\ EntriesType /\ ClocksType /\ PInv /\ AInv

LEMMA Keys == /\ \A v \in Video : KeyOf[v] \in Key /\ RoomOf[v] \in Room /\ v # NULL
              /\ \A k \in Key : k # 0
              /\ NULL \notin Slot /\ NULL \notin Video
  BY StreamsAssumption, TablesAssumption DEF Key, Room, NULL, Slot

LEMMA Ages == /\ \A a \in {ChannelTimeout, VideoTimeout} :
                    0 \in Age(a) /\ a + 1 \in Age(a) /\ \A n \in Age(a) : Older(n, a) \in Age(a)
              /\ Age(VideoTimeout) \subseteq Nat
              /\ \A m, n \in Age(VideoTimeout) :
                    m <= n => Older(m, VideoTimeout) <= Older(n, VideoTimeout)
              /\ \A n \in Age(VideoTimeout) :
                    Older(n, VideoTimeout) <= VideoTimeout => n <= VideoTimeout
  BY TimesAssumption DEF Age, Older

LEMMA TypeFromIInv == IInv => TypeOK
  BY DEF IInv, TInv, TablesType, ChannelsType, RoomsType, EntriesType, ClocksType, TypeOK

LEMMA InitIInv == Init => IInv
<1> SUFFICES ASSUME Init PROVE IInv
  OBVIOUS
<1>1. TInv
  BY DEF Init, ClearTables, NoSession, NULL, TInv, TablesType, Session, Fragmem,
         TablesAgree, PlaylistOfOwner, OwnMemory
<1>2. ChannelsType /\ RoomsType /\ EntriesType
  BY Ages DEF Init, Closed, NoMapping, NoEntry, ChannelsType, RoomsType, EntriesType
<1>3. ClocksType
  BY TimesAssumption DEF Init, StartClocks, Sweep, ClocksType
<1>4. PInv
  BY DEF Init, Closed, PInv, PointsOwn
<1>5. AInv
  BY DEF Init, NoMapping, AInv, LeadsHome
<1> QED
  BY <1>1, <1>2, <1>3, <1>4, <1>5 DEF IInv
-----------------------------------------------------------------------------
(* A video's channel comes to point at cell c, and c is the video's first    *)
(* one now; the other cells keep their owners.                               *)
Arrives(v, c) ==
  /\ TInv'
  /\ c \in Slot /\ sessions[c].videoid \in {v, NULL}
  /\ sessions'[c].videoid = v /\ sessions'[c].fragmem = c
  /\ \A j \in Slot : j # c => /\ sessions'[j].videoid = sessions[j].videoid
                              /\ sessions'[j].fragmem = sessions[j].fragmem
  /\ \A j \in Slot : j < c => sessions'[j].videoid # v
  /\ ChannelsType'
  /\ channels'[KeyOf[v]].open /\ channels'[KeyOf[v]].session = c
  /\ \A k \in Key : k # KeyOf[v] => channels'[k] = channels[k]

(* A frame that has its session arrives at a cell of its own video.          *)
LEMMA Arrival == ASSUME IInv, NEW v \in Video, NEW taken \in BOOLEAN, NEW cut \in BOOLEAN,
                        HasSession(v, taken, cut)
                 PROVE  \E c \in Slot : Arrives(v, c)
<1>1. KeyOf[v] \in Key /\ v # NULL
  BY Keys
<1> DEFINE k == KeyOf[v]
           s == channels[k].session
<1>2. PointsOwn(k) /\ channels[k] \in [open : BOOLEAN, session : Slot \cup {NULL},
                                         idle : Age(ChannelTimeout)]
  BY <1>1 DEF IInv, PInv, ChannelsType
<1>3. ASSUME NEW c \in Slot, Point(v, c, taken)
      PROVE  /\ ChannelsType'
             /\ channels'[k].open /\ channels'[k].session = c
             /\ \A x \in Key : x # k => channels'[x] = channels[x]
  BY <1>1, <1>3, Ages DEF IInv, ChannelsType, Point
<1>4. CASE OwnSession(v) /\ Write(s, cut) /\ Point(v, s, taken)
  <2>1. s \in Slot /\ s # NULL /\ sessions[s].videoid = v
    BY <1>2, <1>4 DEF OwnSession, Channel
  <2>2. /\ sessions[s].fragmem = s
        /\ \A j \in Slot : j < s => sessions[j].videoid # v
    BY <1>1, <1>2, <2>1 DEF PointsOwn
  <2>3. TInv' /\ SameOwners
    BY <1>4, <2>1, <2>2, WriteTables DEF IInv
  <2>4. Arrives(v, s)
    BY <1>3, <1>4, <2>1, <2>2, <2>3 DEF SameOwners, Arrives
  <2> QED
    BY <2>1, <2>4
<1>5. CASE ~OwnSession(v) /\ Create(v, cut) /\ Point(v, Created(v), taken)
  <2> DEFINE c == Created(v)
  <2>1. FirstOpen(v, c) /\ Made(v, cut, c)
    BY <1>5, CreateMakes DEF IInv
  <2> HIDE DEF c
  <2>2. TInv'
    BY <2>1, MadeTables DEF IInv
  <2>3. c \in Slot
    BY <2>1 DEF FirstOpen
  <2>4. /\ sessions'[c].videoid = v /\ sessions'[c].fragmem = c
        /\ \A j \in Slot : j # c => sessions'[j] = sessions[j]
    BY <2>1, <2>3 DEF Made, IInv, TInv, TablesType
  <2>5. \A j \in Slot : j < c => sessions'[j].videoid # v
    BY <2>1, <2>3, <2>4, TablesAssumption DEF FirstOpen, Slot
  <2>6. ChannelsType' /\ channels'[k].open /\ channels'[k].session = c
        /\ \A x \in Key : x # k => channels'[x] = channels[x]
    BY <1>3, <1>5, <2>3 DEF c
  <2>7. Arrives(v, c)
    BY <2>1, <2>2, <2>3, <2>4, <2>5, <2>6 DEF FirstOpen, Arrives
  <2> QED
    BY <2>3, <2>7
<1> QED
  BY <1>4, <1>5 DEF HasSession, Channel

(* An arrival keeps every channel at the first cell of its own video. *)
LEMMA ArrivalPoints == ASSUME IInv, NEW v \in Video, NEW c \in Slot, Arrives(v, c)
                       PROVE  PInv'
<1> SUFFICES ASSUME NEW k \in Key PROVE PointsOwn(k)'
  BY DEF PInv
<1>1. KeyOf[v] \in Key /\ v # NULL /\ NULL \notin Slot
  BY Keys
<1>2. PointsOwn(k) /\ channels[k].session \in Slot \cup {NULL}
  BY DEF IInv, PInv, ChannelsType
<1>3. CASE k = KeyOf[v]
  BY <1>1, <1>3 DEF Arrives, PointsOwn
<1>4. CASE k # KeyOf[v]
  <2> DEFINE s == channels[k].session
  <2>1. channels'[k] = channels[k]
    BY <1>4 DEF Arrives
  <2>2. CASE s = c
    BY <1>1, <1>2, <1>4, <2>1, <2>2 DEF Arrives, PointsOwn
  <2>3. CASE s # c
    <3> SUFFICES ASSUME s # NULL PROVE PointsOwn(k)'
      BY <2>1 DEF PointsOwn
    <3>1. s \in Slot /\ sessions'[s].videoid = sessions[s].videoid
          /\ sessions'[s].fragmem = sessions[s].fragmem
      BY <1>2, <2>3 DEF Arrives
    <3>2. \A j \in Slot : sessions'[j].videoid \in {v, sessions[j].videoid}
      BY DEF Arrives
    <3> QED
      BY <1>1, <1>2, <1>4, <2>1, <3>1, <3>2 DEF PointsOwn
  <2> QED
    BY <2>2, <2>3
<1> QED
  BY <1>3, <1>4

(* The frame's room leads home, and so do the others: those that lead to     *)
(* the same channel because its video is as fresh as can be, those that lead *)
(* elsewhere because the cell that changed was none of theirs.               *)
LEMMA ArrivalHome ==
  ASSUME IInv, NEW v \in Video, NEW c \in Slot, Arrives(v, c), MapRoom(v),
         \A u \in Video : u # v => entries'[u] = entries[u],
         entries'[v].is = "none" \/ entries'[v].idle = 0
  PROVE  RoomsType' /\ AInv'
<1>1. KeyOf[v] \in Key /\ RoomOf[v] \in Room /\ v # NULL /\ NULL \notin Slot
  BY Keys
<1>2. RoomsType'
  BY <1>1, Ages DEF MapRoom, IInv, RoomsType
<1> SUFFICES ASSUME NEW r \in Room PROVE LeadsHome(r)'
  BY <1>2 DEF AInv
<1>3. rooms'[r].idle \in Nat /\ rooms'[r].key \in Key \cup {0}
  BY <1>2, Ages DEF RoomsType
<1>4. CASE rooms'[r].key = KeyOf[v]
  BY <1>1, <1>3, <1>4 DEF Arrives, LeadsHome
<1>5. CASE rooms'[r].key # KeyOf[v]
  <2> DEFINE k == rooms[r].key
             s == channels[k].session
             u == sessions[s].videoid
  <2>1. rooms'[r] = rooms[r]
    BY <1>1, <1>5 DEF MapRoom, IInv, RoomsType
  <2> SUFFICES ASSUME k # 0, rooms[r].idle <= VideoTimeout, channels'[k].session # NULL
               PROVE  LET x == sessions'[channels'[k].session].videoid
                      IN  /\ x # NULL /\ KeyOf[x] = k
                          /\ entries'[x].is = "none" \/ entries'[x].idle <= rooms[r].idle
    BY <2>1 DEF LeadsHome
  <2>2. k \in Key /\ channels'[k] = channels[k] /\ s \in Slot
    BY <1>3, <1>5, <2>1 DEF Arrives, IInv, ChannelsType
  <2>3. /\ u # NULL /\ KeyOf[u] = k
        /\ entries[u].is = "none" \/ entries[u].idle <= rooms[r].idle
    BY <1>1, <2>2 DEF IInv, AInv, LeadsHome
  <2>4. u # v /\ u \in Video
    BY <1>5, <2>1, <2>2, <2>3 DEF IInv, TInv, TablesType, Session
  <2>5. sessions'[s].videoid = u
    BY <2>2, <2>3, <2>4 DEF Arrives
  <2> QED
    BY <2>2, <2>3, <2>4, <2>5
<1> QED
  BY <1>4, <1>5

(* A frame whose channel ends up without a session leaves the tables alone.  *)
LEMMA DepartureHome ==
  ASSUME IInv, NEW v \in Video, MapRoom(v), UNCHANGED <<tables, entries>>,
         ChannelsType', channels'[KeyOf[v]].session = NULL,
         \A k \in Key : k # KeyOf[v] => channels'[k] = channels[k]
  PROVE  TInv' /\ RoomsType' /\ EntriesType' /\ PInv' /\ AInv'
<1>1. KeyOf[v] \in Key /\ RoomOf[v] \in Room
  BY Keys
<1>2. RoomsType'
  BY <1>1, Ages DEF MapRoom, IInv, RoomsType
<1>3. TInv' /\ EntriesType'
  BY DEF tables, IInv, TInv, TablesType, TablesAgree, PlaylistOfOwner, OwnMemory, EntriesType
<1>4. ASSUME NEW k \in Key PROVE PointsOwn(k)'
  <2>1. PointsOwn(k)
    BY DEF IInv, PInv
  <2> QED
    BY <2>1 DEF tables, PointsOwn
<1>5. ASSUME NEW r \in Room PROVE LeadsHome(r)'
  <2>1. LeadsHome(r) /\ rooms'[r].key \in Key \cup {0}
    BY <1>2 DEF IInv, AInv, RoomsType
  <2>2. CASE rooms'[r].key = KeyOf[v]
    BY <2>2 DEF LeadsHome
  <2>3. CASE rooms'[r].key # KeyOf[v]
    <3>1. rooms'[r] = rooms[r]
      BY <1>1, <2>3 DEF MapRoom, IInv, RoomsType
    <3>2. rooms[r].key # 0 => channels'[rooms[r].key] = channels[rooms[r].key]
      BY <2>1, <2>3, <3>1
    <3> QED
      BY <2>1, <3>1, <3>2 DEF tables, LeadsHome
  <2> QED
    BY <2>2, <2>3
<1> QED
  BY <1>2, <1>3, <1>4, <1>5 DEF PInv, AInv

(* A write in place, by audio, changes no owner and no pointer. *)
LEMMA InPlaceHome ==
  ASSUME IInv, SameOwners, UNCHANGED <<rooms, entries>>, ChannelsType',
         \A k \in Key : /\ channels'[k].session = channels[k].session
                        /\ channels[k].open => channels'[k].open
  PROVE  RoomsType' /\ EntriesType' /\ PInv' /\ AInv'
<1>1. RoomsType' /\ EntriesType'
  BY DEF IInv, RoomsType, EntriesType
<1>2. ASSUME NEW k \in Key PROVE PointsOwn(k)'
  <2>1. PointsOwn(k) /\ channels[k].session \in Slot \cup {NULL}
    BY DEF IInv, PInv, ChannelsType
  <2> QED
    BY <2>1 DEF SameOwners, PointsOwn
<1>3. ASSUME NEW r \in Room PROVE LeadsHome(r)'
  <2>1. LeadsHome(r) /\ rooms[r].key \in Key \cup {0}
    BY DEF IInv, AInv, RoomsType
  <2>2. rooms[r].key # 0 => /\ channels[rooms[r].key].session \in Slot \cup {NULL}
                            /\ channels'[rooms[r].key].session = channels[rooms[r].key].session
    BY <2>1 DEF IInv, ChannelsType
  <2> QED
    BY <2>1, <2>2 DEF SameOwners, LeadsHome
<1> QED
  BY <1>1, <1>2, <1>3 DEF PInv, AInv

(* A start with cleared tables and closed channels. *)
LEMMA StartAfresh ==
  ASSUME ClearTables(sessions', fragmems'), channels' = [k \in Key |-> Closed],
         clocks' = StartClocks, RoomsType'
  PROVE  TInv' /\ ChannelsType' /\ ClocksType' /\ PInv' /\ AInv'
<1>1. TInv'
  BY ClearedTables
<1>2. ChannelsType'
  BY Ages DEF Closed, ChannelsType
<1>3. ClocksType'
  BY TimesAssumption DEF StartClocks, Sweep, ClocksType
<1>4. PInv'
  BY DEF Closed, PInv, PointsOwn
<1>5. ASSUME NEW r \in Room PROVE LeadsHome(r)'
  <2>1. rooms'[r].key # 0 => rooms'[r].key \in Key
    BY DEF RoomsType
  <2> QED
    BY <2>1 DEF Closed, LeadsHome
<1> QED
  BY <1>1, <1>2, <1>3, <1>4, <1>5 DEF AInv
-----------------------------------------------------------------------------
(* What a sweep of videos may take. *)
Stale(V) == \A v \in V : entries[v].is # "none" /\ entries[v].idle > VideoTimeout
Swept(V) == /\ Stale(V) /\ Emptied(V) /\ TInv'
            /\ entries' = [v \in Video |-> IF v \in V THEN NoEntry ELSE entries[v]]

LEMMA SweepTakesStale == ASSUME IInv, DispatchTimeout
                         PROVE  \E V \in SUBSET Video : Swept(V)
<1>1. CASE Due("videos")
  <2>1. PICK V \in SUBSET (StaleVideos \ Anonymous(StaleVideos)) :
           /\ Clean(V)
           /\ entries' = [v \in Video |-> IF v \in V THEN NoEntry ELSE entries[v]]
    BY <1>1 DEF DispatchTimeout, SweepVideos
  <2>2. V \in SUBSET Video /\ Stale(V)
    BY DEF StaleVideos, Stale
  <2>3. TInv' /\ Emptied(V)
    BY <2>1, <2>2, CleanTables DEF IInv
  <2> QED
    BY <2>1, <2>2, <2>3 DEF Swept
<1>2. CASE ~Due("videos")
  <2>1. UNCHANGED <<tables, entries>>
    BY <1>2 DEF DispatchTimeout
  <2>2. Stale({}) /\ Emptied({})
    BY <2>1 DEF tables, Stale, Emptied
  <2>3. entries' = [v \in Video |-> IF v \in {} THEN NoEntry ELSE entries[v]]
    BY <2>1 DEF IInv, EntriesType
  <2>4. TInv'
    BY <2>1 DEF tables, IInv, TInv, TablesType, TablesAgree, PlaylistOfOwner, OwnMemory
  <2> QED
    BY <2>2, <2>3, <2>4 DEF Swept
<1> QED
  BY <1>1, <1>2

(* The sweeps: a room that still leads somewhere afterwards is too young for *)
(* its video to have been taken.                                             *)
LEMMA DispatchIInv == ASSUME IInv, DispatchTimeout
                      PROVE  IInv'
<1>1. PICK V \in SUBSET Video : Swept(V)
  BY SweepTakesStale
<1>2. TInv'
  BY <1>1 DEF Swept
<1>3. /\ ChannelsType'
      /\ \A k \in Key : channels'[k] = channels[k] \/ channels'[k] = Closed
  <2>1. CASE Due("channels")
    <3>1. SweepChannels
      BY <2>1 DEF DispatchTimeout
    <3>2. Closed \in [open : BOOLEAN, session : Slot \cup {NULL}, idle : Age(ChannelTimeout)]
      BY Ages DEF Closed
    <3> QED
      BY <3>1, <3>2 DEF SweepChannels, IInv, ChannelsType
  <2>2. CASE ~Due("channels")
    BY <2>2 DEF DispatchTimeout, IInv, ChannelsType
  <2> QED
    BY <2>1, <2>2
<1>4. /\ RoomsType'
      /\ \A r \in Room : rooms'[r] = rooms[r] \/ rooms'[r] = NoMapping
  <2>1. CASE Due("rooms")
    BY <2>1, Ages DEF DispatchTimeout, SweepRooms, IInv, RoomsType, NoMapping
  <2>2. CASE ~Due("rooms")
    BY <2>2 DEF DispatchTimeout, IInv, RoomsType
  <2> QED
    BY <2>1, <2>2
<1>5. EntriesType'
  BY <1>1, Ages DEF Swept, IInv, EntriesType, NoEntry
<1>6. ClocksType'
  BY TimesAssumption DEF DispatchTimeout, IInv, ClocksType
<1>7. ASSUME NEW k \in Key PROVE PointsOwn(k)'
  <2>1. PointsOwn(k) /\ channels[k].session \in Slot \cup {NULL}
    BY DEF IInv, PInv, ChannelsType
  <2>2. CASE channels'[k] = Closed
    BY <2>2 DEF Closed, PointsOwn
  <2>3. CASE channels'[k] = channels[k]
    BY <1>1, <2>1, <2>3 DEF Swept, Emptied, PointsOwn
  <2> QED
    BY <1>3, <2>2, <2>3
<1>8. ASSUME NEW r \in Room PROVE LeadsHome(r)'
  <2> DEFINE k == rooms[r].key
             s == channels[k].session
             v == sessions[s].videoid
  <2>1. CASE rooms'[r] = NoMapping
    BY <2>1 DEF NoMapping, LeadsHome
  <2>2. CASE rooms'[r] = rooms[r]
    <3> SUFFICES ASSUME k # 0, rooms[r].idle <= VideoTimeout, channels'[k].session # NULL
                 PROVE  LET x == sessions'[channels'[k].session].videoid
                        IN  /\ x # NULL /\ KeyOf[x] = k
                            /\ entries'[x].is = "none" \/ entries'[x].idle <= rooms[r].idle
      BY <2>2 DEF LeadsHome
    <3>1. k \in Key /\ rooms[r].idle \in Nat
      BY Ages DEF IInv, RoomsType
    <3>2. channels'[k] = channels[k] /\ s \in Slot
      BY <1>3, <3>1 DEF Closed, IInv, ChannelsType
    <3>3. /\ v # NULL /\ KeyOf[v] = k
          /\ entries[v].is = "none" \/ entries[v].idle <= rooms[r].idle
      BY <3>2 DEF IInv, AInv, LeadsHome
    <3>4. v \in Video
      BY <3>2, <3>3 DEF IInv, TInv, TablesType, Session
    <3>5. entries[v].idle \in Nat
      BY <3>4, Ages DEF IInv, EntriesType
    <3>6. v \notin V
      <4>1. v \in V => entries[v].is # "none" /\ entries[v].idle > VideoTimeout
        BY <1>1 DEF Swept, Stale
      <4> HIDE DEF s, v, k
      <4> QED
        BY <3>1, <3>3, <3>5, <4>1, TimesAssumption
    <3>7. sessions'[s].videoid = v /\ entries'[v] = entries[v]
      BY <1>1, <3>2, <3>4, <3>6 DEF Swept, Emptied
    <3> QED
      BY <3>2, <3>3, <3>7
  <2> QED
    BY <1>4, <2>1, <2>2
<1> QED
  BY <1>2, <1>3, <1>4, <1>5, <1>6, <1>7, <1>8 DEF IInv, PInv, AInv

(* Everything ages alike. *)
LEMMA TickIInv == ASSUME IInv, Tick
                  PROVE  IInv'
<1>1. TInv'
  BY DEF Tick, tables, IInv, TInv, TablesType, TablesAgree, PlaylistOfOwner, OwnMemory
<1>2. ChannelsType' /\ \A k \in Key : /\ channels'[k].session = channels[k].session
                                      /\ channels'[k].open = channels[k].open
  BY Ages DEF Tick, IInv, ChannelsType
<1>3. RoomsType' /\ EntriesType'
  BY Ages DEF Tick, IInv, RoomsType, EntriesType
<1>4. ClocksType'
  <2>1. \A s \in Sweep : clocks[s] \in -3 .. Period /\ clocks[s] < Period
    BY TimesAssumption DEF Tick, Due, IInv, ClocksType
  <2> QED
    BY <2>1, TimesAssumption DEF Tick, ClocksType
<1>5. ASSUME NEW k \in Key PROVE PointsOwn(k)'
  <2>1. PointsOwn(k)
    BY DEF IInv, PInv
  <2> QED
    BY <1>2, <2>1 DEF Tick, tables, PointsOwn
<1>6. ASSUME NEW r \in Room PROVE LeadsHome(r)'
  <2> DEFINE k == rooms[r].key
             s == channels[k].session
             v == sessions[s].videoid
  <2>1. /\ rooms'[r].key = k /\ rooms'[r].idle = Older(rooms[r].idle, VideoTimeout)
        /\ rooms[r].idle \in Age(VideoTimeout) /\ k \in Key \cup {0}
    BY DEF Tick, IInv, RoomsType
  <2> SUFFICES ASSUME k # 0, rooms'[r].idle <= VideoTimeout, s # NULL
               PROVE  /\ v # NULL /\ KeyOf[v] = k
                      /\ entries'[v].is = "none" \/ entries'[v].idle <= rooms'[r].idle
    BY <1>2, <2>1 DEF Tick, tables, LeadsHome
  <2>2. rooms[r].idle <= VideoTimeout
    BY <2>1, Ages
  <2>3. /\ v # NULL /\ KeyOf[v] = k
        /\ entries[v].is = "none" \/ entries[v].idle <= rooms[r].idle
    BY <2>2 DEF IInv, AInv, LeadsHome
  <2>4. s \in Slot
    BY <2>1 DEF IInv, ChannelsType
  <2>5. v \in Video
    BY <2>3, <2>4 DEF IInv, TInv, TablesType, Session
  <2>6. /\ entries'[v].is = entries[v].is
        /\ entries'[v].idle = Older(entries[v].idle, VideoTimeout)
        /\ entries[v].idle \in Age(VideoTimeout)
    BY <2>5 DEF Tick, IInv, EntriesType
  <2> QED
    BY <2>1, <2>3, <2>6, Ages
<1> QED
  BY <1>1, <1>2, <1>3, <1>4, <1>5, <1>6 DEF IInv, PInv, AInv
-----------------------------------------------------------------------------
LEMMA FrameIInv ==
  ASSUME IInv, NEW v \in Video, NEW is \in {"anonymous", "named"},
         NEW taken \in BOOLEAN, NEW cut \in BOOLEAN, VideoFrame(v, is, taken, cut)
  PROVE  IInv'
<1>1. MapRoom(v) /\ HasSession(v, taken, cut) /\ clocks' = clocks
  BY DEF VideoFrame
<1>2. PICK c \in Slot : Arrives(v, c)
  BY <1>1, Arrival
<1>3. EntriesType'
  BY Ages DEF VideoFrame, IInv, EntriesType
<1>4. entries'[v].idle = 0 /\ \A u \in Video : u # v => entries'[u] = entries[u]
  BY DEF VideoFrame, IInv, EntriesType
<1>5. PInv'
  BY <1>2, ArrivalPoints
<1>6. RoomsType' /\ AInv'
  BY <1>1, <1>2, <1>4, ArrivalHome
<1>7. ClocksType'
  BY <1>1 DEF IInv, ClocksType
<1> QED
  BY <1>2, <1>3, <1>5, <1>6, <1>7 DEF Arrives, IInv

LEMMA WithoutEntryIInv == ASSUME IInv, NEW v \in Video, VideoWithoutEntry(v)
                          PROVE  IInv'
<1>1. MapRoom(v) /\ HasSession(v, FALSE, FALSE) /\ UNCHANGED <<entries, clocks>>
  BY DEF VideoWithoutEntry
<1>2. PICK c \in Slot : Arrives(v, c)
  BY <1>1, Arrival
<1>3. entries'[v].is = "none" /\ \A u \in Video : u # v => entries'[u] = entries[u]
  BY DEF VideoWithoutEntry
<1>4. PInv'
  BY <1>2, ArrivalPoints
<1>5. RoomsType' /\ AInv'
  BY <1>1, <1>2, <1>3, ArrivalHome
<1>6. ClocksType' /\ EntriesType'
  BY <1>1 DEF IInv, ClocksType, EntriesType
<1> QED
  BY <1>2, <1>4, <1>5, <1>6 DEF Arrives, IInv

LEMMA WithoutChannelIInv == ASSUME IInv, NEW v \in Video, VideoWithoutChannel(v)
                            PROVE  IInv'
<1>1. KeyOf[v] \in Key
  BY Keys
<1>2. channels'[KeyOf[v]].session = NULL
  BY <1>1 DEF VideoWithoutChannel, Channel, IInv, PInv, PointsOwn
<1>3. MapRoom(v) /\ UNCHANGED <<tables, entries>> /\ channels' = channels /\ clocks' = clocks
  BY DEF VideoWithoutChannel
<1>4. ChannelsType' /\ ClocksType'
  BY <1>3 DEF IInv, ChannelsType, ClocksType
<1> QED
  BY <1>2, <1>3, <1>4, DepartureHome DEF IInv

LEMMA WithoutSessionIInv == ASSUME IInv, NEW v \in Video, VideoWithoutSession(v)
                            PROVE  IInv'
<1>1. KeyOf[v] \in Key
  BY Keys
<1>2. MapRoom(v) /\ UNCHANGED tables /\ entries' = entries /\ clocks' = clocks
  BY FailChangesNothing DEF VideoWithoutSession, IInv
<1>3. /\ ChannelsType' /\ channels'[KeyOf[v]].session = NULL
      /\ \A k \in Key : k # KeyOf[v] => channels'[k] = channels[k]
  BY <1>1 DEF VideoWithoutSession, Point, IInv, ChannelsType
<1>4. ClocksType'
  BY <1>2 DEF IInv, ClocksType
<1> QED
  BY <1>2, <1>3, <1>4, DepartureHome DEF IInv

LEMMA WithoutKeyIInv == ASSUME IInv, NEW r \in Room, VideoWithoutKey(r)
                        PROVE  IInv'
<1>1. UNCHANGED <<tables, channels, entries, clocks>>
  BY DEF VideoWithoutKey
<1>2. RoomsType' /\ \A x \in Room : rooms'[x] \in {rooms[x], NoMapping}
  BY Ages DEF VideoWithoutKey, NoMapping, IInv, RoomsType
<1>3. TInv' /\ ChannelsType' /\ EntriesType' /\ ClocksType'
  BY <1>1 DEF tables, IInv, TInv, TablesType, TablesAgree, PlaylistOfOwner, OwnMemory,
              ChannelsType, EntriesType, ClocksType
<1>4. PInv'
  BY <1>1 DEF tables, IInv, PInv, PointsOwn
<1>5. ASSUME NEW x \in Room PROVE LeadsHome(x)'
  <2>1. LeadsHome(x)
    BY DEF IInv, AInv
  <2>2. CASE rooms'[x] = NoMapping
    BY <2>2 DEF NoMapping, LeadsHome
  <2>3. CASE rooms'[x] = rooms[x]
    BY <1>1, <2>1, <2>3 DEF tables, LeadsHome
  <2> QED
    BY <1>2, <2>2, <2>3
<1> QED
  BY <1>2, <1>3, <1>4, <1>5 DEF IInv, AInv

LEMMA AudioIInv == ASSUME IInv, NEW r \in Room, NEW taken \in BOOLEAN, NEW cut \in BOOLEAN,
                          Audio(r, taken, cut)
                   PROVE  IInv'
<1> DEFINE k == rooms[r].key
           s == channels[k].session
<1>1. k \in Key
  BY DEF Audio, IInv, RoomsType
<1>2. /\ ChannelsType'
      /\ \A x \in Key : /\ channels'[x].session = channels[x].session
                        /\ channels[x].open => channels'[x].open
  <2>1. channels' = [channels EXCEPT ![k] = [open |-> TRUE, session |-> @.session,
                                              idle |-> IF taken THEN 0 ELSE @.idle]]
    BY DEF Audio
  <2> HIDE DEF k
  <2> QED
    BY <1>1, <2>1, Ages DEF IInv, ChannelsType
<1>3. TInv' /\ SameOwners
  <2>1. CASE s # NULL
    <3>1. s \in Slot /\ sessions[s].fragmem = s
      BY <1>1, <2>1 DEF IInv, ChannelsType, PInv, PointsOwn
    <3>2. Write(s, cut)
      BY <2>1 DEF Audio
    <3> QED
      BY <3>1, <3>2, WriteTables DEF IInv
  <2>2. CASE s = NULL
    <3>1. UNCHANGED tables
      BY <2>2 DEF Audio
    <3> QED
      BY <3>1 DEF tables, SameOwners, IInv, TInv, TablesType, TablesAgree, PlaylistOfOwner,
                  OwnMemory
  <2> QED
    BY <2>1, <2>2
<1>4. UNCHANGED <<rooms, entries>> /\ ClocksType'
  BY DEF Audio, IInv, ClocksType
<1> QED
  BY <1>2, <1>3, <1>4, InPlaceHome DEF IInv

LEMMA RestartIInv == ASSUME IInv, Restart
                     PROVE  IInv'
<1>1. RoomsType' /\ EntriesType'
  BY DEF Restart, IInv, RoomsType, EntriesType
<1> QED
  BY <1>1, StartAfresh DEF Restart, IInv

LEMMA CrashIInv == ASSUME IInv, NEW v \in Video, CrashInFrame(v)
                   PROVE  IInv'
<1>1. KeyOf[v] \in Key /\ RoomOf[v] \in Room
  BY Keys
<1>2. RoomsType'
  BY <1>1, Ages DEF CrashInFrame, MapRoom, IInv, RoomsType
<1>3. EntriesType'
  BY Ages DEF CrashInFrame, NoEntry, IInv, EntriesType
<1> QED
  BY <1>2, <1>3, StartAfresh DEF CrashInFrame, IInv

LEMMA StutterIInv == IInv /\ UNCHANGED vars => IInv'
<1> SUFFICES ASSUME IInv, UNCHANGED vars PROVE IInv'
  OBVIOUS
<1>1. TInv'
  BY DEF vars, tables, IInv, TInv, TablesType, TablesAgree, PlaylistOfOwner, OwnMemory
<1>2. ChannelsType' /\ RoomsType' /\ EntriesType' /\ ClocksType'
  BY DEF vars, IInv, ChannelsType, RoomsType, EntriesType, ClocksType
<1>3. PInv'
  BY DEF vars, tables, IInv, PInv, PointsOwn
<1>4. AInv'
  BY DEF vars, tables, IInv, AInv, LeadsHome
<1> QED
  BY <1>1, <1>2, <1>3, <1>4 DEF IInv

LEMMA StepIInv == IInv /\ [Next]_vars => IInv'
<1> SUFFICES ASSUME IInv, [Next]_vars PROVE IInv'
  OBVIOUS
<1>1. ASSUME NEW r \in Room, VideoWithoutKey(r) PROVE IInv'
  BY <1>1, WithoutKeyIInv
<1>2. ASSUME NEW v \in Video, VideoWithoutChannel(v) PROVE IInv'
  BY <1>2, WithoutChannelIInv
<1>3. ASSUME NEW v \in Video, VideoWithoutSession(v) PROVE IInv'
  BY <1>3, WithoutSessionIInv
<1>4. ASSUME NEW v \in Video, VideoWithoutEntry(v) PROVE IInv'
  BY <1>4, WithoutEntryIInv
<1>5. ASSUME NEW v \in Video, CrashInFrame(v) PROVE IInv'
  BY <1>5, CrashIInv
<1>6. ASSUME NEW v \in Video, NEW is \in {"anonymous", "named"}, NEW taken \in BOOLEAN,
             NEW cut \in BOOLEAN, VideoFrame(v, is, taken, cut)
      PROVE  IInv'
  BY <1>6, FrameIInv
<1>7. ASSUME NEW r \in Room, NEW taken \in BOOLEAN, NEW cut \in BOOLEAN, Audio(r, taken, cut)
      PROVE  IInv'
  BY <1>7, AudioIInv
<1>8. DispatchTimeout => IInv'
  BY DispatchIInv
<1>9. Tick => IInv'
  BY TickIInv
<1>10. Restart => IInv'
  BY RestartIInv
<1>11. UNCHANGED vars => IInv'
  BY StutterIInv
<1> QED
  BY <1>1, <1>2, <1>3, <1>4, <1>5, <1>6, <1>7, <1>8, <1>9, <1>10, <1>11 DEF Next

(* The inductive invariant holds in every reachable state.                   *)
THEOREM Invariance == Spec => []IInv
  BY InitIInv, StepIInv, PTL DEF Spec

(* The variables keep their types. *)
THEOREM TypeCorrect == Spec => []TypeOK
  BY Invariance, TypeFromIInv, PTL

(* The two HLS tables go together, whatever the order of frames, sweeps and  *)
(* failures: hls_clean_timeout_stream never meets a session without memory.  *)
THEOREM TablesStayTogether == Spec => []TablesAgree
<1>1. IInv => TablesAgree
  BY DEF IInv, TInv
<1> QED
  BY <1>1, Invariance, PTL

(* A playlist is that of the stream whose cell it is in, once the session    *)
(* has closed a fragment.                                                    *)
THEOREM PlaylistsAreOwned == Spec => []PlaylistOfOwner
<1>1. IInv => PlaylistOfOwner
  BY DEF IInv, TInv
<1> QED
  BY <1>1, Invariance, PTL

(* Audio never goes into another stream's session while its room's video is  *)
(* no older than VideoTimeout.                                               *)
THEOREM AudioNeverStrays == Spec => []AudioStaysHome
<1>1. ASSUME IInv PROVE AudioStaysHome
  BY <1>1 DEF IInv, AInv, LeadsHome, AudioStaysHome
<1> QED
  BY <1>1, Invariance, PTL

(* Players find the memory that frames write to: the channel's session is    *)
(* the first cell of the video, which is what the search returns.            *)
THEOREM FramesAlwaysReachPlayers == Spec => FramesReachPlayers
<1>1. ASSUME IInv, NEW v \in Video, NEW is \in {"anonymous", "named"}, NEW taken \in BOOLEAN,
             NEW cut \in BOOLEAN, VideoFrame(v, is, taken, cut)
      PROVE  LET s == Channel(v)'.session
             IN  /\ s # NULL /\ sessions'[s].videoid = v
                 /\ Found(v)' /\ search(v)' = sessions'[s].fragmem
  <2>1. PICK c \in Slot : Arrives(v, c)
    BY <1>1, Arrival DEF VideoFrame
  <2>2. c # NULL /\ c \in Nat
    BY TablesAssumption DEF Slot, NULL
  <2>3. /\ Channel(v)'.session = c /\ sessions'[c].videoid = v /\ sessions'[c].fragmem = c
        /\ \A j \in Slot : j < c => sessions'[j].videoid # v
    BY <2>1 DEF Arrives, Channel
  <2>4. \A j \in Slot : sessions'[j].videoid = fragmems'[j].videoid
    BY <2>1 DEF Arrives, TInv, TablesAgree
  <2> DEFINE cells == {j \in Slot : fragmems'[j].videoid = v}
  <2>5. c \in cells /\ cells \in SUBSET Slot
    BY <2>3, <2>4
  <2>6. \A j \in cells : ~(j < c)
    BY <2>3, <2>4
  <2>7. CellsOf(fragmems, v)' = cells
    BY DEF CellsOf
  <2> HIDE DEF cells
  <2>8. Min(cells) \in cells /\ \A j \in cells : Min(cells) <= j
    BY <2>5, MinSlot
  <2>9. Min(cells) = c
    <3>1. Min(cells) \in Nat
      <4>1. Min(cells) \in Slot
        BY <2>5, <2>8, Zenon
      <4>2. Slot \subseteq Nat
        BY TablesAssumption DEF Slot
      <4> QED
        BY <4>1, <4>2, Zenon
    <3>2. Min(cells) <= c /\ ~(Min(cells) < c)
      BY <2>5, <2>6, <2>8, Zenon
    <3> QED
      BY <2>2, <3>1, <3>2
  <2> QED
    BY <2>2, <2>3, <2>5, <2>7, <2>9 DEF Found, search
<1>2. IInv /\ [Next]_vars => [\A v \in Video :
       (\E is \in {"anonymous", "named"}, taken, cut \in BOOLEAN : VideoFrame(v, is, taken, cut)) =>
         LET s == Channel(v)'.session
         IN  /\ s # NULL /\ sessions'[s].videoid = v
             /\ Found(v)' /\ search(v)' = sessions'[s].fragmem]_vars
  BY <1>1
<1> QED
  BY <1>2, Invariance, PTL DEF Spec, FramesReachPlayers

(* A stream that can be watched stays so until it is idle or the process     *)
(* starts again.                                                             *)
Loses(v) == Found(v) /\ ~Found(v)'

THEOREM WatchedTillIdle == Spec => WatchedUntilIdle
<1> DEFINE Excused(v) == \/ clocks' = StartClocks
                         \/ entries[v].is # "none" /\ entries[v].idle > VideoTimeout
<1>1. ASSUME IInv, [Next]_vars, NEW v \in Video, Loses(v)
      PROVE  Excused(v)
  <2>1. PICK i \in Slot : fragmems[i].videoid = v /\ fragmems'[i].videoid # v
    BY <1>1 DEF Loses, Found, CellsOf
  <2>2. sessions[i].videoid = v
    BY <1>1, <2>1 DEF IInv, TInv, TablesAgree
  <2>3. sessions'[i].videoid # v
    <3>1. IInv'
      BY <1>1, StepIInv
    <3> QED
      BY <2>1, <3>1 DEF IInv, TInv, TablesAgree
  <2>4. v # NULL
    BY Keys
  <2>5. ASSUME NEW u \in Video, NEW taken \in BOOLEAN, NEW cut \in BOOLEAN,
               HasSession(u, taken, cut)
        PROVE  FALSE
    <3>1. PICK c \in Slot : Arrives(u, c)
      BY <1>1, <2>5, Arrival
    <3> QED
      BY <2>2, <2>3, <2>4, <3>1 DEF Arrives
  <2>6. ~ UNCHANGED tables
    BY <2>2, <2>3 DEF tables
  <2>7. ASSUME NEW u \in Video, VideoWithoutSession(u) PROVE FALSE
    BY <1>1, <2>6, <2>7, FailChangesNothing DEF VideoWithoutSession, IInv
  <2>8. ASSUME NEW r \in Room, NEW taken \in BOOLEAN, NEW cut \in BOOLEAN,
               Audio(r, taken, cut)
        PROVE  FALSE
    <3> DEFINE k == rooms[r].key
               s == channels[k].session
    <3>1. k \in Key /\ s # NULL /\ Write(s, cut)
      BY <1>1, <2>6, <2>8 DEF Audio, IInv, RoomsType
    <3>2. s \in Slot /\ sessions[s].fragmem = s
      BY <1>1, <3>1 DEF IInv, ChannelsType, PInv, PointsOwn
    <3>3. SameOwners
      BY <1>1, <3>1, <3>2, WriteTables DEF IInv
    <3> QED
      BY <2>2, <2>3, <3>3 DEF SameOwners
  <2>9. ASSUME DispatchTimeout PROVE Excused(v)
    <3>1. PICK V \in SUBSET Video : Swept(V)
      BY <1>1, <2>9, SweepTakesStale
    <3>2. v \in V
      BY <2>2, <2>3, <3>1 DEF Swept, Emptied
    <3> QED
      BY <3>1, <3>2 DEF Swept, Stale
  <2>10. ASSUME Restart \/ \E u \in Video : CrashInFrame(u) PROVE Excused(v)
    BY <2>10 DEF Restart, CrashInFrame
  <2>11. ASSUME Tick \/ (\E r \in Room : VideoWithoutKey(r))
                     \/ (\E u \in Video : VideoWithoutChannel(u))
         PROVE FALSE
    BY <2>6, <2>11 DEF Tick, VideoWithoutKey, VideoWithoutChannel
  <2>12. ASSUME NEW u \in Video, NEW is \in {"anonymous", "named"}, NEW taken \in BOOLEAN,
                NEW cut \in BOOLEAN, VideoFrame(u, is, taken, cut)
         PROVE  FALSE
    BY <2>5, <2>12 DEF VideoFrame
  <2>13. ASSUME NEW u \in Video, VideoWithoutEntry(u) PROVE FALSE
    BY <2>5, <2>13 DEF VideoWithoutEntry
  <2>14. ~ UNCHANGED vars
    BY <2>6 DEF vars
  <2> QED
    BY <1>1, <2>7, <2>8, <2>9, <2>10, <2>11, <2>12, <2>13, <2>14 DEF Next
<1>2. ASSUME IInv, [Next]_vars
      PROVE  [\A v \in Video : Found(v) /\ ~Found(v)' =>
                \/ clocks' = StartClocks
                \/ entries[v].is # "none" /\ entries[v].idle > VideoTimeout]_vars
  BY <1>1, <1>2 DEF Loses
<1> QED
  BY <1>2, Invariance, PTL DEF Spec, WatchedUntilIdle
=============================================================================
