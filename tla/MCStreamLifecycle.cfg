CONSTANTS
    SlotNum = 2
    Video = {1, 2}
    KeyOf <- SharedIds
    RoomOf <- SharedIds
    ChannelTimeout = 0
    RoomTimeout = 0
    VideoTimeout = 1
    Period = 2
SPECIFICATION Spec
INVARIANT TypeOK
INVARIANT TablesAgree
INVARIANT PlaylistOfOwner
PROPERTY FramesReachPlayers
PROPERTY WatchedUntilIdle
