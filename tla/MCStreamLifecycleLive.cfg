CONSTANTS
    SlotNum = 1
    Video = {1, 2}
    KeyOf <- OwnIds
    RoomOf <- OwnIds
    ChannelTimeout = 0
    RoomTimeout = 0
    VideoTimeout = 1
    Period = 2
SPECIFICATION FairSpec
INVARIANT AudioStaysHome
PROPERTY IdleStreamForgotten
