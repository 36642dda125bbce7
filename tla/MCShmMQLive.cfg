CONSTANTS
    BlockSize = 8
    BufSize = 2
    MaxCount = 2
    PipeSize = 1
    Message <- MCShortMessage
    None = None
SPECIFICATION FairSpec
PROPERTY EveryMessageTaken
