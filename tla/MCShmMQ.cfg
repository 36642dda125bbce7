CONSTANTS
    BlockSize = 8
    BufSize = 2
    MaxCount = 2
    PipeSize = 1
    Message <- MCMessage
    None = None
SPECIFICATION Spec
INVARIANT TypeOK
INVARIANT WritesOnlyFreeCells
INVARIANT AssertTotalLen
INVARIANT CopiedIsOldest
PROPERTY ImplementsQueue
