CONSTANTS
    Kinds <- MCKinds
    Timeout = 0
SPECIFICATION FairSpec
INVARIANT TypeOK
INVARIANT OnlyOfRound
PROPERTY NothingOverwritten
PROPERTY LagBounded
PROPERTY ReaderNotStuck
