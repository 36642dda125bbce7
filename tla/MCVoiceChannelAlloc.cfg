CONSTANT
    NodeNum <- MCNodeNum
SPECIFICATION Spec
INVARIANT TypeOK
INVARIANT ListsLinked
INVARIANT NoDoubleAllocation
INVARIANT ReleaseStoresInBounds
INVARIANT NoChannelLost
PROPERTY ImplementsPool
