CONSTANTS
    HashLen = 3
    HashTime = 2
    HashBase <- MCHashBase
    NodeNum = 3
    Key <- MCKey
    Timeout = 2
SPECIFICATION FairSpec
INVARIANT TypeOK
INVARIANT OneToOne
INVARIANT EveryEntryFound
PROPERTY SweepLeavesNoneStale
PROPERTY FedKeepsChannel
PROPERTY UnfedLosesChannel
