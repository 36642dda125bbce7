CONSTANTS
    NodeNum = 3
    HashLen = 3
    HashTime = 2
    HashBase <- MCHashBase
    Key <- MCKey
    Timeout = 1
SPECIFICATION ServiceSpec
PROPERTY ImplementsManager
