\* A window of one fragment, with time going back, standing still and jumping.
SPECIFICATION FairSpec
CONSTANTS WinFrags = 1
          MaxTsLen = 4
          AudioLen = 3
          FragLen = 3
          Second = 2
          Wrap = 50
          Elapsed <- MCElapsed
          FrameLen = {3}
          MaxFragment = 3
INVARIANT TargetCoversList
PROPERTY HandlersReturn
