\* A window of two fragments, the ring of five slots gone round.
SPECIFICATION Spec
CONSTANTS WinFrags = 2
          MaxTsLen = 4
          AudioLen = 3
          FragLen = 3
          Second = 2
          Wrap = 50
          Elapsed <- MCShortElapsed
          FrameLen = {1, 3}
          MaxFragment = 6
INVARIANTS TypeOK ListedAreServed RecentStillServed OverrunLimited
PROPERTY ListedNeverRewritten
