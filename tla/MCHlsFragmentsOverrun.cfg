\* A full slot and as much buffered audio as the next one has room for.
SPECIFICATION Spec
CONSTANTS WinFrags = 1
          MaxTsLen = 4
          AudioLen = 3
          FragLen = 3
          Second = 2
          Wrap = 50
          Elapsed <- MCShortElapsed
          FrameLen = {1, 3}
          MaxFragment = 3
INVARIANT AssertTsLen
