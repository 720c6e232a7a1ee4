SPECIFICATION FairSpec
CONSTANTS
    MaxBuffers = 3
    SubBuf = 2
    MaxWrite = 2
    BeepLength = 5
    FlushWaits = 4
    MaxGames = 2
INVARIANTS RingSound OneGameAudible
PROPERTIES TimeoutMeansFull CallsReturn
