SPECIFICATION FairSpec
CONSTANTS
    FrameSlots = 3
    MaxFrames = 5
    MaxGames = 2
INVARIANTS RingSound NoTearing
PROPERTIES NewestKept MailboxSpec NewestShown
