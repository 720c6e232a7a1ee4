SPECIFICATION Spec
CONSTANTS
    NumKeys = 2
    Typed = {1, 2}
    PadKey = 2
    ByScanCode = {}
    QueueSize = 3
    MaxInputs = 3
    RacedInputs = 3
    MaxFull = 1
    RacedFull = 0
INVARIANTS KeysSound NoStuckKey
PROPERTIES RingIsQueue
