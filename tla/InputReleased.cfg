SPECIFICATION Spec
CONSTANTS
    NumKeys = 1
    Typed = {1}
    PadKey = 1
    ByScanCode = {}
    QueueSize = 3
    MaxInputs = 4
    RacedInputs = 0
    MaxFull = 0
    RacedFull = 0
PROPERTIES ReleasedInTheEnd
