SPECIFICATION FairSpec
CONSTANT StrictModeAfterExit = FALSE
INVARIANTS HandOver MachineSafe
PROPERTY CallsReturn
