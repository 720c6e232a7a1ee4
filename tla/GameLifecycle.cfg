SPECIFICATION FairSpec
CONSTANT MaxLoads = 3
INVARIANTS ShellSound LastRequestWins HistoryUncrossed
PROPERTIES RequestsEnd
