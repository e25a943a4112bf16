SPECIFICATION FairSpec
CONSTANTS
  p1 = p1  p2 = p2  k1 = k1  k2 = k2
  None = None
  Routes <- TwoRoutes
  Never <- OneNever
  Looks <- OneLook
  MaxRules = 2
  MaxEdits = 2
  MaxFaults = 1
INVARIANTS ScheduleInv OneSenderPerRule ServesWhatWasListed
PROPERTIES UneditedKeepRunning EditsReachTheChannel OldRowsFallSilent CloseStopsEverything
