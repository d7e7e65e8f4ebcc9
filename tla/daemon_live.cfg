SPECIFICATION FairSpec
CONSTANTS
  N = 1
  NameOf <- Names
  Confs <- OneConfs
  ExportSets <- NoneOrAll
  MaxKey = 1
INVARIANT NeverOverdue
INVARIANT FullInv
PROPERTY PeriodicRuns
PROPERTY StopEndsLoaded
PROPERTY EndingEnds
PROPERTY LivesALife
