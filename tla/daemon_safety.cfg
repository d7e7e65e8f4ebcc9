SPECIFICATION Spec
CONSTANTS
  N = 3
  NameOf <- Names
  Confs <- ThreeConfs
  ExportSets <- OneEachOnly
  MaxKey = 0
INVARIANT TypeOK
INVARIANT ListIntact
INVARIANT FaultsOnlyInGameover
INVARIANT ReleasedOnce
INVARIANT ConfigBound
INVARIANT ExitReleases
INVARIANT UpMeansReady
PROPERTY PassCovers
