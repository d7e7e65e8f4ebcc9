SPECIFICATION FairSpec
CONSTANTS
  N = 1
  NameOf <- Names
  Confs <- OneConfs
  ExportSets <- NoneOrAll
  MaxKey = 1
PROPERTY StopEnds
