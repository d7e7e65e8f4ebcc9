SPECIFICATION Spec
CONSTANTS
  N = 2
  NameOf <- Names
  Confs <- BothConfs
  ExportSets <- NoneOrOneEach
  MaxKey = 1
INVARIANT InitBeforeRun
