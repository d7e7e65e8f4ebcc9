SPECIFICATION FairSpec
CONSTANTS
  Pid = {p1, p2}
  Shell = {s1, s2}
INVARIANT TypeOK
INVARIANT TerminatedMeansGone
INVARIANT FaultMeansGone
INVARIANT OneEach
INVARIANT LaunchInv
PROPERTY StopStops
