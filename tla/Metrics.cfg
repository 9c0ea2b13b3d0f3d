SPECIFICATION FairSpec
CONSTANTS
  s1 = s1
  s2 = s2
  Runners <- MCRunners
  Servers <- MCServers
  Dead <- MCDead
  Window = 1
  MaxCrashes = 2
  MaxEdits = 1
INVARIANT SamplesAreBounded
PROPERTY KeepsBeingSampled
CHECK_DEADLOCK FALSE
