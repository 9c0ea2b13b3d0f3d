SPECIFICATION FairSpec
CONSTANTS
  r1 = r1
  r2 = r2
  client = client
  Runners <- MCRunners
  Owner = r1
  Readers <- MCReaders
  Batch = 2
  MaxLines <- MCMaxLines
  MaxCancels = 1
  MaxBreaks = 1
INVARIANT StreamIsSound
PROPERTY IsFollowedLog
PROPERTY EveryLineArrives
CHECK_DEADLOCK FALSE
