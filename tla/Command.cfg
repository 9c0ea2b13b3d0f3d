SPECIFICATION FairCommandSpec
CONSTANTS
  None = None
  Star = "*"
  out = out
  err = err
  Handler = handler
  Leader = leader
  Helper = helper
  Streams <- MCStreams
  Secrets <- MCSecrets
  Stage <- MCStage
  Bytes <- MCBytes
  Scripts <- MCScripts
  MaxTotal = 6
  MaxEvent = 3
  PipeSize = 2
  ReadSize = 2
  CaptureLimit = 2
INVARIANT LogIsSound
INVARIANT ResultIsTrue
PROPERTY CommandEnds
CHECK_DEADLOCK FALSE
