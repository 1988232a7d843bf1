SPECIFICATION IoSpec
CONSTANTS
  FProcs = {p0, p1, p2, p3, p4, p5}
  Sh = p0
  NFILE = 5
  NOFILE = 5
  PIPESIZE = 2
  NPipes = 2
  UMod = 4
  MaxMishaps = 1
  Scripts <- MCScripts
  NULL = NULL
  Writers = {w1, w2}
  TxBuf = 2
  FifoSize = 2
  InputBuf = 3
  CMod = 6
  Keys = {"a", "nl", "D", "U", "H"}
  MaxRx = 2
  MaxWork = 4
  ReadSize = 2
  MAXARGS = 4
  MaxTokens = 0
CHECK_DEADLOCK FALSE
INVARIANTS
  FilesCounted
  PipeStream
  InputInOrder
  NothingLost
PROPERTIES PipelineEnds ConsoleQuiet
