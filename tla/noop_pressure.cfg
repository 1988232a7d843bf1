SPECIFICATION FairSpec
CONSTANTS
  Procs = {p1, p2}
  Bufs = {b1, b2}
  Blocks = {0, 1}
  Data = {x}
  Old = NULL
  NUM = 4
  IdxMod = 8
  INTR = INTR
  NULL = NULL
VIEW Live
PROPERTY SleeperWoken
