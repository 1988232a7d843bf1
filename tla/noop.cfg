SPECIFICATION MCSpec
CONSTANTS
  Procs = {p1, p2}
  Bufs = {b1, b2}
  Blocks = {0, 1}
  Data = {x, old}
  Old = old
  NUM = 6
  IdxMod = 6
  INTR = INTR
  NULL = NULL
VIEW Rotated
INVARIANTS DescriptorsAccounted RingsInStep
PROPERTIES ServesRequests EveryRequestReturns
