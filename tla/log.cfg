SPECIFICATION FairSpec
CONSTANTS
  Procs = {p1, p2, p3}
  Blocks = {k1, k2, k3}
  Data = {x, y}
  TORN = TORN
  MAXOPBLOCKS = 2
  LOGSIZE = 4
  size = 5
VIEW Live
INVARIANT ReservationHolds
PROPERTIES ImplementsAtomicStore LogProgress
