SPECIFICATION HaltSpec
CONSTANTS
  Procs = {p1, p2}
  Bufs = {b1, b2, b3}
  Blocks = {k1, k2, k3, k4}
  Data = {x, y}
  NULL = NULL
  MaxPins = 2
SYMMETRY Symmetry
INVARIANTS CountsHold BufferIdentity ReadsLatest LockHandedOn
