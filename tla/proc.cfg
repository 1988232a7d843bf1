SPECIFICATION Spec
CONSTANTS
  NPROC = 3
  NCPU = 2
INVARIANTS OneCpu WaitedFor
PROPERTY ZombieStays
