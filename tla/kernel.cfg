SPECIFICATION KernelSpec
CONSTANTS
  Capacity = 7
  Keys = {0, 1, 3, 4}
  Procs = {p1, p2}
  NInodes = 3
  NINODE = 4
  Names <- MCNames
  Calls <- MCCalls
  MaxCalls = 4
  MaxCrashes = 1
  NULL = NULL
  NBlocks = 10
  Bsize = 2
  Ndirect = 1
  Nindirect = 3
  BPB = 1
  MaxOpBlocks = 8
  RootEntries = 3
  Bytes = {1, 2}
  FileSizes = {0, 3, 8}
  MaxWrites = 2
  MProcs = {m1, m2}
  Boot = m1
  NPages = 21
  Levels = 3
  Entries = 2
  PGSIZE = 2
  MaxSz = 8
  Images <- MCImages
  Args <- MCArgs
  NIL = NIL
  Cpus = {c1, c2}
  SProcs = {p1, p2}
  DevLocks = {d1}
  NONE = NONE
  MAXARGS = 4
  MaxTokens = 5
SYMMETRY Symmetry
VIEW View
INVARIANTS
  HeapOrdered
  
  RequestsKept
  RefsCounted
  Coherent
  NamesBacked
  PutNeverBlocks
  FilesReadBack
  BlocksHaveOwner
  LogBudget
  PagesHaveHolder
  SpaceMatchesSize
  MutualExclusion
  IntrRestored
  ParsesGrammar
PROPERTY NearestNext
