SPECIFICATION Spec
CONSTANTS
  TREESIZE = 3
  timeLimit = 1
  NULL = NULL
  Keys = {1, 2, 3}
  MaxTicks = 3
PROPERTY ReadyIsMinimum
