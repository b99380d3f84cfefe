SPECIFICATION CarefulSpec
CONSTANTS
  Nodes = {n0, n1, n2}
  Root = n0
  NoNode = NoNode
  Freed = Freed
  Paths <- MCPaths
  PerBlock = 5
  MountBlocks = 1
  MaxBlocks = 1
  MaxKids = 2
  MaxWalk = 4
INVARIANTS
  CarefulCacheIsTree
  CarefulNamesAreUnique
  
  CarefulStaysOnCourse
PROPERTIES
  WalkEnds
CHECK_DEADLOCK FALSE
