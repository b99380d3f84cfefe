SPECIFICATION Spec
CONSTANTS
  Nodes = {n0, n1, n2}
  Root = n0
  NoNode = NoNode
  Freed = Freed
  Paths <- MCNestedPaths
  PerBlock = 5
  MountBlocks = 1
  MaxBlocks = 1
  MaxKids = 2
  MaxWalk = 4
SYMMETRY MCSymmetry
PROPERTIES
  UnvisitedSurvive
CHECK_DEADLOCK FALSE
