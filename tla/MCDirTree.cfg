SPECIFICATION Spec
CONSTANTS
  Nodes = {n0, n1, n2}
  Root = n0
  NoNode = NoNode
  Freed = Freed
  Paths <- MCFewPaths
  PerBlock = 2
  MountBlocks = 2
  MaxBlocks = 2
  MaxKids = 2
  MaxWalk = 4
SYMMETRY MCSymmetry
INVARIANTS
  TypeOK
  WalkStaysBelow
CHECK_DEADLOCK FALSE
