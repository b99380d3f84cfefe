SPECIFICATION Spec
CONSTANTS
  GroupCount = 3
  PerGroup = 2
  ListBlocks = 1
  Width = 4
  Batch = 2
  Reserve = 1
  Files = {f1, f2}
  NoBlock = NoBlock
  MaxNum = 5
  MaxEnds = 2
SYMMETRY MCSymmetry
INVARIANTS
  TypeOK
  OwnPlaces
  ListsAreFree
CHECK_DEADLOCK FALSE
