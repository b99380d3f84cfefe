SPECIFICATION Spec
CONSTANTS
  BlockSize = 2
  MaxBlocks = 2
  Files = {f1, f2}
  Root = Root
  NoFile = NoFile
  Blocks = {b0, b1, b2, b3}
  Zero = b0
  MaxFd = 1
  Letters = {"a", "b"}
  Texts <- MCTexts
  Nul = "nul"
  DirByte = "dir"
  MaxOps = 8
SYMMETRY MCSymmetry
INVARIANTS
  RootBlockIsRoots
CHECK_DEADLOCK FALSE
