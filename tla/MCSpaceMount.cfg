SPECIFICATION Spec
CONSTANTS
  Cap <- MCCap
  Batch = 2
  Reserve = 1
  MaxAddr = 2
  PerBlock = 3
  Slots <- MCSlots
  Names = {m1, m2}
  NoFile = NoFile
  MaxSteps = 9
  MaxNum = 8
INVARIANT MountIsRemembered
SYMMETRY Symmetry
CHECK_DEADLOCK FALSE
