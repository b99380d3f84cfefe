SPECIFICATION Spec
CONSTANTS
  Files = {f1, f2, f3}
  Root = Root
  Keep = 4
  Tab = 9
  Fds <- MCFds
  MaxLen = 2
  MaxOps = 8
SYMMETRY Symmetry
CHECK_DEADLOCK FALSE
INVARIANT NoLockIsLeft
