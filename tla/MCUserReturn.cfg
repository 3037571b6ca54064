SPECIFICATION Spec
CONSTANTS
  Modes = {0, 1, 3}
  Priorities = {0, 7}
  Flags = {"C"}
  NWords = 3
  Vectors <- MCVectors
PROPERTY UserReturnKeepsSPL
