SPECIFICATION Spec
CONSTANTS
  Modes = {0, 3}
  Pages = {7}
  NBlocks = 2
  Disps = {0}
  Bases = {0, 1}
  Lens = {0, 1}
  IOPage = 7
INVARIANTS TypeOK Confined WrittenIsMarked OnlyOutsideFaults
