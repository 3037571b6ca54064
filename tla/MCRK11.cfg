SPECIFICATION FairSpec
CONSTANTS
  Functions <- MCFunctions
  Starts <- MCStarts
  LastCylinder = 1
  LastSector = 1
  SectorWords = 2
  Addresses = {0, 3}
  NBytes = 6
  MaxCount = 3
CHECK_DEADLOCK FALSE
INVARIANTS
  TypeOK
  TransferInterruptsOnce
PROPERTIES
  OnTheDisk
  MovesBlocks
  TransferFinishes
