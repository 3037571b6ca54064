SPECIFICATION FairSpec
CONSTANTS
  ByteMSB = 128
  WordMSB = 32768
  Registers <- MCRegisters
  NSlots = 8
  Starts <- MCStarts
  DiskWord <- MCDiskWord
  Keys <- MCKeys
  MaxTyped = 2
  MaxTicks = 1
  Delay = 2
  NCount = 4
CHECK_DEADLOCK FALSE
PROPERTIES
  DiskServes
  TypedIsEchoed
