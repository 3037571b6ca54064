SPECIFICATION FairSpec
CONSTANTS
  ByteMSB = 128
  WordMSB = 32768
  Registers <- MCRegisters
  Starts <- MCStarts
  MaxSteps = 2
CHECK_DEADLOCK FALSE
INVARIANTS
  TypeOK
  DisassemblerAgrees
PROPERTIES
  FaultsAreRecoverable
  OperandsMoveOnce
  BytesStay
  StoresAreLoaded
  CallsReturn
  TrapsReturn
  TrapIsTaken
