SPECIFICATION Spec
CONSTANTS
  ByteMSB = 2
  WordMSB = 8
  Registers <- MCRegisters
INVARIANTS
  TypeOK
  AgreesWithHandbook
  BranchesDecide
  FlagsTellResult
  HighByteStays
  SumsCarry
  DifferencesBorrow
  ProductsDivide
