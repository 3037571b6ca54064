SPECIFICATION FairSpec
CONSTANTS
  Keys <- MCKeys
  NUL = 0
  MaxTyped = 2
  Delay = 2
  NCount = 4
INVARIANTS
  TypeOK
PROPERTIES
  IsATTY
  OnlyTheRaceForgets
  TransmitterReturns
  WaitingIsRead
