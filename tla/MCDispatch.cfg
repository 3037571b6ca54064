SPECIFICATION FairSpec
CONSTANTS
  NSlots = 4
  Clock <- MCClock
  Rk <- MCRk
  Recv <- MCRecv
  Xmit <- MCXmit
  Uses <- MCAll
  Priorities = {0, 4, 6}
INVARIANTS
  TypeOK
  TakenOutranksCpu
PROPERTIES
  CallsAreAtomic
  OnlyPopStrands
  PendingIsServed
