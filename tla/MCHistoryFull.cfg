SPECIFICATION HSpec
CONSTANTS
  NSlots = 8
  Clock <- MCClock
  Rk <- MCRk
  Recv <- MCRecv
  Xmit <- MCXmit
  Uses <- MCNoClock
  Priorities = {0, 4, 5}
  MaxOwed = 8
INVARIANT FullMeansFull
