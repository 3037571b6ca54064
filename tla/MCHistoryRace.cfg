SPECIFICATION HSpec
CONSTANTS
  NSlots = 8
  Clock <- MCClock
  Rk <- MCRk
  Recv <- MCRecv
  Xmit <- MCXmit
  Uses <- MCClockOnly
  Priorities = {0, 4, 6}
  MaxOwed = 8
CONSTRAINT InSourceOrder
INVARIANT ScheduledStays
