-------------------------- MODULE DispatchHistory --------------------------
(***************************************************************************)
(* Dispatch with a history variable: how many interrupts each device has   *)
(* been promised and has not yet seen taken.  A promise is made when a     *)
(* call of interrupt() returns; it is kept when trapat() is called with    *)
(* the device's vector.  The history is never read by the actions.         *)
(***************************************************************************)
EXTENDS Dispatch, FiniteSetsExt

CONSTANT MaxOwed                 \* the history stops counting here, at 1 or more

VARIABLE owed

hvars == <<vars, owed>>

HInit == Init /\ owed = [e \in Sources |-> 0]

Promise(e) == owed' = [owed EXCEPT ![e] = IF @ < MaxOwed THEN @ + 1 ELSE @]

Keep(vec) ==
  owed' = [e \in Sources |->
             IF e.vec = vec /\ owed[e] > 0 THEN owed[e] - 1 ELSE owed[e]]

HTick ==
  /\ Tick
  /\ IF ie /\ pc' # "full" THEN Promise(Clock) ELSE UNCHANGED owed

HSetPri == SetPri /\ Promise(job)

HTakeInterrupt ==
  /\ TakeInterrupt
  /\ IF pc' = "pop" THEN Keep(itab[0].vec) ELSE UNCHANGED owed

HOther ==
  /\ \/ Step \/ CheckVec \/ CheckPri \/ TakeFault
     \/ RkStep \/ PollRecv \/ PollXmit
     \/ FastPath \/ ScanPri \/ ScanVec \/ CopyLoad \/ CopyStore \/ SetVec
     \/ PopIrq \/ InputSignal \/ Gone
  /\ UNCHANGED owed

HThread == HSetPri \/ HTakeInterrupt \/ HOther

HNext == HThread \/ HTick

HSpec == HInit /\ [][HNext]_hvars

-----------------------------------------------------------------------------

\* interrupt() "schedules an interrupt" (kb11.h:16): one it has scheduled is
\* in the table until it is taken.
ScheduledStays ==
  pc = "vec" =>
    \A e \in Sources : owed[e] > 0 => \E s \in Slot : itab[s].vec = e.vec

\* "interrupt table full" (kb11.cc:723), on which the program aborts, means
\* that as many interrupts are outstanding as the table has slots.
FullMeansFull ==
  pc = "full" => MapThenSumSet(LAMBDA e : owed[e], Sources) >= NSlots

=============================================================================
