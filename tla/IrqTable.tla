------------------------------ MODULE IrqTable ------------------------------
(***************************************************************************)
(* The table of scheduled interrupts of the processor, KB11::itab, and the *)
(* two operations on it: interrupt() files an entry, popirq() removes the  *)
(* first one.  A slot whose vector is 0 is free.                           *)
(*                                                                         *)
(* The operators below describe a call that nothing interrupts.  Module    *)
(* Dispatch breaks the calls of the main loop into the accesses they make; *)
(* it uses these operators for the call the signal handler makes, which    *)
(* runs to its end before the main loop goes on.                           *)
(***************************************************************************)
EXTENDS Naturals

CONSTANT NSlots                  \* itab.size(), 8 in the source

ASSUME NSlotsAssumption == NSlots \in Nat \ {0, 1}

Slot == 0 .. NSlots - 1

Entry == [vec : Nat, pri : Nat]

NoEntry == [vec |-> 0, pri |-> 0]

EmptyTable == [s \in Slot |-> NoEntry]

Free(t, s) == t[s].vec = 0

\* What stops the first search of interrupt(): room, or a lower priority.
StopsForPri(t, s, e) == Free(t, s) \/ t[s].pri < e.pri

\* What stops the second search, which goes on from where the first ended.
StopsForVec(t, s, e) == Free(t, s) \/ t[s].vec >= e.vec

(***************************************************************************)
(* interrupt(e) settles on slot i of table t; i = NSlots is the full table *)
(* on which the program aborts.  A free slot 0 is taken without a search.  *)
(***************************************************************************)
Lands(t, e, i) ==
  \/ Free(t, 0) /\ i = 0
  \/ /\ ~Free(t, 0)
     /\ \E k \in 0 .. i :
          /\ \A s \in 0 .. k - 1 : ~StopsForPri(t, s, e)
          /\ k < NSlots => StopsForPri(t, k, e)
          /\ \A s \in k .. i - 1 : ~StopsForVec(t, s, e)
          /\ i < NSlots => StopsForVec(t, i, e)

(***************************************************************************)
(* The table once e is filed at slot i.  The loop that makes room copies   *)
(* upwards from i, so every later slot ends up as a copy of slot i.  The   *)
(* call that finds slot 0 free makes no room.                              *)
(***************************************************************************)
Filed(t, e, i) ==
  IF Free(t, 0)
  THEN [t EXCEPT ![0] = e]
  ELSE [s \in Slot |-> IF s < i THEN t[s] ELSE IF s = i THEN e ELSE t[i]]

\* The table once its first entry is removed.
Popped(t) == [s \in Slot |-> IF s = NSlots - 1 THEN NoEntry ELSE t[s + 1]]

\* No free slot precedes a used one among the first n slots.
CompactBelow(t, n) ==
  \A r, s \in Slot : r < s /\ s < n /\ Free(t, r) => Free(t, s)

Compact(t) == CompactBelow(t, NSlots)

=============================================================================
