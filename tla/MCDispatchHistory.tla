------------------------- MODULE MCDispatchHistory -------------------------
(* Instances of DispatchHistory with the vectors and priorities of the     *)
(* source; see MCDispatch.                                                 *)
EXTENDS DispatchHistory

MCClock == [vec |->  64, pri |-> 6]
MCRk    == [vec |-> 144, pri |-> 5]
MCRecv  == [vec |->  48, pri |-> 4]
MCXmit  == [vec |->  52, pri |-> 4]

MCNoClock == {MCRk, MCRecv, MCXmit}
MCClockOnly == {MCClock}

\* popirq() moves one slot after the other, in the order of the source.
InSourceOrder == \A s \in held : todo = {r \in Moving : r > s}

=============================================================================
