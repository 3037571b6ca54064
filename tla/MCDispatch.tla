----------------------------- MODULE MCDispatch -----------------------------
(* Instances of Dispatch with the vectors and priorities of the source.    *)
EXTENDS Dispatch

MCClock == [vec |->  64, pri |-> 6]     \* INTCLOCK  0100, kw11.cc
MCRk    == [vec |-> 144, pri |-> 5]     \* INTRK     0220, rk11.cc
MCRecv  == [vec |->  48, pri |-> 4]     \* INTTTYIN  0060, kl11.cc
MCXmit  == [vec |->  52, pri |-> 4]     \* INTTTYOUT 0064, kl11.cc

MCAll == {MCClock, MCRk, MCRecv, MCXmit}

=============================================================================
