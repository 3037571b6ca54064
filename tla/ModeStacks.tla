----------------------------- MODULE ModeStacks -----------------------------
(***************************************************************************)
(* What the processor promises its programs about R6: each mode has a      *)
(* stack pointer of its own, and an instruction works on the one of the    *)
(* mode it runs in, or by MFPI and MTPI on the one of the previous mode.   *)
(* KB11Modes implements it with one register and four save slots.          *)
(***************************************************************************)
EXTENDS PSW

VARIABLES psw, sp, got, trapping

vars == <<psw, sp, got, trapping>>

Init ==
  /\ psw = ZeroPSW
  /\ sp = [m \in Modes |-> 0]
  /\ got = 0 /\ trapping = FALSE

\* Any instruction, finished or ended by a fault, that leaves the PSW's upper
\* fields alone.
Execute ==
  /\ ~trapping
  /\ \E a \in Address, c \in SUBSET Flags :
       /\ sp' = [sp EXCEPT ![psw.cur] = a]
       /\ psw' = [psw EXCEPT !.cc = c]
  /\ trapping' \in BOOLEAN
  /\ UNCHANGED got

SetPSW ==
  /\ ~trapping
  /\ \/ \E n \in Priorities : psw' = WithPriority(psw, n)
     \/ \E mask \in SUBSET Flags :
          psw' = ClearedCC(psw, mask) \/ psw' = WithCC(psw, mask)
     \/ psw' \in PSWord
  /\ UNCHANGED <<sp, got, trapping>>

Return ==
  /\ ~trapping
  /\ sp' = [sp EXCEPT ![psw.cur] = Up(@, 2)]
  /\ \E p \in PSWord : psw' = Returned(psw, p)
  /\ UNCHANGED <<got, trapping>>

MoveFrom ==
  /\ ~trapping
  /\ got' = sp[psw.prev]
  /\ sp' = [sp EXCEPT ![psw.cur] = Down(@, 1)]
  /\ \E c \in SUBSET Flags : psw' = [psw EXCEPT !.cc = c]
  /\ UNCHANGED trapping

MoveTo ==
  /\ ~trapping
  /\ \E a \in Address :
       sp' = [sp EXCEPT ![psw.cur] = Up(@, 1), ![psw.prev] = a]
  /\ \E c \in SUBSET Flags : psw' = [psw EXCEPT !.cc = c]
  /\ UNCHANGED <<got, trapping>>

Trap ==
  /\ \E v \in Vectors : psw' = Trapped(v, psw)
  /\ sp' = [sp EXCEPT ![0] = Down(@, 2)]
  /\ trapping' = FALSE
  /\ UNCHANGED got

FaultInTrap ==
  /\ \E n \in 1 .. 2 : sp' = [sp EXCEPT ![0] = Down(@, n)]
  /\ psw' = InKernelMode(psw)
  /\ trapping' = TRUE
  /\ UNCHANGED got

Next ==
  \/ Execute \/ SetPSW \/ Return \/ MoveFrom \/ MoveTo
  \/ Trap \/ FaultInTrap

Spec == Init /\ [][Next]_vars

=============================================================================
