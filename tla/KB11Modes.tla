------------------------------ MODULE KB11Modes ------------------------------
(***************************************************************************)
(* The processor modes of the KB11 and its one R6: writePSW() saves R6 in  *)
(* the slot of the mode it leaves and loads the slot of the mode it        *)
(* enters.  Traps, returns, the instructions that set the PSW, and the two *)
(* that reach into the previous mode's stack pointer.                      *)
(*                                                                         *)
(* A word popped from a stack is any word the guest could have put there.  *)
(* A stack access may fault (the MMU or the bus refuses it), which leaves  *)
(* by longjmp with R6 already moved; the run loop then calls trapat().     *)
(***************************************************************************)
EXTENDS PSW

VARIABLES
  psw,           \* PSW
  r6,            \* R[6]
  stackpointer,  \* stackpointer, one slot for each mode
  got,           \* the stack pointer the last MFPI pushed
  trapping,      \* a longjmp has left the instruction; trapat() is due
  did            \* the kind of the last step, for the properties to name

vars == <<psw, r6, stackpointer, got, trapping, did>>

Init ==
  /\ psw = ZeroPSW
  /\ r6 = 0 /\ stackpointer = [m \in Modes |-> 0]
  /\ got = 0 /\ trapping = FALSE /\ did = "reset"

\* Faulty variant: R6 is saved once the mode has changed.
WritePSWSavesLate(p, a) ==
  LET bank == [stackpointer EXCEPT ![p.cur] = a]
  IN  psw' = p /\ stackpointer' = bank /\ r6' = bank[p.cur]

\* writePSW(p), called when R6 is a.
WritePSW(p, a) ==
  LET bank == [stackpointer EXCEPT ![psw.cur] = a]
  IN  psw' = p /\ stackpointer' = bank /\ r6' = bank[p.cur]

\* An instruction that leaves modes and priority alone; it may move R6, and
\* may fault.
Execute ==
  /\ did' = "Execute"
  /\ ~trapping
  /\ r6' \in Address
  /\ \E c \in SUBSET Flags : psw' = [psw EXCEPT !.cc = c]
  /\ trapping' \in BOOLEAN
  /\ UNCHANGED <<stackpointer, got>>

SPL ==
  /\ did' = "SPL"
  /\ ~trapping
  /\ \E n \in Priorities : WritePSW(WithPriority(psw, n), r6)
  /\ UNCHANGED <<got, trapping>>

CLRCC ==
  /\ did' = "CLRCC"
  /\ ~trapping
  /\ \E mask \in SUBSET Flags : WritePSW(ClearedCC(psw, mask), r6)
  /\ UNCHANGED <<got, trapping>>

SETCC ==
  /\ did' = "SETCC"
  /\ ~trapping
  /\ \E mask \in SUBSET Flags : WritePSW(WithCC(psw, mask), r6)
  /\ UNCHANGED <<got, trapping>>

\* A store to 0777776 by a program the MMU lets reach it.
StorePSW ==
  /\ did' = "StorePSW"
  /\ ~trapping
  /\ \E p \in PSWord : WritePSW(p, r6)
  /\ UNCHANGED <<got, trapping>>

\* RTI, RTT
RTT ==
  /\ did' = "RTT"
  /\ ~trapping
  /\ \E p \in PSWord : WritePSW(Returned(psw, p), Up(r6, 2))
  /\ UNCHANGED <<got, trapping>>

\* MFPI SP
MFPI ==
  /\ did' = "MFPI"
  /\ ~trapping
  /\ got' = IF psw.cur = psw.prev THEN r6 ELSE stackpointer[psw.prev]
  /\ r6' = Down(r6, 1)
  /\ \E c \in SUBSET Flags : psw' = [psw EXCEPT !.cc = c]
  /\ UNCHANGED <<stackpointer, trapping>>

\* MTPI SP
MTPI ==
  /\ did' = "MTPI"
  /\ ~trapping
  /\ \E a \in Address :
       IF psw.cur = psw.prev
       THEN r6' = a /\ UNCHANGED stackpointer
       ELSE /\ r6' = Up(r6, 1)
            /\ stackpointer' = [stackpointer EXCEPT ![psw.prev] = a]
  /\ \E c \in SUBSET Flags : psw' = [psw EXCEPT !.cc = c]
  /\ UNCHANGED <<got, trapping>>

\* R6 once kernelmode() has switched.
KernelR6 == IF psw.cur = 0 THEN r6 ELSE stackpointer[0]

\* trapat(), for a trap, a fault or an interrupt: kernelmode(), two pushes,
\* and writePSW() again with the word in the vector.
Trap ==
  /\ did' = "Trap"
  /\ \E v \in Vectors :
       LET bank == [stackpointer EXCEPT ![psw.cur] = r6,
                                        ![0] = Down(KernelR6, 2)]
       IN  psw' = Trapped(v, psw) /\ stackpointer' = bank /\ r6' = bank[v.cur]
  /\ trapping' = FALSE
  /\ UNCHANGED got

\* The first or the second push of trapat(), or a read of the vector, faults:
\* the PSW it was about to push is gone, and trapat() is called again.
FaultInTrap ==
  /\ did' = "FaultInTrap"
  /\ psw' = InKernelMode(psw)
  /\ stackpointer' = [stackpointer EXCEPT ![psw.cur] = r6]
  /\ \E n \in 1 .. 2 : r6' = Down(KernelR6, n)
  /\ trapping' = TRUE
  /\ UNCHANGED got

Next ==
  \/ Execute \/ SPL \/ CLRCC \/ SETCC \/ StorePSW \/ RTT \/ MFPI \/ MTPI
  \/ Trap \/ FaultInTrap

Spec == Init /\ [][Next]_vars

-----------------------------------------------------------------------------

\* Every field stays within its width.
TypeOK ==
  /\ psw \in PSWord
  /\ r6 \in Address /\ stackpointer \in [Modes -> Address]
  /\ got \in Address /\ trapping \in BOOLEAN
  /\ did \in {"reset", "Execute", "SPL", "CLRCC", "SETCC", "StorePSW", "RTT",
             "MFPI", "MTPI", "Trap", "FaultInTrap"}

\* The stack pointer of each mode: the save slot of the current mode is stale.
StackOf == [m \in Modes |-> IF m = psw.cur THEN r6 ELSE stackpointer[m]]

Stacks == INSTANCE ModeStacks WITH sp <- StackOf

(***************************************************************************)
(* One R6 and the save slots act as a stack pointer for each mode: no      *)
(* order of traps, returns, faults in traps, stores to the PSW and moves   *)
(* to and from the previous mode's R6 loses a pointer or mixes up two.     *)
(***************************************************************************)
BanksAreStacks == Stacks!Spec

\* RTI and RTT outside kernel mode "keep SPL" (kb11.cc:314).
UserReturnKeepsSPL ==
  [][did' = "RTT" /\ psw.cur # 0 => psw'.pri = psw.pri]_vars

=============================================================================
