-------------------------------- MODULE PSW --------------------------------
(***************************************************************************)
(* The processor status word and the words the KB11 makes out of it        *)
(* (kb11.h, kb11.cc).  Its fields are the current mode (bits 15-14), the   *)
(* previous mode (13-12), the priority (7-5) and the set of condition      *)
(* codes that are 1 (3-0).  The T bit and the unused bits are left out:    *)
(* nothing in the emulator reads them.                                     *)
(***************************************************************************)
EXTENDS Naturals

CONSTANTS
  Modes,        \* 0 kernel, 1 supervisor, 2 illegal, 3 user
  Priorities,   \* the priorities the guest uses
  Flags,        \* the condition codes that are modelled
  NWords,       \* R6 counts words modulo NWords (2^15 in the source)
  Vectors       \* the PSWs the guest puts in the trap vectors

PSWord ==
  [cur : Modes, prev : Modes, pri : Priorities, cc : SUBSET Flags]

\* The PSW of a KB11 that has just been constructed.
ZeroPSW == [cur |-> 0, prev |-> 0, pri |-> 0, cc |-> {}]

Larger(a, b) == IF a > b THEN a ELSE b

\* The bitwise or of two mode fields.
OrMode(a, b) ==
  2 * Larger(a \div 2, b \div 2) + Larger(a % 2, b % 2)

\* kernelmode(): the current mode becomes the previous one.
InKernelMode(psw) == [psw EXCEPT !.cur = 0, !.prev = psw.cur]

\* trapat(): vec is the PSW in the vector, old the PSW that was trapped.
Trapped(vec, old) == [vec EXCEPT !.prev = OrMode(vec.prev, old.cur)]

\* SPL
WithPriority(psw, n) == [psw EXCEPT !.pri = n]

\* CLR CC: PSW & (~instr & 017) keeps none of the upper bits.
ClearedCC(psw, mask) ==
  [cur |-> 0, prev |-> 0, pri |-> 0, cc |-> psw.cc \ mask]

\* SET CC
WithCC(psw, mask) == [psw EXCEPT !.cc = @ \cup mask]

\* RTI and RTT: the restriction on user mode, (psw & 0xf81f) | (psw & 0xf8e0),
\* keeps every field of the word that was popped.
Returned(old, popped) == popped

-----------------------------------------------------------------------------
(* Stack addresses.  A stack grows down, one word at a time. *)

Address == 0 .. NWords - 1

Down(a, n) == (a + NWords - n) % NWords

\* Faulty variant: R6 grows past 16 bits.
UpNoWrap(a, n) == a + n

Up(a, n) == (a + n) % NWords

ASSUME PSWAssumption ==
  /\ Modes \subseteq 0 .. 3 /\ 0 \in Modes
  /\ Priorities \subseteq 0 .. 7 /\ 0 \in Priorities
  /\ NWords \in Nat \ {0, 1, 2}
  /\ Vectors \subseteq PSWord
  /\ \A v \in Vectors, m \in Modes : OrMode(v.prev, m) \in Modes

=============================================================================
