----------------------------- MODULE Processor -----------------------------
(***************************************************************************)
(* The processor at work: instructions one after the other, from any of    *)
(* the states in Starts, and the run loop's answer to a trap.              *)
(*                                                                         *)
(* The state is one value, described in module Operand.  Between steps it  *)
(* holds no value read and no log of device accesses.                      *)
(***************************************************************************)
EXTENDS KB11

CONSTANTS
  Starts,     \* states a program can be in, its next instruction chosen
  MaxSteps    \* bound on the instructions that are executed

PageTable == [0 .. 3 -> [0 .. 7 -> [base : Nat, r : BOOLEAN, w : BOOLEAN]]]

\* Registers, memory and devices hold words, memory at even addresses of its own.
IsState(d) ==
  /\ d \in [R : [0 .. 7 -> Word], psw : Word, sp : [0 .. 3 -> Word], pc : Word,
            core : {d.core}, mmu : [on : BOOLEAN, pages : PageTable], io : {d.io},
            log : {<<>>}, val : {0}, trap : {0, INTBUS, INTFAULT}, dead : BOOLEAN]
  /\ d.core \in [DOMAIN d.core -> Word] /\ d.io \in [DOMAIN d.io -> Word]
  /\ DOMAIN d.core \subseteq Nat /\ DOMAIN d.io \subseteq Nat
  /\ \A a \in DOMAIN d.core : ~Odd(a) /\ InCore(a)

\* The addresses and the bits of the PSW are those of words of 16 bits.
ASSUME ProcessorAssumption ==
  /\ ByteMSB = 128
  /\ \A d \in Starts : IsState(d)
  /\ MaxSteps \in Nat

VARIABLES
  c,          \* the state
  steps       \* instructions executed

vars == <<c, steps>>

AtRest(d) == [d EXCEPT !.val = 0, !.log = <<>>]

Init == c \in Starts /\ steps = 0

\* cpu.step() of loop0()
Step ==
  /\ Live(c) /\ steps < MaxSteps
  /\ \E u \in BOOLEAN : c' = AtRest(step(u, c))
  /\ steps' = steps + 1

\* loop(), when setjmp() returns the vector: trapat() itself may fault.
Answered(d) == AtRest(trapat(d.trap, [d EXCEPT !.trap = 0]))

TakeTrap ==
  /\ c.trap # 0
  /\ c' = Answered(c)
  /\ UNCHANGED steps

Next == Step \/ TakeTrap

Spec == Init /\ [][Next]_vars

\* The run loop goes on with a trap that is due: nothing but the thread itself
\* is waited for.  It is WF_vars(TakeTrap) with ENABLED <<TakeTrap>>_vars spelled
\* out, which TLC evaluates much faster.
FairSpec ==
  Spec /\ ([]<>(c.trap = 0 \/ Answered(c) = c) \/ []<><<TakeTrap>>_vars)

-----------------------------------------------------------------------------

\* The state is one of a program, whatever an instruction computed.
TypeOK == IsState(c) /\ steps \in 0 .. MaxSteps

(***************************************************************************)
(* For each of the words a trace calls by a name, step() executes just     *)
(* that instruction, on operands of that length; a word shown as HALT is   *)
(* one the table leaves out.  All words are compared before the first one  *)
(* is executed.                                                            *)
(***************************************************************************)
DisassemblerAgrees == steps = 0 => DecodersAgree

-----------------------------------------------------------------------------
(* What the handbook says an instruction's operands do to the registers.   *)

TwoOperands == {"MOV", "CMP", "BIT", "BIC", "BIS", "ADD", "SUB"}
Pairs == {"MUL", "DIV", "ASH", "ASHC"}
WithOperands ==
  TwoOperands \cup Pairs \cup {Singles[k] : k \in 1 .. 12}
    \cup {"SWAB", "SXT", "XOR", "JMP", "JSR", "MFPI", "MTPI"}

\* The state as step() begins, the word it fetches, and that taken apart.
begun == [c EXCEPT !.pc = c.R[7], !.log = <<>>]
fetched == fetch16(begun)

now ==
  LET i == fetched.val
      o == Operation(i)
  IN  [name |-> o.name, len |-> o.len, src |-> (i \div 64) % 64,
       dst |-> i % 64, reg |-> RegOf(i \div 64)]

\* A move adds by to register r.
Adds(r, by) == [r |-> r, by |-> by]
Still == Adds(0, 0)

Moves(s, l) ==
  LET r == RegOf(s)
      size == IF r \in {6, 7} THEN 2 ELSE l
  IN  CASE ModeOf(s) \in {0, 1} -> Still
        [] ModeOf(s) = 2 -> Adds(r, size)
        [] ModeOf(s) = 3 -> Adds(r, 2)
        [] ModeOf(s) = 4 -> Adds(r, -size)
        [] ModeOf(s) = 5 -> Adds(r, -2)
        [] ModeOf(s) \in {6, 7} -> Adds(7, 2)

\* The moves of the instruction's word, source, destination and push.
Demands(n) ==
  <<Adds(7, 2),
    IF n.name = "MTPI" THEN Adds(6, 2)
    ELSE IF n.name \in TwoOperands THEN Moves(n.src, n.len) ELSE Still,
    IF n.name \in WithOperands THEN Moves(n.dst, n.len) ELSE Still,
    IF n.name \in {"JSR", "MFPI"} THEN Adds(6, -2) ELSE Still>>

Move(m, R) == [R EXCEPT ![m.r] = Cut(2, @ + m.by)]

\* The registers before the moves and after each of them.
Moved(moves) ==
  LET one == Move(moves[1], c.R)
      two == Move(moves[2], one)
      three == Move(moves[3], two)
  IN  <<c.R, one, two, three, Move(moves[4], three)>>

\* Instructions that move a stack frame: a fault in the middle loses the PC.
Frames == {"RTS", "MARK", "RTI", "RTT"} \cup DOMAIN TrapVectors

MovesFrame == Live(fetched) /\ now.name \in Frames

(***************************************************************************)
(* An instruction that faults has changed neither memory nor the PSW, and  *)
(* of the registers only what its first few operands demand: a kernel that *)
(* decodes the instruction can put them back and restart it.               *)
(***************************************************************************)
FaultsAreRecoverable ==
  [][Live(c) /\ c'.trap # 0 /\ ~MovesFrame =>
       /\ c'.core = c.core /\ c'.psw = c.psw /\ c'.sp = c.sp
       /\ \E k \in 1 .. 5 : c'.R = Moved(Demands(now))[k]]_vars

\* An instruction with operands runs to its end.
Completes == Live(c) /\ Live(c') /\ now.name \in WithOperands

\* The address of the destination, as DA() forms it.
Address(n) ==
  LET s == IF n.name \in TwoOperands THEN SS(n.len, n.src, fetched)
           ELSE IF n.name = "MTPI" THEN pop(fetched) ELSE fetched
  IN  DA(n.len, n.dst, s).val

\* The registers it changes beside what its operands demand.
Changes(n) ==
  CASE n.name = "JMP" -> {7}
    [] n.name = "JSR" -> {7, n.reg}
    [] n.name \in Pairs -> {n.reg, Beside(n.reg)}
    [] n.name = "MFPI" -> {}
    [] OTHER -> IF ModeOf(n.dst) = 0 THEN {RegOf(n.dst)} ELSE {}

(***************************************************************************)
(* An instruction that completes has moved the registers of its operands,  *)
(* each once and in order, and PC over its words; others it changes only   *)
(* if they are its destination, or R6 with the mode, or if it reached the  *)
(* destination by the address that stands for them.                        *)
(***************************************************************************)
OperandsMoveOnce ==
  [][Completes =>
       LET moved == Moved(Demands(now))[5]
       IN  \A r \in 0 .. 7 \ Changes(now) :
             \/ c'.R[r] = moved[r]
             \/ r = 6 /\ currentmode(c') # currentmode(c)
             \/ Address(now) = AliasOf(r)]_vars

\* The words of memory that differ.
Differ == {a \in DOMAIN c.core \cup DOMAIN c'.core : At(c.core, a) # At(c'.core, a)}

(***************************************************************************)
(* A byte instruction changes one byte of memory at most, the destination, *)
(* whatever bits its result has beyond the byte: the neighbour stays.      *)
(***************************************************************************)
BytesStay ==
  [][Completes /\ now.len = 1 =>
       /\ Cardinality(Differ) <= 1
       /\ \A a \in Differ :
            LET neighbour == a + 1 - (Address(now) % 2)
            IN  ByteAt(neighbour, At(c.core, a)) = ByteAt(neighbour, At(c'.core, a))]_vars

\* KT11::decode() as a load of the word at a asks for it, and whether the word
\* is one of memory then.
Loading(a, mode, d) == Decode(a, mode, FALSE, d)
IsMemory(a, mode, d) ==
  Live(Loading(a, mode, d)) /\ InCore(Loading(a, mode, d).val)

(***************************************************************************)
(* A load finds what MOV or MOVB has just stored, at odd addresses too:    *)
(* what can be written can be read.  Where the address is one that stores  *)
(* take for a register, or is the PSW's or a device's, no word of memory   *)
(* has changed.                                                            *)
(***************************************************************************)
StoresAreLoaded ==
  [][Completes /\ now.name = "MOV" /\ ModeOf(now.dst) # 0 =>
       LET a == Address(now)
       IN  IF a \in Aliases \/ ~InCore(Loading(WordOf(a), currentmode(c), c).val)
           THEN Differ = {}
           ELSE ReadMemory(now.len, a, c').val = SS(now.len, now.src, fetched).val]_vars

(***************************************************************************)
(* RTS undoes JSR: all registers, the linkage register and SP among them,  *)
(* are as they were before the push, for every way to name the subroutine  *)
(* and wherever the stack is in memory.                                    *)
(***************************************************************************)
CallsReturn ==
  [][Completes /\ now.name = "JSR" /\ now.reg # 6 =>
       LET d == DA(2, now.dst, fetched)
       IN  IsMemory(Cut(2, d.R[6] - 2), currentmode(c), c) => RTS(now.reg, c').R = d.R]_vars

\* R6 and the save slots seen as one stack pointer for each mode.
Stacks(d) == [d.sp EXCEPT ![currentmode(d)] = d.R[6]]

\* The state a trap is taken from: after the fetch if an instruction asks.
Trapped == IF c.trap = 0 THEN fetched ELSE c

\* A trap goes to a handler in kernel mode.
Traps ==
  /\ c.trap # 0 \/ now.name \in DOMAIN TrapVectors
  /\ Live(c') /\ currentmode(c') = 0

\* The kernel's stack has room in memory for two words.
StackHolds ==
  LET k == Stacks(Trapped)[0]
      a == Cut(2, k - 2)
      b == Cut(2, k - 4)
  IN  /\ IsMemory(a, 0, c') /\ IsMemory(b, 0, c')
      /\ Loading(a, 0, c').val # Loading(b, 0, c').val

(***************************************************************************)
(* RTT undoes a trap: registers, PSW and the stack pointers of all modes   *)
(* come back, when the trap went to a handler in kernel mode.              *)
(***************************************************************************)
TrapsReturn ==
  [][Traps /\ StackHolds =>
       LET d == RTT(c')
       IN  /\ Live(d) /\ d.R = Trapped.R /\ Stacks(d) = Stacks(Trapped)
           /\ d.psw = c.psw - 256 * ((c.psw \div 256) % 8)]_vars

(***************************************************************************)
(* A trap reaches its handler, also when the kernel's stack pointer is in  *)
(* a page that cannot be accessed: trapat() faults and runs again, each    *)
(* time with R6 further down.                                              *)
(***************************************************************************)
TrapIsTaken == c.trap # 0 ~> c.trap = 0

=============================================================================
