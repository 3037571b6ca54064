------------------------------ MODULE Operand ------------------------------
(***************************************************************************)
(* How an instruction of the KB11 reaches its operands: the bus            *)
(* (unibus.cc), the processor's accesses to it (read16 and write16,        *)
(* kb11.cc), the addressing modes and the register aliases (kb11.h).       *)
(*                                                                         *)
(* Every operator takes the state c of the processor and gives the state   *)
(* after.  trap() leaves an instruction by longjmp and abort() ends the    *)
(* program: from then on an operator changes nothing.  A value that is     *)
(* read is left in c.val.  The fields of c:                                *)
(*   R, psw, sp   R, PSW and stackpointer;                                 *)
(*   pc           PC, the address of the instruction;                      *)
(*   core         the words of memory that are not 0;                      *)
(*   mmu          the KT11: whether it is on, and the pages of each mode,  *)
(*                each [base, r, w] (a length error is an error as any);   *)
(*   io           what the registers of devices hold;                      *)
(*   log          the accesses to them, in order;                          *)
(*   val          the value last read;                                     *)
(*   trap, dead   the vector longjmp carries, or 0; abort() was called.    *)
(***************************************************************************)
EXTENDS ALU, Sequences

Live(c) == c.trap = 0 /\ ~c.dead

Valued(v, c) == [c EXCEPT !.val = v]

INTBUS == 4
INTFAULT == \o250

Trap(vec, c) == [c EXCEPT !.trap = vec]
Die(c) == [c EXCEPT !.dead = TRUE]

currentmode(c) == c.psw \div \o40000
previousmode(c) == (c.psw \div \o10000) % 4

-----------------------------------------------------------------------------
(* The bus. *)

Odd(a) == a % 2 = 1

\* a & ~1
WordOf(a) == a - (a % 2)

RK11s(wr) ==
  {\o777404, \o777406, \o777412} \cup
    (IF wr THEN {\o777410} ELSE {\o777400, \o777402})

\* Who answers at a.  "abort" is a device that knows no such register, and
\* "none" an address where there is no device.
RK11Answers(a, wr) == IF a \in RK11s(wr) THEN "rk11" ELSE "abort"

AnswersAt7775(a) ==
  IF a \in {\o777514, \o777516} THEN "lp11"
  ELSE IF a = \o777546 THEN "kw11"
  ELSE IF a \in {\o777572, \o777574, \o777576} THEN "mmu"
  ELSE IF a \in {\o777560, \o777562, \o777564, \o777566} THEN "kl11"
  ELSE "abort"

\* a & ~077
BlockOf(a) == a - (a % 64)

InCore(a) == a < \o760000

HasDevice(a) == BlockOf(a) \in {\o777400, \o777500, \o772200, \o772300, \o777600}

DeviceAt(a, wr) ==
  IF BlockOf(a) = \o777400 THEN RK11Answers(a, wr)
  ELSE IF BlockOf(a) = \o777500 THEN AnswersAt7775(a)
  ELSE "mmu"

Answers(a, wr) ==
  IF InCore(a) THEN "core" ELSE IF HasDevice(a) THEN DeviceAt(a, wr) ELSE "none"

At(f, a) == IF a \in DOMAIN f THEN f[a] ELSE 0

\* A device acts on the access later.
Logged(wr, a, v, c) == [c EXCEPT !.log = Append(@, [wr |-> wr, at |-> a, v |-> v])]

\* UNIBUS::read16(): of an odd address it asserts.
BusRead(a, c) ==
  LET who == Answers(a, FALSE)
  IN  CASE ~Live(c) -> c
        [] Live(c) /\ (Odd(a) \/ who = "abort") -> Die(c)
        [] Live(c) /\ ~Odd(a) /\ who = "none" -> Trap(INTBUS, c)
        [] Live(c) /\ ~Odd(a) /\ who = "core" -> Valued(At(c.core, a), c)
        [] OTHER -> Logged(FALSE, a, 0, Valued(At(c.io, a), c))

Stored(a, v, f) == [b \in DOMAIN f \cup {a} |-> IF b = a THEN v ELSE f[b]]

StoreCore(a, v, c) == [c EXCEPT !.core = Stored(a, v, @)]

\* UNIBUS::write16(): to an odd address it traps.
BusWrite(a, v, c) ==
  LET who == Answers(a, TRUE)
  IN  CASE ~Live(c) -> c
        [] Live(c) /\ (Odd(a) \/ who = "none") -> Trap(INTBUS, c)
        [] Live(c) /\ ~Odd(a) /\ who = "abort" -> Die(c)
        [] Live(c) /\ ~Odd(a) /\ who = "core" -> StoreCore(a, v, c)
        [] OTHER -> Logged(TRUE, a, v, c)

-----------------------------------------------------------------------------
(* The processor's accesses. *)

\* KT11::decode(), its tests: write() holds of a page that is only readable.
Denied(p, wr) == ~p.r \/ (wr /\ ~(p.r \/ p.w))

PageOf(va) == va \div \o20000

\* Bus addresses with the unit off, and in page p.
Direct(va) == IF va > \o167777 THEN va + \o600000 ELSE va
Relocated(p, va) == 64 * p.base + (va % \o20000)

\* KT11::decode(): c.val is the bus address.
Decode(va, mode, wr, c) ==
  LET p == c.mmu.pages[mode][PageOf(va)]
  IN  CASE ~Live(c) -> c
        [] Live(c) /\ ~c.mmu.on -> Valued(Direct(va), c)
        [] Live(c) /\ c.mmu.on /\ Denied(p, wr) -> Trap(INTFAULT, c)
        [] OTHER -> Valued(Relocated(p, va), c)

PSWAddress == \o777776
StackLimit == \o777774
Switches == \o777570   \* and, when it is written, the display

\* The word at a bus address that Decode gave.
ReadDecoded(d) ==
  CASE ~Live(d) -> d
    [] Live(d) /\ d.val = PSWAddress -> Valued(d.psw, d)
    [] Live(d) /\ d.val \in {StackLimit, Switches} -> Valued(At(d.io, d.val), d)
    [] OTHER -> BusRead(d.val, d)

\* KB11::read16()
Read16(va, c) == ReadDecoded(Decode(va, currentmode(c), FALSE, c))

\* stacklimit = v
SetStackLimit(v, c) == [c EXCEPT !.io = Stored(StackLimit, v, @)]

\* writePSW(): R6 moves between the slots of the two modes.
writePSW(w, c) ==
  LET sp == [c.sp EXCEPT ![currentmode(c)] = c.R[6]]
  IN  IF Live(c)
      THEN [c EXCEPT !.sp = sp, !.psw = w, !.R[6] = sp[w \div \o40000]]
      ELSE c

\* Before a write to 0140000 the state is printed, which reads the word at PC
\* in the current mode, and may fault.
Watched == \o140000

WriteDecoded(a, v, d) ==
  CASE ~Live(d) -> d
    [] Live(d) /\ a = PSWAddress -> writePSW(v, d)
    [] Live(d) /\ a = StackLimit -> SetStackLimit(v, d)
    [] Live(d) /\ a = Switches -> d
    [] OTHER -> BusWrite(a, v, d)

Watch(d) == IF Live(d) /\ d.val = Watched THEN Read16(d.pc, d) ELSE d

WriteMapped(v, d) == WriteDecoded(d.val, v, Watch(d))

\* KB11::write16()
Write16(va, v, c) == WriteMapped(v, Decode(va, currentmode(c), TRUE, c))

-----------------------------------------------------------------------------
(* Registers and the stack. *)

SetR(r, v, c) == IF Live(c) THEN [c EXCEPT !.R[r] = Cut(2, v)] ELSE c

\* Faulty variant: a register grows past 16 bits.
AddRUncut(r, n, c) == IF Live(c) THEN [c EXCEPT !.R[r] = @ + n] ELSE c

AddR(r, n, c) == SetR(r, c.R[r] + n, c)

\* The value read goes to register r.
Into(r, c) == SetR(r, c.val, c)

fetch16(c) == AddR(7, 2, Read16(c.R[7], c))

\* Faulty variant: R6 moves once the word is written.
pushMovesLate(v, c) == AddR(6, -2, Write16(Cut(2, c.R[6] - 2), v, c))

Top(v, c) == Write16(c.R[6], v, c)

push(v, c) == Top(v, AddR(6, -2, c))

pushR(r, c) == push(c.R[r], c)

pop(c) == AddR(6, 2, Read16(c.R[6], c))

-----------------------------------------------------------------------------
(* Operands: l is their length, s their six bits of the instruction. *)

ModeOf(s) == s \div 8
RegOf(s) == s % 8

\* Faulty variant: SP and PC move by one in byte instructions.
MovesByByte(l, r) == l

\* What (R)+ and -(R) move a register by.
MovesBy(l, r) == IF r >= 6 THEN 2 ELSE l

\* What is in register r, and that plus the word read, as an address; and the
\* address at an address.
Pointer(r, c) == Valued(c.R[r], c)
Indexed(r, c) == Valued(Cut(2, c.val + c.R[r]), c)
Deferred(c) == Read16(c.val, c)

\* fetchOperand<l>(): c.val is the address.  DA and SS ask for no register.
fetchOperand(l, s, c) ==
  LET r == RegOf(s)
      by == MovesBy(l, r)
  IN  CASE ModeOf(s) = 1 -> Pointer(r, c)
        [] ModeOf(s) = 2 -> Valued(c.R[r], AddR(r, by, c))
        [] ModeOf(s) = 3 -> Read16(c.R[r], AddR(r, 2, c))
        [] ModeOf(s) = 4 -> Pointer(r, AddR(r, -by, c))
        [] ModeOf(s) = 5 -> Deferred(Pointer(r, AddR(r, -2, c)))
        [] ModeOf(s) = 6 -> Indexed(r, fetch16(c))
        [] ModeOf(s) = 7 -> Deferred(Indexed(r, fetch16(c)))

\* A register is an operand at an address of its own.
AliasOf(r) == \o170000 + r
Aliases == {AliasOf(r) : r \in 0 .. 7}

\* DA<l>(): c.val is the address of the destination.
DA(l, s, c) ==
  IF ModeOf(s) = 0 THEN Valued(AliasOf(RegOf(s)), c) ELSE fetchOperand(l, s, c)

\* Faulty variant: the bytes of a word are swapped.
ByteAtSwapped(a, w) == IF ~Odd(a) THEN w \div Values(1) ELSE Cut(1, w)

\* The byte at address a of the word w, and w with v for that byte.
ByteAt(a, w) == IF Odd(a) THEN w \div Values(1) ELSE Cut(1, w)

\* Faulty variant: the bytes of a word are swapped.
WithByteSwapped(a, w, v) ==
  IF ~Odd(a) THEN Cut(1, w) + Values(1) * Cut(1, v)
  ELSE w - Cut(1, w) + Cut(1, v)

WithByte(a, w, v) ==
  IF Odd(a) THEN Cut(1, w) + Values(1) * Cut(1, v)
  ELSE w - Cut(1, w) + Cut(1, v)

ByteOf(a, c) == Valued(ByteAt(a, c.val), c)

\* A byte or word of memory.
ReadMemory(l, a, c) ==
  IF l = 2 THEN Read16(a, c) ELSE ByteOf(a, Read16(WordOf(a), c))

\* read<l>(): c.val is the value at an address that DA gave.
ReadAt(l, a, c) ==
  IF a \in Aliases THEN Valued(Cut(l, c.R[a % 8]), c) ELSE ReadMemory(l, a, c)

Fetched(l, c) == ReadMemory(l, c.val, c)

\* SS<l>(): c.val is the source, whose address is never taken for a register.
SS(l, s, c) ==
  IF ModeOf(s) = 0 THEN Valued(Cut(l, c.R[RegOf(s)]), c)
  ELSE Fetched(l, fetchOperand(l, s, c))

\* The word read goes back with v for the byte at a.
ReplaceByte(a, v, c) == Write16(WordOf(a), WithByte(a, c.val, v), c)

\* write<l>()
WriteAt(l, a, v, c) ==
  CASE a \in Aliases -> SetR(a % 8, Written(l, c.R[a % 8], v), c)
    [] a \notin Aliases /\ l = 2 -> Write16(a, v, c)
    [] OTHER -> ReplaceByte(a, v, Read16(WordOf(a), c))

=============================================================================
