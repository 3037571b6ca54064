-------------------------------- MODULE KB11 --------------------------------
(***************************************************************************)
(* One instruction of the KB11 from its fetch to its end (KB11::step() and *)
(* what it calls, kb11.cc and kb11.h), and trapat().                       *)
(*                                                                         *)
(* An instruction is the composition, in the order of the code, of the     *)
(* accesses of module Operand, any of which may end it, and of the         *)
(* computation of module ALU, which sees the destination's value and XOR's *)
(* source as two more registers.  i is the instruction, o what Operation   *)
(* decodes it to, c the state of the processor.                            *)
(***************************************************************************)
EXTENDS Operand, Decoder

-----------------------------------------------------------------------------
(* The condition codes in the PSW. *)

CodeBit == [N |-> 8, Z |-> 4, V |-> 2, C |-> 1]

Codes(c) == {f \in Flags : (c.psw \div CodeBit[f]) % 2 = 1}

\* The word with the bits of the codes cc.
CodeWord(cc) ==
  LET bit(f) == IF f \in cc THEN CodeBit[f] ELSE 0
  IN  bit("N") + bit("Z") + bit("V") + bit("C")

SetCodes(cc, c) ==
  IF Live(c) THEN [c EXCEPT !.psw = @ - (@ % 16) + CodeWord(cc)] ELSE c

\* setNZ<2>(v)
SetNZ(v, c) == SetCodes(NZ(2, v) \cup (Codes(c) \cap {"C"}), c)

-----------------------------------------------------------------------------
(* Instructions that compute a destination. *)

Dst == 8
Src == 9

\* The result in register Dst, and the codes.
Computed(o, s, a) ==
  CASE o.name = "MOV" -> Put(2, Dst, s, a, NZKeepC(o.len, s, a))
    [] o.name = "CMP" -> CMP(o.len, s, Dst, a)
    [] o.name = "BIT" -> BIT(o.len, s, Dst, a)
    [] o.name = "BIC" -> BIC(o.len, s, Dst, a)
    [] o.name = "BIS" -> BIS(o.len, s, Dst, a)
    [] o.name = "ADD" -> ADD(s, Dst, a)
    [] o.name = "SUB" -> SUB(s, Dst, a)
    [] o.name = "XOR" -> XOR(Src, Dst, a)
    [] o.name = "CLR" -> CLR(o.len, Dst, a)
    [] o.name = "COM" -> COM(o.len, Dst, a)
    [] o.name = "INC" -> INC(o.len, Dst, a)
    [] o.name = "DEC" -> DEC(o.len, Dst, a)
    [] o.name = "NEG" -> NEG(o.len, Dst, a)
    [] o.name = "ADC" -> ADC(o.len, Dst, a)
    [] o.name = "SBC" -> SBC(o.len, Dst, a)
    [] o.name = "TST" -> TST(o.len, Dst, a)
    [] o.name = "ROR" -> ROR(o.len, Dst, a)
    [] o.name = "ROL" -> ROL(o.len, Dst, a)
    [] o.name = "ASR" -> ASR(o.len, Dst, a)
    [] o.name = "ASL" -> ASL(o.len, Dst, a)
    [] o.name = "SWAB" -> SWAB(Dst, a)
    [] o.name = "SXT" -> SXT(Dst, a)

\* ADC and SBC write only when C is set.
Writes(o, cc) ==
  /\ o.name \notin {"CMP", "BIT", "TST"}
  /\ o.name \in {"ADC", "SBC"} => "C" \in cc

\* The codes set after the write: those it keeps are read again from the PSW,
\* which the write may have been to.
Kept(o) ==
  CASE o.name \in {"MOV", "BIT", "BIC", "BIS", "XOR", "INC", "DEC"} -> {"C"}
    [] o.name = "SXT" -> {"N", "C"}
    [] OTHER -> {}

CodesAfter(o, cc, c) ==
  IF o.name = "SUB" THEN cc \cup (Codes(c) \cap {"C"})
  ELSE (cc \ Kept(o)) \cup (Codes(c) \cap Kept(o))

\* Three instructions set the codes before they write, and SUB clears them.
SetBefore == {"ROL", "ASR", "ASL"}

Settled(o, cc, c) ==
  IF o.name \in SetBefore THEN c ELSE SetCodes(CodesAfter(o, cc, c), c)

Stores(o, new, at, c) ==
  LET b == IF o.name \in SetBefore THEN SetCodes(new.cc, c)
           ELSE IF o.name = "SUB" THEN SetCodes({}, c) ELSE c
  IN  Settled(o, new.cc,
        IF Writes(o, Codes(c)) THEN WriteAt(o.len, at, new.R[Dst], b) ELSE b)

\* To a register MOVB writes a word.
ExtendByte(s, r, c) ==
  LET new == MOV(1, s, r, [R |-> c.R, cc |-> Codes(c)])
  IN  SetCodes(new.cc, SetR(r, new.R[r], c))

\* c holds the destination's value.
Compute(o, s, x, at, c) ==
  IF Live(c)
  THEN Stores(o, Computed(o, s, [R |-> [k \in {Dst, Src} |-> IF k = Dst THEN c.val ELSE x],
                                 cc |-> Codes(c)]), at, c)
  ELSE c

\* c holds the destination's address.
AtAddress(o, s, x, c) ==
  Compute(o, s, x, c.val, IF o.name \in {"MOV", "CLR", "SXT"} THEN Valued(0, c)
                          ELSE ReadAt(o.len, c.val, c))

\* s is the source, x XOR's.
Destination(o, i, s, x, c) ==
  CASE ~Live(c) -> c
    [] Live(c) /\ o = Op("MOV", 1) /\ ModeOf(i % 64) = 0 -> ExtendByte(s, i % 8, c)
    [] OTHER -> AtAddress(o, s, x, DA(o.len, i % 64, c))

\* c holds the source.
ToDestination(o, i, c) == Destination(o, i, c.val, 0, c)

DoubleOperand(o, i, c) == ToDestination(o, i, SS(o.len, (i \div 64) % 64, c))

SingleOperand(o, i, c) == Destination(o, i, 0, c.R[RegOf(i \div 64)], c)

\* What MUL, DIV, ASH and ASHC make of the registers, and which they write.
Extension(n, v, r, u, old) ==
  CASE n = "MUL" -> MUL(v, r, old)
    [] n = "DIV" -> DIV(v, r, old)
    [] n = "ASH" -> ASH(v, r, old, u)
    [] n = "ASHC" -> ASHC(v, r, old, u)

Extends(n, r, cc) ==
  CASE n = "ASH" -> {r}
    [] n = "DIV" /\ cc \in {{"C"}, {"V"}} -> {}
    [] OTHER -> {r, Beside(r)}

Extend(n, r, new, c) ==
  IF Live(c)
  THEN SetCodes(new.cc, [c EXCEPT !.R = [k \in 0 .. 7 |->
                           IF k \in Extends(n, r, new.cc) THEN new.R[k] ELSE @[k]]])
  ELSE c

\* The register is read before the operand moves it, and written after.
WithSource(n, r, u, old, c) == Extend(n, r, Extension(n, c.val, r, u, old), c)

Source(c) == ReadAt(2, c.val, c)

ExtendedArithmetic(o, i, u, c) ==
  WithSource(o.name, RegOf(i \div 64), u, [R |-> c.R, cc |-> Codes(c)],
             Source(DA(2, i % 64, c)))

-----------------------------------------------------------------------------
(* Jumps. *)

\* The low byte counts words, with its sign.
branch(i, c) == AddR(7, 2 * Signed(1, i % 256), c)

Taken(name, cc) ==
  CASE name = "BR" -> TRUE
    [] name \in DOMAIN SignedBranches({}) -> SignedBranches(cc)[name]
    [] OTHER -> FlagBranches(cc)[name]

SOBTaken(i, r, c) == IF c.R[r] = 0 THEN c ELSE AddR(7, -2 * (i % 64), c)

SOB(i, c) == SOBTaken(i, RegOf(i \div 64), AddR(RegOf(i \div 64), -1, c))

JMP(i, c) == IF ModeOf(i % 64) = 0 THEN Die(c) ELSE Into(7, DA(2, i % 64, c))

Link(r, c) == SetR(r, c.R[7], c)

\* Faulty variant: the register is pushed once it holds the return address.
CallPushesLate(r, to, c) == SetR(7, to, pushR(r, Link(r, c)))

\* The subroutine is at to.
Call(r, to, c) == SetR(7, to, Link(r, pushR(r, c)))

CallAt(r, c) == Call(r, c.val, c)

JSR(i, c) ==
  IF ModeOf(i % 64) = 0 THEN Die(c) ELSE CallAt(RegOf(i \div 64), DA(2, i % 64, c))

RTS(i, c) == Into(i % 8, pop(SetR(7, c.R[i % 8], c)))

MARK(i, c) == Into(5, pop(SetR(7, c.R[5], SetR(6, c.R[7] + 2 * (i % 64), c))))

-----------------------------------------------------------------------------
(* Modes and traps. *)

OwnStack(c) == currentmode(c) = previousmode(c)

\* R6 of the previous mode is in its slot.
InSlot(i, c) == i % 64 = 6 /\ ~OwnStack(c)

\* The memory of the previous mode is reached past read16() and write16().
Previous(wr, c) == Decode(c.val, previousmode(c), wr, c)
BusReadAt(c) == BusRead(c.val, c)
BusWriteAt(v, c) == BusWrite(c.val, v, c)

PushValue(c) == SetNZ(c.val, push(c.val, c))

MFPI(i, c) ==
  PushValue(IF ModeOf(i % 64) # 0 THEN BusReadAt(Previous(FALSE, DA(2, i % 64, c)))
            ELSE Valued(IF InSlot(i, c) THEN c.sp[previousmode(c)] ELSE c.R[i % 8], c))

PopTo(i, c) ==
  CASE ~Live(c) -> c
    [] Live(c) /\ ModeOf(i % 64) # 0 -> BusWriteAt(c.val, Previous(TRUE, DA(2, i % 64, c)))
    [] Live(c) /\ InSlot(i, c) -> [c EXCEPT !.sp[previousmode(c)] = c.val]
    [] OTHER -> Into(i % 8, c)

PopValue(i, c) == SetNZ(c.val, PopTo(i, c))

MTPI(i, c) == PopValue(i, pop(c))

\* Bits 8 to 10 are cleared; what follows for user mode changes nothing.
ReturnPSW(c) == writePSW(c.val - 256 * ((c.val \div 256) % 8), c)

RTT(c) == ReturnPSW(pop(Into(7, pop(c))))

SPL(i, c) == writePSW(c.psw - (c.psw % 2048) + 32 * (i % 8) + (c.psw % 32), c)
CLRCC(i, c) == writePSW(And(c.psw, 15 - (i % 16)), c)
SETCC(i, c) == writePSW(Or(c.psw, i % 16), c)

kernelmode(c) == writePSW((c.psw % \o10000) + \o10000 * currentmode(c), c)

TrapPSW(c) == writePSW(Or(c.val, \o10000 * previousmode(c)), c)

Handler(vec, c) == TrapPSW(Read16(vec + 2, Into(7, Read16(vec, c))))

pushPSW(c) == push(c.psw, c)

\* Faulty variant: the PSW is pushed after kernelmode() has changed it.
trapatSavesLate(vec, c) == Handler(vec, pushR(7, pushPSW(kernelmode(c))))

\* trapat(): the vectors are all even.
trapat(vec, c) == Handler(vec, pushR(7, push(c.psw, kernelmode(c))))

TrapVectors ==
  [BPT |-> \o14, IOT |-> \o20, MFPT |-> \o10, EMT |-> \o30, TRAP |-> \o34,
   invalid |-> \o10]

\* The entry RESET leaves in the log: unibus.reset().
BusReset == [wr |-> TRUE, at |-> 0, v |-> 0]

RESET(c) ==
  IF currentmode(c) = 0 THEN [c EXCEPT !.log = Append(@, BusReset)] ELSE c

-----------------------------------------------------------------------------

\* The switch of step().
Perform(i, u, c) ==
  LET o == Operation(i)
      n == o.name
  IN  CASE n \in {Doubles[k] : k \in 1 .. 5} \cup {"ADD", "SUB"} -> DoubleOperand(o, i, c)
        [] n \in {Singles[k] : k \in 1 .. 12} \cup {"SWAB", "SXT", "XOR"} -> SingleOperand(o, i, c)
        [] n \in {"MUL", "DIV", "ASH", "ASHC"} -> ExtendedArithmetic(o, i, u, c)
        [] n \in {Branches[k] : k \in 1 .. 7} \cup {ByteBranches[k] : k \in 1 .. 8} ->
             IF Taken(n, Codes(c)) THEN branch(i, c) ELSE c
        [] n = "SOB" -> SOB(i, c)
        [] n = "JMP" -> JMP(i, c)
        [] n = "JSR" -> JSR(i, c)
        [] n = "RTS" -> RTS(i, c)
        [] n = "MARK" -> MARK(i, c)
        [] n = "MFPI" -> MFPI(i, c)
        [] n = "MTPI" -> MTPI(i, c)
        [] n \in {"RTI", "RTT"} -> RTT(c)
        [] n = "SPL" -> SPL(i, c)
        [] n = "CLRCC" -> CLRCC(i, c)
        [] n = "SETCC" -> SETCC(i, c)
        [] n \in DOMAIN TrapVectors -> trapat(TrapVectors[n], c)
        [] n = "RESET" -> RESET(c)
        [] n = "HALT" -> Die(c)
        [] n \in {"WAIT", "SETD"} -> c

\* KB11::step(): what an instruction of a faulting fetch would do is not done.
Started(u, c) == IF Live(c) THEN Perform(c.val, u, c) ELSE c

step(u, c) == Started(u, fetch16([c EXCEPT !.pc = c.R[7], !.log = <<>>]))

=============================================================================
