--------------------------- MODULE Processor_proofs ---------------------------
(***************************************************************************)
(* What accesses to operands leave behind when they fault, for every       *)
(* state, page table and address; that the state stays one of words and    *)
(* vectors whatever the processor executes; that an instruction that       *)
(* faults can be restarted; what one that runs to its end may have changed *)
(* of the registers and of memory; that a store is found where it was      *)
(* made; that calls and traps return; and that the disassembler decodes    *)
(* as the processor does.                                                  *)
(***************************************************************************)
EXTENDS Processor, ALU_proofs, FiniteSetTheorems, SequenceTheorems

\* A record with the fields that module Operand names, and words in R.
HasParts(b) ==
  /\ b = [f \in {"R", "psw", "sp", "pc", "core", "mmu", "io", "log", "val", "trap",
                 "dead"} |-> b[f]]
  /\ b.R \in [0 .. 7 -> Word]

\* No register and no word of memory differs, nor the PSW and the page table.
Keeps(b, d) ==
  /\ HasParts(d)
  /\ d.R = b.R /\ d.psw = b.psw /\ d.sp = b.sp /\ d.core = b.core /\ d.mmu = b.mmu
  /\ d.pc = b.pc

LEMMA ValuedKeeps ==
  ASSUME NEW b, HasParts(b), NEW v
  PROVE  Keeps(b, Valued(v, b)) /\ Valued(v, b).val = v
         /\ Valued(v, b).trap = b.trap /\ Valued(v, b).dead = b.dead
BY DEF HasParts, Keeps, Valued

LEMMA TrapKeeps ==
  ASSUME NEW b, HasParts(b), NEW vec
  PROVE  Keeps(b, Trap(vec, b)) /\ Trap(vec, b).trap = vec /\ Trap(vec, b).dead = b.dead
BY DEF HasParts, Keeps, Trap

LEMMA DieKeeps ==
  ASSUME NEW b, HasParts(b)
  PROVE  Keeps(b, Die(b)) /\ Die(b).trap = b.trap /\ Die(b).dead
BY DEF HasParts, Keeps, Die

LEMMA DecodeKeeps ==
  ASSUME NEW b, HasParts(b), NEW va, NEW mode, NEW wr
  PROVE  Keeps(b, Decode(va, mode, wr, b))
<1> DEFINE p == b.mmu.pages[mode][PageOf(va)]
<1>1. CASE ~Live(b)
  <2>1. Decode(va, mode, wr, b) = b
    BY <1>1, Zenon DEF Decode
  <2> QED
    BY <2>1 DEF Keeps
<1>2. CASE Live(b) /\ ~b.mmu.on
  <2>1. Decode(va, mode, wr, b) = Valued(Direct(va), b)
    BY <1>2, Zenon DEF Decode
  <2> QED
    BY <2>1, ValuedKeeps
<1>3. CASE Live(b) /\ b.mmu.on /\ Denied(p, wr)
  <2>1. Decode(va, mode, wr, b) = Trap(INTFAULT, b)
    BY <1>3, Zenon DEF Decode
  <2> QED
    BY <2>1, TrapKeeps
<1>4. CASE Live(b) /\ b.mmu.on /\ ~Denied(p, wr)
  <2>1. Decode(va, mode, wr, b) = Valued(Relocated(p, va), b)
    BY <1>4, Zenon DEF Decode
  <2> QED
    BY <2>1, ValuedKeeps
<1> QED
  BY <1>1, <1>2, <1>3, <1>4

LEMMA LoggedKeeps ==
  ASSUME NEW b, HasParts(b), NEW wr, NEW a, NEW v
  PROVE  Keeps(b, Logged(wr, a, v, b)) /\ Logged(wr, a, v, b).trap = b.trap
         /\ Logged(wr, a, v, b).dead = b.dead
BY DEF HasParts, Keeps, Logged

LEMMA KeptTrans ==
  ASSUME NEW b, NEW d, NEW e, Keeps(b, d), Keeps(d, e)
  PROVE  Keeps(b, e)
BY DEF Keeps

LEMMA BusReadKeeps ==
  ASSUME NEW b, HasParts(b), NEW a
  PROVE  Keeps(b, BusRead(a, b))
<1> DEFINE who == Answers(a, FALSE)
<1>1. CASE ~Live(b)
  <2>1. BusRead(a, b) = b
    BY <1>1, Zenon DEF BusRead
  <2> QED
    BY <2>1 DEF Keeps
<1>2. CASE Live(b) /\ (Odd(a) \/ who = "abort")
  <2>1. ~(~Odd(a) /\ who # "abort")
    BY <1>2
  <2>2. BusRead(a, b) = Die(b)
    BY <1>2, <2>1, Zenon DEF BusRead
  <2> QED
    BY <2>2, DieKeeps
<1>3. CASE Live(b) /\ ~Odd(a) /\ who = "none"
  <2>1. BusRead(a, b) = Trap(INTBUS, b)
    BY <1>3, Zenon DEF BusRead
  <2> QED
    BY <2>1, TrapKeeps
<1>4. CASE Live(b) /\ ~Odd(a) /\ who = "core"
  <2>1. BusRead(a, b) = Valued(At(b.core, a), b)
    BY <1>4, Zenon DEF BusRead
  <2> QED
    BY <2>1, ValuedKeeps
<1>5. CASE Live(b) /\ ~Odd(a) /\ who \notin {"abort", "none", "core"}
  <2> DEFINE d == Valued(At(b.io, a), b)
  <2>1. BusRead(a, b) = Logged(FALSE, a, 0, d)
    BY <1>5, Zenon DEF BusRead
  <2>2. Keeps(b, d)
    BY ValuedKeeps
  <2>3. HasParts(d)
    BY <2>2 DEF Keeps
  <2> HIDE DEF d
  <2>4. Keeps(d, Logged(FALSE, a, 0, d))
    BY <2>3, LoggedKeeps
  <2> QED
    BY <2>1, <2>2, <2>4, KeptTrans
<1> QED
  BY <1>1, <1>2, <1>3, <1>4, <1>5

LEMMA Registers770 ==
  PSWAddress \notin {StackLimit, Switches} /\ StackLimit # Switches
BY DEF PSWAddress, StackLimit, Switches

LEMMA ReadDecodedKeeps ==
  ASSUME NEW d, HasParts(d)
  PROVE  Keeps(d, ReadDecoded(d))
<1>1. CASE ~Live(d)
  <2>1. ReadDecoded(d) = d
    BY <1>1, Zenon DEF ReadDecoded
  <2> QED
    BY <2>1 DEF Keeps
<1>2. CASE Live(d) /\ d.val = PSWAddress
  <2>1. ReadDecoded(d) = Valued(d.psw, d)
    BY <1>2, Registers770, Zenon DEF ReadDecoded
  <2> QED
    BY <2>1, ValuedKeeps
<1>3. CASE Live(d) /\ d.val # PSWAddress /\ d.val \in {StackLimit, Switches}
  <2>1. \/ ReadDecoded(d) = Valued(d.psw, d)
        \/ ReadDecoded(d) = Valued(At(d.io, d.val), d)
    BY <1>3, Zenon DEF ReadDecoded
  <2> QED
    BY <2>1, ValuedKeeps
<1>4. CASE Live(d) /\ d.val # PSWAddress /\ d.val \notin {StackLimit, Switches}
  <2>1. ReadDecoded(d) = BusRead(d.val, d)
    BY <1>4, Zenon DEF ReadDecoded
  <2> QED
    BY <2>1, BusReadKeeps
<1> QED
  BY <1>1, <1>2, <1>3, <1>4

LEMMA Read16Keeps ==
  ASSUME NEW b, HasParts(b), NEW va
  PROVE  Keeps(b, Read16(va, b)) /\ HasParts(Read16(va, b))
<1> DEFINE d == Decode(va, currentmode(b), FALSE, b)
<1>1. Keeps(b, d)
  BY DecodeKeeps
<1>2. HasParts(d)
  BY <1>1 DEF Keeps
<1>3. Read16(va, b) = ReadDecoded(d)
  BY Zenon DEF Read16
<1> HIDE DEF d
<1>4. Keeps(d, ReadDecoded(d))
  BY <1>2, ReadDecodedKeeps
<1>5. Keeps(b, Read16(va, b))
  BY <1>1, <1>3, <1>4, KeptTrans
<1> QED
  BY <1>5 DEF Keeps
-----------------------------------------------------------------------------
(* Writes that fault. *)

LEMMA BusWriteFaults ==
  ASSUME NEW b, HasParts(b), NEW a, NEW v, ~Live(BusWrite(a, v, b))
  PROVE  Keeps(b, BusWrite(a, v, b))
<1> DEFINE who == Answers(a, TRUE)
<1>1. CASE ~Live(b)
  <2>1. BusWrite(a, v, b) = b
    BY <1>1, Zenon DEF BusWrite
  <2> QED
    BY <2>1 DEF Keeps
<1>2. CASE Live(b) /\ (Odd(a) \/ who = "none")
  <2>1. BusWrite(a, v, b) = Trap(INTBUS, b)
    BY <1>2, Zenon DEF BusWrite
  <2> QED
    BY <2>1, TrapKeeps
<1>3. CASE Live(b) /\ ~Odd(a) /\ who = "abort"
  <2>1. BusWrite(a, v, b) = Die(b)
    BY <1>3, Zenon DEF BusWrite
  <2> QED
    BY <2>1, DieKeeps
<1>4. CASE Live(b) /\ ~Odd(a) /\ who = "core"
  <2>1. BusWrite(a, v, b) = StoreCore(a, v, b)
    BY <1>4, Zenon DEF BusWrite
  <2>2. Live(StoreCore(a, v, b))
    BY <1>4 DEF Live, HasParts, StoreCore
  <2> QED
    BY <2>1, <2>2
<1>5. CASE Live(b) /\ ~Odd(a) /\ who \notin {"abort", "none", "core"}
  <2>1. BusWrite(a, v, b) = Logged(TRUE, a, v, b)
    BY <1>5, Zenon DEF BusWrite
  <2> QED
    BY <2>1, LoggedKeeps
<1> QED
  BY <1>1, <1>2, <1>3, <1>4, <1>5

LEMMA WritePSWLives ==
  ASSUME NEW b, HasParts(b), Live(b), NEW w
  PROVE  Live(writePSW(w, b))
BY DEF HasParts, Live, writePSW

LEMMA WriteDecodedFaults ==
  ASSUME NEW d, HasParts(d), NEW a, NEW v, ~Live(WriteDecoded(a, v, d))
  PROVE  Keeps(d, WriteDecoded(a, v, d))
<1>1. CASE ~Live(d)
  <2>1. WriteDecoded(a, v, d) = d
    BY <1>1, Zenon DEF WriteDecoded
  <2> QED
    BY <2>1 DEF Keeps
<1>2. CASE Live(d) /\ a \in {PSWAddress, StackLimit, Switches}
  <2>1. WriteDecoded(a, v, d) \in {writePSW(v, d), SetStackLimit(v, d), d}
    BY <1>2, Zenon DEF WriteDecoded
  <2>2. Live(SetStackLimit(v, d))
    BY <1>2 DEF Live, HasParts, SetStackLimit
  <2> QED
    BY <1>2, <2>1, <2>2, WritePSWLives
<1>3. CASE Live(d) /\ a \notin {PSWAddress, StackLimit, Switches}
  <2>1. WriteDecoded(a, v, d) = BusWrite(a, v, d)
    BY <1>3, Zenon DEF WriteDecoded
  <2> QED
    BY <2>1, BusWriteFaults
<1> QED
  BY <1>1, <1>2, <1>3

LEMMA WatchKeeps ==
  ASSUME NEW d, HasParts(d)
  PROVE  Keeps(d, Watch(d)) /\ HasParts(Watch(d))
<1>1. Keeps(d, d)
  BY DEF Keeps
<1>2. Keeps(d, Read16(d.pc, d))
  BY Read16Keeps
<1>3. Keeps(d, Watch(d))
  BY <1>1, <1>2, Zenon DEF Watch
<1> QED
  BY <1>3 DEF Keeps

\* A write that faults, or finds no such register, changes no register, no word
\* of memory and not the PSW (KB11::write16, kb11.cc).
THEOREM FaultedWriteKeepsAll ==
  ASSUME NEW b, HasParts(b), NEW va, NEW v, ~Live(Write16(va, v, b))
  PROVE  Keeps(b, Write16(va, v, b))
<1> DEFINE d == Decode(va, currentmode(b), TRUE, b)
           e == Watch(d)
           f == WriteDecoded(d.val, v, e)
<1>1. Keeps(b, d) /\ HasParts(d)
  BY DecodeKeeps DEF Keeps
<1>2. Write16(va, v, b) = f
  BY Zenon DEF Write16, WriteMapped
<1> HIDE DEF d
<1>3. Keeps(d, e) /\ HasParts(e)
  BY <1>1, WatchKeeps
<1> HIDE DEF e
<1>4. Keeps(e, f)
  BY <1>2, <1>3, WriteDecodedFaults
<1> QED
  BY <1>1, <1>2, <1>3, <1>4, KeptTrans

-----------------------------------------------------------------------------
(* What a fault leaves of the registers that an operand moved. *)

\* The move m is made, or not yet if something ended the instruction; nothing
\* else differs.
Moving(m, b, d) ==
  /\ HasParts(d)
  /\ d.psw = b.psw /\ d.sp = b.sp /\ d.core = b.core /\ d.mmu = b.mmu /\ d.pc = b.pc
  /\ d.R \in {b.R, Move(m, b.R)}
  /\ Live(d) => Live(b) /\ d.R = Move(m, b.R)
  /\ ~Live(b) => d.R = b.R

\* A read: nothing differs, and what has ended stays so.
Reads(b, d) == Keeps(b, d) /\ (Live(d) => Live(b))

LEMMA LiveBefore ==
  ASSUME NEW b
  PROVE  /\ \A a : ~Live(b) => Read16(a, b) = b
         /\ \A l, a : Live(ReadAt(l, a, b)) => Live(b)
<1>1. ASSUME NEW a, ~Live(b)  PROVE Read16(a, b) = b
  BY <1>1, Zenon DEF Read16, Decode, ReadDecoded
<1>2. ASSUME NEW v, ~Live(b)  PROVE ~Live(Valued(v, b))
  BY <1>2 DEF Valued, Live
<1>3. ASSUME NEW l, NEW a, ~Live(b)  PROVE ~Live(ReadAt(l, a, b))
  BY <1>1, <1>2, <1>3 DEF ReadAt, ReadMemory, ByteOf
<1> QED
  BY <1>1, <1>3

LEMMA EndedStays ==
  ASSUME NEW b, ~Live(b)
  PROVE  /\ \A r, n : AddR(r, n, b) = b
         /\ \A v : ~Live(Valued(v, b))
         /\ fetch16(b) = b /\ pop(b) = b
BY LiveBefore DEF AddR, SetR, Valued, Live, fetch16, pop

LEMMA Moves1 ==
  ASSUME NEW b, HasParts(b), NEW r \in 0 .. 7, NEW n \in Int
  PROVE  Moving(Adds(r, n), b, AddR(r, n, b)) /\ HasParts(AddR(r, n, b))
<1> DEFINE d == AddR(r, n, b)
           m == Adds(r, n)
<1> SUFFICES Moving(m, b, d) /\ HasParts(d)
  OBVIOUS
<1>1. CASE Live(b)
  <2>1. d = [b EXCEPT !.R[r] = Cut(2, b.R[r] + n)]
    BY <1>1 DEF AddR, SetR
  <2>2. b.R[r] + n \in Int
    BY ByteInWord DEF HasParts, Word, Value
  <2>3. Cut(2, b.R[r] + n) \in Word
    BY <2>2, CutFits DEF Lengths
  <2>4. d.R = [b.R EXCEPT ![r] = Cut(2, b.R[r] + n)]
    BY <2>1 DEF HasParts
  <2>5. d.R = Move(m, b.R)
    BY <2>4 DEF HasParts, Move, Adds
  <2>6. d.R \in [0 .. 7 -> Word]
    BY <2>3, <2>4 DEF HasParts
  <2>7. /\ d = [f \in {"R", "psw", "sp", "pc", "core", "mmu", "io", "log", "val",
                       "trap", "dead"} |-> d[f]]
        /\ d.psw = b.psw /\ d.sp = b.sp /\ d.core = b.core /\ d.mmu = b.mmu
        /\ d.pc = b.pc
    BY <2>1 DEF HasParts
  <2>8. HasParts(d)
    BY <2>6, <2>7 DEF HasParts
  <2> HIDE DEF d, m
  <2> QED
    BY <1>1, <2>5, <2>7, <2>8 DEF Moving
<1>2. CASE ~Live(b)
  <2>1. d = b
    BY <1>2 DEF AddR, SetR
  <2> HIDE DEF d, m
  <2> QED
    BY <1>2, <2>1 DEF Moving
<1> QED
  BY <1>1, <1>2

LEMMA StillMoves ==
  ASSUME NEW b, HasParts(b), NEW d, Reads(b, d)
  PROVE  Moving(Still, b, d)
<1>1. b.R[0] \in Word /\ b.R[0] + 0 = b.R[0]
  BY DEF HasParts, Word, Value
<1>2. Cut(2, b.R[0] + 0) = b.R[0]
  <2>1. b.R[0] \in Int /\ 2 \in Lengths
    BY <1>1 DEF Word, Value, Lengths
  <2> QED
    BY <1>1, <2>1, CutFits DEF Word
<1>3. Move(Still, b.R) = b.R
  BY <1>2 DEF Move, Still, Adds, HasParts
<1> QED
  BY <1>3 DEF Moving, Reads, Keeps

LEMMA MovesOn ==
  ASSUME NEW m, NEW b, NEW d, NEW e
  PROVE  /\ Reads(b, d) /\ Moving(m, d, e) => Moving(m, b, e)
         /\ Moving(m, b, d) /\ Reads(d, e) => Moving(m, b, e)
         /\ Reads(b, d) /\ Reads(d, e) => Reads(b, e)
         /\ Reads(b, d) \/ Moving(m, b, d) => HasParts(d)
<1>1. Reads(b, d) /\ Moving(m, d, e) => Moving(m, b, e)
  BY DEF Reads, Keeps, Moving
<1>2. Moving(m, b, d) /\ Reads(d, e) => Moving(m, b, e)
  BY DEF Reads, Keeps, Moving
<1>3. Reads(b, d) /\ Reads(d, e) => Reads(b, e)
  BY DEF Reads, Keeps
<1>4. Reads(b, d) \/ Moving(m, b, d) => HasParts(d)
  BY DEF Reads, Keeps, Moving
<1> QED
  BY <1>1, <1>2, <1>3, <1>4

LEMMA ReadsOnly ==
  ASSUME NEW b, HasParts(b)
  PROVE  /\ \A v : Reads(b, Valued(v, b))
         /\ \A a : Reads(b, Read16(a, b))
         /\ \A r : Reads(b, Pointer(r, b)) /\ Reads(b, Indexed(r, b))
         /\ Reads(b, Deferred(b))
         /\ \A l, a : Reads(b, ReadMemory(l, a, b))
         /\ \A l, a : Reads(b, ReadAt(l, a, b))
<1>1. ASSUME NEW e, HasParts(e), NEW v  PROVE Reads(e, Valued(v, e))
  BY <1>1, ValuedKeeps DEF Reads, Live
<1>2. ASSUME NEW e, HasParts(e), NEW a  PROVE Reads(e, Read16(a, e)) /\ HasParts(Read16(a, e))
  BY <1>2, Read16Keeps, LiveBefore DEF Reads
<1>3. ASSUME NEW r  PROVE Reads(b, Pointer(r, b)) /\ Reads(b, Indexed(r, b))
  BY <1>1 DEF Pointer, Indexed
<1>4. Reads(b, Deferred(b))
  BY <1>2 DEF Deferred
<1>5. ASSUME NEW l, NEW a  PROVE Reads(b, ReadMemory(l, a, b))
  <2>1. CASE l = 2
    BY <1>2, <2>1 DEF ReadMemory
  <2>2. CASE l # 2
    <3> DEFINE d == Read16(WordOf(a), b)
    <3>1. Reads(b, d) /\ HasParts(d)
      BY <1>2
    <3>2. ReadMemory(l, a, b) = Valued(ByteAt(a, d.val), d)
      BY <2>2 DEF ReadMemory, ByteOf
    <3> HIDE DEF d
    <3>3. Reads(d, ReadMemory(l, a, b))
      BY <1>1, <3>1, <3>2
    <3> QED
      BY <3>1, <3>3, MovesOn
  <2> QED
    BY <2>1, <2>2
<1>6. ASSUME NEW l, NEW a  PROVE Reads(b, ReadAt(l, a, b))
  BY <1>1, <1>5 DEF ReadAt
<1> QED
  BY <1>1, <1>2, <1>3, <1>4, <1>5, <1>6

LEMMA FetchMoves ==
  ASSUME NEW b, HasParts(b)
  PROVE  Moving(Adds(7, 2), b, fetch16(b)) /\ Moving(Adds(6, 2), b, pop(b))
<1>1. ASSUME NEW r \in {6, 7}
      PROVE  Moving(Adds(r, 2), b, AddR(r, 2, Read16(b.R[r], b)))
  <2> DEFINE d == Read16(b.R[r], b)
  <2>1. Reads(b, d) /\ HasParts(d)
    BY ReadsOnly, Read16Keeps
  <2> HIDE DEF d
  <2>2. r \in 0 .. 7 /\ 2 \in Int
    OBVIOUS
  <2>3. Moving(Adds(r, 2), d, AddR(r, 2, d))
    BY <2>1, <2>2, Moves1
  <2> QED
    BY <2>1, <2>3, MovesOn DEF d
<1> QED
  BY <1>1 DEF fetch16, pop

\* A push that faults leaves R6 two lower at most, and nothing else different
\* (KB11::push, kb11.h).
THEOREM FaultedPushMovesSP ==
  ASSUME NEW b, HasParts(b), NEW v, ~Live(push(v, b))
  PROVE  Moving(Adds(6, -2), b, push(v, b))
<1> DEFINE d == AddR(6, -2, b)
           e == Write16(d.R[6], v, d)
<1>1. Moving(Adds(6, -2), b, d) /\ HasParts(d)
  <2>1. 6 \in 0 .. 7 /\ -2 \in Int
    OBVIOUS
  <2> QED
    BY <2>1, Moves1
<1>2. push(v, b) = e
  BY Zenon DEF push, Top
<1> HIDE DEF d
<1>3. Keeps(d, e)
  BY <1>1, <1>2, FaultedWriteKeepsAll
<1> HIDE DEF e
<1> QED
  BY <1>1, <1>2, <1>3, MovesOn DEF Reads

LEMMA Modes ==
  ASSUME NEW l, NEW s, NEW b, ModeOf(s) \in 1 .. 7
  PROVE  LET r == RegOf(s)
             by == MovesBy(l, r)
         IN  fetchOperand(l, s, b) \in
               {Pointer(r, b), Valued(b.R[r], AddR(r, by, b)),
                Read16(b.R[r], AddR(r, 2, b)), Pointer(r, AddR(r, -by, b)),
                Deferred(Pointer(r, AddR(r, -2, b))), Indexed(r, fetch16(b)),
                Deferred(Indexed(r, fetch16(b)))}
<1>1. ModeOf(s) \in {1, 2, 3, 4, 5, 6, 7}
  OBVIOUS
<1> QED
  BY <1>1, Zenon DEF fetchOperand

\* An operand moves one register and no more, by as much as the handbook says
\* of its mode.  Whether a fault came before or after is written nowhere, and
\* this is what a program would have to undo (fetchOperand, kb11.h).
THEOREM OperandMovesOneRegister ==
  ASSUME NEW b, HasParts(b), NEW l \in Lengths, NEW s,
         RegOf(s) \in 0 .. 7, ModeOf(s) \in 1 .. 7
  PROVE  Moving(Moves(s, l), b, fetchOperand(l, s, b))
<1> DEFINE r == RegOf(s)
           k == ModeOf(s)
           by == MovesBy(l, r)
           f == fetchOperand(l, s, b)
<1> SUFFICES Moving(Moves(s, l), b, f)
  OBVIOUS
<1>1. /\ r \in 0 .. 7 /\ by \in Int /\ -by \in Int /\ 2 \in Int /\ -2 \in Int
      /\ by = IF r \in {6, 7} THEN 2 ELSE l
  BY DEF Lengths, MovesBy
<1>2. /\ f = CASE k = 1 -> Pointer(r, b)
               [] k = 2 -> Valued(b.R[r], AddR(r, by, b))
               [] k = 3 -> Read16(b.R[r], AddR(r, 2, b))
               [] k = 4 -> Pointer(r, AddR(r, -by, b))
               [] k = 5 -> Deferred(Pointer(r, AddR(r, -2, b)))
               [] k = 6 -> Indexed(r, fetch16(b))
               [] k = 7 -> Deferred(Indexed(r, fetch16(b)))
      /\ Moves(s, l) = CASE k \in {0, 1} -> Still
                         [] k = 2 -> Adds(r, by)
                         [] k = 3 -> Adds(r, 2)
                         [] k = 4 -> Adds(r, -by)
                         [] k = 5 -> Adds(r, -2)
                         [] k \in {6, 7} -> Adds(7, 2)
  BY <1>1 DEF fetchOperand, Moves
<1> HIDE DEF f, k, by, r
<1>3. ASSUME NEW n \in Int  PROVE Moving(Adds(r, n), b, AddR(r, n, b)) /\ HasParts(AddR(r, n, b))
  BY <1>1, Moves1
<1>4. Moving(Adds(7, 2), b, fetch16(b)) /\ HasParts(fetch16(b))
  BY FetchMoves, MovesOn
<1>5. CASE k = 1
  <2>1. f = Pointer(r, b) /\ Moves(s, l) = Still
    BY <1>2, <1>5
  <2> QED
    BY <2>1, ReadsOnly, StillMoves
<1>6. CASE k = 2
  <2>1. f = Valued(b.R[r], AddR(r, by, b)) /\ Moves(s, l) = Adds(r, by)
    BY <1>2, <1>6
  <2> QED
    BY <1>1, <1>3, <2>1, ReadsOnly, MovesOn
<1>7. CASE k = 3
  <2>1. f = Read16(b.R[r], AddR(r, 2, b)) /\ Moves(s, l) = Adds(r, 2)
    BY <1>2, <1>7
  <2> QED
    BY <1>1, <1>3, <2>1, ReadsOnly, MovesOn
<1>8. CASE k = 4
  <2>1. f = Pointer(r, AddR(r, -by, b)) /\ Moves(s, l) = Adds(r, -by)
    BY <1>2, <1>8
  <2> QED
    BY <1>1, <1>3, <2>1, ReadsOnly, MovesOn
<1>9. CASE k = 5
  <2> DEFINE d == AddR(r, -2, b)
             e == Pointer(r, d)
  <2>1. f = Deferred(e) /\ Moves(s, l) = Adds(r, -2)
    BY <1>2, <1>9
  <2>2. Moving(Adds(r, -2), b, d) /\ HasParts(d)
    BY <1>1, <1>3
  <2> HIDE DEF d
  <2>3. Moving(Adds(r, -2), b, e) /\ HasParts(e)
    BY <2>2, ReadsOnly, MovesOn
  <2> HIDE DEF e
  <2> QED
    BY <2>1, <2>3, ReadsOnly, MovesOn
<1>10. CASE k = 6
  <2>1. f = Indexed(r, fetch16(b)) /\ Moves(s, l) = Adds(7, 2)
    BY <1>2, <1>10
  <2> QED
    BY <1>4, <2>1, ReadsOnly, MovesOn
<1>11. CASE k = 7
  <2> DEFINE e == Indexed(r, fetch16(b))
  <2>1. f = Deferred(e) /\ Moves(s, l) = Adds(7, 2)
    BY <1>2, <1>11
  <2>2. Moving(Adds(7, 2), b, e) /\ HasParts(e)
    BY <1>4, ReadsOnly, MovesOn
  <2> HIDE DEF e
  <2> QED
    BY <2>1, <2>2, ReadsOnly, MovesOn
<1>12. k \in 1 .. 7
  BY DEF k
<1> QED
  BY <1>5, <1>6, <1>7, <1>8, <1>9, <1>10, <1>11, <1>12

-----------------------------------------------------------------------------
(* Reading a word and writing it back. *)

LEMMA DevicesAnswerWrites ==
  ASSUME NEW a, Answers(a, FALSE) # "none"
  PROVE  Answers(a, TRUE) # "none"
<1>1. DeviceAt(a, TRUE) # "none"
  BY SMT DEF DeviceAt, RK11Answers, AnswersAt7775
<1> QED
  BY <1>1, Zenon DEF Answers

LEMMA BusWriteAfterRead ==
  ASSUME NEW b, HasParts(b), NEW a, Live(BusRead(a, b)),
         NEW d, HasParts(d), Live(d), NEW v
  PROVE  BusWrite(a, v, d).trap = 0
<1> DEFINE who == Answers(a, FALSE)
           other == Answers(a, TRUE)
<1>1. Live(b)
  BY Zenon DEF BusRead
<1>2. ~(Odd(a) \/ who = "abort")
  <2>1. ~Live(Die(b))
    BY DieKeeps DEF Live
  <2>2. ASSUME Odd(a) \/ who = "abort"  PROVE BusRead(a, b) = Die(b)
    <3>1. ~(~Odd(a) /\ who # "abort")
      BY <2>2
    <3> QED
      BY <1>1, <2>2, <3>1, Zenon DEF BusRead
  <2> QED
    BY <2>1, <2>2
<1>3. who # "none"
  <2>1. ~Live(Trap(INTBUS, b))
    BY TrapKeeps DEF Live, INTBUS
  <2>2. ASSUME who = "none"  PROVE BusRead(a, b) = Trap(INTBUS, b)
    BY <1>1, <1>2, <2>2, Zenon DEF BusRead
  <2> QED
    BY <2>1, <2>2
<1>4. other # "none"
  BY <1>3, DevicesAnswerWrites
<1> HIDE DEF other
<1>5. BusWrite(a, v, d) \in {Die(d), StoreCore(a, v, d), Logged(TRUE, a, v, d)}
  BY <1>2, <1>4, Zenon DEF BusWrite, other
<1>6. StoreCore(a, v, d).trap = d.trap
  BY DEF HasParts, StoreCore
<1>7. d.trap = 0
  BY DEF Live
<1> QED
  <2>1. Die(d).trap = d.trap /\ Logged(TRUE, a, v, d).trap = d.trap
    BY DieKeeps, LoggedKeeps
  <2> QED
    BY <1>5, <1>6, <1>7, <2>1, Zenon
LEMMA ValuedLives ==
  ASSUME NEW b, HasParts(b), Live(b), NEW v
  PROVE  Live(Valued(v, b)) /\ HasParts(Valued(v, b)) /\ Valued(v, b).val = v
BY ValuedKeeps DEF Live, Keeps

LEMMA BusAddressAgain ==
  ASSUME NEW b, HasParts(b), NEW va, NEW mode, Live(Decode(va, mode, FALSE, b)),
         NEW d, HasParts(d), Live(d), d.mmu = b.mmu, NEW wr
  PROVE  /\ Decode(va, mode, wr, d).val = Decode(va, mode, FALSE, b).val
         /\ Live(Decode(va, mode, wr, d)) /\ HasParts(Decode(va, mode, wr, d))
<1> DEFINE p == b.mmu.pages[mode][PageOf(va)]
           e == Decode(va, mode, wr, d)
<1>1. Live(b)
  BY Zenon DEF Decode
<1>2. d.mmu.on = b.mmu.on /\ d.mmu.pages[mode][PageOf(va)] = p
  OBVIOUS
<1>3. ~(b.mmu.on /\ Denied(p, FALSE))
  <2>1. ~Live(Trap(INTFAULT, b))
    BY TrapKeeps DEF Live, INTFAULT
  <2>2. ASSUME b.mmu.on /\ Denied(p, FALSE)
        PROVE  Decode(va, mode, FALSE, b) = Trap(INTFAULT, b)
    BY <1>1, <2>2, Zenon DEF Decode
  <2> QED
    BY <2>1, <2>2
<1>4. Denied(p, wr) => Denied(p, FALSE)
  BY Zenon DEF Denied
<1>5. \E a : Decode(va, mode, FALSE, b) = Valued(a, b) /\ e = Valued(a, d)
  <2>1. CASE ~b.mmu.on
    <3>1. Decode(va, mode, FALSE, b) = Valued(Direct(va), b)
      BY <1>1, <2>1, Zenon DEF Decode
    <3>2. e = Valued(Direct(va), d)
      BY <1>2, <2>1, Zenon DEF Decode
    <3> QED
      BY <3>1, <3>2
  <2>2. CASE b.mmu.on
    <3>1. Decode(va, mode, FALSE, b) = Valued(Relocated(p, va), b)
      BY <1>1, <1>3, <2>2, Zenon DEF Decode
    <3>2. e = Valued(Relocated(p, va), d)
      BY <1>2, <1>3, <1>4, <2>2, Zenon DEF Decode
    <3> QED
      BY <3>1, <3>2
  <2> QED
    BY <2>1, <2>2
<1>6. PICK a : Decode(va, mode, FALSE, b) = Valued(a, b) /\ e = Valued(a, d)
  BY <1>5
<1> HIDE DEF e
<1>7. Live(e) /\ HasParts(e) /\ e.val = a
  BY <1>6, ValuedLives
<1>8. Valued(a, b).val = a
  BY ValuedKeeps
<1> QED
  BY <1>6, <1>7, <1>8, Zenon DEF e

LEMMA WriteDecodedAfterRead ==
  ASSUME NEW b, HasParts(b), Live(ReadDecoded(b)), NEW d, HasParts(d), Live(d), NEW v
  PROVE  WriteDecoded(b.val, v, d).trap = 0
<1>1. Live(b)
  BY Zenon DEF ReadDecoded
<1>2. CASE b.val \in {PSWAddress, StackLimit, Switches}
  <2>1. WriteDecoded(b.val, v, d) \in {writePSW(v, d), SetStackLimit(v, d), d}
    BY <1>2, Zenon DEF WriteDecoded
  <2>2. writePSW(v, d).trap = 0 /\ d.trap = 0
    BY WritePSWLives DEF Live
  <2>3. SetStackLimit(v, d).trap = 0
    BY <2>2 DEF HasParts, SetStackLimit
  <2> QED
    BY <2>1, <2>2, <2>3, Zenon
<1>3. CASE b.val \notin {PSWAddress, StackLimit, Switches}
  <2>1. ReadDecoded(b) = BusRead(b.val, b)
    BY <1>1, <1>3, Zenon DEF ReadDecoded
  <2>2. WriteDecoded(b.val, v, d) = BusWrite(b.val, v, d)
    BY <1>3, Zenon DEF WriteDecoded
  <2> QED
    BY <2>1, <2>2, BusWriteAfterRead
<1> QED
  BY <1>2, <1>3

LEMMA ReadDecodedAgain ==
  ASSUME NEW b, HasParts(b), Live(ReadDecoded(b)),
         NEW d, HasParts(d), Live(d), d.val = b.val
  PROVE  Live(ReadDecoded(d))
<1>1. Live(b)
  BY Zenon DEF ReadDecoded
<1>2. CASE b.val \in {PSWAddress, StackLimit, Switches}
  <2>1. ReadDecoded(d) \in {Valued(d.psw, d), Valued(At(d.io, d.val), d)}
    BY <1>2, Zenon DEF ReadDecoded
  <2> QED
    BY <2>1, ValuedLives, Zenon
<1>3. CASE b.val \notin {PSWAddress, StackLimit, Switches}
  <2> DEFINE a == b.val
             who == Answers(a, FALSE)
  <2>1. ReadDecoded(b) = BusRead(a, b) /\ ReadDecoded(d) = BusRead(a, d)
    BY <1>1, <1>3, Zenon DEF ReadDecoded
  <2>2. ~(Odd(a) \/ who = "abort")
    <3>1. ~Live(Die(b))
      BY DieKeeps DEF Live
    <3>2. ASSUME Odd(a) \/ who = "abort"  PROVE BusRead(a, b) = Die(b)
      <4>1. ~(~Odd(a) /\ who # "abort")
        BY <3>2
      <4> QED
        BY <1>1, <3>2, <4>1, Zenon DEF BusRead
    <3> QED
      BY <2>1, <3>1, <3>2
  <2>3. who # "none"
    <3>1. ~Live(Trap(INTBUS, b))
      BY TrapKeeps DEF Live, INTBUS
    <3>2. ASSUME who = "none"  PROVE BusRead(a, b) = Trap(INTBUS, b)
      BY <1>1, <2>2, <3>2, Zenon DEF BusRead
    <3> QED
      BY <2>1, <3>1, <3>2
  <2> HIDE DEF a
  <2>4. BusRead(a, d) \in {Valued(At(d.core, a), d),
                           Logged(FALSE, a, 0, Valued(At(d.io, a), d))}
    BY <2>2, <2>3, Zenon DEF BusRead
  <2>5. Live(Valued(At(d.core, a), d))
    BY ValuedLives
  <2>6. Live(Logged(FALSE, a, 0, Valued(At(d.io, a), d)))
    <3> DEFINE e == Valued(At(d.io, a), d)
    <3>1. Live(e) /\ HasParts(e)
      BY ValuedLives
    <3> HIDE DEF e
    <3>2. Live(Logged(FALSE, a, 0, e))
      BY <3>1, LoggedKeeps DEF Live
    <3> QED
      BY <3>2 DEF e
  <2> QED
    BY <2>1, <2>4, <2>5, <2>6
<1> QED
  BY <1>2, <1>3

LEMMA SameMode ==
  ASSUME NEW b, NEW d, d.psw = b.psw
  PROVE  currentmode(d) = currentmode(b) /\ previousmode(d) = previousmode(b)
BY DEF currentmode, previousmode

\* What was read in this mode can be read again.
LEMMA ReadAgain ==
  ASSUME NEW b, HasParts(b), NEW va, Live(Read16(va, b)),
         NEW d, HasParts(d), Live(d), d.mmu = b.mmu, currentmode(d) = currentmode(b)
  PROVE  Live(Read16(va, d))
<1> DEFINE e == Decode(va, currentmode(b), FALSE, b)
           f == Decode(va, currentmode(b), FALSE, d)
<1>1. Live(ReadDecoded(e)) /\ Read16(va, d) = ReadDecoded(f)
  BY Zenon DEF Read16
<1>2. HasParts(e)
  BY DecodeKeeps DEF Keeps
<1>3. Live(e)
  BY <1>1, Zenon DEF ReadDecoded
<1>4. f.val = e.val /\ Live(f) /\ HasParts(f)
  BY <1>3, BusAddressAgain
<1> HIDE DEF e, f
<1> QED
  BY <1>1, <1>2, <1>4, ReadDecodedAgain

\* An instruction that reads a word and writes it back traps on the read or not
\* at all: write() of a KT11 page asks for no more than read() does, and a bus
\* address that answered answers.  At the word the state is printed at this
\* takes a PC that can be read (KT11::decode, kt11.h; KB11::write16, kb11.cc).
THEOREM ReadWordsTakeWrites ==
  ASSUME NEW b, HasParts(b), NEW va, Live(Read16(va, b)),
         NEW d, HasParts(d), Live(d), d.mmu = b.mmu, currentmode(d) = currentmode(b),
         Decode(va, currentmode(b), FALSE, b).val = Watched => Live(Read16(d.pc, b)),
         NEW v
  PROVE  Write16(va, v, d).trap = 0
<1> DEFINE mode == currentmode(b)
           e == Decode(va, mode, FALSE, b)
           f == Decode(va, mode, TRUE, d)
           w == Watch(f)
<1>1. Live(ReadDecoded(e))
  BY Zenon DEF Read16
<1>2. HasParts(e)
  BY DecodeKeeps DEF Keeps
<1>3. Live(e)
  BY <1>1, Zenon DEF ReadDecoded
<1>4. f.val = e.val /\ Live(f) /\ HasParts(f)
  BY <1>3, BusAddressAgain
<1>5. Write16(va, v, d) = WriteMapped(v, f)
  BY Zenon DEF Write16
<1>6. f.mmu = b.mmu /\ currentmode(f) = mode /\ f.pc = d.pc
  <2>1. Keeps(d, f)
    BY DecodeKeeps
  <2> HIDE DEF f
  <2>2. f.mmu = d.mmu /\ f.psw = d.psw /\ f.pc = d.pc
    BY <2>1 DEF Keeps
  <2>3. currentmode(f) = currentmode(d)
    BY <2>2, SameMode
  <2> QED
    BY <2>2, <2>3
<1>7. e.val = Watched => Live(Read16(d.pc, b))
  OBVIOUS
<1> HIDE DEF e, f, mode
<1>8. Live(w) /\ HasParts(w)
  <2>1. CASE e.val = Watched
    <3>1. w = Read16(d.pc, f)
      BY <1>4, <1>6, <2>1 DEF Watch
    <3> QED
      BY <1>4, <1>6, <1>7, <2>1, <3>1, ReadAgain, Read16Keeps DEF mode
  <2>2. CASE e.val # Watched
    BY <1>4, <2>2 DEF Watch
  <2> QED
    BY <2>1, <2>2
<1>9. WriteMapped(v, f) = WriteDecoded(e.val, v, w)
  BY <1>4 DEF WriteMapped
<1> HIDE DEF w
<1> QED
  BY <1>1, <1>2, <1>5, <1>8, <1>9, WriteDecodedAfterRead

-----------------------------------------------------------------------------
(* Bytes of a word. *)

LEMMA QuotientUnique ==
  ASSUME NEW n \in Nat \ {0}, NEW q \in Int, NEW r \in 0 .. n - 1
  PROVE  (q * n + r) \div n = q /\ (q * n + r) % n = r
BY SMT

\* A byte written is the byte read, and the other byte of its word stays
\* (read<1> and write<1>, kb11.h).
THEOREM BytesOfAWord ==
  ASSUME NEW w \in Word, NEW v \in Int, NEW a \in Int, NEW b \in Int, Odd(a) # Odd(b)
  PROVE  /\ WithByte(a, w, v) \in Word
         /\ ByteAt(a, WithByte(a, w, v)) = Cut(1, v)
         /\ ByteAt(b, WithByte(a, w, v)) = ByteAt(b, w)
<1> DEFINE n == Values(1)
           q == w \div n
           r == w % n
           u == v % n
<1>1. n \in Nat \ {0} /\ Values(2) = n * n
  <2>1. ByteMSB \in Nat \ {0} /\ WordMSB = 2 * ByteMSB * ByteMSB
    BY ALUAssumption
  <2>2. n = 2 * ByteMSB /\ Values(2) = 2 * WordMSB
    BY DEF Values, msb
  <2> QED
    BY <2>1, <2>2, SMT
<1>2. w \in 0 .. n * n - 1
  BY <1>1 DEF Word, Value
<1>3. Cut(1, w) = r /\ Cut(1, v) = u
  BY DEF Cut
<1> HIDE DEF n
<1>4. q \in Int /\ r \in 0 .. n - 1 /\ w = q * n + r /\ u \in 0 .. n - 1
  BY <1>1, <1>2, SMT
<1>5. q \in 0 .. n - 1
  BY <1>1, <1>2, <1>4, SMT
<1>6. WithByte(a, w, v) = IF Odd(a) THEN u * n + r ELSE q * n + u
  <2> HIDE DEF q, r, u
  <2> QED
    BY <1>1, <1>3, <1>4, SMT DEF WithByte, n
<1> HIDE DEF q, r, u
<1>7. (u * n + r) \div n = u /\ (u * n + r) % n = r
  BY <1>1, <1>4, QuotientUnique
<1>8. (q * n + u) \div n = q /\ (q * n + u) % n = u
  BY <1>1, <1>4, QuotientUnique
<1>9. Odd(b) <=> ~Odd(a)
  BY DEF Odd
<1>10. \A x : ByteAt(a, x) = (IF Odd(a) THEN x \div n ELSE x % n)
              /\ ByteAt(b, x) = (IF Odd(a) THEN x % n ELSE x \div n)
  BY <1>9, Zenon DEF ByteAt, Cut, n
<1>11. CASE Odd(a)
  <2>1. WithByte(a, w, v) = u * n + r
    BY <1>6, <1>11
  <2>2. u * n + r \in 0 .. n * n - 1
    BY <1>1, <1>4, SMT
  <2> QED
    BY <1>1, <1>3, <1>7, <1>10, <1>11, <2>1, <2>2 DEF Word, Value, r
<1>12. CASE ~Odd(a)
  <2>1. WithByte(a, w, v) = q * n + u
    BY <1>6, <1>12
  <2>2. q * n + u \in 0 .. n * n - 1
    BY <1>1, <1>4, <1>5, SMT
  <2> QED
    BY <1>1, <1>3, <1>8, <1>10, <1>12, <2>1, <2>2 DEF Word, Value, q
<1> QED
  BY <1>11, <1>12

-----------------------------------------------------------------------------
(* The states of the processor in the middle of an instruction. *)

CoreMaps == UNION {[S -> Word] : S \in SUBSET {a \in Nat : ~Odd(a) /\ InCore(a)}}
DeviceMaps == UNION {[S -> Word] : S \in SUBSET Nat}
Accesses == Seq([wr : BOOLEAN, at : Nat, v : Word])
Registers8 == [0 .. 7 -> Word]
Slots == [0 .. 3 -> Word]
Units == [on : BOOLEAN, pages : PageTable]
Vectors == {0, INTBUS, INTFAULT}

States ==
  [R : Registers8, psw : Word, sp : Slots, pc : Word, core : CoreMaps, mmu : Units,
   io : DeviceMaps, log : Accesses, val : Nat, trap : Vectors, dead : BOOLEAN]

LEMMA ValuedTyped ==
  ASSUME NEW b \in States, NEW v \in Nat
  PROVE  Valued(v, b) \in States
BY DEF States, Valued

LEMMA TrapTyped ==
  ASSUME NEW b \in States, NEW v \in Vectors
  PROVE  Trap(v, b) \in States
BY DEF States, Trap

LEMMA DieTyped ==
  ASSUME NEW b \in States
  PROVE  Die(b) \in States
BY DEF States, Die

LEMMA LoggedTyped ==
  ASSUME NEW b \in States, NEW wr \in BOOLEAN, NEW a \in Nat, NEW v \in Word
  PROVE  Logged(wr, a, v, b) \in States
<1> DEFINE e == [wr |-> wr, at |-> a, v |-> v]
<1>1. b.log \in Accesses
  BY DEF States
<1>2. Append(b.log, e) \in Accesses
  BY <1>1 DEF Accesses
<1>3. Logged(wr, a, v, b) = [b EXCEPT !.log = Append(b.log, e)]
  BY DEF Logged, States
<1> HIDE DEF e
<1> QED
  BY <1>2, <1>3 DEF States

LEMMA Widths16 ==
  /\ Values(2) = 8 * \o20000 /\ Values(2) = 4 * \o40000 /\ Values(2) = 16 * \o10000
  /\ Value(2) = Word
BY ProcessorAssumption, ALUAssumption DEF Values, msb, Word

LEMMA Quotients ==
  ASSUME NEW n \in Nat \ {0}, NEW v \in Nat
  PROVE  /\ v < 8 * n => v \div n \in 0 .. 7
         /\ v < 4 * n => v \div n \in 0 .. 3
         /\ (v \div n) % 4 \in 0 .. 3
         /\ v - (v % n) \in Nat /\ v - (v % n) <= v /\ v % n \in Nat /\ v % n <= v
<1>1. v \div n \in Nat /\ v % n \in Nat /\ v = (v \div n) * n + (v % n)
  BY DivMod, DivBounds
<1>2. (v \div n) * n \in Nat
  BY <1>1, SMT
<1>3. v - (v % n) \in Nat /\ v - (v % n) <= v /\ v % n <= v
  BY <1>1, <1>2
<1>4. /\ v < 8 * n => v \div n \in 0 .. 7
      /\ v < 4 * n => v \div n \in 0 .. 3
      /\ (v \div n) % 4 \in 0 .. 3
  BY SMT
<1> QED
  BY <1>1, <1>3, <1>4

LEMMA WordTyped ==
  ASSUME NEW v \in Word
  PROVE  v \in Nat /\ v < Values(2) /\ Values(2) \in Nat /\ \A u \in Nat : u <= v => u \in Word
<1>1. v \in 0 .. Values(2) - 1 /\ Values(2) \in Nat
  BY ByteInWord DEF Word, Value, Lengths
<1> QED
  BY <1>1 DEF Word, Value

\* Where the parts of a word point to.
LEMMA WordParts ==
  ASSUME NEW v \in Word
  PROVE  /\ v \in Nat /\ PageOf(v) \in 0 .. 7
         /\ v \div \o40000 \in 0 .. 3 /\ (v \div \o10000) % 4 \in 0 .. 3
         /\ WordOf(v) \in Word
<1> DEFINE n == \o20000
           m == \o40000
           k == \o10000
<1>1. n \in Nat \ {0} /\ m \in Nat \ {0} /\ k \in Nat \ {0}
  OBVIOUS
<1>2. Values(2) = 8 * n /\ Values(2) = 4 * m
  BY Widths16
<1> HIDE DEF n, m, k
<1>3. v \in Nat /\ v < 8 * n /\ v < 4 * m
  BY <1>2, WordTyped
<1>4. v \div n \in 0 .. 7 /\ v \div m \in 0 .. 3 /\ (v \div k) % 4 \in 0 .. 3
  BY <1>1, <1>3, Quotients
<1>5. WordOf(v) \in Word
  BY <1>3, Quotients, WordTyped DEF WordOf
<1> QED
  BY <1>3, <1>4, <1>5 DEF PageOf, n, m, k

LEMMA CutTyped ==
  ASSUME NEW v \in Int, NEW l \in Lengths
  PROVE  Cut(l, v) \in Value(l) /\ Cut(l, v) \in Word /\ Cut(l, v) \in Nat
BY CutFits, ByteInWord

LEMMA AtTyped ==
  ASSUME NEW f \in CoreMaps \cup DeviceMaps, NEW a
  PROVE  At(f, a) \in Word /\ At(f, a) \in Nat
<1>1. 0 \in Word /\ Word \subseteq Nat
  BY ByteInWord DEF Lengths, Word
<1>2. PICK S : f \in [S -> Word]
  BY DEF CoreMaps, DeviceMaps
<1> QED
  BY <1>1, <1>2 DEF At

LEMMA StoredTyped ==
  ASSUME NEW a \in Nat, NEW v \in Word
  PROVE  /\ \A f \in DeviceMaps : Stored(a, v, f) \in DeviceMaps
         /\ ~Odd(a) /\ InCore(a) => \A f \in CoreMaps : Stored(a, v, f) \in CoreMaps
<1>1. ASSUME NEW S, NEW f \in [S -> Word]
      PROVE  Stored(a, v, f) \in [S \cup {a} -> Word]
  BY DEF Stored
<1>2. ASSUME NEW f \in DeviceMaps
      PROVE  Stored(a, v, f) \in DeviceMaps
  <2>1. PICK S \in SUBSET Nat : f \in [S -> Word]
    BY DEF DeviceMaps
  <2>2. S \cup {a} \in SUBSET Nat
    OBVIOUS
  <2>3. [S \cup {a} -> Word] \in {[T -> Word] : T \in SUBSET Nat}
    BY <2>2
  <2> QED
    BY <1>1, <2>1, <2>3, Zenon DEF DeviceMaps
<1>3. ASSUME ~Odd(a), InCore(a), NEW f \in CoreMaps
      PROVE  Stored(a, v, f) \in CoreMaps
  <2> DEFINE A == {x \in Nat : ~Odd(x) /\ InCore(x)}
  <2>1. PICK S \in SUBSET A : f \in [S -> Word]
    BY DEF CoreMaps
  <2>2. S \cup {a} \in SUBSET A
    BY <1>3
  <2> HIDE DEF A
  <2>3. [S \cup {a} -> Word] \in {[T -> Word] : T \in SUBSET A}
    BY <2>2
  <2> QED
    BY <1>1, <2>1, <2>3, Zenon DEF A, CoreMaps
<1> QED
  BY <1>2, <1>3

LEMMA ModesTyped ==
  ASSUME NEW b \in States
  PROVE  currentmode(b) \in 0 .. 3 /\ previousmode(b) \in 0 .. 3
BY WordParts DEF States, currentmode, previousmode

\* KT11::decode() leaves an address of the bus.
LEMMA DecodeTyped ==
  ASSUME NEW b \in States, NEW va \in Word, NEW mode \in 0 .. 3, NEW wr \in BOOLEAN
  PROVE  Decode(va, mode, wr, b) \in States
<1> DEFINE p == b.mmu.pages[mode][PageOf(va)]
<1>1. va \in Nat /\ PageOf(va) \in 0 .. 7
  BY WordParts
<1>2. p \in [base : Nat, r : BOOLEAN, w : BOOLEAN]
  BY <1>1 DEF States, Units, PageTable
<1>3. Direct(va) \in Nat
  BY <1>1 DEF Direct
<1>4. Relocated(p, va) \in Nat
  <2>1. va % \o20000 \in Nat
    BY <1>1
  <2>2. p.base \in Nat
    BY <1>2
  <2> HIDE DEF p
  <2> QED
    BY <2>1, <2>2 DEF Relocated
<1>5. INTFAULT \in Vectors
  BY DEF Vectors
<1>6. Decode(va, mode, wr, b) \in
        {b, Valued(Direct(va), b), Trap(INTFAULT, b), Valued(Relocated(p, va), b)}
  BY Zenon DEF Decode
<1> QED
  BY <1>3, <1>4, <1>5, <1>6, ValuedTyped, TrapTyped

\* A value of length l is loaded unless the instruction has ended.
Loaded(l, b) == b \in States /\ (Live(b) => b.val \in Value(l))

LEMMA ValueTyped ==
  ASSUME NEW b \in States, NEW l \in Lengths, NEW v \in Value(l)
  PROVE  Loaded(l, Valued(v, b))
<1>1. v \in Nat
  BY ByteInWord
<1>2. Valued(v, b).val = v
  BY DEF States, Valued
<1> QED
  BY <1>1, <1>2, ValuedTyped DEF Loaded

LEMMA WordLoads ==
  ASSUME NEW b \in States, NEW v \in Word
  PROVE  Loaded(2, Valued(v, b))
BY ValueTyped, Widths16 DEF Lengths

LEMMA EndedLoaded ==
  ASSUME NEW b \in States, ~Live(b), NEW l
  PROVE  Loaded(l, b)
BY DEF Loaded

LEMMA FaultTyped ==
  ASSUME NEW b \in States, NEW l
  PROVE  /\ Loaded(l, Die(b)) /\ ~Live(Die(b))
         /\ Loaded(l, Trap(INTBUS, b)) /\ ~Live(Trap(INTBUS, b))
         /\ Loaded(l, Trap(INTFAULT, b)) /\ ~Live(Trap(INTFAULT, b))
<1>1. INTBUS \in Vectors \ {0} /\ INTFAULT \in Vectors \ {0}
  BY DEF Vectors, INTBUS, INTFAULT
<1>2. Die(b).dead /\ Trap(INTBUS, b).trap = INTBUS /\ Trap(INTFAULT, b).trap = INTFAULT
  BY DEF States, Die, Trap
<1> QED
  BY <1>1, <1>2, DieTyped, TrapTyped DEF Live, Loaded

LEMMA BusReadTyped ==
  ASSUME NEW b \in States, NEW a \in Nat
  PROVE  Loaded(2, BusRead(a, b))
<1> DEFINE d == Valued(At(b.io, a), b)
<1>1. /\ Live(b) => BusRead(a, b) \in {Die(b), Trap(INTBUS, b), Valued(At(b.core, a), b),
                                      Logged(FALSE, a, 0, d)}
      /\ ~Live(b) => BusRead(a, b) = b
  <2>1. CASE ~Live(b)
    BY <2>1, Zenon DEF BusRead
  <2>2. CASE Live(b)
    BY <2>2, Zenon DEF BusRead
  <2> QED
    BY <2>1, <2>2
<1>2. At(b.io, a) \in Word /\ At(b.core, a) \in Word /\ 0 \in Word
  BY AtTyped, ByteInWord DEF States, Lengths, Word
<1>3. Loaded(2, Valued(At(b.core, a), b)) /\ Loaded(2, d)
  BY <1>2, WordLoads
<1> HIDE DEF d
<1>4. Loaded(2, Logged(FALSE, a, 0, d))
  <2>1. d \in States
    BY <1>3 DEF Loaded
  <2>2. Logged(FALSE, a, 0, d) \in States
    BY <1>2, <2>1, LoggedTyped
  <2>3. /\ Logged(FALSE, a, 0, d).val = d.val /\ Logged(FALSE, a, 0, d).trap = d.trap
        /\ Logged(FALSE, a, 0, d).dead = d.dead
    BY <2>1 DEF States, Logged
  <2> QED
    BY <1>3, <2>2, <2>3 DEF Loaded, Live
<1> QED
  BY <1>1, <1>3, <1>4, EndedLoaded, FaultTyped

LEMMA ReadDecodedTyped ==
  ASSUME NEW b \in States
  PROVE  Loaded(2, ReadDecoded(b))
<1>1. b.psw \in Word /\ At(b.io, b.val) \in Word /\ b.val \in Nat
  BY AtTyped DEF States
<1>2. \/ ReadDecoded(b) \in {Valued(b.psw, b), Valued(At(b.io, b.val), b), BusRead(b.val, b)}
      \/ ~Live(b) /\ ReadDecoded(b) = b
  BY Zenon DEF ReadDecoded
<1> QED
  BY <1>1, <1>2, BusReadTyped, WordLoads, EndedLoaded

LEMMA Read16Typed ==
  ASSUME NEW b \in States, NEW va \in Word
  PROVE  Loaded(2, Read16(va, b))
BY ModesTyped, DecodeTyped, ReadDecodedTyped DEF Read16

LEMMA writePSWTyped ==
  ASSUME NEW b \in States, NEW w \in Word
  PROVE  writePSW(w, b) \in States
<1> DEFINE m == currentmode(b)
           k == w \div \o40000
           sp == [b.sp EXCEPT ![m] = b.R[6]]
<1>1. m \in 0 .. 3 /\ k \in 0 .. 3
  BY ModesTyped, WordParts
<1>2. writePSW(w, b) = IF Live(b) THEN [b EXCEPT !.sp = sp, !.psw = w, !.R[6] = sp[k]] ELSE b
  BY DEF writePSW
<1> HIDE DEF m, k
<1>3. sp \in Slots
  BY <1>1 DEF States, Slots, Registers8
<1> HIDE DEF sp
<1>4. sp[k] \in Word
  BY <1>1, <1>3 DEF Slots
<1>5. [b.R EXCEPT ![6] = sp[k]] \in Registers8
  BY <1>4 DEF States, Registers8
<1> QED
  BY <1>2, <1>3, <1>5 DEF States

LEMMA BusWriteTyped ==
  ASSUME NEW b \in States, NEW a \in Nat, NEW v \in Word
  PROVE  BusWrite(a, v, b) \in States
<1>1. \/ BusWrite(a, v, b) \in {b, Trap(INTBUS, b), Die(b), Logged(TRUE, a, v, b)}
      \/ BusWrite(a, v, b) = StoreCore(a, v, b) /\ ~Odd(a) /\ Answers(a, TRUE) = "core"
  <2>1. CASE ~Odd(a) /\ Answers(a, TRUE) = "core"
    BY <2>1, Zenon DEF BusWrite
  <2>2. CASE ~(~Odd(a) /\ Answers(a, TRUE) = "core")
    BY <2>2, Zenon DEF BusWrite
  <2> QED
    BY <2>1, <2>2
<1>2. b \in States /\ Trap(INTBUS, b) \in States /\ Die(b) \in States
  BY TrapTyped, DieTyped DEF Vectors
<1>3. Logged(TRUE, a, v, b) \in States
  BY LoggedTyped
<1>4. ASSUME ~Odd(a), Answers(a, TRUE) = "core"
      PROVE  StoreCore(a, v, b) \in States
  <2>1. InCore(a)
    BY <1>4, SMT DEF Answers, DeviceAt, RK11Answers, AnswersAt7775
  <2>2. Stored(a, v, b.core) \in CoreMaps
    BY <1>4, <2>1, StoredTyped DEF States
  <2> QED
    BY <2>2 DEF StoreCore, States
<1> QED
  BY <1>1, <1>2, <1>3, <1>4

LEMMA WriteDecodedTyped ==
  ASSUME NEW b \in States, NEW a \in Nat, NEW v \in Word
  PROVE  WriteDecoded(a, v, b) \in States
<1>1. WriteDecoded(a, v, b) \in {b, writePSW(v, b), SetStackLimit(v, b), BusWrite(a, v, b)}
  BY Zenon DEF WriteDecoded
<1>2. Stored(StackLimit, v, b.io) \in DeviceMaps
  BY StoredTyped DEF States, StackLimit
<1>3. SetStackLimit(v, b) \in States
  BY <1>2 DEF SetStackLimit, States
<1> QED
  BY <1>1, <1>3, writePSWTyped, BusWriteTyped

\* Of an instruction that has ended nothing more is written, whatever v is.
LEMMA Write16Ended ==
  ASSUME NEW b, ~Live(b), NEW va, NEW v
  PROVE  Write16(va, v, b) = b
<1>1. Decode(va, currentmode(b), TRUE, b) = b
  BY Zenon DEF Decode
<1>2. Watch(b) = b
  BY DEF Watch
<1>3. WriteDecoded(b.val, v, b) = b
  BY Zenon DEF WriteDecoded
<1> QED
  BY <1>1, <1>2, <1>3 DEF Write16, WriteMapped

LEMMA Write16Typed ==
  ASSUME NEW b \in States, NEW va \in Word, NEW v, Live(b) => v \in Word
  PROVE  Write16(va, v, b) \in States
<1> DEFINE d == Decode(va, currentmode(b), TRUE, b)
           e == Watch(d)
<1>1. CASE ~Live(b)
  BY <1>1, Write16Ended
<1>2. CASE Live(b)
  <2>1. d \in States
    BY ModesTyped, DecodeTyped
  <2>2. Write16(va, v, b) = WriteDecoded(d.val, v, e)
    BY DEF Write16, WriteMapped
  <2> HIDE DEF d
  <2>3. d.val \in Nat /\ d.pc \in Word
    BY <2>1 DEF States
  <2>4. e \in States
    BY <2>1, <2>3, Read16Typed DEF Watch, Loaded
  <2> QED
    BY <1>2, <2>2, <2>3, <2>4, WriteDecodedTyped
<1> QED
  BY <1>1, <1>2

-----------------------------------------------------------------------------
(* Registers, the stack, operands. *)

LEMMA SetRTyped ==
  ASSUME NEW b \in States, NEW r \in 0 .. 7, NEW v \in Int
  PROVE  SetR(r, v, b) \in States
<1>1. Cut(2, v) \in Word
  BY CutTyped DEF Lengths
<1>2. [b.R EXCEPT ![r] = Cut(2, v)] \in Registers8
  BY <1>1 DEF States, Registers8
<1> QED
  BY <1>2 DEF SetR, States

LEMMA RegisterTyped ==
  ASSUME NEW b \in States, NEW r \in 0 .. 7
  PROVE  b.R[r] \in Word /\ b.R[r] \in Nat
BY WordTyped DEF States, Registers8

LEMMA CopyTyped ==
  ASSUME NEW b \in States, NEW r \in 0 .. 7, NEW d \in States, NEW k \in 0 .. 7
  PROVE  SetR(r, d.R[k], b) \in States
<1>1. d.R[k] \in Int
  BY RegisterTyped
<1> QED
  BY <1>1, SetRTyped

LEMMA AddRTyped ==
  ASSUME NEW b \in States, NEW r \in 0 .. 7, NEW n \in Int
  PROVE  AddR(r, n, b) \in States
<1>1. b.R[r] \in Nat
  BY RegisterTyped
<1>2. b.R[r] + n \in Int
  BY <1>1
<1> QED
  BY <1>2, SetRTyped DEF AddR

LEMMA IntoTyped ==
  ASSUME NEW b \in States, NEW r \in 0 .. 7
  PROVE  Into(r, b) \in States
<1>1. b.val \in Int
  BY DEF States
<1> QED
  BY <1>1, SetRTyped DEF Into

\* A register that moves leaves the value read.
LEMMA AddRLoaded ==
  ASSUME NEW b, NEW l, Loaded(l, b), NEW r \in 0 .. 7, NEW n \in Int
  PROVE  Loaded(l, AddR(r, n, b))
<1>1. b \in States /\ AddR(r, n, b) \in States
  BY AddRTyped DEF Loaded
<1>2. AddR(r, n, b).val = b.val /\ AddR(r, n, b).trap = b.trap /\ AddR(r, n, b).dead = b.dead
  BY <1>1 DEF AddR, SetR, States
<1> QED
  BY <1>1, <1>2 DEF Loaded, Live

LEMMA fetch16Typed ==
  ASSUME NEW b \in States
  PROVE  Loaded(2, fetch16(b))
BY RegisterTyped, Read16Typed, AddRLoaded DEF fetch16

LEMMA popTyped ==
  ASSUME NEW b \in States
  PROVE  Loaded(2, pop(b))
BY RegisterTyped, Read16Typed, AddRLoaded DEF pop

LEMMA pushTyped ==
  ASSUME NEW b \in States, NEW v, Live(b) => v \in Word
  PROVE  push(v, b) \in States
<1> DEFINE d == AddR(6, -2, b)
<1>1. d \in States
  BY AddRTyped
<1>2. Live(d) => Live(b)
  BY DEF States, AddR, SetR, Live
<1>3. push(v, b) = Write16(d.R[6], v, d)
  BY DEF push, Top
<1> HIDE DEF d
<1> QED
  BY <1>1, <1>2, <1>3, RegisterTyped, Write16Typed

LEMMA pushRTyped ==
  ASSUME NEW b \in States, NEW r \in 0 .. 7
  PROVE  pushR(r, b) \in States
BY RegisterTyped, pushTyped DEF pushR

LEMMA PointerTyped ==
  ASSUME NEW b \in States, NEW r \in 0 .. 7
  PROVE  Loaded(2, Pointer(r, b)) /\ Loaded(2, Indexed(r, b))
<1>1. b.R[r] \in Word /\ b.R[r] \in Nat /\ b.val \in Nat
  BY RegisterTyped DEF States
<1>2. b.val + b.R[r] \in Int
  BY <1>1
<1>3. Cut(2, b.val + b.R[r]) \in Word
  BY <1>2, CutTyped DEF Lengths
<1> QED
  BY <1>1, <1>3, WordLoads DEF Pointer, Indexed

LEMMA Read16Loaded ==
  ASSUME NEW b \in States, NEW va, Live(b) => va \in Word
  PROVE  Loaded(2, Read16(va, b))
<1>1. CASE Live(b)
  BY <1>1, Read16Typed
<1>2. CASE ~Live(b)
  <2>1. Decode(va, currentmode(b), FALSE, b) = b
    BY <1>2, Zenon DEF Decode
  <2>2. ReadDecoded(b) = b
    BY <1>2, Zenon DEF ReadDecoded
  <2> QED
    BY <1>2, <2>1, <2>2, EndedLoaded DEF Read16
<1> QED
  BY <1>1, <1>2

LEMMA DeferredTyped ==
  ASSUME NEW b, Loaded(2, b)
  PROVE  Loaded(2, Deferred(b))
BY Read16Loaded, Widths16 DEF Deferred, Loaded

LEMMA fetchOperandTyped ==
  ASSUME NEW b \in States, NEW l \in Lengths, NEW s \in 8 .. 63
  PROVE  Loaded(2, fetchOperand(l, s, b))
<1> DEFINE r == RegOf(s)
           by == MovesBy(l, r)
<1>1. r \in 0 .. 7 /\ ModeOf(s) \in 1 .. 7
  BY DEF RegOf, ModeOf
<1>2. by \in Int /\ -by \in Int
  BY <1>1 DEF MovesBy, Lengths
<1>3. fetchOperand(l, s, b) \in
               {Pointer(r, b), Valued(b.R[r], AddR(r, by, b)),
                Read16(b.R[r], AddR(r, 2, b)), Pointer(r, AddR(r, -by, b)),
                Deferred(Pointer(r, AddR(r, -2, b))), Indexed(r, fetch16(b)),
                Deferred(Indexed(r, fetch16(b)))}
  BY <1>1, Modes
<1> HIDE DEF r, by
<1>4. /\ b.R[r] \in Word /\ fetch16(b) \in States
      /\ AddR(r, by, b) \in States /\ AddR(r, -by, b) \in States
      /\ AddR(r, 2, b) \in States /\ AddR(r, -2, b) \in States
  <2>1. 2 \in Int /\ -2 \in Int
    OBVIOUS
  <2>2. fetch16(b) \in States
    BY fetch16Typed DEF Loaded
  <2> QED
    BY <1>1, <1>2, <2>1, <2>2, AddRTyped, RegisterTyped
<1>5. /\ Loaded(2, Pointer(r, b)) /\ Loaded(2, Valued(b.R[r], AddR(r, by, b)))
      /\ Loaded(2, Read16(b.R[r], AddR(r, 2, b))) /\ Loaded(2, Pointer(r, AddR(r, -by, b)))
      /\ Loaded(2, Indexed(r, fetch16(b))) /\ Loaded(2, Pointer(r, AddR(r, -2, b)))
  BY <1>1, <1>4, PointerTyped, WordLoads, Read16Typed
<1> QED
  BY <1>3, <1>5, DeferredTyped

LEMMA AliasTyped ==
  ASSUME NEW r \in 0 .. 7
  PROVE  AliasOf(r) \in Word
<1> DEFINE n == \o10000
<1>1. AliasOf(r) = 15 * n + r /\ n \in Nat /\ n >= 8
  BY DEF AliasOf
<1>2. Values(2) = 16 * n
  BY Widths16
<1> HIDE DEF n
<1>3. 15 * n + r \in 0 .. Values(2) - 1
  BY <1>1, <1>2
<1> QED
  BY <1>1, <1>3 DEF Word, Value

LEMMA DATyped ==
  ASSUME NEW b \in States, NEW l \in Lengths, NEW s \in 0 .. 63
  PROVE  Loaded(2, DA(l, s, b))
<1>1. CASE ModeOf(s) = 0
  <2>1. RegOf(s) \in 0 .. 7
    BY DEF RegOf
  <2> QED
    BY <1>1, <2>1, AliasTyped, WordLoads DEF DA
<1>2. CASE ModeOf(s) # 0
  <2>1. s \in 8 .. 63
    BY <1>2 DEF ModeOf
  <2> QED
    BY <1>2, <2>1, fetchOperandTyped DEF DA
<1> QED
  BY <1>1, <1>2

LEMMA ByteTyped ==
  ASSUME NEW a \in Nat, NEW w \in Word
  PROVE  ByteAt(a, w) \in Value(1)
<1> DEFINE n == Values(1)
<1>1. n \in Nat \ {0} /\ Values(2) = n * n /\ w \in 0 .. Values(2) - 1
  BY ByteInWord, Widths DEF Lengths, Word, Value
<1> HIDE DEF n
<1>2. w \div n \in 0 .. n - 1
  <2>1. w = (w \div n) * n + (w % n) /\ w % n \in 0 .. n - 1 /\ w \div n \in Nat
    <3>1. w \in Nat /\ w \in Int /\ w <= w
      BY <1>1
    <3> QED
      BY <1>1, <3>1, DivMod, DivBounds
  <2>2. ASSUME w \div n >= n  PROVE FALSE
    <3>1. (w \div n) * n >= n * n
      BY <1>1, <2>1, <2>2, SMT
    <3> QED
      BY <1>1, <2>1, <3>1
  <2> QED
    BY <1>1, <2>1, <2>2
<1>3. Cut(1, w) \in Value(1)
  BY <1>1, CutTyped DEF Lengths
<1> QED
  BY <1>2, <1>3 DEF ByteAt, Value, n

LEMMA ReadMemoryTyped ==
  ASSUME NEW b \in States, NEW l \in Lengths, NEW a, Live(b) => a \in Word
  PROVE  Loaded(l, ReadMemory(l, a, b))
<1>1. CASE l = 2
  BY <1>1, Read16Loaded DEF ReadMemory
<1>2. CASE l # 2
  <2> DEFINE d == Read16(WordOf(a), b)
  <2>0. l = 1
    BY <1>2 DEF Lengths
  <2>1. ReadMemory(l, a, b) = Valued(ByteAt(a, d.val), d)
    BY <1>2 DEF ReadMemory, ByteOf
  <2>2. Loaded(2, d)
    BY WordParts, Read16Loaded
  <2>3. Live(d) => Live(b)
    <3>1. ~Live(b) => d = b
      BY Zenon DEF Read16, Decode, ReadDecoded
    <3> QED
      BY <3>1
  <2> HIDE DEF d
  <2>4. CASE Live(d)
    <3>1. ByteAt(a, d.val) \in Value(1)
      BY <2>2, <2>3, <2>4, Widths16, ByteTyped, WordTyped DEF Loaded
    <3> QED
      BY <2>0, <2>1, <2>2, <3>1, ValueTyped DEF Loaded
  <2>5. CASE ~Live(d)
    <3>1. d \in States /\ d.val \in Nat
      BY <2>2 DEF Loaded, States
    <3>2. ByteAt(a, d.val) \in Nat
      <4>1. Cut(1, d.val) \in Nat /\ Values(1) \in Nat \ {0}
        BY <3>1, CutTyped, Widths DEF Lengths
      <4>2. d.val \div Values(1) \in Nat
        BY <3>1, <4>1, DivBounds, d.val <= d.val
      <4> QED
        BY <4>1, <4>2 DEF ByteAt
    <3>3. Valued(ByteAt(a, d.val), d) \in States
      BY <3>1, <3>2, ValuedTyped
    <3>4. ~Live(Valued(ByteAt(a, d.val), d))
      BY <2>5, <3>1 DEF States, Valued, Live
    <3> QED
      BY <2>1, <3>3, <3>4, EndedLoaded
  <2> QED
    BY <2>4, <2>5
<1> QED
  BY <1>1, <1>2

LEMMA ReadAtTyped ==
  ASSUME NEW b \in States, NEW l \in Lengths, NEW a, Live(b) => a \in Word
  PROVE  Loaded(l, ReadAt(l, a, b))
<1>1. CASE a \in Aliases
  <2>1. PICK r \in 0 .. 7 : a = AliasOf(r)
    BY <1>1 DEF Aliases
  <2>2. a % 8 \in 0 .. 7
    BY <2>1 DEF AliasOf
  <2>3. b.R[a % 8] \in Int
    BY <2>2, RegisterTyped
  <2>4. Cut(l, b.R[a % 8]) \in Value(l)
    BY <2>3, CutTyped
  <2> QED
    BY <1>1, <2>4, ValueTyped DEF ReadAt
<1>2. CASE a \notin Aliases
  BY <1>2, ReadMemoryTyped DEF ReadAt
<1> QED
  BY <1>1, <1>2

LEMMA SSTyped ==
  ASSUME NEW b \in States, NEW l \in Lengths, NEW s \in 0 .. 63
  PROVE  Loaded(l, SS(l, s, b))
<1>1. CASE ModeOf(s) = 0
  <2>1. RegOf(s) \in 0 .. 7
    BY DEF RegOf
  <2>2. b.R[RegOf(s)] \in Int
    BY <2>1, RegisterTyped
  <2>3. Cut(l, b.R[RegOf(s)]) \in Value(l)
    BY <2>2, CutTyped
  <2> QED
    BY <1>1, <2>3, ValueTyped DEF SS
<1>2. CASE ModeOf(s) # 0
  <2> DEFINE d == fetchOperand(l, s, b)
  <2>1. s \in 8 .. 63
    BY <1>2 DEF ModeOf
  <2>2. Loaded(2, d)
    BY <2>1, fetchOperandTyped
  <2>3. SS(l, s, b) = ReadMemory(l, d.val, d)
    BY <1>2 DEF SS, Fetched
  <2> HIDE DEF d
  <2>4. d \in States /\ (Live(d) => d.val \in Word)
    BY <2>2, Widths16 DEF Loaded
  <2> QED
    BY <2>3, <2>4, ReadMemoryTyped
<1> QED
  BY <1>1, <1>2

LEMMA WithByteTyped ==
  ASSUME NEW a \in Nat, NEW w \in Word, NEW v \in Int
  PROVE  WithByte(a, w, v) \in Word
<1>1. Odd(a) # Odd(a + 1)
  BY DEF Odd
<1>2. a \in Int /\ a + 1 \in Int
  OBVIOUS
<1> QED
  BY <1>1, <1>2, BytesOfAWord

LEMMA WriteAtTyped ==
  ASSUME NEW b \in States, NEW l \in Lengths, NEW a, Live(b) => a \in Word,
         NEW v \in Word
  PROVE  WriteAt(l, a, v, b) \in States
<1> DEFINE d == Read16(WordOf(a), b)
<1>1. /\ a \in Aliases => WriteAt(l, a, v, b) = SetR(a % 8, Written(l, b.R[a % 8], v), b)
      /\ a \notin Aliases /\ l = 2 => WriteAt(l, a, v, b) = Write16(a, v, b)
      /\ a \notin Aliases /\ l # 2 =>
           WriteAt(l, a, v, b) = Write16(WordOf(a), WithByte(a, d.val, v), d)
  <2>1. CASE a \in Aliases
    BY <2>1, Zenon DEF WriteAt
  <2>2. CASE a \notin Aliases /\ l = 2
    BY <2>2, Zenon DEF WriteAt
  <2>3. CASE a \notin Aliases /\ l # 2
    BY <2>3, Zenon DEF WriteAt, ReplaceByte
  <2> QED
    BY <2>1, <2>2, <2>3, Zenon
<1>2. CASE a \in Aliases
  <2>1. PICK r \in 0 .. 7 : a = AliasOf(r)
    BY <1>2 DEF Aliases
  <2>2. a % 8 \in 0 .. 7
    BY <2>1 DEF AliasOf
  <2>3. b.R[a % 8] \in Word /\ v \in Int
    BY <2>2, RegisterTyped, WordTyped
  <2>4. Written(l, b.R[a % 8], v) \in Int
    <3>1. Written(l, b.R[a % 8], v) \in Word
      BY <2>3, WrittenIsWord
    <3> QED
      BY <3>1, WordTyped
  <2> QED
    BY <1>1, <1>2, <2>2, <2>4, SetRTyped
<1>3. CASE a \notin Aliases /\ l = 2
  BY <1>1, <1>3, Write16Ended, Write16Typed
<1>4. CASE a \notin Aliases /\ l # 2
  <2>1. Loaded(2, d)
    BY WordParts, Read16Loaded
  <2>2. ~Live(b) => d = b
    BY Zenon DEF Read16, Decode, ReadDecoded
  <2>3. WriteAt(l, a, v, b) = Write16(WordOf(a), WithByte(a, d.val, v), d)
    BY <1>1, <1>4
  <2> HIDE DEF d
  <2>4. CASE ~Live(d)
    BY <2>1, <2>3, <2>4, Write16Ended DEF Loaded
  <2>5. CASE Live(d)
    <3>1. Live(b) /\ a \in Word /\ a \in Nat /\ v \in Int
      BY <2>2, <2>5, WordTyped
    <3>2. d \in States /\ d.val \in Word
      BY <2>1, <2>5, Widths16 DEF Loaded
    <3>3. WithByte(a, d.val, v) \in Word
      BY <3>1, <3>2, WithByteTyped
    <3>4. WordOf(a) \in Word
      BY <3>1, WordParts
    <3> QED
      BY <2>3, <3>2, <3>3, <3>4, Write16Typed
  <2> QED
    BY <2>4, <2>5
<1> QED
  BY <1>2, <1>3, <1>4

-----------------------------------------------------------------------------
(* Condition codes in the PSW. *)

LEMMA CodeWordTyped ==
  ASSUME NEW cc
  PROVE  CodeWord(cc) \in 0 .. 15
<1>1. CodeBit.N = 8 /\ CodeBit.Z = 4 /\ CodeBit.V = 2 /\ CodeBit.C = 1
  BY DEF CodeBit
<1>2. CodeBit["N"] = 8 /\ CodeBit["Z"] = 4 /\ CodeBit["V"] = 2 /\ CodeBit["C"] = 1
  BY <1>1
<1> QED
  BY <1>2 DEF CodeWord

LEMMA LowCodes ==
  ASSUME NEW w \in Word, NEW k \in 0 .. 15
  PROVE  w - (w % 16) + k \in Word
<1> DEFINE n == 256 * 16
           q == w \div 16
<1>1. Values(2) = 16 * n /\ n \in Nat \ {0}
  BY Widths16
<1> HIDE DEF n
<1>2. w \in Nat /\ w < 16 * n
  BY <1>1, WordTyped
<1>3. w = q * 16 + (w % 16) /\ q \in Int /\ w % 16 \in 0 .. 15
  BY <1>2
<1> HIDE DEF q
<1>4. q * 16 + k \in 0 .. 16 * n - 1
  BY <1>1, <1>2, <1>3
<1> QED
  BY <1>1, <1>3, <1>4 DEF Word, Value

LEMMA SetCodesTyped ==
  ASSUME NEW b \in States, NEW cc
  PROVE  SetCodes(cc, b) \in States
<1>1. b.psw - (b.psw % 16) + CodeWord(cc) \in Word
  BY CodeWordTyped, LowCodes DEF States
<1> QED
  BY <1>1 DEF SetCodes, States

LEMMA CodesTyped ==
  ASSUME NEW b
  PROVE  Codes(b) \subseteq Flags
BY DEF Codes

-----------------------------------------------------------------------------
(* Instructions that compute. *)

Destinations ==
  {"MOV", "CMP", "BIT", "BIC", "BIS", "ADD", "SUB", "XOR", "CLR", "COM", "INC", "DEC", "NEG",
   "ADC", "SBC", "TST", "ROR", "ROL", "ASR", "ASL", "SWAB", "SXT"}

LEMMA ComputedTyped ==
  ASSUME NEW o, o.name \in Destinations, o.len \in Lengths, NEW s \in Value(o.len),
         NEW a, Fits({Dst, Src}, a)
  PROVE  Fits({Dst, Src}, Computed(o, s, a))
<1> DEFINE D == {Dst, Src}
           l == o.len
<1>1. Dst \in D /\ Src \in D
  OBVIOUS
<1> HIDE DEF D
<1>2. s \in Word /\ s \in Int
  BY ByteInWord
<1>3. /\ Fits(D, CMP(l, s, Dst, a)) /\ Fits(D, BIT(l, s, Dst, a))
      /\ Fits(D, BIC(l, s, Dst, a)) /\ Fits(D, BIS(l, s, Dst, a))
      /\ Fits(D, Put(2, Dst, s, a, NZKeepC(l, s, a)))
  BY <1>1, <1>2, DoubleFits, PutFits, NZFits DEF D, Lengths
<1>4. /\ Fits(D, ADD(s, Dst, a)) /\ Fits(D, SUB(s, Dst, a)) /\ Fits(D, XOR(Src, Dst, a))
      /\ Fits(D, SWAB(Dst, a)) /\ Fits(D, SXT(Dst, a))
  BY <1>1, <1>2, WordFits DEF D
<1>5. /\ Fits(D, CLR(l, Dst, a)) /\ Fits(D, COM(l, Dst, a)) /\ Fits(D, INC(l, Dst, a))
      /\ Fits(D, DEC(l, Dst, a)) /\ Fits(D, NEG(l, Dst, a)) /\ Fits(D, ADC(l, Dst, a))
      /\ Fits(D, SBC(l, Dst, a)) /\ Fits(D, TST(l, Dst, a)) /\ Fits(D, ROR(l, Dst, a))
      /\ Fits(D, ROL(l, Dst, a)) /\ Fits(D, ASR(l, Dst, a)) /\ Fits(D, ASL(l, Dst, a))
  BY <1>1, SingleFits DEF D
<1>6. Computed(o, s, a) \in
        {Put(2, Dst, s, a, NZKeepC(l, s, a)), CMP(l, s, Dst, a), BIT(l, s, Dst, a),
         BIC(l, s, Dst, a), BIS(l, s, Dst, a), ADD(s, Dst, a), SUB(s, Dst, a),
         XOR(Src, Dst, a), CLR(l, Dst, a), COM(l, Dst, a), INC(l, Dst, a), DEC(l, Dst, a),
         NEG(l, Dst, a), ADC(l, Dst, a), SBC(l, Dst, a), TST(l, Dst, a), ROR(l, Dst, a),
         ROL(l, Dst, a), ASR(l, Dst, a), ASL(l, Dst, a), SWAB(Dst, a), SXT(Dst, a)}
  BY Zenon DEF Computed, Destinations
<1> QED
  BY <1>3, <1>4, <1>5, <1>6, Zenon DEF D

LEMMA StoresTyped ==
  ASSUME NEW b \in States, NEW o, o.len \in Lengths, NEW new, Fits({Dst, Src}, new),
         NEW a, Live(b) => a \in Word
  PROVE  Stores(o, new, a, b) \in States
<1> DEFINE e == IF o.name \in SetBefore THEN SetCodes(new.cc, b)
                ELSE IF o.name = "SUB" THEN SetCodes({}, b) ELSE b
           d == IF Writes(o, Codes(b)) THEN WriteAt(o.len, a, new.R[Dst], e) ELSE e
<1>1. e \in States
  BY SetCodesTyped
<1>2. Live(e) => Live(b)
  BY DEF SetCodes
<1>3. new.R[Dst] \in Word
  BY DEF Fits
<1>4. Stores(o, new, a, b) = Settled(o, new.cc, d)
  BY DEF Stores
<1> HIDE DEF e
<1>5. d \in States
  BY <1>1, <1>2, <1>3, WriteAtTyped
<1> HIDE DEF d
<1> QED
  BY <1>4, <1>5, SetCodesTyped DEF Settled

LEMMA ExtendByteTyped ==
  ASSUME NEW b \in States, NEW s \in Value(1), NEW r \in 0 .. 7
  PROVE  ExtendByte(s, r, b) \in States
<1> DEFINE a == [R |-> b.R, cc |-> Codes(b)]
           new == MOV(1, s, r, a)
<1>1. Fits(0 .. 7, a)
  BY CodesTyped DEF Fits, States, Registers8
<1>2. Fits(0 .. 7, new)
  BY <1>1, DoubleFits DEF Lengths
<1>3. new.R[r] \in Int
  BY <1>2, WordTyped DEF Fits
<1>4. ExtendByte(s, r, b) = SetCodes(new.cc, SetR(r, new.R[r], b))
  BY DEF ExtendByte
<1> HIDE DEF new
<1> QED
  BY <1>3, <1>4, SetRTyped, SetCodesTyped

LEMMA ComputeTyped ==
  ASSUME NEW o, o.name \in Destinations, o.len \in Lengths,
         NEW b, Loaded(o.len, b), NEW s, NEW x, NEW a,
         Live(b) => s \in Value(o.len) /\ x \in Word /\ a \in Word
  PROVE  Compute(o, s, x, a, b) \in States
<1>1. CASE ~Live(b)
  BY <1>1 DEF Compute, Loaded
<1>2. CASE Live(b)
  <2> DEFINE f == [k \in {Dst, Src} |-> IF k = Dst THEN b.val ELSE x]
             old == [R |-> f, cc |-> Codes(b)]
             new == Computed(o, s, old)
  <2>1. b.val \in Word /\ x \in Word /\ b \in States
    BY <1>2, ByteInWord DEF Loaded
  <2>2. f \in [{Dst, Src} -> Word]
    BY <2>1
  <2>3. Fits({Dst, Src}, old)
    BY <2>2, CodesTyped DEF Fits
  <2>4. Compute(o, s, x, a, b) = Stores(o, new, a, b)
    BY <1>2 DEF Compute
  <2> HIDE DEF old
  <2>5. Fits({Dst, Src}, new)
    BY <1>2, <2>3, ComputedTyped
  <2> HIDE DEF new
  <2> QED
    BY <1>2, <2>1, <2>4, <2>5, StoresTyped
<1> QED
  BY <1>1, <1>2

LEMMA AtAddressTyped ==
  ASSUME NEW o, o.name \in Destinations, o.len \in Lengths, NEW b, Loaded(2, b),
         NEW s, NEW x, Live(b) => s \in Value(o.len) /\ x \in Word
  PROVE  AtAddress(o, s, x, b) \in States
<1> DEFINE d == IF o.name \in {"MOV", "CLR", "SXT"} THEN Valued(0, b)
                ELSE ReadAt(o.len, b.val, b)
<1>1. b \in States /\ (Live(b) => b.val \in Word) /\ 0 \in Value(o.len)
  BY Widths16, ByteInWord DEF Loaded
<1>2. Loaded(o.len, d)
  BY <1>1, ValueTyped, ReadAtTyped
<1>3. Live(d) => Live(b)
  <2>1. Live(Valued(0, b)) => Live(b)
    BY <1>1 DEF Valued, Live, States
  <2> QED
    BY <2>1, LiveBefore
<1>4. AtAddress(o, s, x, b) = Compute(o, s, x, b.val, d)
  BY DEF AtAddress
<1> HIDE DEF d
<1> QED
  BY <1>1, <1>2, <1>3, <1>4, ComputeTyped

LEMMA LiveAddress ==
  ASSUME NEW b, NEW l, NEW s \in 0 .. 63, Live(DA(l, s, b))
  PROVE  Live(b)
<1> SUFFICES ASSUME ~Live(b)
             PROVE  ~Live(DA(l, s, b))
  OBVIOUS
<1> DEFINE r == RegOf(s)
           by == MovesBy(l, r)
<1>1. CASE ModeOf(s) = 0
  BY <1>1, EndedStays DEF DA
<1>2. CASE ModeOf(s) # 0
  <2>1. ModeOf(s) \in 1 .. 7
    BY <1>2 DEF ModeOf
  <2>2. DA(l, s, b) \in
          {Pointer(r, b), Valued(b.R[r], AddR(r, by, b)),
           Read16(b.R[r], AddR(r, 2, b)), Pointer(r, AddR(r, -by, b)),
           Deferred(Pointer(r, AddR(r, -2, b))), Indexed(r, fetch16(b)),
           Deferred(Indexed(r, fetch16(b)))}
    BY <1>2, <2>1, Modes DEF DA
  <2> HIDE DEF r, by
  <2>3. DA(l, s, b) \in
          {Pointer(r, b), Valued(b.R[r], b), Read16(b.R[r], b),
           Deferred(Pointer(r, b)), Indexed(r, b), Deferred(Indexed(r, b))}
    BY <2>2, EndedStays
  <2>4. ~Live(Pointer(r, b)) /\ ~Live(Indexed(r, b)) /\ ~Live(Valued(b.R[r], b))
    BY EndedStays DEF Pointer, Indexed
  <2>5. ~Live(Deferred(Pointer(r, b))) /\ ~Live(Deferred(Indexed(r, b)))
    BY <2>4, LiveBefore DEF Deferred
  <2> QED
    BY <2>3, <2>4, <2>5, LiveBefore
<1> QED
  BY <1>1, <1>2

LEMMA DestinationTyped ==
  ASSUME NEW o, o.name \in Destinations, o.len \in Lengths, NEW b \in States,
         NEW i \in Nat, NEW s, NEW x, Live(b) => s \in Value(o.len) /\ x \in Word
  PROVE  Destination(o, i, s, x, b) \in States
<1> DEFINE d == DA(o.len, i % 64, b)
<1>1. i % 64 \in 0 .. 63 /\ i % 8 \in 0 .. 7
  OBVIOUS
<1>2. \/ Destination(o, i, s, x, b) = b
      \/ Destination(o, i, s, x, b) = ExtendByte(s, i % 8, b) /\ Live(b) /\ o = Op("MOV", 1)
      \/ Destination(o, i, s, x, b) = AtAddress(o, s, x, d)
  <2>1. CASE ~Live(b)
    BY <2>1, Zenon DEF Destination
  <2>2. CASE Live(b) /\ o = Op("MOV", 1) /\ ModeOf(i % 64) = 0
    BY <2>2, Zenon DEF Destination
  <2>3. CASE Live(b) /\ ~(o = Op("MOV", 1) /\ ModeOf(i % 64) = 0)
    BY <2>3, Zenon DEF Destination
  <2> QED
    BY <2>1, <2>2, <2>3
<1>3. Loaded(2, d) /\ (Live(d) => Live(b))
  BY <1>1, DATyped, LiveAddress
<1> HIDE DEF d
<1>4. AtAddress(o, s, x, d) \in States
  BY <1>3, AtAddressTyped
<1>5. ASSUME Live(b), o = Op("MOV", 1)
      PROVE  ExtendByte(s, i % 8, b) \in States
  <2>1. o.len = 1
    BY <1>5 DEF Op
  <2> QED
    BY <1>1, <1>5, <2>1, ExtendByteTyped
<1> QED
  BY <1>2, <1>4, <1>5

LEMMA FieldsOf ==
  ASSUME NEW i \in Nat
  PROVE  /\ i % 64 \in 0 .. 63 /\ (i \div 64) % 64 \in 0 .. 63 /\ i % 8 \in 0 .. 7
         /\ i % 16 \in 0 .. 15 /\ RegOf(i \div 64) \in 0 .. 7 /\ i % 256 \in 0 .. 255
BY DEF RegOf

LEMMA OperandsTyped ==
  ASSUME NEW o, o.name \in Destinations, o.len \in Lengths, NEW b \in States, NEW i \in Nat
  PROVE  DoubleOperand(o, i, b) \in States /\ SingleOperand(o, i, b) \in States
<1> DEFINE d == SS(o.len, (i \div 64) % 64, b)
<1>1. Loaded(o.len, d)
  BY FieldsOf, SSTyped
<1>2. DoubleOperand(o, i, b) = Destination(o, i, d.val, 0, d)
  BY DEF DoubleOperand, ToDestination
<1>3. 0 \in Word /\ 0 \in Value(o.len) /\ b.R[RegOf(i \div 64)] \in Word
  BY ByteInWord, FieldsOf, RegisterTyped DEF Lengths, Word
<1> HIDE DEF d
<1>4. DoubleOperand(o, i, b) \in States
  BY <1>1, <1>2, <1>3, DestinationTyped DEF Loaded
<1>5. SingleOperand(o, i, b) \in States
  BY <1>3, DestinationTyped DEF SingleOperand
<1> QED
  BY <1>4, <1>5

Arithmetics == {"MUL", "DIV", "ASH", "ASHC"}

LEMMA ExtensionTyped ==
  ASSUME NEW n \in Arithmetics, NEW v \in Word, NEW r \in 0 .. 7, NEW u,
         NEW old, Fits(0 .. 7, old)
  PROVE  Fits(0 .. 7, Extension(n, v, r, u, old))
<1>1. Beside(r) \in 0 .. 7
  BY DEF Beside
<1>2. /\ Fits(0 .. 7, MUL(v, r, old)) /\ Fits(0 .. 7, DIV(v, r, old))
      /\ Fits(0 .. 7, ASH(v, r, old, u)) /\ Fits(0 .. 7, ASHC(v, r, old, u))
  BY <1>1, WordFits, DIVFits, ShiftFits
<1>3. Extension(n, v, r, u, old) \in
        {MUL(v, r, old), DIV(v, r, old), ASH(v, r, old, u), ASHC(v, r, old, u)}
  BY Zenon DEF Extension, Arithmetics
<1> QED
  BY <1>2, <1>3

LEMMA ExtendTyped ==
  ASSUME NEW n, NEW r, NEW new, Fits(0 .. 7, new), NEW b \in States
  PROVE  Extend(n, r, new, b) \in States
<1> DEFINE f == [k \in 0 .. 7 |-> IF k \in Extends(n, r, new.cc) THEN new.R[k] ELSE b.R[k]]
           d == [b EXCEPT !.R = f]
<1>1. f \in Registers8
  <2> DEFINE S == Extends(n, r, new.cc)
  <2> HIDE DEF S
  <2>1. [k \in 0 .. 7 |-> IF k \in S THEN new.R[k] ELSE b.R[k]] \in Registers8
    BY DEF Fits, States, Registers8
  <2> QED
    BY <2>1 DEF S
<1>2. Extend(n, r, new, b) = IF Live(b) THEN SetCodes(new.cc, d) ELSE b
  BY DEF Extend, States
<1> HIDE DEF f
<1>3. d \in States
  BY <1>1 DEF States
<1> HIDE DEF d
<1> QED
  BY <1>2, <1>3, SetCodesTyped

LEMMA ExtendedTyped ==
  ASSUME NEW o, o.name \in Arithmetics, NEW i \in Nat, NEW u, NEW b \in States
  PROVE  ExtendedArithmetic(o, i, u, b) \in States
<1> DEFINE e == DA(2, i % 64, b)
           d == ReadAt(2, e.val, e)
           r == RegOf(i \div 64)
           old == [R |-> b.R, cc |-> Codes(b)]
           new == Extension(o.name, d.val, r, u, old)
<1>1. Fits(0 .. 7, old)
  BY CodesTyped DEF Fits, States, Registers8
<1>2. Loaded(2, e)
  BY FieldsOf, DATyped DEF Lengths
<1>3. ExtendedArithmetic(o, i, u, b) = Extend(o.name, r, new, d)
  BY DEF ExtendedArithmetic, Source, WithSource
<1> HIDE DEF e, old
<1>4. Loaded(2, d)
  BY <1>2, ReadAtTyped, Widths16 DEF Loaded, Lengths
<1> HIDE DEF d
<1>5. CASE Live(d)
  <2>1. Fits(0 .. 7, new)
    BY <1>1, <1>4, <1>5, ExtensionTyped, FieldsOf, Widths16 DEF Loaded
  <2> QED
    BY <1>3, <1>4, <2>1, ExtendTyped DEF Loaded
<1>6. CASE ~Live(d)
  BY <1>3, <1>4, <1>6 DEF Extend, Loaded
<1> QED
  BY <1>5, <1>6

-----------------------------------------------------------------------------
(* Jumps. *)

LEMMA JumpsTyped ==
  ASSUME NEW i \in Nat, NEW b \in States
  PROVE  /\ branch(i, b) \in States /\ SOB(i, b) \in States /\ JMP(i, b) \in States
         /\ JSR(i, b) \in States /\ RTS(i, b) \in States /\ MARK(i, b) \in States
<1> DEFINE r == RegOf(i \div 64)
           d == DA(2, i % 64, b)
<1>1. r \in 0 .. 7 /\ i % 8 \in 0 .. 7
  BY FieldsOf
<1>2. branch(i, b) \in States
  <2>1. Signed(1, i % 256) \in Int
    <3>1. msb(1) \in Int /\ Values(1) \in Int /\ i % 256 \in Int
      BY Widths DEF Lengths
    <3> QED
      BY <3>1 DEF Signed
  <2>2. 2 * Signed(1, i % 256) \in Int
    BY <2>1
  <2> QED
    BY <2>2, AddRTyped DEF branch
<1>3. SOB(i, b) \in States
  <2> DEFINE e == AddR(r, -1, b)
  <2>1. -2 * (i % 64) \in Int /\ -1 \in Int /\ 7 \in 0 .. 7
    OBVIOUS
  <2>2. e \in States
    BY <1>1, <2>1, AddRTyped
  <2>3. SOB(i, b) = IF e.R[r] = 0 THEN e ELSE AddR(7, -2 * (i % 64), e)
    BY DEF SOB, SOBTaken
  <2> HIDE DEF e
  <2> QED
    BY <2>1, <2>2, <2>3, AddRTyped
<1>4. Loaded(2, d)
  BY FieldsOf, DATyped DEF Lengths
<1>5. JMP(i, b) \in States
  BY <1>4, IntoTyped, DieTyped DEF JMP, Loaded
<1>6. JSR(i, b) \in States
  <2>1. JSR(i, b) = IF ModeOf(i % 64) = 0 THEN Die(b) ELSE SetR(7, d.val, Link(r, pushR(r, d)))
    BY DEF JSR, CallAt, Call
  <2> HIDE DEF d
  <2>2. d \in States /\ d.val \in Int
    BY <1>4 DEF Loaded, States
  <2>3. pushR(r, d) \in States
    BY <1>1, <2>2, pushRTyped
  <2> DEFINE e == pushR(r, d)
             f == Link(r, e)
  <2> HIDE DEF e, r
  <2>4. f \in States
    BY <1>1, <2>3, CopyTyped, 7 \in 0 .. 7 DEF Link, e
  <2> HIDE DEF f
  <2>5. SetR(7, d.val, f) \in States
    BY <2>2, <2>4, SetRTyped, 7 \in 0 .. 7
  <2> QED
    BY <2>1, <2>5, DieTyped DEF e, f, r
<1>7. RTS(i, b) \in States
  <2> DEFINE k == i % 8
  <2> HIDE DEF k
  <2>1. SetR(7, b.R[k], b) \in States
    BY <1>1, CopyTyped, 7 \in 0 .. 7 DEF k
  <2> QED
    BY <1>1, <2>1, popTyped, IntoTyped DEF RTS, Loaded, k
<1>8. MARK(i, b) \in States
  <2>1. b.R[7] \in Nat
    BY RegisterTyped
  <2>2. b.R[7] + 2 * (i % 64) \in Int
    BY <2>1
  <2>3. SetR(6, b.R[7] + 2 * (i % 64), b) \in States
    BY <2>2, SetRTyped
  <2>4. SetR(7, b.R[5], SetR(6, b.R[7] + 2 * (i % 64), b)) \in States
    BY <2>3, CopyTyped
  <2> QED
    BY <2>4, popTyped, IntoTyped DEF MARK, Loaded
<1> QED
  BY <1>2, <1>3, <1>5, <1>6, <1>7, <1>8

-----------------------------------------------------------------------------
(* Modes and traps. *)

LEMMA SetNZTyped ==
  ASSUME NEW b \in States, NEW v
  PROVE  SetNZ(v, b) \in States
BY SetCodesTyped DEF SetNZ

LEMMA PreviousTyped ==
  ASSUME NEW b, Loaded(2, b), NEW wr \in BOOLEAN
  PROVE  Previous(wr, b) \in States /\ (Live(Previous(wr, b)) => Live(b))
<1>1. CASE Live(b)
  BY <1>1, DecodeTyped, ModesTyped, Widths16 DEF Previous, Loaded
<1>2. CASE ~Live(b)
  <2>1. Previous(wr, b) = b
    BY <1>2, Zenon DEF Previous, Decode
  <2> QED
    BY <2>1 DEF Loaded
<1> QED
  BY <1>1, <1>2

LEMMA PushValueTyped ==
  ASSUME NEW b, Loaded(2, b)
  PROVE  PushValue(b) \in States
BY pushTyped, SetNZTyped, Widths16 DEF PushValue, Loaded

LEMMA MFPITyped ==
  ASSUME NEW i \in Nat, NEW b \in States
  PROVE  MFPI(i, b) \in States
<1> DEFINE e == DA(2, i % 64, b)
           d == Previous(FALSE, e)
           v == IF InSlot(i, b) THEN b.sp[previousmode(b)] ELSE b.R[i % 8]
<1>1. MFPI(i, b) = PushValue(IF ModeOf(i % 64) # 0 THEN BusRead(d.val, d) ELSE Valued(v, b))
  BY DEF MFPI, BusReadAt
<1>2. Loaded(2, e)
  BY FieldsOf, DATyped DEF Lengths
<1> HIDE DEF e
<1>3. d \in States /\ d.val \in Nat
  BY <1>2, PreviousTyped DEF States
<1> HIDE DEF d
<1>4. Loaded(2, BusRead(d.val, d))
  BY <1>3, BusReadTyped
<1>5. v \in Word
  <2>1. b.sp[previousmode(b)] \in Word
    BY ModesTyped DEF States, Slots
  <2> QED
    BY <2>1, FieldsOf, RegisterTyped
<1> HIDE DEF v
<1>6. Loaded(2, Valued(v, b))
  BY <1>5, WordLoads
<1> QED
  BY <1>1, <1>4, <1>6, PushValueTyped

LEMMA BusWriteEnded ==
  ASSUME NEW b, ~Live(b), NEW a, NEW v
  PROVE  BusWrite(a, v, b) = b
BY Zenon DEF BusWrite

LEMMA PopToTyped ==
  ASSUME NEW i \in Nat, NEW b, Loaded(2, b)
  PROVE  PopTo(i, b) \in States
<1> DEFINE e == DA(2, i % 64, b)
           d == Previous(TRUE, e)
           m == previousmode(b)
<1>1. b \in States /\ (Live(b) => b.val \in Word)
  BY Widths16 DEF Loaded
<1>2. \/ PopTo(i, b) = b
      \/ Live(b) /\ PopTo(i, b) = BusWrite(d.val, b.val, d)
      \/ Live(b) /\ PopTo(i, b) = [b EXCEPT !.sp[m] = b.val]
      \/ PopTo(i, b) = Into(i % 8, b)
  <2>1. CASE ~Live(b)
    BY <2>1, Zenon DEF PopTo
  <2>2. CASE Live(b) /\ ModeOf(i % 64) # 0
    <3>1. ~InSlot(i, b)
      BY <2>2 DEF InSlot, ModeOf
    <3>2. PopTo(i, b) = BusWriteAt(b.val, d)
      BY <2>2, <3>1, Zenon DEF PopTo
    <3> QED
      BY <2>2, <3>2, Zenon DEF BusWriteAt
  <2>3. CASE Live(b) /\ ~(ModeOf(i % 64) # 0) /\ InSlot(i, b)
    BY <2>3, Zenon DEF PopTo
  <2>4. CASE Live(b) /\ ~(ModeOf(i % 64) # 0) /\ ~InSlot(i, b)
    BY <2>4, Zenon DEF PopTo
  <2> QED
    BY <2>1, <2>2, <2>3, <2>4
<1>3. Loaded(2, e)
  BY <1>1, FieldsOf, DATyped DEF Lengths
<1> HIDE DEF e
<1>4. d \in States /\ d.val \in Nat
  BY <1>3, PreviousTyped DEF States
<1> HIDE DEF d
<1>5. Live(b) => BusWrite(d.val, b.val, d) \in States
  BY <1>1, <1>4, BusWriteTyped
<1>6. m \in 0 .. 3
  BY <1>1, ModesTyped
<1> HIDE DEF m
<1>7. Live(b) => [b EXCEPT !.sp[m] = b.val] \in States
  <2>1. Live(b) => [b.sp EXCEPT ![m] = b.val] \in Slots
    BY <1>1, <1>6 DEF States, Slots
  <2> QED
    BY <1>1, <2>1 DEF States
<1>8. Into(i % 8, b) \in States
  BY <1>1, FieldsOf, IntoTyped
<1> QED
  BY <1>1, <1>2, <1>5, <1>7, <1>8

LEMMA MTPITyped ==
  ASSUME NEW i \in Nat, NEW b \in States
  PROVE  MTPI(i, b) \in States
BY popTyped, PopToTyped, SetNZTyped DEF MTPI, PopValue

LEMMA WordsOfPSW ==
  ASSUME NEW v \in Word, NEW i \in Nat
  PROVE  /\ v - 256 * ((v \div 256) % 8) \in Word
         /\ v - (v % 2048) + 32 * (i % 8) + (v % 32) \in Word
<1>1. v \in Nat /\ v <= v /\ v \in Int
  BY WordTyped
<1>2. v - 256 * ((v \div 256) % 8) \in Word
  <2> DEFINE q == v \div 256
             k == q % 8
  <2>1. v = q * 256 + (v % 256) /\ v % 256 \in 0 .. 255 /\ q \in Nat
    <3>1. 256 \in Nat \ {0}
      OBVIOUS
    <3>2. v = q * 256 + (v % 256) /\ v % 256 \in 0 .. 256 - 1
      BY <1>1, <3>1, DivMod
    <3> QED
      BY <1>1, <3>1, <3>2, DivBounds
  <2>2. k \in 0 .. 7 /\ k <= q
    BY <2>1, Quotients, 8 \in Nat \ {0}
  <2> HIDE DEF q, k
  <2>3. v - 256 * k \in Nat /\ v - 256 * k <= v
    BY <1>1, <2>1, <2>2
  <2> QED
    BY <2>3, WordTyped DEF q, k
<1>3. v - (v % 2048) + 32 * (i % 8) + (v % 32) \in Word
  <2> DEFINE n == 2048
             q == v \div n
             x == 32 * (i % 8) + (v % 32)
  <2>1. n \in Nat \ {0} /\ Values(2) = 32 * n /\ n >= 256
    BY ProcessorAssumption, ALUAssumption DEF Values, msb
  <2>2. x \in 0 .. 255
    <3>1. i % 8 \in 0 .. 7 /\ v % 32 \in 0 .. 31
      BY <1>1
    <3> QED
      BY <3>1
  <2> HIDE DEF n, x
  <2>3. v = q * n + (v % n) /\ v % n \in 0 .. n - 1 /\ q \in Nat
    BY <1>1, <2>1, DivMod, DivBounds
  <2>4. q \in 0 .. 31
    <3>1. q * n < 32 * n
      BY <1>1, <2>1, <2>3, WordTyped
    <3>2. ASSUME q >= 32  PROVE q * n >= 32 * n
      <4> DEFINE k == q - 32
      <4>1. k \in Nat /\ q = 32 + k
        BY <2>3, <3>2
      <4> HIDE DEF k, q
      <4>2. k * n \in Nat
        BY <2>1, <4>1, SMT
      <4>3. q * n = 32 * n + k * n
        BY <2>1, <4>1, SMT
      <4> QED
        BY <2>1, <4>2, <4>3
    <3> DEFINE x1 == q * n
               x2 == 32 * n
    <3>3. x1 \in Int /\ x2 \in Int
      BY <2>1, <2>3, SMT
    <3>4. x1 < x2 /\ (q >= 32 => x1 >= x2)
      BY <3>1, <3>2
    <3> HIDE DEF x1, x2, q
    <3> QED
      BY <2>3, <3>3, <3>4
  <2>5. q * n + x \in 0 .. Values(2) - 1
    <3>1. q * n \in Nat /\ q * n <= 31 * n
      BY <2>1, <2>4, SMT
    <3> QED
      BY <2>1, <2>2, <3>1
  <2>6. v - (v % n) + x \in Word
    BY <1>1, <2>1, <2>2, <2>3, <2>5 DEF Word, Value
  <2>7. v - (v % n) + 32 * (i % 8) + (v % 32) = v - (v % n) + x
    <3>1. v % n \in Int /\ 32 * (i % 8) \in Int /\ v % 32 \in Int
      BY <1>1, <2>1
    <3> QED
      BY <1>1, <3>1 DEF x
  <2> QED
    BY <2>6, <2>7 DEF n
<1> QED
  BY <1>2, <1>3

LEMMA CodeMasks ==
  ASSUME NEW v \in Word, NEW k \in 0 .. 15
  PROVE  And(v, k) \in Word /\ Or(v, k) \in Word
<1>1. k \in Word
  <2> DEFINE n == \o20000
  <2>1. n \in Nat /\ n >= 16 /\ Values(2) = 8 * n
    BY Widths16
  <2> HIDE DEF n
  <2> QED
    BY <2>1 DEF Word, Value
<1> QED
  BY <1>1, LogicFits, Widths16 DEF Lengths

LEMMA ModeMasks ==
  ASSUME NEW v \in Word, NEW m \in 0 .. 3, NEW n, n = \o10000
  PROVE  (v % n) + n * m \in Word /\ Or(v, n * m) \in Word
<1>1. v \in Nat
  BY WordTyped
<1>2. n \in Nat \ {0} /\ Values(2) = 16 * n
  BY Widths16
<1>3. v % n \in 0 .. n - 1
  BY <1>1, <1>2
<1>4. n * m \in Nat /\ n * m <= 3 * n
  BY <1>2
<1>5. (v % n) + n * m \in Word /\ n * m \in Word
  BY <1>1, <1>2, <1>3, <1>4 DEF Word, Value
<1>6. Or(v, n * m) \in Word
  BY <1>5, LogicFits, Widths16 DEF Lengths
<1> QED
  BY <1>5, <1>6

LEMMA writePSWEnded ==
  ASSUME NEW b, ~Live(b), NEW w
  PROVE  writePSW(w, b) = b
BY DEF writePSW

LEMMA PSWsTyped ==
  ASSUME NEW i \in Nat, NEW b \in States
  PROVE  /\ RTT(b) \in States /\ SPL(i, b) \in States /\ CLRCC(i, b) \in States
         /\ SETCC(i, b) \in States /\ kernelmode(b) \in States
<1>1. b.psw \in Word
  BY DEF States
<1>2. SPL(i, b) \in States
  <2> DEFINE w == b.psw - (b.psw % 2048) + 32 * (i % 8) + (b.psw % 32)
  <2>1. w \in Word
    BY <1>1, WordsOfPSW
  <2>2. SPL(i, b) = writePSW(w, b)
    BY DEF SPL
  <2> HIDE DEF w
  <2> QED
    BY <2>1, <2>2, writePSWTyped
<1>4. CLRCC(i, b) \in States /\ SETCC(i, b) \in States
  <2>1. 15 - (i % 16) \in 0 .. 15 /\ i % 16 \in 0 .. 15
    OBVIOUS
  <2>2. And(b.psw, 15 - (i % 16)) \in Word /\ Or(b.psw, i % 16) \in Word
    BY <1>1, <2>1, CodeMasks, Zenon
  <2> QED
    BY <2>2, writePSWTyped, Zenon DEF CLRCC, SETCC
<1>6. kernelmode(b) \in States
  <2> DEFINE n == \o10000
             w == (b.psw % n) + n * currentmode(b)
  <2>1. currentmode(b) \in 0 .. 3
    BY ModesTyped
  <2>2. kernelmode(b) = writePSW(w, b)
    BY DEF kernelmode
  <2>3. n = \o10000
    OBVIOUS
  <2> HIDE DEF n
  <2>4. w \in Word
    BY <1>1, <2>1, <2>3, ModeMasks
  <2> HIDE DEF w
  <2> QED
    BY <2>2, <2>4, writePSWTyped
<1>3. RTT(b) \in States
  <2> DEFINE d == pop(b)
             e == Into(7, d)
             f == pop(e)
  <2>1. RTT(b) = writePSW(f.val - 256 * ((f.val \div 256) % 8), f)
    BY DEF RTT, ReturnPSW
  <2>2. d \in States
    BY popTyped DEF Loaded
  <2> HIDE DEF d
  <2>3. e \in States
    BY <2>2, IntoTyped, 7 \in 0 .. 7
  <2> HIDE DEF e
  <2>4. Loaded(2, f)
    BY <2>3, popTyped
  <2> HIDE DEF f
  <2>5. CASE Live(f)
    BY <2>1, <2>4, <2>5, WordsOfPSW, writePSWTyped, Widths16 DEF Loaded
  <2>6. CASE ~Live(f)
    BY <2>1, <2>4, <2>6, writePSWEnded DEF Loaded
  <2> QED
    BY <2>5, <2>6
<1> QED
  BY <1>2, <1>3, <1>4, <1>6

LEMMA HandlerTyped ==
  ASSUME NEW b \in States, NEW vec \in Word, vec + 2 \in Word
  PROVE  Handler(vec, b) \in States
<1> DEFINE d == Into(7, Read16(vec, b))
           e == Read16(vec + 2, d)
<1>1. Handler(vec, b) = writePSW(Or(e.val, \o10000 * previousmode(e)), e)
  BY DEF Handler, TrapPSW
<1>2. Read16(vec, b) \in States
  BY Read16Typed DEF Loaded
<1>3. d \in States
  BY <1>2, IntoTyped, 7 \in 0 .. 7
<1> HIDE DEF d
<1>4. Loaded(2, e)
  BY <1>3, Read16Typed
<1> HIDE DEF e
<1>5. CASE Live(e)
  <2> DEFINE n == \o10000
             w == Or(e.val, n * previousmode(e))
  <2>1. e \in States /\ e.val \in Word
    BY <1>4, <1>5, Widths16 DEF Loaded
  <2>2. previousmode(e) \in 0 .. 3
    BY <2>1, ModesTyped
  <2>3. Handler(vec, b) = writePSW(w, e)
    BY <1>1
  <2>4. n = \o10000
    OBVIOUS
  <2> HIDE DEF n
  <2>5. w \in Word
    BY <2>1, <2>2, <2>4, ModeMasks
  <2> HIDE DEF w
  <2> QED
    BY <2>1, <2>3, <2>5, writePSWTyped
<1>6. CASE ~Live(e)
  BY <1>1, <1>4, <1>6, writePSWEnded DEF Loaded
<1> QED
  BY <1>5, <1>6

\* The vectors are words, and what follows them.
VectorOK(vec) == vec \in Word /\ vec + 2 \in Word

LEMMA VectorsOK ==
  /\ VectorOK(INTBUS) /\ VectorOK(INTFAULT)
  /\ \A n \in DOMAIN TrapVectors : VectorOK(TrapVectors[n])
<1> DEFINE n == \o20000
<1>1. n \in Nat /\ n >= 256 /\ Values(2) = 8 * n
  BY Widths16
<1> HIDE DEF n
<1>2. \A v \in 0 .. 255 : VectorOK(v)
  BY <1>1 DEF VectorOK, Word, Value
<1>3. INTBUS \in 0 .. 255 /\ INTFAULT \in 0 .. 255
  BY DEF INTBUS, INTFAULT
<1>4. ASSUME NEW x \in DOMAIN TrapVectors
      PROVE  TrapVectors[x] \in 0 .. 255
  <2>1. x \in {"BPT", "IOT", "MFPT", "EMT", "TRAP", "invalid"}
    BY DEF TrapVectors
  <2> QED
    BY <2>1 DEF TrapVectors
<1> QED
  BY <1>2, <1>3, <1>4

LEMMA trapatTyped ==
  ASSUME NEW vec, VectorOK(vec), NEW b \in States
  PROVE  trapat(vec, b) \in States
<1> DEFINE d == push(b.psw, kernelmode(b))
<1>1. trapat(vec, b) = Handler(vec, pushR(7, d))
  BY DEF trapat
<1>2. d \in States
  BY PSWsTyped, pushTyped, 0 \in Nat DEF States
<1> HIDE DEF d
<1>3. pushR(7, d) \in States
  BY <1>2, pushRTyped, 7 \in 0 .. 7
<1> QED
  BY <1>1, <1>3, HandlerTyped DEF VectorOK

LEMMA RESETTyped ==
  ASSUME NEW b \in States
  PROVE  RESET(b) \in States
<1>1. 0 \in Word
  BY ByteInWord DEF Lengths, Word
<1>2. Append(b.log, BusReset) \in Accesses
  BY <1>1 DEF States, Accesses, BusReset
<1> QED
  BY <1>2 DEF RESET, States

-----------------------------------------------------------------------------
(* Every word is an instruction that step() knows. *)

Branching ==
  {"BR", "BNE", "BEQ", "BGE", "BLT", "BGT", "BLE",
   "BPL", "BMI", "BHI", "BLOS", "BVC", "BVS", "BCC", "BCS"}

Others ==
  {"SOB", "JMP", "JSR", "RTS", "MARK", "MFPI", "MTPI", "RTI", "RTT", "SPL", "CLRCC",
   "SETCC", "BPT", "IOT", "MFPT", "EMT", "TRAP", "invalid", "RESET", "HALT", "WAIT",
   "SETD"}

Names == Destinations \cup Arithmetics \cup Branching \cup Others

\* Byte instructions compute a destination.
Operations ==
  {o \in [name : Names, len : Lengths] : o.len = 1 => o.name \in Destinations}

LEMMA OpTyped ==
  ASSUME NEW n \in Names
  PROVE  /\ Op(n, 2) \in Operations
         /\ n \in Destinations => Op(n, 1) \in Operations
<1>1. 1 \in Lengths /\ 2 \in Lengths /\ 1 # 2
  BY DEF Lengths
<1> QED
  BY <1>1 DEF Op, Operations

LEMMA OthersNamed ==
  /\ \A n \in Others : n \in Names
  /\ \A n \in Branching : n \in Names
  /\ \A n \in Destinations : n \in Names
  /\ \A n \in Arithmetics : n \in Names
  /\ Invalid \in Operations
<1>1. /\ \A n \in Others : n \in Names
      /\ \A n \in Branching : n \in Names
      /\ \A n \in Destinations : n \in Names
      /\ \A n \in Arithmetics : n \in Names
  BY DEF Names
<1>2. "invalid" \in Others
  BY DEF Others
<1> QED
  BY <1>1, <1>2, OpTyped DEF Invalid

LEMMA TableNames ==
  /\ \A k \in 1 .. 7 : Branches[k] \in Branching
  /\ \A k \in 1 .. 8 : ByteBranches[k] \in Branching /\ Zeroes[k] \in Others
  /\ \A k \in 1 .. 12 : Singles[k] \in Destinations
  /\ \A k \in 1 .. 5 : Doubles[k] \in Destinations
  /\ \A k \in 1 .. 5 : Extended[k] \in Destinations \cup Arithmetics
<1>1. \A k \in 1 .. 7 : Branches[k] \in Branching
  BY DEF Branches, Branching
<1>2. \A k \in 1 .. 8 : ByteBranches[k] \in Branching
  BY DEF ByteBranches, Branching
<1>3. \A k \in 1 .. 8 : Zeroes[k] \in Others
  BY DEF Zeroes, Others
<1>4. \A k \in 1 .. 12 : Singles[k] \in Destinations
  BY DEF Singles, Destinations
<1>5. \A k \in 1 .. 5 : Doubles[k] \in Destinations
  BY DEF Doubles, Destinations
<1>6. \A k \in 1 .. 5 : Extended[k] \in Destinations \cup Arithmetics
  BY DEF Extended, Destinations, Arithmetics
<1> QED
  BY <1>1, <1>2, <1>3, <1>4, <1>5, <1>6

LEMMA GroupsTyped ==
  ASSUME NEW i \in Nat
  PROVE  WordGroup(i) \in Operations /\ ByteGroup(i) \in Operations
<1>2. \A n \in Others \cup Branching \cup Destinations \cup Arithmetics : n \in Names
  BY OthersNamed
<1>3. ZeroGroup(i) \in Operations
  <2>1. i < 8 => i + 1 \in 1 .. 8
    OBVIOUS
  <2>2. i < 8 => Op(Zeroes[i + 1], 2) \in Operations
    BY <1>2, <2>1, OpTyped, TableNames
  <2>3. \A n \in Others : Op(n, 2) \in Operations
    BY <1>2, OpTyped
  <2>4. /\ {"JMP", "RTS", "SPL", "CLRCC", "SETCC"} \subseteq Others
        /\ "SWAB" \in Destinations
    BY DEF Others, Destinations
  <2>5. Op("SWAB", 2) \in Operations
    BY <1>2, <2>4, OpTyped
  <2> QED
    BY <2>2, <2>3, <2>4, <2>5, OthersNamed, Zenon DEF ZeroGroup
<1>4. ASSUME NEW x \in Nat, NEW l \in {1, 2}
      PROVE  OneOperand(x, l) \in Operations
  <2>1. x % 64 \in \o50 .. \o63 => (x % 64) - \o50 + 1 \in 1 .. 12
    OBVIOUS
  <2>2. x % 64 \in \o50 .. \o63 => Op(Singles[(x % 64) - \o50 + 1], l) \in Operations
    BY <1>2, <2>1, OpTyped, TableNames
  <2>3. /\ Op("MARK", 2) \in Operations /\ Op("MFPI", 2) \in Operations
        /\ Op("MTPI", 2) \in Operations
    BY <1>2, OpTyped DEF Others
  <2>4. Op("SXT", 2) \in Operations
    BY <1>2, OpTyped DEF Destinations
  <2> QED
    BY <2>2, <2>3, <2>4, OthersNamed, Zenon DEF OneOperand
<1>5. OneOperand(i \div 64, 1) \in Operations /\ OneOperand(i \div 64, 2) \in Operations
  BY <1>4
<1>6. /\ Op("JSR", 2) \in Operations /\ Op("EMT", 2) \in Operations
      /\ Op("TRAP", 2) \in Operations
  BY <1>2, OpTyped DEF Others
<1>7. \A k \in 1 .. 7 : Op(Branches[k], 2) \in Operations
  BY <1>2, OpTyped, TableNames
<1>8. \A k \in 1 .. 8 : Op(ByteBranches[k], 2) \in Operations
  BY <1>2, OpTyped, TableNames
<1>9. WordGroup(i) \in Operations
  BY <1>3, <1>5, <1>6, <1>7, Zenon DEF WordGroup
<1>10. ByteGroup(i) \in Operations
  <2> DEFINE b == (i \div 256) % 16
  <2>1. b < 8 => b + 1 \in 1 .. 8
    OBVIOUS
  <2>2. b < 8 => Op(ByteBranches[b + 1], 2) \in Operations
    BY <1>8, <2>1
  <2> QED
    BY <1>5, <1>6, <2>2, Zenon DEF ByteGroup
<1> QED
  BY <1>9, <1>10

LEMMA OperationTyped ==
  ASSUME NEW i \in Nat
  PROVE  Operation(i) \in Operations
<1> DEFINE g == i \div 4096
           r == (i \div 512) % 8
           last == IF i = \o170011 THEN Op("SETD", 2) ELSE Invalid
<1>2. \A n \in Others \cup Branching \cup Destinations \cup Arithmetics : n \in Names
  BY OthersNamed
<1>3. \A k \in 1 .. 5 : Op(Doubles[k], 1) \in Operations /\ Op(Doubles[k], 2) \in Operations
  BY <1>2, OpTyped, TableNames
<1>4. \A k \in 9 .. 13 : k - 8 \in 1 .. 5
  OBVIOUS
<1>5. r < 5 => r + 1 \in 1 .. 5
  OBVIOUS
<1>6. r < 5 => Op(Extended[r + 1], 2) \in Operations
  BY <1>2, <1>5, OpTyped, TableNames
<1>7. Op("SOB", 2) \in Operations /\ Op("SETD", 2) \in Operations
  BY <1>2, OpTyped DEF Others
<1>8. Op("ADD", 2) \in Operations /\ Op("SUB", 2) \in Operations
  BY <1>2, OpTyped DEF Destinations
<1>9. last \in Operations
  BY <1>7, OthersNamed
<1>10. Operation(i) =
         CASE g = 0 -> WordGroup(i)
           [] g \in 1 .. 5 -> Op(Doubles[g], 2)
           [] g = 6 -> Op("ADD", 2)
           [] g = 7 -> IF r < 5 THEN Op(Extended[r + 1], 2)
                       ELSE IF r = 7 THEN Op("SOB", 2) ELSE Invalid
           [] g = 8 -> ByteGroup(i)
           [] g \in 9 .. 13 -> Op(Doubles[g - 8], 1)
           [] g = 14 -> Op("SUB", 2)
           [] OTHER -> last
  BY DEF Operation
<1> HIDE DEF g, r, last
<1> QED
  BY <1>3, <1>4, <1>6, <1>7, <1>8, <1>9, <1>10, GroupsTyped, OthersNamed, Zenon

LEMMA GroupNames ==
  /\ {Doubles[k] : k \in 1 .. 5} \cup {"ADD", "SUB"} \subseteq Destinations
  /\ {Singles[k] : k \in 1 .. 12} \cup {"SWAB", "SXT", "XOR"} \subseteq Destinations
  /\ Destinations \subseteq ({Doubles[k] : k \in 1 .. 5} \cup {"ADD", "SUB"})
                              \cup ({Singles[k] : k \in 1 .. 12} \cup {"SWAB", "SXT", "XOR"})
  /\ Branching \subseteq {Branches[k] : k \in 1 .. 7} \cup {ByteBranches[k] : k \in 1 .. 8}
<1>1. {"ADD", "SUB", "SWAB", "SXT", "XOR"} \subseteq Destinations
  BY DEF Destinations
<1>2. ASSUME NEW n \in Destinations
      PROVE  n \in ({Doubles[k] : k \in 1 .. 5} \cup {"ADD", "SUB"})
                     \cup ({Singles[k] : k \in 1 .. 12} \cup {"SWAB", "SXT", "XOR"})
  <2>1. /\ Doubles[1] = "MOV" /\ Doubles[2] = "CMP" /\ Doubles[3] = "BIT"
        /\ Doubles[4] = "BIC" /\ Doubles[5] = "BIS"
    BY DEF Doubles
  <2>2. /\ Singles[1] = "CLR" /\ Singles[2] = "COM" /\ Singles[3] = "INC"
        /\ Singles[4] = "DEC" /\ Singles[5] = "NEG" /\ Singles[6] = "ADC"
        /\ Singles[7] = "SBC" /\ Singles[8] = "TST" /\ Singles[9] = "ROR"
        /\ Singles[10] = "ROL" /\ Singles[11] = "ASR" /\ Singles[12] = "ASL"
    BY DEF Singles
  <2>3. 1 .. 5 = {1, 2, 3, 4, 5} /\ 1 .. 12 = {1, 2, 3, 4, 5, 6, 7, 8, 9, 10, 11, 12}
    OBVIOUS
  <2> QED
    BY <2>1, <2>2, <2>3 DEF Destinations
<1>3. ASSUME NEW n \in Branching
      PROVE  n \in {Branches[k] : k \in 1 .. 7} \cup {ByteBranches[k] : k \in 1 .. 8}
  <2>1. /\ Branches[1] = "BR" /\ Branches[2] = "BNE" /\ Branches[3] = "BEQ"
        /\ Branches[4] = "BGE" /\ Branches[5] = "BLT" /\ Branches[6] = "BGT"
        /\ Branches[7] = "BLE"
    BY DEF Branches
  <2>2. /\ ByteBranches[1] = "BPL" /\ ByteBranches[2] = "BMI" /\ ByteBranches[3] = "BHI"
        /\ ByteBranches[4] = "BLOS" /\ ByteBranches[5] = "BVC" /\ ByteBranches[6] = "BVS"
        /\ ByteBranches[7] = "BCC" /\ ByteBranches[8] = "BCS"
    BY DEF ByteBranches
  <2>3. 1 .. 7 = {1, 2, 3, 4, 5, 6, 7} /\ 1 .. 8 = {1, 2, 3, 4, 5, 6, 7, 8}
    OBVIOUS
  <2> QED
    BY <2>1, <2>2, <2>3 DEF Branching
<1>4. {Doubles[k] : k \in 1 .. 5} \subseteq Destinations
  BY TableNames
<1>5. {Singles[k] : k \in 1 .. 12} \subseteq Destinations
  BY TableNames
<1> QED
  BY <1>1, <1>2, <1>3, <1>4, <1>5

DoubleArm == {Doubles[k] : k \in 1 .. 5} \cup {"ADD", "SUB"}
SingleArm == {Singles[k] : k \in 1 .. 12} \cup {"SWAB", "SXT", "XOR"}
BranchArm == {Branches[k] : k \in 1 .. 7} \cup {ByteBranches[k] : k \in 1 .. 8}

\* Whatever the instruction is, one arm of the switch is its.
LEMMA PerformArms ==
  ASSUME NEW i \in Nat, NEW u, NEW b, NEW G,
         LET o == Operation(i)
             n == o.name
         IN  /\ n \in DoubleArm => DoubleOperand(o, i, b) \in G
             /\ n \in SingleArm => SingleOperand(o, i, b) \in G
             /\ n \in Arithmetics => ExtendedArithmetic(o, i, u, b) \in G
             /\ n \in BranchArm => branch(i, b) \in G /\ b \in G
             /\ n = "SOB" => SOB(i, b) \in G
             /\ n = "JMP" => JMP(i, b) \in G
             /\ n = "JSR" => JSR(i, b) \in G
             /\ n = "RTS" => RTS(i, b) \in G
             /\ n = "MARK" => MARK(i, b) \in G
             /\ n = "MFPI" => MFPI(i, b) \in G
             /\ n = "MTPI" => MTPI(i, b) \in G
             /\ n \in {"RTI", "RTT"} => RTT(b) \in G
             /\ n = "SPL" => SPL(i, b) \in G
             /\ n = "CLRCC" => CLRCC(i, b) \in G
             /\ n = "SETCC" => SETCC(i, b) \in G
             /\ n \in DOMAIN TrapVectors => trapat(TrapVectors[n], b) \in G
             /\ n = "RESET" => RESET(b) \in G
             /\ n = "HALT" => Die(b) \in G
             /\ n \in {"WAIT", "SETD"} => b \in G
  PROVE  Perform(i, u, b) \in G
<1> DEFINE o == Operation(i)
           n == o.name
<1>1. n \in Names
  BY OperationTyped DEF Operations
<1>2. n \in DoubleArm \/ n \in SingleArm \/ n \in Arithmetics \/ n \in BranchArm \/ n \in Others
  BY <1>1, GroupNames DEF Names, DoubleArm, SingleArm, BranchArm
<1>3. {"BPT", "IOT", "MFPT", "EMT", "TRAP", "invalid"} \subseteq DOMAIN TrapVectors
  BY DEF TrapVectors
<1>4. Perform(i, u, b) =
         CASE n \in DoubleArm -> DoubleOperand(o, i, b)
           [] n \in SingleArm -> SingleOperand(o, i, b)
           [] n \in Arithmetics -> ExtendedArithmetic(o, i, u, b)
           [] n \in BranchArm -> IF Taken(n, Codes(b)) THEN branch(i, b) ELSE b
           [] n = "SOB" -> SOB(i, b)
           [] n = "JMP" -> JMP(i, b)
           [] n = "JSR" -> JSR(i, b)
           [] n = "RTS" -> RTS(i, b)
           [] n = "MARK" -> MARK(i, b)
           [] n = "MFPI" -> MFPI(i, b)
           [] n = "MTPI" -> MTPI(i, b)
           [] n \in {"RTI", "RTT"} -> RTT(b)
           [] n = "SPL" -> SPL(i, b)
           [] n = "CLRCC" -> CLRCC(i, b)
           [] n = "SETCC" -> SETCC(i, b)
           [] n \in DOMAIN TrapVectors -> trapat(TrapVectors[n], b)
           [] n = "RESET" -> RESET(b)
           [] n = "HALT" -> Die(b)
           [] n \in {"WAIT", "SETD"} -> b
  BY Zenon DEF Perform, Arithmetics, DoubleArm, SingleArm, BranchArm
<1>6. /\ n \in DoubleArm => DoubleOperand(o, i, b) \in G
      /\ n \in SingleArm => SingleOperand(o, i, b) \in G
      /\ n \in Arithmetics => ExtendedArithmetic(o, i, u, b) \in G
      /\ n \in BranchArm => branch(i, b) \in G /\ b \in G
      /\ n = "SOB" => SOB(i, b) \in G
      /\ n = "JMP" => JMP(i, b) \in G
      /\ n = "JSR" => JSR(i, b) \in G
      /\ n = "RTS" => RTS(i, b) \in G
      /\ n = "MARK" => MARK(i, b) \in G
      /\ n = "MFPI" => MFPI(i, b) \in G
      /\ n = "MTPI" => MTPI(i, b) \in G
      /\ n \in {"RTI", "RTT"} => RTT(b) \in G
      /\ n = "SPL" => SPL(i, b) \in G
      /\ n = "CLRCC" => CLRCC(i, b) \in G
      /\ n = "SETCC" => SETCC(i, b) \in G
      /\ n \in DOMAIN TrapVectors => trapat(TrapVectors[n], b) \in G
      /\ n = "RESET" => RESET(b) \in G
      /\ n = "HALT" => Die(b) \in G
      /\ n \in {"WAIT", "SETD"} => b \in G
  OBVIOUS
<1> HIDE DEF o, n
<1>5. n \in Others =>
         \/ n = "SOB" \/ n = "JMP" \/ n = "JSR" \/ n = "RTS" \/ n = "MARK" \/ n = "MFPI"
         \/ n = "MTPI" \/ n \in {"RTI", "RTT"} \/ n = "SPL" \/ n = "CLRCC" \/ n = "SETCC"
         \/ n \in DOMAIN TrapVectors \/ n = "RESET" \/ n = "HALT" \/ n \in {"WAIT", "SETD"}
  BY <1>3, Zenon DEF Others
<1> QED
  BY <1>2, <1>4, <1>5, <1>6

LEMMA PerformTyped ==
  ASSUME NEW i \in Nat, NEW u, NEW b \in States
  PROVE  Perform(i, u, b) \in States
<1> DEFINE o == Operation(i)
           n == o.name
<1>1. o.len \in Lengths
  BY OperationTyped DEF Operations
<1>2. n \in DoubleArm => DoubleOperand(o, i, b) \in States
  BY <1>1, GroupNames, OperandsTyped DEF DoubleArm
<1>3. n \in SingleArm => SingleOperand(o, i, b) \in States
  BY <1>1, GroupNames, OperandsTyped DEF SingleArm
<1>4. n \in Arithmetics => ExtendedArithmetic(o, i, u, b) \in States
  BY ExtendedTyped
<1>5. /\ branch(i, b) \in States /\ SOB(i, b) \in States /\ JMP(i, b) \in States
      /\ JSR(i, b) \in States /\ RTS(i, b) \in States /\ MARK(i, b) \in States
  BY JumpsTyped
<1>6. MFPI(i, b) \in States /\ MTPI(i, b) \in States
  BY MFPITyped, MTPITyped
<1>7. /\ RTT(b) \in States /\ SPL(i, b) \in States /\ CLRCC(i, b) \in States
      /\ SETCC(i, b) \in States
  BY PSWsTyped
<1>8. n \in DOMAIN TrapVectors => trapat(TrapVectors[n], b) \in States
  BY VectorsOK, trapatTyped
<1>9. RESET(b) \in States /\ Die(b) \in States
  BY RESETTyped, DieTyped
<1> QED
  BY <1>2, <1>3, <1>4, <1>5, <1>6, <1>7, <1>8, <1>9, PerformArms

LEMMA stepTyped ==
  ASSUME NEW u, NEW b \in States
  PROVE  step(u, b) \in States
<1> DEFINE d == [b EXCEPT !.pc = b.R[7], !.log = <<>>]
           f == fetch16(d)
<1>1. b.R[7] \in Word
  BY RegisterTyped, 7 \in 0 .. 7
<1>2. <<>> \in Accesses
  BY DEF Accesses
<1>3. d \in States
  BY <1>1, <1>2 DEF States
<1> HIDE DEF d
<1>4. Loaded(2, f)
  BY <1>3, fetch16Typed
<1>5. step(u, b) = Started(u, f)
  BY DEF step, d
<1> HIDE DEF f
<1>6. CASE Live(f)
  <2>1. f \in States /\ f.val \in Nat
    BY <1>4, <1>6, Widths16, WordTyped DEF Loaded
  <2> QED
    BY <1>5, <1>6, <2>1, PerformTyped DEF Started
<1>7. CASE ~Live(f)
  BY <1>4, <1>5, <1>7 DEF Started, Loaded
<1> QED
  BY <1>6, <1>7

-----------------------------------------------------------------------------
(* The processor's state between instructions. *)

LEMMA StateTyped ==
  ASSUME NEW d, IsState(d)
  PROVE  d \in States
<1>1. /\ d.core \in [DOMAIN d.core -> Word] /\ d.io \in [DOMAIN d.io -> Word]
      /\ DOMAIN d.core \subseteq Nat /\ DOMAIN d.io \subseteq Nat
      /\ \A a \in DOMAIN d.core : ~Odd(a) /\ InCore(a)
  BY DEF IsState
<1>2. DOMAIN d.core \in SUBSET {a \in Nat : ~Odd(a) /\ InCore(a)}
  BY <1>1
<1>3. d.core \in CoreMaps
  BY <1>1, <1>2, Zenon DEF CoreMaps
<1>4. d.io \in DeviceMaps
  BY <1>1, Zenon DEF DeviceMaps
<1>5. <<>> \in Accesses /\ 0 \in Nat
  BY DEF Accesses
<1>6. d \in [R : Registers8, psw : Word, sp : Slots, pc : Word, core : {d.core},
             mmu : Units, io : {d.io}, log : {<<>>}, val : {0}, trap : Vectors,
             dead : BOOLEAN]
  BY Zenon DEF IsState, Registers8, Slots, Units, Vectors
<1> QED
  BY <1>3, <1>4, <1>5, <1>6 DEF States

LEMMA RestTyped ==
  ASSUME NEW d \in States
  PROVE  IsState(AtRest(d))
<1> DEFINE e == AtRest(d)
<1>1. /\ e \in [R : Registers8, psw : Word, sp : Slots, pc : Word, core : {d.core},
                mmu : Units, io : {d.io}, log : {<<>>}, val : {0}, trap : Vectors,
                dead : BOOLEAN]
      /\ e.core = d.core /\ e.io = d.io
  BY DEF AtRest, States
<1>2. PICK S \in SUBSET {a \in Nat : ~Odd(a) /\ InCore(a)} : d.core \in [S -> Word]
  BY Zenon DEF States, CoreMaps
<1>3. PICK T \in SUBSET Nat : d.io \in [T -> Word]
  BY Zenon DEF States, DeviceMaps
<1>4. /\ d.core \in [DOMAIN d.core -> Word] /\ d.io \in [DOMAIN d.io -> Word]
      /\ DOMAIN d.core \subseteq Nat /\ DOMAIN d.io \subseteq Nat
      /\ \A a \in DOMAIN d.core : ~Odd(a) /\ InCore(a)
  BY <1>2, <1>3
<1> HIDE DEF e
<1> QED
  BY <1>1, <1>4 DEF IsState, e, Registers8, Slots, Units, Vectors

LEMMA AnsweredTyped ==
  ASSUME NEW d \in States, d.trap # 0
  PROVE  IsState(Answered(d))
<1> DEFINE e == [d EXCEPT !.trap = 0]
<1>1. d.trap \in {INTBUS, INTFAULT}
  BY DEF States, Vectors
<1>2. VectorOK(d.trap)
  BY <1>1, VectorsOK
<1>3. e \in States
  BY DEF States, Vectors
<1> HIDE DEF e
<1>4. trapat(d.trap, e) \in States
  BY <1>2, <1>3, trapatTyped
<1> QED
  BY <1>4, RestTyped DEF Answered, e

(***************************************************************************)
(* Whatever program runs on whatever memory, page table and devices, the   *)
(* registers, the PSW, the stack pointers and memory hold words of 16 bits *)
(* after every instruction and every trap, memory keeps to even addresses  *)
(* below the I/O page, and what is thrown is a bus error or an MMU fault.  *)
(***************************************************************************)
THEOREM ProcessorTypeCorrect == Spec => []TypeOK
<1>1. Init => TypeOK
  <2>1. 0 \in 0 .. MaxSteps
    BY ProcessorAssumption
  <2> QED
    BY <2>1, ProcessorAssumption DEF Init, TypeOK
<1>2. TypeOK /\ [Next]_vars => TypeOK'
  <2> SUFFICES ASSUME TypeOK, [Next]_vars
               PROVE  TypeOK'
    OBVIOUS
  <2>1. c \in States /\ steps \in 0 .. MaxSteps /\ MaxSteps \in Nat
    BY StateTyped, ProcessorAssumption DEF TypeOK
  <2>2. CASE Step
    <3>1. PICK u \in BOOLEAN : c' = AtRest(step(u, c))
      BY <2>2 DEF Step
    <3>2. IsState(c')
      BY <2>1, <3>1, stepTyped, RestTyped
    <3>3. steps' \in 0 .. MaxSteps
      BY <2>1, <2>2 DEF Step
    <3> QED
      BY <3>2, <3>3 DEF TypeOK, IsState
  <2>3. CASE TakeTrap
    <3>1. IsState(c')
      BY <2>1, <2>3, AnsweredTyped DEF TakeTrap
    <3> QED
      BY <2>1, <2>3, <3>1 DEF TakeTrap, TypeOK, IsState
  <2>4. CASE UNCHANGED vars
    BY <2>4 DEF vars, TypeOK, IsState
  <2> QED
    BY <2>2, <2>3, <2>4 DEF Next
<1> QED
  BY <1>1, <1>2, PTL DEF Spec

-----------------------------------------------------------------------------
(* Instructions that fault. *)

LEMMA StatesParts ==
  ASSUME NEW b \in States
  PROVE  HasParts(b) /\ Keeps(b, b) /\ Reads(b, b)
BY DEF States, HasParts, Registers8, Keeps, Reads

LEMMA DAMoves ==
  ASSUME NEW b \in States, NEW l \in Lengths, NEW s \in 0 .. 63
  PROVE  Moving(Moves(s, l), b, DA(l, s, b)) /\ Moving(Moves(s, l), b, SS(l, s, b))
<1>1. HasParts(b)
  BY StatesParts
<1>2. CASE ModeOf(s) = 0
  <2>1. Moves(s, l) = Still
    BY <1>2 DEF Moves
  <2>2. Reads(b, DA(l, s, b)) /\ Reads(b, SS(l, s, b))
    BY <1>1, <1>2, ReadsOnly DEF DA, SS
  <2> QED
    BY <1>1, <2>1, <2>2, StillMoves
<1>3. CASE ModeOf(s) # 0
  <2> DEFINE d == fetchOperand(l, s, b)
  <2>1. ModeOf(s) \in 1 .. 7 /\ RegOf(s) \in 0 .. 7
    BY <1>3 DEF ModeOf, RegOf
  <2>2. Moving(Moves(s, l), b, d)
    BY <1>1, <2>1, OperandMovesOneRegister
  <2>3. DA(l, s, b) = d /\ SS(l, s, b) = Fetched(l, d)
    BY <1>3 DEF DA, SS
  <2> HIDE DEF d
  <2>4. HasParts(d)
    BY <2>2, MovesOn
  <2>5. Reads(d, Fetched(l, d))
    BY <2>4, ReadsOnly DEF Fetched
  <2> QED
    BY <2>2, <2>3, <2>5, MovesOn
<1> QED
  BY <1>2, <1>3

LEMMA SetRKeeps ==
  ASSUME NEW b \in States, NEW r, NEW v
  PROVE  /\ SetR(r, v, b).trap = b.trap /\ SetR(r, v, b).dead = b.dead
         /\ ~Live(b) => SetR(r, v, b) = b
BY DEF SetR, States

LEMMA WriteAtFaults ==
  ASSUME NEW b \in States, NEW l, NEW a, NEW v, WriteAt(l, a, v, b).trap # 0
  PROVE  Keeps(b, WriteAt(l, a, v, b))
<1>1. HasParts(b) /\ Keeps(b, b)
  BY StatesParts
<1>2. CASE a \in Aliases
  <2>1. WriteAt(l, a, v, b) = SetR(a % 8, Written(l, b.R[a % 8], v), b)
    BY <1>2 DEF WriteAt
  <2>2. ~Live(b)
    BY <2>1, SetRKeeps DEF Live
  <2> QED
    BY <1>1, <2>1, <2>2, SetRKeeps
<1>3. CASE a \notin Aliases /\ l = 2
  <2>1. WriteAt(l, a, v, b) = Write16(a, v, b)
    BY <1>3 DEF WriteAt
  <2> QED
    BY <1>1, <2>1, FaultedWriteKeepsAll DEF Live
<1>4. CASE a \notin Aliases /\ l # 2
  <2> DEFINE d == Read16(WordOf(a), b)
             w == WithByte(a, d.val, v)
  <2>1. WriteAt(l, a, v, b) = Write16(WordOf(a), w, d)
    BY <1>4, Zenon DEF WriteAt, ReplaceByte
  <2>2. Keeps(b, d) /\ HasParts(d)
    BY <1>1, Read16Keeps
  <2> HIDE DEF d, w
  <2>3. Keeps(d, Write16(WordOf(a), w, d))
    BY <2>1, <2>2, FaultedWriteKeepsAll DEF Live
  <2> QED
    BY <2>1, <2>2, <2>3, KeptTrans
<1> QED
  BY <1>2, <1>3, <1>4

\* What could be read at an operand's address can be written there, in the same
\* mode, if PC can be read.
LEMMA WriteAtAfterRead ==
  ASSUME NEW b \in States, NEW l, NEW a, Live(ReadAt(l, a, b)),
         NEW d \in States, Live(d), d.mmu = b.mmu, currentmode(d) = currentmode(b),
         Live(Read16(d.pc, b)), NEW v
  PROVE  WriteAt(l, a, v, d).trap = 0
<1>1. HasParts(b) /\ HasParts(d)
  BY StatesParts
<1>2. CASE a \in Aliases
  <2>1. WriteAt(l, a, v, d) = SetR(a % 8, Written(l, d.R[a % 8], v), d)
    BY <1>2 DEF WriteAt
  <2> QED
    BY <2>1, SetRKeeps DEF Live
<1>3. CASE a \notin Aliases /\ l = 2
  <2>1. WriteAt(l, a, v, d) = Write16(a, v, d)
    BY <1>3 DEF WriteAt
  <2>2. ReadAt(l, a, b) = Read16(a, b)
    BY <1>3 DEF ReadAt, ReadMemory
  <2> QED
    BY <1>1, <2>1, <2>2, ReadWordsTakeWrites
<1>4. CASE a \notin Aliases /\ l # 2
  <2> DEFINE g == Read16(WordOf(a), b)
             e == Read16(WordOf(a), d)
             w == WithByte(a, e.val, v)
  <2>1. ReadAt(l, a, b) = Valued(ByteAt(a, g.val), g)
    BY <1>4 DEF ReadAt, ReadMemory, ByteOf
  <2>2. Live(g)
    BY <2>1, EndedStays
  <2>3. Live(e)
    BY <1>1, <2>2, ReadAgain
  <2>4. WriteAt(l, a, v, d) = Write16(WordOf(a), w, e)
    BY <1>4, Zenon DEF WriteAt, ReplaceByte
  <2>5. Keeps(d, e)
    BY <1>1, Read16Keeps
  <2> HIDE DEF e, w
  <2>6. HasParts(e) /\ e.mmu = d.mmu /\ e.psw = d.psw /\ e.pc = d.pc
    BY <2>5 DEF Keeps
  <2>7. currentmode(e) = currentmode(d)
    BY <2>6, SameMode
  <2> QED
    BY <1>1, <2>2, <2>3, <2>4, <2>6, <2>7, ReadWordsTakeWrites
<1> QED
  BY <1>2, <1>3, <1>4

\* The low bits of the PSW are not the mode.
LEMMA LowBits ==
  ASSUME NEW w \in Word, NEW k \in 0 .. 15, NEW m \in Nat \ {0}, NEW n,
         n = 16 * m, Values(2) = 4 * n
  PROVE  (w - (w % 16) + k) \div n = w \div n
<1> DEFINE p == w \div n
           x == w % n
           y == x \div 16
           z == x % 16
<1>1. n \in Nat \ {0} /\ w \in Nat /\ w < 4 * n /\ w \in Int
  BY WordTyped
<1>2. p \in 0 .. 3
  BY <1>1, Quotients
<1>3. w = p * n + x /\ x \in 0 .. n - 1
  BY <1>1, DivMod, Zenon
<1> HIDE DEF p, x
<1>4. x = 16 * y + z /\ z \in 0 .. 15 /\ y \in 0 .. m - 1
  BY <1>1, <1>3
<1> HIDE DEF y, z
<1>5. p * n = 16 * (p * m) /\ p * m \in Nat
  BY <1>2
<1>6. w % 16 = z
  BY <1>3, <1>4, <1>5
<1> DEFINE r == 16 * y + k
<1>7. w - (w % 16) + k = p * n + r /\ r \in 0 .. n - 1
  BY <1>1, <1>2, <1>3, <1>4, <1>6
<1>8. p \in Int
  BY <1>2
<1> HIDE DEF r
<1>9. (p * n + r) \div n = p
  BY <1>1, <1>7, <1>8, QuotientUnique
<1> QED
  BY <1>7, <1>9 DEF p

LEMMA SetCodesKeeps ==
  ASSUME NEW b \in States, NEW cc
  PROVE  LET d == SetCodes(cc, b)
         IN  /\ d \in States /\ d.trap = b.trap /\ d.dead = b.dead /\ d.R = b.R
             /\ d.sp = b.sp /\ d.core = b.core /\ d.mmu = b.mmu /\ d.pc = b.pc
             /\ d.val = b.val
             /\ (Live(d) <=> Live(b)) /\ currentmode(d) = currentmode(b)
             /\ (~Live(b) => d = b)
<1> DEFINE d == SetCodes(cc, b)
           k == CodeWord(cc)
<1>1. d \in States
  BY SetCodesTyped
<1>2. CASE ~Live(b)
  <2>1. d = b
    BY <1>2 DEF SetCodes
  <2> HIDE DEF d
  <2> QED
    BY <1>1, <2>1 DEF d
<1>3. CASE Live(b)
  <2>1. d = [b EXCEPT !.psw = @ - (@ % 16) + k]
    BY <1>3 DEF SetCodes
  <2>2. k \in 0 .. 15
    BY CodeWordTyped
  <2> HIDE DEF d, k
  <2>3. /\ d.trap = b.trap /\ d.dead = b.dead /\ d.R = b.R /\ d.sp = b.sp
        /\ d.core = b.core /\ d.mmu = b.mmu /\ d.pc = b.pc /\ d.val = b.val
        /\ d.psw = b.psw - (b.psw % 16) + k /\ b.psw \in Word
    BY <2>1 DEF States
  <2>4. currentmode(d) = currentmode(b)
    <3> DEFINE n == \o40000
               m == \o2000
    <3>1. m \in Nat \ {0} /\ n = 16 * m /\ Values(2) = 4 * n
      BY Widths16
    <3>2. currentmode(d) = d.psw \div n /\ currentmode(b) = b.psw \div n
      BY DEF currentmode
    <3> HIDE DEF m, n
    <3>3. (b.psw - (b.psw % 16) + k) \div n = b.psw \div n
      BY <2>2, <2>3, <3>1, LowBits
    <3> QED
      BY <2>3, <3>2, <3>3
  <2> QED
    BY <1>1, <1>3, <2>3, <2>4 DEF Live, d
<1> QED
  BY <1>2, <1>3

\* PC can be read, as the fetch has shown.
PCRead(b) == Live(b) => Live(Read16(b.pc, b))

LEMMA PCStays ==
  ASSUME NEW b \in States, PCRead(b), NEW d \in States, Live(d) => Live(b),
         d.mmu = b.mmu, d.psw = b.psw, d.pc = b.pc
  PROVE  PCRead(d)
<1>1. HasParts(b) /\ HasParts(d)
  BY StatesParts
<1>2. currentmode(d) = currentmode(b)
  BY SameMode
<1> QED
  BY <1>1, <1>2, ReadAgain DEF PCRead

\* What computes a destination faults before it has changed anything, the codes
\* that some instructions set first among it.
Unread == {"MOV", "CLR", "SXT"}

LEMMA StoresFaults ==
  ASSUME NEW b \in States, Live(b), NEW o, o.len \in Lengths,
         NEW new, Fits({Dst, Src}, new), NEW a \in Word,
         NEW p \in States, p.mmu = b.mmu, currentmode(b) = currentmode(p),
         Live(Read16(b.pc, p)), o.name \in Unread \/ Live(ReadAt(o.len, a, p)),
         Stores(o, new, a, b).trap # 0
  PROVE  Keeps(b, Stores(o, new, a, b))
<1> DEFINE e == IF o.name \in SetBefore THEN SetCodes(new.cc, b)
                ELSE IF o.name = "SUB" THEN SetCodes({}, b) ELSE b
           w == IF Writes(o, Codes(b)) THEN WriteAt(o.len, a, new.R[Dst], e) ELSE e
           r == Stores(o, new, a, b)
<1>1. /\ e \in States /\ Live(e) /\ e.mmu = b.mmu /\ e.pc = b.pc
      /\ currentmode(e) = currentmode(b)
  BY SetCodesKeeps
<1>2. o.name \in Unread => e = b
  BY DEF SetBefore, Unread
<1>3. new.R[Dst] \in Word
  BY DEF Fits
<1>4. r = Settled(o, new.cc, w)
  BY DEF Stores
<1> SUFFICES Keeps(b, r)
  OBVIOUS
<1>5. r.trap # 0
  OBVIOUS
<1> HIDE DEF e, r
<1>6. w \in States
  BY <1>1, <1>3, WriteAtTyped
<1>7. w.trap # 0 => ~Live(w)
  BY DEF Live
<1>8. w.trap # 0 /\ r = w
  <2> HIDE DEF w
  <2>1. \A cc : SetCodes(cc, w).trap = w.trap /\ (~Live(w) => SetCodes(cc, w) = w)
    BY <1>6, SetCodesKeeps
  <2> QED
    BY <1>4, <1>5, <1>7, <2>1 DEF Settled
<1>9. w = WriteAt(o.len, a, new.R[Dst], e) /\ WriteAt(o.len, a, new.R[Dst], e).trap # 0
  BY <1>1, <1>8 DEF Live
<1> HIDE DEF w
<1>10. Keeps(e, w)
  BY <1>1, <1>9, WriteAtFaults
<1>11. ~Live(ReadAt(o.len, a, p))
  BY <1>1, <1>9, WriteAtAfterRead
<1> QED
  BY <1>2, <1>8, <1>10, <1>11

LEMMA AtAddressFaults ==
  ASSUME NEW o, o.name \in Destinations, o.len \in Lengths,
         NEW b, Loaded(2, b), PCRead(b),
         NEW s, NEW x, Live(b) => s \in Value(o.len) /\ x \in Word,
         AtAddress(o, s, x, b).trap # 0
  PROVE  Keeps(b, AtAddress(o, s, x, b))
<1> DEFINE d == IF o.name \in Unread THEN Valued(0, b) ELSE ReadAt(o.len, b.val, b)
           r == AtAddress(o, s, x, b)
           f == [k \in {Dst, Src} |-> IF k = Dst THEN d.val ELSE x]
           old == [R |-> f, cc |-> Codes(d)]
           new == Computed(o, s, old)
<1>1. b \in States /\ HasParts(b) /\ (Live(b) => b.val \in Word) /\ 0 \in Value(o.len)
  BY StatesParts, Widths16, ByteInWord DEF Loaded
<1>2. Loaded(o.len, d)
  BY <1>1, ValueTyped, ReadAtTyped
<1>3. Reads(b, d)
  BY <1>1, ReadsOnly
<1>4. r = IF Live(d) THEN Stores(o, new, b.val, d) ELSE d
  BY Zenon DEF AtAddress, Compute, Unread
<1>5. o.name \in Unread \/ (Live(d) => Live(ReadAt(o.len, b.val, b)))
  OBVIOUS
<1> SUFFICES Keeps(b, r)
  OBVIOUS
<1>6. CASE ~Live(d)
  BY <1>3, <1>4, <1>6 DEF Reads
<1>7. CASE Live(d)
  <2>1. r = Stores(o, new, b.val, d) /\ Stores(o, new, b.val, d).trap # 0
    BY <1>4, <1>7
  <2> HIDE DEF d, r
  <2>2. Live(b) /\ d \in States /\ d.val \in Word /\ x \in Word /\ s \in Value(o.len)
    BY <1>2, <1>3, <1>7, ByteInWord DEF Loaded, Reads
  <2>3. f \in [{Dst, Src} -> Word]
    BY <2>2
  <2>4. Fits({Dst, Src}, old)
    BY <2>3, CodesTyped DEF Fits
  <2> HIDE DEF old
  <2>5. Fits({Dst, Src}, new)
    BY <2>2, <2>4, ComputedTyped
  <2> HIDE DEF new
  <2>6. d.mmu = b.mmu /\ d.psw = b.psw /\ d.pc = b.pc
    BY <1>3 DEF Reads, Keeps
  <2>7. currentmode(d) = currentmode(b)
    BY <2>6, SameMode
  <2>8. Live(Read16(d.pc, b)) /\ b.val \in Word
    BY <1>1, <2>2, <2>6 DEF PCRead
  <2>9. Keeps(d, r)
    BY <1>1, <1>5, <1>7, <2>1, <2>2, <2>5, <2>6, <2>7, <2>8, StoresFaults
  <2> QED
    BY <1>3, <2>9, KeptTrans DEF Reads
<1> QED
  BY <1>6, <1>7

\* What a fault in the middle leaves: the move m is made or not.
Partly(m, b, d) ==
  /\ d.psw = b.psw /\ d.sp = b.sp /\ d.core = b.core
  /\ d.R \in {b.R, Move(m, b.R)}
  /\ ~Live(b) => d.R = b.R

LEMMA PartlyMoved ==
  ASSUME NEW m, NEW b, NEW d, NEW e, Moving(m, b, d), Keeps(d, e)
  PROVE  Partly(m, b, e)
BY DEF Moving, Keeps, Partly

\* b can take an instruction: its PC can be read.
Ready(b) == b \in States /\ PCRead(b)

LEMMA ReadyStays ==
  ASSUME NEW b, Ready(b), NEW d \in States
  PROVE  /\ \A m : Moving(m, b, d) => Ready(d)
         /\ Reads(b, d) => Ready(d)
<1>1. ASSUME NEW m, Moving(m, b, d)  PROVE Ready(d)
  BY <1>1, PCStays DEF Moving, Ready
<1>2. ASSUME Reads(b, d)  PROVE Ready(d)
  BY <1>2, PCStays DEF Reads, Keeps, Ready
<1> QED
  BY <1>1, <1>2

LEMMA DestinationFaults ==
  ASSUME NEW o, o.name \in Destinations, o.len \in Lengths, NEW b, Ready(b),
         NEW i \in Nat, NEW s, NEW x, Live(b) => s \in Value(o.len) /\ x \in Word,
         Destination(o, i, s, x, b).trap # 0
  PROVE  Partly(Moves(i % 64, o.len), b, Destination(o, i, s, x, b))
<1> DEFINE d == DA(o.len, i % 64, b)
           r == Destination(o, i, s, x, b)
<1>1. b \in States /\ i % 64 \in 0 .. 63 /\ i % 8 \in 0 .. 7
  BY FieldsOf DEF Ready
<1> SUFFICES Partly(Moves(i % 64, o.len), b, r)
  OBVIOUS
<1>2. CASE ~Live(b)
  <2>1. r = b
    BY <1>2, Zenon DEF Destination
  <2> HIDE DEF r
  <2> QED
    BY <1>2, <2>1 DEF Partly
<1>3. CASE Live(b) /\ o = Op("MOV", 1) /\ ModeOf(i % 64) = 0
  <2> DEFINE new == MOV(1, s, i % 8, [R |-> b.R, cc |-> Codes(b)])
             e == SetR(i % 8, new.R[i % 8], b)
  <2>1. r = SetCodes(new.cc, e)
    BY <1>3, Zenon DEF Destination, ExtendByte
  <2>2. e.trap = 0 /\ Live(e)
    BY <1>1, <1>3, SetRKeeps DEF Live
  <2>3. SetCodes(new.cc, e).trap = e.trap
    <3>1. "trap" \in DOMAIN e
      BY <1>1, <1>3 DEF SetR, States
    <3> HIDE DEF e, new
    <3> QED
      BY <2>2, <3>1 DEF SetCodes
  <2> QED
    BY <2>1, <2>2, <2>3
<1>4. CASE Live(b) /\ ~(o = Op("MOV", 1) /\ ModeOf(i % 64) = 0)
  <2>1. r = AtAddress(o, s, x, d)
    BY <1>4, Zenon DEF Destination
  <2>2. Loaded(2, d) /\ Moving(Moves(i % 64, o.len), b, d)
    BY <1>1, DATyped, DAMoves
  <2>3. PCRead(d)
    BY <2>2, ReadyStays DEF Loaded, Ready
  <2>4. AtAddress(o, s, x, d).trap # 0
    BY <2>1
  <2> HIDE DEF d, r
  <2>5. Keeps(d, r)
    BY <1>4, <2>1, <2>2, <2>3, <2>4, AtAddressFaults
  <2> QED
    BY <2>2, <2>5, PartlyMoved
<1> QED
  BY <1>2, <1>3, <1>4

-----------------------------------------------------------------------------
(* The operands of the instruction in the state c, one after the other. *)

Demand(k) == Demands(now)[k]

\* What the restart of an instruction needs to find in d.
Recovered(d) ==
  /\ d.core = c.core /\ d.psw = c.psw /\ d.sp = c.sp
  /\ \E k \in 1 .. 5 : d.R = Moved(Demands(now))[k]

LEMMA MovedParts ==
  LET M == Moved(Demands(now))
  IN  /\ M[1] = c.R /\ M[2] = Move(Demand(1), M[1]) /\ M[3] = Move(Demand(2), M[2])
      /\ M[4] = Move(Demand(3), M[3]) /\ M[5] = Move(Demand(4), M[4])
      /\ Demand(1) = Adds(7, 2)
BY DEF Moved, Demand, Demands

LEMMA begunTyped ==
  ASSUME c \in States
  PROVE  begun \in States /\ begun.R = c.R /\ begun.psw = c.psw /\ begun.sp = c.sp
         /\ begun.core = c.core /\ begun.mmu = c.mmu /\ begun.pc = c.R[7]
         /\ begun.trap = c.trap /\ begun.dead = c.dead
<1>1. c.R[7] \in Word
  BY RegisterTyped, 7 \in 0 .. 7
<1>2. <<>> \in Accesses
  BY DEF Accesses
<1> QED
  BY <1>1, <1>2 DEF States, begun

\* The state after the fetch: PC has moved.
LEMMA FetchedReady ==
  ASSUME c \in States
  PROVE  /\ Ready(fetched) /\ Loaded(2, fetched) /\ Moving(Demand(1), begun, fetched)
         /\ Live(fetched) => fetched.R = Moved(Demands(now))[2]
         /\ fetched.psw = c.psw /\ fetched.sp = c.sp /\ fetched.core = c.core
         /\ fetched.mmu = c.mmu /\ fetched.pc = c.R[7]
         /\ fetched.R \in {Moved(Demands(now))[1], Moved(Demands(now))[2]}
<1> DEFINE M == Moved(Demands(now))
<1>1. begun \in States /\ HasParts(begun)
  BY begunTyped, StatesParts
<1>2. Loaded(2, fetched) /\ Moving(Demand(1), begun, fetched)
  BY <1>1, fetch16Typed, FetchMoves, MovedParts DEF fetched
<1>3. M[1] = c.R /\ M[2] = Move(Demand(1), c.R)
  BY MovedParts
<1> HIDE DEF M
<1>4. /\ Live(fetched) => fetched.R = M[2]
      /\ fetched.psw = c.psw /\ fetched.sp = c.sp /\ fetched.core = c.core
      /\ fetched.mmu = c.mmu /\ fetched.pc = c.R[7] /\ fetched.R \in {M[1], M[2]}
  BY <1>2, <1>3, begunTyped DEF Moving
<1>5. Live(fetched) => Live(Read16(c.R[7], begun))
  <2>1. fetched = AddR(7, 2, Read16(c.R[7], begun))
    BY begunTyped, Zenon DEF fetched, fetch16
  <2> QED
    BY <2>1, EndedStays
<1>6. Ready(fetched)
  <2>1. fetched \in States /\ HasParts(fetched)
    BY <1>2, StatesParts DEF Loaded
  <2>2. currentmode(fetched) = currentmode(begun)
    BY <1>4, begunTyped, SameMode
  <2> QED
    BY <1>1, <1>4, <1>5, <2>1, <2>2, begunTyped, ReadAgain DEF Ready, PCRead
<1> QED
  BY <1>2, <1>4, <1>6 DEF M

\* Which instructions have which operands.
LEMMA ArmNames ==
  /\ DoubleArm = TwoOperands
  /\ SingleArm = {"CLR", "COM", "INC", "DEC", "NEG", "ADC", "SBC", "TST", "ROR", "ROL",
                  "ASR", "ASL", "SWAB", "SXT", "XOR"}
  /\ WithOperands = DoubleArm \cup SingleArm \cup Arithmetics
                      \cup {"JMP", "JSR", "MFPI", "MTPI"}
<1>1. /\ Doubles[1] = "MOV" /\ Doubles[2] = "CMP" /\ Doubles[3] = "BIT"
      /\ Doubles[4] = "BIC" /\ Doubles[5] = "BIS"
  BY DEF Doubles
<1>2. /\ Singles[1] = "CLR" /\ Singles[2] = "COM" /\ Singles[3] = "INC"
      /\ Singles[4] = "DEC" /\ Singles[5] = "NEG" /\ Singles[6] = "ADC"
      /\ Singles[7] = "SBC" /\ Singles[8] = "TST" /\ Singles[9] = "ROR"
      /\ Singles[10] = "ROL" /\ Singles[11] = "ASR" /\ Singles[12] = "ASL"
  BY DEF Singles
<1>3. 1 .. 5 = {1, 2, 3, 4, 5} /\ 1 .. 12 = {1, 2, 3, 4, 5, 6, 7, 8, 9, 10, 11, 12}
  OBVIOUS
<1>4. {Doubles[k] : k \in 1 .. 5} = {"MOV", "CMP", "BIT", "BIC", "BIS"}
  BY <1>1, <1>3
<1>5. {Singles[k] : k \in 1 .. 12} =
        {"CLR", "COM", "INC", "DEC", "NEG", "ADC", "SBC", "TST", "ROR", "ROL", "ASR", "ASL"}
  BY <1>2, <1>3
<1>6. DoubleArm = TwoOperands
  BY <1>4 DEF DoubleArm, TwoOperands
<1>7. SingleArm = {"CLR", "COM", "INC", "DEC", "NEG", "ADC", "SBC", "TST", "ROR", "ROL",
                   "ASR", "ASL", "SWAB", "SXT", "XOR"}
  BY <1>5 DEF SingleArm
<1>8. WithOperands = DoubleArm \cup SingleArm \cup Arithmetics
                       \cup {"JMP", "JSR", "MFPI", "MTPI"}
  BY <1>6 DEF WithOperands, Arithmetics, Pairs, SingleArm
<1> QED
  BY <1>6, <1>7, <1>8

LEMMA DemandsOf ==
  LET n == now.name
  IN  /\ n \in DoubleArm =>
           Demand(2) = Moves(now.src, now.len) /\ Demand(3) = Moves(now.dst, now.len)
             /\ Demand(4) = Still
      /\ n \in SingleArm \cup Arithmetics \cup {"JMP"} =>
           Demand(2) = Still /\ Demand(3) = Moves(now.dst, now.len) /\ Demand(4) = Still
      /\ n \in {"JSR", "MFPI"} =>
           Demand(2) = Still /\ Demand(3) = Moves(now.dst, now.len)
             /\ Demand(4) = Adds(6, -2)
      /\ n = "MTPI" =>
           Demand(2) = Adds(6, 2) /\ Demand(3) = Moves(now.dst, now.len)
             /\ Demand(4) = Still
<1> DEFINE n == now.name
<1>1. n \in WithOperands => Demand(3) = Moves(now.dst, now.len)
  BY DEF Demand, Demands
<1>2. /\ n = "MTPI" => Demand(2) = Adds(6, 2)
      /\ n # "MTPI" /\ n \in TwoOperands => Demand(2) = Moves(now.src, now.len)
      /\ n # "MTPI" /\ n \notin TwoOperands => Demand(2) = Still
  BY DEF Demand, Demands
<1>3. /\ n \in {"JSR", "MFPI"} => Demand(4) = Adds(6, -2)
      /\ n \notin {"JSR", "MFPI"} => Demand(4) = Still
  BY DEF Demand, Demands
<1> HIDE DEF n
<1>4. /\ n \in DoubleArm => n \in TwoOperands /\ n \notin {"MTPI", "JSR", "MFPI"}
      /\ n \in SingleArm => n \notin TwoOperands /\ n \notin {"MTPI", "JSR", "MFPI"}
      /\ n \in Arithmetics => n \notin TwoOperands /\ n \notin {"MTPI", "JSR", "MFPI"}
      /\ "JMP" \notin TwoOperands /\ "JSR" \notin TwoOperands /\ "MFPI" \notin TwoOperands
  BY ArmNames DEF TwoOperands, Arithmetics
<1> QED
  BY <1>1, <1>2, <1>3, <1>4, ArmNames DEF n

LEMMA NowIs ==
  ASSUME c \in States, Live(fetched)
  PROVE  LET i == fetched.val
             o == Operation(i)
         IN  /\ i \in Nat /\ now.name = o.name /\ now.len = o.len /\ o.len \in Lengths
             /\ now.src = (i \div 64) % 64 /\ now.dst = i % 64 /\ now.reg = RegOf(i \div 64)
             /\ now.src \in 0 .. 63 /\ now.dst \in 0 .. 63 /\ now.reg \in 0 .. 7
             /\ o.name \notin Destinations => o.len = 2
             /\ o.name \in Names
<1> DEFINE i == fetched.val
           o == Operation(i)
<1>1. i \in Nat
  BY FetchedReady, Widths16, WordTyped DEF Loaded
<1>2. /\ now.name = o.name /\ now.len = o.len
      /\ now.src = (i \div 64) % 64 /\ now.dst = i % 64 /\ now.reg = RegOf(i \div 64)
  BY DEF now
<1>3. o \in Operations
  BY <1>1, OperationTyped
<1> HIDE DEF i
<1>4. /\ (i \div 64) % 64 \in 0 .. 63 /\ i % 64 \in 0 .. 63 /\ RegOf(i \div 64) \in 0 .. 7
  BY <1>1, FieldsOf
<1> HIDE DEF o
<1>5. o.len \in Lengths /\ (o.name \notin Destinations => o.len = 2) /\ o.name \in Names
  BY <1>3 DEF Operations, Lengths
<1> QED
  BY <1>1, <1>2, <1>4, <1>5 DEF i, o

\* A fault after the source, and one after the destination too.
LEMMA RecoveredThird ==
  ASSUME c \in States, Live(fetched), NEW s, Moving(Demand(2), fetched, s),
         NEW r, Partly(Demand(3), s, r)
  PROVE  Recovered(r)
<1> DEFINE M == Moved(Demands(now))
<1>1. M[3] = Move(Demand(2), M[2]) /\ M[4] = Move(Demand(3), M[3])
  BY MovedParts
<1>2. /\ fetched.R = M[2] /\ fetched.psw = c.psw /\ fetched.sp = c.sp
      /\ fetched.core = c.core
  BY FetchedReady
<1> HIDE DEF M
<1>3. r.core = c.core /\ r.psw = c.psw /\ r.sp = c.sp
  BY <1>2 DEF Moving, Partly
<1>4. r.R \in {M[2], M[3], M[4]}
  BY <1>1, <1>2 DEF Moving, Partly
<1>5. 2 \in 1 .. 5 /\ 3 \in 1 .. 5 /\ 4 \in 1 .. 5
  OBVIOUS
<1>6. \E k \in 1 .. 5 : r.R = M[k]
  BY <1>4, <1>5
<1> QED
  BY <1>3, <1>6 DEF Recovered, M

LEMMA RecoveredFourth ==
  ASSUME c \in States, Live(fetched), NEW s, Moving(Demand(2), fetched, s),
         NEW d, Moving(Demand(3), s, d), NEW r, Partly(Demand(4), d, r)
  PROVE  Recovered(r)
<1> DEFINE M == Moved(Demands(now))
<1>1. M[3] = Move(Demand(2), M[2]) /\ M[4] = Move(Demand(3), M[3])
      /\ M[5] = Move(Demand(4), M[4])
  BY MovedParts
<1>2. /\ fetched.R = M[2] /\ fetched.psw = c.psw /\ fetched.sp = c.sp
      /\ fetched.core = c.core
  BY FetchedReady
<1> HIDE DEF M
<1>3. r.core = c.core /\ r.psw = c.psw /\ r.sp = c.sp
  BY <1>2 DEF Moving, Partly
<1>4. d.R \in {M[2], M[3], M[4]} /\ (Live(d) => d.R = M[4])
  BY <1>1, <1>2 DEF Moving
<1>5. r.R \in {M[2], M[3], M[4], M[5]}
  BY <1>1, <1>4 DEF Partly
<1>6. 2 \in 1 .. 5 /\ 3 \in 1 .. 5 /\ 4 \in 1 .. 5 /\ 5 \in 1 .. 5
  OBVIOUS
<1>7. \E k \in 1 .. 5 : r.R = M[k]
  BY <1>5, <1>6
<1> QED
  BY <1>3, <1>7 DEF Recovered, M

LEMMA DoubleRecovered ==
  ASSUME c \in States, Live(fetched), NEW i, i = fetched.val, NEW o, o = Operation(i),
         o.name \in DoubleArm, DoubleOperand(o, i, fetched).trap # 0
  PROVE  Recovered(DoubleOperand(o, i, fetched))
<1> DEFINE s == SS(o.len, now.src, fetched)
           r == DoubleOperand(o, i, fetched)
<1>1. /\ i \in Nat /\ now.name = o.name /\ now.len = o.len /\ o.len \in Lengths
      /\ now.src = (i \div 64) % 64 /\ now.dst = i % 64 /\ now.src \in 0 .. 63
  BY NowIs
<1>2. Demand(2) = Moves(now.src, o.len) /\ Demand(3) = Moves(i % 64, o.len)
  BY <1>1, DemandsOf
<1>3. fetched \in States /\ Ready(fetched)
  BY FetchedReady DEF Ready
<1>4. Moving(Demand(2), fetched, s) /\ Loaded(o.len, s)
  BY <1>1, <1>2, <1>3, DAMoves, SSTyped
<1>5. Ready(s)
  BY <1>3, <1>4, ReadyStays DEF Loaded
<1>6. r = Destination(o, i, s.val, 0, s)
  BY <1>1 DEF DoubleOperand, ToDestination
<1>7. o.name \in Destinations /\ 0 \in Word
  <2>1. 0 \in Word
    BY ByteInWord DEF Lengths, Word
  <2> QED
    BY <2>1, GroupNames DEF DoubleArm
<1> HIDE DEF s
<1>8. Destination(o, i, s.val, 0, s).trap # 0
  BY <1>6
<1> HIDE DEF r
<1>9. Live(s) => s.val \in Value(o.len)
  BY <1>4 DEF Loaded
<1>10. Partly(Demand(3), s, r)
  BY <1>1, <1>2, <1>5, <1>6, <1>7, <1>8, <1>9, DestinationFaults
<1> QED
  BY <1>4, <1>10, RecoveredThird DEF r

LEMMA SingleRecovered ==
  ASSUME c \in States, Live(fetched), NEW i, i = fetched.val, NEW o, o = Operation(i),
         o.name \in SingleArm, SingleOperand(o, i, fetched).trap # 0
  PROVE  Recovered(SingleOperand(o, i, fetched))
<1> DEFINE x == fetched.R[RegOf(i \div 64)]
           r == SingleOperand(o, i, fetched)
<1>1. /\ i \in Nat /\ now.name = o.name /\ now.len = o.len /\ o.len \in Lengths
      /\ now.dst = i % 64 /\ RegOf(i \div 64) \in 0 .. 7
  BY NowIs, FieldsOf
<1>2. Demand(2) = Still /\ Demand(3) = Moves(i % 64, o.len)
  BY <1>1, DemandsOf
<1>3. fetched \in States /\ Ready(fetched)
  BY FetchedReady DEF Ready
<1>4. Moving(Demand(2), fetched, fetched)
  BY <1>2, <1>3, StatesParts, StillMoves
<1>5. x \in Word /\ 0 \in Value(o.len)
  BY <1>1, <1>3, RegisterTyped, Widths16, ByteInWord
<1>6. r = Destination(o, i, 0, x, fetched)
  BY DEF SingleOperand
<1>7. o.name \in Destinations
  BY GroupNames DEF SingleArm
<1> HIDE DEF x
<1>8. Destination(o, i, 0, x, fetched).trap # 0
  BY <1>6
<1> HIDE DEF r
<1>9. Partly(Demand(3), fetched, r)
  BY <1>1, <1>2, <1>3, <1>5, <1>6, <1>7, <1>8, DestinationFaults
<1> QED
  BY <1>4, <1>9, RecoveredThird DEF r

LEMMA ExtendedRecovered ==
  ASSUME c \in States, Live(fetched), NEW i, i = fetched.val, NEW o, o = Operation(i),
         o.name \in Arithmetics, NEW u, ExtendedArithmetic(o, i, u, fetched).trap # 0
  PROVE  Recovered(ExtendedArithmetic(o, i, u, fetched))
<1> DEFINE e == DA(2, i % 64, fetched)
           d == Source(e)
           old == [R |-> fetched.R, cc |-> Codes(fetched)]
           k == RegOf(i \div 64)
           new == Extension(o.name, d.val, k, u, old)
           r == ExtendedArithmetic(o, i, u, fetched)
<1>1. /\ i \in Nat /\ now.name = o.name /\ now.dst = i % 64 /\ now.dst \in 0 .. 63
      /\ now.len = 2
  <2>1. o.name \notin Destinations
    BY DEF Arithmetics, Destinations
  <2> QED
    BY <2>1, NowIs
<1>2. Demand(2) = Still /\ Demand(3) = Moves(i % 64, 2)
  BY <1>1, DemandsOf
<1>3. fetched \in States
  BY FetchedReady DEF Ready
<1>4. Moving(Demand(2), fetched, fetched)
  BY <1>2, <1>3, StatesParts, StillMoves
<1>5. Moving(Demand(3), fetched, e) /\ Loaded(2, e)
  BY <1>1, <1>2, <1>3, DAMoves, DATyped DEF Lengths
<1>6. r = Extend(o.name, k, new, d)
  BY DEF ExtendedArithmetic, WithSource
<1> HIDE DEF e, old
<1>8. Reads(e, d) /\ Loaded(2, d)
  BY <1>5, StatesParts, ReadsOnly, ReadAtTyped, Widths16 DEF Source, Loaded, Lengths
<1>9. ~Live(d)
  <2> SUFFICES ASSUME Live(d)  PROVE FALSE
    OBVIOUS
  <2> DEFINE g == [d EXCEPT !.R = [q \in 0 .. 7 |->
                     IF q \in Extends(o.name, k, new.cc) THEN new.R[q] ELSE @[q]]]
  <2>1. g.trap = 0 /\ "trap" \in DOMAIN g
    BY <1>8 DEF Loaded, States, Live
  <2>2. r = SetCodes(new.cc, g)
    BY <1>6 DEF Extend
  <2> HIDE DEF g, new
  <2>3. SetCodes(new.cc, g).trap = 0
    BY <2>1 DEF SetCodes
  <2> QED
    BY <2>2, <2>3
<1> HIDE DEF d, new
<1>10. r = d
  BY <1>6, <1>9 DEF Extend
<1>11. Partly(Demand(3), fetched, d)
  BY <1>5, <1>8, PartlyMoved DEF Reads
<1> HIDE DEF r
<1> QED
  BY <1>4, <1>10, <1>11, RecoveredThird DEF r

\* Jumps and calls: an operand, and the push of a call.
LEMMA JumpsRecovered ==
  ASSUME c \in States, Live(fetched), NEW i, i = fetched.val, NEW o, o = Operation(i)
  PROVE  /\ o.name = "JMP" /\ JMP(i, fetched).trap # 0 => Recovered(JMP(i, fetched))
         /\ o.name = "JSR" /\ JSR(i, fetched).trap # 0 => Recovered(JSR(i, fetched))
<1> DEFINE e == DA(2, i % 64, fetched)
           k == RegOf(i \div 64)
<1> SUFFICES ASSUME o.name \in {"JMP", "JSR"}
             PROVE  /\ o.name = "JMP" /\ JMP(i, fetched).trap # 0 => Recovered(JMP(i, fetched))
                    /\ o.name = "JSR" /\ JSR(i, fetched).trap # 0 => Recovered(JSR(i, fetched))
  OBVIOUS
<1>1. /\ i \in Nat /\ now.name = o.name /\ now.dst = i % 64 /\ now.dst \in 0 .. 63
      /\ now.len = 2 /\ k \in 0 .. 7
  <2>1. o.name \notin Destinations
    BY DEF Destinations
  <2> QED
    BY <2>1, NowIs, FieldsOf
<1>2. /\ Demand(2) = Still /\ Demand(3) = Moves(i % 64, 2)
      /\ o.name = "JSR" => Demand(4) = Adds(6, -2)
  BY <1>1, DemandsOf
<1>3. fetched \in States
  BY FetchedReady DEF Ready
<1>4. Moving(Demand(2), fetched, fetched)
  BY <1>2, <1>3, StatesParts, StillMoves
<1>5. Moving(Demand(3), fetched, e) /\ Loaded(2, e) /\ HasParts(e)
  BY <1>1, <1>2, <1>3, DAMoves, DATyped, MovesOn DEF Lengths
<1>6. Die(fetched).trap = 0
  BY <1>3, StatesParts, DieKeeps DEF Live
<1>7. JMP(i, fetched).trap # 0 => Recovered(JMP(i, fetched))
  <2> DEFINE r == JMP(i, fetched)
  <2>1. r \in {Die(fetched), SetR(7, e.val, e)}
    BY DEF JMP, Into
  <2> HIDE DEF e
  <2>2. r.trap # 0 => r = SetR(7, e.val, e) /\ e.trap # 0
    BY <1>5, <1>6, <2>1, SetRKeeps DEF Loaded
  <2>3. e.trap # 0 => SetR(7, e.val, e) = e
    BY <1>5, SetRKeeps DEF Loaded, Live
  <2>4. Partly(Demand(3), fetched, e)
    BY <1>5, PartlyMoved DEF Keeps
  <2> HIDE DEF r
  <2> QED
    BY <1>4, <2>2, <2>3, <2>4, RecoveredThird DEF r
<1>8. CASE o.name = "JSR"
  <2> DEFINE p == push(e.R[k], e)
             f == Link(k, p)
             g == SetR(7, e.val, f)
             r == JSR(i, fetched)
  <2>1. r \in {Die(fetched), g}
    BY DEF JSR, CallAt, Call, pushR
  <2> HIDE DEF e, k
  <2>2. p \in States
    BY <1>1, <1>5, pushRTyped DEF Loaded, pushR
  <2> HIDE DEF p
  <2>3. f \in States /\ f.trap = p.trap /\ (~Live(p) => f = p)
    BY <1>1, <2>2, CopyTyped, SetRKeeps, 7 \in 0 .. 7 DEF Link
  <2> HIDE DEF f
  <2>4. g.trap = f.trap /\ (~Live(f) => g = f)
    BY <2>3, SetRKeeps
  <2> HIDE DEF g
  <2>5. r.trap # 0 => r = p /\ ~Live(p)
    BY <1>6, <2>1, <2>3, <2>4 DEF Live
  <2>6. ~Live(p) => Moving(Demand(4), e, p)
    BY <1>2, <1>5, <1>8, FaultedPushMovesSP DEF p
  <2>7. ~Live(p) => Partly(Demand(4), e, p)
    BY <2>6, PartlyMoved DEF Moving, Keeps
  <2> HIDE DEF r
  <2>8. r.trap # 0 => Recovered(r)
    BY <1>4, <1>5, <2>5, <2>7, RecoveredFourth
  <2> QED
    BY <1>8, <2>8 DEF r
<1> QED
  BY <1>7, <1>8

\* MFPI and MTPI reach the memory of the previous mode past the others.
LEMMA PreviousReads ==
  ASSUME NEW b, Loaded(2, b), NEW wr \in BOOLEAN
  PROVE  LET d == Previous(wr, b)
         IN  /\ d \in States /\ Reads(b, d) /\ Reads(d, BusRead(d.val, d))
             /\ \A v : ~Live(BusWrite(d.val, v, d)) => Keeps(d, BusWrite(d.val, v, d))
<1> DEFINE d == Previous(wr, b)
<1>1. HasParts(b)
  BY StatesParts DEF Loaded
<1>2. Keeps(b, d)
  BY <1>1, DecodeKeeps DEF Previous
<1>3. d \in States /\ Reads(b, d)
  BY <1>2, PreviousTyped DEF Reads
<1> HIDE DEF d
<1>4. HasParts(d)
  BY <1>3, StatesParts
<1>5. ~Live(d) => BusRead(d.val, d) = d
  BY Zenon DEF BusRead
<1>6. Reads(d, BusRead(d.val, d))
  <2> DEFINE e == BusRead(d.val, d)
  <2>1. Keeps(d, e)
    BY <1>4, BusReadKeeps
  <2>2. ~Live(d) => e = d
    BY <1>5
  <2> HIDE DEF e
  <2>3. Reads(d, e)
    BY <2>1, <2>2 DEF Reads
  <2> QED
    BY <2>3 DEF e
<1>7. \A v : ~Live(BusWrite(d.val, v, d)) => Keeps(d, BusWrite(d.val, v, d))
  BY <1>4, BusWriteFaults
<1> QED
  BY <1>3, <1>6, <1>7 DEF d

\* What MFPI pushes: a word of the previous mode, or its register.
LEMMA MFPISource ==
  ASSUME c \in States, Live(fetched), NEW i, i = fetched.val, Operation(i).name = "MFPI"
  PROVE  LET v == IF InSlot(i, fetched) THEN fetched.sp[previousmode(fetched)]
                  ELSE fetched.R[i % 8]
             s == IF ModeOf(i % 64) # 0
                  THEN BusReadAt(Previous(FALSE, DA(2, i % 64, fetched)))
                  ELSE Valued(v, fetched)
         IN  Moving(Demand(3), fetched, s) /\ Loaded(2, s)
<1> DEFINE e == DA(2, i % 64, fetched)
           d == Previous(FALSE, e)
           v == IF InSlot(i, fetched) THEN fetched.sp[previousmode(fetched)]
                ELSE fetched.R[i % 8]
           s == IF ModeOf(i % 64) # 0 THEN BusReadAt(d) ELSE Valued(v, fetched)
<1> SUFFICES Moving(Demand(3), fetched, s) /\ Loaded(2, s)
  OBVIOUS
<1>1. /\ i \in Nat /\ now.name = "MFPI" /\ now.dst = i % 64 /\ now.dst \in 0 .. 63
      /\ now.len = 2
  <2>1. "MFPI" \notin Destinations
    BY DEF Destinations
  <2> QED
    BY <2>1, NowIs
<1>2. Demand(3) = Moves(i % 64, 2)
  BY <1>1, DemandsOf
<1>3. fetched \in States /\ HasParts(fetched)
  BY FetchedReady, StatesParts DEF Ready
<1>4. Moving(Demand(3), fetched, e) /\ Loaded(2, e)
  BY <1>1, <1>2, <1>3, DAMoves, DATyped DEF Lengths
<1>5. CASE ModeOf(i % 64) # 0
  <2> DEFINE x == BusRead(d.val, d)
  <2> HIDE DEF e
  <2>1. d \in States /\ Reads(e, d) /\ Reads(d, x)
    BY <1>4, PreviousReads
  <2>2. d.val \in Nat
    BY <2>1 DEF States
  <2>3. s = x
    BY <1>5 DEF BusReadAt
  <2> HIDE DEF d
  <2>4. Loaded(2, x)
    BY <2>1, <2>2, BusReadTyped
  <2> HIDE DEF x, s
  <2>5. Moving(Demand(3), fetched, x)
    BY <1>4, <2>1, MovesOn
  <2> QED
    BY <2>3, <2>4, <2>5
<1>6. CASE ModeOf(i % 64) = 0
  <2>1. v \in Word
    <3>1. fetched.sp[previousmode(fetched)] \in Word
      BY <1>3, ModesTyped DEF States, Slots
    <3> QED
      BY <1>1, <1>3, <3>1, FieldsOf, RegisterTyped
  <2>2. Demand(3) = Still
    BY <1>2, <1>6 DEF Moves
  <2>3. s = Valued(v, fetched)
    BY <1>6
  <2> HIDE DEF v, s
  <2>4. Loaded(2, Valued(v, fetched)) /\ Reads(fetched, Valued(v, fetched))
    BY <1>3, <2>1, WordLoads, ReadsOnly
  <2> QED
    BY <1>3, <2>2, <2>3, <2>4, StillMoves
<1> QED
  BY <1>5, <1>6

LEMMA MFPIRecovered ==
  ASSUME c \in States, Live(fetched), NEW i, i = fetched.val, Operation(i).name = "MFPI",
         MFPI(i, fetched).trap # 0
  PROVE  Recovered(MFPI(i, fetched))
<1> DEFINE v == IF InSlot(i, fetched) THEN fetched.sp[previousmode(fetched)]
                ELSE fetched.R[i % 8]
           s == IF ModeOf(i % 64) # 0 THEN BusReadAt(Previous(FALSE, DA(2, i % 64, fetched)))
                ELSE Valued(v, fetched)
           p == push(s.val, s)
           r == MFPI(i, fetched)
<1>1. Demand(2) = Still /\ Demand(4) = Adds(6, -2)
  BY NowIs, DemandsOf
<1>2. Moving(Demand(2), fetched, fetched)
  BY <1>1, FetchedReady, StatesParts, StillMoves DEF Ready
<1>3. r = SetNZ(s.val, p)
  BY DEF MFPI, PushValue
<1>4. Moving(Demand(3), fetched, s) /\ Loaded(2, s)
  BY MFPISource
<1> HIDE DEF s
<1>5. p \in States /\ HasParts(s)
  BY <1>4, pushTyped, StatesParts, Widths16 DEF Loaded
<1> HIDE DEF p
<1>6. p.trap # 0 /\ r = p
  BY <1>3, <1>5, SetCodesKeeps DEF SetNZ, Live
<1>7. ~Live(p)
  BY <1>6 DEF Live
<1>8. Moving(Demand(4), s, p)
  BY <1>1, <1>5, <1>7, FaultedPushMovesSP DEF p
<1>9. Partly(Demand(4), s, p)
  BY <1>8, PartlyMoved DEF Moving, Keeps
<1> HIDE DEF r
<1> QED
  BY <1>2, <1>4, <1>6, <1>9, RecoveredFourth DEF r

LEMMA MTPIRecovered ==
  ASSUME c \in States, Live(fetched), NEW i, i = fetched.val, Operation(i).name = "MTPI",
         MTPI(i, fetched).trap # 0
  PROVE  Recovered(MTPI(i, fetched))
<1> DEFINE s == pop(fetched)
           e == DA(2, i % 64, s)
           d == Previous(TRUE, e)
           q == PopTo(i, s)
           r == MTPI(i, fetched)
<1>1. /\ i \in Nat /\ now.name = "MTPI" /\ now.dst = i % 64 /\ now.dst \in 0 .. 63
      /\ now.len = 2
  <2>1. "MTPI" \notin Destinations
    BY DEF Destinations
  <2> QED
    BY <2>1, NowIs
<1>2. Demand(2) = Adds(6, 2) /\ Demand(3) = Moves(i % 64, 2)
  BY <1>1, DemandsOf
<1>3. fetched \in States /\ HasParts(fetched)
  BY FetchedReady, StatesParts DEF Ready
<1>4. Moving(Demand(2), fetched, s) /\ Loaded(2, s)
  BY <1>2, <1>3, FetchMoves, popTyped
<1>5. r = SetNZ(s.val, q)
  BY DEF MTPI, PopValue
<1> HIDE DEF s
<1>6. s \in States /\ HasParts(s)
  BY <1>4, StatesParts DEF Loaded
<1>7. q \in States
  BY <1>1, <1>4, PopToTyped
<1>8. Partly(Demand(3), s, q) \/ q.trap = 0
  <2>1. CASE ~Live(s)
    <3>1. q = s
      BY <2>1, Zenon DEF PopTo
    <3> HIDE DEF q
    <3> QED
      BY <2>1, <3>1 DEF Partly
  <2>2. CASE Live(s) /\ ModeOf(i % 64) # 0
    <3>1. ~InSlot(i, s)
      BY <2>2 DEF InSlot, ModeOf
    <3>2. q = BusWriteAt(s.val, d)
      BY <2>2, <3>1, Zenon DEF PopTo
    <3>3. q = BusWrite(d.val, s.val, d)
      BY <3>2, Zenon DEF BusWriteAt
    <3>4. Moving(Demand(3), s, e) /\ Loaded(2, e)
      BY <1>1, <1>2, <1>6, DAMoves, DATyped DEF Lengths
    <3> HIDE DEF e
    <3>5. Reads(e, d) /\ (~Live(q) => Keeps(d, q))
      BY <3>3, <3>4, PreviousReads
    <3> HIDE DEF d, q
    <3>6. Moving(Demand(3), s, d)
      BY <3>4, <3>5, MovesOn
    <3> QED
      BY <3>5, <3>6, PartlyMoved DEF Live
  <2>3. CASE Live(s) /\ ~(ModeOf(i % 64) # 0)
    <3>1. q \in {[s EXCEPT !.sp[previousmode(s)] = s.val], Into(i % 8, s)}
      BY <2>3, Zenon DEF PopTo
    <3>2. [s EXCEPT !.sp[previousmode(s)] = s.val].trap = 0
      BY <1>6, <2>3 DEF States, Live
    <3>3. Into(i % 8, s).trap = 0
      BY <1>6, <2>3, SetRKeeps DEF Into, Live
    <3> QED
      BY <3>1, <3>2, <3>3
  <2> QED
    BY <2>1, <2>2, <2>3
<1> HIDE DEF q
<1>9. q.trap # 0 /\ r = q
  BY <1>5, <1>7, SetCodesKeeps DEF SetNZ, Live
<1> HIDE DEF r
<1> QED
  BY <1>4, <1>8, <1>9, RecoveredThird DEF r

\* The instructions without an operand in memory do not fault.
LEMMA OthersRun ==
  ASSUME NEW b \in States, b.trap = 0, NEW i \in Nat
  PROVE  /\ branch(i, b).trap = 0 /\ SOB(i, b).trap = 0 /\ SPL(i, b).trap = 0
         /\ CLRCC(i, b).trap = 0 /\ SETCC(i, b).trap = 0 /\ RESET(b).trap = 0
         /\ Die(b).trap = 0
<1>1. branch(i, b).trap = 0
  BY SetRKeeps DEF branch, AddR
<1>2. SOB(i, b).trap = 0
  <2> DEFINE k == RegOf(i \div 64)
             e == AddR(k, -1, b)
  <2>1. e.trap = 0
    BY SetRKeeps DEF AddR
  <2>2. e \in States
    <3>1. k \in 0 .. 7 /\ -1 \in Int
      BY FieldsOf
    <3> QED
      BY <3>1, AddRTyped
  <2>3. SOB(i, b) \in {e, AddR(7, -2 * (i % 64), e)}
    BY DEF SOB, SOBTaken
  <2> HIDE DEF e
  <2>4. AddR(7, -2 * (i % 64), e).trap = 0
    BY <2>1, <2>2, SetRKeeps DEF AddR
  <2> QED
    BY <2>1, <2>3, <2>4
<1>3. \A w : writePSW(w, b).trap = 0
  BY DEF writePSW, States
<1>4. SPL(i, b).trap = 0 /\ CLRCC(i, b).trap = 0 /\ SETCC(i, b).trap = 0
  <2> DEFINE w == b.psw - (b.psw % 2048) + 32 * (i % 8) + (b.psw % 32)
  <2>1. SPL(i, b) = writePSW(w, b)
    BY DEF SPL
  <2>2. CLRCC(i, b).trap = 0 /\ SETCC(i, b).trap = 0
    BY <1>3, Zenon DEF CLRCC, SETCC
  <2> HIDE DEF w
  <2> QED
    BY <1>3, <2>1, <2>2
<1>5. RESET(b).trap = 0 /\ Die(b).trap = 0
  BY DEF RESET, Die, States
<1> QED
  BY <1>1, <1>2, <1>4, <1>5

\* The state is one that a fault leaves, if it does, and the instruction is not
\* one that moves a stack frame.
FaultsRecovered(r) == r.trap # 0 => Recovered(r)

LEMMA PerformRecovered ==
  ASSUME c \in States, Live(fetched), now.name \notin Frames, NEW u
  PROVE  FaultsRecovered(Perform(fetched.val, u, fetched))
<1> DEFINE i == fetched.val
           o == Operation(i)
           n == o.name
           G == {d \in States : FaultsRecovered(d)}
<1>1. i \in Nat /\ fetched \in States /\ fetched.trap = 0 /\ n = now.name /\ o.len \in Lengths
  BY NowIs, FetchedReady DEF Ready, Live
<1>2. \A d \in States : d.trap = 0 => d \in G
  BY DEF FaultsRecovered
<1>3. \A d \in States : Recovered(d) => d \in G
  BY DEF FaultsRecovered
<1>4. n \notin {"RTS", "MARK", "RTI", "RTT"} \cup DOMAIN TrapVectors
  BY <1>1 DEF Frames
<1>5. n \in DoubleArm => DoubleOperand(o, i, fetched) \in G
  <2>1. n \in DoubleArm => DoubleOperand(o, i, fetched) \in States
    BY <1>1, GroupNames, OperandsTyped DEF DoubleArm
  <2> QED
    BY <2>1, DoubleRecovered DEF FaultsRecovered
<1>6. n \in SingleArm => SingleOperand(o, i, fetched) \in G
  <2>1. n \in SingleArm => SingleOperand(o, i, fetched) \in States
    BY <1>1, GroupNames, OperandsTyped DEF SingleArm
  <2> QED
    BY <2>1, SingleRecovered DEF FaultsRecovered
<1>7. n \in Arithmetics => ExtendedArithmetic(o, i, u, fetched) \in G
  <2>1. n \in Arithmetics => ExtendedArithmetic(o, i, u, fetched) \in States
    BY <1>1, ExtendedTyped
  <2> QED
    BY <2>1, ExtendedRecovered DEF FaultsRecovered
<1>8. /\ branch(i, fetched) \in G /\ SOB(i, fetched) \in G /\ SPL(i, fetched) \in G
      /\ CLRCC(i, fetched) \in G /\ SETCC(i, fetched) \in G /\ RESET(fetched) \in G
      /\ Die(fetched) \in G /\ fetched \in G
  <2>1. /\ branch(i, fetched) \in States /\ SOB(i, fetched) \in States
        /\ SPL(i, fetched) \in States /\ CLRCC(i, fetched) \in States
        /\ SETCC(i, fetched) \in States /\ RESET(fetched) \in States
        /\ Die(fetched) \in States
    BY <1>1, JumpsTyped, PSWsTyped, RESETTyped, DieTyped
  <2> HIDE DEF G, i
  <2> QED
    BY <1>1, <1>2, <2>1, OthersRun
<1>9. n = "JMP" => JMP(i, fetched) \in G
  <2>1. JMP(i, fetched) \in States
    BY <1>1, JumpsTyped
  <2> QED
    BY <2>1, JumpsRecovered DEF FaultsRecovered
<1>10. n = "JSR" => JSR(i, fetched) \in G
  <2>1. JSR(i, fetched) \in States
    BY <1>1, JumpsTyped
  <2> QED
    BY <2>1, JumpsRecovered DEF FaultsRecovered
<1>11. n = "MFPI" => MFPI(i, fetched) \in G
  <2>1. MFPI(i, fetched) \in States
    BY <1>1, MFPITyped
  <2> QED
    BY <2>1, MFPIRecovered DEF FaultsRecovered
<1>12. n = "MTPI" => MTPI(i, fetched) \in G
  <2>1. MTPI(i, fetched) \in States
    BY <1>1, MTPITyped
  <2> QED
    BY <2>1, MTPIRecovered DEF FaultsRecovered
<1> HIDE DEF G, i, o, n
<1>13. /\ n \in DoubleArm => DoubleOperand(o, i, fetched) \in G
       /\ n \in SingleArm => SingleOperand(o, i, fetched) \in G
       /\ n \in Arithmetics => ExtendedArithmetic(o, i, u, fetched) \in G
       /\ n \in BranchArm => branch(i, fetched) \in G /\ fetched \in G
       /\ n = "SOB" => SOB(i, fetched) \in G
       /\ n = "JMP" => JMP(i, fetched) \in G
       /\ n = "JSR" => JSR(i, fetched) \in G
       /\ n = "RTS" => RTS(i, fetched) \in G
       /\ n = "MARK" => MARK(i, fetched) \in G
       /\ n = "MFPI" => MFPI(i, fetched) \in G
       /\ n = "MTPI" => MTPI(i, fetched) \in G
       /\ n \in {"RTI", "RTT"} => RTT(fetched) \in G
       /\ n = "SPL" => SPL(i, fetched) \in G
       /\ n = "CLRCC" => CLRCC(i, fetched) \in G
       /\ n = "SETCC" => SETCC(i, fetched) \in G
       /\ n \in DOMAIN TrapVectors => trapat(TrapVectors[n], fetched) \in G
       /\ n = "RESET" => RESET(fetched) \in G
       /\ n = "HALT" => Die(fetched) \in G
       /\ n \in {"WAIT", "SETD"} => fetched \in G
  BY <1>4, <1>5, <1>6, <1>7, <1>8, <1>9, <1>10, <1>11, <1>12
<1>14. Perform(i, u, fetched) \in G
  BY <1>1, <1>13, PerformArms DEF o, n
<1> QED
  BY <1>14 DEF G, i

LEMMA StepRecovered ==
  ASSUME c \in States, ~MovesFrame, NEW u
  PROVE  FaultsRecovered(AtRest(step(u, c)))
<1> DEFINE d == step(u, c)
<1>1. d = Started(u, fetched)
  BY DEF step, fetched, begun
<1>2. d \in States
  BY stepTyped
<1>3. FaultsRecovered(d)
  <2>1. CASE Live(fetched)
    <3>1. d = Perform(fetched.val, u, fetched)
      BY <1>1, <2>1 DEF Started
    <3> HIDE DEF d
    <3> QED
      BY <2>1, <3>1, PerformRecovered DEF MovesFrame
  <2>2. CASE ~Live(fetched)
    <3>1. d = fetched
      BY <1>1, <2>2 DEF Started
    <3> DEFINE M == Moved(Demands(now))
    <3>2. /\ fetched.core = c.core /\ fetched.psw = c.psw /\ fetched.sp = c.sp
          /\ fetched.R \in {M[1], M[2]}
      BY FetchedReady
    <3> HIDE DEF d, M
    <3>3. \E k \in 1 .. 5 : fetched.R = M[k]
      BY <3>2
    <3> QED
      BY <3>1, <3>2, <3>3 DEF FaultsRecovered, Recovered, M
  <2> QED
    BY <2>1, <2>2
<1> HIDE DEF d
<1>4. /\ AtRest(d).R = d.R /\ AtRest(d).core = d.core /\ AtRest(d).psw = d.psw
      /\ AtRest(d).sp = d.sp /\ AtRest(d).trap = d.trap
  BY <1>2 DEF AtRest, States
<1>5. FaultsRecovered(AtRest(d))
  BY <1>3, <1>4 DEF FaultsRecovered, Recovered
<1> QED
  BY <1>5 DEF d

(***************************************************************************)
(* Whatever program runs, an instruction that faults (beside those that    *)
(* move a stack frame) has changed no word of memory, not the PSW and no   *)
(* stack pointer of another mode, and its registers are those before it    *)
(* with the first few moves that the instruction's operands demand: it can *)
(* be restarted (step() and what it calls, kb11.cc).                       *)
(***************************************************************************)
THEOREM FaultsAreRecoverableAlways == Spec => FaultsAreRecoverable
<1> DEFINE A == Live(c) /\ c'.trap # 0 /\ ~MovesFrame =>
                  /\ c'.core = c.core /\ c'.psw = c.psw /\ c'.sp = c.sp
                  /\ \E k \in 1 .. 5 : c'.R = Moved(Demands(now))[k]
<1>1. TypeOK /\ [Next]_vars => [A]_vars
  <2> SUFFICES ASSUME TypeOK, [Next]_vars, Live(c), c'.trap # 0, ~MovesFrame
               PROVE  /\ c'.core = c.core /\ c'.psw = c.psw /\ c'.sp = c.sp
                      /\ \E k \in 1 .. 5 : c'.R = Moved(Demands(now))[k]
    OBVIOUS
  <2>1. c \in States
    BY StateTyped DEF TypeOK
  <2>2. Step
    BY DEF Next, TakeTrap, vars, Live
  <2>3. PICK u \in BOOLEAN : c' = AtRest(step(u, c))
    BY <2>2 DEF Step
  <2>4. FaultsRecovered(c')
    BY <2>1, <2>3, StepRecovered
  <2> QED
    BY <2>4 DEF FaultsRecovered, Recovered
<1>2. Spec => [][A]_vars
  BY <1>1, ProcessorTypeCorrect, PTL DEF Spec
<1> QED
  BY <1>2 DEF FaultsAreRecoverable

-----------------------------------------------------------------------------
(* Instructions that complete. *)

\* Of the registers only those in S differ, and R6 if the mode does.
Alters(S, b, d) ==
  \A q \in 0 .. 7 \ S :
    d.R[q] = b.R[q] \/ (q = 6 /\ currentmode(d) # currentmode(b))

\* b names a mode, and a slot for it.
HasSlot(b) == HasParts(b) /\ currentmode(b) \in 0 .. 3 /\ b.sp \in Slots

LEMMA StatesSlots ==
  ASSUME NEW b \in States
  PROVE  HasSlot(b)
BY StatesParts, ModesTyped DEF HasSlot, States

LEMMA KeepsSlot ==
  ASSUME NEW b, HasSlot(b), NEW d, Keeps(b, d)
  PROVE  HasSlot(d) /\ currentmode(d) = currentmode(b) /\ Alters({}, b, d)
<1>1. HasParts(d) /\ d.R = b.R /\ d.psw = b.psw /\ d.sp = b.sp
  BY DEF Keeps
<1>2. currentmode(d) = currentmode(b)
  BY <1>1, SameMode
<1> QED
  BY <1>1, <1>2 DEF HasSlot, Alters

LEMMA AltersOn ==
  ASSUME NEW S, NEW b, NEW d, NEW e, d.R = b.R, currentmode(d) = currentmode(b)
  PROVE  (Alters(S, d, e) => Alters(S, b, e)) /\ (Alters(S, e, b) => Alters(S, e, d))
BY DEF Alters

\* The slots hand R6 back to the mode it is of.
LEMMA writePSWAlters ==
  ASSUME NEW b, HasSlot(b), NEW w
  PROVE  Alters({}, b, writePSW(w, b))
<1> DEFINE n == \o40000
           m == currentmode(b)
           sp == [b.sp EXCEPT ![m] = b.R[6]]
           d == writePSW(w, b)
<1>1. CASE ~Live(b)
  <2>1. d = b
    BY <1>1, writePSWEnded
  <2> HIDE DEF d
  <2>2. Alters({}, b, d)
    BY <2>1 DEF Alters
  <2> QED
    BY <2>2 DEF d
<1>2. CASE Live(b)
  <2>1. d = [b EXCEPT !.sp = sp, !.psw = w, !.R[6] = sp[w \div n]]
    BY <1>2 DEF writePSW
  <2>2. currentmode(d) = d.psw \div n
    BY DEF currentmode
  <2>3. m \in 0 .. 3 /\ b.sp \in Slots /\ HasParts(b)
    BY DEF HasSlot
  <2> HIDE DEF n, m, d
  <2>4. sp[m] = b.R[6]
    BY <2>3 DEF Slots
  <2> HIDE DEF sp
  <2>5. d.psw = w /\ d.R = [b.R EXCEPT ![6] = sp[w \div n]]
    BY <2>1, <2>3 DEF HasParts
  <2>6. currentmode(d) = w \div n
    BY <2>2, <2>5
  <2>7. \A q \in 0 .. 7 : q # 6 => d.R[q] = b.R[q]
    BY <2>3, <2>5 DEF HasParts
  <2>8. d.R[6] = sp[w \div n]
    BY <2>3, <2>5 DEF HasParts
  <2>9. w \div n = m => d.R[6] = b.R[6]
    BY <2>4, <2>8
  <2>10. Alters({}, b, d)
    BY <2>6, <2>7, <2>9 DEF Alters, m
  <2> QED
    BY <2>10 DEF d
<1> QED
  BY <1>1, <1>2

LEMMA BusWriteAlters ==
  ASSUME NEW b, HasParts(b), NEW a, NEW v
  PROVE  LET d == BusWrite(a, v, b)
         IN  d.R = b.R /\ d.psw = b.psw /\ d.sp = b.sp /\ (Live(d) => Live(b))
<1> DEFINE d == BusWrite(a, v, b)
<1>1. d \in {b, Trap(INTBUS, b), Die(b), StoreCore(a, v, b), Logged(TRUE, a, v, b)}
  BY Zenon DEF BusWrite
<1>2. Live(d) => Live(b)
  <2>1. ~Live(b) => d = b
    BY BusWriteEnded
  <2> HIDE DEF d
  <2> QED
    BY <2>1
<1>3. /\ StoreCore(a, v, b).R = b.R /\ StoreCore(a, v, b).psw = b.psw
      /\ StoreCore(a, v, b).sp = b.sp
  BY DEF StoreCore, HasParts
<1>5. Keeps(b, b) /\ Keeps(b, Trap(INTBUS, b)) /\ Keeps(b, Die(b))
      /\ Keeps(b, Logged(TRUE, a, v, b))
  <2>1. Keeps(b, b)
    BY DEF Keeps
  <2> QED
    BY <2>1, TrapKeeps, DieKeeps, LoggedKeeps
<1> HIDE DEF d
<1>4. d.R = b.R /\ d.psw = b.psw /\ d.sp = b.sp
  <2>1. CASE d = StoreCore(a, v, b)
    BY <1>3, <2>1
  <2>2. CASE Keeps(b, d)
    BY <2>2 DEF Keeps
  <2> QED
    BY <1>1, <1>5, <2>1, <2>2
<1> QED
  BY <1>2, <1>4 DEF d

LEMMA Write16Alters ==
  ASSUME NEW b, HasSlot(b), NEW va, NEW v
  PROVE  Alters({}, b, Write16(va, v, b))
<1> DEFINE f == Decode(va, currentmode(b), TRUE, b)
           g == Watch(f)
           d == WriteDecoded(f.val, v, g)
<1>1. Write16(va, v, b) = d
  BY Zenon DEF Write16, WriteMapped
<1>2. Keeps(b, f) /\ HasParts(f)
  BY DecodeKeeps DEF HasSlot, Keeps
<1> HIDE DEF f
<1>3. Keeps(b, g)
  BY <1>2, WatchKeeps, KeptTrans
<1> HIDE DEF g
<1>4. HasSlot(g) /\ currentmode(g) = currentmode(b) /\ g.R = b.R /\ HasParts(g)
  BY <1>3, KeepsSlot DEF Keeps
<1>5. Alters({}, g, d)
  <2>1. d \in {g, writePSW(v, g), SetStackLimit(v, g), BusWrite(f.val, v, g)}
    BY Zenon DEF WriteDecoded
  <2> HIDE DEF d
  <2>2. Alters({}, g, writePSW(v, g)) /\ Alters({}, g, g)
    BY <1>4, writePSWAlters DEF Alters
  <2>3. SetStackLimit(v, g).R = g.R
    BY <1>4 DEF SetStackLimit, HasParts
  <2>4. BusWrite(f.val, v, g).R = g.R
    BY <1>4, BusWriteAlters
  <2> QED
    BY <2>1, <2>2, <2>3, <2>4 DEF Alters
<1> HIDE DEF d
<1> QED
  BY <1>1, <1>4, <1>5, AltersOn

\* The registers that the address a stands for.
Named(a) == {q \in 0 .. 7 : a = AliasOf(q)}

LEMMA AliasNames ==
  ASSUME NEW q \in 0 .. 7
  PROVE  AliasOf(q) % 8 = q
<1> DEFINE n == \o17000
<1>1. AliasOf(q) = 8 * n + q /\ n \in Nat
  BY DEF AliasOf
<1> HIDE DEF n
<1> QED
  BY <1>1

LEMMA SetRAlters ==
  ASSUME NEW b, HasParts(b), NEW r \in 0 .. 7, NEW v
  PROVE  Alters({r}, b, SetR(r, v, b)) /\ currentmode(SetR(r, v, b)) = currentmode(b)
<1> DEFINE d == SetR(r, v, b)
<1>1. d.psw = b.psw /\ \A q \in 0 .. 7 \ {r} : d.R[q] = b.R[q]
  BY DEF SetR, HasParts
<1>2. currentmode(d) = currentmode(b)
  BY <1>1, SameMode
<1> HIDE DEF d
<1>3. Alters({r}, b, d)
  BY <1>1 DEF Alters
<1> QED
  BY <1>2, <1>3 DEF d

LEMMA WriteAtAlters ==
  ASSUME NEW b, HasSlot(b), NEW l, NEW a, NEW v
  PROVE  Alters(Named(a), b, WriteAt(l, a, v, b))
<1>1. \A e : Alters({}, b, e) => Alters(Named(a), b, e)
  BY DEF Alters
<1>2. HasParts(b)
  BY DEF HasSlot
<1>3. CASE a \in Aliases
  <2>1. PICK q \in 0 .. 7 : a = AliasOf(q)
    BY <1>3 DEF Aliases
  <2>2. a % 8 = q /\ q \in Named(a)
    BY <2>1, AliasNames DEF Named
  <2>3. WriteAt(l, a, v, b) = SetR(q, Written(l, b.R[q], v), b)
    BY <1>3, <2>2 DEF WriteAt
  <2>4. Alters({q}, b, WriteAt(l, a, v, b))
    BY <1>2, <2>3, SetRAlters
  <2> QED
    BY <2>2, <2>4 DEF Alters
<1>4. CASE a \notin Aliases /\ l = 2
  <2>1. WriteAt(l, a, v, b) = Write16(a, v, b)
    BY <1>4 DEF WriteAt
  <2> QED
    BY <1>1, <2>1, Write16Alters
<1>5. CASE a \notin Aliases /\ l # 2
  <2> DEFINE d == Read16(WordOf(a), b)
             w == WithByte(a, d.val, v)
  <2>1. WriteAt(l, a, v, b) = Write16(WordOf(a), w, d)
    BY <1>5, Zenon DEF WriteAt, ReplaceByte
  <2>2. Keeps(b, d)
    BY <1>2, Read16Keeps
  <2> HIDE DEF d, w
  <2>3. HasSlot(d) /\ currentmode(d) = currentmode(b) /\ d.R = b.R
    BY <2>2, KeepsSlot DEF Keeps
  <2>4. Alters({}, d, Write16(WordOf(a), w, d))
    BY <2>3, Write16Alters
  <2>5. Alters({}, b, Write16(WordOf(a), w, d))
    BY <2>3, <2>4, AltersOn
  <2> QED
    BY <1>1, <2>1, <2>5
<1> QED
  BY <1>3, <1>4, <1>5

LEMMA StoresAlters ==
  ASSUME NEW b \in States, NEW o, o.len \in Lengths, NEW new, Fits({Dst, Src}, new),
         NEW a, Live(b) => a \in Word
  PROVE  Alters(Named(a), b, Stores(o, new, a, b))
<1> DEFINE e == IF o.name \in SetBefore THEN SetCodes(new.cc, b)
                ELSE IF o.name = "SUB" THEN SetCodes({}, b) ELSE b
           w == IF Writes(o, Codes(b)) THEN WriteAt(o.len, a, new.R[Dst], e) ELSE e
           r == Stores(o, new, a, b)
<1>1. /\ e \in States /\ e.R = b.R /\ currentmode(e) = currentmode(b)
      /\ (Live(e) => Live(b))
  BY SetCodesKeeps
<1>2. new.R[Dst] \in Word
  BY DEF Fits
<1>3. r = Settled(o, new.cc, w)
  BY DEF Stores
<1> HIDE DEF e, r
<1>4. w \in States
  BY <1>1, <1>2, WriteAtTyped
<1>5. Alters(Named(a), e, w)
  <2>1. Alters(Named(a), e, e)
    BY DEF Alters
  <2> QED
    BY <1>1, <2>1, WriteAtAlters, StatesSlots
<1> HIDE DEF w
<1>7. r.R = w.R /\ currentmode(r) = currentmode(w)
  BY <1>3, <1>4, SetCodesKeeps DEF Settled
<1>8. Alters(Named(a), b, w)
  BY <1>1, <1>5, AltersOn
<1>9. Alters(Named(a), b, r)
  BY <1>7, <1>8 DEF Alters
<1> QED
  BY <1>9 DEF r

LEMMA AtAddressAlters ==
  ASSUME NEW o, o.name \in Destinations, o.len \in Lengths, NEW b, Loaded(2, b),
         NEW s, NEW x, Live(b) => s \in Value(o.len) /\ x \in Word
  PROVE  /\ Alters(Named(b.val), b, AtAddress(o, s, x, b))
         /\ Live(AtAddress(o, s, x, b)) => Live(b)
<1> DEFINE d == IF o.name \in {"MOV", "CLR", "SXT"} THEN Valued(0, b)
                ELSE ReadAt(o.len, b.val, b)
           f == [k \in {Dst, Src} |-> IF k = Dst THEN d.val ELSE x]
           old == [R |-> f, cc |-> Codes(d)]
           new == Computed(o, s, old)
           r == AtAddress(o, s, x, b)
<1>1. b \in States /\ HasParts(b) /\ (Live(b) => b.val \in Word) /\ 0 \in Value(o.len)
  BY StatesParts, Widths16, ByteInWord DEF Loaded
<1>2. Loaded(o.len, d) /\ Reads(b, d)
  BY <1>1, ValueTyped, ReadAtTyped, ReadsOnly
<1>3. r = IF Live(d) THEN Stores(o, new, b.val, d) ELSE d
  BY Zenon DEF AtAddress, Compute
<1> SUFFICES Alters(Named(b.val), b, r) /\ (Live(r) => Live(b))
  OBVIOUS
<1>4. CASE ~Live(d)
  <2> HIDE DEF d, r
  <2>1. r = d /\ d.R = b.R
    BY <1>2, <1>3, <1>4 DEF Reads, Keeps
  <2> QED
    BY <1>2, <2>1 DEF Alters, Reads
<1>5. CASE Live(d)
  <2>1. r = Stores(o, new, b.val, d)
    BY <1>3, <1>5
  <2> HIDE DEF d, r
  <2>2. Live(b) /\ d \in States /\ d.val \in Word /\ x \in Word /\ s \in Value(o.len)
    BY <1>2, <1>5, ByteInWord DEF Loaded, Reads
  <2>3. f \in [{Dst, Src} -> Word]
    BY <2>2
  <2>4. Fits({Dst, Src}, old)
    BY <2>3, CodesTyped DEF Fits
  <2> HIDE DEF old
  <2>5. Fits({Dst, Src}, new)
    BY <2>2, <2>4, ComputedTyped
  <2> HIDE DEF new
  <2>6. Alters(Named(b.val), d, r)
    BY <1>1, <2>1, <2>2, <2>5, StoresAlters
  <2>7. d.R = b.R /\ currentmode(d) = currentmode(b)
    BY <1>2, SameMode DEF Reads, Keeps
  <2> QED
    BY <2>2, <2>6, <2>7, AltersOn
<1> QED
  BY <1>4, <1>5

\* The registers that an operand in a register is.
InRegister(s) == IF ModeOf(s) = 0 THEN {RegOf(s)} ELSE {}

LEMMA DestinationAlters ==
  ASSUME NEW o, o.name \in Destinations, o.len \in Lengths, NEW b \in States,
         NEW i \in Nat, NEW s, NEW x, Live(b) => s \in Value(o.len) /\ x \in Word,
         Live(Destination(o, i, s, x, b))
  PROVE  LET d == DA(o.len, i % 64, b)
         IN  Live(d) /\ Alters(InRegister(i % 64) \cup Named(d.val), d, Destination(o, i, s, x, b))
<1> DEFINE d == DA(o.len, i % 64, b)
           r == Destination(o, i, s, x, b)
<1> SUFFICES Live(d) /\ Alters(InRegister(i % 64) \cup Named(d.val), d, r)
  OBVIOUS
<1>1. i % 64 \in 0 .. 63 /\ i % 8 \in 0 .. 7 /\ HasParts(b) /\ RegOf(i % 64) = i % 8
  <2>1. (i % 64) % 8 = i % 8
    OBVIOUS
  <2> QED
    BY <2>1, FieldsOf, StatesParts DEF RegOf
<1>2. Live(b)
  <2>1. ~Live(b) => r = b
    BY Zenon DEF Destination
  <2> HIDE DEF r
  <2> QED
    BY <2>1 DEF r
<1>3. CASE o = Op("MOV", 1) /\ ModeOf(i % 64) = 0
  <2> DEFINE new == MOV(1, s, i % 8, [R |-> b.R, cc |-> Codes(b)])
             e == SetR(i % 8, new.R[i % 8], b)
  <2>1. r = SetCodes(new.cc, e)
    BY <1>2, <1>3, Zenon DEF Destination, ExtendByte
  <2>2. Reads(b, d) /\ Live(d)
    <3>1. d = Valued(AliasOf(RegOf(i % 64)), b)
      BY <1>3 DEF DA
    <3> QED
      BY <1>1, <1>2, <3>1, ReadsOnly, ValuedLives
  <2>3. e \in States
    <3>1. new.R[i % 8] \in Int
      <4>1. Fits(0 .. 7, [R |-> b.R, cc |-> Codes(b)])
        BY CodesTyped DEF Fits, States, Registers8
      <4>2. o.len = 1
        BY <1>3 DEF Op
      <4>3. Fits(0 .. 7, new)
        BY <1>1, <1>2, <4>1, <4>2, DoubleFits DEF Lengths
      <4> QED
        BY <1>1, <4>3, WordTyped DEF Fits
    <3> HIDE DEF new
    <3> QED
      BY <1>1, <3>1, SetRTyped
  <2>4. Alters({i % 8}, b, e)
    BY <1>1, SetRAlters
  <2> HIDE DEF d, e, new
  <2>5. r.R = e.R /\ currentmode(r) = currentmode(e)
    BY <2>1, <2>3, SetCodesKeeps
  <2> HIDE DEF r
  <2>6. d.R = b.R /\ currentmode(d) = currentmode(b)
    BY <2>2, SameMode DEF Reads, Keeps
  <2>7. i % 8 \in InRegister(i % 64)
    BY <1>1, <1>3 DEF InRegister
  <2> QED
    BY <2>2, <2>4, <2>5, <2>6, <2>7 DEF Alters
<1>4. CASE ~(o = Op("MOV", 1) /\ ModeOf(i % 64) = 0)
  <2>1. r = AtAddress(o, s, x, d)
    BY <1>2, <1>4, Zenon DEF Destination
  <2>2. Loaded(2, d)
    BY <1>1, DATyped
  <2>3. Live(r)
    OBVIOUS
  <2> HIDE DEF d, r
  <2>4. Live(d) /\ Alters(Named(d.val), d, r)
    BY <1>2, <2>1, <2>2, <2>3, AtAddressAlters
  <2> QED
    BY <2>4 DEF Alters
<1> QED
  BY <1>3, <1>4

\* What an instruction that has run to its end leaves in the registers.
Completed(d) ==
  \A q \in 0 .. 7 \ (Changes(now) \cup Named(Address(now))) :
    \/ d.R[q] = Moved(Demands(now))[5][q]
    \/ q = 6 /\ currentmode(d) # currentmode(c)

\* Where the registers are after the source and the destination.
LEMMA OperandsMoved ==
  ASSUME c \in States, Live(fetched), NEW s, Moving(Demand(2), fetched, s),
         NEW d, Moving(Demand(3), s, d), Live(d)
  PROVE  /\ Moved(Demands(now))[5] = Move(Demand(4), d.R)
         /\ Demand(4) = Still => Moved(Demands(now))[5] = d.R
         /\ currentmode(d) = currentmode(c)
<1> DEFINE M == Moved(Demands(now))
<1>1. M[3] = Move(Demand(2), M[2]) /\ M[4] = Move(Demand(3), M[3])
      /\ M[5] = Move(Demand(4), M[4])
  BY MovedParts
<1>2. fetched.R = M[2] /\ fetched.psw = c.psw
  BY FetchedReady
<1> HIDE DEF M
<1>3. Live(s) /\ s.R = M[3] /\ d.R = M[4] /\ d.psw = c.psw /\ HasParts(d)
  BY <1>1, <1>2 DEF Moving
<1>4. currentmode(d) = currentmode(c)
  BY <1>3, SameMode
<1>5. Move(Still, d.R) = d.R
  <2>1. Keeps(d, d)
    BY <1>3 DEF Keeps
  <2>2. Moving(Still, d, d)
    BY <1>3, <2>1, StillMoves DEF Reads
  <2> QED
    BY <2>2 DEF Moving
<1> QED
  BY <1>1, <1>3, <1>4, <1>5 DEF M

\* An instruction that pushes nothing, and alters no register that it should not.
LEMMA CompletedBy ==
  ASSUME c \in States, Live(fetched), NEW s, Moving(Demand(2), fetched, s),
         NEW d, Moving(Demand(3), s, d), Live(d), Demand(4) = Still,
         NEW S, S \subseteq Changes(now) \cup Named(Address(now)),
         NEW r, Alters(S, d, r)
  PROVE  Completed(r)
<1>1. Moved(Demands(now))[5] = d.R /\ currentmode(d) = currentmode(c)
  BY OperandsMoved
<1> QED
  BY <1>1 DEF Completed, Alters

LEMMA ChangesOf ==
  LET n == now.name
  IN  /\ n = "JMP" => Changes(now) = {7}
      /\ n = "JSR" => Changes(now) = {7, now.reg}
      /\ n \in Arithmetics => Changes(now) = {now.reg, Beside(now.reg)}
      /\ n \in DoubleArm \cup SingleArm \cup {"MTPI"} => Changes(now) = InRegister(now.dst)
<1> DEFINE n == now.name
<1>1. n \in DoubleArm \cup SingleArm \cup {"MTPI"} => n \notin {"JMP", "JSR", "MFPI"} \cup Pairs
  BY ArmNames DEF TwoOperands, Pairs
<1> HIDE DEF n
<1>2. /\ n = "JMP" => Changes(now) = {7}
      /\ n = "JSR" => Changes(now) = {7, now.reg}
      /\ n \in Pairs => Changes(now) = {now.reg, Beside(now.reg)}
      /\ n \notin {"JMP", "JSR", "MFPI"} \cup Pairs => Changes(now) = InRegister(now.dst)
  <2>1. "JMP" \notin Pairs /\ "JSR" \notin Pairs /\ "MFPI" \notin Pairs
    BY DEF Pairs
  <2> QED
    BY <2>1 DEF Changes, InRegister, n
<1> QED
  BY <1>1, <1>2 DEF Arithmetics, Pairs, n

\* The address of the destination is the one that the instruction forms.
LEMMA AddressOf ==
  ASSUME c \in States, Live(fetched)
  PROVE  /\ now.name \in DoubleArm =>
              Address(now) = DA(now.len, now.dst, SS(now.len, now.src, fetched)).val
         /\ now.name \in SingleArm =>
              Address(now) = DA(now.len, now.dst, fetched).val
<1>1. /\ now.name \in DoubleArm => now.name \in TwoOperands
      /\ now.name \in SingleArm => now.name \notin TwoOperands /\ now.name # "MTPI"
  BY ArmNames DEF TwoOperands
<1> QED
  BY <1>1 DEF Address

LEMMA DoubleCompleted ==
  ASSUME c \in States, Live(fetched), NEW i, i = fetched.val, NEW o, o = Operation(i),
         o.name \in DoubleArm, Live(DoubleOperand(o, i, fetched))
  PROVE  Completed(DoubleOperand(o, i, fetched))
<1> DEFINE s == SS(o.len, now.src, fetched)
           d == DA(o.len, i % 64, s)
           r == DoubleOperand(o, i, fetched)
<1>1. /\ i \in Nat /\ now.name = o.name /\ now.len = o.len /\ o.len \in Lengths
      /\ now.src = (i \div 64) % 64 /\ now.dst = i % 64 /\ now.src \in 0 .. 63
      /\ now.dst \in 0 .. 63
  BY NowIs
<1>2. Demand(2) = Moves(now.src, o.len) /\ Demand(3) = Moves(i % 64, o.len)
      /\ Demand(4) = Still
  BY <1>1, DemandsOf
<1>3. fetched \in States
  BY FetchedReady DEF Ready
<1>4. Moving(Demand(2), fetched, s) /\ Loaded(o.len, s)
  BY <1>1, <1>2, <1>3, DAMoves, SSTyped
<1>5. r = Destination(o, i, s.val, 0, s)
  BY <1>1 DEF DoubleOperand, ToDestination
<1>6. o.name \in Destinations /\ 0 \in Word
  <2>1. 0 \in Word
    BY ByteInWord DEF Lengths, Word
  <2> QED
    BY <2>1, GroupNames DEF DoubleArm
<1>7. Address(now) = d.val /\ Changes(now) = InRegister(i % 64)
  BY <1>1, AddressOf, ChangesOf
<1> HIDE DEF s
<1>8. s \in States /\ (Live(s) => s.val \in Value(o.len))
  BY <1>4 DEF Loaded
<1>9. Live(Destination(o, i, s.val, 0, s))
  BY <1>5
<1>10. Live(d) /\ Alters(InRegister(i % 64) \cup Named(d.val), d, Destination(o, i, s.val, 0, s))
  BY <1>1, <1>6, <1>8, <1>9, DestinationAlters
<1>11. Moving(Demand(3), s, d)
  BY <1>1, <1>2, <1>8, DAMoves
<1> HIDE DEF r, d
<1> QED
  BY <1>2, <1>4, <1>5, <1>7, <1>10, <1>11, CompletedBy DEF r

LEMMA SingleCompleted ==
  ASSUME c \in States, Live(fetched), NEW i, i = fetched.val, NEW o, o = Operation(i),
         o.name \in SingleArm, Live(SingleOperand(o, i, fetched))
  PROVE  Completed(SingleOperand(o, i, fetched))
<1> DEFINE x == fetched.R[RegOf(i \div 64)]
           d == DA(o.len, i % 64, fetched)
           r == SingleOperand(o, i, fetched)
<1>1. /\ i \in Nat /\ now.name = o.name /\ now.len = o.len /\ o.len \in Lengths
      /\ now.dst = i % 64 /\ now.dst \in 0 .. 63 /\ RegOf(i \div 64) \in 0 .. 7
  BY NowIs, FieldsOf
<1>2. Demand(2) = Still /\ Demand(3) = Moves(i % 64, o.len) /\ Demand(4) = Still
  BY <1>1, DemandsOf
<1>3. fetched \in States
  BY FetchedReady DEF Ready
<1>4. Moving(Demand(2), fetched, fetched)
  BY <1>2, <1>3, StatesParts, StillMoves
<1>5. x \in Word /\ 0 \in Value(o.len)
  BY <1>1, <1>3, RegisterTyped, Widths16, ByteInWord
<1>6. r = Destination(o, i, 0, x, fetched)
  BY DEF SingleOperand
<1>7. o.name \in Destinations
  BY GroupNames DEF SingleArm
<1>8. Address(now) = d.val /\ Changes(now) = InRegister(i % 64)
  BY <1>1, AddressOf, ChangesOf
<1> HIDE DEF x
<1>9. Live(Destination(o, i, 0, x, fetched))
  BY <1>6
<1>10. Live(d) /\ Alters(InRegister(i % 64) \cup Named(d.val), d, Destination(o, i, 0, x, fetched))
  BY <1>1, <1>3, <1>5, <1>7, <1>9, DestinationAlters
<1>11. Moving(Demand(3), fetched, d)
  BY <1>1, <1>2, <1>3, DAMoves
<1> HIDE DEF r, d
<1> QED
  BY <1>2, <1>4, <1>6, <1>8, <1>10, <1>11, CompletedBy DEF r

LEMMA ExtendedCompleted ==
  ASSUME c \in States, Live(fetched), NEW i, i = fetched.val, NEW o, o = Operation(i),
         o.name \in Arithmetics, NEW u, Live(ExtendedArithmetic(o, i, u, fetched))
  PROVE  Completed(ExtendedArithmetic(o, i, u, fetched))
<1> DEFINE e == DA(2, i % 64, fetched)
           d == Source(e)
           k == RegOf(i \div 64)
           new == Extension(o.name, d.val, k, u, [R |-> fetched.R, cc |-> Codes(fetched)])
           r == ExtendedArithmetic(o, i, u, fetched)
<1>1. /\ i \in Nat /\ now.name = o.name /\ now.dst = i % 64 /\ now.dst \in 0 .. 63
      /\ now.len = 2 /\ now.reg = k
  <2>1. o.name \notin Destinations
    BY DEF Arithmetics, Destinations
  <2> QED
    BY <2>1, NowIs
<1>2. Demand(2) = Still /\ Demand(3) = Moves(i % 64, 2) /\ Demand(4) = Still
  BY <1>1, DemandsOf
<1>3. fetched \in States
  BY FetchedReady DEF Ready
<1>4. Moving(Demand(2), fetched, fetched)
  BY <1>2, <1>3, StatesParts, StillMoves
<1>5. Moving(Demand(3), fetched, e) /\ Loaded(2, e)
  BY <1>1, <1>2, <1>3, DAMoves, DATyped DEF Lengths
<1>6. r = Extend(o.name, k, new, d)
  BY DEF ExtendedArithmetic, WithSource
<1>7. {k, Beside(k)} \subseteq Changes(now) \cup Named(Address(now))
  BY <1>1, ChangesOf
<1> HIDE DEF e
<1>8. Reads(e, d) /\ HasParts(d)
  BY <1>5, StatesParts, ReadsOnly, MovesOn DEF Source, Loaded
<1>9. Live(d)
  <2>1. ~Live(d) => r = d
    BY <1>6 DEF Extend
  <2> HIDE DEF d, r, new
  <2> QED
    BY <2>1 DEF r
<1> HIDE DEF d, new
<1>10. Moving(Demand(3), fetched, d)
  BY <1>5, <1>8, MovesOn
<1> DEFINE X == Extends(o.name, k, new.cc)
           g == [d EXCEPT !.R = [q \in 0 .. 7 |-> IF q \in X THEN new.R[q] ELSE @[q]]]
<1>11. r = SetCodes(new.cc, g)
  BY <1>6, <1>9 DEF Extend
<1>12. X \subseteq {k, Beside(k)}
  BY Zenon DEF Extends
<1> HIDE DEF X, r
<1>13. "R" \in DOMAIN g /\ g.R = [q \in 0 .. 7 |-> IF q \in X THEN new.R[q] ELSE d.R[q]]
  BY <1>8 DEF HasParts
<1> HIDE DEF g
<1>14. r.R = g.R
  <2>1. r = g \/ r = [g EXCEPT !.psw = @ - (@ % 16) + CodeWord(new.cc)]
    BY <1>11 DEF SetCodes
  <2> QED
    BY <1>13, <2>1
<1>15. Alters({k, Beside(k)}, d, r)
  BY <1>12, <1>13, <1>14 DEF Alters
<1> QED
  BY <1>2, <1>4, <1>7, <1>9, <1>10, <1>15, CompletedBy DEF r

LEMMA JumpsCompleted ==
  ASSUME c \in States, Live(fetched), NEW i, i = fetched.val, NEW o, o = Operation(i)
  PROVE  /\ o.name = "JMP" /\ Live(JMP(i, fetched)) => Completed(JMP(i, fetched))
         /\ o.name = "JSR" /\ Live(JSR(i, fetched)) => Completed(JSR(i, fetched))
<1> DEFINE e == DA(2, i % 64, fetched)
           k == RegOf(i \div 64)
<1> SUFFICES ASSUME o.name \in {"JMP", "JSR"}
             PROVE  /\ o.name = "JMP" /\ Live(JMP(i, fetched)) => Completed(JMP(i, fetched))
                    /\ o.name = "JSR" /\ Live(JSR(i, fetched)) => Completed(JSR(i, fetched))
  OBVIOUS
<1>1. /\ i \in Nat /\ now.name = o.name /\ now.dst = i % 64 /\ now.dst \in 0 .. 63
      /\ now.len = 2 /\ now.reg = k /\ k \in 0 .. 7
  <2>1. o.name \notin Destinations
    BY DEF Destinations
  <2> QED
    BY <2>1, NowIs, FieldsOf
<1>2. /\ Demand(2) = Still /\ Demand(3) = Moves(i % 64, 2)
      /\ o.name = "JMP" => Demand(4) = Still
      /\ o.name = "JSR" => Demand(4) = Adds(6, -2)
  BY <1>1, DemandsOf
<1>3. fetched \in States
  BY FetchedReady DEF Ready
<1>4. Moving(Demand(2), fetched, fetched)
  BY <1>2, <1>3, StatesParts, StillMoves
<1>5. Moving(Demand(3), fetched, e) /\ Loaded(2, e) /\ HasParts(e)
  BY <1>1, <1>2, <1>3, DAMoves, DATyped, MovesOn DEF Lengths
<1>6. ~Live(Die(fetched))
  BY <1>3, StatesParts, DieKeeps DEF Live
<1>7. CASE o.name = "JMP"
  <2> DEFINE r == JMP(i, fetched)
  <2>1. Live(r) => r = SetR(7, e.val, e)
    BY <1>6 DEF JMP, Into
  <2> HIDE DEF e
  <2>2. ~Live(e) => SetR(7, e.val, e) = e
    BY <1>5, SetRKeeps DEF Loaded
  <2>3. Alters({7}, e, SetR(7, e.val, e))
    BY <1>5, SetRAlters, 7 \in 0 .. 7
  <2>4. {7} \subseteq Changes(now) \cup Named(Address(now))
    BY <1>1, <1>7, ChangesOf
  <2> HIDE DEF r
  <2>5. Live(r) => Completed(r)
    BY <1>2, <1>4, <1>5, <1>7, <2>1, <2>2, <2>3, <2>4, CompletedBy
  <2> QED
    BY <1>7, <2>5 DEF r
<1>8. CASE o.name = "JSR"
  <2> DEFINE a == AddR(6, -2, e)
             p == Write16(a.R[6], e.R[k], a)
             f == Link(k, p)
             g == SetR(7, e.val, f)
             r == JSR(i, fetched)
  <2>1. Live(r) => r = g
    BY <1>6 DEF JSR, CallAt, Call, pushR, push, Top
  <2> HIDE DEF e, k
  <2>2. Moving(Adds(6, -2), e, a) /\ a \in States
    <3>1. 6 \in 0 .. 7 /\ -2 \in Int
      OBVIOUS
    <3> QED
      BY <1>5, <3>1, Moves1, AddRTyped DEF Loaded
  <2>3. p \in States
    <3>1. p = pushR(k, e)
      BY DEF pushR, push, Top
    <3> HIDE DEF p
    <3> QED
      BY <1>1, <1>5, <3>1, pushRTyped DEF Loaded
  <2>4. Alters({}, a, p)
    BY <2>2, StatesSlots, Write16Alters
  <2>5. ~Live(a) => p = a
    <3> HIDE DEF a
    <3> QED
      BY Write16Ended
  <2> HIDE DEF a, p
  <2>6. /\ f \in States /\ Alters({k}, p, f) /\ currentmode(f) = currentmode(p)
        /\ (~Live(p) => f = p)
    BY <1>1, <2>3, CopyTyped, SetRKeeps, SetRAlters, StatesParts, 7 \in 0 .. 7 DEF Link
  <2> HIDE DEF f
  <2>7. Alters({7}, f, g) /\ currentmode(g) = currentmode(f) /\ (~Live(f) => g = f)
    BY <2>6, SetRKeeps, SetRAlters, StatesParts, 7 \in 0 .. 7
  <2> HIDE DEF g
  <2>8. Live(g) => Live(e) /\ a.R = Move(Adds(6, -2), e.R) /\ a.psw = e.psw
    BY <2>2, <2>5, <2>6, <2>7 DEF Moving
  <2>9. Live(g) => currentmode(a) = currentmode(e)
    BY <2>8, SameMode
  <2>10. Live(g) => a.R = Moved(Demands(now))[5] /\ currentmode(a) = currentmode(c)
    BY <1>2, <1>4, <1>5, <1>8, <2>8, <2>9, OperandsMoved
  <2>11. \A q \in 0 .. 7 \ {7, k} :
           g.R[q] = a.R[q] \/ (q = 6 /\ currentmode(g) # currentmode(a))
    <3>1. TAKE q \in 0 .. 7 \ {7, k}
    <3>2. q \in 0 .. 7 \ {7} /\ q \in 0 .. 7 \ {k} /\ q \in 0 .. 7 \ {}
      OBVIOUS
    <3>3. g.R[q] = f.R[q]
      BY <2>7, <3>2 DEF Alters
    <3>4. f.R[q] = p.R[q]
      BY <2>6, <3>2 DEF Alters
    <3> QED
      BY <2>4, <2>6, <2>7, <3>2, <3>3, <3>4 DEF Alters
  <2>12. {7, k} = Changes(now)
    BY <1>1, <1>8, ChangesOf
  <2> HIDE DEF r
  <2>13. Live(r) => Completed(r)
    BY <2>1, <2>10, <2>11, <2>12 DEF Completed
  <2> QED
    BY <1>8, <2>13 DEF r
<1> QED
  BY <1>7, <1>8

LEMMA MFPICompleted ==
  ASSUME c \in States, Live(fetched), NEW i, i = fetched.val, Operation(i).name = "MFPI",
         Live(MFPI(i, fetched))
  PROVE  Completed(MFPI(i, fetched))
<1> DEFINE v == IF InSlot(i, fetched) THEN fetched.sp[previousmode(fetched)]
                ELSE fetched.R[i % 8]
           s == IF ModeOf(i % 64) # 0 THEN BusReadAt(Previous(FALSE, DA(2, i % 64, fetched)))
                ELSE Valued(v, fetched)
           a == AddR(6, -2, s)
           p == Write16(a.R[6], s.val, a)
           r == MFPI(i, fetched)
<1>1. i \in Nat /\ now.name = "MFPI"
  BY NowIs
<1>2. Demand(2) = Still /\ Demand(4) = Adds(6, -2)
  BY <1>1, DemandsOf
<1>3. fetched \in States
  BY FetchedReady DEF Ready
<1>4. Moving(Demand(2), fetched, fetched)
  BY <1>2, <1>3, StatesParts, StillMoves
<1>5. r = SetNZ(s.val, p)
  BY DEF MFPI, PushValue, push, Top
<1>6. Moving(Demand(3), fetched, s) /\ Loaded(2, s) /\ HasParts(s)
  BY <1>1, MFPISource, StatesParts DEF Loaded
<1> HIDE DEF s
<1>7. Moving(Adds(6, -2), s, a) /\ a \in States
  <2>1. 6 \in 0 .. 7 /\ -2 \in Int
    OBVIOUS
  <2> QED
    BY <1>6, <2>1, Moves1, AddRTyped DEF Loaded
<1>8. p \in States
  <2>1. p = push(s.val, s)
    BY DEF push, Top
  <2> HIDE DEF p
  <2> QED
    BY <1>6, <2>1, pushTyped, Widths16 DEF Loaded
<1>9. Alters({}, a, p)
  BY <1>7, StatesSlots, Write16Alters
<1>10. ~Live(a) => p = a
  <2> HIDE DEF a
  <2> QED
    BY Write16Ended
<1> HIDE DEF a, p
<1>11. r.R = p.R /\ currentmode(r) = currentmode(p) /\ (Live(r) => Live(p))
  BY <1>5, <1>8, SetCodesKeeps DEF SetNZ
<1>12. Live(r)
  OBVIOUS
<1> HIDE DEF r
<1>13. Live(s) /\ a.R = Move(Adds(6, -2), s.R) /\ a.psw = s.psw
  BY <1>7, <1>10, <1>11, <1>12 DEF Moving
<1>14. currentmode(a) = currentmode(s)
  BY <1>13, SameMode
<1>15. a.R = Moved(Demands(now))[5] /\ currentmode(a) = currentmode(c)
  BY <1>2, <1>4, <1>6, <1>13, <1>14, OperandsMoved
<1>16. Completed(r)
  BY <1>9, <1>11, <1>15 DEF Completed, Alters
<1> QED
  BY <1>16 DEF r

LEMMA MTPICompleted ==
  ASSUME c \in States, Live(fetched), NEW i, i = fetched.val, Operation(i).name = "MTPI",
         Live(MTPI(i, fetched))
  PROVE  Completed(MTPI(i, fetched))
<1> DEFINE s == pop(fetched)
           e == DA(2, i % 64, s)
           d == Previous(TRUE, e)
           q == PopTo(i, s)
           r == MTPI(i, fetched)
<1>1. /\ i \in Nat /\ now.name = "MTPI" /\ now.dst = i % 64 /\ now.dst \in 0 .. 63
      /\ now.len = 2 /\ i % 8 \in 0 .. 7 /\ RegOf(i % 64) = i % 8
  <2>1. "MTPI" \notin Destinations
    BY DEF Destinations
  <2>2. i \in Nat
    BY NowIs
  <2>3. (i % 64) % 8 = i % 8
    BY <2>2
  <2> QED
    BY <2>1, <2>2, <2>3, NowIs, FieldsOf DEF RegOf
<1>2. Demand(2) = Adds(6, 2) /\ Demand(3) = Moves(i % 64, 2) /\ Demand(4) = Still
  BY <1>1, DemandsOf
<1>3. fetched \in States /\ HasParts(fetched)
  BY FetchedReady, StatesParts DEF Ready
<1>4. Moving(Demand(2), fetched, s) /\ Loaded(2, s)
  BY <1>2, <1>3, FetchMoves, popTyped
<1>5. r = SetNZ(s.val, q)
  BY DEF MTPI, PopValue
<1> HIDE DEF s
<1>6. s \in States /\ HasParts(s)
  BY <1>4, StatesParts DEF Loaded
<1>7. Moving(Demand(3), s, e) /\ Loaded(2, e)
  BY <1>1, <1>2, <1>6, DAMoves, DATyped DEF Lengths
<1>8. q \in States
  BY <1>1, <1>4, PopToTyped
<1>9. r.R = q.R /\ currentmode(r) = currentmode(q) /\ (Live(r) => Live(q))
  <2> HIDE DEF q
  <2> QED
    BY <1>5, <1>8, SetCodesKeeps DEF SetNZ
<1>10. Live(q)
  BY <1>9
<1> HIDE DEF r
<1>11. Live(s)
  <2>1. ~Live(s) => q = s
    BY Zenon DEF PopTo
  <2> HIDE DEF q
  <2> QED
    BY <1>10, <2>1
<1>12. Live(e) /\ Alters(InRegister(i % 64), e, q)
  <2>1. CASE ModeOf(i % 64) # 0
    <3>1. ~InSlot(i, s)
      BY <2>1 DEF InSlot, ModeOf
    <3>2. q = BusWriteAt(s.val, d)
      BY <1>11, <2>1, <3>1, Zenon DEF PopTo
    <3>3. q = BusWrite(d.val, s.val, d)
      BY <3>2, Zenon DEF BusWriteAt
    <3> HIDE DEF e
    <3>4. Reads(e, d)
      BY <1>7, PreviousReads
    <3> HIDE DEF d, q
    <3>5. q.R = d.R /\ (Live(q) => Live(d))
      BY <3>3, <3>4, MovesOn, BusWriteAlters
    <3> QED
      BY <1>10, <3>4, <3>5 DEF Alters, Reads, Keeps
  <2>2. CASE ModeOf(i % 64) = 0
    <3>1. e = Valued(AliasOf(RegOf(i % 64)), s)
      BY <2>2 DEF DA
    <3>2. q \in {[s EXCEPT !.sp[previousmode(s)] = s.val], SetR(i % 8, s.val, s)}
      BY <1>11, <2>2, Zenon DEF PopTo, Into
    <3>3. Live(e) /\ Reads(s, e)
      BY <1>6, <1>11, <3>1, ValuedLives, ReadsOnly
    <3> HIDE DEF e, q
    <3>4. e.R = s.R /\ currentmode(e) = currentmode(s)
      BY <3>3, SameMode DEF Reads, Keeps
    <3>5. [s EXCEPT !.sp[previousmode(s)] = s.val].R = s.R
      BY <1>6 DEF States
    <3>6. Alters({i % 8}, s, SetR(i % 8, s.val, s))
      BY <1>1, <1>6, SetRAlters
    <3>7. Alters({i % 8}, s, q)
      BY <3>2, <3>5, <3>6 DEF Alters
    <3>8. InRegister(i % 64) = {i % 8}
      BY <1>1, <2>2 DEF InRegister
    <3> QED
      BY <3>3, <3>4, <3>7, <3>8, AltersOn
  <2> QED
    BY <2>1, <2>2
<1> HIDE DEF e, q
<1>13. Alters(InRegister(i % 64), e, r)
  BY <1>9, <1>12 DEF Alters
<1>14. InRegister(i % 64) \subseteq Changes(now) \cup Named(Address(now))
  BY <1>1, ChangesOf
<1> QED
  BY <1>2, <1>4, <1>7, <1>12, <1>13, <1>14, CompletedBy DEF r

\* Of the instructions that have operands.
OperandsCompleted(r) == Live(r) => Completed(r)

LEMMA PerformCompleted ==
  ASSUME c \in States, Live(fetched), now.name \in WithOperands, NEW u
  PROVE  OperandsCompleted(Perform(fetched.val, u, fetched))
<1> DEFINE i == fetched.val
           o == Operation(i)
           n == o.name
           G == {d \in States : OperandsCompleted(d)}
<1>1. i \in Nat /\ fetched \in States /\ n = now.name /\ o.len \in Lengths
  BY NowIs, FetchedReady DEF Ready
<1>2. n \in Destinations \/ n \in Arithmetics \/ n \in {"JMP", "JSR", "MFPI", "MTPI"}
  BY <1>1, ArmNames, GroupNames DEF DoubleArm, SingleArm
<1>3. n \in DoubleArm => DoubleOperand(o, i, fetched) \in G
  <2>1. n \in DoubleArm => DoubleOperand(o, i, fetched) \in States
    BY <1>1, GroupNames, OperandsTyped DEF DoubleArm
  <2> QED
    BY <2>1, DoubleCompleted DEF OperandsCompleted
<1>4. n \in SingleArm => SingleOperand(o, i, fetched) \in G
  <2>1. n \in SingleArm => SingleOperand(o, i, fetched) \in States
    BY <1>1, GroupNames, OperandsTyped DEF SingleArm
  <2> QED
    BY <2>1, SingleCompleted DEF OperandsCompleted
<1>5. n \in Arithmetics => ExtendedArithmetic(o, i, u, fetched) \in G
  <2>1. n \in Arithmetics => ExtendedArithmetic(o, i, u, fetched) \in States
    BY <1>1, ExtendedTyped
  <2> QED
    BY <2>1, ExtendedCompleted DEF OperandsCompleted
<1>6. n = "JMP" => JMP(i, fetched) \in G
  <2>1. JMP(i, fetched) \in States
    BY <1>1, JumpsTyped
  <2> QED
    BY <2>1, JumpsCompleted DEF OperandsCompleted
<1>7. n = "JSR" => JSR(i, fetched) \in G
  <2>1. JSR(i, fetched) \in States
    BY <1>1, JumpsTyped
  <2> QED
    BY <2>1, JumpsCompleted DEF OperandsCompleted
<1>8. n = "MFPI" => MFPI(i, fetched) \in G
  <2>1. MFPI(i, fetched) \in States
    BY <1>1, MFPITyped
  <2> QED
    BY <2>1, MFPICompleted DEF OperandsCompleted
<1>9. n = "MTPI" => MTPI(i, fetched) \in G
  <2>1. MTPI(i, fetched) \in States
    BY <1>1, MTPITyped
  <2> QED
    BY <2>1, MTPICompleted DEF OperandsCompleted
<1> HIDE DEF G, i, o, n
<1>10. n \notin BranchArm
  <2>1. BranchArm \subseteq Branching
    BY TableNames DEF BranchArm
  <2>2. n \notin Branching
    BY <1>2 DEF Destinations, Arithmetics, Branching
  <2> QED
    BY <2>1, <2>2
<1>11. /\ n \notin {"SOB", "RTS", "MARK", "RTI", "RTT", "SPL", "CLRCC", "SETCC", "RESET",
                    "HALT", "WAIT", "SETD"}
       /\ n \notin DOMAIN TrapVectors
  BY <1>2 DEF Destinations, Arithmetics, TrapVectors
<1>12. /\ n \in DoubleArm => DoubleOperand(o, i, fetched) \in G
       /\ n \in SingleArm => SingleOperand(o, i, fetched) \in G
       /\ n \in Arithmetics => ExtendedArithmetic(o, i, u, fetched) \in G
       /\ n \in BranchArm => branch(i, fetched) \in G /\ fetched \in G
       /\ n = "SOB" => SOB(i, fetched) \in G
       /\ n = "JMP" => JMP(i, fetched) \in G
       /\ n = "JSR" => JSR(i, fetched) \in G
       /\ n = "RTS" => RTS(i, fetched) \in G
       /\ n = "MARK" => MARK(i, fetched) \in G
       /\ n = "MFPI" => MFPI(i, fetched) \in G
       /\ n = "MTPI" => MTPI(i, fetched) \in G
       /\ n \in {"RTI", "RTT"} => RTT(fetched) \in G
       /\ n = "SPL" => SPL(i, fetched) \in G
       /\ n = "CLRCC" => CLRCC(i, fetched) \in G
       /\ n = "SETCC" => SETCC(i, fetched) \in G
       /\ n \in DOMAIN TrapVectors => trapat(TrapVectors[n], fetched) \in G
       /\ n = "RESET" => RESET(fetched) \in G
       /\ n = "HALT" => Die(fetched) \in G
       /\ n \in {"WAIT", "SETD"} => fetched \in G
  BY <1>3, <1>4, <1>5, <1>6, <1>7, <1>8, <1>9, <1>10, <1>11
<1>13. Perform(i, u, fetched) \in G
  BY <1>1, <1>12, PerformArms DEF o, n
<1> QED
  BY <1>13 DEF G, i

(***************************************************************************)
(* Whatever program runs, an instruction with operands that runs to its    *)
(* end has moved the registers of its operands as the handbook says, each  *)
(* once and in order, and changed no other register but its destination,   *)
(* R6 with the mode, or the one whose alias its address is (step() and     *)
(* what it calls, kb11.cc).                                                *)
(***************************************************************************)
THEOREM OperandsMoveOnceAlways == Spec => OperandsMoveOnce
<1> DEFINE A == Completes =>
                  LET moved == Moved(Demands(now))[5]
                  IN  \A r \in 0 .. 7 \ Changes(now) :
                        \/ c'.R[r] = moved[r]
                        \/ r = 6 /\ currentmode(c') # currentmode(c)
                        \/ Address(now) = AliasOf(r)
<1>1. TypeOK /\ [Next]_vars => [A]_vars
  <2> SUFFICES ASSUME TypeOK, Next, Completes, NEW r \in 0 .. 7 \ Changes(now)
               PROVE  \/ c'.R[r] = Moved(Demands(now))[5][r]
                      \/ r = 6 /\ currentmode(c') # currentmode(c)
                      \/ Address(now) = AliasOf(r)
    OBVIOUS
  <2>1. c \in States
    BY StateTyped DEF TypeOK
  <2>2. Step /\ Live(c) /\ Live(c') /\ now.name \in WithOperands
    BY DEF Next, TakeTrap, Live, Completes
  <2>3. PICK u \in BOOLEAN : c' = AtRest(step(u, c))
    BY <2>2 DEF Step
  <2> DEFINE d == step(u, c)
  <2>4. d \in States /\ d = Started(u, fetched)
    BY <2>1, stepTyped DEF step, fetched, begun
  <2> HIDE DEF d
  <2>5. c'.R = d.R /\ c'.psw = d.psw /\ Live(d)
    BY <2>2, <2>3, <2>4 DEF AtRest, States, Live, d
  <2>6. Live(fetched) /\ d = Perform(fetched.val, u, fetched)
    BY <2>4, <2>5 DEF Started
  <2>7. Completed(d)
    BY <2>1, <2>2, <2>5, <2>6, PerformCompleted DEF OperandsCompleted
  <2>8. currentmode(c') = currentmode(d)
    BY <2>5, SameMode
  <2>9. r \in Named(Address(now)) => Address(now) = AliasOf(r)
    BY DEF Named
  <2> QED
    BY <2>5, <2>7, <2>8, <2>9 DEF Completed
<1>2. Spec => [][A]_vars
  BY <1>1, ProcessorTypeCorrect, PTL DEF Spec
<1> QED
  BY <1>2 DEF OperandsMoveOnce

-----------------------------------------------------------------------------
(* Byte instructions. *)

\* Memory differs in one word at most, and there in the byte at address k.
OneByte(k, f, g) ==
  \E x \in Nat :
    /\ \A y : y # x => At(g, y) = At(f, y)
    /\ ByteAt(x + 1 - (k % 2), At(f, x)) = ByteAt(x + 1 - (k % 2), At(g, x))

LEMMA SameBytes ==
  ASSUME NEW k, NEW f
  PROVE  OneByte(k, f, f)
<1>1. 0 \in Nat
  OBVIOUS
<1> QED
  BY <1>1 DEF OneByte

\* What a write does to memory: nothing, or it stores the word at a bus address
\* that memory is at.
LEMMA WriteDecodedStores ==
  ASSUME NEW b, HasParts(b), NEW a, NEW v
  PROVE  \/ WriteDecoded(a, v, b).core = b.core
         \/ /\ WriteDecoded(a, v, b).core = Stored(a, v, b.core)
            /\ ~Odd(a) /\ Answers(a, TRUE) = "core"
            /\ a \notin {PSWAddress, StackLimit, Switches}
<1> DEFINE d == WriteDecoded(a, v, b)
           who == Answers(a, TRUE)
<1>1. CASE ~Live(b) \/ a \in {PSWAddress, StackLimit, Switches}
  <2>1. d \in {b, writePSW(v, b), SetStackLimit(v, b)}
    BY <1>1, Zenon DEF WriteDecoded
  <2>2. writePSW(v, b).core = b.core /\ SetStackLimit(v, b).core = b.core
    BY DEF writePSW, SetStackLimit, HasParts
  <2> HIDE DEF d
  <2>3. d.core = b.core
    BY <2>1, <2>2
  <2> QED
    BY <2>3 DEF d
<1>2. CASE Live(b) /\ a \notin {PSWAddress, StackLimit, Switches}
  <2>1. d = BusWrite(a, v, b)
    BY <1>2, Zenon DEF WriteDecoded
  <2>2. \/ d \in {Trap(INTBUS, b), Die(b), Logged(TRUE, a, v, b)}
        \/ ~Odd(a) /\ who = "core" /\ d = StoreCore(a, v, b)
    <3>1. CASE ~Odd(a) /\ who = "core"
      BY <1>2, <2>1, <3>1, Zenon DEF BusWrite
    <3>2. CASE ~(~Odd(a) /\ who = "core")
      BY <1>2, <2>1, <3>2, Zenon DEF BusWrite
    <3> QED
      BY <3>1, <3>2
  <2>3. Keeps(b, Trap(INTBUS, b)) /\ Keeps(b, Die(b)) /\ Keeps(b, Logged(TRUE, a, v, b))
    BY TrapKeeps, DieKeeps, LoggedKeeps
  <2>4. StoreCore(a, v, b).core = Stored(a, v, b.core)
    BY DEF StoreCore, HasParts
  <2> HIDE DEF d, who
  <2>5. CASE Keeps(b, d)
    <3>1. d.core = b.core
      BY <2>5 DEF Keeps
    <3> QED
      BY <3>1 DEF d
  <2>6. CASE ~Odd(a) /\ who = "core" /\ d = StoreCore(a, v, b)
    BY <1>2, <2>4, <2>6 DEF d, who
  <2> QED
    BY <2>2, <2>3, <2>5, <2>6
<1> QED
  BY <1>1, <1>2

\* Of memory the word is read that is at the bus address.
LEMMA ReadDecodedLoads ==
  ASSUME NEW b, HasParts(b), Live(b), ~Odd(b.val), Answers(b.val, TRUE) = "core",
         b.val \notin {PSWAddress, StackLimit, Switches}
  PROVE  ReadDecoded(b).val = At(b.core, b.val)
<1> DEFINE a == b.val
           d == Valued(At(b.core, a), b)
<1>1. ReadDecoded(b) = BusRead(a, b)
  BY Zenon DEF ReadDecoded
<1>2. Answers(a, FALSE) = "core"
  <2>1. DeviceAt(a, TRUE) # "core"
    BY SMT DEF DeviceAt, RK11Answers, AnswersAt7775
  <2> QED
    BY <2>1, Zenon DEF Answers
<1>3. BusRead(a, b) = d
  BY <1>2, Zenon DEF BusRead
<1>4. d.val = At(b.core, a)
  BY ValuedKeeps
<1> QED
  BY <1>1, <1>3, <1>4

LEMMA StoredAt ==
  ASSUME NEW f, NEW a, NEW v
  PROVE  At(Stored(a, v, f), a) = v /\ \A y : y # a => At(Stored(a, v, f), y) = At(f, y)
BY DEF At, Stored

\* write<1>() changes one byte: the one at its address.
LEMMA WriteAtBytes ==
  ASSUME NEW b \in States, NEW a, Live(b) => a \in Word, NEW v \in Word
  PROVE  OneByte(a, b.core, WriteAt(1, a, v, b).core)
<1>1. HasParts(b)
  BY StatesParts
<1>2. CASE a \in Aliases
  <2>1. WriteAt(1, a, v, b) = SetR(a % 8, Written(1, b.R[a % 8], v), b)
    BY <1>2 DEF WriteAt
  <2>2. SetR(a % 8, Written(1, b.R[a % 8], v), b).core = b.core
    BY DEF SetR, States
  <2> QED
    BY <2>1, <2>2, SameBytes
<1>3. CASE a \notin Aliases
  <2> DEFINE d == Read16(WordOf(a), b)
             w == WithByte(a, d.val, v)
             mode == currentmode(b)
             e == Decode(WordOf(a), mode, FALSE, b)
             f == Decode(WordOf(a), mode, TRUE, d)
             g == Watch(f)
             r == WriteDecoded(f.val, w, g)
  <2>1. WriteAt(1, a, v, b) = Write16(WordOf(a), w, d)
    <3>1. 1 # 2
      OBVIOUS
    <3> QED
      BY <1>3, <3>1, Zenon DEF WriteAt, ReplaceByte
  <2>2. Reads(b, d) /\ HasParts(d) /\ d = ReadDecoded(e)
    BY <1>1, ReadsOnly, Read16Keeps, Zenon DEF Read16
  <2>3. Keeps(b, e) /\ HasParts(e)
    BY <1>1, DecodeKeeps DEF Keeps
  <2>4. CASE ~Live(d)
    <3>1. Write16(WordOf(a), w, d) = d
      <4> HIDE DEF d
      <4> QED
        BY <2>4, Write16Ended
    <3> HIDE DEF d
    <3>2. d.core = b.core
      BY <2>2 DEF Reads, Keeps
    <3> QED
      BY <2>1, <3>1, <3>2, SameBytes
  <2>5. CASE Live(d)
    <3>1. Live(e)
      <4>1. ~Live(e) => ReadDecoded(e) = e
        BY Zenon DEF ReadDecoded
      <4> HIDE DEF d, e
      <4> QED
        BY <2>2, <2>5, <4>1
    <3> HIDE DEF d
    <3>2. Live(b) /\ d.mmu = b.mmu /\ d.psw = b.psw /\ d.core = b.core /\ a \in Word
      BY <2>2, <2>5 DEF Reads, Keeps
    <3>3. currentmode(d) = mode
      BY <3>2, SameMode
    <3>4. f.val = e.val /\ Live(f) /\ HasParts(f)
      BY <1>1, <2>2, <2>5, <3>1, <3>2, BusAddressAgain
    <3>5. Write16(WordOf(a), w, d) = r
      BY <3>3, Zenon DEF Write16, WriteMapped
    <3>6. Keeps(d, f)
      BY <2>2, DecodeKeeps
    <3>7. e.val \in Nat
      <4>1. WordOf(a) \in Word
        BY <3>2, WordParts
      <4>2. e \in States
        BY <4>1, ModesTyped, DecodeTyped
      <4> QED
        BY <4>2 DEF States
    <3> HIDE DEF e, f, mode, w
    <3>8. Keeps(d, g) /\ HasParts(g)
      BY <3>4, <3>6, WatchKeeps, KeptTrans
    <3> HIDE DEF g
    <3>9. g.core = b.core /\ e.core = b.core
      BY <2>3, <3>2, <3>8 DEF Keeps
    <3>10. CASE r.core = g.core
      <4> HIDE DEF r
      <4> QED
        BY <2>1, <3>5, <3>9, <3>10, SameBytes
    <3>11. CASE /\ r.core = Stored(f.val, w, g.core)
                /\ ~Odd(f.val) /\ Answers(f.val, TRUE) = "core"
                /\ f.val \notin {PSWAddress, StackLimit, Switches}
      <4> DEFINE x == e.val
                 k == x + 1 - (a % 2)
      <4> HIDE DEF r
      <4>1. d.val = At(b.core, x)
        BY <2>2, <2>3, <3>1, <3>4, <3>9, <3>11, ReadDecodedLoads
      <4>2. r.core = Stored(x, w, b.core)
        BY <3>4, <3>9, <3>11
      <4>3. At(r.core, x) = w /\ \A y : y # x => At(r.core, y) = At(b.core, y)
        BY <4>2, StoredAt
      <4>4. At(b.core, x) \in Word
        BY AtTyped DEF States
      <4>5. a \in Int /\ v \in Int /\ k \in Int /\ Odd(a) # Odd(k)
        <5>1. a \in Nat /\ v \in Nat /\ x \in Nat /\ ~Odd(x)
          BY <3>2, <3>4, <3>7, <3>11, WordTyped
        <5> HIDE DEF x
        <5> QED
          BY <5>1 DEF Odd
      <4> HIDE DEF x, k
      <4>6. ByteAt(k, w) = ByteAt(k, At(b.core, x))
        <5> DEFINE z == At(b.core, x)
        <5>1. w = WithByte(a, z, v) /\ z \in Word
          BY <4>1, <4>4 DEF w
        <5> HIDE DEF z
        <5>2. ByteAt(k, WithByte(a, z, v)) = ByteAt(k, z)
          BY <4>5, <5>1, BytesOfAWord
        <5> QED
          BY <5>1, <5>2 DEF z
      <4>7. x \in Nat /\ k = x + 1 - (a % 2)
        BY <3>7 DEF x, k
      <4>8. OneByte(a, b.core, r.core)
        BY <4>3, <4>6, <4>7 DEF OneByte
      <4> QED
        BY <2>1, <3>5, <4>8
    <3> QED
      BY <3>8, <3>10, <3>11, WriteDecodedStores
  <2> QED
    BY <2>4, <2>5
<1> QED
  BY <1>2, <1>3

LEMMA StoresBytes ==
  ASSUME NEW b \in States, NEW o, o.len = 1, NEW new, Fits({Dst, Src}, new),
         NEW a, Live(b) => a \in Word
  PROVE  OneByte(a, b.core, Stores(o, new, a, b).core)
<1> DEFINE e == IF o.name \in SetBefore THEN SetCodes(new.cc, b)
                ELSE IF o.name = "SUB" THEN SetCodes({}, b) ELSE b
           w == IF Writes(o, Codes(b)) THEN WriteAt(1, a, new.R[Dst], e) ELSE e
           r == Stores(o, new, a, b)
<1>1. e \in States /\ e.core = b.core /\ (Live(e) => Live(b))
  BY SetCodesKeeps
<1>2. new.R[Dst] \in Word /\ 1 \in Lengths
  BY DEF Fits, Lengths
<1>3. r = Settled(o, new.cc, w)
  BY DEF Stores
<1> HIDE DEF e, r
<1>4. w \in States
  BY <1>1, <1>2, WriteAtTyped
<1>5. OneByte(a, e.core, w.core)
  BY <1>1, <1>2, SameBytes, WriteAtBytes
<1> HIDE DEF w
<1>6. r.core = w.core
  BY <1>3, <1>4, SetCodesKeeps DEF Settled
<1> QED
  BY <1>1, <1>5, <1>6 DEF r

LEMMA AtAddressBytes ==
  ASSUME NEW o, o.name \in Destinations, o.len = 1, NEW b, Loaded(2, b),
         NEW s, NEW x, Live(b) => s \in Value(1) /\ x \in Word
  PROVE  OneByte(b.val, b.core, AtAddress(o, s, x, b).core)
<1> DEFINE d == IF o.name \in {"MOV", "CLR", "SXT"} THEN Valued(0, b)
                ELSE ReadAt(o.len, b.val, b)
           f == [k \in {Dst, Src} |-> IF k = Dst THEN d.val ELSE x]
           old == [R |-> f, cc |-> Codes(d)]
           new == Computed(o, s, old)
           r == AtAddress(o, s, x, b)
<1>1. b \in States /\ HasParts(b) /\ (Live(b) => b.val \in Word)
      /\ o.len \in Lengths /\ 0 \in Value(o.len)
  <2>1. o.len \in Lengths
    BY DEF Lengths
  <2> QED
    BY <2>1, StatesParts, Widths16, ByteInWord DEF Loaded
<1>2. Loaded(o.len, d) /\ Reads(b, d)
  BY <1>1, ValueTyped, ReadAtTyped, ReadsOnly
<1>3. r = IF Live(d) THEN Stores(o, new, b.val, d) ELSE d
  BY Zenon DEF AtAddress, Compute
<1> SUFFICES OneByte(b.val, b.core, r.core)
  OBVIOUS
<1>4. CASE ~Live(d)
  <2> HIDE DEF d, r
  <2>1. r.core = b.core
    BY <1>2, <1>3, <1>4 DEF Reads, Keeps
  <2> QED
    BY <2>1, SameBytes
<1>5. CASE Live(d)
  <2>1. r = Stores(o, new, b.val, d)
    BY <1>3, <1>5
  <2> HIDE DEF d, r
  <2>2. Live(b) /\ d \in States /\ d.val \in Word /\ x \in Word /\ s \in Value(o.len)
    BY <1>1, <1>2, <1>5, ByteInWord DEF Loaded, Reads
  <2>3. f \in [{Dst, Src} -> Word]
    BY <2>2
  <2>4. Fits({Dst, Src}, old)
    BY <2>3, CodesTyped DEF Fits
  <2> HIDE DEF old
  <2>5. Fits({Dst, Src}, new)
    BY <1>1, <2>2, <2>4, ComputedTyped
  <2> HIDE DEF new
  <2>6. OneByte(b.val, d.core, r.core)
    BY <1>1, <2>1, <2>2, <2>5, StoresBytes
  <2>7. d.core = b.core
    BY <1>2 DEF Reads, Keeps
  <2> QED
    BY <2>6, <2>7
<1> QED
  BY <1>4, <1>5

LEMMA DestinationBytes ==
  ASSUME NEW o, o.name \in Destinations, o.len = 1, NEW b \in States,
         NEW i \in Nat, NEW s, NEW x, Live(b) => s \in Value(1) /\ x \in Word
  PROVE  OneByte(DA(1, i % 64, b).val, b.core, Destination(o, i, s, x, b).core)
<1> DEFINE d == DA(1, i % 64, b)
           r == Destination(o, i, s, x, b)
<1>1. i % 64 \in 0 .. 63 /\ i % 8 \in 0 .. 7 /\ 1 \in Lengths
  BY FieldsOf DEF Lengths
<1> SUFFICES OneByte(d.val, b.core, r.core)
  OBVIOUS
<1>2. CASE ~Live(b)
  <2>1. r = b
    BY <1>2, Zenon DEF Destination
  <2> HIDE DEF r
  <2> QED
    BY <2>1, SameBytes
<1>3. CASE Live(b) /\ o = Op("MOV", 1) /\ ModeOf(i % 64) = 0
  <2> DEFINE new == MOV(1, s, i % 8, [R |-> b.R, cc |-> Codes(b)])
             e == SetR(i % 8, new.R[i % 8], b)
  <2>1. r = SetCodes(new.cc, e)
    BY <1>3, Zenon DEF Destination, ExtendByte
  <2>2. "core" \in DOMAIN e /\ e.core = b.core
    BY DEF SetR, States
  <2> HIDE DEF e, new, r
  <2>3. r = e \/ r = [e EXCEPT !.psw = @ - (@ % 16) + CodeWord(new.cc)]
    BY <2>1 DEF SetCodes
  <2>4. r.core = b.core
    BY <2>2, <2>3
  <2> QED
    BY <2>4, SameBytes
<1>4. CASE Live(b) /\ ~(o = Op("MOV", 1) /\ ModeOf(i % 64) = 0)
  <2>1. r = AtAddress(o, s, x, d)
    BY <1>4, Zenon DEF Destination
  <2>2. Loaded(2, d) /\ Moving(Moves(i % 64, 1), b, d)
    BY <1>1, DATyped, DAMoves
  <2> HIDE DEF d, r
  <2>3. OneByte(d.val, d.core, r.core)
    BY <1>4, <2>1, <2>2, AtAddressBytes
  <2>4. d.core = b.core
    BY <2>2 DEF Moving
  <2> QED
    BY <2>3, <2>4
<1> QED
  BY <1>2, <1>3, <1>4

\* Of the instructions that work on bytes.
BytesStayed(r) == OneByte(Address(now), c.core, r.core)

LEMMA DoubleBytes ==
  ASSUME c \in States, Live(fetched), NEW i, i = fetched.val, NEW o, o = Operation(i),
         o.name \in DoubleArm, o.len = 1
  PROVE  BytesStayed(DoubleOperand(o, i, fetched))
<1> DEFINE s == SS(1, now.src, fetched)
           r == DoubleOperand(o, i, fetched)
<1>1. /\ i \in Nat /\ now.name = o.name /\ now.len = 1 /\ 1 \in Lengths
      /\ now.src = (i \div 64) % 64 /\ now.dst = i % 64 /\ now.src \in 0 .. 63
  BY NowIs DEF Lengths
<1>2. fetched \in States /\ fetched.core = c.core
  BY FetchedReady DEF Ready
<1>3. Moving(Moves(now.src, 1), fetched, s) /\ Loaded(1, s)
  BY <1>1, <1>2, DAMoves, SSTyped
<1>4. r = Destination(o, i, s.val, 0, s)
  BY <1>1 DEF DoubleOperand, ToDestination
<1>5. o.name \in Destinations /\ 0 \in Word
  <2>1. 0 \in Word
    BY ByteInWord DEF Lengths, Word
  <2> QED
    BY <2>1, GroupNames DEF DoubleArm
<1>6. Address(now) = DA(1, i % 64, s).val
  BY <1>1, AddressOf
<1> HIDE DEF s, r
<1>7. s \in States /\ (Live(s) => s.val \in Value(1)) /\ s.core = c.core
  BY <1>2, <1>3 DEF Loaded, Moving
<1>8. OneByte(DA(1, i % 64, s).val, s.core, Destination(o, i, s.val, 0, s).core)
  BY <1>1, <1>5, <1>7, DestinationBytes
<1> QED
  BY <1>4, <1>6, <1>7, <1>8 DEF BytesStayed, r

LEMMA SingleBytes ==
  ASSUME c \in States, Live(fetched), NEW i, i = fetched.val, NEW o, o = Operation(i),
         o.name \in SingleArm, o.len = 1
  PROVE  BytesStayed(SingleOperand(o, i, fetched))
<1> DEFINE x == fetched.R[RegOf(i \div 64)]
           r == SingleOperand(o, i, fetched)
<1>1. /\ i \in Nat /\ now.name = o.name /\ now.len = 1 /\ now.dst = i % 64
      /\ RegOf(i \div 64) \in 0 .. 7 /\ 1 \in Lengths
  BY NowIs, FieldsOf DEF Lengths
<1>2. fetched \in States /\ fetched.core = c.core
  BY FetchedReady DEF Ready
<1>3. x \in Word /\ 0 \in Value(1)
  BY <1>1, <1>2, RegisterTyped, ByteInWord
<1>4. r = Destination(o, i, 0, x, fetched)
  BY DEF SingleOperand
<1>5. o.name \in Destinations
  BY GroupNames DEF SingleArm
<1>6. Address(now) = DA(1, i % 64, fetched).val
  BY <1>1, AddressOf
<1> HIDE DEF x, r
<1>7. OneByte(DA(1, i % 64, fetched).val, fetched.core, Destination(o, i, 0, x, fetched).core)
  BY <1>1, <1>2, <1>3, <1>5, DestinationBytes
<1> QED
  BY <1>2, <1>4, <1>6, <1>7 DEF BytesStayed, r

LEMMA PerformBytes ==
  ASSUME c \in States, Live(fetched), now.len = 1, NEW u
  PROVE  BytesStayed(Perform(fetched.val, u, fetched))
<1> DEFINE i == fetched.val
           o == Operation(i)
           n == o.name
           G == {d \in States : BytesStayed(d)}
<1>1. i \in Nat /\ fetched \in States /\ n \in Destinations /\ o.len = 1 /\ o.len \in Lengths
  BY NowIs, FetchedReady DEF Ready
<1>2. n \in DoubleArm => DoubleOperand(o, i, fetched) \in G
  <2>1. n \in DoubleArm => DoubleOperand(o, i, fetched) \in States
    BY <1>1, OperandsTyped
  <2> QED
    BY <1>1, <2>1, DoubleBytes
<1>3. n \in SingleArm => SingleOperand(o, i, fetched) \in G
  <2>1. n \in SingleArm => SingleOperand(o, i, fetched) \in States
    BY <1>1, OperandsTyped
  <2> QED
    BY <1>1, <2>1, SingleBytes
<1> HIDE DEF G, i, o, n
<1>4. n \notin BranchArm /\ n \notin Arithmetics
  <2>1. BranchArm \subseteq Branching
    BY TableNames DEF BranchArm
  <2>2. n \notin Branching /\ n \notin Arithmetics
    BY <1>1 DEF Destinations, Arithmetics, Branching
  <2> QED
    BY <2>1, <2>2
<1>5. /\ n \notin {"SOB", "JMP", "JSR", "RTS", "MARK", "MFPI", "MTPI", "RTI", "RTT", "SPL",
                   "CLRCC", "SETCC", "RESET", "HALT", "WAIT", "SETD"}
      /\ n \notin DOMAIN TrapVectors
  BY <1>1 DEF Destinations, TrapVectors
<1>6. /\ n \in DoubleArm => DoubleOperand(o, i, fetched) \in G
      /\ n \in SingleArm => SingleOperand(o, i, fetched) \in G
      /\ n \in Arithmetics => ExtendedArithmetic(o, i, u, fetched) \in G
      /\ n \in BranchArm => branch(i, fetched) \in G /\ fetched \in G
      /\ n = "SOB" => SOB(i, fetched) \in G
      /\ n = "JMP" => JMP(i, fetched) \in G
      /\ n = "JSR" => JSR(i, fetched) \in G
      /\ n = "RTS" => RTS(i, fetched) \in G
      /\ n = "MARK" => MARK(i, fetched) \in G
      /\ n = "MFPI" => MFPI(i, fetched) \in G
      /\ n = "MTPI" => MTPI(i, fetched) \in G
      /\ n \in {"RTI", "RTT"} => RTT(fetched) \in G
      /\ n = "SPL" => SPL(i, fetched) \in G
      /\ n = "CLRCC" => CLRCC(i, fetched) \in G
      /\ n = "SETCC" => SETCC(i, fetched) \in G
      /\ n \in DOMAIN TrapVectors => trapat(TrapVectors[n], fetched) \in G
      /\ n = "RESET" => RESET(fetched) \in G
      /\ n = "HALT" => Die(fetched) \in G
      /\ n \in {"WAIT", "SETD"} => fetched \in G
  BY <1>2, <1>3, <1>4, <1>5
<1>7. Perform(i, u, fetched) \in G
  BY <1>1, <1>6, PerformArms DEF o, n
<1> QED
  BY <1>7 DEF G, i

(***************************************************************************)
(* Whatever program runs, a byte instruction that runs to its end changes  *)
(* one byte of memory at most, the one at its destination's address, and   *)
(* the other byte of that word stays (write<1>(), kb11.cc).                *)
(***************************************************************************)
THEOREM BytesStayAlways == Spec => BytesStay
<1> DEFINE A == Completes /\ now.len = 1 =>
                  /\ Cardinality(Differ) <= 1
                  /\ \A a \in Differ :
                       LET neighbour == a + 1 - (Address(now) % 2)
                       IN  ByteAt(neighbour, At(c.core, a)) = ByteAt(neighbour, At(c'.core, a))
<1>1. TypeOK /\ [Next]_vars => [A]_vars
  <2> SUFFICES ASSUME TypeOK, Next, Completes, now.len = 1
               PROVE  /\ Cardinality(Differ) <= 1
                      /\ \A a \in Differ :
                           LET neighbour == a + 1 - (Address(now) % 2)
                           IN  ByteAt(neighbour, At(c.core, a))
                                 = ByteAt(neighbour, At(c'.core, a))
    OBVIOUS
  <2>1. c \in States
    BY StateTyped DEF TypeOK
  <2>2. Step /\ Live(c) /\ Live(c')
    BY DEF Next, TakeTrap, Live, Completes
  <2>3. PICK u \in BOOLEAN : c' = AtRest(step(u, c))
    BY <2>2 DEF Step
  <2> DEFINE d == step(u, c)
  <2>4. d \in States /\ d = Started(u, fetched)
    BY <2>1, stepTyped DEF step, fetched, begun
  <2> HIDE DEF d
  <2>5. c'.core = d.core /\ Live(d)
    BY <2>2, <2>3, <2>4 DEF AtRest, States, Live, d
  <2>6. Live(fetched) /\ d = Perform(fetched.val, u, fetched)
    BY <2>4, <2>5 DEF Started
  <2>7. BytesStayed(d)
    BY <2>1, <2>6, PerformBytes
  <2> DEFINE k == Address(now)
             g == c'.core
  <2>8. PICK x \in Nat :
          /\ \A y : y # x => At(g, y) = At(c.core, y)
          /\ ByteAt(x + 1 - (k % 2), At(c.core, x)) = ByteAt(x + 1 - (k % 2), At(g, x))
    BY <2>5, <2>7 DEF BytesStayed, OneByte
  <2>9. Differ \subseteq {x}
    BY <2>8 DEF Differ
  <2>10. Cardinality(Differ) <= 1
    <3>1. IsFiniteSet({x}) /\ Cardinality({x}) = 1
      BY FS_Singleton
    <3>2. Differ \in SUBSET {x}
      BY <2>9
    <3>3. Cardinality(Differ) <= Cardinality({x})
      BY <3>1, <3>2, FS_Subset
    <3> QED
      BY <3>1, <3>3
  <2>11. \A a \in Differ : a = x
    BY <2>9
  <2> QED
    BY <2>8, <2>10, <2>11
<1>2. Spec => [][A]_vars
  BY <1>1, ProcessorTypeCorrect, PTL DEF Spec
<1> QED
  BY <1>2 DEF BytesStay

-----------------------------------------------------------------------------
(* Words that are stored, and loaded again. *)

LEMMA CoreIsMemory ==
  ASSUME NEW a, InCore(a)
  PROVE  /\ a \notin {PSWAddress, StackLimit, Switches}
         /\ \A wr : Answers(a, wr) = "core"
<1>1. ~InCore(PSWAddress) /\ ~InCore(StackLimit) /\ ~InCore(Switches)
  BY DEF InCore, PSWAddress, StackLimit, Switches
<1>2. \A wr : Answers(a, wr) = "core"
  BY Zenon DEF Answers
<1> QED
  BY <1>1, <1>2

LEMMA MemoryLoads ==
  ASSUME NEW d, HasParts(d), NEW va,
         NEW e, e = Decode(va, currentmode(d), FALSE, d), Live(e), InCore(e.val), ~Odd(e.val)
  PROVE  /\ Live(Read16(va, d)) /\ Reads(d, Read16(va, d))
         /\ Read16(va, d).val = At(d.core, e.val)
<1>1. Read16(va, d) = ReadDecoded(e) /\ Reads(d, Read16(va, d))
  BY ReadsOnly, Zenon DEF Read16
<1>2. HasParts(e) /\ e.core = d.core
  BY DecodeKeeps DEF Keeps
<1>3. ReadDecoded(e) = BusRead(e.val, e)
  BY CoreIsMemory, Zenon DEF ReadDecoded
<1>4. BusRead(e.val, e) = Valued(At(e.core, e.val), e)
  <2>1. Answers(e.val, FALSE) = "core"
    BY CoreIsMemory
  <2> QED
    BY <2>1, Zenon DEF BusRead
<1>5. /\ Live(Valued(At(e.core, e.val), e))
      /\ Valued(At(e.core, e.val), e).val = At(e.core, e.val)
  BY <1>2, ValuedLives
<1> QED
  BY <1>1, <1>2, <1>3, <1>4, <1>5

\* d is b but for the word v in memory at the bus address x.
Holding(x, v, b, d) ==
  /\ HasParts(d) /\ Live(b) /\ Live(d) /\ ~Odd(x)
  /\ d.R = b.R /\ d.psw = b.psw /\ d.sp = b.sp /\ d.mmu = b.mmu /\ d.pc = b.pc
  /\ d.core = Stored(x, v, b.core)

LEMMA MemoryStores ==
  ASSUME NEW b, HasParts(b), NEW va, NEW v, Live(Write16(va, v, b)),
         NEW e, e = Decode(va, currentmode(b), FALSE, b), Live(e), InCore(e.val)
  PROVE  Holding(e.val, v, b, Write16(va, v, b))
<1> DEFINE f == Decode(va, currentmode(b), TRUE, b)
           g == Watch(f)
           d == Write16(va, v, b)
           x == e.val
<1> SUFFICES Holding(x, v, b, d)
  OBVIOUS
<1>1. Live(b)
  BY Zenon DEF Decode
<1>2. f.val = x /\ Live(f) /\ HasParts(f) /\ Keeps(b, f)
  BY <1>1, BusAddressAgain, DecodeKeeps
<1>3. d = WriteDecoded(f.val, v, g)
  BY Zenon DEF Write16, WriteMapped
<1> HIDE DEF f, d
<1>4. Keeps(f, g) /\ HasParts(g)
  BY <1>2, WatchKeeps
<1>5. Keeps(b, g)
  BY <1>2, <1>4, KeptTrans
<1> HIDE DEF g
<1>6. Live(d)
  BY DEF d
<1>7. Live(g)
  <2>1. ~Live(g) => WriteDecoded(x, v, g) = g
    BY Zenon DEF WriteDecoded
  <2> QED
    BY <1>2, <1>3, <1>6, <2>1
<1>8. d = BusWrite(x, v, g)
  <2>1. x \notin {PSWAddress, StackLimit, Switches}
    BY CoreIsMemory
  <2> HIDE DEF x
  <2>2. WriteDecoded(x, v, g) = BusWrite(x, v, g)
    BY <1>7, <2>1, Zenon DEF WriteDecoded
  <2> QED
    BY <1>2, <1>3, <2>2
<1>9. Answers(x, TRUE) = "core"
  BY CoreIsMemory
<1> HIDE DEF x
<1>10. ~Odd(x)
  <2>1. ~Live(Trap(INTBUS, g))
    BY <1>4, TrapKeeps DEF Live, INTBUS
  <2>2. Odd(x) => BusWrite(x, v, g) = Trap(INTBUS, g)
    BY <1>7, Zenon DEF BusWrite
  <2> QED
    BY <1>6, <1>8, <2>1, <2>2
<1>11. d = StoreCore(x, v, g)
  BY <1>7, <1>8, <1>9, <1>10, Zenon DEF BusWrite
<1>12. d = [g EXCEPT !.core = Stored(x, v, g.core)]
  BY <1>4, <1>11 DEF StoreCore, HasParts
<1>13. /\ d = [h \in {"R", "psw", "sp", "pc", "core", "mmu", "io", "log", "val", "trap",
                     "dead"} |-> d[h]]
       /\ d.R = g.R /\ d.psw = g.psw /\ d.sp = g.sp /\ d.mmu = g.mmu /\ d.pc = g.pc
       /\ d.core = Stored(x, v, g.core)
  BY <1>4, <1>12 DEF HasParts
<1>14. HasParts(d)
  BY <1>4, <1>13 DEF HasParts
<1>15. g.R = b.R /\ g.psw = b.psw /\ g.sp = b.sp /\ g.mmu = b.mmu /\ g.pc = b.pc
       /\ g.core = b.core
  BY <1>5 DEF Keeps
<1> QED
  BY <1>1, <1>6, <1>10, <1>13, <1>14, <1>15 DEF Holding

\* d is b with other registers.
OtherRegisters(b, d) ==
  /\ HasParts(d) /\ Live(d)
  /\ d.psw = b.psw /\ d.sp = b.sp /\ d.core = b.core /\ d.mmu = b.mmu /\ d.pc = b.pc
  /\ d.val = b.val

LEMMA SetRSets ==
  ASSUME NEW b, HasParts(b), Live(b), NEW r \in 0 .. 7, NEW v \in Int
  PROVE  OtherRegisters(b, SetR(r, v, b)) /\ SetR(r, v, b).R = [b.R EXCEPT ![r] = Cut(2, v)]
<1> DEFINE d == SetR(r, v, b)
           w == Cut(2, v)
<1>1. w \in Word
  BY CutFits DEF Lengths
<1>2. d = [b EXCEPT !.R[r] = w]
  BY DEF SetR
<1> SUFFICES OtherRegisters(b, d) /\ d.R = [b.R EXCEPT ![r] = w]
  OBVIOUS
<1> HIDE DEF d, w
<1>3. d.R = [b.R EXCEPT ![r] = w]
  BY <1>2 DEF HasParts
<1>4. d.R \in [0 .. 7 -> Word]
  BY <1>1, <1>3 DEF HasParts
<1>5. /\ d = [f \in {"R", "psw", "sp", "pc", "core", "mmu", "io", "log", "val",
                     "trap", "dead"} |-> d[f]]
      /\ d.psw = b.psw /\ d.sp = b.sp /\ d.core = b.core /\ d.mmu = b.mmu /\ d.pc = b.pc
      /\ d.val = b.val /\ d.trap = b.trap /\ d.dead = b.dead
  BY <1>2 DEF HasParts
<1> QED
  BY <1>3, <1>4, <1>5 DEF OtherRegisters, HasParts, Live

\* A word that is moved down and up again.
LEMMA DownAndUp ==
  ASSUME NEW v \in Word, NEW k \in Int
  PROVE  /\ Cut(2, v) = v /\ Cut(2, v + k) \in Word
         /\ Cut(2, Cut(2, v - k) + k) = v
<1> DEFINE n == Values(2)
<1>1. n \in Nat \ {0} /\ v \in 0 .. n - 1 /\ v \in Int /\ 2 \in Lengths
  BY Widths, ByteInWord DEF Lengths, Word, Value
<1>2. Cut(2, v) = v /\ Cut(2, v + k) \in Word
  BY <1>1, CutFits DEF Word
<1>3. v % n = v
  BY <1>2 DEF Cut
<1>4. v - k \in Int
  BY <1>1
<1> DEFINE x == v - k
<1>5. x \in Int /\ k + x = v
  BY <1>1
<1> HIDE DEF n, x
<1>6. (k + (x % n)) % n = v
  BY <1>1, <1>3, <1>5, ModAdd
<1>7. k + (x % n) = (x % n) + k
  BY <1>1, <1>5, DivMod
<1>8. Cut(2, Cut(2, x) + k) = v
  BY <1>6, <1>7 DEF Cut, n
<1> QED
  BY <1>2, <1>8 DEF x

\* d is b but for registers and memory.
Alike(b, d) ==
  /\ HasParts(d) /\ Live(d)
  /\ d.psw = b.psw /\ d.sp = b.sp /\ d.mmu = b.mmu /\ d.pc = b.pc

\* The word at va is one of memory, at the bus address x.
MapsTo(va, x, b) ==
  LET e == Decode(va, currentmode(b), FALSE, b)
  IN  Live(e) /\ InCore(x) /\ e.val = x

LEMMA MapsAgain ==
  ASSUME NEW b, HasParts(b), NEW va, NEW x, MapsTo(va, x, b),
         NEW d, HasParts(d), Live(d), d.mmu = b.mmu, currentmode(d) = currentmode(b)
  PROVE  MapsTo(va, x, d)
<1> DEFINE mode == currentmode(b)
           e == Decode(va, mode, FALSE, b)
           f == Decode(va, mode, FALSE, d)
<1>1. Live(e) /\ InCore(x) /\ e.val = x
  BY DEF MapsTo
<1>2. f.val = e.val /\ Live(f)
  BY <1>1, BusAddressAgain
<1>3. f = Decode(va, currentmode(d), FALSE, d)
  OBVIOUS
<1> HIDE DEF e, f
<1> QED
  BY <1>1, <1>2, <1>3 DEF MapsTo

LEMMA MapsLoads ==
  ASSUME NEW b, HasParts(b), NEW va, NEW x, MapsTo(va, x, b), ~Odd(x)
  PROVE  Live(Read16(va, b)) /\ Reads(b, Read16(va, b)) /\ Read16(va, b).val = At(b.core, x)
BY MemoryLoads DEF MapsTo

LEMMA PushStores ==
  ASSUME NEW b, HasParts(b), Live(b), NEW v, Live(push(v, b)),
         NEW p, p = Cut(2, b.R[6] - 2), NEW x, MapsTo(p, x, b)
  PROVE  /\ Alike(b, push(v, b)) /\ ~Odd(x)
         /\ push(v, b).R = [b.R EXCEPT ![6] = p]
         /\ push(v, b).core = Stored(x, v, b.core)
<1> DEFINE s == AddR(6, -2, b)
           d == push(v, b)
           e == Decode(p, currentmode(s), FALSE, s)
<1>1. 6 \in 0 .. 7 /\ -2 \in Int /\ b.R[6] \in Int /\ b.R[6] + (-2) = b.R[6] - 2
  BY WordTyped DEF HasParts
<1>2. OtherRegisters(b, s) /\ s.R = [b.R EXCEPT ![6] = p]
  <2>1. b.R[6] - 2 \in Int
    BY <1>1
  <2>2. s = SetR(6, b.R[6] - 2, b)
    BY <1>1 DEF AddR
  <2> HIDE DEF s
  <2> QED
    BY <1>1, <2>1, <2>2, SetRSets
<1>3. s.R[6] = p
  BY <1>1, <1>2 DEF HasParts
<1>4. d = Write16(s.R[6], v, s)
  BY Zenon DEF push, Top
<1> HIDE DEF s, d
<1>5. HasParts(s) /\ Live(s) /\ s.mmu = b.mmu /\ currentmode(s) = currentmode(b)
  BY <1>2, SameMode DEF OtherRegisters
<1>6. Live(e) /\ InCore(e.val) /\ e.val = x
  <2>1. MapsTo(p, x, s)
    BY <1>5, MapsAgain
  <2> QED
    BY <2>1 DEF MapsTo
<1>7. Live(Write16(p, v, s)) /\ d = Write16(p, v, s)
  BY <1>3, <1>4 DEF d
<1>8. Holding(x, v, s, d)
  BY <1>5, <1>6, <1>7, MemoryStores
<1> QED
  BY <1>2, <1>8 DEF Holding, OtherRegisters, Alike, d

LEMMA PopLoads ==
  ASSUME NEW b, HasParts(b), Live(b), NEW x, MapsTo(b.R[6], x, b), ~Odd(x)
  PROVE  /\ Alike(b, pop(b))
         /\ pop(b).R = [b.R EXCEPT ![6] = Cut(2, b.R[6] + 2)]
         /\ pop(b).core = b.core /\ pop(b).val = At(b.core, x)
<1> DEFINE s == Read16(b.R[6], b)
           d == pop(b)
<1>1. Live(s) /\ Reads(b, s) /\ s.val = At(b.core, x)
  BY MapsLoads
<1>2. d = AddR(6, 2, s)
  BY DEF pop
<1> HIDE DEF s, d
<1>3. /\ HasParts(s) /\ s.R = b.R /\ s.core = b.core
      /\ s.psw = b.psw /\ s.sp = b.sp /\ s.mmu = b.mmu /\ s.pc = b.pc
  BY <1>1 DEF Reads, Keeps
<1>4. 6 \in 0 .. 7 /\ s.R[6] + 2 \in Int
  BY <1>3, WordTyped DEF HasParts
<1>5. OtherRegisters(s, d) /\ d.R = [s.R EXCEPT ![6] = Cut(2, s.R[6] + 2)]
  BY <1>1, <1>2, <1>3, <1>4, SetRSets DEF AddR
<1> QED
  BY <1>1, <1>3, <1>5 DEF OtherRegisters, Alike, d

\* RTS finds the linkage that a call pushed, and puts every register back.
LEMMA CallUndone ==
  ASSUME NEW d, HasParts(d), Live(d), NEW r \in 0 .. 7, r # 6, NEW to \in Word,
         Live(Call(r, to, d)), NEW x, MapsTo(Cut(2, d.R[6] - 2), x, d),
         NEW e, HasParts(e), Live(e), e.R = Call(r, to, d).R, e.psw = Call(r, to, d).psw,
         e.mmu = Call(r, to, d).mmu, e.core = Call(r, to, d).core
  PROVE  RTS(r, e).R = d.R
<1> DEFINE p == Cut(2, d.R[6] - 2)
           v == d.R[r]
           w == push(v, d)
           l == SetR(r, w.R[7], w)
           k == SetR(7, to, l)
           f == SetR(7, e.R[r], e)
           g == pop(f)
           h == SetR(r, g.val, g)
<1>1. k = Call(r, to, d)
  BY DEF Call, Link, pushR
<1>2. RTS(r, e) = h
  <2>1. r % 8 = r
    OBVIOUS
  <2> QED
    BY <2>1, Zenon DEF RTS, Into
<1>3. 7 \in 0 .. 7 /\ 6 \in 0 .. 7 /\ 6 # 7 /\ d.R \in [0 .. 7 -> Word]
      /\ \A y : y \in Word => y \in Int /\ Cut(2, y) = y
  <2>1. \A y \in Word : y \in Int /\ Cut(2, y) = y
    BY WordTyped, DownAndUp
  <2> QED
    BY <2>1 DEF HasParts
<1>4. v \in Word /\ d.R[6] \in Word /\ d.R[7] \in Word
  BY <1>3
<1>5. p \in Word /\ Cut(2, p + 2) = d.R[6]
  <2>1. d.R[6] \in Word /\ 2 \in Int /\ -2 \in Int /\ d.R[6] + (-2) = d.R[6] - 2
    BY <1>4, WordTyped
  <2> HIDE DEF p
  <2>2. Cut(2, d.R[6] + (-2)) \in Word
    BY <2>1, DownAndUp
  <2> QED
    BY <2>1, <2>2, DownAndUp DEF p
<1>6. MapsTo(p, x, d) /\ e.R = k.R /\ e.psw = k.psw /\ e.mmu = k.mmu /\ e.core = k.core
      /\ Live(k)
  BY <1>1
<1> HIDE DEF p, v, k
<1>7. Live(w)
  <2>1. ~Live(w) => k = w
    BY Zenon DEF k, SetR
  <2> QED
    BY <1>6, <2>1
<1>8. /\ Alike(d, w) /\ ~Odd(x) /\ w.R = [d.R EXCEPT ![6] = p]
      /\ w.core = Stored(x, v, d.core)
  BY <1>6, <1>7, PushStores DEF p
<1> HIDE DEF w
<1>9. w.R[7] = d.R[7]
  BY <1>3, <1>8
<1>10. OtherRegisters(w, l) /\ l.R = [w.R EXCEPT ![r] = d.R[7]]
  BY <1>3, <1>4, <1>7, <1>8, <1>9, SetRSets DEF Alike
<1> HIDE DEF l
<1>11. OtherRegisters(l, k) /\ k.R = [l.R EXCEPT ![7] = to]
  <2>1. to \in Int /\ Cut(2, to) = to /\ HasParts(l) /\ Live(l)
    BY <1>3, <1>10 DEF OtherRegisters
  <2>2. OtherRegisters(l, k) /\ k.R = [l.R EXCEPT ![7] = Cut(2, to)]
    BY <1>3, <2>1, SetRSets DEF k
  <2> QED
    BY <2>1, <2>2
<1>12. e.R \in [0 .. 7 -> Word]
  BY DEF HasParts
<1>13. OtherRegisters(e, f) /\ f.R = [e.R EXCEPT ![7] = e.R[r]]
  BY <1>3, <1>12, SetRSets
<1> HIDE DEF f
<1>14. f.R = [d.R EXCEPT ![6] = p, ![r] = d.R[7], ![7] = IF r = 7 THEN to ELSE d.R[7]]
  BY <1>3, <1>6, <1>8, <1>10, <1>11, <1>13
<1>15. f.R[6] = p
  BY <1>3, <1>14
<1>16. f.psw = d.psw /\ f.mmu = d.mmu /\ f.core = Stored(x, v, d.core)
  BY <1>6, <1>8, <1>10, <1>11, <1>13 DEF Alike, OtherRegisters
<1>17. HasParts(f) /\ Live(f) /\ currentmode(f) = currentmode(d)
  BY <1>13, <1>16, SameMode DEF OtherRegisters
<1>18. MapsTo(f.R[6], x, f)
  BY <1>6, <1>15, <1>16, <1>17, MapsAgain
<1>19. Alike(f, g) /\ g.R = [f.R EXCEPT ![6] = d.R[6]] /\ g.val = At(f.core, x)
  BY <1>5, <1>8, <1>15, <1>17, <1>18, PopLoads
<1>20. g.val = v
  BY <1>16, <1>19, StoredAt
<1> HIDE DEF g
<1>21. h.R = [g.R EXCEPT ![r] = v]
  <2>1. v \in Int /\ Cut(2, v) = v /\ HasParts(g) /\ Live(g)
    BY <1>3, <1>4, <1>19 DEF Alike
  <2>2. SetR(r, v, g).R = [g.R EXCEPT ![r] = Cut(2, v)]
    BY <2>1, SetRSets
  <2> QED
    BY <1>20, <2>1, <2>2
<1> HIDE DEF h
<1>22. h.R = d.R
  BY <1>3, <1>14, <1>19, <1>21 DEF v
<1> QED
  BY <1>2, <1>22

\* The state after a step that completes, of which registers, PSW, page table and
\* memory are those that the instruction leaves.
LEMMA StepCompletes ==
  ASSUME TypeOK, Next, Live(c), Live(c')
  PROVE  /\ c \in States /\ HasParts(c')
         /\ \E u \in BOOLEAN, d \in States :
              /\ Live(d) /\ Live(fetched) /\ d = Perform(fetched.val, u, fetched)
              /\ c'.R = d.R /\ c'.psw = d.psw /\ c'.mmu = d.mmu /\ c'.core = d.core
<1>1. c \in States
  BY StateTyped DEF TypeOK
<1>2. Step
  BY DEF Next, TakeTrap, Live
<1>3. PICK u \in BOOLEAN : c' = AtRest(step(u, c))
  BY <1>2 DEF Step
<1> DEFINE d == step(u, c)
<1>4. d \in States /\ d = Started(u, fetched)
  BY <1>1, stepTyped DEF step, fetched, begun
<1>5. HasParts(d) /\ c' = AtRest(d)
  BY <1>3, <1>4, StatesParts
<1> HIDE DEF d
<1>6. /\ c'.R = d.R /\ c'.psw = d.psw /\ c'.mmu = d.mmu /\ c'.core = d.core
      /\ c'.trap = d.trap /\ c'.dead = d.dead /\ HasParts(c')
  BY <1>5 DEF AtRest, HasParts
<1>7. Live(d)
  BY <1>6 DEF Live
<1>8. Live(fetched) /\ d = Perform(fetched.val, u, fetched)
  BY <1>4, <1>7 DEF Started
<1> QED
  BY <1>1, <1>4, <1>6, <1>7, <1>8

\* What has ended calls nothing.
LEMMA CallEnded ==
  ASSUME NEW b, ~Live(b), NEW r, NEW to
  PROVE  Call(r, to, b) = b
<1>1. AddR(6, -2, b) = b /\ \A k, v : SetR(k, v, b) = b
  BY DEF AddR, SetR
<1>2. push(b.R[r], b) = b
  BY <1>1, Write16Ended DEF push, Top
<1> QED
  BY <1>1, <1>2 DEF Call, Link, pushR

(***************************************************************************)
(* Whatever program runs, a call that completes can be undone: RTS puts    *)
(* back every register, the linkage register and SP among them, as they    *)
(* were before the push, wherever the stack is in memory (JSR() and RTS(), *)
(* kb11.h).                                                                *)
(***************************************************************************)
THEOREM CallsReturnAlways == Spec => CallsReturn
<1> DEFINE A == Completes /\ now.name = "JSR" /\ now.reg # 6 =>
                  LET d == DA(2, now.dst, fetched)
                  IN  IsMemory(Cut(2, d.R[6] - 2), currentmode(c), c)
                        => RTS(now.reg, c').R = d.R
<1>1. TypeOK /\ [Next]_vars => [A]_vars
  <2> DEFINE e == DA(2, now.dst, fetched)
             p == Cut(2, e.R[6] - 2)
             x == Loading(p, currentmode(c), c).val
             i == fetched.val
  <2> SUFFICES ASSUME TypeOK, Next, Completes, now.name = "JSR", now.reg # 6,
                      IsMemory(p, currentmode(c), c)
               PROVE  RTS(now.reg, c').R = e.R
    OBVIOUS
  <2>1. c \in States /\ HasParts(c)
    BY StateTyped, StatesParts DEF TypeOK
  <2>2. PICK u \in BOOLEAN, d \in States :
          /\ Live(d) /\ Live(fetched) /\ d = Perform(fetched.val, u, fetched)
          /\ c'.R = d.R /\ c'.psw = d.psw /\ c'.mmu = d.mmu /\ c'.core = d.core
    BY StepCompletes DEF Completes
  <2>3. HasParts(c') /\ Live(c')
    BY StepCompletes DEF Completes
  <2>4. /\ now.name = Operation(i).name /\ now.dst = i % 64 /\ now.reg = RegOf(i \div 64)
        /\ now.reg \in 0 .. 7 /\ now.dst \in 0 .. 63 /\ 2 \in Lengths /\ i \in Nat
    BY <2>1, <2>2, NowIs DEF Lengths
  <2>5. fetched \in States /\ fetched.psw = c.psw /\ fetched.mmu = c.mmu
    BY <2>1, FetchedReady DEF Ready
  <2>6. Moving(Moves(now.dst, 2), fetched, e) /\ Loaded(2, e)
    BY <2>4, <2>5, DAMoves, DATyped
  <2>7. d = JSR(i, fetched)
    <3> DEFINE G == {JSR(i, fetched)}
    <3>1. Operation(i).name = "JSR"
      BY <2>4
    <3>2. "JSR" \notin BranchArm
      BY TableNames DEF BranchArm, Branching
    <3>3. "JSR" \notin DoubleArm /\ "JSR" \notin SingleArm
      BY GroupNames DEF DoubleArm, SingleArm, Destinations
    <3>4. "JSR" \notin Arithmetics /\ "JSR" \notin DOMAIN TrapVectors
      BY DEF Arithmetics, TrapVectors
    <3> HIDE DEF i
    <3>5. Perform(i, u, fetched) \in G
      BY <2>4, <3>1, <3>2, <3>3, <3>4, PerformArms
    <3> QED
      BY <2>2, <3>5 DEF i
  <2>8. d = Call(now.reg, e.val, e)
    <3>1. ~Live(Die(fetched))
      BY <2>5 DEF Die, Live, States
    <3> QED
      BY <2>2, <2>4, <2>7, <3>1 DEF JSR, CallAt
  <2> HIDE DEF e, i
  <2>9. Live(e)
    <3>1. ~Live(e) => Call(now.reg, e.val, e) = e
      BY CallEnded
    <3> QED
      BY <2>2, <2>8, <3>1
  <2>10. HasParts(e) /\ e.mmu = c.mmu /\ currentmode(e) = currentmode(c) /\ e.val \in Word
    <3>1. e.psw = c.psw
      BY <2>5, <2>6 DEF Moving
    <3>2. Value(2) = Word
      BY DEF Word
    <3> QED
      BY <2>5, <2>6, <2>9, <3>1, <3>2, SameMode DEF Moving, Loaded
  <2>11. MapsTo(p, x, c)
    BY DEF IsMemory, Loading, MapsTo
  <2> HIDE DEF x
  <2>12. MapsTo(p, x, e)
    BY <2>1, <2>9, <2>10, <2>11, MapsAgain
  <2> DEFINE k == Call(now.reg, e.val, e)
             g == c'
  <2>13. Live(k) /\ g.R = k.R /\ g.psw = k.psw /\ g.mmu = k.mmu /\ g.core = k.core
    BY <2>2, <2>8
  <2>14. HasParts(g) /\ Live(g)
    BY <2>3
  <2> HIDE DEF g
  <2>15. RTS(now.reg, g).R = e.R
    BY <2>4, <2>9, <2>10, <2>12, <2>13, <2>14, CallUndone
  <2> QED
    BY <2>15 DEF g
<1>2. Spec => [][A]_vars
  BY <1>1, ProcessorTypeCorrect, PTL DEF Spec
<1> QED
  BY <1>2 DEF CallsReturn

-----------------------------------------------------------------------------

(* Traps, and the return from them. *)

LEMMA StacksTyped ==
  ASSUME NEW b, HasSlot(b)
  PROVE  /\ Stacks(b) \in Slots /\ Stacks(b)[currentmode(b)] = b.R[6]
         /\ \A m \in 0 .. 3 : m # currentmode(b) => Stacks(b)[m] = b.sp[m]
<1>1. currentmode(b) \in 0 .. 3 /\ b.sp \in Slots /\ b.R[6] \in Word
  BY DEF HasSlot, HasParts
<1> QED
  BY <1>1 DEF Stacks, Slots

\* d is b once the PSW is w, of mode m: every mode has its stack pointer still.
Switched(w, m, b, d) ==
  /\ HasParts(d) /\ Live(d) /\ d.psw = w /\ currentmode(d) = m
  /\ d.sp = Stacks(b) /\ d.R = [b.R EXCEPT ![6] = Stacks(b)[m]]
  /\ d.core = b.core /\ d.mmu = b.mmu /\ d.pc = b.pc /\ d.val = b.val

LEMMA writePSWSwitches ==
  ASSUME NEW b, HasSlot(b), Live(b), NEW m \in 0 .. 3, NEW w, w \div \o40000 = m
  PROVE  Switched(w, m, b, writePSW(w, b))
<1> DEFINE n == \o40000
           sp == Stacks(b)
           d == writePSW(w, b)
<1>1. sp \in Slots /\ sp[m] \in Word /\ HasParts(b)
  BY StacksTyped DEF HasSlot, Slots
<1>2. d = [b EXCEPT !.sp = sp, !.psw = w, !.R[6] = sp[w \div n]]
  BY DEF writePSW, Stacks
<1>3. w \div n = m
  OBVIOUS
<1>4. currentmode(d) = d.psw \div n
  BY DEF currentmode
<1> SUFFICES Switched(w, m, b, d)
  OBVIOUS
<1> HIDE DEF n, sp, d
<1>5. d.R = [b.R EXCEPT ![6] = sp[w \div n]] /\ d.psw = w /\ d.sp = sp
  BY <1>1, <1>2 DEF HasParts
<1>6. d.R = [b.R EXCEPT ![6] = sp[m]]
  BY <1>3, <1>5
<1>7. d.R \in [0 .. 7 -> Word]
  BY <1>1, <1>6 DEF HasParts
<1>8. /\ d = [f \in {"R", "psw", "sp", "pc", "core", "mmu", "io", "log", "val",
                     "trap", "dead"} |-> d[f]]
      /\ d.core = b.core /\ d.mmu = b.mmu /\ d.pc = b.pc
      /\ d.val = b.val /\ d.trap = b.trap /\ d.dead = b.dead
  <2> DEFINE R1 == [b.R EXCEPT ![6] = sp[w \div n]]
             a == [b EXCEPT !.sp = sp]
             e == [a EXCEPT !.psw = w]
             F == {"R", "psw", "sp", "pc", "core", "mmu", "io", "log", "val", "trap", "dead"}
  <2>1. b = [f \in F |-> b[f]]
    BY <1>1 DEF HasParts
  <2> HIDE DEF F
  <2>2. DOMAIN b = F
    BY <2>1
  <2>3. d = [e EXCEPT !.R = R1]
    BY <1>2, <2>1, <2>2 DEF F
  <2> HIDE DEF R1
  <2>4. a = [f \in F |-> IF f = "sp" THEN sp ELSE b[f]]
    BY <2>2
  <2> HIDE DEF a
  <2>5. e = [f \in F |-> IF f = "psw" THEN w ELSE a[f]]
    BY <2>4
  <2> HIDE DEF e
  <2>6. d = [f \in F |-> IF f = "R" THEN R1 ELSE e[f]]
    BY <2>3, <2>5
  <2>7. d = [f \in F |-> d[f]]
    BY <2>6
  <2>8. /\ d.core = b.core /\ d.mmu = b.mmu /\ d.pc = b.pc
        /\ d.val = b.val /\ d.trap = b.trap /\ d.dead = b.dead
    BY <2>4, <2>6, <2>5 DEF F
  <2> QED
    BY <2>7, <2>8 DEF F
<1>9. currentmode(d) = m
  BY <1>3, <1>4, <1>5
<1> QED
  BY <1>5, <1>6, <1>7, <1>8, <1>9 DEF Switched, HasParts, Live, sp

LEMMA LoweredQuotient ==
  ASSUME NEW v \in Nat, NEW t \in Nat \ {0}, \A h \in Int : h * t = 256 * (64 * h)
  PROVE  (v - 256 * ((v \div 256) % 8)) \div t = v \div t
<1> DEFINE h == v \div t
           y == v % t
           q == v \div 256
           k == q % 8
           s == y - 256 * k
<1>1. h \in Int /\ y \in 0 .. t - 1 /\ v = h * t + y
  <2>1. v \in Int
    OBVIOUS
  <2> QED
    BY <2>1, DivMod, Zenon
<1>2. q \in Int /\ v % 256 \in 0 .. 255 /\ v = q * 256 + (v % 256)
  <2>1. 256 \in Nat \ {0} /\ 256 - 1 = 255
    OBVIOUS
  <2> QED
    BY <2>1, DivMod
<1>3. k \in 0 .. 7 /\ 8 * (q \div 8) + k = q /\ q \div 8 \in Int
  BY <1>2
<1> DEFINE p == q \div 8
           r == v % 256
<1> HIDE DEF h, y, q, k, p, r
<1>4. y = 256 * (8 * (p - 8 * h) + k) + r
  <2>1. h * t = 256 * (64 * h)
    BY <1>1
  <2> QED
    BY <1>1, <1>2, <1>3, <2>1 DEF p, r
<1>5. 8 * (p - 8 * h) + k >= 0
  BY <1>1, <1>2, <1>3, <1>4 DEF p, r
<1>6. p - 8 * h >= 0
  BY <1>1, <1>3, <1>5 DEF p
<1>7. s \in 0 .. t - 1
  BY <1>1, <1>2, <1>3, <1>4, <1>6 DEF p, r
<1>8. v - 256 * k = h * t + s
  BY <1>1, <1>3
<1> HIDE DEF s
<1>9. (h * t + s) \div t = h
  BY <1>1, <1>7, QuotientUnique
<1> QED
  BY <1>8, <1>9 DEF h, k, q

\* kernelmode() is in mode 0, and the PSW RTT makes of a saved one in that one's.
LEMMA ModesOfPSW ==
  ASSUME NEW v \in Word, NEW m \in 0 .. 3, NEW n, n = \o10000, NEW t, t = \o40000
  PROVE  /\ ((v % n) + n * m) \div t = 0
         /\ (v - 256 * ((v \div 256) % 8)) \div t = v \div t
<1>1. v \in Nat /\ n \in Nat \ {0} /\ t = 4 * n /\ t \in Nat \ {0}
      /\ \A h \in Int : h * t = 256 * (64 * h)
  BY WordTyped
<1>2. ((v % n) + n * m) \div t = 0
  <2> DEFINE y == v % n
             z == n * m
  <2>1. y \in 0 .. n - 1 /\ z \in Nat /\ z <= 3 * n
    BY <1>1, DivMod
  <2> DEFINE s == y + z
  <2>2. s \in 0 .. t - 1 /\ 0 * t + s = s /\ 0 \in Int
    BY <1>1, <2>1
  <2> HIDE DEF s
  <2>3. (0 * t + s) \div t = 0
    BY <1>1, <2>2, QuotientUnique
  <2> QED
    BY <2>2, <2>3 DEF s
<1> QED
  BY <1>1, <1>2, LoweredQuotient

\* Two words down.
LEMMA DownTwice ==
  ASSUME NEW k \in Word
  PROVE  /\ Cut(2, Cut(2, k - 2) - 2) = Cut(2, k - 4)
         /\ Cut(2, k - 2) \in Word /\ Cut(2, Cut(2, k - 2) + 2) = k
         /\ Cut(2, k - 4) \in Word /\ Cut(2, Cut(2, k - 4) + 2) = Cut(2, k - 2)
<1> DEFINE n == Values(2)
           x == k - 2
           y == Cut(2, x)
           z == Cut(2, k - 4)
<1>1. n \in Nat \ {0} /\ k \in Int /\ 2 \in Int /\ -2 \in Int /\ -4 \in Int
  BY Widths, WordTyped DEF Lengths
<1>2. x \in Int /\ -2 + x = k - 4 /\ k + (-2) = x /\ k + (-4) = k - 4
  BY <1>1
<1> HIDE DEF n, x
<1>3. x % n \in Int /\ (-2 + (x % n)) % n = (-2 + x) % n
  <2>1. x % n \in 0 .. n - 1
    BY <1>1, <1>2, DivMod, Zenon
  <2>2. (-2 + (x % n)) % n = (-2 + x) % n
    BY <1>1, <1>2, ModAdd, Zenon
  <2> QED
    BY <1>1, <2>1, <2>2
<1>4. y = x % n /\ z = (k - 4) % n
  BY DEF Cut, n
<1>5. Cut(2, y - 2) = z
  <2>1. y - 2 = -2 + (x % n)
    BY <1>3, <1>4
  <2>2. Cut(2, -2 + (x % n)) = (-2 + (x % n)) % n
    BY DEF Cut, n
  <2> QED
    BY <1>2, <1>3, <1>4, <2>1, <2>2
<1>6. y \in Word /\ z \in Word /\ Cut(2, y + 2) = k
  <2>1. Cut(2, k + (-2)) \in Word /\ Cut(2, k + (-4)) \in Word /\ Cut(2, Cut(2, k - 2) + 2) = k
    BY <1>1, DownAndUp
  <2> QED
    BY <1>2, <2>1 DEF x
<1>7. Cut(2, z + 2) = y
  <2> HIDE DEF y, z
  <2>1. Cut(2, Cut(2, y - 2) + 2) = y
    BY <1>1, <1>6, DownAndUp
  <2> QED
    BY <1>5, <2>1
<1> QED
  BY <1>5, <1>6, <1>7 DEF x

\* No store changes the page table.
LEMMA Write16KeepsUnits ==
  ASSUME NEW b, HasParts(b), NEW va, NEW v
  PROVE  Write16(va, v, b).mmu = b.mmu
<1> DEFINE f == Decode(va, currentmode(b), TRUE, b)
           g == Watch(f)
           a == f.val
           d == WriteDecoded(a, v, g)
<1>1. Write16(va, v, b) = d
  BY Zenon DEF Write16, WriteMapped
<1>2. Keeps(b, f)
  BY DecodeKeeps
<1> HIDE DEF f
<1>3. Keeps(f, g)
  BY <1>2, WatchKeeps DEF Keeps
<1> HIDE DEF a, g
<1>4. g.mmu = b.mmu /\ HasParts(g)
  BY <1>2, <1>3 DEF Keeps
<1>5. d \in {g, writePSW(v, g), SetStackLimit(v, g), BusWrite(a, v, g)}
  BY Zenon DEF WriteDecoded
<1>6. BusWrite(a, v, g) \in {g, Trap(INTBUS, g), Die(g), StoreCore(a, v, g),
                              Logged(TRUE, a, v, g)}
  BY Zenon DEF BusWrite
<1>7. /\ writePSW(v, g).mmu = g.mmu /\ SetStackLimit(v, g).mmu = g.mmu
      /\ Trap(INTBUS, g).mmu = g.mmu /\ Die(g).mmu = g.mmu
      /\ StoreCore(a, v, g).mmu = g.mmu /\ Logged(TRUE, a, v, g).mmu = g.mmu
  <2>1. "mmu" \in DOMAIN g
    BY <1>4 DEF HasParts
  <2> QED
    BY <2>1 DEF writePSW, SetStackLimit, Trap, Die, StoreCore, Logged
<1> HIDE DEF d
<1>8. d.mmu = g.mmu
  BY <1>5, <1>6, <1>7
<1> QED
  BY <1>1, <1>4, <1>8

LEMMA pushKeepsUnits ==
  ASSUME NEW b \in States, NEW v
  PROVE  push(v, b).mmu = b.mmu /\ (Live(push(v, b)) => Live(b))
<1> DEFINE s == AddR(6, -2, b)
<1>1. push(v, b) = Write16(s.R[6], v, s)
  BY DEF push, Top
<1>2. HasParts(s)
  <2>1. s \in States
    BY AddRTyped
  <2> QED
    BY <2>1, StatesParts
<1>3. s.mmu = b.mmu /\ (~Live(b) => s = b)
  BY DEF AddR, SetR, States
<1> HIDE DEF s
<1> QED
  BY <1>1, <1>2, <1>3, Write16KeepsUnits, Write16Ended

\* A trap's last part leads to a handler in kernel mode with the stack as it is.
LEMMA HandlerEnters ==
  ASSUME NEW b \in States, NEW vec, VectorOK(vec), currentmode(b) = 0,
         NEW t, t = Handler(vec, b), Live(t), currentmode(t) = 0
  PROVE  /\ Live(b) /\ t.core = b.core /\ t.mmu = b.mmu
         /\ t.sp = [b.sp EXCEPT ![0] = b.R[6]] /\ t.R[6] = b.R[6]
         /\ \A q \in 0 .. 7 \ {7} : t.R[q] = b.R[q]
<1> DEFINE s == Read16(vec, b)
           u == Into(7, s)
           w == Read16(vec + 2, u)
           v == Or(w.val, \o10000 * previousmode(w))
<1>1. t = writePSW(v, w)
  BY DEF Handler, TrapPSW
<1>2. u = SetR(7, s.val, s)
  BY DEF Into
<1>3. Loaded(2, s) /\ Reads(b, s)
  BY StatesParts, ReadsOnly, Read16Typed DEF VectorOK
<1> HIDE DEF s
<1>4. s \in States /\ HasParts(s) /\ s.val \in Int /\ 7 \in 0 .. 7
  BY <1>3, StatesParts DEF Loaded, States
<1>5. u \in States /\ (Live(u) => Live(s))
  <2>1. u \in States
    BY <1>2, <1>4, SetRTyped
  <2> QED
    BY <1>2, <2>1 DEF SetR
<1> HIDE DEF u
<1>6. Loaded(2, w) /\ Reads(u, w)
  BY <1>5, StatesParts, ReadsOnly, Read16Typed DEF VectorOK
<1> HIDE DEF w, v
<1>7. Live(w)
  BY <1>1, writePSWEnded
<1>8. Live(u) /\ Live(s) /\ Live(b)
  BY <1>3, <1>5, <1>6, <1>7 DEF Reads
<1>9. OtherRegisters(s, u) /\ u.R = [s.R EXCEPT ![7] = Cut(2, s.val)]
  BY <1>2, <1>4, <1>8, SetRSets
<1>10. /\ w.core = b.core /\ w.mmu = b.mmu /\ w.sp = b.sp /\ w.psw = b.psw
       /\ w.R = [b.R EXCEPT ![7] = Cut(2, s.val)]
  BY <1>3, <1>6, <1>9 DEF Reads, Keeps, OtherRegisters
<1>11. HasSlot(w) /\ currentmode(w) = 0
  BY <1>6, <1>10, StatesSlots, SameMode DEF Loaded
<1>12. v \div \o40000 = 0
  <2>1. t.psw = v
    BY <1>1, <1>7, <1>11 DEF writePSW, HasSlot, HasParts
  <2>2. currentmode(t) = v \div \o40000
    BY <2>1 DEF currentmode
  <2> QED
    BY <2>2
<1>13. Switched(v, 0, w, t)
  <2>1. 0 \in 0 .. 3
    OBVIOUS
  <2> QED
    BY <1>1, <1>7, <1>11, <1>12, <2>1, writePSWSwitches
<1>14. Stacks(w) = [b.sp EXCEPT ![0] = w.R[6]] /\ Stacks(w)[0] = w.R[6]
  BY <1>10, <1>11, StacksTyped DEF Stacks
<1>15. t.R = [w.R EXCEPT ![6] = w.R[6]]
  BY <1>13, <1>14 DEF Switched
<1>16. b.R \in [0 .. 7 -> Word]
  BY StatesParts DEF HasParts
<1>17. w.R[6] = b.R[6] /\ \A q \in 0 .. 7 \ {7} : w.R[q] = b.R[q]
  BY <1>10, <1>16
<1>18. t.R[6] = b.R[6] /\ \A q \in 0 .. 7 \ {7} : t.R[q] = b.R[q]
  BY <1>10, <1>15, <1>16, <1>17
<1> QED
  BY <1>8, <1>10, <1>13, <1>14, <1>17, <1>18 DEF Switched

LEMMA HandlerKeepsUnits ==
  ASSUME NEW b \in States, NEW vec, VectorOK(vec)
  PROVE  /\ Handler(vec, b).mmu = b.mmu
         /\ Live(Handler(vec, b)) => Live(b)
<1> DEFINE s == Read16(vec, b)
           u == SetR(7, s.val, s)
           w == Read16(vec + 2, u)
           v == Or(w.val, \o10000 * previousmode(w))
           t == writePSW(v, w)
<1>1. t = Handler(vec, b)
  BY DEF Handler, TrapPSW, Into
<1>2. Loaded(2, s) /\ Reads(b, s)
  BY StatesParts, ReadsOnly, Read16Typed DEF VectorOK
<1> HIDE DEF s
<1>3. s \in States /\ s.val \in Int /\ 7 \in 0 .. 7
  BY <1>2 DEF Loaded, States
<1>4. u \in States /\ u.mmu = s.mmu /\ (Live(u) => Live(s))
  <2>1. u \in States
    BY <1>3, SetRTyped
  <2> QED
    BY <1>3, <2>1 DEF SetR, States
<1> HIDE DEF u
<1>5. Reads(u, w) /\ HasParts(w)
  BY <1>4, StatesParts, ReadsOnly DEF Reads, Keeps
<1> HIDE DEF w, v
<1>6. t.mmu = w.mmu /\ (Live(t) => Live(w))
  BY <1>5 DEF writePSW, HasParts
<1> HIDE DEF t
<1> QED
  BY <1>1, <1>2, <1>4, <1>5, <1>6 DEF Reads, Keeps

\* t is b but for registers 6 and 7, in mode 0, with its PSW and PC on the kernel's
\* stack, at the bus addresses x and y.
Saved(x, y, b, t) ==
  LET k == Stacks(b)[0]
      p == Cut(2, k - 4)
  IN  /\ t.sp = [Stacks(b) EXCEPT ![0] = p] /\ t.R[6] = p
      /\ \A q \in 0 .. 7 \ {6, 7} : t.R[q] = b.R[q]
      /\ t.core = Stored(y, b.R[7], Stored(x, b.psw, b.core))
      /\ ~Odd(x) /\ ~Odd(y)

LEMMA TrapSaves ==
  ASSUME NEW b \in States, NEW vec, VectorOK(vec),
         NEW t, t = trapat(vec, b), Live(t), currentmode(t) = 0,
         NEW x, MapsTo(Cut(2, Stacks(b)[0] - 2), x, t),
         NEW y, MapsTo(Cut(2, Stacks(b)[0] - 4), y, t)
  PROVE  Live(b) /\ Saved(x, y, b, t)
<1> DEFINE k == Stacks(b)[0]
           p == Cut(2, k - 2)
           q == Cut(2, k - 4)
           n == \o10000
           w == (b.psw % n) + n * currentmode(b)
           b1 == kernelmode(b)
           b2 == push(b.psw, b1)
           b3 == push(b2.R[7], b2)
<1>1. t = Handler(vec, b3)
  BY DEF trapat, pushR
<1>2. b1 \in States
  BY PSWsTyped, 0 \in Nat
<1>3. b1 = writePSW(w, b) /\ n = \o10000
  BY DEF kernelmode
<1>4. currentmode(b) \in 0 .. 3 /\ b.psw \in Word /\ HasSlot(b)
  BY ModesTyped, StatesSlots DEF States
<1>5. w \div \o40000 = 0
  <2> DEFINE t1 == \o40000
  <2>1. n = \o10000 /\ t1 = \o40000
    OBVIOUS
  <2> SUFFICES w \div t1 = 0
    OBVIOUS
  <2> HIDE DEF n, t1
  <2> QED
    BY <1>4, <2>1, ModesOfPSW
<1> HIDE DEF w, b1, n
<1>6. b2 \in States
  BY <1>2, <1>4, pushTyped
<1> HIDE DEF b2
<1>7. b3 \in States
  <2>1. b2.R[7] \in Word
    BY <1>6, RegisterTyped, 7 \in 0 .. 7
  <2> QED
    BY <1>6, <2>1, pushTyped
<1>8. HasParts(b1) /\ HasParts(b2) /\ HasParts(b3)
  BY <1>2, <1>6, <1>7, StatesParts
<1>9. /\ b2.mmu = b1.mmu /\ (Live(b2) => Live(b1))
      /\ b3.mmu = b2.mmu /\ (Live(b3) => Live(b2))
  BY <1>2, <1>6, pushKeepsUnits DEF b2
<1> HIDE DEF b3
<1>10. Live(b3) /\ t.mmu = b3.mmu
  BY <1>1, <1>7, HandlerKeepsUnits
<1>11. Live(b2) /\ Live(b1) /\ Live(b)
  <2>1. ~Live(b) => b1 = b
    BY <1>3, writePSWEnded
  <2> QED
    BY <1>9, <1>10, <2>1
<1>12. Switched(w, 0, b, b1)
  BY <1>3, <1>4, <1>5, <1>11, writePSWSwitches, 0 \in 0 .. 3
<1>13. k \in Word /\ Stacks(b) \in Slots /\ b.R \in [0 .. 7 -> Word]
  BY <1>4, StacksTyped DEF Slots, HasSlot, HasParts
<1>14. b1.R[6] = k /\ currentmode(b1) = 0 /\ b1.mmu = b.mmu /\ b1.core = b.core
       /\ b1.sp = Stacks(b) /\ b1.R = [b.R EXCEPT ![6] = k]
  BY <1>12, <1>13 DEF Switched
<1> HIDE DEF k
<1>15. Cut(2, p - 2) = q
  BY <1>13, DownTwice
<1>16. HasParts(t) /\ MapsTo(p, x, t) /\ MapsTo(q, y, t)
  BY trapatTyped, StatesParts DEF k
<1> HIDE DEF q
<1>17. Alike(b1, b2) /\ ~Odd(x) /\ b2.R = [b1.R EXCEPT ![6] = p]
       /\ b2.core = Stored(x, b.psw, b.core)
  <2>1. p = Cut(2, b1.R[6] - 2) /\ Live(push(b.psw, b1))
    BY <1>11, <1>14 DEF b2
  <2> HIDE DEF p
  <2>2. MapsTo(p, x, b1)
    BY <1>8, <1>9, <1>10, <1>11, <1>14, <1>16, MapsAgain
  <2>3. /\ Alike(b1, push(b.psw, b1)) /\ ~Odd(x)
        /\ push(b.psw, b1).R = [b1.R EXCEPT ![6] = p]
        /\ push(b.psw, b1).core = Stored(x, b.psw, b1.core)
    BY <1>8, <1>11, <2>1, <2>2, PushStores
  <2> QED
    BY <1>14, <2>3 DEF b2
<1>18. b2.R[6] = p /\ b2.R[7] = b.R[7] /\ currentmode(b2) = 0 /\ b2.sp = Stacks(b)
       /\ \A r \in 0 .. 7 \ {6} : b2.R[r] = b.R[r]
  <2>1. currentmode(b2) = 0 /\ b2.sp = Stacks(b)
    BY <1>14, <1>17, SameMode DEF Alike
  <2> QED
    BY <1>13, <1>14, <1>17, <2>1
<1>19. Alike(b2, b3) /\ ~Odd(y) /\ b3.R = [b2.R EXCEPT ![6] = q]
       /\ b3.core = Stored(y, b.R[7], b2.core)
  <2> DEFINE v == b2.R[7]
  <2>1. q = Cut(2, b2.R[6] - 2) /\ Live(push(v, b2))
    BY <1>10, <1>15, <1>18 DEF b3
  <2>2. MapsTo(q, y, b2)
    BY <1>8, <1>9, <1>10, <1>11, <1>14, <1>16, <1>18, MapsAgain
  <2>3. v = b.R[7]
    BY <1>18
  <2> HIDE DEF v
  <2>4. /\ Alike(b2, push(v, b2)) /\ ~Odd(y)
        /\ push(v, b2).R = [b2.R EXCEPT ![6] = q]
        /\ push(v, b2).core = Stored(y, v, b2.core)
    BY <1>8, <1>11, <2>1, <2>2, PushStores
  <2> QED
    BY <2>3, <2>4 DEF b3, v
<1>20. b3.R[6] = q /\ currentmode(b3) = 0 /\ b3.sp = Stacks(b)
       /\ \A r \in 0 .. 7 \ {6} : b3.R[r] = b.R[r]
  <2>1. currentmode(b3) = 0 /\ b3.sp = Stacks(b)
    BY <1>18, <1>19, SameMode DEF Alike
  <2>2. b2.R \in [0 .. 7 -> Word]
    BY <1>8 DEF HasParts
  <2> QED
    BY <1>18, <1>19, <2>1, <2>2
<1>21. /\ t.core = b3.core /\ t.sp = [b3.sp EXCEPT ![0] = b3.R[6]] /\ t.R[6] = b3.R[6]
       /\ \A r \in 0 .. 7 \ {7} : t.R[r] = b3.R[r]
  BY <1>1, <1>7, <1>20, HandlerEnters
<1>22. t.sp = [Stacks(b) EXCEPT ![0] = q] /\ t.R[6] = q
       /\ (\A r \in 0 .. 7 \ {6, 7} : t.R[r] = b.R[r])
       /\ t.core = Stored(y, b.R[7], Stored(x, b.psw, b.core))
  BY <1>17, <1>19, <1>20, <1>21
<1> QED
  BY <1>11, <1>17, <1>19, <1>22 DEF Saved, k, q

\* RTT finds what a trap saved, and every mode its stack.
LEMMA TrapUndone ==
  ASSUME NEW b \in States, NEW x, NEW y, x # y,
         NEW e, HasParts(e), Live(e), currentmode(e) = 0, Saved(x, y, b, e),
         MapsTo(Cut(2, Stacks(b)[0] - 2), x, e), MapsTo(Cut(2, Stacks(b)[0] - 4), y, e)
  PROVE  LET d == RTT(e)
         IN  /\ Live(d) /\ d.R = b.R /\ Stacks(d) = Stacks(b)
             /\ d.psw = b.psw - 256 * ((b.psw \div 256) % 8)
<1> DEFINE sp == Stacks(b)
           k == sp[0]
           m == currentmode(b)
           p == Cut(2, k - 2)
           q == Cut(2, k - 4)
           r1 == pop(e)
           r2 == SetR(7, r1.val, r1)
           r3 == pop(r2)
           w == r3.val - 256 * ((r3.val \div 256) % 8)
           v == b.psw - 256 * ((b.psw \div 256) % 8)
           d == writePSW(w, r3)
<1>1. RTT(e) = d
  BY DEF RTT, ReturnPSW, Into
<1> SUFFICES Live(d) /\ d.R = b.R /\ Stacks(d) = sp /\ d.psw = v
  BY <1>1
<1>2. /\ sp \in Slots /\ sp[m] = b.R[6] /\ m \in 0 .. 3 /\ b.psw \in Word
      /\ b.R \in [0 .. 7 -> Word] /\ b.R[7] \in Word
  BY StatesSlots, StacksTyped, ModesTyped DEF HasSlot, HasParts, States
<1>3. m = b.psw \div \o40000
  BY DEF currentmode
<1>4. k \in Word
  BY <1>2 DEF Slots
<1>5. v \div \o40000 = m
  <2> DEFINE u == b.psw
             n == \o10000
             t == \o40000
  <2>1. u \in Word /\ 0 \in 0 .. 3 /\ n = \o10000 /\ t = \o40000
    BY <1>2
  <2>2. m = u \div t /\ v = u - 256 * ((u \div 256) % 8)
    BY <1>3
  <2> SUFFICES v \div t = m
    OBVIOUS
  <2> HIDE DEF u, m, n, t, v
  <2>3. (u - 256 * ((u \div 256) % 8)) \div t = u \div t
    BY <2>1, ModesOfPSW
  <2> QED
    BY <2>2, <2>3
<1>6. e.sp = [sp EXCEPT ![0] = q] /\ e.R[6] = q
      /\ (\A r \in 0 .. 7 \ {6, 7} : e.R[r] = b.R[r])
      /\ e.core = Stored(y, b.R[7], Stored(x, b.psw, b.core))
      /\ ~Odd(x) /\ ~Odd(y)
  BY DEF Saved
<1> HIDE DEF sp, d, w, v
<1>7. e.R \in [0 .. 7 -> Word]
  BY DEF HasParts
<1>8. MapsTo(p, x, e) /\ MapsTo(q, y, e)
  BY DEF sp
<1>9. Cut(2, p + 2) = k /\ Cut(2, q + 2) = p /\ p \in Word /\ q \in Word
  BY <1>4, DownTwice
<1> HIDE DEF k, p, q
<1>10. Alike(e, r1) /\ r1.R = [e.R EXCEPT ![6] = p] /\ r1.core = e.core /\ r1.val = b.R[7]
  <2>1. At(e.core, y) = b.R[7]
    BY <1>6, StoredAt
  <2> QED
    BY <1>6, <1>7, <1>8, <1>9, <2>1, PopLoads
<1> HIDE DEF r1
<1>11. OtherRegisters(r1, r2) /\ r2.R = [r1.R EXCEPT ![7] = b.R[7]]
  <2>1. r1.val \in Int /\ Cut(2, r1.val) = r1.val /\ 7 \in 0 .. 7
    BY <1>2, <1>10, WordTyped, DownAndUp, 0 \in Int
  <2> QED
    BY <1>10, <2>1, SetRSets DEF Alike
<1> HIDE DEF r2
<1>12. /\ HasParts(r2) /\ Live(r2) /\ r2.mmu = e.mmu /\ r2.psw = e.psw /\ r2.sp = e.sp
       /\ r2.core = e.core
  BY <1>10, <1>11 DEF Alike, OtherRegisters
<1>13. r2.R[6] = p /\ MapsTo(p, x, r2) /\ currentmode(r2) = 0
  <2>1. currentmode(r2) = currentmode(e)
    BY <1>12, SameMode
  <2>2. MapsTo(p, x, r2)
    BY <1>7, <1>8, <1>12, <2>1, MapsAgain
  <2> QED
    BY <1>7, <1>10, <1>11, <2>1, <2>2
<1>14. At(r2.core, x) = b.psw
  <2> DEFINE f == Stored(x, b.psw, b.core)
  <2>1. At(f, x) = b.psw
    BY StoredAt
  <2> HIDE DEF f
  <2>2. At(Stored(y, b.R[7], f), x) = At(f, x)
    BY StoredAt
  <2> QED
    BY <1>6, <1>12, <2>1, <2>2 DEF f
<1>15. Alike(r2, r3) /\ r3.R = [r2.R EXCEPT ![6] = k] /\ r3.val = b.psw
  BY <1>6, <1>9, <1>12, <1>13, <1>14, PopLoads
<1> HIDE DEF r3
<1>16. HasParts(r3) /\ Live(r3) /\ currentmode(r3) = 0 /\ r3.sp = [sp EXCEPT ![0] = q]
       /\ r3.R[6] = k
  <2>1. currentmode(r3) = currentmode(r2)
    BY <1>15, SameMode DEF Alike
  <2>2. r2.R \in [0 .. 7 -> Word]
    BY <1>12 DEF HasParts
  <2> QED
    BY <1>6, <1>12, <1>13, <1>15, <2>1, <2>2 DEF Alike
<1>17. HasSlot(r3) /\ Stacks(r3) = sp
  <2>1. r3.sp \in Slots
    BY <1>2, <1>9, <1>16 DEF Slots
  <2>2. [r3.sp EXCEPT ![0] = k] = sp
    BY <1>2, <1>16 DEF Slots, k
  <2> QED
    BY <1>16, <2>1, <2>2 DEF HasSlot, Stacks
<1>18. w = v
  BY <1>15 DEF w, v
<1>19. Switched(v, m, r3, d)
  BY <1>2, <1>5, <1>16, <1>17, <1>18, writePSWSwitches DEF d
<1> HIDE DEF m
<1>20. d.R = [r3.R EXCEPT ![6] = b.R[6]] /\ d.sp = sp /\ currentmode(d) = m
       /\ d.psw = v /\ Live(d)
  BY <1>2, <1>17, <1>19 DEF Switched
<1>21. r3.R = [e.R EXCEPT ![6] = k, ![7] = b.R[7]]
  BY <1>7, <1>10, <1>11, <1>15
<1>22. d.R = b.R
  BY <1>2, <1>6, <1>7, <1>20, <1>21
<1>23. Stacks(d) = sp
  <2>1. Stacks(d) = [sp EXCEPT ![m] = b.R[6]]
    BY <1>2, <1>20, <1>22 DEF Stacks
  <2> QED
    BY <1>2, <2>1 DEF Slots
<1> QED
  BY <1>20, <1>22, <1>23

\* A live step of a trap leaves trapat() done, on the state the trap is taken from.
LEMMA TrapSteps ==
  ASSUME TypeOK, Next, Traps
  PROVE  /\ c \in States /\ HasParts(c')
         /\ \E vec \in Word, b \in States :
              /\ VectorOK(vec) /\ Live(trapat(vec, b))
              /\ b.R = Trapped.R /\ Stacks(b) = Stacks(Trapped) /\ b.psw = c.psw
              /\ c'.R = trapat(vec, b).R /\ c'.psw = trapat(vec, b).psw
              /\ c'.sp = trapat(vec, b).sp
              /\ c'.mmu = trapat(vec, b).mmu /\ c'.core = trapat(vec, b).core
              /\ Live(c')
<1>1. c \in States
  BY StateTyped DEF TypeOK
<1>2. Live(c')
  BY DEF Traps
<1>3. ASSUME NEW d \in States, c' = AtRest(d)
      PROVE  /\ HasParts(c') /\ Live(d) /\ c'.R = d.R /\ c'.psw = d.psw /\ c'.sp = d.sp
             /\ c'.mmu = d.mmu /\ c'.core = d.core
  <2>1. HasParts(d)
    BY StatesParts
  <2>2. /\ HasParts(c') /\ c'.R = d.R /\ c'.psw = d.psw /\ c'.sp = d.sp
        /\ c'.mmu = d.mmu /\ c'.core = d.core /\ c'.trap = d.trap /\ c'.dead = d.dead
    BY <1>3, <2>1 DEF AtRest, HasParts
  <2> QED
    BY <1>2, <2>2 DEF Live
<1>4. CASE c.trap # 0
  <2> DEFINE b == [c EXCEPT !.trap = 0]
             d == trapat(c.trap, b)
  <2>1. TakeTrap
    BY <1>4 DEF Next, Step, Live
  <2>2. b \in States /\ b.R = c.R /\ b.sp = c.sp /\ b.psw = c.psw
    BY <1>1 DEF States, Vectors
  <2>3. c' = AtRest(d)
    BY <2>1 DEF TakeTrap, Answered
  <2>4. VectorOK(c.trap)
    BY <1>1, <1>4, VectorsOK DEF States, Vectors
  <2>5. d \in States
    BY <2>2, <2>4, trapatTyped
  <2>6. Trapped = c
    BY <1>4 DEF Trapped
  <2> HIDE DEF b
  <2>7. Stacks(b) = Stacks(c)
    BY <2>2, SameMode DEF Stacks
  <2> HIDE DEF d
  <2>8. /\ HasParts(c') /\ Live(d) /\ c'.R = d.R /\ c'.psw = d.psw /\ c'.sp = d.sp
        /\ c'.mmu = d.mmu /\ c'.core = d.core
    BY <1>3, <2>3, <2>5
  <2> DEFINE vec == c.trap
  <2>9. /\ vec \in Word /\ b \in States /\ VectorOK(vec) /\ d = trapat(vec, b)
        /\ b.R = Trapped.R /\ Stacks(b) = Stacks(Trapped) /\ b.psw = c.psw
    BY <2>2, <2>4, <2>6, <2>7 DEF VectorOK, d
  <2> HIDE DEF vec
  <2> QED
    BY <1>1, <1>2, <2>8, <2>9
<1>5. CASE c.trap = 0
  <2> DEFINE i == fetched.val
             n == Operation(i).name
             d == trapat(TrapVectors[n], fetched)
  <2>1. Step /\ Live(c)
    BY <1>5 DEF Next, TakeTrap, Step
  <2>2. TypeOK /\ Next /\ Live(c) /\ Live(c')
    BY <1>2, <2>1
  <2>3. PICK u \in BOOLEAN : c' = AtRest(step(u, c))
    BY <2>1 DEF Step
  <2>4. step(u, c) \in States /\ step(u, c) = Started(u, fetched)
    BY <1>1, stepTyped DEF step, fetched, begun
  <2>5. Live(step(u, c))
    BY <1>3, <2>3, <2>4
  <2>6. Live(fetched) /\ step(u, c) = Perform(i, u, fetched)
    BY <2>4, <2>5 DEF Started
  <2>7. fetched \in States /\ fetched.psw = c.psw /\ Trapped = fetched /\ i \in Nat
        /\ n = now.name /\ n \in DOMAIN TrapVectors
    BY <1>1, <1>5, <2>6, FetchedReady, NowIs DEF Ready, Trapped, Traps
  <2>8. step(u, c) = d
    <3> DEFINE G == {d}
    <3>1. n \in {"BPT", "IOT", "MFPT", "EMT", "TRAP", "invalid"}
      BY <2>7 DEF TrapVectors
    <3> HIDE DEF n
    <3>2. n \notin BranchArm
      <4>1. BranchArm \subseteq Branching
        BY TableNames DEF BranchArm
      <4> QED
        BY <3>1, <4>1 DEF Branching
    <3>3. n \notin DoubleArm /\ n \notin SingleArm
      BY <3>1, GroupNames DEF DoubleArm, SingleArm, Destinations
    <3>4. n \notin Arithmetics
      BY <3>1 DEF Arithmetics
    <3> HIDE DEF i
    <3>5. /\ n = Operation(i).name
          /\ trapat(TrapVectors[n], fetched) \in G
      BY DEF n
    <3>6. Perform(i, u, fetched) \in G
      BY <2>7, <3>1, <3>2, <3>3, <3>4, <3>5, PerformArms
    <3> QED
      BY <2>6, <3>6 DEF i
  <2>9. VectorOK(TrapVectors[n])
    BY <2>7, VectorsOK
  <2>10. d \in States /\ c' = AtRest(d)
    BY <2>3, <2>4, <2>8
  <2> HIDE DEF d
  <2>11. /\ HasParts(c') /\ Live(d) /\ c'.R = d.R /\ c'.psw = d.psw /\ c'.sp = d.sp
         /\ c'.mmu = d.mmu /\ c'.core = d.core
    BY <1>3, <2>10
  <2> DEFINE vec == TrapVectors[n]
  <2>12. /\ vec \in Word /\ fetched \in States /\ VectorOK(vec) /\ d = trapat(vec, fetched)
         /\ fetched.R = Trapped.R /\ Stacks(fetched) = Stacks(Trapped)
         /\ fetched.psw = c.psw
    BY <2>7, <2>9 DEF VectorOK, d
  <2> HIDE DEF vec
  <2> QED
    BY <1>1, <1>2, <2>11, <2>12
<1> QED
  BY <1>4, <1>5

(***************************************************************************)
(* Whatever program runs, a trap that goes to a handler in kernel mode,    *)
(* its PSW and PC saved in two words of memory, can be undone: RTT brings  *)
(* back registers, PSW and the stack pointers of all four modes (trapat(), *)
(* kb11.cc, and RTT()).                                                    *)
(***************************************************************************)
THEOREM TrapsReturnAlways == Spec => TrapsReturn
<1> DEFINE A == Traps /\ StackHolds =>
                  LET d == RTT(c')
                  IN  /\ Live(d) /\ d.R = Trapped.R /\ Stacks(d) = Stacks(Trapped)
                      /\ d.psw = c.psw - 256 * ((c.psw \div 256) % 8)
<1>1. TypeOK /\ [Next]_vars => [A]_vars
  <2> SUFFICES ASSUME TypeOK, Next, Traps, StackHolds
               PROVE  LET d == RTT(c')
                      IN  /\ Live(d) /\ d.R = Trapped.R /\ Stacks(d) = Stacks(Trapped)
                          /\ d.psw = c.psw - 256 * ((c.psw \div 256) % 8)
    OBVIOUS
  <2> DEFINE k == Stacks(Trapped)[0]
             x == Loading(Cut(2, k - 2), 0, c').val
             y == Loading(Cut(2, k - 4), 0, c').val
  <2>1. c \in States /\ HasParts(c')
    BY TrapSteps
  <2>2. PICK vec \in Word, b \in States :
          /\ VectorOK(vec) /\ Live(trapat(vec, b))
          /\ b.R = Trapped.R /\ Stacks(b) = Stacks(Trapped) /\ b.psw = c.psw
          /\ c'.R = trapat(vec, b).R /\ c'.psw = trapat(vec, b).psw
          /\ c'.sp = trapat(vec, b).sp
          /\ c'.mmu = trapat(vec, b).mmu /\ c'.core = trapat(vec, b).core
          /\ Live(c')
    BY TrapSteps
  <2> DEFINE t == trapat(vec, b)
             e == c'
  <2>3. x # y /\ MapsTo(Cut(2, k - 2), x, e) /\ MapsTo(Cut(2, k - 4), y, e)
        /\ currentmode(e) = 0
    BY DEF StackHolds, IsMemory, Loading, MapsTo, Traps
  <2>4. t \in States
    BY <2>2, trapatTyped
  <2>5. /\ HasParts(t) /\ Live(t) /\ HasParts(e) /\ Live(e)
        /\ e.R = t.R /\ e.psw = t.psw /\ e.sp = t.sp /\ e.mmu = t.mmu /\ e.core = t.core
    BY <2>1, <2>2, <2>4, StatesParts
  <2>6. b \in States /\ VectorOK(vec) /\ Stacks(b)[0] = k
    BY <2>2
  <2> HIDE DEF t, e, x, y
  <2>7. currentmode(t) = 0
    BY <2>3, <2>5, SameMode
  <2> HIDE DEF k
  <2>8. MapsTo(Cut(2, k - 2), x, t) /\ MapsTo(Cut(2, k - 4), y, t)
    <3> DEFINE p == Cut(2, k - 2)
               q == Cut(2, k - 4)
    <3> SUFFICES MapsTo(p, x, t) /\ MapsTo(q, y, t)
      OBVIOUS
    <3>1. MapsTo(p, x, e) /\ MapsTo(q, y, e)
      BY <2>3
    <3> HIDE DEF p, q
    <3> QED
      BY <2>3, <2>5, <2>7, <3>1, MapsAgain
  <2>9. Saved(x, y, b, t)
    BY <2>5, <2>6, <2>7, <2>8, TrapSaves DEF t
  <2> DEFINE d == RTT(e)
  <2>10. Saved(x, y, b, e)
    BY <2>5, <2>9 DEF Saved
  <2>11. /\ Live(d) /\ d.R = b.R /\ Stacks(d) = Stacks(b)
         /\ d.psw = b.psw - 256 * ((b.psw \div 256) % 8)
    BY <2>3, <2>5, <2>6, <2>10, TrapUndone
  <2> HIDE DEF d
  <2> QED
    BY <2>2, <2>11 DEF d, e
<1>2. Spec => [][A]_vars
  BY <1>1, ProcessorTypeCorrect, PTL DEF Spec
<1> QED
  BY <1>2 DEF TrapsReturn

-----------------------------------------------------------------------------
(* Stores, and the loads that find them. *)

\* What can be written can be read.
LEMMA WrittenIsReadable ==
  ASSUME NEW b, HasParts(b), NEW va, NEW mode, NEW wr, Live(Decode(va, mode, wr, b))
  PROVE  Live(b) /\ Live(Decode(va, mode, FALSE, b))
<1> DEFINE p == b.mmu.pages[mode][PageOf(va)]
           e == Decode(va, mode, FALSE, b)
<1>1. Live(b)
  BY Zenon DEF Decode
<1>2. ~(b.mmu.on /\ Denied(p, wr))
  <2>1. ~Live(Trap(INTFAULT, b))
    BY TrapKeeps DEF Live, INTFAULT
  <2>2. ASSUME b.mmu.on /\ Denied(p, wr)
        PROVE  Decode(va, mode, wr, b) = Trap(INTFAULT, b)
    BY <1>1, <2>2, Zenon DEF Decode
  <2> QED
    BY <2>1, <2>2
<1>3. Denied(p, FALSE) => Denied(p, wr)
  BY Zenon DEF Denied
<1>4. \E a : e = Valued(a, b)
  BY <1>1, <1>2, <1>3, Zenon DEF Decode
<1> HIDE DEF e
<1>5. Live(e)
  BY <1>1, <1>4, ValuedLives
<1> QED
  BY <1>1, <1>5 DEF e

LEMMA SameParity ==
  ASSUME NEW u \in Int, NEW k \in Int
  PROVE  Odd(2 * k + u) = Odd(u)
<1>1. (2 * k + u) % 2 = u % 2
  OBVIOUS
<1> QED
  BY <1>1 DEF Odd

\* Pages begin at even bus addresses.
LEMMA DecodeParity ==
  ASSUME NEW b \in States, NEW va \in Word, NEW mode \in 0 .. 3,
         Live(Decode(va, mode, FALSE, b))
  PROVE  Odd(Decode(va, mode, FALSE, b).val) = Odd(va)
<1> DEFINE p == b.mmu.pages[mode][PageOf(va)]
           e == Decode(va, mode, FALSE, b)
<1>1. va \in Nat /\ PageOf(va) \in 0 .. 7 /\ HasParts(b)
  BY WordParts, StatesParts
<1>2. p.base \in Nat
  BY <1>1 DEF States, Units, PageTable
<1>3. Odd(Direct(va)) = Odd(va)
  <2> DEFINE k == \o300000
             n == \o600000
  <2>1. k \in Int /\ n = 2 * k
    OBVIOUS
  <2>2. Direct(va) = va \/ Direct(va) = va + n
    BY DEF Direct
  <2> HIDE DEF k, n
  <2>3. va + n = 2 * k + va
    BY <1>1, <2>1
  <2>4. Odd(2 * k + va) = Odd(va)
    BY <1>1, <2>1, SameParity
  <2> QED
    BY <2>2, <2>3, <2>4
<1>4. Odd(Relocated(p, va)) = Odd(va)
  <2> DEFINE h == \o10000
             n == \o20000
             q == va \div n
             r == va % n
             j == 32 * p.base
             i == h * q
  <2>1. h \in Nat /\ n \in Nat \ {0} /\ n = 2 * h /\ va \in Int
    BY <1>1
  <2>2. Relocated(p, va) = 64 * p.base + r
    BY DEF Relocated
  <2> HIDE DEF h, n
  <2>3. q \in Int /\ r \in 0 .. n - 1 /\ va = q * n + r
    BY <2>1, DivMod, Zenon
  <2> HIDE DEF q, r
  <2>4. r \in Int /\ i \in Int /\ q * n = 2 * i
    BY <2>1, <2>3
  <2>5. j \in Int /\ 64 * p.base = 2 * j
    BY <1>2
  <2> HIDE DEF i, j
  <2>6. Odd(2 * j + r) = Odd(r) /\ Odd(2 * i + r) = Odd(r)
    BY <2>4, <2>5, SameParity
  <2> QED
    BY <2>2, <2>3, <2>4, <2>5, <2>6
<1>5. e = Valued(Direct(va), b) \/ e = Valued(Relocated(p, va), b)
  <2>1. Live(b)
    BY Zenon DEF Decode
  <2>2. ~Live(Trap(INTFAULT, b))
    BY <1>1, TrapKeeps DEF Live, INTFAULT
  <2>3. e # Trap(INTFAULT, b)
    BY <2>2
  <2> QED
    BY <2>1, <2>3, Zenon DEF Decode
<1>6. \A x : Valued(x, b).val = x
  BY <1>1, ValuedKeeps
<1> HIDE DEF e
<1>7. e.val = Direct(va) \/ e.val = Relocated(p, va)
  BY <1>5, <1>6
<1> QED
  BY <1>3, <1>4, <1>7 DEF e

LEMMA CoreAnswers ==
  ASSUME NEW a, NEW wr, Answers(a, wr) = "core"
  PROVE  InCore(a)
<1>1. DeviceAt(a, wr) # "core"
  BY SMT DEF DeviceAt, RK11Answers, AnswersAt7775
<1> QED
  BY <1>1, Zenon DEF Answers

LEMMA SpecialsAreEven ==
  ASSUME NEW a \in {PSWAddress, StackLimit, Switches}
  PROVE  ~Odd(a)
<1> DEFINE h == \o377777
           k == \o377776
           j == \o377674
<1>1. PSWAddress = 2 * h /\ StackLimit = 2 * k /\ Switches = 2 * j
      /\ h \in Int /\ k \in Int /\ j \in Int /\ 0 \in Int
  BY DEF PSWAddress, StackLimit, Switches
<1> HIDE DEF h, k, j
<1>2. ~Odd(2 * h) /\ ~Odd(2 * k) /\ ~Odd(2 * j)
  BY <1>1 DEF Odd
<1> QED
  BY <1>1, <1>2

\* A word that is written without a fault is in memory, if its bus address is one
\* of memory, and changes no word of it otherwise.
LEMMA WordWritten ==
  ASSUME NEW b \in States, NEW va \in Word, NEW v, Live(Write16(va, v, b)),
         NEW e, e = Decode(va, currentmode(b), FALSE, b)
  PROVE  /\ Live(b) /\ Live(e) /\ ~Odd(va)
         /\ InCore(e.val) => Holding(e.val, v, b, Write16(va, v, b))
         /\ ~InCore(e.val) => Write16(va, v, b).core = b.core
<1> DEFINE f == Decode(va, currentmode(b), TRUE, b)
           g == Watch(f)
           d == Write16(va, v, b)
           x == e.val
<1>1. HasParts(b) /\ currentmode(b) \in 0 .. 3
  BY StatesParts, ModesTyped
<1>2. d = WriteDecoded(f.val, v, g)
  BY Zenon DEF Write16, WriteMapped
<1>3. Keeps(b, f)
  BY <1>1, DecodeKeeps
<1>4. Keeps(b, g) /\ HasParts(g)
  <2> HIDE DEF f
  <2> QED
    BY <1>3, WatchKeeps, KeptTrans DEF Keeps
<1>5. ~Live(f) => g = f
  BY DEF Watch
<1> HIDE DEF f, g, d
<1>6. Live(g)
  <2>1. ~Live(g) => WriteDecoded(f.val, v, g) = g
    BY Zenon DEF WriteDecoded
  <2> QED
    BY <1>2, <2>1 DEF d
<1>7. Live(f)
  BY <1>5, <1>6
<1>8. Live(b) /\ Live(e)
  BY <1>1, <1>7, WrittenIsReadable DEF f
<1>9. f.val = x
  BY <1>1, <1>8, BusAddressAgain DEF f
<1>10. Odd(x) = Odd(va)
  BY <1>1, <1>8, DecodeParity
<1> HIDE DEF x
<1>11. ~Odd(x)
  <2>1. CASE Odd(x)
    <3>1. x \notin {PSWAddress, StackLimit, Switches}
      BY <2>1, SpecialsAreEven
    <3>2. WriteDecoded(x, v, g) = BusWrite(x, v, g)
      BY <1>6, <3>1, Zenon DEF WriteDecoded
    <3>3. BusWrite(x, v, g) = Trap(INTBUS, g)
      BY <1>6, <2>1, Zenon DEF BusWrite
    <3>4. ~Live(Trap(INTBUS, g))
      BY <1>4, TrapKeeps DEF Live, INTBUS
    <3> QED
      BY <1>2, <1>9, <3>2, <3>3, <3>4 DEF d
  <2> QED
    BY <2>1
<1>12. CASE InCore(x)
  <2>1. Holding(e.val, v, b, Write16(va, v, b))
    BY <1>1, <1>8, <1>12, MemoryStores DEF x
  <2> QED
    BY <1>8, <1>10, <1>11, <1>12, <2>1 DEF x
<1>13. CASE ~InCore(x)
  <2>1. Answers(x, TRUE) # "core"
    BY <1>13, CoreAnswers
  <2>2. d.core = g.core
    BY <1>2, <1>4, <1>9, <2>1, WriteDecodedStores
  <2> QED
    BY <1>4, <1>8, <1>10, <1>11, <1>13, <2>2 DEF Keeps, d, x
<1> QED
  BY <1>12, <1>13

\* What write<l>() leaves of v at the address a: r is b but for memory, where a
\* load finds v from then on; if there is no memory at a, none has changed.
Found(l, a, v, x, b, r) ==
  /\ ~InCore(x) => r.core = b.core
  /\ InCore(x) =>
       /\ r.mmu = b.mmu /\ currentmode(r) = currentmode(b)
       /\ \A d : HasParts(d) /\ Live(d) /\ d.mmu = b.mmu /\ d.core = r.core
                   /\ currentmode(d) = currentmode(b)
                 => ReadMemory(l, a, d).val = v

LEMMA WordIsFound ==
  ASSUME NEW b \in States, NEW a \in Word, NEW v, Live(Write16(a, v, b))
  PROVE  /\ Found(2, a, v, Decode(a, currentmode(b), FALSE, b).val, b, Write16(a, v, b))
         /\ ~Odd(a) /\ Live(Decode(a, currentmode(b), FALSE, b))
<1> DEFINE e == Decode(a, currentmode(b), FALSE, b)
           r == Write16(a, v, b)
           x == e.val
<1>1. Live(b) /\ Live(e) /\ ~Odd(a) /\ (InCore(x) => Holding(x, v, b, r))
      /\ (~InCore(x) => r.core = b.core) /\ HasParts(b)
  BY WordWritten, StatesParts
<1> HIDE DEF x
<1>2. ASSUME InCore(x)
      PROVE  r.mmu = b.mmu /\ r.psw = b.psw /\ r.core = Stored(x, v, b.core) /\ ~Odd(x)
  BY <1>1, <1>2 DEF Holding
<1>3. ASSUME InCore(x), NEW d, HasParts(d), Live(d), d.mmu = b.mmu, d.core = r.core,
             currentmode(d) = currentmode(b)
      PROVE  ReadMemory(2, a, d).val = v
  <2>1. d.core = Stored(x, v, b.core)
    BY <1>2, <1>3
  <2>2. At(d.core, x) = v
    <3>1. At(Stored(x, v, b.core), x) = v
      BY StoredAt
    <3> QED
      BY <2>1, <3>1
  <2>3. MapsTo(a, x, b)
    BY <1>1, <1>3 DEF MapsTo, x
  <2>4. MapsTo(a, x, d)
    BY <1>1, <1>3, <2>3, MapsAgain
  <2>5. Read16(a, d).val = At(d.core, x)
    BY <1>2, <1>3, <2>4, MapsLoads
  <2> QED
    BY <2>2, <2>5 DEF ReadMemory
<1> HIDE DEF r
<1>4. InCore(x) => currentmode(r) = currentmode(b)
  BY <1>2, SameMode
<1>5. Found(2, a, v, x, b, r)
  BY <1>1, <1>2, <1>3, <1>4 DEF Found
<1> QED
  BY <1>1, <1>5 DEF r, x

LEMMA ByteIsFound ==
  ASSUME NEW b \in States, NEW a \in Word, NEW v \in Value(1),
         Live(ReplaceByte(a, v, Read16(WordOf(a), b)))
  PROVE  /\ Found(1, a, v, Decode(WordOf(a), currentmode(b), FALSE, b).val, b,
                  ReplaceByte(a, v, Read16(WordOf(a), b)))
         /\ Live(Decode(WordOf(a), currentmode(b), FALSE, b))
<1> DEFINE k == WordOf(a)
           mode == currentmode(b)
           e == Decode(k, mode, FALSE, b)
           d1 == Read16(k, b)
           w == WithByte(a, d1.val, v)
           r == Write16(k, w, d1)
           e1 == Decode(k, currentmode(d1), FALSE, d1)
           x == e.val
<1>1. r = ReplaceByte(a, v, Read16(WordOf(a), b)) /\ Live(r)
  BY DEF ReplaceByte
<1>2. k \in Word /\ HasParts(b) /\ a \in Nat /\ v \in Int
  BY WordParts, StatesParts, ByteInWord DEF Lengths
<1>3. Reads(b, d1) /\ Loaded(2, d1)
  BY <1>2, ReadsOnly, Read16Typed
<1>4. d1 = ReadDecoded(e)
  BY Zenon DEF Read16
<1>5. ~Live(d1) => r = d1
  <2> HIDE DEF d1, w
  <2> QED
    BY Write16Ended
<1> SUFFICES Found(1, a, v, x, b, r) /\ Live(e)
  BY <1>1
<1>6. x = e.val
  OBVIOUS
<1> HIDE DEF w, r, k, x
<1>7. Live(e)
  <2>1. ~Live(e) => ReadDecoded(e) = e
    BY Zenon DEF ReadDecoded
  <2> QED
    BY <1>1, <1>4, <1>5, <2>1
<1> HIDE DEF d1
<1>8. d1 \in States /\ HasParts(d1) /\ Live(d1) /\ d1.mmu = b.mmu /\ d1.psw = b.psw
      /\ d1.core = b.core
  BY <1>1, <1>3, <1>5 DEF Loaded, Reads, Keeps
<1>9. currentmode(d1) = mode
  BY <1>8, SameMode
<1>10. e1.val = x
  <2>1. e1 = Decode(k, mode, FALSE, d1) /\ e = Decode(k, mode, FALSE, b)
    BY <1>9
  <2> HIDE DEF mode, e1, e
  <2>2. e1.val = e.val
    BY <1>2, <1>7, <1>8, <2>1, BusAddressAgain
  <2> QED
    BY <1>6, <2>2
<1> HIDE DEF e, e1
<1>11. /\ InCore(x) => Holding(x, w, d1, r)
       /\ ~InCore(x) => r.core = d1.core
  BY <1>1, <1>2, <1>8, <1>10, WordWritten DEF e1, r
<1>12. ASSUME InCore(x)
       PROVE  r.mmu = b.mmu /\ r.psw = b.psw /\ r.core = Stored(x, w, b.core) /\ ~Odd(x)
  BY <1>8, <1>11, <1>12 DEF Holding
<1>13. ASSUME InCore(x)
       PROVE  ByteAt(a, w) = v
  <2>1. d1.val = At(b.core, x)
    BY <1>2, <1>6, <1>7, <1>12, <1>13, MemoryLoads DEF e, d1
  <2>2. d1.val \in Word
    BY <2>1, AtTyped DEF States
  <2>3. Odd(a) # Odd(a + 1) /\ a + 1 \in Int /\ a \in Int
    BY <1>2 DEF Odd
  <2>4. ByteAt(a, w) = Cut(1, v)
    BY <1>2, <2>2, <2>3, BytesOfAWord DEF w
  <2>5. Cut(1, v) = v
    BY <1>2, CutFits DEF Lengths
  <2> QED
    BY <2>4, <2>5
<1>14. ASSUME InCore(x), NEW d, HasParts(d), Live(d), d.mmu = b.mmu, d.core = r.core,
              currentmode(d) = mode
       PROVE  ReadMemory(1, a, d).val = v
  <2>1. At(d.core, x) = w
    <3>1. d.core = Stored(x, w, b.core)
      BY <1>12, <1>14
    <3>2. At(Stored(x, w, b.core), x) = w
      BY StoredAt
    <3> QED
      BY <3>1, <3>2
  <2>2. MapsTo(k, x, b)
    BY <1>6, <1>7, <1>14 DEF e, MapsTo
  <2>6. MapsTo(k, x, d)
    BY <1>2, <1>14, <2>2, MapsAgain
  <2> DEFINE q == Read16(k, d)
  <2>3. q.val = At(d.core, x) /\ Reads(d, q)
    BY <1>12, <1>14, <2>6, MapsLoads
  <2>4. ReadMemory(1, a, d) = Valued(ByteAt(a, q.val), q)
    <3>1. 1 # 2
      OBVIOUS
    <3> QED
      BY <3>1, Zenon DEF ReadMemory, ByteOf, k
  <2> HIDE DEF q
  <2>5. HasParts(q)
    BY <2>3 DEF Reads, Keeps
  <2> QED
    BY <1>13, <1>14, <2>1, <2>3, <2>4, <2>5, ValuedKeeps
<1>15. InCore(x) => currentmode(r) = mode
  BY <1>12, SameMode
<1>16. Found(1, a, v, x, b, r)
  BY <1>8, <1>11, <1>12, <1>14, <1>15 DEF Found
<1> QED
  BY <1>7, <1>16

LEMMA WriteAtIsFound ==
  ASSUME NEW b \in States, NEW l \in Lengths, NEW a \in Word, a \notin Aliases,
         NEW v \in Value(l), Live(WriteAt(l, a, v, b))
  PROVE  /\ Found(l, a, v, Decode(WordOf(a), currentmode(b), FALSE, b).val, b,
                  WriteAt(l, a, v, b))
         /\ Live(Decode(WordOf(a), currentmode(b), FALSE, b))
<1> DEFINE x == Decode(WordOf(a), currentmode(b), FALSE, b).val
<1>1. CASE l = 2
  <2>1. WriteAt(l, a, v, b) = Write16(a, v, b)
    BY <1>1, Zenon DEF WriteAt
  <2> DEFINE y == Decode(a, currentmode(b), FALSE, b).val
  <2>2. /\ Found(2, a, v, y, b, Write16(a, v, b)) /\ ~Odd(a)
        /\ Live(Decode(a, currentmode(b), FALSE, b))
    BY <2>1, WordIsFound
  <2>3. WordOf(a) = a
    BY <2>2, WordTyped DEF Odd, WordOf
  <2> QED
    BY <1>1, <2>1, <2>2, <2>3
<1>2. CASE l # 2
  <2>1. l = 1
    BY <1>2 DEF Lengths
  <2>2. WriteAt(l, a, v, b) = ReplaceByte(a, v, Read16(WordOf(a), b))
    BY <1>2, Zenon DEF WriteAt
  <2> QED
    BY <2>1, <2>2, ByteIsFound
<1> QED
  BY <1>1, <1>2

\* MOV and MOVB to a destination that is not a register's name.
LEMMA MOVStores ==
  ASSUME c \in States, Live(c), Live(fetched), NEW i, i = fetched.val,
         NEW o, o = Operation(i), o.name = "MOV", ModeOf(i % 64) # 0,
         Live(DoubleOperand(o, i, fetched))
  PROVE  LET s == SS(o.len, now.src, fetched)
             a == Address(now)
             r == DoubleOperand(o, i, fetched)
         IN  /\ a \in Aliases => r.core = c.core
             /\ a \notin Aliases =>
                  Found(o.len, a, s.val, Decode(WordOf(a), currentmode(c), FALSE, c).val, c, r)
<1> DEFINE l == o.len
           s == SS(l, now.src, fetched)
           e == DA(l, i % 64, s)
           f == Valued(0, e)
           a == e.val
           x == Decode(WordOf(a), currentmode(c), FALSE, c).val
           old == [R |-> [k \in {Dst, Src} |-> IF k = Dst THEN f.val ELSE 0], cc |-> Codes(f)]
           new == Computed(o, s.val, old)
           w == WriteAt(l, a, new.R[Dst], f)
           r == DoubleOperand(o, i, fetched)
<1>1. /\ i \in Nat /\ now.name = o.name /\ now.len = l /\ l \in Lengths
      /\ now.src = (i \div 64) % 64 /\ now.dst = i % 64 /\ now.src \in 0 .. 63
      /\ i % 64 \in 0 .. 63
  BY NowIs
<1>2. fetched \in States /\ fetched.core = c.core /\ fetched.mmu = c.mmu
      /\ fetched.psw = c.psw /\ HasParts(c)
  BY FetchedReady, StatesParts DEF Ready
<1>3. Moving(Moves(now.src, l), fetched, s) /\ Loaded(l, s)
  BY <1>1, <1>2, DAMoves, SSTyped
<1>4. r = Destination(o, i, s.val, 0, s)
  BY <1>1 DEF DoubleOperand, ToDestination
<1>5. Address(now) = a
  <2>1. o.name \in DoubleArm
    BY GroupNames, TableNames DEF DoubleArm, Doubles
  <2> QED
    BY <1>1, <2>1, AddressOf
<1>6. SUFFICES /\ a \in Aliases => r.core = c.core
               /\ a \notin Aliases => Found(l, a, s.val, x, c, r)
  BY <1>5
<1>7. Live(s)
  <2>1. ~Live(s) => r = s
    BY <1>4, Zenon DEF Destination
  <2> QED
    BY <2>1
<1> HIDE DEF s, r
<1>8. Moving(Moves(i % 64, l), s, e) /\ Loaded(2, e)
  BY <1>1, <1>3, DAMoves, DATyped DEF Loaded
<1>9. r = IF Live(f) THEN Stores(o, new, a, f) ELSE f
  <2>1. r = AtAddress(o, s.val, 0, e)
    BY <1>4, <1>7, Zenon DEF Destination
  <2> HIDE DEF e
  <2>2. AtAddress(o, s.val, 0, e) = Compute(o, s.val, 0, e.val, Valued(0, e))
    BY DEF AtAddress
  <2> QED
    BY <2>1, <2>2, Zenon DEF Compute
<1>10. HasParts(e) /\ e \in States
  BY <1>8 DEF Moving, Loaded
<1> HIDE DEF e
<1>11. Keeps(e, f) /\ f \in States /\ f.trap = e.trap /\ f.dead = e.dead
  BY <1>10, ValuedKeeps, ValuedTyped, 0 \in Nat
<1> HIDE DEF f
<1>12. Live(f) /\ r = Stores(o, new, a, f)
  <2>1. ~Live(f) => r = f
    BY <1>9
  <2>2. Live(r)
    BY DEF r
  <2> QED
    BY <1>9, <2>1, <2>2
<1>13. Live(e) /\ a \in Word
  BY <1>8, <1>11, <1>12, Widths16 DEF Loaded, Live
<1>14. /\ f.core = c.core /\ f.mmu = c.mmu /\ HasParts(f)
       /\ currentmode(f) = currentmode(c)
  <2>1. f.psw = c.psw
    BY <1>2, <1>3, <1>8, <1>11 DEF Moving, Keeps
  <2> QED
    BY <1>2, <1>3, <1>8, <1>11, <2>1, SameMode DEF Moving, Keeps
<1>15. s.val \in Value(l) /\ s.val \in Word /\ s.val \in Int
  BY <1>1, <1>3, <1>7, ByteInWord DEF Loaded
<1>16. new.R[Dst] = s.val
  <2>1. new = Put(2, Dst, s.val, old, NZKeepC(l, s.val, old))
    BY Zenon DEF Computed
  <2>2. Dst \in DOMAIN old.R
    OBVIOUS
  <2> HIDE DEF old
  <2>3. Put(2, Dst, s.val, old, NZKeepC(l, s.val, old)).R[Dst] = Written(2, old.R[Dst], s.val)
    BY <2>2 DEF Put
  <2>4. Written(2, old.R[Dst], s.val) = Cut(2, s.val)
    BY DEF Written
  <2>5. Cut(2, s.val) = s.val
    BY <1>15, DownAndUp, 0 \in Int
  <2> QED
    BY <2>1, <2>3, <2>4, <2>5
<1>17. r = Settled(o, new.cc, w)
  <2>1. Writes(o, Codes(f)) /\ o.name \notin SetBefore /\ o.name # "SUB"
    BY DEF Writes, SetBefore
  <2> HIDE DEF new
  <2> QED
    BY <1>12, <2>1, Zenon DEF Stores
<1>18. w = WriteAt(l, a, s.val, f)
  BY <1>16
<1> DEFINE cc == CodesAfter(o, new.cc, w)
<1>19. r = SetCodes(cc, w)
  <2>1. o.name \notin SetBefore
    BY DEF SetBefore
  <2> QED
    BY <1>17, <2>1, Zenon DEF Settled
<1> HIDE DEF cc, w, new, old, a, l
<1>20. w \in States
  BY <1>1, <1>11, <1>13, <1>15, <1>18, WriteAtTyped DEF l
<1>21. r.core = w.core /\ r.mmu = w.mmu /\ Live(w) /\ currentmode(r) = currentmode(w)
  <2>1. Live(r)
    BY DEF r
  <2> QED
    BY <1>19, <1>20, <2>1, SetCodesKeeps
<1>22. ASSUME a \in Aliases  PROVE r.core = c.core
  <2> DEFINE v == Written(l, f.R[a % 8], s.val)
  <2>1. w = SetR(a % 8, v, f)
    BY <1>18, <1>22, Zenon DEF WriteAt
  <2> HIDE DEF v
  <2>2. SetR(a % 8, v, f).core = f.core
    BY <1>11 DEF SetR, States
  <2> QED
    BY <1>14, <1>21, <2>1, <2>2
<1>23. ASSUME a \notin Aliases  PROVE Found(l, a, s.val, x, c, r)
  <2> DEFINE mode == currentmode(c)
             d == Decode(WordOf(a), mode, FALSE, f)
             g == Decode(WordOf(a), mode, FALSE, c)
             v == s.val
  <2>1. Live(WriteAt(l, a, v, f)) /\ l \in Lengths
    BY <1>1, <1>18, <1>21 DEF l
  <2>2. v \in Value(l) /\ d = Decode(WordOf(a), currentmode(f), FALSE, f)
    BY <1>14, <1>15 DEF l
  <2> HIDE DEF v, d
  <2>3. Found(l, a, v, d.val, f, WriteAt(l, a, v, f)) /\ Live(d)
    BY <1>11, <1>13, <1>23, <2>1, <2>2, WriteAtIsFound
  <2>4. g.val = d.val
    BY <1>2, <1>14, <2>3, BusAddressAgain DEF d
  <2>5. Found(l, a, v, x, f, w)
    BY <1>18, <2>3, <2>4 DEF v
  <2> HIDE DEF x
  <2>6. Found(l, a, v, x, c, r)
    BY <1>14, <1>21, <2>5 DEF Found
  <2> QED
    BY <2>6 DEF v
<1> QED
  BY <1>22, <1>23

(***************************************************************************)
(* Whatever program runs on whatever page table, a load finds what MOV or  *)
(* MOVB has just stored, and a store to a register's name, to the PSW or   *)
(* to a device changes no word of memory (read<1>(), write<1>(), kb11.h;   *)
(* decode(), kt11.cc).                                                     *)
(***************************************************************************)
THEOREM StoresAreLoadedAlways == Spec => StoresAreLoaded
<1> DEFINE A == Completes /\ now.name = "MOV" /\ ModeOf(now.dst) # 0 =>
                  LET a == Address(now)
                  IN  IF a \in Aliases \/ ~InCore(Loading(WordOf(a), currentmode(c), c).val)
                      THEN Differ = {}
                      ELSE ReadMemory(now.len, a, c').val
                             = SS(now.len, now.src, fetched).val
<1>1. TypeOK /\ [Next]_vars => [A]_vars
  <2> DEFINE a == Address(now)
             x == Loading(WordOf(a), currentmode(c), c).val
             v == SS(now.len, now.src, fetched).val
             i == fetched.val
             o == Operation(i)
             r == DoubleOperand(o, i, fetched)
  <2> SUFFICES ASSUME TypeOK, Next, Completes, now.name = "MOV", ModeOf(now.dst) # 0
               PROVE  IF a \in Aliases \/ ~InCore(x) THEN Differ = {}
                      ELSE ReadMemory(now.len, a, c').val = v
    OBVIOUS
  <2>1. c \in States /\ Live(c) /\ HasParts(c') /\ Live(c')
    BY StepCompletes DEF Completes
  <2>2. PICK u \in BOOLEAN, d \in States :
          /\ Live(d) /\ Live(fetched) /\ d = Perform(fetched.val, u, fetched)
          /\ c'.R = d.R /\ c'.psw = d.psw /\ c'.mmu = d.mmu /\ c'.core = d.core
    BY StepCompletes DEF Completes
  <2>3. /\ o.name = "MOV" /\ ModeOf(i % 64) # 0 /\ now.len = o.len /\ i \in Nat
    BY <2>1, <2>2, NowIs
  <2>4. d = r
    <3> DEFINE G == {r}
    <3>1. "MOV" \notin BranchArm
      BY TableNames DEF BranchArm, Branching
    <3>2. "MOV" \notin SingleArm
      BY GroupNames, TableNames DEF SingleArm, Singles
    <3>3. "MOV" \notin Arithmetics /\ "MOV" \notin DOMAIN TrapVectors
      BY DEF Arithmetics, TrapVectors
    <3>4. Operation(i).name = "MOV" /\ DoubleOperand(Operation(i), i, fetched) \in G
      BY <2>3
    <3> HIDE DEF i, G
    <3>5. Perform(i, u, fetched) \in G
      BY <2>3, <3>1, <3>2, <3>3, <3>4, PerformArms
    <3> QED
      BY <2>2, <3>5 DEF i, G
  <2>5. /\ a \in Aliases => d.core = c.core
        /\ a \notin Aliases => Found(now.len, a, v, x, c, d)
    <3>1. /\ a \in Aliases => r.core = c.core
          /\ a \notin Aliases => Found(now.len, a, v, x, c, r)
      BY <2>1, <2>2, <2>3, <2>4, MOVStores DEF Loading
    <3> QED
      BY <2>4, <3>1
  <2> HIDE DEF a, x, v
  <2> DEFINE g == c'
  <2>6. g.core = d.core /\ g.mmu = d.mmu /\ HasParts(g) /\ Live(g)
        /\ currentmode(g) = currentmode(d)
    BY <2>1, <2>2, SameMode
  <2>7. g.core = c.core => Differ = {}
    BY DEF Differ
  <2> HIDE DEF g
  <2>8. a \notin Aliases /\ InCore(x) => ReadMemory(now.len, a, g).val = v
    BY <2>5, <2>6 DEF Found
  <2>9. a \in Aliases \/ ~InCore(x) => Differ = {}
    BY <2>5, <2>6, <2>7 DEF Found
  <2> QED
    BY <2>8, <2>9 DEF g
<1>2. Spec => [][A]_vars
  BY <1>1, ProcessorTypeCorrect, PTL DEF Spec
<1> QED
  BY <1>2 DEF StoresAreLoaded

-----------------------------------------------------------------------------
(* The two decoders. *)

\* The names of the table.
Labels == Names \ Unlisted

Entry == [name : Labels, ins : Nat, step : Nat, b : BOOLEAN]

\* What the disassembler makes of a word by an entry.
Shown(e, i) == Op(e.name, IF e.b /\ i >= \o100000 THEN 1 ELSE 2)

\* The entries of s show a word they match as the operation o.
Shows(s, i, o) ==
  /\ s \in Seq(Entry)
  /\ \A k \in DOMAIN s : Matches(s[k], i) => Shown(s[k], i) = o

Hit(s, i) == \E k \in DOMAIN s : Matches(s[k], i)

LEMMA TablesJoined ==
  ASSUME NEW s, NEW t, NEW i, NEW o, Shows(s, i, o), Shows(t, i, o)
  PROVE  Shows(s \o t, i, o) /\ (Hit(s, i) \/ Hit(t, i) => Hit(s \o t, i))
<1> DEFINE u == s \o t
<1>1. s \in Seq(Entry) /\ t \in Seq(Entry)
  BY DEF Shows
<1>2. /\ u \in Seq(Entry) /\ DOMAIN u = 1 .. Len(s) + Len(t)
      /\ DOMAIN s = 1 .. Len(s) /\ DOMAIN t = 1 .. Len(t)
      /\ Len(s) \in Nat /\ Len(t) \in Nat
      /\ \A k \in 1 .. Len(s) : u[k] = s[k]
      /\ \A k \in Len(s) + 1 .. Len(s) + Len(t) : u[k] = t[k - Len(s)]
  BY <1>1
<1> HIDE DEF u
<1>3. \A k \in DOMAIN u : \/ \E j \in DOMAIN s : u[k] = s[j]
                          \/ \E j \in DOMAIN t : u[k] = t[j]
  <2> TAKE k \in DOMAIN u
  <2>1. CASE k <= Len(s)
    BY <1>2, <2>1
  <2>2. CASE ~(k <= Len(s))
    <3>1. k - Len(s) \in 1 .. Len(t) /\ k \in Len(s) + 1 .. Len(s) + Len(t)
      BY <1>2, <2>2
    <3> QED
      BY <1>2, <3>1
  <2> QED
    BY <2>1, <2>2
<1>4. \A j \in DOMAIN s : \E k \in DOMAIN u : u[k] = s[j]
  BY <1>2
<1>5. \A j \in DOMAIN t : \E k \in DOMAIN u : u[k] = t[j]
  <2> TAKE j \in DOMAIN t
  <2> DEFINE k == Len(s) + j
  <2>1. k \in DOMAIN u /\ k \in Len(s) + 1 .. Len(s) + Len(t) /\ k - Len(s) = j
    BY <1>2
  <2> QED
    BY <1>2, <2>1
<1>6. Shows(u, i, o)
  <2>1. \A k \in DOMAIN u : Matches(u[k], i) => Shown(u[k], i) = o
    BY <1>3, Zenon DEF Shows
  <2> QED
    BY <1>2, <2>1 DEF Shows
<1>7. Hit(s, i) \/ Hit(t, i) => Hit(u, i)
  BY <1>4, <1>5, Zenon DEF Hit
<1> QED
  BY <1>6, <1>7 DEF u

\* What is compared with an entry, and the length it then stands for.
Tested(b, i) == IF b THEN i % \o100000 ELSE i
Length(b, i) == IF b /\ i >= \o100000 THEN 1 ELSE 2

\* Of as many quotients as there are names, from q on, the one that is d
\* stands for o.
NamesIt(names, q, d, length, o) ==
  \A k \in 1 .. Len(names) : d = q + k - 1 => Op(names[k], length) = o

AmongThem(names, q, d) == \E k \in 1 .. Len(names) : d = q + k - 1

LEMMA EntryCompared ==
  ASSUME NEW e, NEW i, NEW b, e.b = b
  PROVE  /\ Matches(e, i) <=> Tested(b, i) - (Tested(b, i) % e.step) = e.ins
         /\ Shown(e, i) = Op(e.name, Length(b, i))
<1> DEFINE w == Tested(e.b, i)
<1>1. Matches(e, i) <=> w - (w % e.step) = e.ins
  BY DEF Matches, Tested
<1>4. w = Tested(b, i)
  OBVIOUS
<1>2. Length(e.b, i) = Length(b, i)
  OBVIOUS
<1>3. Shown(e, i) = Op(e.name, Length(e.b, i))
  BY DEF Shown, Length
<1> QED
  BY <1>1, <1>2, <1>3, <1>4

LEMMA SameMultiple ==
  ASSUME NEW each \in Nat \ {0}, NEW w \in Int, NEW p \in Int
  PROVE  w - (w % each) = p * each <=> w \div each = p
<1> DEFINE d == w \div each
           r == w % each
<1>1. d \in Int /\ r \in 0 .. each - 1 /\ w = d * each + r
  BY DivMod, Zenon
<1>2. p * each \in Int /\ d * each \in Int
  <2>1. \A x, y \in Int : x * y \in Int
    BY SMT
  <2>2. each \in Int
    OBVIOUS
  <2> QED
    BY <1>1, <2>1, <2>2
<1>3. (p * each + 0) \div each = p /\ (d * each + 0) \div each = d
  <2>1. 0 \in 0 .. each - 1
    OBVIOUS
  <2> HIDE DEF d
  <2> QED
    BY <1>1, <2>1, QuotientUnique, Zenon
<1> HIDE DEF d, r
<1> DEFINE x == p * each
           y == d * each
<1>4. x + 0 = x /\ y + 0 = y /\ y \in Int
  BY <1>2
<1>5. x = y <=> p = d
  BY <1>3, <1>4, Zenon
<1>6. w - r = y
  <2>1. w = y + r
    BY <1>1
  <2> HIDE DEF x, y
  <2>2. r \in Int
    BY <1>1
  <2> QED
    BY <1>4, <2>1, <2>2
<1> QED
  BY <1>5, <1>6 DEF d, r, x, y

\* Which words the entries of a group match: those whose quotient is one of
\* as many that follow each other.
LEMMA GroupShows ==
  ASSUME NEW names \in Seq(Labels), NEW q \in Nat, NEW each \in Nat \ {0}, NEW ins,
         ins = q * each, NEW b \in BOOLEAN, NEW i, NEW o, Tested(b, i) \in Nat,
         NamesIt(names, q, Tested(b, i) \div each, Length(b, i), o)
  PROVE  /\ Shows(Entries(names, ins, each, b), i, o)
         /\ AmongThem(names, q, Tested(b, i) \div each)
              => Hit(Entries(names, ins, each, b), i)
<1> DEFINE s == Entries(names, ins, each, b)
           n == Len(names)
           w == Tested(b, i)
<1>1. n \in Nat /\ DOMAIN names = 1 .. n /\ \A k \in 1 .. n : names[k] \in Labels
  OBVIOUS
<1>2. \A k \in 1 .. n : ins + (k - 1) * each \in Nat
  <2>1. \A x, y \in Nat : x * y \in Nat
    BY SMT
  <2>2. \A k \in 1 .. n : k - 1 \in Nat
    BY <1>1
  <2>3. ins \in Nat /\ each \in Nat
    BY <2>1
  <2>4. \A k \in 1 .. n : (k - 1) * each \in Nat
    BY <2>1, <2>2, <2>3
  <2> QED
    BY <2>3, <2>4
<1>3. s = [k \in 1 .. n |->
             [name |-> names[k], ins |-> ins + (k - 1) * each, step |-> each, b |-> b]]
  BY DEF Entries
<1>4. \A k \in 1 .. n : s[k] = [name |-> names[k], ins |-> ins + (k - 1) * each,
                                step |-> each, b |-> b]
  BY <1>3
<1>5. DOMAIN s = 1 .. n
  BY <1>3
<1>6. s = [k \in 1 .. n |-> s[k]]
  BY <1>3, <1>4
<1> HIDE DEF s, n, w
<1>7. \A k \in 1 .. n : /\ s[k].name = names[k] /\ s[k].b = b /\ s[k].step = each
                        /\ s[k].ins = ins + (k - 1) * each
  <2> TAKE k \in 1 .. n
  <2> DEFINE v == ins + (k - 1) * each
  <2>1. s[k] = [name |-> names[k], ins |-> v, step |-> each, b |-> b]
    BY <1>4
  <2> HIDE DEF v
  <2>2. s[k].name = names[k] /\ s[k].b = b /\ s[k].step = each /\ s[k].ins = v
    BY <2>1
  <2> QED
    BY <2>2 DEF v
<1>8. \A k \in 1 .. n : s[k] \in Entry
  <2> SUFFICES ASSUME NEW k \in 1 .. n PROVE s[k] \in Entry
    OBVIOUS
  <2> DEFINE v == ins + (k - 1) * each
  <2>1. v \in Nat /\ names[k] \in Labels
    BY <1>1, <1>2
  <2>2. s[k] = [name |-> names[k], ins |-> v, step |-> each, b |-> b]
    BY <1>4
  <2> HIDE DEF v
  <2> QED
    BY <2>1, <2>2 DEF Entry
<1>9. s \in Seq(Entry)
  <2>1. s \in [1 .. n -> Entry]
    BY <1>6, <1>8
  <2> QED
    BY <1>1, <2>1
<1>10. \A k \in 1 .. n : Matches(s[k], i) <=> w \div each = q + k - 1
  <2> SUFFICES ASSUME NEW k \in 1 .. n
               PROVE  Matches(s[k], i) <=> w \div each = q + k - 1
    OBVIOUS
  <2> DEFINE p == q + k - 1
  <2>1. p \in Int /\ w \in Int
    BY <1>1 DEF w
  <2>2. Matches(s[k], i) <=> w - (w % each) = ins + (k - 1) * each
    BY <1>7, EntryCompared DEF w
  <2>3. ins + (k - 1) * each = p * each
    <3>1. \A x, y, z \in Int : x * z + (y - 1) * z = (x + y - 1) * z
      BY SMT
    <3>2. q \in Int /\ k \in Int /\ each \in Int
      BY <1>1
    <3> QED
      BY <3>1, <3>2
  <2> HIDE DEF p
  <2>4. Matches(s[k], i) <=> w \div each = p
    BY <2>1, <2>2, <2>3, SameMultiple
  <2> QED
    BY <2>4 DEF p
<1>11. Shows(s, i, o)
  <2>1. ASSUME NEW k \in 1 .. n, Matches(s[k], i)
        PROVE  Shown(s[k], i) = o
    <3>1. Op(names[k], Length(b, i)) = o
      BY <1>10, <2>1 DEF NamesIt, n, w
    <3> QED
      BY <1>7, <3>1, EntryCompared
  <2> QED
    BY <1>5, <1>9, <2>1 DEF Shows
<1>12. AmongThem(names, q, w \div each) => Hit(s, i)
  BY <1>5, <1>10 DEF Hit, AmongThem, n
<1> QED
  BY <1>11, <1>12 DEF s, w

LEMMA NestedQuotient ==
  ASSUME NEW i \in Nat, NEW s \in Nat \ {0}, NEW t \in Nat \ {0}, NEW u, u = t * s
  PROVE  i \div u = (i \div s) \div t
<1> DEFINE x == i \div s
           y == x \div t
           m == i % s
           n == x % t
           r == n * s + m
<1>1. x \in Int /\ m \in 0 .. s - 1 /\ i = x * s + m
  <2>1. i \in Int
    OBVIOUS
  <2> QED
    BY <2>1, DivMod, Zenon
<1> HIDE DEF x, m
<1>2. y \in Int /\ n \in 0 .. t - 1 /\ x = y * t + n
  BY <1>1, DivMod, Zenon
<1> HIDE DEF y, n
<1>3. u \in Nat \ {0} /\ r \in 0 .. u - 1
  <2>1. \A p, q \in Nat \ {0} : \A v \in 0 .. p - 1, z \in 0 .. q - 1 :
          p * q \in Nat \ {0} /\ v * q + z \in 0 .. p * q - 1
    <3> TAKE p, q \in Nat \ {0}
    <3> TAKE v \in 0 .. p - 1, z \in 0 .. q - 1
    <3>1. v + 1 <= p /\ p * q \in Nat \ {0} /\ v * q \in Nat
      BY SMT
    <3>2. (v + 1) * q <= p * q
      BY <3>1, SMT
    <3>3. (v + 1) * q = v * q + q
      BY SMT
    <3> QED
      BY <3>1, <3>2, <3>3
  <2> QED
    BY <1>1, <1>2, <2>1
<1>4. i = y * u + r
  <2>1. \A e, f, g, h, k \in Int : (e * f + g) * h + k = e * (f * h) + (g * h + k)
    BY SMT
  <2>2. y \in Int /\ t \in Int /\ n \in Int /\ s \in Int /\ m \in Int
    BY <1>1, <1>2
  <2>3. i = (y * t + n) * s + m
    BY <1>1, <1>2
  <2> QED
    BY <2>1, <2>2, <2>3
<1> HIDE DEF r
<1>5. (y * u + r) \div u = y
  BY <1>2, <1>3, QuotientUnique, Zenon
<1> QED
  BY <1>4, <1>5 DEF y, x

\* The upper four bits.
Upper(w) == w \div 4096

\* The parts of a word that the switches and the table look at.
LEMMA WordQuotients ==
  ASSUME NEW i \in Code
  PROVE  /\ i \in Nat /\ i \div 1 = i
         /\ i \div 8 \in Nat /\ i \div 64 \in 0 .. 1023
         /\ i \div 64 = (i \div 8) \div 8
         /\ i \div 256 = (i \div 64) \div 4
         /\ i \div 512 = (i \div 256) \div 2
         /\ Upper(i) = (i \div 256) \div 16
<1> DEFINE big == 4096
           max == \o177777
<1>1. i \in Nat /\ i <= max
  BY DEF Code
<1>2. big = 16 * 256
  OBVIOUS
<1>3. max = 1023 * 64 + 63
  OBVIOUS
<1> HIDE DEF big, max
<1>5. i \div 1 = i /\ i \div 8 \in Nat
  BY <1>1
<1>6. i \div 64 \in 0 .. 1023
  <2>1. i <= 1023 * 64 + 63
    BY <1>1, <1>3
  <2> QED
    BY <1>1, <2>1
<1>7. 8 \in Nat \ {0} /\ 64 \in Nat \ {0} /\ 4 \in Nat \ {0} /\ 256 \in Nat \ {0}
      /\ 2 \in Nat \ {0} /\ 16 \in Nat \ {0} /\ 64 = 8 * 8 /\ 256 = 4 * 64
      /\ 512 = 2 * 256
  OBVIOUS
<1>8. i \div 64 = (i \div 8) \div 8
  BY <1>1, <1>7, NestedQuotient
<1>9. i \div 256 = (i \div 64) \div 4
  BY <1>1, <1>7, NestedQuotient
<1>10. i \div 512 = (i \div 256) \div 2
  BY <1>1, <1>7, NestedQuotient
<1>11. Upper(i) = (i \div 256) \div 16
  <2>1. i \div big = (i \div 256) \div 16
    BY <1>1, <1>2, <1>7, NestedQuotient
  <2> QED
    BY <2>1 DEF Upper, big
<1> QED
  BY <1>1, <1>5, <1>6, <1>8, <1>9, <1>10, <1>11

Positive == Nat \ {0}
Multiple(n, h, t) == n = h * t

\* Without the highest bit.
LEMMA LowerQuotient ==
  ASSUME NEW n \in Positive, NEW i \in Nat, NEW t \in Positive, NEW h \in Positive,
         Multiple(n, h, t)
  PROVE  /\ i % n \in Nat
         /\ (i % n) \div t = (i \div t) % h
         /\ i >= n <=> i \div t >= h
<1> DEFINE q == i \div t
           r == i % t
           p == q % h
           x == q \div h
<1> USE DEF Positive
<1>0. n = h * t
  BY DEF Multiple
<1>1. q \in Int /\ r \in 0 .. t - 1 /\ i = q * t + r
  <2>1. i \in Int
    OBVIOUS
  <2> QED
    BY <2>1, DivMod, Zenon
<1>2. q \in Nat
  BY SMT
<1> HIDE DEF q, r
<1>3. x \in Int /\ p \in 0 .. h - 1 /\ q = x * h + p
  BY <1>1, DivMod, Zenon
<1> HIDE DEF p, x
<1>4. p * t + r \in 0 .. n - 1
  <2>1. p + 1 <= h /\ p \in Nat
    BY <1>3
  <2>2. (p + 1) * t <= h * t /\ (p + 1) * t = p * t + t /\ p * t \in Nat
    BY <2>1, SMT
  <2> QED
    BY <1>0, <1>1, <2>2
<1>5. i = x * n + (p * t + r)
  <2>1. \A e, f, g, k, z \in Int : (e * f + g) * k + z = e * (f * k) + (g * k + z)
    BY SMT
  <2>2. x \in Int /\ h \in Int /\ p \in Int /\ t \in Int /\ r \in Int
    BY <1>0, <1>1, <1>3
  <2>3. i = (x * h + p) * t + r
    BY <1>0, <1>1, <1>3
  <2> QED
    BY <1>0, <2>1, <2>2, <2>3
<1> DEFINE s == p * t + r
<1> HIDE DEF s
<1>6. i % n = s
  <2>1. (x * n + s) % n = s
    BY <1>3, <1>4, QuotientUnique, Zenon DEF s
  <2> QED
    BY <1>5, <2>1 DEF s
<1>7. s \div t = p
  <2>1. p \in Int
    BY <1>3
  <2> QED
    BY <1>1, <2>1, QuotientUnique, Zenon DEF s
<1>8. i >= n <=> q >= h
  <2>1. CASE q >= h
    <3>1. q * t >= h * t /\ q * t \in Nat
      BY <1>2, <2>1, SMT
    <3> QED
      BY <1>0, <1>1, <2>1, <3>1
  <2>2. CASE ~(q >= h)
    <3>1. q + 1 <= h
      BY <1>2, <2>2
    <3>2. (q + 1) * t <= h * t /\ (q + 1) * t = q * t + t /\ q * t \in Nat
      BY <1>2, <3>1, SMT
    <3> QED
      BY <1>0, <1>1, <2>2, <3>2
  <2> QED
    BY <2>1, <2>2
<1>9. s \in Nat
  BY <1>4 DEF s
<1> QED
  BY <1>6, <1>7, <1>8, <1>9 DEF q, p

LEMMA ByteQuotients ==
  ASSUME NEW i \in Code
  PROVE  /\ Tested(TRUE, i) \in Nat /\ Tested(FALSE, i) = i /\ Length(FALSE, i) = 2
         /\ Tested(TRUE, i) \div 64 = (i \div 64) % 512
         /\ Upper(Tested(TRUE, i)) = Upper(i) % 8
         /\ Length(TRUE, i) = IF i \div 64 >= 512 THEN 1 ELSE 2
<1> DEFINE n == \o100000
           t == 4096
           s == 64
           h == 512
           k == 8
<1>1. Multiple(n, h, s)
  BY DEF Multiple
<1>2. Multiple(n, k, t)
  BY DEF Multiple
<1>3. n \in Positive /\ t \in Positive /\ s \in Positive /\ h \in Positive
      /\ k \in Positive
  BY DEF Positive
<1>4. i \in Nat
  BY WordQuotients
<1>5. Tested(TRUE, i) = i % n /\ Tested(FALSE, i) = i /\ Length(FALSE, i) = 2
      /\ Length(TRUE, i) = IF i >= n THEN 1 ELSE 2
  BY DEF Tested, Length
<1> HIDE DEF n, t, s, h, k
<1>6. /\ i % n \in Nat /\ (i % n) \div s = (i \div s) % h
      /\ i >= n <=> i \div s >= h
  BY <1>1, <1>3, <1>4, LowerQuotient
<1>7. (i % n) \div t = (i \div t) % k
  BY <1>2, <1>3, <1>4, LowerQuotient
<1>8. Length(TRUE, i) = IF i \div s >= h THEN 1 ELSE 2
  BY <1>5, <1>6
<1>9. /\ Tested(TRUE, i) \in Nat /\ Tested(TRUE, i) \div s = (i \div s) % h
  BY <1>5, <1>6
<1>10. Upper(Tested(TRUE, i)) = Upper(i) % k
  <2>1. Upper(i) = i \div t /\ Upper(Tested(TRUE, i)) = Tested(TRUE, i) \div t
    BY DEF Upper, t
  <2> QED
    BY <1>5, <1>7, <2>1
<1> QED
  BY <1>5, <1>8, <1>9, <1>10 DEF s, h, k

\* One arm of each switch at a time.
LEMMA OperationArms ==
  ASSUME NEW i \in Code
  PROVE  LET g == Upper(i)
             r == (i \div 512) % 8
         IN  /\ g = 0 => Operation(i) = WordGroup(i)
             /\ g \in 1 .. 5 => Operation(i) = Op(Doubles[g], 2)
             /\ g = 6 => Operation(i) = Op("ADD", 2)
             /\ g = 7 /\ r < 5 => Operation(i) = Op(Extended[r + 1], 2)
             /\ g = 7 /\ r \in 5 .. 6 => Operation(i) = Invalid
             /\ g = 7 /\ r = 7 => Operation(i) = Op("SOB", 2)
             /\ g = 8 => Operation(i) = ByteGroup(i)
             /\ g \in 9 .. 13 => Operation(i) = Op(Doubles[g - 8], 1)
             /\ g = 14 => Operation(i) = Op("SUB", 2)
             /\ g = 15 => Operation(i) \in {Op("SETD", 2), Invalid}
<1> DEFINE g == Upper(i)
           r == (i \div 512) % 8
           p == i = \o170011
           last == IF p THEN Op("SETD", 2) ELSE Invalid
           extended == IF r < 5 THEN Op(Extended[r + 1], 2)
                       ELSE IF r = 7 THEN Op("SOB", 2) ELSE Invalid
<1>1. Operation(i) =
        CASE g = 0 -> WordGroup(i)
          [] g \in 1 .. 5 -> Op(Doubles[g], 2)
          [] g = 6 -> Op("ADD", 2)
          [] g = 7 -> extended
          [] g = 8 -> ByteGroup(i)
          [] g \in 9 .. 13 -> Op(Doubles[g - 8], 1)
          [] g = 14 -> Op("SUB", 2)
          [] OTHER -> last
  BY DEF Operation, Upper
<1> HIDE DEF p
<1>2. last \in {Op("SETD", 2), Invalid}
  OBVIOUS
<1>3. /\ r < 5 => extended = Op(Extended[r + 1], 2)
      /\ r \in 5 .. 6 => extended = Invalid
      /\ r = 7 => extended = Op("SOB", 2)
  OBVIOUS
<1> HIDE DEF g, r, last, extended
<1>4. /\ g = 0 => Operation(i) = WordGroup(i)
      /\ g \in 1 .. 5 => Operation(i) = Op(Doubles[g], 2)
      /\ g = 6 => Operation(i) = Op("ADD", 2)
  BY <1>1
<1>5. /\ g = 7 => Operation(i) = extended
      /\ g = 8 => Operation(i) = ByteGroup(i)
      /\ g \in 9 .. 13 => Operation(i) = Op(Doubles[g - 8], 1)
  BY <1>1
<1>6. /\ g = 14 => Operation(i) = Op("SUB", 2)
      /\ g = 15 => Operation(i) = last
  BY <1>1
<1>7. /\ g = 7 /\ r < 5 => Operation(i) = Op(Extended[r + 1], 2)
      /\ g = 7 /\ r \in 5 .. 6 => Operation(i) = Invalid
      /\ g = 7 /\ r = 7 => Operation(i) = Op("SOB", 2)
  BY <1>3, <1>5
<1>8. g = 15 => Operation(i) \in {Op("SETD", 2), Invalid}
  BY <1>2, <1>6
<1> QED
  BY <1>4, <1>5, <1>6, <1>7, <1>8 DEF g, r

LEMMA GroupArms ==
  ASSUME NEW i \in Code
  PROVE  LET b == i \div 256
             u == i \div 64
         IN  /\ b = 0 => Operation(i) = ZeroGroup(i)
             /\ b \in 1 .. 7 => Operation(i) = Op(Branches[b], 2)
             /\ b \in 8 .. 9 => Operation(i) = Op("JSR", 2)
             /\ b \in 10 .. 15 => Operation(i) = OneOperand(u, 2)
             /\ b \in 128 .. 135 => Operation(i) = Op(ByteBranches[b - 127], 2)
             /\ b = 136 => Operation(i) = Op("EMT", 2)
             /\ b = 137 => Operation(i) = Op("TRAP", 2)
             /\ b \in 138 .. 143 => Operation(i) = OneOperand(u, 1)
<1> DEFINE b == i \div 256
           u == i \div 64
           x == b % 16
<1>1. WordGroup(i) = CASE b = 0 -> ZeroGroup(i)
                       [] b \in 1 .. 7 -> Op(Branches[b], 2)
                       [] b \in 8 .. 9 -> Op("JSR", 2)
                       [] OTHER -> OneOperand(u, 2)
  BY DEF WordGroup
<1>2. ByteGroup(i) = CASE x < 8 -> Op(ByteBranches[x + 1], 2)
                       [] x = 8 -> Op("EMT", 2)
                       [] x = 9 -> Op("TRAP", 2)
                       [] OTHER -> OneOperand(u, 1)
  BY DEF ByteGroup
<1>3. b \in Nat /\ Upper(i) = b \div 16
  <2>1. i \div 256 = (i \div 64) \div 4 /\ i \div 64 \in 0 .. 1023
    BY WordQuotients
  <2>2. Upper(i) = (i \div 256) \div 16
    BY WordQuotients
  <2> QED
    BY <2>1, <2>2
<1>4. (Upper(i) = 0 => Operation(i) = WordGroup(i))
      /\ (Upper(i) = 8 => Operation(i) = ByteGroup(i))
  BY OperationArms
<1> HIDE DEF b, u
<1>5. b \in 0 .. 15 => Operation(i) = WordGroup(i)
  BY <1>3, <1>4
<1>6. b \in 128 .. 143 => Operation(i) = ByteGroup(i) /\ x = b - 128
  BY <1>3, <1>4
<1> HIDE DEF x
<1>7. /\ b = 0 => Operation(i) = ZeroGroup(i)
      /\ b \in 1 .. 7 => Operation(i) = Op(Branches[b], 2)
      /\ b \in 8 .. 9 => Operation(i) = Op("JSR", 2)
      /\ b \in 10 .. 15 => Operation(i) = OneOperand(u, 2)
  BY <1>1, <1>5
<1>8. b \in 128 .. 135 => Operation(i) = Op(ByteBranches[b - 127], 2)
  <2> SUFFICES ASSUME b \in 128 .. 135
               PROVE  Operation(i) = Op(ByteBranches[b - 127], 2)
    OBVIOUS
  <2>1. x < 8 /\ x + 1 = b - 127 /\ Operation(i) = ByteGroup(i)
    BY <1>6
  <2>2. x # 8 /\ x # 9
    BY <1>6
  <2> QED
    BY <1>2, <2>1, <2>2
<1>9. /\ b = 136 => Operation(i) = Op("EMT", 2)
      /\ b = 137 => Operation(i) = Op("TRAP", 2)
      /\ b \in 138 .. 143 => Operation(i) = OneOperand(u, 1)
  BY <1>2, <1>6
<1> QED
  BY <1>7, <1>8, <1>9 DEF b, u

LEMMA OneOperandArms ==
  ASSUME NEW u \in Nat, NEW l
  PROVE  LET k == u % 64
         IN  /\ k \in 40 .. 51 => OneOperand(u, l) = Op(Singles[k - 39], l)
             /\ u = 52 => OneOperand(u, l) = Op("MARK", 2)
             /\ u = 53 => OneOperand(u, l) = Op("MFPI", 2)
             /\ u = 54 => OneOperand(u, l) = Op("MTPI", 2)
             /\ u = 55 => OneOperand(u, l) = Op("SXT", 2)
             /\ u \notin 52 .. 55 /\ k \notin 40 .. 51 => OneOperand(u, l) = Invalid
<1> DEFINE k == u % 64
           single == Op(Singles[k - 39], l)
           o == OneOperand(u, l)
<1>1. k \in Nat /\ k - \o50 + 1 = k - 39
  OBVIOUS
<1>2. o = CASE k \in 40 .. 51 -> single
            [] u = 52 -> Op("MARK", 2)
            [] u = 53 -> Op("MFPI", 2)
            [] u = 54 -> Op("MTPI", 2)
            [] u = 55 -> Op("SXT", 2)
            [] OTHER -> Invalid
  BY <1>1 DEF OneOperand
<1>3. u \in 52 .. 55 => k = u
  OBVIOUS
<1> HIDE DEF k, single, o
<1>4. /\ k \in 40 .. 51 => u \notin 52 .. 55
      /\ u \in 52 .. 55 => k \notin 40 .. 51
  BY <1>3
<1>5. /\ k \in 40 .. 51 => o = single
      /\ u = 52 => o = Op("MARK", 2)
      /\ u = 53 => o = Op("MFPI", 2)
      /\ u = 54 => o = Op("MTPI", 2)
      /\ u = 55 => o = Op("SXT", 2)
      /\ u \notin 52 .. 55 /\ k \notin 40 .. 51 => o = Invalid
  BY <1>2, <1>4
<1> QED
  BY <1>5 DEF k, single, o

LEMMA ZeroArms ==
  ASSUME NEW i \in Nat
  PROVE  LET a == i \div 8
             u == i \div 64
         IN  /\ a = 0 => ZeroGroup(i) = Op(Zeroes[i + 1], 2)
             /\ u = 1 => ZeroGroup(i) = Op("JMP", 2)
             /\ a = 16 => ZeroGroup(i) = Op("RTS", 2)
             /\ u = 3 => ZeroGroup(i) = Op("SWAB", 2)
             /\ a # 0 /\ u # 1 /\ a # 16 /\ u # 3
                  => ZeroGroup(i).name \in {"SPL", "CLRCC", "SETCC", "invalid"}
<1> DEFINE a == i \div 8
           u == i \div 64
           o == ZeroGroup(i)
           zero == Op(Zeroes[i + 1], 2)
<1>1. o = CASE i < 8 -> zero
            [] u = 1 -> Op("JMP", 2)
            [] a = 16 -> Op("RTS", 2)
            [] a = 19 -> Op("SPL", 2)
            [] a \in 20 .. 21 -> Op("CLRCC", 2)
            [] a \in 22 .. 23 -> Op("SETCC", 2)
            [] u = 3 -> Op("SWAB", 2)
            [] OTHER -> Invalid
  BY DEF ZeroGroup
<1>2. a \in Nat /\ (i < 8 <=> a = 0) /\ u = a \div 8
  OBVIOUS
<1>3. /\ Op("SPL", 2).name = "SPL" /\ Op("CLRCC", 2).name = "CLRCC"
      /\ Op("SETCC", 2).name = "SETCC" /\ Invalid.name = "invalid"
  BY DEF Op, Invalid
<1> HIDE DEF a, u, o, zero
<1>4. /\ i < 8 => a = 0 /\ u = 0
      /\ a \in 19 .. 23 => u = 2
      /\ a = 16 => u = 2
      /\ u = 1 => a \in 8 .. 15
      /\ u = 3 => a \in 24 .. 31
  BY <1>2
<1>5. /\ a = 0 => o = zero
      /\ u = 1 => o = Op("JMP", 2)
      /\ a = 16 => o = Op("RTS", 2)
      /\ u = 3 => o = Op("SWAB", 2)
  BY <1>1, <1>2, <1>4
<1>6. a # 0 /\ u # 1 /\ a # 16 /\ u # 3
        => o \in {Op("SPL", 2), Op("CLRCC", 2), Op("SETCC", 2), Invalid}
  BY <1>1, <1>2, <1>4
<1> QED
  BY <1>3, <1>5, <1>6 DEF a, u, o, zero

\* The names of the tables.
LEMMA LabelsAre ==
  /\ \A n \in Branching \cup Arithmetics : n \in Labels
  /\ \A n \in Destinations : n # "XOR" => n \in Labels
  /\ \A n \in Others :
       n \notin {"HALT", "SPL", "CLRCC", "SETCC", "SETD", "invalid"} => n \in Labels
<1>1. \A n \in Branching \cup Arithmetics : n \in Labels
  BY DEF Branching, Arithmetics, Labels, Names, Unlisted
<1>2. \A n \in Destinations : n # "XOR" => n \in Labels
  BY DEF Destinations, Labels, Names, Unlisted
<1>3. \A n \in Others :
        n \notin {"HALT", "SPL", "CLRCC", "SETCC", "SETD", "invalid"} => n \in Labels
  BY DEF Others, Labels, Names, Unlisted
<1> QED
  BY <1>1, <1>2, <1>3

LEMMA ListTyped ==
  ASSUME NEW S, NEW n \in Nat, NEW s \in [1 .. n -> S]
  PROVE  s \in Seq(S)
OBVIOUS

LEMMA NameLists ==
  /\ Branches \in Seq(Labels) /\ Len(Branches) = 7
  /\ ByteBranches \in Seq(Labels) /\ Len(ByteBranches) = 8
  /\ Singles \in Seq(Labels) /\ Len(Singles) = 12
  /\ Doubles \in Seq(Labels) /\ Len(Doubles) = 5
  /\ Tail(Zeroes) \in Seq(Labels) /\ Len(Tail(Zeroes)) = 7
  /\ \A k \in 1 .. 7 : Tail(Zeroes)[k] = Zeroes[k + 1]
<1>1. Branches \in Seq(Labels) /\ Len(Branches) = 7
  <2>1. Branches = [k \in 1 .. 7 |-> Branches[k]] /\ Len(Branches) = 7
    BY DEF Branches
  <2> QED
    BY <2>1, TableNames, LabelsAre
<1>2. ByteBranches \in Seq(Labels) /\ Len(ByteBranches) = 8
  <2>1. ByteBranches = [k \in 1 .. 8 |-> ByteBranches[k]] /\ Len(ByteBranches) = 8
    BY DEF ByteBranches
  <2> QED
    BY <2>1, TableNames, LabelsAre
<1>3. Singles \in Seq(Labels) /\ Len(Singles) = 12
  <2>1. Singles = [k \in 1 .. 12 |-> Singles[k]] /\ Len(Singles) = 12
    BY DEF Singles
  <2>2. \A k \in 1 .. 12 : Singles[k] # "XOR"
    BY DEF Singles
  <2> QED
    BY <2>1, <2>2, TableNames, LabelsAre
<1>4. Doubles \in Seq(Labels) /\ Len(Doubles) = 5
  <2>1. Doubles = [k \in 1 .. 5 |-> Doubles[k]] /\ Len(Doubles) = 5
    BY DEF Doubles
  <2>2. \A k \in 1 .. 5 : Doubles[k] # "XOR"
    BY DEF Doubles
  <2> QED
    BY <2>1, <2>2, TableNames, LabelsAre
<1>5. Zeroes \in Seq(Names) /\ Len(Zeroes) = 8
  <2>1. Zeroes = [k \in 1 .. 8 |-> Zeroes[k]] /\ Len(Zeroes) = 8
    BY DEF Zeroes
  <2>2. \A k \in 1 .. 8 : Zeroes[k] \in Names
    BY TableNames DEF Names
  <2> QED
    BY <2>1, <2>2
<1>6. /\ Tail(Zeroes) = [k \in 1 .. 7 |-> Tail(Zeroes)[k]] /\ Len(Tail(Zeroes)) = 7
      /\ \A k \in 1 .. 7 : Tail(Zeroes)[k] = Zeroes[k + 1]
  <2>1. Tail(Zeroes) \in Seq(Names) /\ Len(Tail(Zeroes)) = 7
    BY <1>5
  <2>2. ASSUME NEW s \in Seq(Names), Len(s) = 7
        PROVE  s = [k \in 1 .. 7 |-> s[k]]
    <3>1. s \in [1 .. 7 -> Names]
      BY <2>2, LenProperties
    <3> QED
      BY <3>1
  <2>3. ASSUME NEW s \in Seq(Names), NEW k \in 1 .. Len(s) - 1
        PROVE  Tail(s)[k] = s[k + 1]
    OBVIOUS
  <2>4. Len(Zeroes) - 1 = 7
    BY <1>5
  <2>5. \A k \in 1 .. 7 : Tail(Zeroes)[k] = Zeroes[k + 1]
    BY <1>5, <2>3, <2>4
  <2> QED
    BY <2>1, <2>2, <2>5, Zenon
<1>7. \A k \in 1 .. 7 : Zeroes[k + 1] \in Labels
  <2>1. \A k \in 2 .. 8 :
          Zeroes[k] \notin {"HALT", "SPL", "CLRCC", "SETCC", "SETD", "invalid"}
    BY DEF Zeroes
  <2>2. \A k \in 1 .. 7 : k + 1 \in 2 .. 8 /\ k + 1 \in 1 .. 8
    OBVIOUS
  <2> QED
    BY <2>1, <2>2, TableNames, LabelsAre
<1>8. Tail(Zeroes) \in Seq(Labels)
  <2> DEFINE s == Tail(Zeroes)
  <2>1. \A k \in 1 .. 7 : s[k] \in Labels
    BY <1>6, <1>7
  <2>2. s = [k \in 1 .. 7 |-> s[k]]
    BY <1>6
  <2> HIDE DEF s
  <2>3. s \in [1 .. 7 -> Labels]
    BY <2>1, <2>2
  <2>4. s \in Seq(Labels)
    BY <2>3, ListTyped
  <2> QED
    BY <2>4 DEF s
<1> QED
  BY <1>1, <1>2, <1>3, <1>4, <1>6, <1>8

LEMMA OneName ==
  ASSUME NEW x \in Labels
  PROVE  <<x>> \in Seq(Labels) /\ Len(<<x>>) = 1 /\ <<x>>[1] = x
<1> DEFINE s == <<x>>
<1>1. s = [k \in 1 .. 1 |-> s[k]] /\ s[1] = x /\ Len(s) = 1
  OBVIOUS
<1> HIDE DEF s
<1>2. s \in [1 .. 1 -> Labels]
  BY <1>1
<1> QED
  BY <1>1, <1>2 DEF s

LEMMA TwoNames ==
  ASSUME NEW x \in Labels, NEW y \in Labels
  PROVE  /\ <<x, y>> \in Seq(Labels) /\ Len(<<x, y>>) = 2
         /\ <<x, y>>[1] = x /\ <<x, y>>[2] = y
<1> DEFINE s == <<x, y>>
<1>1. s = [k \in 1 .. 2 |-> s[k]] /\ s[1] = x /\ s[2] = y /\ Len(s) = 2
  OBVIOUS
<1> HIDE DEF s
<1>2. s \in [1 .. 2 -> Labels]
  BY <1>1
<1> QED
  BY <1>1, <1>2 DEF s

LEMMA FourNames ==
  ASSUME NEW x \in Labels, NEW y \in Labels, NEW z \in Labels, NEW u \in Labels
  PROVE  /\ <<x, y, z, u>> \in Seq(Labels) /\ Len(<<x, y, z, u>>) = 4
         /\ <<x, y, z, u>>[1] = x /\ <<x, y, z, u>>[2] = y
         /\ <<x, y, z, u>>[3] = z /\ <<x, y, z, u>>[4] = u
<1> DEFINE s == <<x, y, z, u>>
<1>1. /\ s = [k \in 1 .. 4 |-> s[k]]
      /\ s[1] = x /\ s[2] = y /\ s[3] = z /\ s[4] = u /\ Len(s) = 4
  OBVIOUS
<1> HIDE DEF s
<1>2. s \in [1 .. 4 -> Labels]
  BY <1>1
<1> QED
  BY <1>1, <1>2 DEF s

LEMMA WordGroupShows ==
  ASSUME NEW i \in Code, NEW o, NEW names \in Seq(Labels), NEW q \in Nat,
         NEW each \in Positive, NEW ins, Multiple(ins, q, each),
         NamesIt(names, q, i \div each, 2, o)
  PROVE  /\ Shows(Entries(names, ins, each, FALSE), i, o)
         /\ AmongThem(names, q, i \div each) => Hit(Entries(names, ins, each, FALSE), i)
<1>1. Tested(FALSE, i) = i /\ Length(FALSE, i) = 2
  BY ByteQuotients
<1>2. i \in Nat
  BY WordQuotients
<1>3. each \in Nat \ {0} /\ ins = q * each
  BY DEF Positive, Multiple
<1>4. FALSE \in BOOLEAN
  OBVIOUS
<1>5. Tested(FALSE, i) \in Nat
  BY <1>1, <1>2
<1>6. NamesIt(names, q, Tested(FALSE, i) \div each, Length(FALSE, i), o)
  BY <1>1
<1>7. /\ Shows(Entries(names, ins, each, FALSE), i, o)
      /\ AmongThem(names, q, Tested(FALSE, i) \div each)
           => Hit(Entries(names, ins, each, FALSE), i)
  BY <1>3, <1>4, <1>5, <1>6, GroupShows
<1> QED
  BY <1>1, <1>7

LEMMA ByteGroupShows ==
  ASSUME NEW i \in Code, NEW o, NEW names \in Seq(Labels), NEW q \in Nat,
         NEW each \in Positive, NEW ins, Multiple(ins, q, each),
         NamesIt(names, q, Tested(TRUE, i) \div each,
                 IF i \div 64 >= 512 THEN 1 ELSE 2, o)
  PROVE  /\ Shows(Entries(names, ins, each, TRUE), i, o)
         /\ AmongThem(names, q, Tested(TRUE, i) \div each)
              => Hit(Entries(names, ins, each, TRUE), i)
<1>1. Tested(TRUE, i) \in Nat /\ Length(TRUE, i) = IF i \div 64 >= 512 THEN 1 ELSE 2
  BY ByteQuotients
<1>2. each \in Nat \ {0} /\ ins = q * each
  BY DEF Positive, Multiple
<1>3. TRUE \in BOOLEAN
  OBVIOUS
<1>4. NamesIt(names, q, Tested(TRUE, i) \div each, Length(TRUE, i), o)
  BY <1>1
<1> QED
  BY <1>1, <1>2, <1>3, <1>4, GroupShows

\* The word's quotients, as the switches of step() use them.
LEMMA WordRanges ==
  ASSUME NEW i \in Code
  PROVE  LET u == i \div 64
             b == i \div 256
             r == i \div 512
             g == Upper(i)
         IN  /\ u \in 0 .. 1023 /\ b \in 0 .. 255 /\ r \in 0 .. 127 /\ g \in 0 .. 15
             /\ b = u \div 4 /\ r = b \div 2 /\ g = b \div 16
<1>1. i \div 64 \in 0 .. 1023
  BY WordQuotients
<1>2. i \div 256 = (i \div 64) \div 4
  BY WordQuotients
<1>3. i \div 512 = (i \div 256) \div 2
  BY WordQuotients
<1>4. Upper(i) = (i \div 256) \div 16
  BY WordQuotients
<1> DEFINE u == i \div 64
           b == i \div 256
           r == i \div 512
           g == Upper(i)
<1> HIDE DEF u, b, r, g
<1>5. u \in 0 .. 1023
  BY <1>1 DEF u
<1>6. b = u \div 4 /\ r = b \div 2 /\ g = b \div 16
  BY <1>2, <1>3, <1>4 DEF u, b, r, g
<1>7. b \in 0 .. 255
  BY <1>5, <1>6
<1>8. r \in 0 .. 127 /\ g \in 0 .. 15
  BY <1>6, <1>7
<1> QED
  BY <1>5, <1>6, <1>7, <1>8 DEF u, b, r, g

\* The names of each group, and what step() executes.
LEMMA LongGroups ==
  ASSUME NEW i \in Code
  PROVE  LET o == Operation(i)
         IN  /\ NamesIt(Branches, 1, i \div 256, 2, o)
             /\ NamesIt(ByteBranches, 128, i \div 256, 2, o)
             /\ NamesIt(Doubles, 1, Upper(i) % 8, IF i \div 64 >= 512 THEN 1 ELSE 2, o)
             /\ NamesIt(Singles, 40, (i \div 64) % 512, IF i \div 64 >= 512 THEN 1 ELSE 2, o)
             /\ NamesIt(Tail(Zeroes), 1, i, 2, o)
<1> DEFINE o == Operation(i)
           u == i \div 64
           b == i \div 256
           g == Upper(i)
           l == IF u >= 512 THEN 1 ELSE 2
<1>1. /\ u \in 0 .. 1023 /\ b \in 0 .. 255 /\ g \in 0 .. 15
      /\ b = u \div 4 /\ g = b \div 16
  BY WordRanges
<1>2. /\ b = 0 => o = ZeroGroup(i)
      /\ b \in 1 .. 7 => o = Op(Branches[b], 2)
      /\ b \in 10 .. 15 => o = OneOperand(u, 2)
      /\ b \in 128 .. 135 => o = Op(ByteBranches[b - 127], 2)
      /\ b \in 138 .. 143 => o = OneOperand(u, 1)
  BY GroupArms
<1>3. /\ g \in 1 .. 5 => o = Op(Doubles[g], 2)
      /\ g \in 9 .. 13 => o = Op(Doubles[g - 8], 1)
  BY OperationArms
<1>4. \A x : u % 64 \in 40 .. 51 => OneOperand(u, x) = Op(Singles[(u % 64) - 39], x)
  <2> TAKE x
  <2>1. u \in Nat
    BY <1>1
  <2> HIDE DEF u
  <2> QED
    BY <2>1, OneOperandArms
<1>5. i \in Nat /\ i \div 8 \in Nat /\ u = (i \div 8) \div 8
  BY WordQuotients
<1>6. i \div 8 = 0 => ZeroGroup(i) = Op(Zeroes[i + 1], 2)
  BY <1>5, ZeroArms
<1> HIDE DEF o, b, g
<1>7. NamesIt(Branches, 1, b, 2, o)
  <2> SUFFICES ASSUME NEW k \in 1 .. 7, b = 1 + k - 1
               PROVE  Op(Branches[k], 2) = o
    BY NameLists DEF NamesIt
  <2>1. b = k
    OBVIOUS
  <2> QED
    BY <1>2, <2>1
<1>8. NamesIt(ByteBranches, 128, b, 2, o)
  <2> SUFFICES ASSUME NEW k \in 1 .. 8, b = 128 + k - 1
               PROVE  Op(ByteBranches[k], 2) = o
    BY NameLists DEF NamesIt
  <2>1. b \in 128 .. 135 /\ b - 127 = k
    OBVIOUS
  <2> QED
    BY <1>2, <2>1
<1>9. NamesIt(Doubles, 1, g % 8, l, o)
  <2> SUFFICES ASSUME NEW k \in 1 .. 5, g % 8 = 1 + k - 1
               PROVE  Op(Doubles[k], l) = o
    BY NameLists DEF NamesIt
  <2>1. CASE u >= 512
    <3>1. g = k + 8 /\ l = 1
      BY <1>1, <2>1
    <3> QED
      BY <1>3, <3>1
  <2>2. CASE ~(u >= 512)
    <3>1. g = k /\ l = 2
      BY <1>1, <2>2
    <3> QED
      BY <1>3, <3>1
  <2> QED
    BY <2>1, <2>2
<1>10. NamesIt(Singles, 40, u % 512, l, o)
  <2> SUFFICES ASSUME NEW k \in 1 .. 12, u % 512 = 40 + k - 1
               PROVE  Op(Singles[k], l) = o
    BY NameLists DEF NamesIt
  <2> HIDE DEF u
  <2>1. CASE u >= 512
    <3>1. u \in 552 .. 563 /\ u = 551 + k /\ l = 1
      BY <1>1, <2>1
    <3>2. b \in 138 .. 143 /\ u % 64 = 39 + k
      BY <1>1, <3>1
    <3> QED
      BY <1>2, <1>4, <3>1, <3>2
  <2>2. CASE ~(u >= 512)
    <3>1. u \in 40 .. 51 /\ u = 39 + k /\ l = 2
      BY <1>1, <2>2
    <3>2. b \in 10 .. 15 /\ u % 64 = 39 + k
      BY <1>1, <3>1
    <3> QED
      BY <1>2, <1>4, <3>1, <3>2
  <2> QED
    BY <2>1, <2>2
<1>11. NamesIt(Tail(Zeroes), 1, i, 2, o)
  <2> SUFFICES ASSUME NEW k \in 1 .. 7, i = 1 + k - 1
               PROVE  Op(Tail(Zeroes)[k], 2) = o
    BY NameLists DEF NamesIt
  <2>1. i = k /\ i \div 8 = 0
    OBVIOUS
  <2>2. u = 0
    BY <1>5, <2>1
  <2>3. b = 0
    BY <1>1, <2>2
  <2> QED
    BY <1>2, <1>6, <2>1, <2>3, NameLists
<1> QED
  BY <1>7, <1>8, <1>9, <1>10, <1>11 DEF o, b, g

LEMMA NamesOne ==
  ASSUME NEW x \in Labels, NEW q \in Nat, NEW d, NEW o, d = q => o = Op(x, 2)
  PROVE  NamesIt(<<x>>, q, d, 2, o) /\ (d = q => AmongThem(<<x>>, q, d))
<1> DEFINE s == <<x>>
<1>1. Len(s) = 1 /\ s[1] = x
  BY OneName
<1> HIDE DEF s
<1>2. \A k \in 1 .. 1 : k = 1 /\ q + k - 1 = q
  OBVIOUS
<1>3. 1 \in 1 .. 1
  OBVIOUS
<1>4. NamesIt(s, q, d, 2, o)
  BY <1>1, <1>2 DEF NamesIt
<1>5. d = q => AmongThem(s, q, d)
  BY <1>1, <1>2, <1>3 DEF AmongThem
<1> QED
  BY <1>4, <1>5 DEF s

LEMMA ShortGroups ==
  ASSUME NEW i \in Code
  PROVE  LET o == Operation(i)
         IN  /\ i \div 64 = 1 => o = Op("JMP", 2)
             /\ i \div 8 = 16 => o = Op("RTS", 2)
             /\ i \div 64 = 3 => o = Op("SWAB", 2)
             /\ i \div 512 = 4 => o = Op("JSR", 2)
             /\ i \div 512 = 63 => o = Op("SOB", 2)
             /\ Upper(i) = 6 => o = Op("ADD", 2)
             /\ Upper(i) = 14 => o = Op("SUB", 2)
             /\ NamesIt(<<"MARK", "MFPI", "MTPI", "SXT">>, 52, i \div 64, 2, o)
             /\ NamesIt(<<"EMT", "TRAP">>, 136, i \div 256, 2, o)
             /\ NamesIt(<<"MUL", "DIV", "ASH", "ASHC">>, 56, i \div 512, 2, o)
<1> DEFINE o == Operation(i)
           u == i \div 64
           b == i \div 256
           r == i \div 512
           g == Upper(i)
           four == <<"MARK", "MFPI", "MTPI", "SXT">>
           two == <<"EMT", "TRAP">>
           wide == <<"MUL", "DIV", "ASH", "ASHC">>
<1>1. /\ u \in 0 .. 1023 /\ b \in 0 .. 255 /\ r \in 0 .. 127 /\ g \in 0 .. 15
      /\ b = u \div 4 /\ r = b \div 2 /\ g = b \div 16
  BY WordRanges
<1>2. /\ b = 0 => o = ZeroGroup(i)
      /\ b \in 8 .. 9 => o = Op("JSR", 2)
      /\ b \in 10 .. 15 => o = OneOperand(u, 2)
      /\ b = 136 => o = Op("EMT", 2)
      /\ b = 137 => o = Op("TRAP", 2)
  BY GroupArms
<1>3. /\ g = 6 => o = Op("ADD", 2)
      /\ g = 14 => o = Op("SUB", 2)
      /\ g = 7 /\ r % 8 < 5 => o = Op(Extended[(r % 8) + 1], 2)
      /\ g = 7 /\ r % 8 = 7 => o = Op("SOB", 2)
  BY OperationArms
<1>4. /\ u = 52 => OneOperand(u, 2) = Op("MARK", 2)
      /\ u = 53 => OneOperand(u, 2) = Op("MFPI", 2)
      /\ u = 54 => OneOperand(u, 2) = Op("MTPI", 2)
      /\ u = 55 => OneOperand(u, 2) = Op("SXT", 2)
  BY <1>1, OneOperandArms
<1>5. i \in Nat /\ i \div 8 \in Nat /\ u = (i \div 8) \div 8
  BY WordQuotients
<1>6. /\ u = 1 => ZeroGroup(i) = Op("JMP", 2)
      /\ i \div 8 = 16 => ZeroGroup(i) = Op("RTS", 2)
      /\ u = 3 => ZeroGroup(i) = Op("SWAB", 2)
  BY <1>5, ZeroArms
<1>7. /\ {"MARK", "MFPI", "MTPI", "EMT", "TRAP"} \subseteq Labels
      /\ "SXT" \in Labels /\ {"MUL", "DIV", "ASH", "ASHC"} \subseteq Labels
  <2>1. {"MARK", "MFPI", "MTPI", "EMT", "TRAP"} \subseteq Labels
    BY LabelsAre DEF Others
  <2>2. "SXT" \in Labels
    BY LabelsAre DEF Destinations
  <2>3. {"MUL", "DIV", "ASH", "ASHC"} \subseteq Labels
    BY LabelsAre DEF Arithmetics
  <2> QED
    BY <2>1, <2>2, <2>3
<1>8. /\ Len(four) = 4 /\ four[1] = "MARK" /\ four[2] = "MFPI" /\ four[3] = "MTPI"
      /\ four[4] = "SXT"
  BY <1>7, FourNames
<1>9. Len(two) = 2 /\ two[1] = "EMT" /\ two[2] = "TRAP"
  BY <1>7, TwoNames
<1>10. Len(wide) = 4 /\ \A k \in 1 .. 4 : wide[k] = Extended[k]
  <2>1. /\ Len(wide) = 4 /\ wide[1] = "MUL" /\ wide[2] = "DIV" /\ wide[3] = "ASH"
        /\ wide[4] = "ASHC"
    BY <1>7, FourNames
  <2>2. /\ Extended[1] = "MUL" /\ Extended[2] = "DIV" /\ Extended[3] = "ASH"
        /\ Extended[4] = "ASHC"
    BY DEF Extended
  <2> QED
    BY <2>1, <2>2
<1> HIDE DEF o, u, b, r, g, four, two, wide
<1>11. /\ u = 1 => o = Op("JMP", 2)
       /\ u = 3 => o = Op("SWAB", 2)
  BY <1>1, <1>2, <1>6
<1>12. i \div 8 = 16 => o = Op("RTS", 2)
  <2> SUFFICES ASSUME i \div 8 = 16 PROVE o = Op("RTS", 2)
    OBVIOUS
  <2>1. u = 2
    BY <1>5
  <2>2. b = 0
    BY <1>1, <2>1
  <2> QED
    BY <1>2, <1>6, <2>2
<1>13. r = 4 => o = Op("JSR", 2)
  BY <1>1, <1>2
<1>14. r = 63 => o = Op("SOB", 2)
  <2>1. r = 63 => g = 7 /\ r % 8 = 7
    BY <1>1
  <2> QED
    BY <1>3, <2>1
<1>15. NamesIt(four, 52, u, 2, o)
  <2> SUFFICES ASSUME NEW k \in 1 .. 4, u = 52 + k - 1
               PROVE  Op(four[k], 2) = o
    BY <1>8 DEF NamesIt
  <2>1. b \in 10 .. 15
    BY <1>1
  <2>2. o = OneOperand(u, 2)
    BY <1>2, <2>1
  <2>3. k \in {1, 2, 3, 4} /\ u = 51 + k
    OBVIOUS
  <2> QED
    BY <1>4, <1>8, <2>2, <2>3
<1>16. NamesIt(two, 136, b, 2, o)
  <2> SUFFICES ASSUME NEW k \in 1 .. 2, b = 136 + k - 1
               PROVE  Op(two[k], 2) = o
    BY <1>9 DEF NamesIt
  <2>1. k \in {1, 2} /\ b = 135 + k
    OBVIOUS
  <2> QED
    BY <1>2, <1>9, <2>1
<1>17. NamesIt(wide, 56, r, 2, o)
  <2> SUFFICES ASSUME NEW k \in 1 .. 4, r = 56 + k - 1
               PROVE  Op(wide[k], 2) = o
    BY <1>10 DEF NamesIt
  <2>1. g = 7 /\ r % 8 = k - 1
    BY <1>1
  <2>2. r % 8 < 5 /\ (r % 8) + 1 = k
    BY <2>1
  <2> QED
    BY <1>3, <1>10, <2>1, <2>2
<1> QED
  BY <1>3, <1>11, <1>12, <1>13, <1>14, <1>15, <1>16, <1>17 DEF o, u, b, r, g, four, two, wide

\* Which group has a word that stands for an operation of the table.
LEMMA SomeGroup ==
  ASSUME NEW i \in Code, Operation(i).name \notin Unlisted
  PROVE  \/ AmongThem(Tail(Zeroes), 1, i) \/ i \div 64 = 1 \/ i \div 8 = 16
         \/ i \div 64 = 3 \/ AmongThem(<<"MARK", "MFPI", "MTPI", "SXT">>, 52, i \div 64)
         \/ AmongThem(<<"EMT", "TRAP">>, 136, i \div 256)
         \/ AmongThem(ByteBranches, 128, i \div 256) \/ AmongThem(Branches, 1, i \div 256)
         \/ i \div 512 = 4 \/ AmongThem(<<"MUL", "DIV", "ASH", "ASHC">>, 56, i \div 512)
         \/ i \div 512 = 63 \/ Upper(i) = 6 \/ Upper(i) = 14
         \/ AmongThem(Singles, 40, (i \div 64) % 512) \/ AmongThem(Doubles, 1, Upper(i) % 8)
<1> DEFINE o == Operation(i)
           a == i \div 8
           u == i \div 64
           b == i \div 256
           r == i \div 512
           g == Upper(i)
           four == <<"MARK", "MFPI", "MTPI", "SXT">>
           two == <<"EMT", "TRAP">>
           wide == <<"MUL", "DIV", "ASH", "ASHC">>
<1>1. /\ u \in 0 .. 1023 /\ b \in 0 .. 255 /\ r \in 0 .. 127 /\ g \in 0 .. 15
      /\ b = u \div 4 /\ r = b \div 2 /\ g = b \div 16
  BY WordRanges
<1>2. /\ b = 0 => o = ZeroGroup(i)
      /\ b \in 10 .. 15 => o = OneOperand(u, 2)
      /\ b \in 138 .. 143 => o = OneOperand(u, 1)
  BY GroupArms
<1>3. /\ g = 7 /\ r % 8 = 4 => o = Op(Extended[5], 2)
      /\ g = 7 /\ r % 8 \in 5 .. 6 => o = Invalid
      /\ g = 15 => o \in {Op("SETD", 2), Invalid}
  <2>1. /\ g = 7 /\ r % 8 < 5 => o = Op(Extended[(r % 8) + 1], 2)
        /\ g = 7 /\ r % 8 \in 5 .. 6 => o = Invalid
        /\ g = 15 => o \in {Op("SETD", 2), Invalid}
    BY OperationArms
  <2>2. r % 8 = 4 => r % 8 < 5 /\ (r % 8) + 1 = 5
    OBVIOUS
  <2> QED
    BY <2>1, <2>2
<1>4. \A x : u \notin 52 .. 55 /\ u % 64 \notin 40 .. 51 => OneOperand(u, x) = Invalid
  BY <1>1, OneOperandArms
<1>5. i \in Nat /\ a \in Nat /\ u = a \div 8 /\ (a = 0 => i \in 0 .. 7)
  <2>1. i \in Nat /\ a \in Nat /\ u = a \div 8
    BY WordQuotients
  <2>2. a = 0 => i \in 0 .. 7
    BY <2>1
  <2> QED
    BY <2>1, <2>2
<1>6. /\ a = 0 => ZeroGroup(i) = Op(Zeroes[i + 1], 2)
      /\ a # 0 /\ u # 1 /\ a # 16 /\ u # 3
           => ZeroGroup(i).name \in {"SPL", "CLRCC", "SETCC", "invalid"}
  BY <1>5, ZeroArms
<1>7. /\ Op("HALT", 2).name \in Unlisted /\ Op(Extended[5], 2).name \in Unlisted
      /\ Op("SETD", 2).name \in Unlisted /\ Invalid.name \in Unlisted
      /\ Zeroes[1] = "HALT"
      /\ {"SPL", "CLRCC", "SETCC", "invalid"} \subseteq Unlisted
  BY DEF Op, Extended, Invalid, Unlisted, Zeroes
<1>8. Len(four) = 4 /\ Len(two) = 2 /\ Len(wide) = 4
  OBVIOUS
<1>9. o.name \notin Unlisted
  OBVIOUS
<1> HIDE DEF o, a, u, b, r, g, four, two, wide
<1>10. CASE g = 0
  <2>1. CASE b = 0
    <3>1. CASE a = 0
      <4>1. i # 0
        <5> SUFFICES ASSUME i = 0 PROVE FALSE
          OBVIOUS
        <5>1. i + 1 = 1
          OBVIOUS
        <5>2. o = Op("HALT", 2)
          BY <1>2, <1>6, <1>7, <2>1, <3>1, <5>1
        <5> QED
          BY <1>7, <1>9, <5>2
      <4>2. i \in 1 .. 7 /\ i = 1 + i - 1
        BY <1>5, <3>1, <4>1
      <4>3. AmongThem(Tail(Zeroes), 1, i)
        BY <4>2, NameLists DEF AmongThem
      <4> QED
        BY <4>3
    <3>2. CASE a # 0
      <4>1. u = 1 \/ a = 16 \/ u = 3
        BY <1>2, <1>6, <1>7, <1>9, <2>1, <3>2
      <4> QED
        BY <4>1 DEF a, u
    <3> QED
      BY <3>1, <3>2
  <2>2. CASE b \in 1 .. 7
    <3>1. b = 1 + b - 1
      BY <2>2
    <3>2. AmongThem(Branches, 1, b)
      BY <2>2, <3>1, NameLists DEF AmongThem
    <3> QED
      BY <3>2 DEF b
  <2>3. CASE b \in 8 .. 9
    <3>1. r = 4
      BY <1>1, <2>3
    <3> QED
      BY <3>1 DEF r
  <2>4. CASE b \in 10 .. 15
    <3>1. u \in 40 .. 63 /\ u % 64 = u /\ u % 512 = u
      BY <1>1, <2>4
    <3>2. u \in 52 .. 55 \/ u \in 40 .. 51
      BY <1>2, <1>4, <1>7, <1>9, <2>4, <3>1
    <3>3. u \in 52 .. 55 => AmongThem(four, 52, u)
      <4> SUFFICES ASSUME u \in 52 .. 55 PROVE AmongThem(four, 52, u)
        OBVIOUS
      <4>1. u - 51 \in 1 .. 4 /\ u = 52 + (u - 51) - 1
        OBVIOUS
      <4> QED
        BY <1>8, <4>1 DEF AmongThem
    <3>4. u \in 40 .. 51 => AmongThem(Singles, 40, u % 512)
      <4> SUFFICES ASSUME u \in 40 .. 51 PROVE AmongThem(Singles, 40, u)
        BY <3>1
      <4>1. u - 39 \in 1 .. 12 /\ u = 40 + (u - 39) - 1
        OBVIOUS
      <4> QED
        BY <4>1, NameLists DEF AmongThem
    <3> QED
      BY <3>2, <3>3, <3>4 DEF u, four
  <2> QED
    BY <1>1, <1>10, <2>1, <2>2, <2>3, <2>4
<1>11. CASE g \in 1 .. 5 \/ g \in 9 .. 13
  <2>1. g % 8 \in 1 .. 5 /\ g % 8 = 1 + (g % 8) - 1
    BY <1>11
  <2>2. AmongThem(Doubles, 1, g % 8)
    BY <2>1, NameLists DEF AmongThem
  <2> QED
    BY <2>2 DEF g
<1>12. CASE g = 6 \/ g = 14
  BY <1>12 DEF g
<1>13. CASE g = 7
  <2>1. r \in 56 .. 63
    BY <1>1, <1>13
  <2>2. r % 8 = r - 56
    BY <2>1
  <2>3. r \notin 60 .. 62
    <3>1. r % 8 # 4 /\ r % 8 \notin 5 .. 6
      BY <1>3, <1>7, <1>9, <1>13
    <3> QED
      BY <2>1, <2>2, <3>1
  <2>4. r \in 56 .. 59 => AmongThem(wide, 56, r)
    <3> SUFFICES ASSUME r \in 56 .. 59 PROVE AmongThem(wide, 56, r)
      OBVIOUS
    <3>1. r - 55 \in 1 .. 4 /\ r = 56 + (r - 55) - 1
      OBVIOUS
    <3> QED
      BY <1>8, <3>1 DEF AmongThem
  <2>5. r \in 56 .. 59 \/ r = 63
    BY <2>1, <2>3
  <2> QED
    BY <2>4, <2>5 DEF r, wide
<1>14. CASE g = 8
  <2>1. b \in 128 .. 143
    BY <1>1, <1>14
  <2>2. CASE b \in 128 .. 135
    <3>1. b - 127 \in 1 .. 8 /\ b = 128 + (b - 127) - 1
      BY <2>2
    <3>2. AmongThem(ByteBranches, 128, b)
      BY <3>1, NameLists DEF AmongThem
    <3> QED
      BY <3>2 DEF b
  <2>3. CASE b \in 136 .. 137
    <3>1. b - 135 \in 1 .. 2 /\ b = 136 + (b - 135) - 1
      BY <2>3
    <3>2. AmongThem(two, 136, b)
      BY <1>8, <3>1 DEF AmongThem
    <3> QED
      BY <3>2 DEF b, two
  <2>4. CASE b \in 138 .. 143
    <3>1. u \in 552 .. 575 /\ u % 64 = u - 512 /\ u % 512 = u - 512
      BY <1>1, <2>4
    <3>2. u % 512 \in 40 .. 51
      <4>1. u \notin 52 .. 55
        BY <3>1
      <4>2. u % 64 \in 40 .. 51
        BY <1>2, <1>4, <1>7, <1>9, <2>4, <4>1
      <4> QED
        BY <3>1, <4>2
    <3> DEFINE d == u % 512
    <3>3. d \in 40 .. 51
      BY <3>2
    <3> HIDE DEF d
    <3>4. d - 39 \in 1 .. 12 /\ d = 40 + (d - 39) - 1
      BY <3>3
    <3>5. AmongThem(Singles, 40, d)
      BY <3>4, NameLists DEF AmongThem
    <3> QED
      BY <3>5 DEF u, d
  <2> QED
    BY <2>1, <2>2, <2>3, <2>4
<1>15. CASE g = 15
  BY <1>3, <1>7, <1>9, <1>15
<1> QED
  BY <1>1, <1>10, <1>11, <1>12, <1>13, <1>14, <1>15

\* The table shows what step() executes, and has an entry for each word that
\* stands for an operation it lists.
LEMMA TableShows ==
  ASSUME NEW i \in Code
  PROVE  /\ Shows(disamtable, i, Operation(i))
         /\ Operation(i).name \notin Unlisted => Hit(disamtable, i)
<1> DEFINE o == Operation(i)
           t1 == Entries(Tail(Zeroes), 1, 1, FALSE)
           t2 == Entries(<<"JMP">>, \o100, \o100, FALSE)
           t3 == Entries(<<"RTS">>, \o200, 8, FALSE)
           t4 == Entries(<<"SWAB">>, \o300, \o100, FALSE)
           t5 == Entries(<<"MARK", "MFPI", "MTPI", "SXT">>, \o6400, \o100, FALSE)
           t6 == Entries(<<"EMT", "TRAP">>, \o104000, \o400, FALSE)
           t7 == Entries(ByteBranches, \o100000, \o400, FALSE)
           t8 == Entries(Branches, \o400, \o400, FALSE)
           t9 == Entries(<<"JSR">>, \o4000, \o1000, FALSE)
           t10 == Entries(<<"MUL", "DIV", "ASH", "ASHC">>, \o70000, \o1000, FALSE)
           t11 == Entries(<<"SOB">>, \o77000, \o1000, FALSE)
           t12 == Entries(<<"ADD">>, \o60000, \o10000, FALSE)
           t13 == Entries(<<"SUB">>, \o160000, \o10000, FALSE)
           t14 == Entries(Singles, \o5000, \o100, TRUE)
           t15 == Entries(Doubles, \o10000, \o10000, TRUE)
           u2 == t1 \o t2
           u3 == u2 \o t3
           u4 == u3 \o t4
           u5 == u4 \o t5
           u6 == u5 \o t6
           u7 == u6 \o t7
           u8 == u7 \o t8
           u9 == u8 \o t9
           u10 == u9 \o t10
           u11 == u10 \o t11
           u12 == u11 \o t12
           u13 == u12 \o t13
           u14 == u13 \o t14
           u15 == u14 \o t15
<1>1. disamtable = u15
  BY DEF disamtable
<1>2. \A x \in {"JMP", "RTS", "SWAB", "JSR", "SOB", "ADD", "SUB"} : x \in Labels
  <2>1. \A x \in {"JMP", "RTS", "JSR", "SOB"} : x \in Labels
    BY LabelsAre DEF Others
  <2>2. \A x \in {"SWAB", "ADD", "SUB"} : x \in Labels
    BY LabelsAre DEF Destinations
  <2> QED
    BY <2>1, <2>2
<1>3. /\ <<"MARK", "MFPI", "MTPI", "SXT">> \in Seq(Labels)
      /\ <<"MUL", "DIV", "ASH", "ASHC">> \in Seq(Labels)
      /\ <<"EMT", "TRAP">> \in Seq(Labels)
  <2>1. /\ "MARK" \in Labels /\ "MFPI" \in Labels /\ "MTPI" \in Labels
        /\ "EMT" \in Labels /\ "TRAP" \in Labels
    BY LabelsAre DEF Others
  <2>2. "SXT" \in Labels
    BY LabelsAre DEF Destinations
  <2>3. "MUL" \in Labels /\ "DIV" \in Labels /\ "ASH" \in Labels /\ "ASHC" \in Labels
    BY LabelsAre DEF Arithmetics
  <2> QED
    BY <2>1, <2>2, <2>3, FourNames, TwoNames
<1> HIDE DEF t1, t2, t3, t4, t5, t6, t7, t8, t9, t10, t11, t12, t13, t14, t15
<1>4. Shows(t1, i, o) /\ (AmongThem(Tail(Zeroes), 1, i) => Hit(t1, i))
  <2> DEFINE each == 1
             ins == 1
             s == Tail(Zeroes)
  <2>1. Multiple(ins, 1, each) /\ each \in Positive /\ 1 \in Nat
    BY DEF Multiple, Positive
  <2>2. i \div each = i
    BY WordQuotients
  <2>4. s \in Seq(Labels)
    BY NameLists
  <2>6. NamesIt(s, 1, i, 2, o)
    BY LongGroups
  <2> HIDE DEF each, ins, s, o
  <2>7. NamesIt(s, 1, i \div each, 2, o)
    BY <2>2, <2>6
  <2>8. /\ Shows(Entries(s, ins, each, FALSE), i, o)
        /\ AmongThem(s, 1, i \div each) => Hit(Entries(s, ins, each, FALSE), i)
    BY <2>1, <2>4, <2>7, WordGroupShows
  <2>9. AmongThem(s, 1, i) => Hit(Entries(s, ins, each, FALSE), i)
    BY <2>2, <2>8
  <2>10. t1 = Entries(s, ins, each, FALSE)
    BY DEF t1, s, ins, each
  <2> QED
    BY <2>8, <2>9, <2>10 DEF s
<1>5. Shows(t2, i, o) /\ (i \div 64 = 1 => Hit(t2, i))
  <2> DEFINE each == 64
             ins == \o100
             s == <<"JMP">>
  <2>1. Multiple(ins, 1, each) /\ each \in Positive /\ 1 \in Nat
    BY DEF Multiple, Positive
  <2>2. i \div each = i \div 64
    OBVIOUS
  <2>3. "JMP" \in Labels
    BY <1>2
  <2>4. s \in Seq(Labels)
    BY <2>3, OneName
  <2>5. i \div 64 = 1 => o = Op("JMP", 2)
    BY ShortGroups
  <2>6. NamesIt(s, 1, i \div 64, 2, o) /\ (i \div 64 = 1 => AmongThem(s, 1, i \div 64))
    BY <2>1, <2>3, <2>5, NamesOne
  <2> HIDE DEF each, ins, s, o
  <2>7. NamesIt(s, 1, i \div each, 2, o)
    BY <2>2, <2>6
  <2>8. /\ Shows(Entries(s, ins, each, FALSE), i, o)
        /\ AmongThem(s, 1, i \div each) => Hit(Entries(s, ins, each, FALSE), i)
    BY <2>1, <2>4, <2>7, WordGroupShows
  <2>9. AmongThem(s, 1, i \div 64) => Hit(Entries(s, ins, each, FALSE), i)
    BY <2>2, <2>8
  <2>10. t2 = Entries(s, ins, each, FALSE)
    BY DEF t2, s, ins, each
  <2> QED
    BY <2>6, <2>8, <2>9, <2>10
<1>6. Shows(t3, i, o) /\ (i \div 8 = 16 => Hit(t3, i))
  <2> DEFINE each == 8
             ins == \o200
             s == <<"RTS">>
  <2>1. Multiple(ins, 16, each) /\ each \in Positive /\ 16 \in Nat
    BY DEF Multiple, Positive
  <2>2. i \div each = i \div 8
    OBVIOUS
  <2>3. "RTS" \in Labels
    BY <1>2
  <2>4. s \in Seq(Labels)
    BY <2>3, OneName
  <2>5. i \div 8 = 16 => o = Op("RTS", 2)
    BY ShortGroups
  <2>6. NamesIt(s, 16, i \div 8, 2, o) /\ (i \div 8 = 16 => AmongThem(s, 16, i \div 8))
    BY <2>1, <2>3, <2>5, NamesOne
  <2> HIDE DEF each, ins, s, o
  <2>7. NamesIt(s, 16, i \div each, 2, o)
    BY <2>2, <2>6
  <2>8. /\ Shows(Entries(s, ins, each, FALSE), i, o)
        /\ AmongThem(s, 16, i \div each) => Hit(Entries(s, ins, each, FALSE), i)
    BY <2>1, <2>4, <2>7, WordGroupShows
  <2>9. AmongThem(s, 16, i \div 8) => Hit(Entries(s, ins, each, FALSE), i)
    BY <2>2, <2>8
  <2>10. t3 = Entries(s, ins, each, FALSE)
    BY DEF t3, s, ins, each
  <2> QED
    BY <2>6, <2>8, <2>9, <2>10
<1>7. Shows(t4, i, o) /\ (i \div 64 = 3 => Hit(t4, i))
  <2> DEFINE each == 64
             ins == \o300
             s == <<"SWAB">>
  <2>1. Multiple(ins, 3, each) /\ each \in Positive /\ 3 \in Nat
    BY DEF Multiple, Positive
  <2>2. i \div each = i \div 64
    OBVIOUS
  <2>3. "SWAB" \in Labels
    BY <1>2
  <2>4. s \in Seq(Labels)
    BY <2>3, OneName
  <2>5. i \div 64 = 3 => o = Op("SWAB", 2)
    BY ShortGroups
  <2>6. NamesIt(s, 3, i \div 64, 2, o) /\ (i \div 64 = 3 => AmongThem(s, 3, i \div 64))
    BY <2>1, <2>3, <2>5, NamesOne
  <2> HIDE DEF each, ins, s, o
  <2>7. NamesIt(s, 3, i \div each, 2, o)
    BY <2>2, <2>6
  <2>8. /\ Shows(Entries(s, ins, each, FALSE), i, o)
        /\ AmongThem(s, 3, i \div each) => Hit(Entries(s, ins, each, FALSE), i)
    BY <2>1, <2>4, <2>7, WordGroupShows
  <2>9. AmongThem(s, 3, i \div 64) => Hit(Entries(s, ins, each, FALSE), i)
    BY <2>2, <2>8
  <2>10. t4 = Entries(s, ins, each, FALSE)
    BY DEF t4, s, ins, each
  <2> QED
    BY <2>6, <2>8, <2>9, <2>10
<1>8. Shows(t5, i, o) /\ (AmongThem(<<"MARK", "MFPI", "MTPI", "SXT">>, 52, i \div 64) => Hit(t5, i))
  <2> DEFINE each == 64
             ins == \o6400
             s == <<"MARK", "MFPI", "MTPI", "SXT">>
  <2>1. Multiple(ins, 52, each) /\ each \in Positive /\ 52 \in Nat
    BY DEF Multiple, Positive
  <2>2. i \div each = i \div 64
    OBVIOUS
  <2>4. s \in Seq(Labels)
    BY <1>3
  <2>6. NamesIt(s, 52, i \div 64, 2, o)
    BY ShortGroups
  <2> HIDE DEF each, ins, s, o
  <2>7. NamesIt(s, 52, i \div each, 2, o)
    BY <2>2, <2>6
  <2>8. /\ Shows(Entries(s, ins, each, FALSE), i, o)
        /\ AmongThem(s, 52, i \div each) => Hit(Entries(s, ins, each, FALSE), i)
    BY <2>1, <2>4, <2>7, WordGroupShows
  <2>9. AmongThem(s, 52, i \div 64) => Hit(Entries(s, ins, each, FALSE), i)
    BY <2>2, <2>8
  <2>10. t5 = Entries(s, ins, each, FALSE)
    BY DEF t5, s, ins, each
  <2> QED
    BY <2>8, <2>9, <2>10 DEF s
<1>9. Shows(t6, i, o) /\ (AmongThem(<<"EMT", "TRAP">>, 136, i \div 256) => Hit(t6, i))
  <2> DEFINE each == 256
             ins == \o104000
             s == <<"EMT", "TRAP">>
  <2>1. Multiple(ins, 136, each) /\ each \in Positive /\ 136 \in Nat
    BY DEF Multiple, Positive
  <2>2. i \div each = i \div 256
    OBVIOUS
  <2>4. s \in Seq(Labels)
    BY <1>3
  <2>6. NamesIt(s, 136, i \div 256, 2, o)
    BY ShortGroups
  <2> HIDE DEF each, ins, s, o
  <2>7. NamesIt(s, 136, i \div each, 2, o)
    BY <2>2, <2>6
  <2>8. /\ Shows(Entries(s, ins, each, FALSE), i, o)
        /\ AmongThem(s, 136, i \div each) => Hit(Entries(s, ins, each, FALSE), i)
    BY <2>1, <2>4, <2>7, WordGroupShows
  <2>9. AmongThem(s, 136, i \div 256) => Hit(Entries(s, ins, each, FALSE), i)
    BY <2>2, <2>8
  <2>10. t6 = Entries(s, ins, each, FALSE)
    BY DEF t6, s, ins, each
  <2> QED
    BY <2>8, <2>9, <2>10 DEF s
<1>10. Shows(t7, i, o) /\ (AmongThem(ByteBranches, 128, i \div 256) => Hit(t7, i))
  <2> DEFINE each == 256
             ins == \o100000
             s == ByteBranches
  <2>1. Multiple(ins, 128, each) /\ each \in Positive /\ 128 \in Nat
    BY DEF Multiple, Positive
  <2>2. i \div each = i \div 256
    OBVIOUS
  <2>4. s \in Seq(Labels)
    BY NameLists
  <2>6. NamesIt(s, 128, i \div 256, 2, o)
    BY LongGroups
  <2> HIDE DEF each, ins, s, o
  <2>7. NamesIt(s, 128, i \div each, 2, o)
    BY <2>2, <2>6
  <2>8. /\ Shows(Entries(s, ins, each, FALSE), i, o)
        /\ AmongThem(s, 128, i \div each) => Hit(Entries(s, ins, each, FALSE), i)
    BY <2>1, <2>4, <2>7, WordGroupShows
  <2>9. AmongThem(s, 128, i \div 256) => Hit(Entries(s, ins, each, FALSE), i)
    BY <2>2, <2>8
  <2>10. t7 = Entries(s, ins, each, FALSE)
    BY DEF t7, s, ins, each
  <2> QED
    BY <2>8, <2>9, <2>10 DEF s
<1>11. Shows(t8, i, o) /\ (AmongThem(Branches, 1, i \div 256) => Hit(t8, i))
  <2> DEFINE each == 256
             ins == \o400
             s == Branches
  <2>1. Multiple(ins, 1, each) /\ each \in Positive /\ 1 \in Nat
    BY DEF Multiple, Positive
  <2>2. i \div each = i \div 256
    OBVIOUS
  <2>4. s \in Seq(Labels)
    BY NameLists
  <2>6. NamesIt(s, 1, i \div 256, 2, o)
    BY LongGroups
  <2> HIDE DEF each, ins, s, o
  <2>7. NamesIt(s, 1, i \div each, 2, o)
    BY <2>2, <2>6
  <2>8. /\ Shows(Entries(s, ins, each, FALSE), i, o)
        /\ AmongThem(s, 1, i \div each) => Hit(Entries(s, ins, each, FALSE), i)
    BY <2>1, <2>4, <2>7, WordGroupShows
  <2>9. AmongThem(s, 1, i \div 256) => Hit(Entries(s, ins, each, FALSE), i)
    BY <2>2, <2>8
  <2>10. t8 = Entries(s, ins, each, FALSE)
    BY DEF t8, s, ins, each
  <2> QED
    BY <2>8, <2>9, <2>10 DEF s
<1>12. Shows(t9, i, o) /\ (i \div 512 = 4 => Hit(t9, i))
  <2> DEFINE each == 512
             ins == \o4000
             s == <<"JSR">>
  <2>1. Multiple(ins, 4, each) /\ each \in Positive /\ 4 \in Nat
    BY DEF Multiple, Positive
  <2>2. i \div each = i \div 512
    OBVIOUS
  <2>3. "JSR" \in Labels
    BY <1>2
  <2>4. s \in Seq(Labels)
    BY <2>3, OneName
  <2>5. i \div 512 = 4 => o = Op("JSR", 2)
    BY ShortGroups
  <2>6. NamesIt(s, 4, i \div 512, 2, o) /\ (i \div 512 = 4 => AmongThem(s, 4, i \div 512))
    BY <2>1, <2>3, <2>5, NamesOne
  <2> HIDE DEF each, ins, s, o
  <2>7. NamesIt(s, 4, i \div each, 2, o)
    BY <2>2, <2>6
  <2>8. /\ Shows(Entries(s, ins, each, FALSE), i, o)
        /\ AmongThem(s, 4, i \div each) => Hit(Entries(s, ins, each, FALSE), i)
    BY <2>1, <2>4, <2>7, WordGroupShows
  <2>9. AmongThem(s, 4, i \div 512) => Hit(Entries(s, ins, each, FALSE), i)
    BY <2>2, <2>8
  <2>10. t9 = Entries(s, ins, each, FALSE)
    BY DEF t9, s, ins, each
  <2> QED
    BY <2>6, <2>8, <2>9, <2>10
<1>13. Shows(t10, i, o) /\ (AmongThem(<<"MUL", "DIV", "ASH", "ASHC">>, 56, i \div 512) => Hit(t10, i))
  <2> DEFINE each == 512
             ins == \o70000
             s == <<"MUL", "DIV", "ASH", "ASHC">>
  <2>1. Multiple(ins, 56, each) /\ each \in Positive /\ 56 \in Nat
    BY DEF Multiple, Positive
  <2>2. i \div each = i \div 512
    OBVIOUS
  <2>4. s \in Seq(Labels)
    BY <1>3
  <2>6. NamesIt(s, 56, i \div 512, 2, o)
    BY ShortGroups
  <2> HIDE DEF each, ins, s, o
  <2>7. NamesIt(s, 56, i \div each, 2, o)
    BY <2>2, <2>6
  <2>8. /\ Shows(Entries(s, ins, each, FALSE), i, o)
        /\ AmongThem(s, 56, i \div each) => Hit(Entries(s, ins, each, FALSE), i)
    BY <2>1, <2>4, <2>7, WordGroupShows
  <2>9. AmongThem(s, 56, i \div 512) => Hit(Entries(s, ins, each, FALSE), i)
    BY <2>2, <2>8
  <2>10. t10 = Entries(s, ins, each, FALSE)
    BY DEF t10, s, ins, each
  <2> QED
    BY <2>8, <2>9, <2>10 DEF s
<1>14. Shows(t11, i, o) /\ (i \div 512 = 63 => Hit(t11, i))
  <2> DEFINE each == 512
             ins == \o77000
             s == <<"SOB">>
  <2>1. Multiple(ins, 63, each) /\ each \in Positive /\ 63 \in Nat
    BY DEF Multiple, Positive
  <2>2. i \div each = i \div 512
    OBVIOUS
  <2>3. "SOB" \in Labels
    BY <1>2
  <2>4. s \in Seq(Labels)
    BY <2>3, OneName
  <2>5. i \div 512 = 63 => o = Op("SOB", 2)
    BY ShortGroups
  <2>6. NamesIt(s, 63, i \div 512, 2, o) /\ (i \div 512 = 63 => AmongThem(s, 63, i \div 512))
    BY <2>1, <2>3, <2>5, NamesOne
  <2> HIDE DEF each, ins, s, o
  <2>7. NamesIt(s, 63, i \div each, 2, o)
    BY <2>2, <2>6
  <2>8. /\ Shows(Entries(s, ins, each, FALSE), i, o)
        /\ AmongThem(s, 63, i \div each) => Hit(Entries(s, ins, each, FALSE), i)
    BY <2>1, <2>4, <2>7, WordGroupShows
  <2>9. AmongThem(s, 63, i \div 512) => Hit(Entries(s, ins, each, FALSE), i)
    BY <2>2, <2>8
  <2>10. t11 = Entries(s, ins, each, FALSE)
    BY DEF t11, s, ins, each
  <2> QED
    BY <2>6, <2>8, <2>9, <2>10
<1>15. Shows(t12, i, o) /\ (Upper(i) = 6 => Hit(t12, i))
  <2> DEFINE each == 4096
             ins == \o60000
             s == <<"ADD">>
  <2>1. Multiple(ins, 6, each) /\ each \in Positive /\ 6 \in Nat
    BY DEF Multiple, Positive
  <2>2. i \div each = Upper(i)
    BY DEF Upper
  <2>3. "ADD" \in Labels
    BY <1>2
  <2>4. s \in Seq(Labels)
    BY <2>3, OneName
  <2>5. Upper(i) = 6 => o = Op("ADD", 2)
    BY ShortGroups
  <2>6. NamesIt(s, 6, Upper(i), 2, o) /\ (Upper(i) = 6 => AmongThem(s, 6, Upper(i)))
    BY <2>1, <2>3, <2>5, NamesOne
  <2> HIDE DEF each, ins, s, o
  <2>7. NamesIt(s, 6, i \div each, 2, o)
    BY <2>2, <2>6
  <2>8. /\ Shows(Entries(s, ins, each, FALSE), i, o)
        /\ AmongThem(s, 6, i \div each) => Hit(Entries(s, ins, each, FALSE), i)
    BY <2>1, <2>4, <2>7, WordGroupShows
  <2>9. AmongThem(s, 6, Upper(i)) => Hit(Entries(s, ins, each, FALSE), i)
    BY <2>2, <2>8
  <2>10. t12 = Entries(s, ins, each, FALSE)
    BY DEF t12, s, ins, each
  <2> QED
    BY <2>6, <2>8, <2>9, <2>10
<1>16. Shows(t13, i, o) /\ (Upper(i) = 14 => Hit(t13, i))
  <2> DEFINE each == 4096
             ins == \o160000
             s == <<"SUB">>
  <2>1. Multiple(ins, 14, each) /\ each \in Positive /\ 14 \in Nat
    BY DEF Multiple, Positive
  <2>2. i \div each = Upper(i)
    BY DEF Upper
  <2>3. "SUB" \in Labels
    BY <1>2
  <2>4. s \in Seq(Labels)
    BY <2>3, OneName
  <2>5. Upper(i) = 14 => o = Op("SUB", 2)
    BY ShortGroups
  <2>6. NamesIt(s, 14, Upper(i), 2, o) /\ (Upper(i) = 14 => AmongThem(s, 14, Upper(i)))
    BY <2>1, <2>3, <2>5, NamesOne
  <2> HIDE DEF each, ins, s, o
  <2>7. NamesIt(s, 14, i \div each, 2, o)
    BY <2>2, <2>6
  <2>8. /\ Shows(Entries(s, ins, each, FALSE), i, o)
        /\ AmongThem(s, 14, i \div each) => Hit(Entries(s, ins, each, FALSE), i)
    BY <2>1, <2>4, <2>7, WordGroupShows
  <2>9. AmongThem(s, 14, Upper(i)) => Hit(Entries(s, ins, each, FALSE), i)
    BY <2>2, <2>8
  <2>10. t13 = Entries(s, ins, each, FALSE)
    BY DEF t13, s, ins, each
  <2> QED
    BY <2>6, <2>8, <2>9, <2>10
<1>17. Shows(t14, i, o) /\ (AmongThem(Singles, 40, (i \div 64) % 512) => Hit(t14, i))
  <2> DEFINE each == 64
             ins == \o5000
             s == Singles
  <2>1. Multiple(ins, 40, each) /\ each \in Positive /\ 40 \in Nat
    BY DEF Multiple, Positive
  <2>2. Tested(TRUE, i) \div each = (i \div 64) % 512
    BY ByteQuotients
  <2>4. s \in Seq(Labels)
    BY NameLists
  <2>6. NamesIt(s, 40, (i \div 64) % 512, IF i \div 64 >= 512 THEN 1 ELSE 2, o)
    BY LongGroups
  <2> HIDE DEF each, ins, s, o
  <2>7. NamesIt(s, 40, Tested(TRUE, i) \div each, IF i \div 64 >= 512 THEN 1 ELSE 2, o)
    BY <2>2, <2>6
  <2>8. /\ Shows(Entries(s, ins, each, TRUE), i, o)
        /\ AmongThem(s, 40, Tested(TRUE, i) \div each) => Hit(Entries(s, ins, each, TRUE), i)
    BY <2>1, <2>4, <2>7, ByteGroupShows
  <2>9. AmongThem(s, 40, (i \div 64) % 512) => Hit(Entries(s, ins, each, TRUE), i)
    BY <2>2, <2>8
  <2>10. t14 = Entries(s, ins, each, TRUE)
    BY DEF t14, s, ins, each
  <2> QED
    BY <2>8, <2>9, <2>10 DEF s
<1>18. Shows(t15, i, o) /\ (AmongThem(Doubles, 1, Upper(i) % 8) => Hit(t15, i))
  <2> DEFINE each == 4096
             ins == \o10000
             s == Doubles
  <2>1. Multiple(ins, 1, each) /\ each \in Positive /\ 1 \in Nat
    BY DEF Multiple, Positive
  <2>2. Tested(TRUE, i) \div each = Upper(i) % 8
    <3>1. Upper(Tested(TRUE, i)) = Tested(TRUE, i) \div each
      BY DEF Upper
    <3>2. Upper(Tested(TRUE, i)) = Upper(i) % 8
      BY ByteQuotients
    <3> HIDE DEF each
    <3> QED
      BY <3>1, <3>2
  <2>4. s \in Seq(Labels)
    BY NameLists
  <2>6. NamesIt(s, 1, Upper(i) % 8, IF i \div 64 >= 512 THEN 1 ELSE 2, o)
    BY LongGroups
  <2> HIDE DEF each, ins, s, o
  <2>7. NamesIt(s, 1, Tested(TRUE, i) \div each, IF i \div 64 >= 512 THEN 1 ELSE 2, o)
    BY <2>2, <2>6
  <2>8. /\ Shows(Entries(s, ins, each, TRUE), i, o)
        /\ AmongThem(s, 1, Tested(TRUE, i) \div each) => Hit(Entries(s, ins, each, TRUE), i)
    BY <2>1, <2>4, <2>7, ByteGroupShows
  <2>9. AmongThem(s, 1, Upper(i) % 8) => Hit(Entries(s, ins, each, TRUE), i)
    BY <2>2, <2>8
  <2>10. t15 = Entries(s, ins, each, TRUE)
    BY DEF t15, s, ins, each
  <2> QED
    BY <2>8, <2>9, <2>10 DEF s
<1>19. Operation(i).name \notin Unlisted =>
        \/ AmongThem(Tail(Zeroes), 1, i)
        \/ i \div 64 = 1
        \/ i \div 8 = 16
        \/ i \div 64 = 3
        \/ AmongThem(<<"MARK", "MFPI", "MTPI", "SXT">>, 52, i \div 64)
        \/ AmongThem(<<"EMT", "TRAP">>, 136, i \div 256)
        \/ AmongThem(ByteBranches, 128, i \div 256)
        \/ AmongThem(Branches, 1, i \div 256)
        \/ i \div 512 = 4
        \/ AmongThem(<<"MUL", "DIV", "ASH", "ASHC">>, 56, i \div 512)
        \/ i \div 512 = 63
        \/ Upper(i) = 6
        \/ Upper(i) = 14
        \/ AmongThem(Singles, 40, (i \div 64) % 512)
        \/ AmongThem(Doubles, 1, Upper(i) % 8)
  BY SomeGroup
<1>20. /\ Shows(u2, i, o) /\ (Hit(t1, i) \/ Hit(t2, i) => Hit(u2, i))
  BY <1>4, <1>5, TablesJoined
<1> HIDE DEF u2
<1>21. /\ Shows(u3, i, o) /\ (Hit(u2, i) \/ Hit(t3, i) => Hit(u3, i))
  BY <1>20, <1>6, TablesJoined
<1> HIDE DEF u3
<1>22. /\ Shows(u4, i, o) /\ (Hit(u3, i) \/ Hit(t4, i) => Hit(u4, i))
  BY <1>21, <1>7, TablesJoined
<1> HIDE DEF u4
<1>23. /\ Shows(u5, i, o) /\ (Hit(u4, i) \/ Hit(t5, i) => Hit(u5, i))
  BY <1>22, <1>8, TablesJoined
<1> HIDE DEF u5
<1>24. /\ Shows(u6, i, o) /\ (Hit(u5, i) \/ Hit(t6, i) => Hit(u6, i))
  BY <1>23, <1>9, TablesJoined
<1> HIDE DEF u6
<1>25. /\ Shows(u7, i, o) /\ (Hit(u6, i) \/ Hit(t7, i) => Hit(u7, i))
  BY <1>24, <1>10, TablesJoined
<1> HIDE DEF u7
<1>26. /\ Shows(u8, i, o) /\ (Hit(u7, i) \/ Hit(t8, i) => Hit(u8, i))
  BY <1>25, <1>11, TablesJoined
<1> HIDE DEF u8
<1>27. /\ Shows(u9, i, o) /\ (Hit(u8, i) \/ Hit(t9, i) => Hit(u9, i))
  BY <1>26, <1>12, TablesJoined
<1> HIDE DEF u9
<1>28. /\ Shows(u10, i, o) /\ (Hit(u9, i) \/ Hit(t10, i) => Hit(u10, i))
  BY <1>27, <1>13, TablesJoined
<1> HIDE DEF u10
<1>29. /\ Shows(u11, i, o) /\ (Hit(u10, i) \/ Hit(t11, i) => Hit(u11, i))
  BY <1>28, <1>14, TablesJoined
<1> HIDE DEF u11
<1>30. /\ Shows(u12, i, o) /\ (Hit(u11, i) \/ Hit(t12, i) => Hit(u12, i))
  BY <1>29, <1>15, TablesJoined
<1> HIDE DEF u12
<1>31. /\ Shows(u13, i, o) /\ (Hit(u12, i) \/ Hit(t13, i) => Hit(u13, i))
  BY <1>30, <1>16, TablesJoined
<1> HIDE DEF u13
<1>32. /\ Shows(u14, i, o) /\ (Hit(u13, i) \/ Hit(t14, i) => Hit(u14, i))
  BY <1>31, <1>17, TablesJoined
<1> HIDE DEF u14
<1>33. /\ Shows(u15, i, o) /\ (Hit(u14, i) \/ Hit(t15, i) => Hit(u15, i))
  BY <1>32, <1>18, TablesJoined
<1> HIDE DEF u15
<1>34. Hit(t1, i) \/ Hit(t2, i) \/ Hit(t3, i) \/ Hit(t4, i) \/ Hit(t5, i) \/ Hit(t6, i) \/ Hit(t7, i) \/ Hit(t8, i) \/ Hit(t9, i) \/ Hit(t10, i) \/ Hit(t11, i) \/ Hit(t12, i) \/ Hit(t13, i) \/ Hit(t14, i) \/ Hit(t15, i)
        => Hit(u15, i)
  BY <1>20, <1>21, <1>22, <1>23, <1>24, <1>25, <1>26, <1>27, <1>28, <1>29, <1>30, <1>31, <1>32, <1>33, Zenon
<1>35. Operation(i).name \notin Unlisted => Hit(u15, i)
  BY <1>4, <1>5, <1>6, <1>7, <1>8, <1>9, <1>10, <1>11, <1>12, <1>13, <1>14, <1>15, <1>16, <1>17, <1>18, <1>19, <1>34, Zenon
<1> QED
  BY <1>1, <1>33, <1>35 DEF o

LEMMA FirstHit ==
  ASSUME NEW S, S \subseteq Nat, S # {}
  PROVE  \E k \in S : \A j \in S : k <= j
<1> DEFINE R == OpToRel(<, Nat)
<1>1. R = {p \in Nat \X Nat : p[1] < p[2]}
  BY DEF OpToRel
<1>2. IsWellFoundedOn(R, Nat)
  BY NatLessThanWellFounded
<1> HIDE DEF R
<1>3. PICK k \in S : \A j \in S : ~(<<j, k>> \in R)
  BY <1>2, WFMin
<1>4. \A j \in S : k <= j
  <2> TAKE j \in S
  <2>1. ~(<<j, k>> \in R) /\ j \in Nat /\ k \in Nat
    BY <1>3
  <2>2. ~(j < k)
    BY <1>1, <2>1
  <2> QED
    BY <2>1, <2>2
<1> QED
  BY <1>4

\* The disassembler's name of each word the table lists, and HALT for the
\* others.
LEMMA DecodersAlwaysAgree == DecodersAgree
<1> SUFFICES ASSUME NEW i \in Code
             PROVE  LET o == Operation(i)
                        d == Disassembled(i)
                    IN  IF o.name \in Unlisted THEN d.name = "HALT" ELSE d = o
  BY DEF DecodersAgree
<1> DEFINE o == Operation(i)
           d == Disassembled(i)
           s == disamtable
           hits == {k \in DOMAIN s : Matches(s[k], i)}
           first == CHOOSE k \in hits : \A j \in hits : k <= j
<1>1. d = IF hits = {} THEN Op("HALT", 2) ELSE Shown(s[first], i)
  BY DEF Disassembled, Shown
<1>2. Shows(s, i, o) /\ (o.name \notin Unlisted => Hit(s, i))
  BY TableShows
<1> HIDE DEF o, d, s, first
<1>3. hits = {} <=> ~Hit(s, i)
  BY DEF Hit
<1>4. hits \subseteq Nat
  <2>1. s \in Seq(Entry)
    BY <1>2 DEF Shows
  <2>2. DOMAIN s \subseteq Nat
    BY <2>1
  <2> QED
    BY <2>2
<1>5. hits # {} => first \in hits
  <2>1. hits # {} => \E k \in hits : \A j \in hits : k <= j
    BY <1>4, FirstHit
  <2> QED
    BY <2>1, Zenon DEF first
<1>6. hits # {} => Shown(s[first], i) = o
  BY <1>2, <1>5 DEF Shows
<1>7. hits # {} => o.name \notin Unlisted
  <2> SUFFICES ASSUME hits # {} PROVE o.name \notin Unlisted
    OBVIOUS
  <2>1. s[first] \in Entry
    <3>1. s \in Seq(Entry) /\ first \in DOMAIN s
      BY <1>2, <1>5 DEF Shows
    <3> QED
      BY <3>1
  <2>2. s[first].name \in Labels
    BY <2>1 DEF Entry
  <2>3. Shown(s[first], i).name = s[first].name
    BY DEF Shown, Op
  <2> QED
    BY <1>6, <2>2, <2>3 DEF Labels
<1>8. CASE o.name \in Unlisted
  <2>1. d = Op("HALT", 2)
    BY <1>1, <1>7, <1>8
  <2>2. Op("HALT", 2).name = "HALT"
    BY DEF Op
  <2> QED
    BY <1>8, <2>1, <2>2 DEF o, d
<1>9. CASE o.name \notin Unlisted
  <2>1. d = o
    BY <1>1, <1>2, <1>3, <1>6, <1>9
  <2> QED
    BY <1>9, <2>1 DEF o, d
<1> QED
  BY <1>8, <1>9

\* A trace of the disassembler names the instruction that is executed, or HALT
\* where its table has no entry (disasm.cc, KB11::step() in kb11.cc).
THEOREM DisassemblerAgreesAlways == Spec => []DisassemblerAgrees
<1>1. DisassemblerAgrees
  BY DecodersAlwaysAgree DEF DisassemblerAgrees
<1> QED
  BY <1>1, PTL

=============================================================================
