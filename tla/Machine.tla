------------------------------ MODULE Machine ------------------------------
(***************************************************************************)
(* The whole emulator: the processor, memory and the bus, the interrupt    *)
(* table, the disk, the console, the printer and the clock, under the run  *)
(* loop of avr11.cc.                                                       *)
(*                                                                         *)
(* The parts are those of the other modules.  KB11's step() leaves in c    *)
(* the log of its accesses to devices, which the device then acts on; what *)
(* an instruction reads of a device is what the device held before it.     *)
(* The calls of interrupt() and popirq() are atomic (module Dispatch takes *)
(* them apart), and the guest does not write the registers of the KT11.    *)
(***************************************************************************)
EXTENDS KB11, IrqTable, SequencesExt

CONSTANTS
  Starts,             \* memory with a program, and where it starts
  DiskWord(_),        \* the words on the disk
  Keys, MaxTyped,     \* bytes the terminal sends, and how many
  MaxTicks,           \* bound on the ticks of the clock
  Delay, NCount       \* as in KL11

VARIABLES
  c,                  \* the processor and memory, as in module Operand
  phase,              \* what loop0() does next: step, check, disk, console
  itab,
  go, fn, ie, done, ready, err, wc, ba, da, meddled, raised, moved, alive,
  rdone, rie, rbuf, xready, xie, xbuf, count, keypressed, at, tty, sigio, got,
  shown, cleared, irqs,
  platter,            \* the words of the disk that were written
  rkda, lps, csr,     \* RKDA as it was written; LPS of the LP11, CSR of the KW11
  typed, printed,     \* all that was typed, all that was shown
  ticks

disk == <<go, fn, ie, done, ready, err, wc, ba, da, meddled, raised, moved, alive>>
console == <<rdone, rie, rbuf, xready, xie, xbuf, count, keypressed, at, tty,
             sigio, got, shown, cleared, irqs>>
others == <<rkda, lps, csr>>
seen == <<typed, printed, ticks>>
vars == <<c, phase, itab, disk, platter, console, others, seen>>

RK == INSTANCE RK11 WITH
  Functions <- 0 .. 7,
  Starts <- [drive : 0 .. 7, cyl : 0 .. 255, surf : 0 .. 1, sec : 0 .. 15],
  LastCylinder <- \o312, LastSector <- \o13, SectorWords <- 256,
  Addresses <- Word, NBytes <- 65536, MaxCount <- 65535

KL == INSTANCE KL11 WITH NUL <- 0

\* LP11::reset()
ResetLPS == 128

\* KB11::reset() has loaded the boot ROM and reset the bus.
Init ==
  /\ c \in Starts /\ phase = "step" /\ itab = EmptyTable
  /\ RK!Init /\ KL!Init /\ platter = <<>>
  /\ rkda = 0 /\ lps = ResetLPS /\ csr = 0
  /\ typed = <<>> /\ printed = <<>> /\ ticks = 0

\* A word of the disk.
Sector(w) == IF w \in DOMAIN platter THEN platter[w] ELSE DiskWord(w)

-----------------------------------------------------------------------------
(* What the guest reads of the devices. *)

If(b, n) == IF b THEN n ELSE 0

ErrorBits == [NXD |-> \o100200, NXC |-> \o100100, NXS |-> \o100040, OVR |-> \o40000]

diskRegisters ==
  (\o777400 :> (\o4600 + If(ready, 64))) @@
  (\o777402 :> FoldSet(LAMBDA e, w : Or(ErrorBits[e], w), 0, err)) @@
  (\o777404 :> (If(done, 128) + If(ie, 64) + 2 * fn)) @@
  (\o777406 :> Cut(2, -wc)) @@
  (\o777412 :> rkda)

consoleRegisters ==
  (\o777560 :> (If(rdone, 128) + If(rie, 64))) @@
  (\o777562 :> rbuf) @@
  (\o777564 :> (If(xready, 128) + If(xie, 64))) @@
  (\o777566 :> 0)

printerRegisters == (\o777514 :> lps) @@ (\o777516 :> 0)

clockRegisters == \o777546 :> csr

registers == diskRegisters @@ consoleRegisters @@ printerRegisters @@ clockRegisters

-----------------------------------------------------------------------------
(* Accesses to devices, in their order. *)

Accessing == c.log # <<>> /\ ~c.dead
access == Head(c.log)
Accessed == c' = [c EXCEPT !.log = Tail(@)] /\ UNCHANGED <<phase, itab, platter, seen>>

\* Reads with an effect: RBUF's alone.
Read ==
  /\ Accessing /\ ~access.wr /\ Accessed
  /\ IF access.at = \o777562 THEN KL!FetchRBUF
     ELSE UNCHANGED console
  /\ UNCHANGED <<disk, others>>

WriteDisk(v) ==
  /\ \/ /\ access.at = \o777404
        /\ go' = Bit(v, 0) /\ fn' = (v \div 2) % 8 /\ ie' = Bit(v, 6)
        /\ RK!WriteRKCS
     \/ access.at = \o777406 /\ wc' = Cut(2, -v) /\ RK!WriteRKWC
     \/ access.at = \o777410 /\ ba' = v /\ RK!WriteRKBA
     \/ /\ access.at = \o777412
        /\ da' = [drive |-> v \div 8192, cyl |-> (v \div 32) % 256,
                  surf |-> (v \div 16) % 2, sec |-> v % 16]
        /\ RK!WriteRKDA
  /\ rkda' = IF access.at = \o777412 THEN v ELSE rkda
  /\ UNCHANGED <<console, lps, csr>>

WriteConsole(v) ==
  /\ \/ access.at = \o777560 /\ Bit(v, 6) /\ KL!WriteRCSR
     \/ access.at = \o777562 /\ KL!StoreRBUF
     \/ access.at = \o777564 /\ Bit(v, 6) /\ KL!WriteXCSR
     \/ access.at = \o777566 /\ KL!StoreXBUF(v)
     \/ access.at \in {\o777560, \o777564} /\ ~Bit(v, 6) /\ UNCHANGED console
  /\ UNCHANGED <<disk, others>>

\* LP11: nothing ever calls its poll(), so it stays busy until a reset.
WritePrinter(v) ==
  /\ access.at \in {\o777514, \o777516}
  /\ lps' = IF access.at = \o777516 THEN lps - If(Bit(lps, 7), 128)
            ELSE If(Bit(lps, 7), 128) + If(Bit(v, 6), 64)
  /\ UNCHANGED <<disk, console, rkda, csr>>

WriteClock(v) ==
  /\ access.at = \o777546
  /\ csr' = v
  /\ UNCHANGED <<disk, console, rkda, lps>>

Write ==
  /\ Accessing /\ access.wr /\ Accessed
  /\ \/ WriteDisk(access.v) \/ WriteConsole(access.v)
     \/ WritePrinter(access.v) \/ WriteClock(access.v)

\* unibus.reset()
ResetBus ==
  /\ Accessing /\ access = BusReset /\ Accessed
  /\ KL!ClearTerminal /\ RK!BusReset
  /\ rkda' = 0 /\ csr' = 0 /\ lps' = ResetLPS

-----------------------------------------------------------------------------
(* The run loop. *)

Running(p) == Live(c) /\ c.log = <<>> /\ phase = p

Step ==
  /\ Running("step")
  /\ \E u \in BOOLEAN :
       c' = [step(u, [c EXCEPT !.io = registers @@ @]) EXCEPT !.val = 0]
  /\ phase' = "check"
  /\ UNCHANGED <<itab, disk, platter, console, others, seen>>

\* longjmp() to loop(), from wherever.
TakeFault ==
  /\ c.trap # 0 /\ ~c.dead /\ c.log = <<>>
  /\ c' = [trapat(c.trap, [c EXCEPT !.trap = 0]) EXCEPT !.val = 0]
  /\ phase' = "step"
  /\ UNCHANGED <<itab, disk, platter, console, others, seen>>

Pending == ~Free(itab, 0) /\ itab[0].pri >= (c.psw \div 32) % 8

CheckNothing ==
  /\ Running("check") /\ ~Pending
  /\ phase' = "disk"
  /\ UNCHANGED <<c, itab, disk, platter, console, others, seen>>

\* Faulty variant: popirq() is not called.
TakeInterruptNoPop ==
  /\ Running("check") /\ Pending
  /\ c' = [trapat(itab[0].vec, c) EXCEPT !.val = 0]
  /\ phase' = "step"
  /\ UNCHANGED <<itab, disk, platter, console, others, seen>>

\* A fault in trapat() passes popirq() by.
TakeInterrupt ==
  /\ Running("check") /\ Pending
  /\ c' = [trapat(itab[0].vec, c) EXCEPT !.val = 0]
  /\ itab' = IF Live(c') THEN Popped(itab) ELSE itab
  /\ phase' = "step"
  /\ UNCHANGED <<disk, platter, console, others, seen>>

\* interrupt(): the full table aborts.
Schedule(vec, pri) ==
  LET e == [vec |-> vec, pri |-> pri]
  IN  \E i \in 0 .. NSlots :
        /\ Lands(itab, e, i)
        /\ IF i = NSlots THEN c' = Die(c) /\ UNCHANGED itab
           ELSE itab' = Filed(itab, e, i) /\ UNCHANGED c

DiskIdle == ~go /\ UNCHANGED <<c, itab, disk, platter, rkda>>

\* A step that calls interrupt().
DiskReports ==
  /\ go
  /\ (ie /\ RK!Finish) \/ RK!Seek
  /\ Schedule(\o220, 5)
  /\ UNCHANGED <<platter, rkda>>

\* The bus traps out of step(), or asserts.
DiskFaults ==
  /\ go /\ RK!OddAddress
  /\ c' = IF fn = 1 THEN Die(c) ELSE Trap(INTBUS, c)
  /\ UNCHANGED <<itab, platter, rkda>>

\* Any other step; words may go from memory to the disk (1) or to memory.
DiskWorks ==
  /\ go
  /\ \/ fn = 0 /\ RK!Reset
     \/ ~ie /\ RK!Finish
     \/ RK!Refused \/ RK!MoveSector \/ RK!Ignored
  /\ IF fn = 1
     THEN /\ platter' = FoldSet(LAMBDA m, f : Stored(m[1], At(c.core, m[2]), f),
                                platter, moved')
          /\ UNCHANGED c
     ELSE /\ c' = [c EXCEPT !.core =
                     FoldSet(LAMBDA m, f : Stored(m[2], Sector(m[1]), f), @, moved')]
          /\ UNCHANGED platter
  /\ rkda' = IF fn = 0 THEN 0 ELSE rkda
  /\ UNCHANGED itab

\* cpu.unibus.rk11.step()
DiskStep ==
  /\ Running("disk")
  /\ DiskIdle \/ DiskReports \/ DiskFaults \/ DiskWorks
  /\ phase' = "console"
  /\ UNCHANGED <<console, lps, csr, seen>>

\* A statement of cpu.unibus.cons.poll().
ConsoleStep ==
  /\ Running("console")
  /\ KL!Poll
  /\ printed' = printed \o shown'
  /\ IF "TTYIN" \in irqs' THEN Schedule(\o60, 4)
     ELSE IF "TTYOUT" \in irqs' THEN Schedule(\o64, 4)
     ELSE UNCHANGED <<c, itab>>
  /\ phase' = IF at' = "guest" THEN "step" ELSE "console"
  /\ UNCHANGED <<disk, platter, others, typed, ticks>>

-----------------------------------------------------------------------------
(* The world.  A signal handler runs between any two steps of the thread.  *)

PressKey ==
  /\ ~c.dead /\ Len(typed) < MaxTyped
  /\ KL!PressKey
  /\ typed' = Append(typed, tty'[Len(tty')])
  /\ UNCHANGED <<c, phase, itab, disk, platter, others, printed, ticks>>

Sigio ==
  /\ ~c.dead /\ KL!Sigio
  /\ UNCHANGED <<c, phase, itab, disk, platter, others, seen>>

\* KW11::tick()
Tick ==
  /\ ~c.dead /\ ticks < MaxTicks
  /\ ticks' = ticks + 1
  /\ csr' = csr + If(~Bit(csr, 7), 128)
  /\ IF Bit(csr, 6) THEN Schedule(\o100, 6) ELSE UNCHANGED <<c, itab>>
  /\ UNCHANGED <<phase, disk, console, platter, rkda, lps, typed, printed>>

-----------------------------------------------------------------------------

Thread ==
  \/ Read \/ Write \/ ResetBus
  \/ Step \/ TakeFault \/ CheckNothing \/ TakeInterrupt
  \/ DiskStep \/ ConsoleStep

Next == Thread \/ PressKey \/ Sigio \/ Tick

Spec == Init /\ [][Next]_vars

(***************************************************************************)
(* Nothing blocks the thread (the clock ends WAIT), and a pending signal   *)
(* is delivered.  This is WF_vars(Thread) and WF_vars(Sigio) with ENABLED  *)
(* spelled out, which TLC evaluates much faster.                           *)
(***************************************************************************)
FairSpec ==
  /\ Spec
  /\ []<>c.dead \/ []<><<Thread>>_vars
  /\ []<>(c.dead \/ ~sigio) \/ []<><<Sigio>>_vars

-----------------------------------------------------------------------------

BootStart == \o2002

\* The boot ROM has handed over: block 0 is at address 0, the disk idle.
Booted ==
  /\ c.R[7] = 0 /\ phase = "check" /\ ~go
  /\ \A k \in 0 .. 511 : At(c.core, 2 * k) = DiskWord(k)

TestStart == \o1400
TestBuffer == \o3400
TestWords == 2

\* A program that writes its first words to the disk has read them back, and
\* halted.
ReadBack ==
  /\ c.dead /\ ~go
  /\ \A k \in 0 .. TestWords - 1 :
       At(c.core, TestBuffer + 2 * k) = At(c.core, TestStart + 2 * k)

(***************************************************************************)
(* Programs that wait for DONE, which setting GO leaves set, get from the  *)
(* disk what they ask for, and end: the boot ROM, which loads the first    *)
(* two sectors and jumps to them, and a test that writes and reads, after  *)
(* commands that fail, with interrupts from the disk and the clock.        *)
(***************************************************************************)
DiskServes ==
  /\ c.R[7] = BootStart => <>Booted
  /\ c.R[7] = TestStart => <>ReadBack

EchoStart == \o1000

\* What a terminal shows of a line of bytes: no NUL, seven bits.
Echo(s) == SelectSeq([k \in DOMAIN s |-> s[k] % 128], LAMBDA b : b # 0)

(***************************************************************************)
(* A program that sends on what it receives, by polling DONE or from the   *)
(* receiver's interrupt, and never asks for READY: the terminal shows what *)
(* was typed, each key once and in order, up to a key the console forgets. *)
(* Handlers run at a priority above 4: at 4, loop0()'s >= would let one     *)
(* interrupt itself, and a key be shown twice.                             *)
(***************************************************************************)
TypedIsEchoed ==
  c.R[7] = EchoStart =>
    /\ []IsPrefix(printed, Echo(typed))
    /\ []<>(printed = Echo(typed) \/ KL!Forgotten)

=============================================================================
