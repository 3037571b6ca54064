# A verification of the PDP-11 emulator

This directory holds TLA+ models of the emulator in `src/`, the TLC runs that
check them on small instances, and theorems about them that TLAPS has checked.
`PROJECT.json` lists the components, runs, findings, hazards and theorems, and
maps every definition of the models to the lines it was translated from.

## The system

The program is one thread and two signal handlers. `main()` calls `loop()` for
ever; `loop()` marks the place a fault comes back to (`setjmp`) and calls
`loop0()`, which repeats: one guest instruction, the interrupt check, one step
of the disk, one poll of the console. A fault anywhere leaves by `longjmp`;
`loop()` then calls `trapat()`. Everything is shared by address: the devices
call `cpu.interrupt()`, the CPU reaches the devices through `UNIBUS`.

| Part | State | Operations | What is hard |
|---|---|---|---|
| run loop (`avr11.cc`) | none of its own, the jump buffer | `loop`, `loop0`, `trap` | what `longjmp` skips; the order of the four calls |
| interrupt table (`kb11.cc:700-740`) | `itab`, 8 slots | `interrupt`, `popirq`, the check in `loop0` | called by the thread and by the SIGALRM handler, with no exclusion |
| line clock (`kw11.cc`) | `csr` | `tick` (SIGALRM, every 20 ms), register access | runs between any two memory accesses of the thread |
| instruction decoding (`kb11.cc:357-698`) | none | `step` | two decoders, the other in `disasm.cc` |
| modes and PSW (`kb11.h`, `kb11.cc`) | `PSW`, `R[6]`, `stackpointer` | `writePSW`, `kernelmode`, `trapat`, `RTT`, SPL, CLR CC, SET CC, MFPI, MTPI | one R6 stands for four; faults in the middle of a trap |
| operands (`kb11.h:83-202`) | `R` | `DA`, `SS`, `fetchOperand`, `read`, `write` | register changes before an access that faults; registers aliased with addresses |
| arithmetic (`kb11.h`, `kb11.cc`) | `R`, flags | one function for each instruction | flags at the boundaries |
| MMU (`kt11.h`, `kt11.cc`) | page registers, `SR` | `decode`, register access | the order of its tests; segments that grow down |
| bus (`unibus.cc`) | `core` | `read16`, `write16`, `reset` | reads and writes disagree on odd addresses |
| disk (`rk11.cc`) | seven registers and the unpacked disk address | register access, `step` | a transfer spread over many steps; errors that never report |
| console (`kl11.cc`) | four registers, `count`, `keypressed` | register access, `poll`, SIGIO handler | the handler and `poll` share `keypressed` |
| printer (`lp11.cc`), paper tape (`pc11.cc`) | registers | register access; `LP11::poll` | nothing calls `LP11::poll`, and the bus does not know the paper tape |
| boot ROM (`bootrom.h`) | two guest programs | | drives the disk and the console by polling |
| disassembler (`disasm.cc`), build | a table | `disasm` | must decode as `step` does |

What makes each part correct:

* interrupt table: no access leaves it; nothing hides behind a free first slot
  (it may, see the end of this file); only an entry the processor
  priority admits is taken; what is scheduled is delivered once; a waiting entry
  is served.
* modes: each mode has a stack pointer of its own; instructions that set one
  field of the PSW leave the others alone.
* MMU: an access ends inside the window of its page or faults, and faults
  nowhere else; W bits tell the truth to the kernel.
* disk: the right words move between the right places, and the guest learns
  when, once.
* console: characters arrive in order, each once; the transmitter returns.
* operands and arithmetic: results and flags of the processor handbook; an
  instruction that faults can be restarted; a store reaches its byte or word and
  no other; calls and traps return to the state they left.
* decoding: a trace names the instruction that is executed.
* the whole: a program gets from the disk what it asked for, and each key that
  is typed comes out once, in order.

## The modules

| Module | Models | Notes |
|---|---|---|
| `IrqTable` | `itab` and one uninterrupted call of `interrupt()` or `popirq()` | operators only |
| `IrqTableSpec` | the table whose calls are atomic | abstract specification |
| `Dispatch` | run loop, `interrupt()` and `popirq()` one table access at a time, the SIGALRM handler at any point | implements `IrqTableSpec` while the clock is disabled |
| `DispatchHistory` | `Dispatch` with a count of the interrupts each device is owed | the history is read by no action |
| `PSW` | the status word and the words made from it; stack addresses | operators only |
| `ModeStacks` | a stack pointer for each mode | abstract specification |
| `KB11Modes` | R6, the save slots, and every operation on the PSW | implements `ModeStacks` |
| `KT11` | `decode()` and the page registers | |
| `RKBlocks` | a transfer of consecutive words | abstract specification |
| `RK11` | the disk controller | implements `RKBlocks` |
| `TTY` | a character stream each way | abstract specification |
| `KL11` | the console, `poll()` by statements, with the SIGIO handler | implements `TTY` |
| `ALU` | what each arithmetic instruction does to registers and condition codes; the branches | operators only |
| `Arithmetic` | a program of any such instructions | |
| `Decoder` | the switch of `step()`, and the disassembler's table | operators only |
| `Operand` | the bus, `read16` and `write16`, addressing modes, stack, register aliases | operators on the state of the processor |
| `KB11` | each instruction from its fetch to its end, and `trapat()` | composes `Decoder`, `Operand`, `ALU` |
| `Processor` | instructions one after the other, with the run loop's answer to traps | |
| `Machine` | the emulator: `KB11`, memory, `IrqTable`, `RK11`, `KL11`, the printer, the clock, under the run loop | composes all of these |
| `Programs` | `bootrom.h`, and two guest programs that use interrupts | data for `MCMachine` |
| `MC...` | instances for TLC | |
| `..._proofs` | theorems | |

A definition marked *faulty variant* is not part of a model: it is what a
plausible slip in the code would make of the definition after it, and each
property of a passing run is violated when one of them is put in its place.

### How state and actions correspond to the code

`Dispatch`. `pc` names the next access of the thread; every value of it is a
line of `loop0()`, `interrupt()` or `popirq()`, and `i`, `j`, `reg`, `todo`,
`held`, `buf` are the locals of the two functions, the registers of the compiled
code among them. `itab` is not `volatile` or atomic, so its accesses race with
the handler and their outcome is whatever the compiler's code does: `CopyStore`
goes on with the value it holds or loads it again, and `popirq()` moves its
slots one by one in any order in which none is overwritten before it has been
loaded: that of the source, and those of a `memmove`, which g++ -O2 makes of the
loop. `todo` is what it has not loaded, `held` what it has loaded and not
stored. A slot of two bytes is loaded and stored in one access, and once: a
`memmove` that moves some bytes twice, in loads that overlap, is not among the
orders. The handler's call runs to its end before the thread goes on, so `Tick`
is one step. The guest is the environment: `Step` may leave any priority, enable
or disable the clock, wait, fault, or halt. A fault in `trapat()` comes back to
`loop()` without `popirq()`: `TakeInterrupt` has both outcomes.

`KB11Modes`. A word popped from a stack is any word, since the guest wrote it.
`Execute` is every instruction that leaves the upper fields of the PSW alone; it
may move R6, and may fault. `FaultInTrap` is a `trapat()` that a fault cuts
short after one push or two: `trapat()` then starts again in kernel mode, and
the PSW it was about to push is lost. The T bit and bits 8-11, which nothing
reads, are left out.

`KT11`. A virtual address is the page, block and displacement that `decode()`
takes from it with shifts and masks, a bus address its block and displacement;
the sum of block numbers is kept whole, as in the code. `last` remembers one
access, `written` and `loadedW` what the W bits are compared with. SR0 holds the
reason, the page and whether the mode was the kernel's, of the last fault: each
fault overwrites it, and a read, a load of another register or a good access
does not. Nothing in the source asks for more, so no property is about it.

`RK11`. One action of `Step` for each path through `RK11::step()`, a sector for
each call. `wc` is the number of words left, which RKWC holds negated. `moved`
holds the pairs of disk word and bus address of the last step, in place of the
words themselves. `raised` counts the interrupts since the last write to RKCS,
up to 2. Reads of registers change nothing, except that reading RKBA (or a
register that does not exist) aborts. Function 3, which the hardware uses to
compare, is treated as a read by the code and so by the model. `ImageEnds` is the
assertion of `fread()` and `fwrite()` (`rk11.cc:123`, `rk11.cc:126`), which fails
on an image shorter than the disk; `Machine` has a whole image, and no such step.

`KL11`. `at` is the statement `poll()` is at. `PressKey` and `Sigio` may come at
any of them. The guest acts between polls, and waits for DONE and READY before
it reads or sends. `ClearTerminal` is the RESET instruction, and `cleared` is TRUE
after it and no other action: `TTY` takes its `Reset` for those steps only.

`ALU`. An operator for each instruction takes the state before, a record of
registers and condition codes, and gives the state after; `l` is the template
parameter of the source, the length. The source operand has been fetched and the
destination is a register, where `write<1>()` does something of its own: it
or-s the value in under the high byte, bits beyond the byte with it. Words are
as wide as the constants make them. `ASH` and `ASHC` shift by -1 for the carry of
some counts, and an `int` to the right by 32 for the count -32, both of them;
C++ leaves these undefined, and the parameter `u` chooses. The
operators, with the widths of the source, were compared with the compiled
functions on some 3,500 vectors before they were used. `Arithmetic` runs the
instructions in any order; its invariants ask what the next few would do in each
state it reaches.

`Operand` and `KB11`. The state of the processor is one record `c`, and every
operator gives the state after: `push(v, c)`, `fetchOperand(l, s, c)`. A value
read is left in `c.val`. `trap()` sets `c.trap` and `abort()` sets `c.dead`, and
from then on an operator changes nothing, as code after a `longjmp` is not run;
so an instruction is the composition of its accesses in the order of the code.
An access to a device goes into `c.log`, and finds in `c.io` what the device
holds. The memory management is a page table that says where a page is and what
may be done with it (`KT11` has the unit in full, a length error acts as any
other). `ALU` computes on a register `Dst` that stands for the destination.
`printstate()` before a write to 0140000 reads the word at PC, which may fault:
that is `Watch`; the same before a read of 0777772 is left out, as are the reads
of the operands it prints.

These operators, with words of 16 bits, were compared with the compiled
emulator: some 6,400 states with a random instruction, registers, codes, pages
and memory were run through both. ASH and ASHC were left out there, since
their undefined shifts come out one way in a build and `u` allows both.

`Processor`. `Step` is `step()`, `TakeTrap` the second half of `loop()`. The
properties say what an instruction demands of its operands in the words of the
handbook (`Demands`, `Moves`), and compare registers and memory with that.

`Machine`. `phase` is the next of the four calls in `loop0()`. The accesses an
instruction logged are performed by the devices one after the other (`Read`,
`Write`, `ResetBus`) before the interrupt check; what it reads of a device is
what the device held when it began, which differs only for an instruction that
reads a register it has just written. `interrupt()` and `popirq()` are one step
each. `RK11` and `KL11` are instances with the variables of the same names:
`Machine` conjoins their actions with the words moved and the entry filed. `ErrorBits`
and the `...Registers` are the register images of the devices. `WAIT` is a step
that does nothing: `pause()` ends with the next tick. The guest does not write
the registers of the memory management, nor read RKBA, which aborts.

## The runs

| Run | Module | Shows |
|---|---|---|
| `dispatch` | `MCDispatch` | `TypeOK`, `TakenOutranksCpu`; `CallsAreAtomic`: refinement of `IrqTableSpec` while the clock is disabled; `OnlyPopStrands`: an entry gets behind a free slot only by the handler's call while `popirq()` holds a slot; `PendingIsServed`: all others are taken |
| `modes` | `MCKB11Modes` | `TypeOK`, `BanksAreStacks`: refinement of `ModeStacks` |
| `mmu` | `MCKT11` | `TypeOK`, `Confined`, `WrittenIsMarked`, `OnlyOutsideFaults`: what lies inside the window of a readable page does not fault |
| `disk` | `MCRK11` | `TypeOK`, `OnTheDisk`: only words of a sector RKDA names and the disk has; `TransferInterruptsOnce`, `MovesBlocks` (refinement of `RKBlocks`), `TransferFinishes` |
| `console` | `MCKL11` | `TypeOK`, `IsATTY` (refinement of `TTY`: characters are lost in `clearterminal()` only), `OnlyTheRaceForgets`, `TransmitterReturns`, `WaitingIsRead` |
| `arithmetic` | `MCArithmetic` | `TypeOK`, `AgreesWithHandbook`, `BranchesDecide`, `FlagsTellResult`, `HighByteStays`, `SumsCarry`, `DifferencesBorrow`, `ProductsDivide` |
| `processor` | `MCProcessor` | `TypeOK`; `FaultsAreRecoverable`, `OperandsMoveOnce`, `BytesStay`, `StoresAreLoaded`: what an operand may change; `CallsReturn`, `TrapsReturn`: RTS undoes JSR and RTT a trap; `TrapIsTaken`; `DisassemblerAgrees`, for all 65536 words |
| `machine` | `MCMachine` | `DiskServes`: the boot ROM and a disk test get their words; `TypedIsEchoed`: by polling and by interrupts |

Four runs end in a violation, each of something the source says of itself:

| Run | Source says | The code does |
|---|---|---|
| `history_race` | "interrupt schedules an interrupt." (`kb11.h:16`) | a clock interrupt filed between `popirq()`'s load and store is overwritten |
| `history_full` | "interrupt table full" (`kb11.cc:723`) | `interrupt()` fills every later slot with copies of one entry, so the table is full with three interrupts outstanding |
| `user_return` | "keep SPL and allow lower only for modes and register set" (`kb11.cc:314`) | the mask that follows is the identity |
| `mmu_readonly` | "write to read-only page" (`kt11.h:26`) | `write()` is `pdr & 6`, which reading satisfies (`kt11.h:74`): the page is written to; only pages that cannot be read either are refused |

### Bounds, and why they are enough

* `dispatch`: 4 slots for 8, four devices with the vectors and priorities of the
  source, priorities 0, 4, 6. Four slots hold an entry before, at and after the
  place an insertion makes room, and fill up, so the copying loop runs more than
  once and the table overflows; 4 and 6 mask none, or all but the clock, and 0
  admits all. Every order of `popirq()`'s three moves is taken. The safety
  properties are proved for every size and order.
* `history_*`: 8 slots and, where `popirq()` matters, the order of its loop
  (`InSourceOrder`), so that the traces are the program's.
* `modes`: the three legal modes, priorities 0 and 7, one condition code, a
  stack of 3 words (so that it wraps). Two modes are enough to mix up a pair of
  slots; the third is neither the old nor the new one. Proved for every size.
* `mmu`: kernel and user mode with one page each, of 2 blocks, bases 0 and 1,
  lengths 0 and 1: windows that touch, overlap and lie apart, in both directions.
  `mmu_readonly` has the same.
  Pages of a mode never interact. Its invariants are proved for every size.
* `disk`: 2 cylinders, 2 surfaces, 2 sectors of 2 words; up to 3 words, so a
  transfer takes one sector or two and ends with a full or a partial one;
  starting points at the end of a track, a cylinder and the disk, and one on
  each thing that does not exist; bus addresses wrap at 6 bytes. The functions
  are reset, write, read, drive reset (the same path as seek) and write lock
  (the same as read check).
* `console`: 2 bytes waiting, a delay of 2 polls for 32, `count` modulo 4 for
  65536; three bytes: NUL, a letter, the same letter with the eighth bit.
* `arithmetic`: one pair of registers, bytes of 2 bits and words of 4, every
  source value: all values of both lengths, so each boundary of the sign, of the
  carry and of the byte in its word is met. All invariants are proved for every
  width.
* `processor`: some 1,600 instructions, at least one of each kind, those with
  operands in every mode with registers of each sort (data, pointer, SP, PC),
  from six states: kernel and user mode, memory management off and on, pointers
  to even and odd addresses, to a page that refuses, to the PSW, to the console,
  to the aliases with page 7 on memory and on devices, codes set and clear. Two
  instructions in a row (`MaxSteps`): the second is what the first left at PC,
  the handler's RTT among them. No state has an odd stack pointer in kernel
  mode: `trapat()` would fault for ever. The invariants and action properties
  are proved for every program.
* `machine`: the four programs of `Programs`, with the real sizes of the disk and
  of words; two keys, one with the eighth bit and none NUL (which is
  never shown, and keeps the transmitter busy for all values of `count`); one tick; `Delay` and `NCount` as in `console`. Keys, the
  signal and the tick come between any two steps of the thread.

### Fairness

* `Dispatch!FairSpec`: the thread runs while it can, since nothing blocks it but
  `pause()`, and the clock ticks, since its timer is periodic. Nothing is
  assumed of a `trapat()` that faults every time, and what `PendingIsServed`
  needs of the guest, that it keeps coming back to priority 0, is its premise.
* `RK11!FairSpec`: `loop0()` calls `RK11::step()` again and again. An interrupt
  after every instruction would keep it from it; the guest's handlers return.
* `KL11!FairSpec`: the same of `KL11::poll()`. Nothing is assumed of the guest
  or of the signal.
* `Processor!FairSpec`: `loop()` answers a trap. `Machine!FairSpec`: the thread
  runs while the program has not ended, and a pending SIGIO is delivered. Nothing
  is assumed of keys and ticks. Both are weak fairness with ENABLED spelled out.

## What is proved

From the assumptions named in the modules (`NSlotsAssumption`,
`DispatchAssumption`, `PSWAssumption`, `KT11Assumption`, `ALUAssumption`,
`RK11Assumption`, `KL11Assumption`, `ProcessorAssumption`), for every value of
the constants:

* `Dispatch_proofs`
  * `TypeCorrect`: `TypeOK` always. It needs `IndexOK`, which relates each `pc`
    to the range of `i` and `j` there: without it `itab[i]` might be anything.
  * `TakenOutranksCpuAlways`: the invariant `HeadInv` adds that slot 0 is used
    between the first and the second of the loop's reads of it, and the lemma
    `HeadOutranks` that the handler replaces the entry there only by one whose
    priority is no lower.
  * `OnlyPopStrandsAlways`: the table `Settled` that the call in progress will
    leave has its free slots last, and only the handler ends that, while
    `popirq()` holds a slot. `StrandInv` says what holds at each `pc` even of a
    table that has a gap: while `interrupt()` copies, the slots before `j` are
    compact (its loop can free a slot the handler has just filled, and goes on to
    free those behind it). `NextGap` goes through the accesses, the handler at
    each of them, from what filing does to a compact table (`FiledCompact`), to a
    prefix of one (`FiledUsed`, `FiledFull`) and to a choice of its slots
    (`FiledChosen`: those `popirq()` has not moved yet). That while a slot is
    held the handler does make gaps is told below.
  * `CallsAreAtomicAlways`: the refinement mapping `Settled` completes the call in
    progress; `Serial` says how far the two searches have come, `SettledAt` that
    every later access leaves the completed table as it is, `MovesSettle` in
    whatever order the moves come. The clock is enabled and disabled by
    instructions only, when no call is in progress, so `Serial` holds whenever it
    is disabled, of a table of any shape.
* `KB11Modes_proofs`
  * `ModesTypeCorrect`, and `BanksAreStacksAlways`: a step of `KB11Modes` is a
    step of `ModeStacks` under the mapping that reads the current mode's stack
    pointer from R6. `WritePSWStacks` is the heart of it: `writePSW()` changes
    the pointer of the mode it leaves and no other.
* `Arithmetic_proofs`, from `ALUAssumption`, for every width: each invariant of
  `Arithmetic` as `Spec => []...`. `ArithmeticTypeCorrect` is the inductive one,
  and the others follow from it: they speak of any state with words in its
  registers.
  * `CompareAndBranch`: the four signed and four unsigned comparisons. The case
    analysis is on the signs of the two numbers, `CompareFlags` the heart of it.
  * `TwoWordSums`, with the exact amount by which the false carry of `ADD` is
    wrong, and `TwoWordDifferences`. The prover does not multiply symbols, so
    the arithmetic of two words has lemmas of its own (`WideMod`, `ModAdd`).
  * `DivisionUndoesProduct`: quotient and remainder are unique (`DivUnique`),
    and the signs of dividend and divisor make the cases. A negative dividend is
    divided without its sign (`NegativeOne`); the divisors and quotients that
    come out wrong are outside its premises, and listed below.
  * `CodesAreTheHandbooks`: the codes are those of the exact result, where it
    fits and where it does not.
  * `FlagsTellWhatIsStored` and `ByteKeepsHighByte`: what `write<1>()` makes of a
    result with a bit beyond the byte.
* `ALU_proofs` has the lemmas these rest on.
  * A word is a sum of weights, chosen from 16. `WordOfItsBits`: the word whose
    bits are those of `v` is `v`, by halving it four times four times (`Halve`,
    `NibbleBits`). From it comes `WordOfUnion`, that or-ing words without a
    common bit adds them, and so what a byte or-ed under a high byte is
    (`OrUnder`, `WrittenValue`).
  * The width appears in powers of 2 only in the shifts: `Powers` enumerates
    them, and `ShiftedFits` bounds what is shifted.
  * `Fits`, `Stores`, `Looks` and `Tells` say of the state after an instruction
    that it is well-typed, which register it differs in, and what its codes
    tell; each instruction has its lemma, of any set of registers.
* `KT11_proofs`
  * `MMUTypeCorrect`; `ConfinedAlways`, from the lemma `MappedInWindow` about the
    arithmetic of `decode()`; `WrittenIsMarkedAlways`; `OnlyOutsideFaultsAlways`,
    from `BeyondWindow`: what the length test refuses lies outside the window.
* `KL11_proofs`, for any set of keys, delay and width of `count`
  * `ConsoleTypeCorrect`; `OnlyTheRaceForgetsAlways`, a case for each action.
  * `IsATTYAlways`: the console implements `TTY`. The mapping makes one line of
    what waits in RBUF and in the terminal, without the eighth bit. It
    needs the invariant `Buffers`: a character waiting to be sent keeps the
    transmitter busy, and `poll()` reads only into an empty receiver. Only
    `ClearTerminal` sets `cleared`, so every other action has to be one of those
    that lose nothing. The lemmas
    `MaskedAppend`, `MaskedTail` and `PrependAppend` say how the line changes.
* `RK11_proofs`, for any geometry of the disk and what memory there is
  * `DiskTypeCorrect`; `TransferInterruptsOnceAlways`, from the invariant
    `NotYetRaised`: while GO is set nothing has been raised.
  * `OnTheDiskAlways`, an action property: words move only when RKDA passes the
    tests of `step()` and only words of that sector. Positions are products of constants, which the prover's
    arithmetic does badly, so `BeforeRow` states the one fact about a row before
    another that is needed, and `WithinCylinders` uses it twice.
  * `MovesBlocksAlways`: the controller implements `RKBlocks`.
    `AfterSectorPosition` shows that the sector after the last of a track or
    cylinder is the next one on the disk.
* `Processor_proofs`: first what operands leave behind, as theorems of the
  operators of `Operand`. The state there is any record with its fields and
  words in its registers, and words have any width.
  * `FaultedWriteKeepsAll` and `FaultedPushMovesSP`: of a write that faults
    nothing is left, of a push that faults only R6 has moved. Each operator from
    `Decode` to `Write16` has a lemma, and the last composes them.
  * `OperandMovesOneRegister`: whatever the mode, what a fault may leave behind
    is one register, moved by as much as the handbook says of the mode. This is the reason why
    `FaultsAreRecoverable` can hold although nothing records the movement.
  * `ReadWordsTakeWrites`: a read-modify-write instruction never faults between
    its two halves. It holds because of what looks like a slip: `write()` of a
    page is true of one that is only readable (`kt11.h`), so `decode<true>` asks
    no more than `decode<false>`. With the handbook's test it would be false, and
    instructions on pages that are only readable would trap halfway, as they
    should. At the
    address where the state is printed it takes a PC that can be read, since the
    printing fetches the instruction again.
  * `BytesOfAWord`: a byte written is read back, and its neighbour stays.

  Then the processor itself, with words of 16 bits (`ProcessorAssumption`), for
  any program, memory, page table and devices, and any number of instructions:
  * `ProcessorTypeCorrect`: `TypeOK` always. Within an instruction the log and
    the value read are not empty, so the invariant is that of a larger set,
    `States`; `Loaded` adds that what was read fits its length unless the
    instruction has ended. Every operator of `Operand` and `KB11` has a lemma
    that it stays in `States`, from `Decode` to `Perform`. The last needs that
    the switch of `step()` has an arm for every word (`OperationTyped`), that the
    PSW stays a word under every way to set its fields (`WordsOfPSW`,
    `ModeMasks`, `LowCodes`), and that the vectors are words (`VectorsOK`).

  From the invariant `TypeOK`, and no other, follow six action properties:
  * `FaultsAreRecoverableAlways`. `PerformArms` makes a case of every arm of the
    switch of `step()`. `Recovered` is the claim about one arm: nothing but
    registers differs, and these by a beginning of the moves that `Demands`
    lists. `Partly` follows the moves from operand to operand. The arms that set
    condition codes before they write are safe only because their write cannot
    fault: they have read the word, and `ReadWordsTakeWrites` applies
    (`StoresFaults`; `PCRead` is the fetch, which makes PC one that can be read).
    The arms that only write set the codes after.
  * `OperandsMoveOnceAlways`. `Completed` is the claim about one arm, `Alters`
    what a write may do: to the register it names, or the one whose alias the
    address is (`Named`), or through the PSW's address to R6 and the slots of
    the other modes (`HasSlot`).
  * `BytesStayAlways`. `OneByte` is the claim; `WriteAtBytes` gets it from
    `BytesOfAWord` for a write in memory, and arms that write words are none of
    length 1.
  * `StoresAreLoadedAlways`. `Found` is the claim: a load in the state after the
    store goes to the same word and finds the value there. `MapsAgain` is why it
    can: a store in memory changes neither the mode nor the page table. That
    what can be written can be read (`WrittenIsReadable`) comes from the same
    slip as `ReadWordsTakeWrites`, and the aliases, the PSW and the devices are
    the addresses where nothing in memory changes.
  * `CallsReturnAlways`. `CallUndone` takes apart what JSR does: the target is
    formed, the linkage register pushed and only then loaded; `PushStores` and
    `PopLoads` find the word pushed, `DownAndUp` R6 where it was.
  * `TrapsReturnAlways`. `trapat()` is two pushes and two changes of mode:
    `Switched` says what `writePSW()` does to R6 and the save slots, `Saved` what
    the two words on the kernel's stack are, `TrapUndone` that RTT takes them off
    in the reverse order and lands in the mode, and on the stack, that was left.

  The last two ask that the words pushed are in memory (`IsMemory`,
  `StackHolds`), as every state of the run has it: an RTS cannot find what was
  pushed into a device register, nor an RTT two words that a page table folds
  into one.

  * `DisassemblerAgreesAlways`: the table against the switch. `Shows` says of a
    piece of the table that the entries of it a word matches all name what
    `step()` executes, so the order of the search does not matter; `Hit` that
    one of them matches. `GroupShows` proves both for entries one step apart,
    from the quotient of the word by that step, `TablesJoined` puts pieces
    together, and `SomeGroup` goes through the switch once more: an operation
    that is not among those the table leaves out has an entry. The switch divides by
    nested powers of 2 (`NestedQuotient`), the table masks the sign bit of
    entries that have byte forms (`LowerQuotient`).

Only model-checked:
* `Machine`: `DiskServes`, `TypedIsEchoed` and the other properties of programs
  that run there, which are about these programs.
* Every liveness property (`TrapIsTaken`, `PendingIsServed`, `TransferFinishes`,
  `TransmitterReturns`, `WaitingIsRead`), since liveness under fairness is beyond
  the prover.

## What else the models taught, without a run of its own

* An entry may wait where the loop does not look. The disk's interrupt is taken;
  `popirq()` loads slot 1, which is free; the handler puts the clock into slot 0,
  before the disk's entry, which its copying loop puts into every later slot;
  `popirq()` stores the free slot over slot 0 and moves the copies down. The clock
  is lost, and the copies wait behind a free slot 0 until an interrupt is filed
  there and removed; then they are taken, though the disk asked only once. With
  the order of the source and 8 slots TLC finds this when asked whether a free
  slot 0 where the loop looks implies an empty table. `OnlyPopStrands` says that
  there is no other way to it.
* Interrupts are filed behind entries of a lower priority: the second search
  goes on by vector from where the first stopped, so a clock entry (6) may wait
  behind the console's (4), and while the processor is at 5 neither is taken.
* An error in a transfer (`rk11.cc:66-77`) and an overrun (`rk11.cc:141`) leave
  GO set with neither DONE nor an interrupt, and a transfer that needs the last
  sector always ends as an overrun: `Proper` in `RK11` excludes both.
* GO does not clear DONE. When an interrupt is taken right after the guest sets
  GO, its handler still sees DONE from the command before.
* SR2, which the kernel needs to restart an instruction, is never set
  (`kt11.h:23`): a kernel has only the stacked PC and the instruction.
* Restarting works but for RTS, MARK, RTI and RTT: when their pop faults, the PC
  is gone already (`kb11.cc:299`, `kb11.cc:310`).
* The addresses 0170000 to 0170007 are registers as destinations, memory or
  devices as sources of MOV and the like (`kb11.h:130`): a load does not find
  what a store to the same address left.
* A fault inside `trapat()` starts it again in kernel mode: the user's PSW is
  lost, though the handler is reached. With an odd kernel SP it faults for ever;
  with SP 0 the PSW is pushed into the PSW.
* `loop0()` takes an interrupt whose priority equals the processor's
  (`avr11.cc:56`), so a handler at its device's own priority is interrupted by
  the next one of that device; an echo written so shows a key twice. The handlers
  of `Programs` run one higher or mask.
* A key that came in before the receiver's interrupt was enabled never
  interrupts; the program has to look at DONE once itself.
* The disassembler shows words it does not know, XOR and the condition code
  instructions among them, as HALT; its "???" (`disasm.cc:154`) is unreachable.
* `LP11::poll()` has no caller: nothing is printed, and a program that waits for
  the printer waits for ever.
* CLR CC keeps at most the low four bits of the PSW (`kb11.cc:413`): it clears
  mode, previous mode and priority, and 000240, a NOP, does.
* A seek or drive reset, "complete immediately" (`rk11.cc:85`), leaves GO set:
  it is done again, with an interrupt, at every step until the guest writes RKCS.
* A NUL sent to the console keeps the transmitter busy for 65536 polls
  (`kl11.cc:72-78`), `TransmitterReturns` notwithstanding.
* A key pressed while `poll()` finds nothing to read waits for the next key.
* The interrupt enable bits of the console cannot be cleared but by a reset.
* The instructions that `AgreesWithHandbook`, `FlagsTellResult` and
  `HighByteStays` leave out depart from what they promise:
  * `ADD` sets C at a sum of 0xFFFF already (`kb11.cc:70`); `SUB` takes V from
    the sign of the minuend, so sets it where there is no overflow and not where
    there is (`kb11.cc:83`); `SBC` leaves C set unless it borrowed; `ADC` and
    `SBC` of a byte compare it with constants of a word for V and C;
  * `DEC` sets V of the result INC should (`setNZV`); `COM` inverts N; `SWAB`
    takes Z from the high byte; `MUL` sets N of 0, and C always;
  * `ROR` puts the carry above the sign bit: a word loses it, a byte's lands in
    the high byte, which `COMB` and `INCB` of all ones spoil too; `ASR` sets V
    whenever the sign or the bit shifted out is 1;
  * `DIV` takes the divisor as unsigned, sets V of a zero dividend and not of a
    quotient that is too negative.

## What is not modelled, and why

* `PC11`: the bus has no path to it, so none of its operations is ever called.
* The formatting of `disasm()` and `printstate()`, and the debug switch `print`:
  text, with no effect but the read named under `Operand`.
* Start-up: terminal settings, opening the disk file, installing the handlers.
* The set-up of the timer: it is the reason for the fairness of the clock.
* Loads of the memory management's registers are in `KT11` and not in `Machine`,
  whose programs run with it off; `Processor` runs with it on.
* The build files: what the optimisation level makes of `popirq()` is one of the
  orders of `Dispatch`.
* Beyond the prover: liveness, which needs ENABLED.
