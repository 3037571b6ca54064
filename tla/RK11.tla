-------------------------------- MODULE RK11 --------------------------------
(***************************************************************************)
(* The RK11 disk controller with one RK05 drive (rk11.cc).  The guest      *)
(* writes the registers; the run loop calls step() once for each           *)
(* instruction that no interrupt cuts short.  A step of a transfer moves a *)
(* sector; the step after the last one reports completion.                 *)
(*                                                                         *)
(* RKWC counts up to zero: wc is the number of words that are left.        *)
(***************************************************************************)
EXTENDS Naturals, FiniteSets

CONSTANTS
  Functions,    \* the functions the guest asks for, of 0 .. 7
  Starts,       \* the disk addresses it loads
  LastCylinder, \* 0312 in the source
  LastSector,   \* 013 in the source
  SectorWords,  \* 256 in the source
  Addresses,    \* the bus addresses it starts transfers at
  NBytes,       \* RKBA is counted modulo NBytes (2^16 in the source)
  MaxCount      \* the largest number of words it asks for

ASSUME RK11Assumption ==
  /\ Functions \subseteq 0 .. 7
  /\ LastCylinder \in Nat /\ LastSector \in Nat
  /\ Starts \subseteq [drive : Nat, cyl : Nat, surf : 0 .. 1, sec : Nat]
  /\ SectorWords \in Nat \ {0} /\ NBytes \in Nat \ {0} /\ MaxCount \in Nat
  /\ Addresses \subseteq 0 .. NBytes - 1

VARIABLES
  go, fn, ie, done,  \* bits 0, 1-3, 6 and 7 of RKCS
  ready,             \* bit 6 of RKDS
  err,               \* the errors in RKER
  wc, ba,            \* RKWC, RKBA
  da,                \* drive, cylinder, surface and sector
  meddled,           \* the guest wrote a register while GO was set
  raised,            \* interrupts since GO was set, counted up to 2
  moved,             \* the pairs <<disk word, address>> the last step moved
  alive              \* the emulator has not aborted

rkcs == <<go, fn, ie, done>>
vars == <<go, fn, ie, done, ready, err, wc, ba, da, meddled, raised, moved, alive>>

Transfers == {1, 2, 3}  \* write, read, check

Errors == {"NXD", "NXC", "NXS", "OVR"}

Origin == [drive |-> 0, cyl |-> 0, surf |-> 0, sec |-> 0]

\* reset(), also function 0 and the RESET instruction.
Reset ==
  /\ go' = FALSE /\ fn' = 0 /\ ie' = FALSE /\ done' = TRUE
  /\ ready' = TRUE /\ err' = {}
  /\ wc' = 0 /\ ba' = 0 /\ da' = Origin
  /\ meddled' = FALSE /\ raised' = 0 /\ moved' = {} /\ UNCHANGED alive

\* KB11::reset() resets the bus before the first instruction.
Init ==
  /\ go = FALSE /\ fn = 0 /\ ie = FALSE /\ done = TRUE
  /\ ready = TRUE /\ err = {}
  /\ wc = 0 /\ ba = 0 /\ da = Origin
  /\ meddled = FALSE /\ raised = 0 /\ moved = {} /\ alive = TRUE

-----------------------------------------------------------------------------
(* The guest. *)

BusReset == alive /\ Reset

\* A program may write the registers at any time, also between two sectors.
GuestWrites == alive /\ meddled' = go /\ moved' = {}

\* GO does not clear DONE, which is read only.
WriteRKCS ==
  /\ GuestWrites
  /\ go' \in BOOLEAN /\ fn' \in Functions /\ ie' \in BOOLEAN
  /\ raised' = 0
  /\ UNCHANGED <<done, ready, err, wc, ba, da, alive>>

WriteRKWC ==
  /\ GuestWrites
  /\ wc' \in 0 .. MaxCount
  /\ UNCHANGED <<rkcs, ready, err, ba, da, raised, alive>>

WriteRKBA ==
  /\ GuestWrites
  /\ ba' \in Addresses
  /\ UNCHANGED <<rkcs, ready, err, wc, da, raised, alive>>

WriteRKDA ==
  /\ GuestWrites
  /\ da' \in Starts
  /\ UNCHANGED <<rkcs, ready, err, wc, ba, raised, alive>>

\* RKBA cannot be read: read16() aborts.
ReadRKBA ==
  /\ alive /\ alive' = FALSE /\ moved' = {}
  /\ UNCHANGED <<rkcs, ready, err, wc, ba, da, meddled, raised>>

-----------------------------------------------------------------------------
(* step(), when GO is set. *)

Interrupted == raised' = IF raised < 2 THEN raised + 1 ELSE raised

\* Faulty variant: one cylinder too many is let through.
RefusalOffByOne ==
  IF da.drive # 0 THEN {"NXD"}
  ELSE IF da.cyl > LastCylinder + 1 THEN {"NXC"}
  ELSE IF da.sec > LastSector THEN {"NXS"}
  ELSE {}

\* Faulty variant: there is no test of the sector.
RefusalNoSector ==
  IF da.drive # 0 THEN {"NXD"}
  ELSE IF da.cyl > LastCylinder THEN {"NXC"}
  ELSE {}

\* What stops a transfer before it starts: the first of these that holds.
\* GO stays set, and neither DONE nor an interrupt tells the guest.
Refusal ==
  IF da.drive # 0 THEN {"NXD"}
  ELSE IF da.cyl > LastCylinder THEN {"NXC"}
  ELSE IF da.sec > LastSector THEN {"NXS"}
  ELSE {}

Refused ==
  /\ fn \in Transfers /\ Refusal # {}
  /\ err' = err \cup Refusal
  /\ moved' = {}
  /\ UNCHANGED <<rkcs, ready, wc, ba, da, meddled, raised, alive>>

\* The word seek() goes to for a disk address.
PositionOf(a) ==
  ((a.cyl * 2 + a.surf) * (LastSector + 1) + a.sec) * SectorWords

Position == PositionOf(da)

\* Faulty variant: the surface is not reset at the end of a cylinder.
AfterSectorSameSurface ==
  IF da.sec < LastSector THEN [da EXCEPT !.sec = @ + 1]
  ELSE IF da.surf = 0 THEN [da EXCEPT !.sec = 0, !.surf = 1]
  ELSE [da EXCEPT !.sec = 0, !.cyl = @ + 1]

\* The address after a sector: the next sector, surface or cylinder.
AfterSector ==
  IF da.sec < LastSector THEN [da EXCEPT !.sec = @ + 1]
  ELSE IF da.surf = 0 THEN [da EXCEPT !.sec = 0, !.surf = 1]
  ELSE [da EXCEPT !.sec = 0, !.surf = 0, !.cyl = @ + 1]

\* The loop of readwrite(): a sector's words, or those that are left.
Chunk == IF wc < SectorWords THEN wc ELSE SectorWords

MoveSector ==
  /\ fn \in Transfers /\ Refusal = {} /\ wc > 0 /\ ba % 2 = 0
  /\ done' = FALSE /\ ready' = FALSE
  /\ moved' = {<<Position + k, (ba + 2 * k) % NBytes>> : k \in 0 .. Chunk - 1}
  /\ ba' = (ba + 2 * Chunk) % NBytes
  /\ wc' = wc - Chunk
  /\ da' = AfterSector
  /\ err' = IF AfterSector.cyl > LastCylinder THEN err \cup {"OVR"} ELSE err
  /\ UNCHANGED <<go, fn, ie, meddled, raised, alive>>

\* An odd address: the bus traps a read from the disk, which GO then retries
\* at every step; on a write to the disk read16() of the bus asserts.
OddAddress ==
  /\ fn \in Transfers /\ Refusal = {} /\ wc > 0 /\ ba % 2 = 1
  /\ done' = FALSE /\ ready' = FALSE
  /\ alive' = (fn # 1)
  /\ moved' = {}
  /\ UNCHANGED <<go, fn, ie, err, wc, ba, da, meddled, raised>>

\* The file is shorter than the disk, or cannot be written: an assertion fails
\* at one of the sector's words, and the registers are gone with the emulator.
ImageEnds ==
  /\ fn \in Transfers /\ Refusal = {} /\ wc > 0 /\ ba % 2 = 0
  /\ alive' = FALSE
  /\ moved' = {}
  /\ UNCHANGED <<rkcs, ready, err, wc, ba, da, meddled, raised>>

\* Faulty variant: GO stays set.
FinishKeepsGo ==
  /\ fn \in Transfers /\ Refusal = {} /\ wc = 0
  /\ done' = TRUE /\ ready' = TRUE
  /\ IF ie THEN Interrupted ELSE UNCHANGED raised
  /\ moved' = {}
  /\ UNCHANGED <<go, fn, ie, err, wc, ba, da, meddled, alive>>

\* Faulty variant: DONE is set only along with an interrupt.
FinishOnlyInterrupts ==
  /\ fn \in Transfers /\ Refusal = {} /\ wc = 0
  /\ go' = FALSE /\ done' = ie /\ ready' = TRUE
  /\ IF ie THEN Interrupted ELSE UNCHANGED raised
  /\ moved' = {}
  /\ UNCHANGED <<fn, ie, err, wc, ba, da, meddled, alive>>

\* readwrite() with nothing left to move.
Finish ==
  /\ fn \in Transfers /\ Refusal = {} /\ wc = 0
  /\ go' = FALSE /\ done' = TRUE /\ ready' = TRUE
  /\ IF ie THEN Interrupted ELSE UNCHANGED raised
  /\ moved' = {}
  /\ UNCHANGED <<fn, ie, err, wc, ba, da, meddled, alive>>

\* Seek (4) and drive reset (6) set DONE and interrupt, and leave GO.
Seek ==
  /\ fn \in {4, 6}
  /\ err' = IF fn = 6 THEN {} ELSE err
  /\ done' = TRUE
  /\ Interrupted
  /\ moved' = {}
  /\ UNCHANGED <<go, fn, ie, ready, wc, ba, da, meddled, alive>>

\* Read check (5) and write lock (7) do nothing, and leave GO.
Ignored ==
  /\ fn \in {5, 7}
  /\ moved' = {}
  /\ UNCHANGED <<rkcs, ready, err, wc, ba, da, meddled, raised, alive>>

Step ==
  /\ alive /\ go
  /\ \/ fn = 0 /\ Reset
     \/ Refused \/ MoveSector \/ OddAddress \/ ImageEnds \/ Finish
     \/ Seek \/ Ignored

-----------------------------------------------------------------------------

Next ==
  \/ Step
  \/ WriteRKCS \/ WriteRKWC \/ WriteRKBA \/ WriteRKDA
  \/ ReadRKBA \/ BusReset

Spec == Init /\ [][Next]_vars

\* The run loop keeps calling step().
FairSpec == Spec /\ WF_vars(Step)

-----------------------------------------------------------------------------

\* Every register stays within its width; an overrun leaves the cylinder one
\* past the last, from where AfterSector never takes it further.
TypeOK ==
  /\ go \in BOOLEAN /\ fn \in 0 .. 7 /\ ie \in BOOLEAN /\ done \in BOOLEAN
  /\ ready \in BOOLEAN /\ alive \in BOOLEAN
  /\ err \subseteq Errors
  /\ wc \in 0 .. MaxCount /\ ba \in 0 .. NBytes - 1
  /\ \/ da \in Starts
     \/ da \in [drive : {0}, cyl : 0 .. LastCylinder + 1, surf : 0 .. 1,
                sec : 0 .. LastSector]
  /\ meddled \in BOOLEAN /\ raised \in 0 .. 2

Blocks == INSTANCE RKBlocks WITH
  next <- IF wc = 0 THEN 0 ELSE Position, addr <- ba, left <- wc,
  Positions <- {PositionOf(a) : a \in Starts} \cup
                 0 .. (LastCylinder + 2) * 2 * (LastSector + 1) * SectorWords

(***************************************************************************)
(* A transfer moves consecutive words of the disk to or from consecutive   *)
(* bus addresses, across the ends of sectors, tracks and cylinders, and    *)
(* never a word too many.                                                  *)
(***************************************************************************)
MovesBlocks == Blocks!Spec

\* A transfer interrupts the guest once at most.
TransferInterruptsOnce == fn \in Transfers => raised <= 1

\* The drive, the cylinder and the sector that RKDA names are there.
Addressed == da.drive = 0 /\ da.cyl <= LastCylinder /\ da.sec <= LastSector

(***************************************************************************)
(* A step moves words only when RKDA names a sector of the disk, whatever  *)
(* the guest made of it since the transfer began, and only words of that   *)
(* sector: a number that is too large never reaches into the next track,   *)
(* cylinder or drive, or beyond the end.                                   *)
(***************************************************************************)
OnTheDisk ==
  [][\A m \in moved' :
       /\ Addressed
       /\ m[1] \in Position .. Position + SectorWords - 1
       /\ m[1] < (LastCylinder + 1) * 2 * (LastSector + 1) * SectorWords]_vars

\* Sectors from the current one to the end of the disk.
SectorsToEnd ==
  ((LastCylinder + 1) * 2 - (da.cyl * 2 + da.surf)) * (LastSector + 1) - da.sec

\* A transfer that is going, is well formed and stops short of the end of the
\* disk: one that needs the last sector too ends as an overrun.
Proper ==
  /\ go /\ fn \in Transfers
  /\ Refusal = {} /\ ba % 2 = 0
  /\ wc <= (SectorsToEnd - 1) * SectorWords

(***************************************************************************)
(* A proper transfer finishes, GO cleared and DONE set, unless the guest   *)
(* writes a register before it has.                                        *)
(***************************************************************************)
TransferFinishes == (Proper /\ alive) ~> (~go /\ done) \/ meddled \/ ~alive

=============================================================================
