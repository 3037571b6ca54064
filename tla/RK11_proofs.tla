---------------------------- MODULE RK11_proofs ----------------------------
(***************************************************************************)
(* Proofs about module RK11, for every size of the disk and of memory and  *)
(* everything the guest writes to the registers.                           *)
(***************************************************************************)
EXTENDS RK11, TLAPS

\* A row of n cells starts n cells after the one before.
LEMMA Row == ASSUME NEW a \in Nat, NEW n \in Nat PROVE (a + 1) * n = a * n + n
OBVIOUS

\* Cell d of row a lies before row b, when a < b.
LEMMA BeforeRow ==
  ASSUME NEW a \in Nat, NEW b \in Nat, NEW n \in Nat, NEW d \in Nat, a < b, d < n
  PROVE  a * n + d < b * n /\ a * n + d \in Nat /\ b * n \in Nat
<1>1. PICK e \in Nat : b = a + 1 + e
  <2>1. b - a - 1 \in Nat /\ b = a + 1 + (b - a - 1)
    OBVIOUS
  <2> QED
    BY <2>1
<1>2. (a + 1 + e) * n = a * n + n + e * n
  OBVIOUS
<1>3. e * n \in Nat /\ a * n \in Nat
  OBVIOUS
<1> QED
  BY <1>1, <1>2, <1>3

-----------------------------------------------------------------------------

OnDisk == [drive : {0}, cyl : 0 .. LastCylinder + 1, surf : 0 .. 1,
           sec : 0 .. LastSector]

DiskAddress == [drive : Nat, cyl : Nat, surf : 0 .. 1, sec : Nat]

\* TypeOK by the sorts of its parts, which the provers treat apart.
Bits ==
  /\ go \in BOOLEAN /\ ie \in BOOLEAN /\ done \in BOOLEAN /\ ready \in BOOLEAN
  /\ alive \in BOOLEAN /\ meddled \in BOOLEAN

Numbers ==
  /\ fn \in 0 .. 7 /\ raised \in 0 .. 2
  /\ wc \in 0 .. MaxCount /\ ba \in 0 .. NBytes - 1

Places == da \in Starts \cup OnDisk /\ err \subseteq Errors

LEMMA Parts == TypeOK <=> Bits /\ Numbers /\ Places
BY DEF TypeOK, Bits, Numbers, Places, OnDisk

LEMMA PartsNext == TypeOK' <=> Bits' /\ Numbers' /\ Places'
BY DEF TypeOK, Bits, Numbers, Places, OnDisk

LEMMA PlaceIsAddress == \A a \in Starts \cup OnDisk : a \in DiskAddress
BY RK11Assumption DEF OnDisk, DiskAddress

LEMMA OriginOnDisk == Origin \in OnDisk
BY RK11Assumption DEF Origin, OnDisk

LEMMA InitTypeOK == Init => TypeOK
<1> SUFFICES ASSUME Init PROVE TypeOK
  OBVIOUS
<1>1. Bits
  BY Zenon DEF Init, Bits
<1>2. Numbers
  BY RK11Assumption DEF Init, Numbers
<1>3. Places
  BY OriginOnDisk DEF Init, Places
<1> QED
  BY <1>1, <1>2, <1>3, Parts

Drive0 == [drive : {0}, cyl : Nat, surf : 0 .. 1, sec : Nat]

\* The sector after one of drive 0, field by field.
LEMMA NextSector ==
  ASSUME da \in Drive0
  PROVE  /\ da.sec < LastSector =>
              AfterSector \in [drive : {0}, cyl : {da.cyl}, surf : {da.surf},
                               sec : {da.sec + 1}]
         /\ ~(da.sec < LastSector) /\ da.surf = 0 =>
              AfterSector \in [drive : {0}, cyl : {da.cyl}, surf : {1}, sec : {0}]
         /\ ~(da.sec < LastSector) /\ da.surf = 1 =>
              AfterSector \in [drive : {0}, cyl : {da.cyl + 1}, surf : {0}, sec : {0}]
<1>1. /\ [da EXCEPT !.sec = @ + 1] \in
           [drive : {0}, cyl : {da.cyl}, surf : {da.surf}, sec : {da.sec + 1}]
      /\ [da EXCEPT !.sec = 0, !.surf = 1] \in
           [drive : {0}, cyl : {da.cyl}, surf : {1}, sec : {0}]
      /\ [da EXCEPT !.sec = 0, !.surf = 0, !.cyl = @ + 1] \in
           [drive : {0}, cyl : {da.cyl + 1}, surf : {0}, sec : {0}]
  BY DEF Drive0
<1> QED
  BY <1>1 DEF AfterSector

\* A transfer that is not refused is on the disk, and so is what comes next.
LEMMA NotRefused ==
  ASSUME TypeOK, Refusal = {}
  PROVE  /\ da \in Drive0 /\ da.cyl <= LastCylinder /\ da.sec <= LastSector
         /\ AfterSector \in OnDisk
<1>1. da \in DiskAddress
  BY PlaceIsAddress, Parts DEF Places
<1>2. da.drive = 0 /\ ~(da.cyl > LastCylinder) /\ ~(da.sec > LastSector)
  BY DEF Refusal
<1>3. /\ da.cyl \in Nat /\ da.sec \in Nat /\ da.surf \in {0, 1}
      /\ da.cyl <= LastCylinder /\ da.sec <= LastSector
  BY <1>1, <1>2, RK11Assumption DEF DiskAddress
<1>4. da \in Drive0
  BY <1>1, <1>2 DEF DiskAddress, Drive0
<1>5. ASSUME NEW c \in 0 .. LastCylinder + 1, NEW t \in 0 .. 1,
             NEW k \in 0 .. LastSector,
             AfterSector \in [drive : {0}, cyl : {c}, surf : {t}, sec : {k}]
      PROVE  AfterSector \in OnDisk
  BY <1>5 DEF OnDisk
<1>6. AfterSector \in OnDisk
  <2>1. CASE da.sec < LastSector
    <3>1. da.cyl \in 0 .. LastCylinder + 1 /\ da.sec + 1 \in 0 .. LastSector
          /\ da.surf \in 0 .. 1
      BY <1>3, <2>1, RK11Assumption
    <3> QED
      BY <1>4, <1>5, <2>1, <3>1, NextSector
  <2>2. CASE ~(da.sec < LastSector)
    <3>1. /\ da.cyl \in 0 .. LastCylinder + 1 /\ da.cyl + 1 \in 0 .. LastCylinder + 1
          /\ 0 \in 0 .. LastSector /\ 0 \in 0 .. 1 /\ 1 \in 0 .. 1
      BY <1>3, RK11Assumption
    <3> QED
      BY <1>3, <1>4, <1>5, <2>2, <3>1, NextSector
  <2> QED
    BY <2>1, <2>2
<1> QED
  BY <1>3, <1>4, <1>6

LEMMA MoveSectorTypeOK == TypeOK /\ MoveSector => TypeOK'
<1> SUFFICES ASSUME TypeOK, MoveSector PROVE TypeOK'
  OBVIOUS
<1>0. Bits /\ Numbers /\ Places
  BY Parts
<1>1. Bits'
  BY <1>0, Zenon DEF MoveSector, Bits
<1>2. Chunk \in 1 .. wc
  BY <1>0, RK11Assumption DEF MoveSector, Numbers, Chunk
<1>3. (ba + 2 * Chunk) % NBytes \in 0 .. NBytes - 1
  BY <1>0, <1>2, RK11Assumption DEF Numbers
<1>4. Numbers'
  BY <1>0, <1>2, <1>3, RK11Assumption DEF MoveSector, Numbers
<1>5. Places'
  <2>1. da' = AfterSector /\ AfterSector \in OnDisk
    BY NotRefused DEF MoveSector
  <2>2. err' \subseteq Errors
    BY <1>0 DEF MoveSector, Places, Errors
  <2> QED
    BY <2>1, <2>2 DEF Places, OnDisk
<1> QED
  BY <1>1, <1>4, <1>5, PartsNext

\* Every step but MoveSector, the writes and resets leaves wc, ba and da alone.
Stays == UNCHANGED <<wc, ba, da>>

LEMMA NextTypeOK == TypeOK /\ [Next]_vars => TypeOK'
<1> SUFFICES ASSUME TypeOK, [Next]_vars PROVE TypeOK'
  OBVIOUS
<1> USE RK11Assumption
<1>0. Bits /\ Numbers /\ Places
  BY Parts
<1>1. CASE MoveSector
  BY <1>1, MoveSectorTypeOK
<1>2. CASE Reset
  <2>1. Bits'
    BY <1>0, <1>2, Zenon DEF Reset, Bits
  <2>2. Numbers'
    BY <1>2 DEF Reset, Numbers
  <2>3. Places'
    BY <1>2, OriginOnDisk DEF Reset, Places, OnDisk
  <2> QED
    BY <2>1, <2>2, <2>3, PartsNext
<1>3. CASE WriteRKCS \/ WriteRKWC \/ WriteRKBA \/ WriteRKDA
  <2>1. Bits'
    BY <1>0, <1>3 DEF WriteRKCS, WriteRKWC, WriteRKBA, WriteRKDA, GuestWrites,
                      Bits, rkcs
  <2>2. Numbers'
    <3>1. /\ fn' \in Functions \cup {fn} /\ raised' \in {0, raised}
          /\ wc' \in {wc} \cup 0 .. MaxCount /\ ba' \in {ba} \cup Addresses
      BY <1>3 DEF WriteRKCS, WriteRKWC, WriteRKBA, WriteRKDA, rkcs
    <3> QED
      BY <1>0, <3>1 DEF Numbers
  <2>3. Places'
    BY <1>0, <1>3 DEF WriteRKCS, WriteRKWC, WriteRKBA, WriteRKDA, Places, OnDisk
  <2> QED
    BY <2>1, <2>2, <2>3, PartsNext
<1>4. CASE ReadRKBA
  <2>1. Bits'
    BY <1>0, <1>4 DEF ReadRKBA, Bits, rkcs
  <2>2. Numbers' /\ Places'
    BY <1>0, <1>4 DEF ReadRKBA, Numbers, Places, OnDisk, rkcs
  <2> QED
    BY <2>1, <2>2, PartsNext
<1>5. CASE Refused \/ OddAddress \/ ImageEnds \/ Finish \/ Seek \/ Ignored
  <2>1. Bits'
    BY <1>0, <1>5 DEF Refused, OddAddress, ImageEnds, Finish, Seek, Ignored, Bits, rkcs
  <2>2. raised' \in {raised, raised + 1} /\ raised' <= 2 /\ fn' = fn /\ Stays
    BY <1>0, <1>5 DEF Refused, OddAddress, ImageEnds, Finish, Seek, Ignored, Interrupted,
                      Numbers, rkcs, Stays
  <2>3. Numbers'
    BY <1>0, <2>2 DEF Numbers, Stays
  <2>4. Refusal \subseteq Errors
    BY DEF Refusal, Errors
  <2>5. err' \subseteq Errors
    BY <1>0, <1>5, <2>4 DEF Refused, OddAddress, ImageEnds, Finish, Seek, Ignored, Places
  <2>6. Places'
    BY <1>0, <2>2, <2>5 DEF Places, OnDisk, Stays
  <2> QED
    BY <2>1, <2>3, <2>6, PartsNext
<1>6. CASE UNCHANGED vars
  BY <1>0, <1>6, PartsNext, Zenon DEF vars, TypeOK
<1> QED
  BY <1>1, <1>2, <1>3, <1>4, <1>5, <1>6 DEF Next, Step, BusReset

\* The registers of the controller stay within their widths, and the disk
\* address one past the last cylinder at most.
THEOREM DiskTypeCorrect == Spec => []TypeOK
BY InitTypeOK, NextTypeOK, PTL DEF Spec

-----------------------------------------------------------------------------

\* A transfer that is still going has not interrupted.
NotYetRaised ==
  fn \in Transfers => raised <= 1 /\ (go => raised = 0)

LEMMA NextRaised == TypeOK /\ NotYetRaised /\ [Next]_vars => NotYetRaised'
<1> SUFFICES ASSUME TypeOK, NotYetRaised, [Next]_vars PROVE NotYetRaised'
  OBVIOUS
<1>0. Numbers
  BY Parts
<1>1. CASE Reset
  BY <1>1 DEF Reset, NotYetRaised, Transfers
<1>2. CASE WriteRKCS
  BY <1>2 DEF WriteRKCS, NotYetRaised
<1>3. CASE WriteRKWC \/ WriteRKBA \/ WriteRKDA \/ ReadRKBA \/ Refused
           \/ MoveSector \/ OddAddress \/ ImageEnds \/ Ignored \/ UNCHANGED vars
  <2>1. UNCHANGED <<fn, go, raised>>
    BY <1>3 DEF WriteRKWC, WriteRKBA, WriteRKDA, ReadRKBA, Refused, MoveSector,
                OddAddress, ImageEnds, Ignored, rkcs, vars
  <2> QED
    BY <2>1 DEF NotYetRaised
<1>4. CASE Seek
  <2>1. fn' = fn /\ fn \notin Transfers
    BY <1>4 DEF Seek, Transfers
  <2> QED
    BY <2>1 DEF NotYetRaised
<1>5. CASE go /\ Finish
  <2>1. fn \in Transfers /\ go' = FALSE /\ fn' = fn /\ raised' \in {raised, raised + 1}
    BY <1>5 DEF Finish, Interrupted
  <2>2. raised = 0
    BY <1>5, <2>1 DEF NotYetRaised
  <2> QED
    BY <2>1, <2>2 DEF NotYetRaised
<1> QED
  BY <1>1, <1>2, <1>3, <1>4, <1>5 DEF Next, Step, BusReset

\* A transfer interrupts once at most, whatever is written while it goes on.
THEOREM TransferInterruptsOnceAlways == Spec => []TransferInterruptsOnce
<1>1. Init => NotYetRaised
  BY DEF Init, NotYetRaised, Transfers
<1>2. NotYetRaised => TransferInterruptsOnce
  BY DEF NotYetRaised, TransferInterruptsOnce
<1> QED
  BY <1>1, <1>2, NextRaised, DiskTypeCorrect, PTL DEF Spec

-----------------------------------------------------------------------------

\* The number of a sector, counted from the start of the disk.
Ordinal(a) == (a.cyl * 2 + a.surf) * (LastSector + 1) + a.sec

LEMMA PositionIsOrdinal == \A a : PositionOf(a) = Ordinal(a) * SectorWords
BY DEF PositionOf, Ordinal

\* The words of a sector lie before the cylinder after its own.
LEMMA WithinCylinders ==
  ASSUME NEW a \in Drive0, NEW C \in Nat, a.cyl <= C, a.sec <= LastSector,
         NEW k \in Nat, k < SectorWords
  PROVE  /\ PositionOf(a) \in Nat
         /\ PositionOf(a) + k < (C + 1) * 2 * (LastSector + 1) * SectorWords
         /\ (C + 1) * 2 * (LastSector + 1) * SectorWords \in Nat
<1> DEFINE t == a.cyl * 2 + a.surf
           c == (C + 1) * 2
           n == LastSector + 1
<1>1. t \in Nat /\ c \in Nat /\ n \in Nat /\ a.sec \in Nat /\ t < c /\ a.sec < n
      /\ SectorWords \in Nat
  BY RK11Assumption DEF Drive0
<1>2. Ordinal(a) = t * n + a.sec
  BY DEF Ordinal
<1> HIDE DEF t, c, n
<1>3. t * n + a.sec \in Nat /\ c * n \in Nat /\ t * n + a.sec < c * n
  BY <1>1, BeforeRow
<1> DEFINE u == t * n + a.sec
           v == c * n
<1>4. u * SectorWords \in Nat
  BY <1>1, <1>3
<1> HIDE DEF u, v
<1>5. u \in Nat /\ v \in Nat /\ u < v
  BY <1>3 DEF u, v
<1>6. u * SectorWords + k < v * SectorWords /\ v * SectorWords \in Nat
  BY <1>1, <1>5, BeforeRow
<1>7. PositionOf(a) = u * SectorWords
  BY <1>2, PositionIsOrdinal DEF u
<1>8. (C + 1) * 2 * (LastSector + 1) * SectorWords = v * SectorWords
  BY DEF v, c, n
<1> QED
  BY <1>4, <1>6, <1>7, <1>8

\* The sector after another starts where that one ends.
LEMMA AfterSectorPosition ==
  ASSUME da \in Drive0, da.sec <= LastSector
  PROVE  PositionOf(AfterSector) = Position + SectorWords
<1> DEFINE n == LastSector + 1
<1>1. /\ da.cyl \in Nat /\ da.sec \in Nat /\ da.surf \in {0, 1} /\ n \in Nat
      /\ LastSector \in Nat /\ SectorWords \in Nat
  BY RK11Assumption DEF Drive0
<1>2. \A a : Ordinal(a) = (a.cyl * 2 + a.surf) * n + a.sec
  BY DEF Ordinal
<1>3. Ordinal(AfterSector) = Ordinal(da) + 1
  <2>1. CASE da.sec < LastSector
    <3>1. /\ AfterSector.cyl = da.cyl /\ AfterSector.surf = da.surf
          /\ AfterSector.sec = da.sec + 1
      BY <2>1, NextSector
    <3>2. (da.cyl * 2 + da.surf) * n \in Nat
      BY <1>1
    <3> QED
      BY <1>1, <1>2, <3>1, <3>2
  <2>2. CASE ~(da.sec < LastSector)
    <3>1. da.sec + 1 = n
      BY <1>1, <2>2
    <3>2. CASE da.surf = 0
      <4>1. /\ AfterSector.cyl = da.cyl /\ AfterSector.surf = 1 /\ AfterSector.sec = 0
        BY <2>2, <3>2, NextSector
      <4>2. (da.cyl * 2 + 1) * n = (da.cyl * 2) * n + n
        <5>1. da.cyl * 2 \in Nat
          BY <1>1
        <5> HIDE DEF n
        <5> QED
          BY <1>1, <5>1, Row
      <4>3. (da.cyl * 2) * n \in Nat /\ da.cyl * 2 + 0 = da.cyl * 2
        BY <1>1
      <4> HIDE DEF n
      <4> QED
        BY <1>1, <1>2, <3>1, <3>2, <4>1, <4>2, <4>3
    <3>3. CASE da.surf = 1
      <4>1. /\ AfterSector.cyl = da.cyl + 1 /\ AfterSector.surf = 0
            /\ AfterSector.sec = 0
        BY <2>2, <3>3, NextSector
      <4>2. ((da.cyl + 1) * 2 + 0) * n = (da.cyl * 2 + 1) * n + n
        <5>1. da.cyl * 2 + 1 \in Nat /\ (da.cyl + 1) * 2 + 0 = (da.cyl * 2 + 1) + 1
          BY <1>1
        <5> HIDE DEF n
        <5> QED
          BY <1>1, <5>1, Row
      <4>3. (da.cyl * 2 + 1) * n \in Nat
        BY <1>1
      <4> HIDE DEF n
      <4> QED
        BY <1>1, <1>2, <3>1, <3>3, <4>1, <4>2, <4>3
    <3> QED
      BY <1>1, <3>2, <3>3
  <2> QED
    BY <2>1, <2>2
<1>4. Ordinal(da) \in Nat
  BY <1>1, <1>2
<1> HIDE DEF n
<1>5. (Ordinal(da) + 1) * SectorWords = Ordinal(da) * SectorWords + SectorWords
  BY <1>1, <1>4, Row
<1> QED
  BY <1>3, <1>5, PositionIsOrdinal DEF Position

\* A word that a step moves is one of the sector that RKDA names.
LEMMA MovedOnTheDisk ==
  ASSUME TypeOK, MoveSector, NEW m \in moved'
  PROVE  /\ Addressed
         /\ m[1] \in Position .. Position + SectorWords - 1
         /\ m[1] < (LastCylinder + 1) * 2 * (LastSector + 1) * SectorWords
<1>1. /\ da \in Drive0 /\ da.cyl <= LastCylinder /\ da.sec <= LastSector
      /\ da.drive = 0
  BY NotRefused DEF MoveSector, Drive0
<1>2. Chunk \in Nat /\ Chunk <= SectorWords /\ SectorWords \in Nat
  BY RK11Assumption DEF Chunk, TypeOK
<1>3. PICK k \in 0 .. Chunk - 1 : m = <<Position + k, (ba + 2 * k) % NBytes>>
  BY DEF MoveSector
<1>4. k \in Nat /\ k < SectorWords /\ LastCylinder \in Nat
  BY <1>2, RK11Assumption
<1>5. /\ Position \in Nat
      /\ Position + k < (LastCylinder + 1) * 2 * (LastSector + 1) * SectorWords
  BY <1>1, <1>4, WithinCylinders DEF Position
<1>6. Position + k \in Position .. Position + SectorWords - 1
  <2>1. ASSUME NEW q \in Nat PROVE q + k \in q .. q + SectorWords - 1
    BY <1>2, <1>4
  <2> QED
    BY <1>5, <2>1
<1>7. m[1] = Position + k
  BY <1>3
<1>8. Addressed
  BY <1>1 DEF Addressed
<1> QED
  BY <1>5, <1>6, <1>7, <1>8

LEMMA NextOnTheDisk ==
  ASSUME TypeOK, [Next]_vars
  PROVE  [\A m \in moved' :
            /\ Addressed
            /\ m[1] \in Position .. Position + SectorWords - 1
            /\ m[1] < (LastCylinder + 1) * 2 * (LastSector + 1) * SectorWords]_vars
<1>1. MoveSector \/ moved' = {} \/ UNCHANGED vars
  BY DEF Next, Step, Reset, BusReset, WriteRKCS, WriteRKWC, WriteRKBA, WriteRKDA,
         GuestWrites, ReadRKBA, Refused, OddAddress, ImageEnds, Finish, Seek,
         Ignored
<1> QED
  BY <1>1, MovedOnTheDisk

\* Whatever disk address the guest loads, and when, the words that move are
\* those of a sector that is there, the one RKDA names.
THEOREM OnTheDiskAlways == Spec => OnTheDisk
BY NextOnTheDisk, DiskTypeCorrect, PTL DEF Spec, OnTheDisk

-----------------------------------------------------------------------------

\* The refinement mapping, and the positions a program can name.
NextWord == IF wc = 0 THEN 0 ELSE Position
Named == {PositionOf(a) : a \in Starts} \cup
           0 .. (LastCylinder + 2) * 2 * (LastSector + 1) * SectorWords

LEMMA AbstractSteps ==
  /\ NextWord' \in Named /\ ba' \in 0 .. NBytes - 1 /\ wc' \in 0 .. MaxCount
       /\ moved' = {} => Blocks!Next
  /\ (\E n \in 1 .. wc :
        /\ moved' = {<<NextWord + k, (ba + 2 * k) % NBytes>> : k \in 0 .. n - 1}
        /\ wc' = wc - n /\ ba' = (ba + 2 * n) % NBytes
        /\ NextWord' = IF wc' = 0 THEN 0 ELSE NextWord + n) => Blocks!Next
BY DEF Blocks!Next, Blocks!Program, Blocks!Move, NextWord, Named, Position

\* Wherever the disk address may be, the next word has a name.
LEMMA NextWordNamed == TypeOK => NextWord \in Named
<1> SUFFICES ASSUME TypeOK PROVE NextWord \in Named
  OBVIOUS
<1> DEFINE end == (LastCylinder + 2) * 2 * (LastSector + 1) * SectorWords
<1>1. CASE wc = 0
  <2>1. end \in Nat
    BY RK11Assumption
  <2> QED
    BY <1>1, <2>1 DEF NextWord, Named
<1>2. CASE da \in Starts
  BY <1>1, <1>2 DEF NextWord, Named, Position
<1>3. CASE da \in OnDisk /\ wc # 0
  <2>1. da \in Drive0 /\ da.cyl <= LastCylinder + 1 /\ da.sec <= LastSector
    BY <1>3, RK11Assumption DEF OnDisk, Drive0
  <2>2. /\ LastCylinder + 1 \in Nat /\ 0 \in Nat /\ 0 < SectorWords
        /\ LastCylinder + 1 + 1 = LastCylinder + 2
    BY RK11Assumption
  <2>3. Position \in Nat /\ Position + 0 < end /\ end \in Nat
    BY <2>1, <2>2, WithinCylinders DEF Position
  <2> HIDE DEF end
  <2>4. Position \in 0 .. end
    BY <2>3
  <2> QED
    BY <1>3, <2>4 DEF NextWord, Named, end
<1> QED
  BY <1>1, <1>2, <1>3, Parts DEF Places

LEMMA MoveSectorMoves == TypeOK /\ MoveSector => Blocks!Next
<1> SUFFICES ASSUME TypeOK, MoveSector PROVE Blocks!Next
  OBVIOUS
<1>1. /\ wc > 0 /\ da' = AfterSector /\ wc' = wc - Chunk
      /\ ba' = (ba + 2 * Chunk) % NBytes
      /\ moved' = {<<Position + k, (ba + 2 * k) % NBytes>> : k \in 0 .. Chunk - 1}
  BY DEF MoveSector
<1>2. wc \in Nat /\ Chunk \in 1 .. wc /\ (wc - Chunk # 0 => Chunk = SectorWords)
  BY <1>1, RK11Assumption DEF TypeOK, Chunk
<1>3. NextWord = Position
  BY <1>1, <1>2 DEF NextWord
<1>4. da \in Drive0 /\ da.sec <= LastSector
  BY NotRefused DEF MoveSector
<1>5. NextWord' = IF wc' = 0 THEN 0 ELSE NextWord + Chunk
  <2>1. NextWord' = IF wc' = 0 THEN 0 ELSE PositionOf(AfterSector)
    BY <1>1 DEF NextWord, Position, PositionOf
  <2>2. wc' # 0 => PositionOf(AfterSector) = NextWord + Chunk
    BY <1>1, <1>2, <1>3, <1>4, AfterSectorPosition
  <2> QED
    BY <2>1, <2>2
<1> QED
  BY <1>1, <1>2, <1>3, <1>5, AbstractSteps

LEMMA NextBlocks == TypeOK /\ TypeOK' /\ [Next]_vars => [Blocks!Next]_(Blocks!vars)
<1> SUFFICES ASSUME TypeOK, TypeOK', [Next]_vars
             PROVE  Blocks!Next \/ UNCHANGED Blocks!vars
  OBVIOUS
<1>1. MoveSector \/ moved' = {} \/ UNCHANGED vars
  BY DEF Next, Step, Reset, BusReset, WriteRKCS, WriteRKWC, WriteRKBA, WriteRKDA,
         GuestWrites, ReadRKBA, Refused, OddAddress, ImageEnds, Finish, Seek, Ignored
<1>2. CASE MoveSector
  BY <1>2, MoveSectorMoves
<1>3. CASE moved' = {}
  <2>1. (TypeOK => NextWord \in Named)'
    BY NextWordNamed, PTL
  <2>2. NextWord' \in Named
    BY <2>1 DEF Named, PositionOf
  <2>3. ba' \in 0 .. NBytes - 1 /\ wc' \in 0 .. MaxCount
    BY PartsNext DEF Numbers
  <2> QED
    BY <1>3, <2>2, <2>3, AbstractSteps
<1>4. CASE UNCHANGED vars
  BY <1>4 DEF vars, Blocks!vars, Position, PositionOf
<1> QED
  BY <1>1, <1>2, <1>3, <1>4

LEMMA InitBlocks == Init => Blocks!Init
BY DEF Init, Blocks!Init

\* The controller moves consecutive words, and no more than it was asked for,
\* for every size of the disk and whatever the guest writes, and when.
THEOREM MovesBlocksAlways == Spec => MovesBlocks
BY InitBlocks, NextBlocks, DiskTypeCorrect, PTL
DEF Spec, MovesBlocks, Blocks!Spec

=============================================================================
