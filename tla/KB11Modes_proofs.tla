-------------------------- MODULE KB11Modes_proofs --------------------------
(***************************************************************************)
(* Proofs about module KB11Modes, for every set of modes, priorities and   *)
(* vectors and every size of the stacks.                                   *)
(***************************************************************************)
EXTENDS KB11Modes, TLAPS

LEMMA AddressClosed ==
  ASSUME NEW a \in Address, NEW n \in 0 .. 2
  PROVE  Down(a, n) \in Address /\ Up(a, n) \in Address
BY PSWAssumption DEF Address, Down, Up

\* The words the processor makes out of PSWs are PSWs.
LEMMA PSWClosed ==
  ASSUME NEW p \in PSWord
  PROVE  /\ p.cur \in Modes /\ p.prev \in Modes
         /\ InKernelMode(p) \in PSWord
         /\ \A v \in Vectors : Trapped(v, p) \in PSWord /\ Trapped(v, p).cur = v.cur
         /\ \A n \in Priorities : /\ WithPriority(p, n) \in PSWord
                                  /\ WithPriority(p, n).cur = p.cur
         /\ \A m : /\ ClearedCC(p, m) \in PSWord /\ ClearedCC(p, m).cur = 0
         /\ \A m \in SUBSET Flags : /\ WithCC(p, m) \in PSWord
                                    /\ WithCC(p, m).cur = p.cur
         /\ \A c \in SUBSET Flags : /\ [p EXCEPT !.cc = c] \in PSWord
                                    /\ [p EXCEPT !.cc = c].cur = p.cur
<1>1. /\ p.cur \in Modes /\ p.prev \in Modes /\ p.pri \in Priorities
      /\ p.cc \in SUBSET Flags
      /\ p = [cur |-> p.cur, prev |-> p.prev, pri |-> p.pri, cc |-> p.cc]
      /\ 0 \in Modes /\ 0 \in Priorities
  BY PSWAssumption DEF PSWord
<1>2. InKernelMode(p) \in PSWord
  BY <1>1 DEF PSWord, InKernelMode
<1>3. ASSUME NEW v \in Vectors
      PROVE  Trapped(v, p) \in PSWord /\ Trapped(v, p).cur = v.cur
  <2>1. v \in PSWord /\ OrMode(v.prev, p.cur) \in Modes
    BY <1>1, PSWAssumption
  <2> QED
    BY <2>1 DEF PSWord, Trapped
<1>4. ASSUME NEW n \in Priorities
      PROVE  WithPriority(p, n) \in PSWord /\ WithPriority(p, n).cur = p.cur
  BY <1>1 DEF PSWord, WithPriority
<1>5. ASSUME NEW m
      PROVE  ClearedCC(p, m) \in PSWord /\ ClearedCC(p, m).cur = 0
  <2>1. p.cc \ m \in SUBSET Flags
    BY <1>1
  <2> QED
    BY <1>1, <2>1 DEF PSWord, ClearedCC
<1>6. ASSUME NEW c \in SUBSET Flags
      PROVE  [p EXCEPT !.cc = c] \in PSWord /\ [p EXCEPT !.cc = c].cur = p.cur
  BY <1>1 DEF PSWord
<1>7. ASSUME NEW m \in SUBSET Flags
      PROVE  WithCC(p, m) \in PSWord /\ WithCC(p, m).cur = p.cur
  <2>1. p.cc \cup m \in SUBSET Flags /\ WithCC(p, m) = [p EXCEPT !.cc = p.cc \cup m]
    BY <1>1 DEF WithCC
  <2> QED
    BY <1>6, <2>1
<1> QED
  BY <1>1, <1>2, <1>3, <1>4, <1>5, <1>6, <1>7

LEMMA InitTypeOK == Init => TypeOK
<1> SUFFICES ASSUME Init PROVE TypeOK
  OBVIOUS
<1>1. psw \in PSWord
  BY PSWAssumption DEF Init, ZeroPSW, PSWord
<1>2. 0 \in Address
  BY PSWAssumption DEF Address
<1> QED
  BY <1>1, <1>2 DEF Init, TypeOK

\* writePSW() keeps the save slots and R6 well formed.
LEMMA WritePSWType ==
  ASSUME TypeOK, NEW p \in PSWord, NEW a \in Address, WritePSW(p, a)
  PROVE  psw' \in PSWord /\ r6' \in Address /\ stackpointer' \in [Modes -> Address]
BY DEF TypeOK, WritePSW, PSWord

LEMMA NextTypeOK == TypeOK /\ [Next]_vars => TypeOK'
<1> SUFFICES ASSUME TypeOK, [Next]_vars PROVE TypeOK'
  OBVIOUS
<1>0. psw \in PSWord /\ r6 \in Address /\ stackpointer \in [Modes -> Address]
  BY DEF TypeOK
<1>1. CASE Execute
  BY <1>0, <1>1, PSWClosed DEF Execute, TypeOK
<1>2. CASE SPL
  BY <1>0, <1>2, PSWClosed, WritePSWType DEF SPL, TypeOK
<1>3. CASE CLRCC
  BY <1>0, <1>3, PSWClosed, WritePSWType DEF CLRCC, TypeOK
<1>4. CASE SETCC
  BY <1>0, <1>4, PSWClosed, WritePSWType DEF SETCC, TypeOK
<1>5. CASE StorePSW
  BY <1>0, <1>5, WritePSWType DEF StorePSW, TypeOK
<1>6. CASE RTT
  BY <1>0, <1>6, AddressClosed, WritePSWType DEF RTT, Returned, TypeOK
<1>7. CASE MFPI
  BY <1>0, <1>7, PSWClosed, AddressClosed DEF MFPI, TypeOK
<1>8. CASE MTPI
  BY <1>0, <1>8, PSWClosed, AddressClosed DEF MTPI, TypeOK
<1>a. KernelR6 \in Address
  BY <1>0, PSWAssumption DEF KernelR6, PSWord
<1>9. CASE Trap
  <2>1. PICK v \in Vectors :
          LET bank == [stackpointer EXCEPT ![psw.cur] = r6,
                                           ![0] = Down(KernelR6, 2)]
          IN  psw' = Trapped(v, psw) /\ stackpointer' = bank /\ r6' = bank[v.cur]
    BY <1>9 DEF Trap
  <2>2. v.cur \in Modes /\ psw' \in PSWord
    BY <1>0, <2>1, PSWClosed, PSWAssumption DEF PSWord
  <2>3. stackpointer' \in [Modes -> Address]
    <3>1. Down(KernelR6, 2) \in Address
      BY <1>a, AddressClosed
    <3> QED
      BY <1>0, <2>1, <3>1
  <2> QED
    BY <1>9, <2>1, <2>2, <2>3 DEF Trap, TypeOK
<1>10. CASE FaultInTrap
  BY <1>0, <1>a, <1>10, PSWClosed, AddressClosed DEF FaultInTrap, TypeOK
<1>11. CASE UNCHANGED vars
  BY <1>11 DEF vars, TypeOK
<1> QED
  BY <1>1, <1>2, <1>3, <1>4, <1>5, <1>6, <1>7, <1>8, <1>9, <1>10, <1>11 DEF Next

\* R6, the save slots and the PSW stay within their widths.
THEOREM ModesTypeCorrect == Spec => []TypeOK
BY InitTypeOK, NextTypeOK, PTL DEF Spec

-----------------------------------------------------------------------------

\* writePSW() moves no mode's stack pointer but the current one's.
LEMMA WritePSWStacks ==
  ASSUME TypeOK, NEW p \in PSWord, NEW a \in Address, WritePSW(p, a)
  PROVE  StackOf' = [StackOf EXCEPT ![psw.cur] = a]
<1>1. psw' = p /\ stackpointer' = [stackpointer EXCEPT ![psw.cur] = a]
      /\ r6' = stackpointer'[p.cur]
  BY DEF WritePSW
<1>2. stackpointer \in [Modes -> Address] /\ psw.cur \in Modes /\ p.cur \in Modes
  BY DEF TypeOK, PSWord
<1>3. StackOf' = stackpointer'
  <2>1. StackOf' = [m \in Modes |-> IF m = p.cur THEN r6' ELSE stackpointer'[m]]
    BY <1>1 DEF StackOf
  <2> QED
    BY <1>1, <1>2, <2>1
<1>4. [StackOf EXCEPT ![psw.cur] = a] = [stackpointer EXCEPT ![psw.cur] = a]
  BY <1>2 DEF StackOf
<1> QED
  BY <1>1, <1>3, <1>4

LEMMA NextStacks == TypeOK /\ [Next]_vars => [Stacks!Next]_(Stacks!vars)
<1> SUFFICES ASSUME TypeOK, [Next]_vars PROVE [Stacks!Next]_(Stacks!vars)
  OBVIOUS
<1>0. /\ psw \in PSWord /\ r6 \in Address /\ stackpointer \in [Modes -> Address]
      /\ psw.cur \in Modes /\ psw.prev \in Modes
      /\ StackOf \in [Modes -> Address] /\ StackOf[psw.cur] = r6
  BY DEF TypeOK, PSWord, StackOf
<1> DEFINE inCC(c) == [psw EXCEPT !.cc = c]
<1>1. CASE Execute
  <2>1. PICK c \in SUBSET Flags : psw' = inCC(c)
    BY <1>1 DEF Execute
  <2>2. StackOf' = [StackOf EXCEPT ![psw.cur] = r6'] /\ r6' \in Address
    BY <1>0, <1>1, <2>1, PSWClosed DEF Execute, StackOf
  <2>3. Stacks!Execute
    BY <1>1, <2>1, <2>2 DEF Execute, Stacks!Execute, Stacks!Address, Address
  <2> QED
    BY <2>3 DEF Stacks!Next
<1>2. ASSUME NEW p \in PSWord, WritePSW(p, r6)
      PROVE  StackOf' = StackOf /\ psw' = p
  <2>1. StackOf' = [StackOf EXCEPT ![psw.cur] = r6]
    BY <1>0, <1>2, WritePSWStacks
  <2>2. psw' = p
    BY <1>2 DEF WritePSW
  <2> QED
    BY <1>0, <2>1, <2>2
<1>3. CASE SPL
  <2>1. PICK n \in Priorities : WritePSW(WithPriority(psw, n), r6)
    BY <1>3 DEF SPL
  <2>2. StackOf' = StackOf /\ psw' = WithPriority(psw, n)
    BY <1>0, <1>2, <2>1, PSWClosed
  <2>3. Stacks!SetPSW
    BY <1>3, <2>2 DEF SPL, Stacks!SetPSW, Stacks!WithPriority, WithPriority
  <2> QED
    BY <2>3 DEF Stacks!Next
<1>4. CASE CLRCC
  <2>1. PICK mask \in SUBSET Flags : WritePSW(ClearedCC(psw, mask), r6)
    BY <1>4 DEF CLRCC
  <2>2. StackOf' = StackOf /\ psw' = ClearedCC(psw, mask)
    BY <1>0, <1>2, <2>1, PSWClosed
  <2>3. Stacks!SetPSW
    BY <1>4, <2>2 DEF CLRCC, Stacks!SetPSW, Stacks!ClearedCC, ClearedCC
  <2> QED
    BY <2>3 DEF Stacks!Next
<1>5. CASE SETCC
  <2>1. PICK mask \in SUBSET Flags : WritePSW(WithCC(psw, mask), r6)
    BY <1>5 DEF SETCC
  <2>2. StackOf' = StackOf /\ psw' = WithCC(psw, mask)
    BY <1>0, <1>2, <2>1, PSWClosed
  <2>3. Stacks!SetPSW
    BY <1>5, <2>2 DEF SETCC, Stacks!SetPSW, Stacks!WithCC, WithCC
  <2> QED
    BY <2>3 DEF Stacks!Next
<1>6. CASE StorePSW
  <2>1. PICK p \in PSWord : WritePSW(p, r6)
    BY <1>6 DEF StorePSW
  <2>2. StackOf' = StackOf /\ psw' = p
    BY <1>2, <2>1
  <2>3. Stacks!SetPSW
    BY <1>6, <2>2 DEF StorePSW, Stacks!SetPSW, Stacks!PSWord, PSWord
  <2> QED
    BY <2>3 DEF Stacks!Next
<1>7. CASE RTT
  <2>1. PICK p \in PSWord : WritePSW(p, Up(r6, 2))
    BY <1>7 DEF RTT, Returned
  <2>2. StackOf' = [StackOf EXCEPT ![psw.cur] = Up(r6, 2)] /\ psw' = p
    <3>1. Up(r6, 2) \in Address
      BY <1>0, AddressClosed
    <3>2. psw' = p
      BY <2>1 DEF WritePSW
    <3> QED
      BY <1>0, <2>1, <3>1, <3>2, WritePSWStacks
  <2>3. StackOf' = [StackOf EXCEPT ![psw.cur] = Stacks!Up(@, 2)]
    BY <1>0, <2>2 DEF Stacks!Up, Up
  <2>4. Stacks!Return
    BY <1>7, <2>2, <2>3
    DEF RTT, Stacks!Return, Stacks!Returned, Stacks!PSWord, PSWord
  <2> QED
    BY <2>4 DEF Stacks!Next
<1>8. CASE MFPI
  <2>1. PICK c \in SUBSET Flags : psw' = inCC(c)
    BY <1>8 DEF MFPI
  <2>2. got' = StackOf[psw.prev]
    BY <1>0, <1>8 DEF MFPI, StackOf
  <2>3. StackOf' = [StackOf EXCEPT ![psw.cur] = Stacks!Down(@, 1)]
    BY <1>0, <1>8, <2>1, PSWClosed DEF MFPI, StackOf, Stacks!Down, Down
  <2>4. Stacks!MoveFrom
    BY <1>8, <2>1, <2>2, <2>3 DEF MFPI, Stacks!MoveFrom
  <2> QED
    BY <2>4 DEF Stacks!Next
<1>9. CASE MTPI
  <2>1. PICK c \in SUBSET Flags : psw' = inCC(c)
    BY <1>9 DEF MTPI
  <2>2. PICK a \in Address :
          IF psw.cur = psw.prev
          THEN r6' = a /\ UNCHANGED stackpointer
          ELSE /\ r6' = Up(r6, 1)
               /\ stackpointer' = [stackpointer EXCEPT ![psw.prev] = a]
    BY <1>9 DEF MTPI
  <2>3. StackOf' = [StackOf EXCEPT ![psw.cur] = Stacks!Up(@, 1), ![psw.prev] = a]
    <3>1. psw'.cur = psw.cur
      BY <1>0, <2>1, PSWClosed
    <3>2. CASE psw.cur = psw.prev
      BY <1>0, <2>2, <3>1, <3>2 DEF StackOf, Stacks!Up, Up
    <3>3. CASE psw.cur # psw.prev
      BY <1>0, <2>2, <3>1, <3>3 DEF StackOf, Stacks!Up, Up
    <3> QED
      BY <3>2, <3>3
  <2>4. Stacks!MoveTo
    BY <1>9, <2>1, <2>3 DEF MTPI, Stacks!MoveTo, Stacks!Address, Address
  <2> QED
    BY <2>4 DEF Stacks!Next
<1>a. 0 \in Modes /\ StackOf[0] = KernelR6
  BY <1>0, PSWAssumption DEF StackOf, KernelR6
<1>10. CASE Trap
  <2> DEFINE bank == [stackpointer EXCEPT ![psw.cur] = r6, ![0] = Down(KernelR6, 2)]
  <2>1. PICK v \in Vectors :
          psw' = Trapped(v, psw) /\ stackpointer' = bank /\ r6' = bank[v.cur]
    BY <1>10 DEF Trap
  <2>2. psw'.cur = v.cur /\ v.cur \in Modes
    BY <1>0, <2>1, PSWClosed, PSWAssumption DEF PSWord
  <2>3. StackOf' = bank
    BY <1>0, <2>1, <2>2 DEF StackOf
  <2>4. StackOf' = [StackOf EXCEPT ![0] = Stacks!Down(@, 2)]
    <3>1. bank = [StackOf EXCEPT ![0] = Down(KernelR6, 2)]
      BY <1>0, <1>a DEF StackOf
    <3> QED
      BY <1>0, <1>a, <2>3, <3>1 DEF Stacks!Down, Down
  <2>5. Stacks!Trap
    BY <1>10, <2>1, <2>4
    DEF Trap, Stacks!Trap, Stacks!Trapped, Stacks!OrMode, Stacks!Larger,
        Trapped, OrMode, Larger
  <2> QED
    BY <2>5 DEF Stacks!Next
<1>11. CASE FaultInTrap
  <2>1. PICK n \in 1 .. 2 : r6' = Down(KernelR6, n)
    BY <1>11 DEF FaultInTrap
  <2>2. psw'.cur = 0 /\ psw' = InKernelMode(psw)
        /\ stackpointer' = [stackpointer EXCEPT ![psw.cur] = r6]
    BY <1>0, <1>11 DEF FaultInTrap, InKernelMode, PSWord
  <2>3. StackOf' = [StackOf EXCEPT ![0] = Stacks!Down(@, n)]
    BY <1>0, <1>a, <2>1, <2>2 DEF StackOf, Stacks!Down, Down
  <2>4. Stacks!FaultInTrap
    BY <1>11, <2>2, <2>3
    DEF FaultInTrap, Stacks!FaultInTrap, Stacks!InKernelMode, InKernelMode
  <2> QED
    BY <2>4 DEF Stacks!Next
<1>12. CASE UNCHANGED vars
  BY <1>12 DEF vars, Stacks!vars, StackOf
<1> QED
  BY <1>1, <1>3, <1>4, <1>5, <1>6, <1>7, <1>8, <1>9, <1>10, <1>11, <1>12 DEF Next

LEMMA InitStacks == Init => Stacks!Init
BY PSWAssumption DEF Init, Stacks!Init, Stacks!ZeroPSW, ZeroPSW, StackOf

\* One R6 and the save slots implement a stack pointer for each mode.
THEOREM BanksAreStacksAlways == Spec => BanksAreStacks
BY InitStacks, NextStacks, ModesTypeCorrect, PTL
DEF Spec, BanksAreStacks, Stacks!Spec

=============================================================================
