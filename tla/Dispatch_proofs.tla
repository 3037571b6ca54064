--------------------------- MODULE Dispatch_proofs ---------------------------
(***************************************************************************)
(* Proofs about module Dispatch, for every table size, every vector and    *)
(* priority of the devices and every set of priorities the guest uses.     *)
(***************************************************************************)
EXTENDS Dispatch, TLAPS

InInterrupt == {"fast", "scanpri", "scanvec", "copy", "store", "setvec",
                "setpri"}

InPopIrq == {"pop", "lastvec", "lastpri"}

\* What interrupt() keeps of its indices, and popirq() of the order of its moves.
IndexOK ==
  /\ pc \in InInterrupt => job \in Sources
  /\ pc = "fast" => i = 0
  /\ pc \in {"copy", "store"} => i < j /\ j < NSlots
  /\ pc \in {"setvec", "setpri"} => i < NSlots
  /\ pc \notin InInterrupt \cup Stopped => i = 0
  /\ pc \notin InPopIrq \cup Stopped => todo = Moving /\ held = {}
  /\ pc = "pop" => \A s \in Moving \ (todo \cup held), r \in todo : r + 1 # s
  /\ pc \in {"lastvec", "lastpri"} => todo = {} /\ held = {}

TypeInv == TypeOK /\ IndexOK

-----------------------------------------------------------------------------

\* Filing keeps the table a table.
LEMMA FiledType ==
  ASSUME NEW t \in [Slot -> Entry], NEW e \in Entry, NEW p \in Slot
  PROVE  Filed(t, e, p) \in [Slot -> Entry]
BY NSlotsAssumption DEF Filed, Slot

LEMMA InitType == Init => TypeInv
<1> SUFFICES ASSUME Init PROVE TypeInv
  OBVIOUS
<1>1. 0 \in Slot /\ NoEntry \in Entry /\ EmptyTable \in [Slot -> Entry]
  BY NSlotsAssumption DEF Slot, NoEntry, Entry, EmptyTable
<1>2. TypeOK
  <2>1. 0 \in 0 .. NSlots /\ 0 \in 0 .. NSlots + 1
    BY NSlotsAssumption
  <2> QED
    BY <1>1, <2>1, DispatchAssumption DEF Init, TypeOK, PCs
<1>3. IndexOK
  BY DEF Init, IndexOK, InInterrupt, InPopIrq
<1> QED
  BY <1>2, <1>3 DEF TypeInv

\* The types and index bounds survive every step.
LEMMA NextType == TypeInv /\ [Next]_vars => TypeInv'
<1> SUFFICES ASSUME TypeInv, [Next]_vars PROVE TypeInv'
  OBVIOUS
<1> USE NSlotsAssumption, DispatchAssumption
<1> USE DEF TypeInv, TypeOK, IndexOK, PCs, Stopped, InInterrupt, InPopIrq, popping
<1>0. NoEntry \in Entry /\ EmptyTable \in [Slot -> Entry] /\ Sources \subseteq Entry
  BY DEF Slot, NoEntry, Entry, EmptyTable
<1>1. CASE Step
  BY <1>1 DEF Step, Goto, locals
<1>2. CASE CheckVec \/ CheckPri \/ InputSignal \/ TakeFault
  BY <1>2 DEF CheckVec, CheckPri, InputSignal, TakeFault, Goto, locals
<1>3. CASE TakeInterrupt
  BY <1>3 DEF TakeInterrupt, Goto, locals
<1>4. CASE RkStep
  BY <1>4 DEF RkStep, Goto, Call, locals, Sources
<1>5. CASE PollRecv
  BY <1>5 DEF PollRecv, Goto, Call, locals, Sources
<1>6. CASE PollXmit
  BY <1>6 DEF PollXmit, Goto, Call, locals, Sources
<1>7. CASE FastPath
  BY <1>7 DEF FastPath, locals
<1>8. CASE ScanPri
  BY <1>8 DEF ScanPri
<1>9. CASE ScanVec
  BY <1>9 DEF ScanVec
<1>10. CASE CopyLoad
  <2>1. j - 1 \in Slot
    BY <1>10 DEF CopyLoad, Slot
  <2> QED
    BY <1>10, <2>1 DEF CopyLoad
<1>11. CASE CopyStore
  <2>1. itab' \in [Slot -> Entry]
    BY <1>11 DEF CopyStore
  <2> QED
    BY <1>11, <2>1 DEF CopyStore
<1>12. CASE SetVec
  <2>1. i \in Slot /\ job.vec \in Nat
    BY <1>12, <1>0 DEF SetVec, Slot, Entry
  <2>2. itab' \in [Slot -> Entry]
    BY <1>12, <2>1 DEF SetVec, Entry
  <2> QED
    BY <1>12, <2>2 DEF SetVec, locals
<1>13. CASE SetPri
  <2>1. i \in Slot /\ job.pri \in Nat
    BY <1>13, <1>0 DEF SetPri, Slot, Entry
  <2>2. itab' \in [Slot -> Entry]
    BY <1>13, <2>1 DEF SetPri, Entry
  <2> QED
    BY <1>13, <1>0, <2>2 DEF SetPri, Leave
<1>14. CASE PopLoad
  <2>1. PICK s \in todo :
          /\ buf' = [buf EXCEPT ![s] = itab[s + 1]]
          /\ todo' = todo \ {s} /\ held' = held \cup {s}
    BY <1>14 DEF PopLoad
  <2>2. s \in Moving /\ s + 1 \in Slot
    BY <2>1 DEF Moving, Slot
  <2>3. buf' \in [Slot -> Entry]
    BY <2>1, <2>2
  <2>4. pc' = "pop" /\ i' = i /\ j' = j /\ job' = job /\ pc = "pop"
        /\ itab' = itab /\ cpl' = cpl /\ ie' = ie /\ back' = back /\ reg' = reg
    BY <1>14 DEF PopLoad
  <2> QED
    BY <2>1, <2>2, <2>3, <2>4
<1>15. CASE PopStore
  <2>1. PICK s \in held :
          /\ \A r \in todo : r + 1 # s
          /\ itab' = [itab EXCEPT ![s] = buf[s]]
          /\ buf' = [buf EXCEPT ![s] = NoEntry]
          /\ held' = held \ {s}
    BY <1>15 DEF PopStore
  <2>2. s \in Slot
    BY <2>1 DEF Moving, Slot
  <2>3. itab' \in [Slot -> Entry] /\ buf' \in [Slot -> Entry]
    BY <1>0, <2>1, <2>2
  <2>4. /\ pc = "pop" /\ i' = i /\ j' = j /\ job' = job /\ todo' = todo
        /\ cpl' = cpl /\ ie' = ie /\ back' = back /\ reg' = reg
        /\ pc' = IF todo \cup held' = {} THEN "lastvec" ELSE "pop"
    BY <1>15 DEF PopStore
  <2> QED
    BY <2>1, <2>3, <2>4
<1>16. CASE ClearLastVec
  <2>1. itab' \in [Slot -> Entry]
    BY <1>16 DEF ClearLastVec, Slot, Entry
  <2> QED
    BY <1>16, <2>1 DEF ClearLastVec, locals
<1>17. CASE ClearLastPri
  <2>1. itab' \in [Slot -> Entry]
    BY <1>17 DEF ClearLastPri, Slot, Entry
  <2> QED
    BY <1>17, <2>1, <1>0 DEF ClearLastPri, Leave
<1>18. CASE Tick
  <2>1. itab' \in [Slot -> Entry]
    <3> HIDE DEF TypeInv, IndexOK
    <3>1. itab \in [Slot -> Entry] /\ Clock \in Entry
      BY <1>0 DEF TypeInv, Sources
    <3>2. itab' = itab \/ \E q \in Slot : itab' = Filed(itab, Clock, q)
      BY <1>18 DEF Tick, Slot
    <3> QED
      BY <3>1, <3>2, FiledType
  <2> QED
    BY <1>18, <2>1 DEF Tick, locals
<1>19. CASE Gone \/ UNCHANGED vars
  BY <1>19 DEF Gone, vars, locals
<1> QED
  BY <1>1, <1>2, <1>3, <1>4, <1>5, <1>6, <1>7, <1>8, <1>9, <1>10, <1>11,
     <1>12, <1>13, <1>14, <1>15, <1>16, <1>17, <1>18, <1>19
  DEF Next, Loop, Interrupt, PopIrq

LEMMA TypeInvariance == Spec => []TypeInv
BY InitType, NextType, PTL DEF Spec

\* No access of interrupt() or popirq() leaves the table, and every variable
\* holds a value its C++ counterpart can hold.
THEOREM TypeCorrect == Spec => []TypeOK
<1>1. TypeInv => TypeOK
  BY DEF TypeInv
<1> QED
  BY <1>1, TypeInvariance, PTL

-----------------------------------------------------------------------------

\* An interrupt filed while slot 0 is in use never lowers the priority of the
\* entry in slot 0.
LEMMA HeadOutranks ==
  ASSUME NEW t \in [Slot -> Entry], NEW e \in Entry, e.vec # 0,
         NEW p \in Slot, Lands(t, e, p), ~Free(t, 0)
  PROVE  ~Free(Filed(t, e, p), 0) /\ Filed(t, e, p)[0].pri >= t[0].pri
<1> USE NSlotsAssumption
<1>0. 0 \in Slot /\ t[0].pri \in Nat /\ e.pri \in Nat
  BY DEF Slot, Entry
<1>1. CASE p = 0
  <2>1. PICK k \in 0 .. p : k < NSlots => StopsForPri(t, k, e)
    BY DEF Lands
  <2>2. t[0].pri < e.pri
    BY <1>0, <1>1, <2>1 DEF StopsForPri
  <2>3. Filed(t, e, p)[0] = e
    BY <1>0, <1>1 DEF Filed
  <2> QED
    BY <1>0, <2>2, <2>3 DEF Free
<1>2. CASE p > 0
  <2>1. Filed(t, e, p)[0] = t[0]
    BY <1>0, <1>2 DEF Filed
  <2> QED
    BY <1>0, <2>1 DEF Free
<1> QED
  BY <1>1, <1>2 DEF Slot

\* What the loop knows between the first and the last of its three reads.
HeadInv ==
  /\ pc = "pri" => ~Free(itab, 0)
  /\ TakenOutranksCpu

LEMMA NextHead == TypeInv /\ HeadInv /\ [Next]_vars => HeadInv'
<1> SUFFICES ASSUME TypeInv, HeadInv, [Next]_vars PROVE HeadInv'
  OBVIOUS
<1> USE NSlotsAssumption, DispatchAssumption DEF HeadInv, TakenOutranksCpu
<1>1. CASE CheckVec \/ CheckPri
  BY <1>1 DEF CheckVec, CheckPri, Goto, Free
<1>2. CASE Tick
  <2>1. CASE ie /\ pc \in {"pri", "take"}
    <3>1. PICK p \in 0 .. NSlots :
            /\ Lands(itab, Clock, p)
            /\ IF p = NSlots
               THEN pc' = "full" /\ UNCHANGED itab
               ELSE /\ itab' = Filed(itab, Clock, p)
                    /\ pc' = IF pc = "pause" THEN "vec" ELSE pc
      BY <1>2, <2>1 DEF Tick
    <3>2. CASE p = NSlots
      BY <3>1, <3>2
    <3>3. CASE p # NSlots
      <4>1. p \in Slot /\ Clock \in Entry /\ Clock.vec # 0
        BY <3>3 DEF Slot, Sources
      <4>2. ~Free(itab', 0) /\ itab'[0].pri >= itab[0].pri
        BY <2>1, <3>1, <3>3, <4>1, HeadOutranks DEF TypeInv, TypeOK
      <4>3. itab[0].pri \in Nat /\ itab'[0].pri \in Nat /\ cpl \in Nat
        <5>1. 0 \in Slot /\ itab \in [Slot -> Entry] /\ cpl \in Nat
          BY DEF TypeInv, TypeOK, Slot
        <5>2. itab' \in [Slot -> Entry]
          BY <3>1, <3>3, <4>1, <5>1, FiledType
        <5> QED
          BY <5>1, <5>2 DEF Entry
      <4>4. cpl' = cpl /\ pc' = pc
        BY <1>2, <2>1, <3>1, <3>3 DEF Tick
      <4> QED
        BY <4>2, <4>3, <4>4 DEF Free
    <3> QED
      BY <3>2, <3>3
  <2>2. CASE ie /\ pc \notin {"pri", "take"}
    BY <1>2, <2>2 DEF Tick
  <2>3. CASE ~ie
    BY <1>2, <2>3 DEF Tick, Free
  <2> QED
    BY <2>1, <2>2, <2>3
<1>3. CASE Step \/ TakeInterrupt \/ TakeFault
  BY <1>3 DEF Step, TakeInterrupt, TakeFault, Goto
<1>4. CASE RkStep \/ PollRecv \/ PollXmit
  BY <1>4 DEF RkStep, PollRecv, PollXmit, Goto, Call
<1>5. CASE Interrupt
  <2>1. back \in {"step", "recv", "xmit"}
    BY DEF TypeInv, TypeOK
  <2> QED
    BY <1>5, <2>1
    DEF Interrupt, FastPath, ScanPri, ScanVec, CopyLoad, CopyStore, SetVec,
        SetPri, Leave
<1>6. CASE PopIrq
  BY <1>6 DEF PopIrq, PopLoad, PopStore, ClearLastVec, ClearLastPri, Leave
<1>7. CASE InputSignal
  BY <1>7 DEF InputSignal, Goto
<1>8. CASE Gone \/ UNCHANGED vars
  BY <1>8 DEF Gone, vars, Free
<1> QED
  BY <1>1, <1>2, <1>3, <1>4, <1>5, <1>6, <1>7, <1>8 DEF Next, Loop

\* Whatever the clock's handler files between the three reads of the loop,
\* trapat() is called for an interrupt the processor priority admits.
THEOREM TakenOutranksCpuAlways == Spec => []TakenOutranksCpu
<1>1. Init => HeadInv
  BY DEF Init, HeadInv, TakenOutranksCpu
<1>2. HeadInv => TakenOutranksCpu
  BY DEF HeadInv
<1> QED
  BY <1>1, <1>2, NextHead, TypeInvariance, PTL DEF Spec

-----------------------------------------------------------------------------

\* Settled, access by access.
LEMMA SettledAt ==
  /\ pc \in {"copy", "store"} =>
       Settled = [s \in Slot |-> IF s < i THEN itab[s]
                                ELSE IF s = i THEN job ELSE itab[i]]
  /\ pc \in {"setvec", "setpri"} => Settled = [itab EXCEPT ![i] = job]
  /\ pc \in {"pop", "lastvec", "lastpri"} =>
       Settled = [s \in Slot |-> IF s = NSlots - 1 THEN NoEntry
                                ELSE IF s \in todo THEN itab[s + 1]
                                ELSE IF s \in held THEN buf[s] ELSE itab[s]]
  /\ pc \notin {"copy", "store", "setvec", "setpri", "pop", "lastvec", "lastpri"}
       => Settled = itab
BY DEF Settled

\* The same of the state after a step.
LEMMA SettledNext ==
  /\ pc' \in {"copy", "store"} =>
       Settled' = [s \in Slot |-> IF s < i' THEN itab'[s]
                                 ELSE IF s = i' THEN job' ELSE itab'[i']]
  /\ pc' \in {"setvec", "setpri"} => Settled' = [itab' EXCEPT ![i'] = job']
  /\ pc' \in {"pop", "lastvec", "lastpri"} =>
       Settled' = [s \in Slot |-> IF s = NSlots - 1 THEN NoEntry
                                 ELSE IF s \in todo' THEN itab'[s + 1]
                                 ELSE IF s \in held' THEN buf'[s] ELSE itab'[s]]
  /\ pc' \notin {"copy", "store", "setvec", "setpri", "pop", "lastvec", "lastpri"}
       => Settled' = itab'
BY DEF Settled

\* The moves of popirq() leave the table it will end with as it is.
LEMMA MovesSettle ==
  ASSUME TypeInv, PopLoad \/ PopStore \/ ClearLastVec
  PROVE  Settled' = Settled
<1> USE NSlotsAssumption
<1>0. /\ itab \in [Slot -> Entry] /\ buf \in [Slot -> Entry]
      /\ todo \subseteq Moving /\ held \subseteq Moving \ todo
      /\ IndexOK /\ \A s \in Slot : s # NSlots - 1 => s \in Moving
      /\ Moving \subseteq Slot /\ \A s \in Moving : s # NSlots - 1 /\ s + 1 \in Slot
  BY DEF TypeInv, TypeOK, Moving, Slot
<1> DEFINE S(t, x, h, b) ==
      [s \in Slot |-> IF s = NSlots - 1 THEN NoEntry
                      ELSE IF s \in x THEN t[s + 1]
                      ELSE IF s \in h THEN b[s] ELSE t[s]]
<1>1. CASE PopLoad
  <2>1. PICK s \in todo :
          /\ buf' = [buf EXCEPT ![s] = itab[s + 1]]
          /\ todo' = todo \ {s} /\ held' = held \cup {s}
    BY <1>1 DEF PopLoad
  <2>2. pc = "pop" /\ pc' = "pop" /\ itab' = itab /\ s \in Slot
    BY <1>0, <1>1 DEF PopLoad
  <2>3. Settled = S(itab, todo, held, buf) /\ Settled' = S(itab', todo', held', buf')
    BY <2>2, SettledAt, SettledNext
  <2>4. ASSUME NEW r \in Slot
        PROVE  S(itab', todo', held', buf')[r] = S(itab, todo, held, buf)[r]
    <3>1. CASE r = s
      BY <1>0, <2>1, <2>2, <3>1
    <3>2. CASE r # s
      BY <1>0, <2>1, <2>2, <3>2
    <3> QED
      BY <3>1, <3>2
  <2> QED
    BY <2>3, <2>4
<1>2. CASE PopStore
  <2>1. PICK s \in held :
          /\ \A r \in todo : r + 1 # s
          /\ itab' = [itab EXCEPT ![s] = buf[s]]
          /\ buf' = [buf EXCEPT ![s] = NoEntry]
          /\ held' = held \ {s}
    BY <1>2 DEF PopStore
  <2>2. pc = "pop" /\ pc' \in {"pop", "lastvec"} /\ todo' = todo /\ s \in Slot
    BY <1>0, <1>2 DEF PopStore
  <2>3. Settled = S(itab, todo, held, buf) /\ Settled' = S(itab', todo', held', buf')
    BY <2>2, SettledAt, SettledNext
  <2>4. ASSUME NEW r \in Slot
        PROVE  S(itab', todo', held', buf')[r] = S(itab, todo, held, buf)[r]
    <3>1. CASE r = s
      BY <1>0, <2>1, <2>2, <3>1
    <3>2. CASE r # s /\ r \in todo
      <4>1. r + 1 \in Slot /\ r + 1 # s /\ itab'[r + 1] = itab[r + 1]
        BY <1>0, <2>1, <2>2, <3>2
      <4> QED
        BY <1>0, <2>2, <3>2, <4>1
    <3>3. CASE r # s /\ r \notin todo
      BY <1>0, <2>1, <2>2, <3>3
    <3> QED
      BY <3>1, <3>2, <3>3
  <2> QED
    BY <2>3, <2>4
<1>3. CASE ClearLastVec
  <2>1. /\ pc = "lastvec" /\ pc' = "lastpri" /\ todo = {} /\ held = {}
        /\ todo' = {} /\ held' = {}
        /\ \A s \in Slot : s # NSlots - 1 => itab'[s] = itab[s]
    BY <1>0, <1>3 DEF ClearLastVec, IndexOK, locals, popping
  <2>2. Settled = S(itab, todo, held, buf) /\ Settled' = S(itab', todo', held', buf')
    BY <2>1, SettledAt, SettledNext
  <2>3. ASSUME NEW r \in Slot
        PROVE  S(itab', todo', held', buf')[r] = S(itab, todo, held, buf)[r]
    BY <2>1
  <2> QED
    BY <2>2, <2>3
<1> QED
  BY <1>1, <1>2, <1>3

-----------------------------------------------------------------------------
(* Only the handler leaves an entry behind a free slot, and only while     *)
(* popirq() holds a slot.                                                  *)

\* The first n slots are used.
Full(t, n) == \A s \in Slot : s < n => ~Free(t, s)

(***************************************************************************)
(* What each access may rely on, also in a table that has a gap.  The      *)
(* copying loop of interrupt() may free a slot the handler has just filled *)
(* while later ones are in use, so there only the slots before j are known *)
(* to be compact; the loop goes on and frees those as well.  An entry the  *)
(* handler files in the last slot while popirq() clears it has no gap      *)
(* before it.                                                              *)
(***************************************************************************)
StrandInv ==
  /\ pc \in {"scanpri", "scanvec", "copy", "store", "setvec", "setpri"} =>
       Full(itab, i)
  /\ pc \in {"scanpri", "scanvec", "copy", "store"} => ~Free(itab, 0)
  /\ pc \in {"copy", "store"} => CompactBelow(itab, j)
  /\ pc = "store" /\ reg.vec # 0 => ~Free(itab, j - 1)
  /\ pc = "setpri" => ~Free(itab, i)
  /\ pc = "lastpri" /\ ~Free(itab, NSlots - 1) => Full(itab, NSlots - 1)

\* The search passes no free slot.
LEMMA LandsFull ==
  ASSUME NEW t, NEW e, NEW p \in 0 .. NSlots, Lands(t, e, p)
  PROVE  Full(t, p)
<1>1. CASE Free(t, 0) /\ p = 0
  BY <1>1 DEF Full, Slot
<1>2. CASE ~(Free(t, 0) /\ p = 0)
  <2>1. PICK k \in 0 .. p :
          /\ \A s \in 0 .. k - 1 : ~StopsForPri(t, s, e)
          /\ \A s \in k .. p - 1 : ~StopsForVec(t, s, e)
    BY <1>2 DEF Lands
  <2>2. ASSUME NEW s \in Slot, s < p PROVE ~Free(t, s)
    <3>1. s \in 0 .. k - 1 \/ s \in k .. p - 1
      BY <2>1, <2>2, NSlotsAssumption DEF Slot
    <3> QED
      BY <2>1, <3>1 DEF StopsForPri, StopsForVec
  <2> QED
    BY <2>2 DEF Full
<1> QED
  BY <1>1, <1>2

\* Filing makes the table compact, from a used slot 0 even if it was not.
LEMMA FiledCompact ==
  ASSUME NEW t \in [Slot -> Entry], NEW e \in Entry, e.vec # 0,
         NEW p \in Slot, Lands(t, e, p), ~Free(t, 0) \/ Compact(t)
  PROVE  Compact(Filed(t, e, p))
<1> USE NSlotsAssumption
<1> DEFINE u == Filed(t, e, p)
<1> SUFFICES ASSUME NEW r \in Slot, NEW s \in Slot, r < s, Free(u, r)
             PROVE  Free(u, s)
  BY DEF Compact, CompactBelow
<1>1. CASE Free(t, 0)
  <2>1. u = [t EXCEPT ![0] = e]
    BY <1>1 DEF Filed
  <2>2. r # 0
    BY <2>1 DEF Free, Slot
  <2>3. Free(t, r)
    BY <2>1, <2>2 DEF Free
  <2>4. Free(t, s)
    BY <1>1, <2>3 DEF Compact, CompactBelow, Slot
  <2> QED
    BY <2>1, <2>2, <2>4 DEF Free, Slot
<1>2. CASE ~Free(t, 0)
  <2>1. \A x \in Slot : u[x] = IF x < p THEN t[x] ELSE IF x = p THEN e ELSE t[p]
    BY <1>2 DEF Filed
  <2>2. r > p
    <3>1. r >= p
      BY <2>1, LandsFull DEF Full, Free, Slot
    <3>2. r # p
      BY <2>1 DEF Free, Slot
    <3> QED
      BY <3>1, <3>2 DEF Slot
  <2>3. u[r] = t[p] /\ u[s] = t[p]
    BY <2>1, <2>2 DEF Slot
  <2> QED
    BY <2>3 DEF Free
<1> QED
  BY <1>1, <1>2

\* Filing frees no used slot of a compact prefix.
LEMMA FiledUsed ==
  ASSUME NEW t \in [Slot -> Entry], NEW e \in Entry, e.vec # 0,
         NEW p \in Slot, Lands(t, e, p),
         NEW n, CompactBelow(t, n), NEW s \in Slot, s < n, ~Free(t, s)
  PROVE  ~Free(Filed(t, e, p), s)
<1> USE NSlotsAssumption
<1>1. CASE Free(t, 0)
  BY <1>1 DEF Filed, Free
<1>2. CASE ~Free(t, 0)
  <2>1. Filed(t, e, p)[s] = IF s < p THEN t[s] ELSE IF s = p THEN e ELSE t[p]
    BY <1>2 DEF Filed
  <2>2. CASE s <= p
    BY <2>1, <2>2 DEF Free, Slot
  <2>3. CASE s > p
    <3>1. ~Free(t, p)
      BY <2>3 DEF CompactBelow
    <3> QED
      BY <2>1, <2>3, <3>1 DEF Free, Slot
  <2> QED
    BY <2>2, <2>3 DEF Slot
<1> QED
  BY <1>1, <1>2

\* Filing frees no slot of a used prefix.
LEMMA FiledFull ==
  ASSUME NEW t \in [Slot -> Entry], NEW e \in Entry, e.vec # 0,
         NEW p \in Slot, Lands(t, e, p), NEW n \in Nat, Full(t, n)
  PROVE  Full(Filed(t, e, p), n)
<1>1. CompactBelow(t, n)
  BY DEF Full, CompactBelow, Slot
<1>2. \A s \in Slot : s < n /\ ~Free(t, s) => ~Free(Filed(t, e, p), s)
  BY <1>1, FiledUsed
<1> QED
  BY <1>2 DEF Full

\* Filing puts an entry into the last slot only behind used ones.
LEMMA FiledLast ==
  ASSUME NEW t \in [Slot -> Entry], NEW e \in Entry, e.vec # 0,
         NEW p \in Slot, Lands(t, e, p),
         ~Free(t, NSlots - 1) => Full(t, NSlots - 1),
         ~Free(Filed(t, e, p), NSlots - 1)
  PROVE  Full(Filed(t, e, p), NSlots - 1)
<1> USE NSlotsAssumption
<1> DEFINE last == NSlots - 1
<1>0. last \in Slot /\ 0 \in Slot /\ 0 < last
  BY DEF Slot
<1>1. CASE Free(t, 0)
  <2>1. Filed(t, e, p)[last] = t[last]
    BY <1>0, <1>1 DEF Filed
  <2>2. ~Free(t, last)
    BY <2>1 DEF Free
  <2> QED
    BY <1>0, <1>1, <2>2 DEF Full
<1>2. CASE ~Free(t, 0)
  <2>1. \A x \in Slot : Filed(t, e, p)[x] =
                          IF x < p THEN t[x] ELSE IF x = p THEN e ELSE t[p]
    BY <1>2 DEF Filed
  <2>2. CASE p = last
    BY <2>2, LandsFull, FiledFull
  <2>3. CASE p # last
    <3>1. last > p
      BY <1>0, <2>3 DEF Slot
    <3>2. t[p].vec # 0
      BY <1>0, <2>1, <3>1 DEF Free, Slot
    <3>3. Full(t, p)
      BY LandsFull DEF Slot
    <3> QED
      BY <2>1, <3>2, <3>3 DEF Full, Free, Slot
  <2> QED
    BY <2>2, <2>3
<1> QED
  BY <1>1, <1>2

\* The table made of the slots of t that f names.
Chosen(t, f) ==
  [s \in Slot |-> IF s = NSlots - 1 THEN NoEntry ELSE t[f[s]]]

\* Filing leaves a choice of slots in their order as compact as it was.
LEMMA FiledChosen ==
  ASSUME NEW t \in [Slot -> Entry], NEW e \in Entry, e.vec # 0,
         NEW p \in Slot, Lands(t, e, p),
         NEW f \in [Moving -> Slot],
         \A r, s \in Moving : r < s => f[r] < f[s],
         Compact(Chosen(t, f))
  PROVE  Compact(Chosen(Filed(t, e, p), f))
<1> USE NSlotsAssumption
<1> DEFINE u == Filed(t, e, p)
           m == Chosen(t, f)
           w == Chosen(u, f)
<1>0. \A x \in Slot : x # NSlots - 1 =>
        x \in Moving /\ f[x] \in Slot /\ m[x] = t[f[x]] /\ w[x] = u[f[x]]
  BY DEF Chosen, Moving, Slot
<1>m. \A x, y \in Slot : x < y /\ Free(m, x) => Free(m, y)
  BY DEF Compact, CompactBelow, Slot
<1>last. w[NSlots - 1].vec = 0
  BY DEF Chosen, NoEntry, Slot
<1> SUFFICES ASSUME NEW r \in Slot, NEW s \in Slot, r < s, Free(w, r),
                    s # NSlots - 1
             PROVE  Free(w, s)
  BY <1>last DEF Compact, CompactBelow, Free
<1>r. /\ r # NSlots - 1 /\ r \in Moving /\ s \in Moving
      /\ f[r] \in Slot /\ f[s] \in Slot /\ f[r] < f[s]
      /\ m[r] = t[f[r]] /\ m[s] = t[f[s]] /\ w[r] = u[f[r]] /\ w[s] = u[f[s]]
  BY <1>0 DEF Slot
<1> HIDE DEF u, m, w
<1>1. CASE Free(t, 0)
  <2>1. u[0] = e /\ \A x \in Slot : x # 0 => u[x] = t[x]
    BY <1>1 DEF u, Filed, Slot
  <2>2. f[r] # 0 /\ f[s] # 0
    BY <1>r, <2>1 DEF Free, Slot
  <2>3. w[r] = m[r] /\ w[s] = m[s]
    BY <1>r, <2>1, <2>2
  <2> QED
    BY <1>m, <2>3 DEF Free
<1>2. CASE ~Free(t, 0)
  <2>1. \A x \in Slot : u[x] = IF x < p THEN t[x] ELSE IF x = p THEN e ELSE t[p]
    BY <1>2 DEF u, Filed
  <2>2. f[r] > p
    <3>1. f[r] >= p
      BY <1>r, <2>1, LandsFull DEF Full, Free, Slot
    <3>2. f[r] # p
      BY <1>r, <2>1 DEF Free, Slot
    <3> QED
      BY <1>r, <3>1, <3>2 DEF Slot
  <2>3. u[f[r]] = t[p] /\ u[f[s]] = t[p]
    BY <1>r, <2>1, <2>2 DEF Slot
  <2> QED
    BY <1>r, <2>3 DEF Free
<1> QED
  BY <1>1, <1>2

\* An entry put behind used slots of a compact table leaves it compact.
LEMMA PutCompact ==
  ASSUME NEW t \in [Slot -> Entry], NEW e \in Entry, e.vec # 0,
         NEW p \in Slot, Full(t, p), Compact(t)
  PROVE  Compact([t EXCEPT ![p] = e])
<1> DEFINE u == [t EXCEPT ![p] = e]
<1>1. u[p] = e /\ \A x \in Slot : x # p => u[x] = t[x]
  OBVIOUS
<1> HIDE DEF u
<1> SUFFICES ASSUME NEW r \in Slot, NEW s \in Slot, r < s, Free(u, r)
             PROVE  Free(u, s)
  BY DEF Compact, CompactBelow, u
<1>2. r # p /\ Free(t, r)
  BY <1>1 DEF Free
<1>3. s # p
  BY <1>2 DEF Full
<1>4. Free(t, s)
  BY <1>2, NSlotsAssumption DEF Compact, CompactBelow, Slot
<1> QED
  BY <1>1, <1>3, <1>4 DEF Free

\* The copying loop ends in a compact table, wherever it is.
LEMMA RoomCompact ==
  ASSUME NEW t \in [Slot -> Entry], NEW e \in Entry, e.vec # 0,
         NEW p \in Slot, Full(t, p)
  PROVE  Compact([s \in Slot |-> IF s < p THEN t[s]
                                 ELSE IF s = p THEN e ELSE t[p]])
BY NSlotsAssumption DEF Full, Compact, CompactBelow, Free, Slot

\* Each store of the copying loop lengthens the compact part of the table.
LEMMA StoreExtends ==
  ASSUME TypeInv, StrandInv, CopyStore
  PROVE  /\ Full(itab', i) /\ ~Free(itab', 0) /\ CompactBelow(itab', j + 1)
         /\ ~Free(itab', j) <=> reg.vec # 0
<1> USE NSlotsAssumption, DispatchAssumption DEF StrandInv
<1>0. /\ itab \in [Slot -> Entry]
      /\ i \in Nat /\ j \in Nat /\ 0 \in Slot /\ IndexOK
  BY DEF TypeInv, TypeOK, Slot
<1>1. i < j /\ j < NSlots /\ j \in Slot
  BY <1>0 DEF CopyStore, IndexOK, Slot
<1>2. \A s \in Slot : itab'[s] = IF s = j THEN reg ELSE itab[s]
  BY <1>0 DEF CopyStore
<1>3. Full(itab', i) /\ ~Free(itab', 0)
  BY <1>0, <1>1, <1>2 DEF CopyStore, Full, Free, Slot
<1>4. CompactBelow(itab', j + 1)
  <2> SUFFICES ASSUME NEW r \in Slot, NEW s \in Slot, r < s, s < j + 1,
                      Free(itab', r)
               PROVE  Free(itab', s)
    BY DEF CompactBelow
  <2>1. Free(itab, r)
    BY <1>1, <1>2 DEF Free, Slot
  <2>2. CASE s < j
    BY <1>2, <2>1, <2>2 DEF CopyStore, CompactBelow, Free, Slot
  <2>3. CASE s = j
    <3>1. Free(itab, j - 1)
      <4>1. j - 1 \in Slot /\ r <= j - 1
        BY <1>1, <2>3, <1>0 DEF Slot
      <4> QED
        BY <1>0, <2>1, <4>1 DEF CopyStore, CompactBelow, Slot
    <3>2. reg.vec = 0
      BY <3>1 DEF CopyStore
    <3> QED
      BY <1>1, <1>2, <2>3, <3>2 DEF Free
  <2> QED
    BY <1>1, <2>2, <2>3 DEF Slot
<1>5. ~Free(itab', j) <=> reg.vec # 0
  BY <1>1, <1>2 DEF Free
<1> QED
  BY <1>3, <1>4, <1>5

\* Every step keeps StrandInv.
LEMMA NextStrand == TypeInv /\ StrandInv /\ [Next]_vars => StrandInv'
<1> SUFFICES ASSUME TypeInv, StrandInv, [Next]_vars PROVE StrandInv'
  OBVIOUS
<1> USE NSlotsAssumption, DispatchAssumption DEF StrandInv
<1>0. /\ itab \in [Slot -> Entry]
      /\ i \in Nat /\ j \in Nat /\ 0 \in Slot
      /\ pc \in PCs /\ IndexOK
      /\ back \in {"step", "recv", "xmit"}
  BY DEF TypeInv, TypeOK, Slot
<1>1. CASE Step \/ CheckVec \/ CheckPri \/ TakeInterrupt \/ TakeFault
  BY <1>1
  DEF Step, CheckVec, CheckPri, TakeInterrupt, TakeFault, Goto, locals
<1>2. CASE RkStep \/ PollRecv \/ PollXmit \/ InputSignal
  BY <1>2 DEF RkStep, PollRecv, PollXmit, InputSignal, Goto, Call
<1>3. CASE FastPath
  BY <1>3, <1>0
  DEF FastPath, locals, Full, IndexOK, InInterrupt, Slot
<1>4. CASE ScanPri
  <2>1. CASE i < NSlots /\ ~StopsForPri(itab, i, job)
    <3>1. Full(itab, i + 1)
      BY <1>4, <1>0, <2>1 DEF ScanPri, Full, StopsForPri, Slot
    <3> QED
      BY <1>4, <2>1, <3>1 DEF ScanPri
  <2>2. CASE ~(i < NSlots /\ ~StopsForPri(itab, i, job))
    BY <1>4, <2>2 DEF ScanPri
  <2> QED
    BY <2>1, <2>2
<1>5. CASE ScanVec
  <2>1. CASE i < NSlots /\ ~StopsForVec(itab, i, job)
    <3>1. Full(itab, i + 1)
      BY <1>5, <1>0, <2>1 DEF ScanVec, Full, StopsForVec, Slot
    <3> QED
      BY <1>5, <2>1, <3>1 DEF ScanVec
  <2>2. CASE ~(i < NSlots /\ ~StopsForVec(itab, i, job))
    <3>1. CompactBelow(itab, i + 1)
      BY <1>5, <1>0 DEF ScanVec, Full, CompactBelow, Slot
    <3> QED
      BY <1>5, <2>2, <3>1 DEF ScanVec
  <2> QED
    BY <2>1, <2>2
<1>6. CASE CopyLoad
  BY <1>6 DEF CopyLoad, Free
<1>7. CASE CopyStore
  <2>1. /\ Full(itab', i) /\ ~Free(itab', 0) /\ CompactBelow(itab', j + 1)
        /\ ~Free(itab', j) <=> reg.vec # 0
    BY <1>7, StoreExtends
  <2>2. /\ i' = i /\ j' = j + 1 /\ j' - 1 = j /\ reg' = reg
        /\ pc' \in {"copy", "store", "setvec"}
    BY <1>7, <1>0 DEF CopyStore
  <2> QED
    BY <2>1, <2>2
<1>8. CASE SetVec
  <2>1. i \in Slot /\ job.vec # 0
    BY <1>8, <1>0 DEF SetVec, IndexOK, InInterrupt, Slot
  <2>2. /\ \A s \in Slot : s # i => itab'[s] = itab[s]
        /\ ~Free(itab', i)
    BY <1>8, <1>0, <2>1 DEF SetVec, Free
  <2>3. Full(itab', i)
    BY <1>8, <2>1, <2>2 DEF SetVec, Full, Free, Slot
  <2> QED
    BY <1>8, <2>2, <2>3 DEF SetVec, locals
<1>9. CASE SetPri
  BY <1>9, <1>0 DEF SetPri, Leave
<1>10. CASE PopLoad
  BY <1>10 DEF PopLoad
<1>11. CASE PopStore
  BY <1>11 DEF PopStore
<1>12. CASE ClearLastVec
  <2>1. Free(itab', NSlots - 1)
    BY <1>12, <1>0 DEF ClearLastVec, Free, Slot
  <2> QED
    BY <1>12, <2>1 DEF ClearLastVec
<1>13. CASE ClearLastPri
  BY <1>13 DEF ClearLastPri, Leave
<1>14. CASE Tick
  <2>1. CASE ~ie
    BY <1>14, <2>1 DEF Tick, locals, Free, Full, CompactBelow, popping
  <2>2. CASE ie
    <3>1. PICK p \in 0 .. NSlots :
            /\ Lands(itab, Clock, p)
            /\ IF p = NSlots
               THEN pc' = "full" /\ UNCHANGED itab
               ELSE /\ itab' = Filed(itab, Clock, p)
                    /\ pc' = IF pc = "pause" THEN "vec" ELSE pc
      BY <1>14, <2>2 DEF Tick
    <3>2. UNCHANGED locals
      BY <1>14 DEF Tick
    <3>3. CASE p = NSlots
      BY <3>1, <3>3
    <3>4. CASE p # NSlots
      <4>1. p \in Slot /\ Clock \in Entry /\ Clock.vec # 0
        BY <3>4 DEF Slot, Sources
      <4>2. /\ itab' = Filed(itab, Clock, p)
            /\ pc' = IF pc = "pause" THEN "vec" ELSE pc
            /\ i' = i /\ j' = j /\ reg' = reg
        BY <3>1, <3>2, <3>4 DEF locals
      <4> HIDE DEF StrandInv
      <4>3. ~Free(itab, 0) => Compact(itab')
        BY <1>0, <3>1, <4>1, <4>2, FiledCompact
      <4>4. \A n : \A s \in Slot :
              CompactBelow(itab, n) /\ s < n /\ ~Free(itab, s)
                => ~Free(itab', s)
        BY <1>0, <3>1, <4>1, <4>2, FiledUsed
      <4>5. \A n \in Nat : Full(itab, n) => Full(itab', n)
        BY <1>0, <3>1, <4>1, <4>2, FiledFull
      <4>6. ~Free(itab, 0) => ~Free(itab', 0)
        <5>1. ~Free(itab, 0) => Full(itab, 1)
          BY DEF Full, Slot
        <5>2. Full(itab', 1) => ~Free(itab', 0)
          BY <1>0 DEF Full
        <5> QED
          BY <4>5, <5>1, <5>2
      <4>7. pc = "setpri" => ~Free(itab', i)
        <5> SUFFICES ASSUME pc = "setpri" PROVE ~Free(itab', i)
          OBVIOUS
        <5>1. i \in Slot /\ Full(itab, i) /\ ~Free(itab, i)
          BY <1>0 DEF StrandInv, IndexOK, Slot
        <5>2. Full(itab, i + 1)
          BY <5>1 DEF Full, Slot
        <5>3. i < i + 1 /\ i + 1 \in Nat
          BY <1>0
        <5>4. Full(itab', i + 1)
          BY <4>5, <5>2, <5>3
        <5> QED
          BY <5>1, <5>3, <5>4 DEF Full
      <4>8. pc \in {"copy", "store"} =>
              /\ CompactBelow(itab', j)
              /\ ~Free(itab, j - 1) => ~Free(itab', j - 1)
        <5> SUFFICES ASSUME pc \in {"copy", "store"}
                     PROVE  /\ CompactBelow(itab', j)
                            /\ ~Free(itab, j - 1) => ~Free(itab', j - 1)
          OBVIOUS
        <5>1. /\ ~Free(itab, 0) /\ CompactBelow(itab, j)
              /\ i < j /\ j < NSlots /\ j - 1 \in Slot /\ j - 1 < j
          BY <1>0 DEF StrandInv, IndexOK, Slot
        <5>2. Compact(itab')
          BY <4>3, <5>1
        <5>3. CompactBelow(itab', j)
          BY <5>1, <5>2, <1>0 DEF Compact, CompactBelow, Slot
        <5>4. ~Free(itab, j - 1) => ~Free(itab', j - 1)
          BY <4>4, <5>1
        <5> QED
          BY <5>3, <5>4
      <4>9. pc = "lastpri" /\ ~Free(itab', NSlots - 1) => Full(itab', NSlots - 1)
        <5> SUFFICES ASSUME pc = "lastpri", ~Free(itab', NSlots - 1)
                     PROVE  Full(itab', NSlots - 1)
          OBVIOUS
        <5>1. ~Free(itab, NSlots - 1) => Full(itab, NSlots - 1)
          BY DEF StrandInv
        <5> QED
          BY <1>0, <3>1, <4>1, <4>2, <5>1, FiledLast
      <4>10. pc' = pc \/ pc' = "vec"
        BY <4>2
      <4>11. CASE pc' = "vec"
        BY <4>11 DEF StrandInv
      <4>12. CASE pc' = pc
        BY <1>0, <4>2, <4>5, <4>6, <4>7, <4>8, <4>9, <4>12 DEF StrandInv
      <4> QED
        BY <4>10, <4>11, <4>12
    <3> QED
      BY <3>3, <3>4
  <2> QED
    BY <2>1, <2>2
<1>15. CASE Gone \/ UNCHANGED vars
  BY <1>15 DEF Gone, vars, locals, Free, Full, CompactBelow
<1> QED
  BY <1>1, <1>2, <1>3, <1>4, <1>5, <1>6, <1>7, <1>8, <1>9, <1>10, <1>11,
     <1>12, <1>13, <1>14, <1>15
  DEF Next, Loop, Interrupt, PopIrq

\* No step but a call of the handler while popirq() holds a slot makes a gap.
LEMMA NextGap ==
  ASSUME TypeInv, StrandInv, [Next]_vars, Compact(Settled),
         ~(Tick /\ held # {})
  PROVE  Compact(Settled')
<1> USE NSlotsAssumption, DispatchAssumption
<1>0. /\ itab \in [Slot -> Entry] /\ buf \in [Slot -> Entry]
      /\ i \in Nat /\ j \in Nat /\ 0 \in Slot /\ NSlots - 1 \in Slot
      /\ todo \subseteq Moving /\ held \subseteq Moving \ todo
      /\ IndexOK /\ back \in {"step", "recv", "xmit"}
      /\ (pc \in InInterrupt => job \in Entry /\ job.vec # 0)
  BY DEF TypeInv, TypeOK, IndexOK, Slot, Sources
<1>1. CASE Step \/ CheckVec \/ CheckPri \/ TakeFault \/ InputSignal
           \/ RkStep \/ PollRecv \/ PollXmit \/ ScanPri
  <2>1. /\ Settled = itab /\ itab' = itab
        /\ pc' \in {"vec", "pause", "fault", "halt", "rk", "pri", "take", "step",
                   "recv", "xmit", "fast", "scanpri", "scanvec"}
    BY <1>1, SettledAt
    DEF Step, CheckVec, CheckPri, TakeFault, InputSignal, RkStep, PollRecv,
        PollXmit, ScanPri, Goto, Call
  <2> QED
    BY <2>1, SettledNext
<1>2. CASE TakeInterrupt
  <2>1. Settled = itab /\ itab' = itab
    BY <1>2, SettledAt DEF TakeInterrupt
  <2>2. CASE pc' = "fault"
    BY <2>1, <2>2, SettledNext
  <2>3. CASE pc' = "pop"
    <3>1. todo' = Moving
      BY <1>2, <1>0, <2>3
      DEF TakeInterrupt, Goto, locals, popping, IndexOK, InPopIrq, Stopped
    <3>2. \A s \in Slot : Settled'[s] = IF s = NSlots - 1 THEN NoEntry
                                        ELSE itab[s + 1]
      BY <2>1, <2>3, <3>1, SettledNext DEF Moving, Slot
    <3> HIDE DEF StrandInv
    <3> SUFFICES ASSUME NEW r \in Slot, NEW s \in Slot, r < s, Free(Settled', r)
                 PROVE  Free(Settled', s)
      BY DEF Compact, CompactBelow
    <3>3. CASE s = NSlots - 1
      BY <3>2, <3>3 DEF Free, NoEntry
    <3>4. CASE s # NSlots - 1
      <4>1. r + 1 \in Slot /\ s + 1 \in Slot /\ r + 1 < s + 1 /\ s + 1 < NSlots
        BY <3>4 DEF Slot
      <4>2. Free(itab, r + 1)
        BY <3>2, <3>4 DEF Free, Slot
      <4>3. Free(itab, s + 1)
        BY <2>1, <4>1, <4>2 DEF Compact, CompactBelow
      <4> QED
        BY <3>2, <3>4, <4>3 DEF Free
    <3> QED
      BY <3>3, <3>4
  <2> QED
    BY <1>2, <2>2, <2>3 DEF TakeInterrupt, Goto
<1>3. CASE FastPath
  <2>1. Settled = itab /\ itab' = itab /\ i = 0 /\ i' = 0 /\ job' = job
    BY <1>3, <1>0, SettledAt DEF FastPath, locals, IndexOK
  <2>2. CASE Free(itab, 0)
    <3>1. Settled' = [itab EXCEPT ![0] = job]
      BY <1>3, <2>1, <2>2, SettledNext DEF FastPath
    <3>2. Full(itab, 0) /\ job \in Entry /\ job.vec # 0
      BY <1>3, <1>0 DEF FastPath, InInterrupt, Full, Slot
    <3> QED
      BY <1>0, <2>1, <3>1, <3>2, PutCompact
  <2>3. CASE ~Free(itab, 0)
    <3>1. Settled' = itab'
      BY <1>3, <2>3, SettledNext DEF FastPath
    <3> QED
      BY <2>1, <3>1
  <2> QED
    BY <2>2, <2>3
<1>4. CASE ScanVec
  <2>1. Settled = itab /\ itab' = itab /\ job' = job /\ Full(itab, i)
    BY <1>4, SettledAt DEF ScanVec, StrandInv
  <2>2. CASE pc' \in {"scanvec", "full"}
    BY <2>1, <2>2, SettledNext
  <2>3. CASE pc' = "copy"
    <3>1. i' = i
      BY <1>4, <2>3 DEF ScanVec
    <3>2. Settled' = [s \in Slot |-> IF s < i THEN itab[s]
                                    ELSE IF s = i THEN job ELSE itab[i]]
      BY <2>1, <2>3, <3>1, SettledNext
    <3>3. job \in Entry /\ job.vec # 0 /\ i \in Slot
      BY <1>4, <1>0, <2>3 DEF ScanVec, InInterrupt, Slot
    <3> QED
      BY <1>0, <2>1, <3>2, <3>3, RoomCompact
  <2>4. CASE pc' = "setvec"
    <3>1. i' = i /\ i \in Slot
      BY <1>4, <1>0, <2>4 DEF ScanVec, Slot
    <3>2. Settled' = [itab EXCEPT ![i] = job]
      BY <2>1, <2>4, <3>1, SettledNext
    <3>3. job \in Entry /\ job.vec # 0
      BY <1>4, <1>0 DEF ScanVec, InInterrupt
    <3> QED
      BY <1>0, <2>1, <3>1, <3>2, <3>3, PutCompact
  <2> QED
    BY <1>4, <2>2, <2>3, <2>4 DEF ScanVec
<1>5. CASE CopyLoad
  <2>1. Settled' = Settled
    BY <1>5 DEF CopyLoad, Settled
  <2> QED
    BY <2>1
<1>6. CASE CopyStore
  <2>1. i < j /\ j < NSlots /\ i \in Slot
    BY <1>6, <1>0 DEF CopyStore, IndexOK, Slot
  <2>2. /\ i' = i /\ job' = job /\ job \in Entry /\ job.vec # 0
        /\ itab' \in [Slot -> Entry] /\ Full(itab', i)
    BY <1>6, <1>0, NextType, StoreExtends
    DEF CopyStore, InInterrupt, TypeInv, TypeOK
  <2>3. CASE pc' \in {"copy", "store"}
    <3>1. Settled' = [s \in Slot |-> IF s < i THEN itab'[s]
                                    ELSE IF s = i THEN job ELSE itab'[i]]
      BY <2>2, <2>3, SettledNext
    <3> QED
      BY <2>1, <2>2, <3>1, RoomCompact
  <2>4. CASE pc' = "setvec"
    <3>1. Settled' = [itab' EXCEPT ![i] = job]
      BY <2>2, <2>4, SettledNext
    <3>2. j + 1 = NSlots
      BY <1>6, <1>0, <2>1, <2>4 DEF CopyStore
    <3>3. Compact(itab')
      BY <1>6, <3>2, StoreExtends DEF Compact
    <3> QED
      BY <2>1, <2>2, <3>1, <3>3, PutCompact
  <2> QED
    BY <1>6, <2>3, <2>4 DEF CopyStore
<1>7. CASE SetVec
  <2>1. Settled = [itab EXCEPT ![i] = job] /\ Settled' = [itab' EXCEPT ![i] = job]
    BY <1>7, SettledAt, SettledNext DEF SetVec, locals
  <2>2. Settled' = Settled
    BY <1>7, <1>0, <2>1 DEF SetVec
  <2> QED
    BY <2>2
<1>8. CASE SetPri
  <2>1. Settled = [itab EXCEPT ![i] = job] /\ ~Free(itab, i) /\ i \in Slot
    BY <1>8, <1>0, SettledAt DEF SetPri, StrandInv, IndexOK, Slot
  <2>2. Settled' = itab'
    BY <1>8, <1>0, SettledNext DEF SetPri, Leave
  <2>3. \A s \in Slot : Free(itab', s) <=> Free(Settled, s)
    BY <1>8, <1>0, <2>1 DEF SetPri, Free, InInterrupt
  <2> QED
    BY <2>2, <2>3 DEF Compact, CompactBelow
<1>9. CASE PopLoad \/ PopStore \/ ClearLastVec
  <2>1. Settled' = Settled
    BY <1>9, MovesSettle
  <2> QED
    BY <2>1
<1>10. CASE ClearLastPri
  <2>1. /\ Settled' = itab'
        /\ \A s \in Slot : Free(itab', s) <=> Free(itab, s)
        /\ \A s \in Slot : s # NSlots - 1 => Settled[s] = itab[s]
        /\ ~Free(itab, NSlots - 1) => Full(itab, NSlots - 1)
    BY <1>10, <1>0, SettledAt, SettledNext
    DEF ClearLastPri, Leave, IndexOK, StrandInv, Free
  <2> SUFFICES ASSUME NEW r \in Slot, NEW s \in Slot, r < s, Free(itab, r)
               PROVE  Free(itab, s)
    BY <2>1 DEF Compact, CompactBelow
  <2>2. r # NSlots - 1 /\ r < NSlots - 1
    BY DEF Slot
  <2>3. CASE s = NSlots - 1
    BY <2>1, <2>2, <2>3 DEF Full
  <2>4. CASE s # NSlots - 1
    BY <2>1, <2>2, <2>4 DEF Compact, CompactBelow, Free, Slot
  <2> QED
    BY <2>3, <2>4
<1>11. CASE Tick
  <2> HIDE DEF StrandInv
  <2>0. UNCHANGED locals /\ held = {}
    BY <1>11 DEF Tick
  <2>1. CASE itab' = itab
    <3>1. CASE pc' = pc
      <4>1. Settled' = Settled
        BY <2>0, <2>1, <3>1 DEF Settled, locals, popping
      <4> QED
        BY <4>1
    <3>2. CASE pc = "pause" /\ pc' = "vec"
      BY <2>1, <3>2, SettledAt, SettledNext
    <3>3. CASE pc # "pause" /\ pc' # pc
      <4>1. PICK p \in 0 .. NSlots : Lands(itab, Clock, p) /\ p = NSlots
        BY <1>11, <3>3 DEF Tick
      <4>2. Full(itab, NSlots) /\ pc' = "full"
        BY <1>11, <3>3, <4>1, LandsFull DEF Tick
      <4>3. Compact(itab)
        BY <4>2 DEF Full, Compact, CompactBelow, Slot
      <4> QED
        BY <2>1, <4>2, <4>3, SettledNext
    <3>4. CASE pc = "pause" /\ pc' = "full"
      BY <2>1, <3>4, SettledAt, SettledNext
    <3> QED
      BY <1>11, <3>1, <3>2, <3>3, <3>4 DEF Tick
  <2>2. CASE itab' # itab
    <3>1. PICK p \in 0 .. NSlots :
            /\ Lands(itab, Clock, p) /\ p # NSlots
            /\ itab' = Filed(itab, Clock, p)
            /\ pc' = IF pc = "pause" THEN "vec" ELSE pc
      BY <1>11, <2>2 DEF Tick
    <3>2. /\ p \in Slot /\ Clock \in Entry /\ Clock.vec # 0
          /\ itab' \in [Slot -> Entry] /\ i' = i /\ job' = job
      <4>1. p \in Slot /\ Clock \in Entry /\ Clock.vec # 0
        BY <3>1 DEF Slot, Sources
      <4>2. itab' \in [Slot -> Entry]
        BY <1>0, <3>1, <4>1, FiledType
      <4> QED
        BY <2>0, <4>1, <4>2 DEF locals
    <3>3. CASE pc \in {"copy", "store"}
      <4>1. Full(itab', i) /\ i \in Slot /\ job \in Entry /\ job.vec # 0
        BY <1>0, <3>1, <3>2, <3>3, FiledFull DEF StrandInv, IndexOK, InInterrupt, Slot
      <4>2. Settled' = [s \in Slot |-> IF s < i THEN itab'[s]
                                      ELSE IF s = i THEN job ELSE itab'[i]]
        BY <3>1, <3>2, <3>3, SettledNext
      <4> QED
        BY <3>2, <4>1, <4>2, RoomCompact
    <3>4. CASE pc \in {"setvec", "setpri"}
      <4>1. /\ Full(itab, i) /\ Full(itab', i) /\ i \in Slot
            /\ job \in Entry /\ job.vec # 0
        BY <1>0, <3>1, <3>2, <3>4, FiledFull DEF StrandInv, IndexOK, InInterrupt, Slot
      <4>2. Settled = [itab EXCEPT ![i] = job] /\ Settled' = [itab' EXCEPT ![i] = job]
        BY <3>1, <3>2, <3>4, SettledAt, SettledNext
      <4>3. CASE Free(itab, 0)
        <5>1. i = 0 /\ itab' = [itab EXCEPT ![0] = Clock]
          BY <1>0, <3>1, <4>1, <4>3 DEF Full, Filed, Slot
        <5>2. Settled' = Settled
          BY <1>0, <4>2, <5>1
        <5> QED
          BY <5>2
      <4>4. CASE ~Free(itab, 0)
        <5>1. Compact(itab')
          BY <1>0, <3>1, <3>2, <4>4, FiledCompact
        <5> QED
          BY <3>2, <4>1, <4>2, <5>1, PutCompact
      <4> QED
        BY <4>3, <4>4
    <3>5. CASE pc \in {"pop", "lastvec", "lastpri"}
      <4> DEFINE f == [s \in Moving |-> IF s \in todo THEN s + 1 ELSE s]
      <4>1. f \in [Moving -> Slot]
        BY DEF Moving, Slot
      <4>2. \A r, s \in Moving : r < s => f[r] < f[s]
        <5> SUFFICES ASSUME NEW r \in Moving, NEW s \in Moving, r < s
                     PROVE  f[r] < f[s]
          OBVIOUS
        <5>1. r \in todo /\ s \notin todo => r + 1 # s
          BY <1>0, <2>0, <3>5 DEF IndexOK
        <5> QED
          BY <5>1 DEF Moving
      <4>3. Settled = Chosen(itab, f)
        BY <1>0, <2>0, <3>5, SettledAt DEF Chosen, Moving, Slot
      <4>4. todo' = todo /\ held' = {} /\ pc' = pc
        BY <2>0, <3>1, <3>5 DEF locals, popping
      <4>5. Settled' = Chosen(itab', f)
        BY <3>2, <3>5, <4>4, SettledNext DEF Chosen, Moving, Slot
      <4> HIDE DEF f
      <4> QED
        BY <1>0, <3>1, <3>2, <4>1, <4>2, <4>3, <4>5, FiledChosen
    <3>6. CASE pc \notin {"copy", "store", "setvec", "setpri", "pop", "lastvec",
                          "lastpri"}
      <4>1. Settled = itab /\ Settled' = itab'
        BY <3>1, <3>6, SettledAt, SettledNext
      <4> QED
        BY <1>0, <3>1, <3>2, <4>1, FiledCompact
    <3> QED
      BY <3>3, <3>4, <3>5, <3>6
  <2> QED
    BY <2>1, <2>2
<1>12. CASE Gone \/ UNCHANGED vars
  <2>1. Settled' = Settled
    BY <1>12 DEF Gone, vars, locals, popping, Settled
  <2> QED
    BY <2>1
<1> QED
  BY <1>1, <1>2, <1>3, <1>4, <1>5, <1>6, <1>7, <1>8, <1>9, <1>10, <1>11, <1>12
  DEF Next, Loop, Interrupt, PopIrq

\* Whatever the handler files, and whenever, an entry gets behind a free slot
\* only while popirq() holds a slot it has loaded and not yet stored.
THEOREM OnlyPopStrandsAlways == Spec => OnlyPopStrands
<1>1. Init => StrandInv
  BY DEF Init, StrandInv
<1>2. TypeInv /\ StrandInv /\ [Next]_vars =>
        [Compact(Settled) /\ ~Compact(Settled)' => Tick /\ held # {}]_vars
  <2>1. Compact(Settled)' <=> Compact(Settled')
    BY DEF Compact, CompactBelow, Free
  <2> QED
    BY <2>1, NextGap
<1> QED
  BY <1>1, <1>2, NextStrand, TypeInvariance, PTL DEF Spec, OnlyPopStrands

-----------------------------------------------------------------------------
(***************************************************************************)
(* While the clock is disabled, the accesses of interrupt() and popirq()   *)
(* implement the atomic operations of IrqTableSpec, whatever the size of   *)
(* the table, whatever the handler has made of it before, and however the  *)
(* compiler copies the slots.                                              *)
(***************************************************************************)

\* The first search has passed slots 0 .. k - 1 and the second k .. i - 1.
Searched(k) ==
  /\ \A s \in 0 .. k - 1 : ~StopsForPri(itab, s, job)
  /\ k < NSlots => StopsForPri(itab, k, job)
  /\ \A s \in k .. i - 1 : ~StopsForVec(itab, s, job)

(***************************************************************************)
(* What the thread knows at each access when nobody else files: where the  *)
(* searches have been, what the copying loop holds and has stored, which   *)
(* half of a slot is already set.                                          *)
(***************************************************************************)
Serial ==
  /\ pc \in InInterrupt => job \in Uses
  /\ pc \in {"scanpri", "scanvec"} => ~Free(itab, 0)
  /\ pc = "scanpri" => \A s \in 0 .. i - 1 : ~StopsForPri(itab, s, job)
  /\ pc = "scanvec" => \E k \in 0 .. i : Searched(k)
  /\ pc \in {"copy", "store"} =>
       \A s \in Slot : i < s /\ s < j => itab[s] = itab[i]
  /\ pc = "store" => reg = itab[i]
  /\ pc = "setpri" => itab[i].vec = job.vec
  /\ pc = "lastpri" => itab[NSlots - 1].vec = 0

SerialInv == ~ie => Serial

LEMMA InitSerial == Init => SerialInv
BY DEF Init, SerialInv, Serial, InInterrupt

\* Only an instruction enables or disables the clock, and no call is under way
\* then: a call that ends with the clock disabled has begun so.
LEMMA NextSerial == TypeInv /\ HeadInv /\ SerialInv /\ [Next]_vars => SerialInv'
<1> SUFFICES ASSUME TypeInv, HeadInv, SerialInv, [Next]_vars, ~ie' PROVE Serial'
  BY DEF SerialInv
<1>s. CASE Step
  BY <1>s DEF Step, Goto, Serial, InInterrupt
<1> SUFFICES ASSUME ~Step PROVE Serial'
  BY <1>s
<1>e. ie' = ie
  BY DEF Next, Loop, Interrupt, PopIrq, CheckVec, CheckPri, TakeInterrupt,
     TakeFault, RkStep, PollRecv, PollXmit, FastPath, ScanPri, ScanVec,
     CopyLoad, CopyStore, SetVec, SetPri, PopLoad, PopStore, ClearLastVec,
     ClearLastPri, Tick, InputSignal, Gone, vars
<1>i. ~ie /\ Serial
  BY <1>e DEF SerialInv
<1> USE <1>i, NSlotsAssumption, DispatchAssumption DEF Serial, InInterrupt
<1>0. /\ itab \in [Slot -> Entry] /\ i \in Nat /\ j \in Nat /\ 0 \in Slot
      /\ IndexOK /\ back \in {"step", "recv", "xmit"} /\ i \in 0 .. NSlots
  BY DEF TypeInv, TypeOK, Slot
<1>1. CASE CheckVec \/ CheckPri \/ TakeFault \/ InputSignal
  BY <1>1 DEF CheckVec, CheckPri, TakeFault, InputSignal, Goto
<1>2. CASE TakeInterrupt
  BY <1>2 DEF TakeInterrupt, Goto
<1>3. CASE RkStep \/ PollRecv \/ PollXmit
  BY <1>3 DEF RkStep, PollRecv, PollXmit, Goto, Call
<1>4. CASE FastPath
  BY <1>4, <1>0 DEF FastPath, locals, IndexOK, Free
<1>5. CASE ScanPri
  <2>1. CASE i < NSlots /\ ~StopsForPri(itab, i, job)
    <3>1. \A s \in 0 .. (i + 1) - 1 : ~StopsForPri(itab, s, job)
      <4>1. \A s \in 0 .. (i + 1) - 1 : s \in 0 .. i - 1 \/ s = i
        BY <1>0
      <4> QED
        BY <1>5, <2>1, <4>1 DEF ScanPri
    <3> QED
      BY <1>5, <2>1, <3>1 DEF ScanPri, StopsForPri, Free
  <2>2. CASE ~(i < NSlots /\ ~StopsForPri(itab, i, job))
    <3>1. Searched(i)
      BY <1>5, <1>0, <2>2 DEF ScanPri, Searched
    <3>2. Searched(i)'
      BY <1>5, <2>2, <3>1
      DEF ScanPri, Searched, StopsForPri, StopsForVec, Free
    <3>3. i' \in 0 .. i'
      BY <1>5, <1>0, <2>2 DEF ScanPri
    <3> QED
      BY <1>5, <2>2, <3>2, <3>3 DEF ScanPri, Free, Searched
  <2> QED
    BY <2>1, <2>2
<1>6. CASE ScanVec
  <2>1. CASE i < NSlots /\ ~StopsForVec(itab, i, job)
    <3>1. PICK k \in 0 .. i : Searched(k)
      BY <1>6 DEF ScanVec
    <3>2. \A s \in k .. (i + 1) - 1 : s \in k .. i - 1 \/ s = i
      BY <1>0
    <3>3. /\ i' = i + 1 /\ itab' = itab /\ job' = job
          /\ pc' = "scanvec" /\ ie' = ie
      BY <1>6, <2>1 DEF ScanVec
    <3>4. Searched(k)'
      BY <2>1, <3>1, <3>2, <3>3
      DEF Searched, StopsForPri, StopsForVec, Free
    <3>5. k \in 0 .. i'
      BY <1>0, <3>3
    <3>6. (\E x \in 0 .. i : Searched(x))'
      BY <3>4, <3>5
    <3>7. ~Free(itab', 0) /\ job \in Uses
      BY <1>6, <3>3 DEF ScanVec, Free
    <3> QED
      BY <3>3, <3>6, <3>7
  <2>2. CASE ~(i < NSlots /\ ~StopsForVec(itab, i, job))
    BY <1>6, <1>0, <2>2 DEF ScanVec, Slot
  <2> QED
    BY <2>1, <2>2
<1>7. CASE CopyLoad
  <2>1. j - 1 = i \/ (j - 1 \in Slot /\ i < j - 1)
    BY <1>7, <1>0 DEF CopyLoad, IndexOK, Slot
  <2>2. itab[j - 1] = itab[i]
    BY <1>7, <1>0, <2>1 DEF CopyLoad
  <2> QED
    BY <1>7, <2>2 DEF CopyLoad
<1>8. CASE CopyStore
  <2>1. i < j /\ j < NSlots /\ j \in Slot /\ i \in Slot
    BY <1>8, <1>0 DEF CopyStore, IndexOK, Slot
  <2>2. \A s \in Slot : itab'[s] = IF s = j THEN itab[i] ELSE itab[s]
    BY <1>8, <1>0 DEF CopyStore
  <2>3. \A s \in Slot : i < s /\ s < j + 1 => itab'[s] = itab'[i]
    BY <1>8, <2>1, <2>2 DEF CopyStore, Slot
  <2> QED
    BY <1>8, <2>1, <2>2, <2>3 DEF CopyStore
<1>9. CASE SetVec
  <2>1. i \in Slot
    BY <1>9, <1>0 DEF SetVec, IndexOK, Slot
  <2> QED
    BY <1>9, <1>0, <2>1 DEF SetVec, locals
<1>10. CASE SetPri
  BY <1>10, <1>0 DEF SetPri, Leave
<1>11. CASE PopLoad
  BY <1>11 DEF PopLoad
<1>12. CASE PopStore
  BY <1>12, <1>0 DEF PopStore
<1>13. CASE ClearLastVec
  BY <1>13, <1>0 DEF ClearLastVec, locals, Slot
<1>14. CASE ClearLastPri
  BY <1>14 DEF ClearLastPri, Leave
<1>15. CASE Tick
  BY <1>15 DEF Tick, locals, Free, Searched, StopsForPri, StopsForVec
<1>16. CASE Gone \/ UNCHANGED vars
  BY <1>16 DEF Gone, vars, locals, Free, Searched, StopsForPri, StopsForVec
<1> QED
  BY <1>1, <1>2, <1>3, <1>4, <1>5, <1>6, <1>7, <1>8, <1>9, <1>10, <1>11,
     <1>12, <1>13, <1>14, <1>15, <1>16
  DEF Next, Loop, Interrupt, PopIrq

-----------------------------------------------------------------------------

\* The two steps of IrqTableSpec in terms of the operators used here.
LEMMA AtomicFile ==
  ASSUME NEW e \in Uses, NEW p \in Slot,
         Lands(Settled, e, p), Settled' = Filed(Settled, e, p)
  PROVE  Atomic!Next
BY DEF Atomic!Next, Atomic!File, Atomic!Slot, Slot,
   Atomic!Lands, Lands, Atomic!Filed, Filed, Atomic!Free, Free,
   Atomic!StopsForPri, StopsForPri, Atomic!StopsForVec, StopsForVec

LEMMA AtomicRemove ==
  ASSUME ~Free(Settled, 0), Settled' = Popped(Settled)
  PROVE  Atomic!Next
BY DEF Atomic!Next, Atomic!RemoveFirst, Atomic!Slot, Slot,
   Atomic!Free, Free, Atomic!Popped, Popped, Atomic!NoEntry, NoEntry

\* Every access of the thread is a step of IrqTableSpec or changes nothing
\* it can see.
LEMMA NextAtomic ==
  TypeInv /\ HeadInv /\ SerialInv /\ [Next]_vars => [~ie => Atomic!Next]_Settled
<1> SUFFICES ASSUME TypeInv, HeadInv, Serial, ~ie, [Next]_vars
             PROVE  [Atomic!Next]_Settled
  BY DEF SerialInv
<1> USE NSlotsAssumption, DispatchAssumption
<1>0. /\ itab \in [Slot -> Entry] /\ buf \in [Slot -> Entry]
      /\ i \in Nat /\ j \in Nat /\ 0 \in Slot /\ NSlots - 1 \in Slot
      /\ IndexOK /\ back \in {"step", "recv", "xmit"}
      /\ pc \in InInterrupt => job \in Uses
  BY DEF TypeInv, TypeOK, Slot, Serial
<1>1. CASE Step \/ CheckVec \/ CheckPri \/ TakeFault \/ InputSignal
  <2>1. /\ Settled = itab /\ itab' = itab
        /\ pc' \in {"vec", "pause", "fault", "halt", "rk", "pri", "take", "step"}
    BY <1>1, SettledAt
    DEF Step, CheckVec, CheckPri, TakeFault, InputSignal, Goto
  <2>2. Settled' = itab'
    BY <2>1, SettledNext
  <2> QED
    BY <2>1, <2>2
<1>2. CASE RkStep \/ PollRecv \/ PollXmit \/ ScanPri
  <2>1. /\ Settled = itab /\ itab' = itab
        /\ pc' \in {"recv", "xmit", "step", "fault", "halt", "fast", "scanpri",
                   "scanvec"}
    BY <1>2, SettledAt DEF RkStep, PollRecv, PollXmit, ScanPri, Goto, Call
  <2>2. Settled' = itab'
    BY <2>1 DEF Settled
  <2> QED
    BY <2>1, <2>2
<1>3. CASE FastPath
  <2>1. Settled = itab /\ itab' = itab /\ i = 0 /\ i' = 0 /\ job' = job
    BY <1>3, <1>0, SettledAt DEF FastPath, locals, IndexOK
  <2>2. CASE Free(itab, 0)
    <3>1. Settled' = [itab EXCEPT ![0] = job]
      BY <1>3, <2>1, <2>2 DEF FastPath, Settled
    <3>2. Lands(Settled, job, 0) /\ Settled' = Filed(Settled, job, 0)
      BY <2>1, <2>2, <3>1 DEF Lands, Filed
    <3>3. job \in Uses
      BY <1>3, <1>0 DEF FastPath, InInterrupt
    <3> QED
      BY <1>0, <3>2, <3>3, AtomicFile
  <2>3. CASE ~Free(itab, 0)
    <3>1. Settled' = itab'
      BY <1>3, <2>3 DEF FastPath, Settled
    <3> QED
      BY <2>1, <3>1
  <2> QED
    BY <2>2, <2>3
<1>4. CASE ScanVec
  <2>1. Settled = itab /\ itab' = itab /\ job' = job
    BY <1>4, SettledAt DEF ScanVec
  <2>2. CASE (i < NSlots /\ ~StopsForVec(itab, i, job)) \/ i >= NSlots
    <3>1. pc' \in {"scanvec", "full"}
      BY <1>4, <1>0, <2>2 DEF ScanVec
    <3>2. Settled' = itab'
      BY <3>1 DEF Settled
    <3> QED
      BY <2>1, <3>2
  <2>3. CASE i < NSlots /\ StopsForVec(itab, i, job)
    <3>1. i \in Slot /\ i' = i /\ pc' = IF i + 1 < NSlots THEN "copy" ELSE "setvec"
      BY <1>4, <1>0, <2>3 DEF ScanVec, Slot
    <3>2. Lands(itab, job, i)
      BY <1>4, <2>3 DEF ScanVec, Serial, Searched, Lands
    <3>3. ~Free(itab, 0)
      BY <1>4 DEF ScanVec, Serial
    <3>4. Settled' = Filed(itab, job, i)
      <4>1. CASE i + 1 < NSlots
        BY <2>1, <3>1, <3>3, <4>1 DEF Settled, Filed
      <4>2. CASE ~(i + 1 < NSlots)
        <5>1. Settled' = [itab EXCEPT ![i] = job]
          BY <2>1, <3>1, <4>2 DEF Settled
        <5>2. \A s \in Slot : s < i \/ s = i
          BY <1>0, <3>1, <4>2 DEF Slot
        <5>3. Filed(itab, job, i) = [s \in Slot |-> IF s < i THEN itab[s] ELSE job]
          BY <3>3, <5>2 DEF Filed
        <5>4. \A s \in Slot : s < i => s # i
          BY <1>0 DEF Slot
        <5> QED
          BY <1>0, <5>1, <5>2, <5>3, <5>4
      <4> QED
        BY <4>1, <4>2
    <3>5. job \in Uses
      BY <1>4, <1>0 DEF ScanVec, InInterrupt
    <3> QED
      BY <2>1, <3>1, <3>2, <3>4, <3>5, AtomicFile
  <2> QED
    BY <1>0, <2>2, <2>3
<1>5. CASE CopyLoad
  <2>1. Settled' = Settled
    BY <1>5 DEF CopyLoad, Settled
  <2> QED
    BY <2>1
<1>6. CASE CopyStore
  <2>1. i < j /\ j < NSlots /\ j \in Slot /\ i \in Slot
    BY <1>6, <1>0 DEF CopyStore, IndexOK, Slot
  <2>2. /\ \A s \in Slot : itab'[s] = IF s = j THEN itab[i] ELSE itab[s]
        /\ i' = i /\ job' = job
    BY <1>6, <1>0 DEF CopyStore, Serial
  <2>3. Settled = [s \in Slot |-> IF s < i THEN itab[s]
                                 ELSE IF s = i THEN job ELSE itab[i]]
    BY <1>6, SettledAt DEF CopyStore
  <2>4. CASE pc' \in {"copy", "store"}
    <3>1. Settled' = [s \in Slot |-> IF s < i THEN itab'[s]
                                    ELSE IF s = i THEN job ELSE itab'[i]]
      BY <2>2, <2>4 DEF Settled
    <3>2. itab'[i] = itab[i] /\ \A s \in Slot : s < i => itab'[s] = itab[s]
      BY <2>1, <2>2 DEF Slot
    <3>3. Settled' = Settled
      BY <2>3, <3>1, <3>2
    <3> QED
      BY <3>3
  <2>5. CASE pc' = "setvec"
    <3>1. Settled' = [itab' EXCEPT ![i] = job]
      BY <2>2, <2>5 DEF Settled
    <3>2. j + 1 = NSlots
      BY <1>6, <2>1, <2>5 DEF CopyStore, Slot
    <3>3. \A s \in Slot : i < s => itab'[s] = itab[i]
      BY <1>6, <2>1, <2>2, <3>2 DEF CopyStore, Serial, Slot
    <3>4. itab' = [itab EXCEPT ![j] = reg]
      BY <1>6 DEF CopyStore
    <3>5. ASSUME NEW s \in Slot PROVE Settled'[s] = Settled[s]
      BY <1>0, <2>1, <2>2, <2>3, <3>1, <3>3, <3>4 DEF Slot
    <3>6. Settled' = Settled
      BY <1>0, <2>3, <3>1, <3>4, <3>5
    <3> QED
      BY <3>6
  <2> QED
    BY <1>6, <2>4, <2>5 DEF CopyStore
<1>7. CASE SetVec
  <2>1. Settled = [itab EXCEPT ![i] = job] /\ Settled' = [itab' EXCEPT ![i] = job]
    BY <1>7, SettledAt DEF SetVec, locals, Settled
  <2>2. Settled' = Settled
    BY <1>7, <1>0, <2>1 DEF SetVec
  <2> QED
    BY <2>2
<1>8. CASE SetPri
  <2>1. Settled = [itab EXCEPT ![i] = job]
    BY <1>8, SettledAt DEF SetPri
  <2>2. Settled' = itab'
    BY <1>8, <1>0 DEF SetPri, Leave, Settled
  <2>3. job \in [vec : Nat, pri : Nat] /\ itab[i].vec = job.vec
    BY <1>8, <1>0 DEF SetPri, Serial, InInterrupt, Entry
  <2>4. job = [vec |-> itab[i].vec, pri |-> job.pri]
    BY <2>3
  <2>5. Settled' = Settled
    BY <1>8, <2>1, <2>2, <2>4 DEF SetPri
  <2> QED
    BY <2>5
<1>9. CASE TakeInterrupt
  <2>1. Settled = itab /\ itab' = itab /\ ~Free(itab, 0)
    BY <1>9, SettledAt DEF TakeInterrupt, HeadInv, TakenOutranksCpu
  <2>2. CASE pc' = "fault"
    BY <2>1, <2>2, SettledNext
  <2>3. CASE pc' = "pop"
    <3>1. todo' = Moving
      BY <1>9, <1>0, <2>3
      DEF TakeInterrupt, Goto, locals, popping, IndexOK, InPopIrq, Stopped
    <3>2. Settled' = Popped(itab)
      BY <2>1, <2>3, <3>1, SettledNext DEF Popped, Moving, Slot
    <3> QED
      BY <2>1, <3>2, AtomicRemove
  <2> QED
    BY <1>9, <2>2, <2>3 DEF TakeInterrupt, Goto
<1>10. CASE PopLoad \/ PopStore \/ ClearLastVec
  <2>1. Settled' = Settled
    BY <1>10, MovesSettle
  <2> QED
    BY <2>1
<1>12. CASE ClearLastPri
  <2>1. /\ Settled' = itab' /\ itab[NSlots - 1].vec = 0
        /\ Settled = [s \in Slot |-> IF s = NSlots - 1 THEN NoEntry ELSE itab[s]]
    BY <1>12, <1>0, SettledAt, SettledNext
    DEF ClearLastPri, Leave, IndexOK, Serial
  <2>2. itab' = [itab EXCEPT ![NSlots - 1] = NoEntry]
    BY <1>12, <2>1 DEF ClearLastPri, NoEntry
  <2>3. Settled' = Settled
    BY <1>0, <2>1, <2>2
  <2> QED
    BY <2>3
<1>13. CASE Tick
  <2>1. /\ itab' = itab /\ UNCHANGED locals
        /\ pc' = IF pc = "pause" THEN "vec" ELSE pc
    BY <1>13, <1>0 DEF Tick
  <2>2. CASE pc = "pause"
    <3>1. Settled = itab
      BY <2>2, SettledAt
    <3>2. Settled' = itab'
      BY <2>1, <2>2 DEF Settled
    <3> QED
      BY <2>1, <3>1, <3>2
  <2>3. CASE pc # "pause"
    BY <2>1, <2>3 DEF Settled, locals, popping
  <2> QED
    BY <2>2, <2>3
<1>14. CASE Gone \/ UNCHANGED vars
  <2>1. Settled' = Settled
    BY <1>14 DEF Gone, vars, locals, popping, Settled
  <2> QED
    BY <2>1
<1> QED
  BY <1>1, <1>2, <1>3, <1>4, <1>5, <1>6, <1>7, <1>8, <1>9, <1>10,
     <1>12, <1>13, <1>14
  DEF Next, Loop, Interrupt, PopIrq

\* The statements of interrupt() and popirq(), in tables of any shape and
\* while the clock is disabled, add up to the two atomic operations.
THEOREM CallsAreAtomicAlways == Spec => CallsAreAtomic
<1>1. Init => Atomic!Init
  BY DEF Init, Settled, Atomic!Init, Atomic!EmptyTable, EmptyTable,
     Atomic!Slot, Slot, Atomic!NoEntry, NoEntry
<1>2. Init => HeadInv
  BY DEF Init, HeadInv, TakenOutranksCpu
<1>3. TypeInv /\ HeadInv /\ SerialInv /\ [Next]_vars => SerialInv'
  BY NextSerial
<1>4. TypeInv /\ HeadInv /\ SerialInv /\ [Next]_vars
        => [~ie => Atomic!Next]_Settled
  BY NextAtomic
<1> QED
  BY <1>1, <1>2, <1>3, <1>4, InitSerial, NextHead, TypeInvariance, PTL
  DEF Spec, CallsAreAtomic, Atomic!Spec

=============================================================================
