---------------------------- MODULE KL11_proofs ----------------------------
(***************************************************************************)
(* Proofs about module KL11, for every set of keys and every length of the *)
(* delay and of the counter.                                               *)
(***************************************************************************)
EXTENDS KL11, SequenceTheorems, TLAPS

\* TypeOK by the sorts of its parts, which the provers treat apart.
Bits ==
  /\ rdone \in BOOLEAN /\ rie \in BOOLEAN /\ xready \in BOOLEAN /\ xie \in BOOLEAN
  /\ keypressed \in BOOLEAN /\ sigio \in BOOLEAN /\ cleared \in BOOLEAN

Numbers ==
  /\ rbuf \in 0 .. 127 /\ xbuf \in 0 .. 127 /\ got \in 0 .. 127
  /\ count \in 0 .. NCount - 1

Strings ==
  /\ tty \in Seq(Keys) /\ shown \in Seq(0 .. 127)

Places ==
  /\ at \in {"guest", "read", "nothing", "transmit"}
  /\ irqs \subseteq {"TTYIN", "TTYOUT"}

LEMMA Parts == TypeOK <=> Bits /\ Numbers /\ Strings /\ Places
BY DEF TypeOK, Bits, Numbers, Strings, Places

LEMMA PartsNext == TypeOK' <=> Bits' /\ Numbers' /\ Strings' /\ Places'
BY DEF TypeOK, Bits, Numbers, Strings, Places

LEMMA SevenBits == \A k \in Keys : k % 128 \in 0 .. 127
<1>1. \A k \in 0 .. 255 : k % 128 \in 0 .. 127
  OBVIOUS
<1> QED
  BY <1>1, KL11Assumption

\* The counter of the transmitter goes around.
LEMMA CountsDown ==
  ASSUME NEW s \in 0 .. NCount - 1
  PROVE  (s + NCount - 1) % NCount \in 0 .. NCount - 1
<1>1. NCount \in Nat /\ NCount > 0 /\ s + NCount - 1 \in Nat
  BY KL11Assumption
<1> QED
  BY <1>1

LEMMA InitTypeOK == Init => TypeOK
<1> SUFFICES ASSUME Init PROVE TypeOK
  OBVIOUS
<1>1. Bits
  BY Zenon DEF Init, Bits
<1>2. Numbers
  BY KL11Assumption DEF Init, Numbers
<1>3. Strings
  BY DEF Init, Strings
<1>4. Places
  BY DEF Init, Places
<1> QED
  BY <1>1, <1>2, <1>3, <1>4, Parts

\* The steps of poll().
LEMMA PollTypeOK == TypeOK /\ Poll => TypeOK'
<1> SUFFICES ASSUME TypeOK, Poll PROVE TypeOK'
  OBVIOUS
<1>0. Bits /\ Numbers /\ Strings /\ Places
  BY Parts
<1>1. CASE PollIdle \/ PollReceive \/ ReadNothing \/ ClearKeypressed
  <2>1. UNCHANGED <<receiver, transmitter, world, got>> /\ Quiet
        /\ at' \in {"transmit", "read", "nothing"}
        /\ (keypressed' = keypressed \/ keypressed' = FALSE)
    BY <1>1 DEF PollIdle, PollReceive, ReadNothing, ClearKeypressed
  <2>2. Bits'
    BY <1>0, <2>1 DEF Bits, receiver, transmitter, world, Quiet
  <2>3. Numbers'
    BY <1>0, <2>1 DEF Numbers, receiver, transmitter
  <2>4. Strings' /\ Places'
    BY <1>0, <2>1 DEF Strings, Places, Quiet, world
  <2> QED
    BY <2>2, <2>3, <2>4, PartsNext
<1>2. CASE ReadByte
  <2>1. /\ tty # <<>> /\ tty' = Tail(tty) /\ rbuf' = Head(tty) % 128
        /\ rdone' = TRUE /\ at' = "transmit" /\ shown' = <<>> /\ cleared' = FALSE
        /\ irqs' = (IF rie THEN {"TTYIN"} ELSE {})
        /\ UNCHANGED <<rie, transmitter, keypressed, sigio, got>>
    BY <1>2 DEF ReadByte
  <2>2. Head(tty) \in Keys /\ Tail(tty) \in Seq(Keys)
    BY <1>0, <2>1 DEF Strings
  <2>3. Bits'
    BY <1>0, <2>1, Zenon DEF Bits, transmitter
  <2>4. Numbers'
    BY <1>0, <2>1, <2>2, SevenBits DEF Numbers, transmitter
  <2>5. Strings' /\ Places'
    BY <1>0, <2>1, <2>2 DEF Strings, Places
  <2> QED
    BY <2>3, <2>4, <2>5, PartsNext
<1>3. CASE Transmit
  <2> DEFINE start == IF xbuf # NUL THEN Delay ELSE count
             down  == (start + NCount - 1) % NCount
  <2>1. start \in 0 .. NCount - 1 /\ down \in 0 .. NCount - 1
    <3>1. start \in 0 .. NCount - 1
      BY <1>0, KL11Assumption DEF Numbers
    <3> QED
      BY <3>1, CountsDown
  <2>2. /\ shown' = (IF xbuf # NUL THEN <<xbuf>> ELSE <<>>) /\ xbuf' = NUL
        /\ count' = (IF xready THEN start ELSE down)
        /\ xready' = (xready \/ down = 0)
        /\ irqs' \subseteq {"TTYOUT"}
        /\ at' = "guest" /\ cleared' = FALSE
        /\ UNCHANGED <<receiver, xie, keypressed, world, got>>
    BY <1>3 DEF Transmit
  <2> HIDE DEF start, down
  <2>3. Bits'
    BY <1>0, <2>2, Zenon DEF Bits, receiver, world
  <2>4. Numbers'
    BY <1>0, <2>1, <2>2, KL11Assumption DEF Numbers, receiver
  <2>5. Strings'
    <3>1. xbuf \in 0 .. 127 /\ tty' = tty
      BY <1>0, <2>2 DEF Numbers, world
    <3>2. <<xbuf>> \in Seq(0 .. 127) /\ <<>> \in Seq(0 .. 127)
      BY <3>1
    <3> QED
      BY <1>0, <2>2, <3>1, <3>2 DEF Strings
  <2>6. Places'
    BY <1>0, <2>2 DEF Places
  <2> QED
    BY <2>3, <2>4, <2>5, <2>6, PartsNext
<1> QED
  BY <1>1, <1>2, <1>3 DEF Poll

\* The steps of the guest's program.
LEMMA GuestTypeOK == TypeOK /\ Guest => TypeOK'
<1> SUFFICES ASSUME TypeOK, Guest PROVE TypeOK'
  OBVIOUS
<1>0. Bits /\ Numbers /\ Strings /\ Places
  BY Parts
<1>1. /\ UNCHANGED <<keypressed, world>> /\ at' = at /\ shown' = <<>> /\ irqs' = {}
      /\ cleared' \in BOOLEAN
  BY DEF Guest, ReadRBUF, FetchRBUF, WriteRBUF, StoreRBUF, WriteRCSR, WriteXCSR,
         WriteXBUF, StoreXBUF, ClearTerminal, Quiet
<1>2. Strings' /\ Places'
  BY <1>0, <1>1 DEF Strings, Places, world
<1>3. CASE ReadRBUF \/ WriteRBUF \/ WriteRCSR \/ WriteXCSR
  <2>1. /\ rdone' \in {rdone, FALSE} /\ rie' \in {rie, TRUE} /\ rbuf' = rbuf
        /\ UNCHANGED <<xready, xbuf, count>> /\ xie' \in {xie, TRUE}
        /\ got' \in {got, rbuf}
    BY <1>3 DEF ReadRBUF, FetchRBUF, WriteRBUF, StoreRBUF, WriteRCSR, WriteXCSR,
                receiver, transmitter
  <2>2. Bits'
    BY <1>0, <1>1, <2>1 DEF Bits, world
  <2>3. Numbers'
    BY <1>0, <2>1 DEF Numbers
  <2> QED
    BY <1>2, <2>2, <2>3, PartsNext
<1>4. CASE WriteXBUF
  <2>1. PICK k \in Keys : StoreXBUF(k)
    BY <1>4 DEF WriteXBUF
  <2>2. xbuf' = k % 128 /\ xready' = FALSE
        /\ UNCHANGED <<receiver, xie, count, keypressed, got>>
    BY <2>1 DEF StoreXBUF
  <2>3. Bits'
    BY <1>0, <1>1, <2>2, Zenon DEF Bits, receiver, world
  <2>4. Numbers'
    BY <1>0, <2>2, SevenBits DEF Numbers, receiver
  <2> QED
    BY <1>2, <2>3, <2>4, PartsNext
<1>5. CASE ClearTerminal
  <2>1. Bits'
    BY <1>0, <1>1, <1>5, Zenon DEF Bits, ClearTerminal, world
  <2>2. Numbers'
    BY <1>0, <1>5, KL11Assumption DEF Numbers, ClearTerminal
  <2> QED
    BY <1>2, <2>1, <2>2, PartsNext
<1> QED
  BY <1>3, <1>4, <1>5 DEF Guest

LEMMA NextTypeOK == TypeOK /\ [Next]_vars => TypeOK'
<1> SUFFICES ASSUME TypeOK, [Next]_vars PROVE TypeOK'
  OBVIOUS
<1>0. Bits /\ Numbers /\ Strings /\ Places
  BY Parts
<1>1. CASE PressKey \/ Sigio
  <2>1. /\ sigio' \in BOOLEAN /\ keypressed' \in {keypressed, TRUE} /\ Quiet
        /\ UNCHANGED <<receiver, transmitter, at, got>>
        /\ tty' = tty \/ \E k \in Keys : tty' = Append(tty, k)
    BY <1>1 DEF PressKey, Sigio
  <2>2. Bits'
    BY <1>0, <2>1 DEF Bits, receiver, transmitter, Quiet
  <2>3. Numbers'
    BY <1>0, <2>1 DEF Numbers, receiver, transmitter
  <2>4. Strings' /\ Places'
    BY <1>0, <2>1 DEF Strings, Places, Quiet
  <2> QED
    BY <2>2, <2>3, <2>4, PartsNext
<1>2. CASE Poll
  BY <1>2, PollTypeOK
<1>3. CASE Guest
  BY <1>3, GuestTypeOK
<1>4. CASE UNCHANGED vars
  BY <1>4, Zenon DEF TypeOK, vars, receiver, transmitter, world
<1> QED
  BY <1>1, <1>2, <1>3, <1>4 DEF Next

\* Every register of the console stays within its width.
THEOREM ConsoleTypeCorrect == Spec => []TypeOK
BY InitTypeOK, NextTypeOK, PTL DEF Spec

-----------------------------------------------------------------------------

\* What the refinement rests on beside the types: a byte in xbuf keeps the
\* transmitter busy, and poll() reads only when the receiver is empty.
UnsentIsBusy == xbuf # NUL => ~xready
ReadsWhenEmpty == at \in {"read", "nothing"} => ~rdone
Buffers == UnsentIsBusy /\ ReadsWhenEmpty

LEMMA NextBuffers == TypeOK /\ Buffers /\ [Next]_vars => Buffers'
<1> SUFFICES ASSUME TypeOK, Buffers, [Next]_vars PROVE Buffers'
  OBVIOUS
<1>1. CASE PressKey \/ Sigio
  BY <1>1 DEF PressKey, Sigio, Buffers, UnsentIsBusy, ReadsWhenEmpty, receiver,
              transmitter
<1>2. CASE PollIdle \/ PollReceive \/ ReadByte \/ ReadNothing \/ ClearKeypressed
  BY <1>2 DEF PollIdle, PollReceive, ReadByte, ReadNothing, ClearKeypressed,
              Buffers, UnsentIsBusy, ReadsWhenEmpty, receiver, transmitter
<1>3. CASE Transmit
  BY <1>3 DEF Transmit, Buffers, UnsentIsBusy, ReadsWhenEmpty
<1>4. CASE Guest
  BY <1>4, KL11Assumption
  DEF Guest, ReadRBUF, FetchRBUF, WriteRBUF, StoreRBUF, WriteRCSR, WriteXCSR,
      WriteXBUF, StoreXBUF, ClearTerminal, Buffers, UnsentIsBusy,
      ReadsWhenEmpty, receiver, transmitter
<1>5. CASE UNCHANGED vars
  BY <1>5 DEF vars, Buffers, UnsentIsBusy, ReadsWhenEmpty, receiver, transmitter
<1> QED
  BY <1>1, <1>2, <1>3, <1>4, <1>5 DEF Next, Poll

LEMMA BuffersAlways == Spec => []Buffers
<1>1. Init => Buffers
  BY KL11Assumption DEF Init, Buffers, UnsentIsBusy, ReadsWhenEmpty
<1> QED
  BY <1>1, NextBuffers, ConsoleTypeCorrect, PTL DEF Spec

\* The refinement mapping.
Held == IF rdone THEN <<rbuf>> ELSE <<>>
Masked(s) == [i \in DOMAIN s |-> s[i] % 128]
Line == Held \o Masked(tty)
Outgoing == IF xbuf = NUL THEN <<>> ELSE <<xbuf>>

Low(k) == k % 128
Seven == 0 .. 127

LEMMA LowIsSeven == \A k \in Keys : Low(k) \in Seven
BY SevenBits DEF Low, Seven

LEMMA MaskedIs ==
  ASSUME NEW t \in Seq(Keys)
  PROVE  /\ Masked(t) \in Seq(Seven) /\ Len(Masked(t)) = Len(t)
         /\ \A i \in 1 .. Len(t) : Masked(t)[i] = Low(t[i])
<1>1. DOMAIN t = 1 .. Len(t) /\ Len(t) \in Nat
  OBVIOUS
<1>2. \A i \in 1 .. Len(t) : t[i] \in Keys
  OBVIOUS
<1>3. \A i \in 1 .. Len(t) : Low(t[i]) \in Seven
  BY <1>2, LowIsSeven
<1>4. Masked(t) = [i \in 1 .. Len(t) |-> Low(t[i])]
  BY <1>1 DEF Masked, Low
<1> QED
  BY <1>1, <1>3, <1>4

\* Masking goes along with adding and removing bytes.
LEMMA MaskedAppend ==
  ASSUME NEW s \in Seq(Keys), NEW k \in Keys
  PROVE  Masked(Append(s, k)) = Append(Masked(s), Low(k))
<1>1. /\ Append(s, k) \in Seq(Keys) /\ Len(Append(s, k)) = Len(s) + 1
      /\ Len(s) \in Nat /\ Append(s, k)[Len(s) + 1] = k
      /\ \A i \in 1 .. Len(s) : Append(s, k)[i] = s[i]
  OBVIOUS
<1>2. /\ Masked(Append(s, k)) \in Seq(Seven)
      /\ Len(Masked(Append(s, k))) = Len(s) + 1
      /\ \A i \in 1 .. Len(s) + 1 : Masked(Append(s, k))[i] = Low(Append(s, k)[i])
  BY <1>1, MaskedIs
<1>3. /\ Masked(s) \in Seq(Seven) /\ Len(Masked(s)) = Len(s) /\ Low(k) \in Seven
      /\ \A i \in 1 .. Len(s) : Masked(s)[i] = Low(s[i])
  BY MaskedIs, LowIsSeven
<1>4. /\ Append(Masked(s), Low(k)) \in Seq(Seven)
      /\ Len(Append(Masked(s), Low(k))) = Len(s) + 1
      /\ Append(Masked(s), Low(k))[Len(s) + 1] = Low(k)
      /\ \A i \in 1 .. Len(s) : Append(Masked(s), Low(k))[i] = Low(s[i])
  BY <1>3
<1>5. \A i \in 1 .. Len(s) + 1 :
        Masked(Append(s, k))[i] = Append(Masked(s), Low(k))[i]
  BY <1>1, <1>2, <1>4
<1> QED
  BY <1>2, <1>4, <1>5, SeqEqual

\* A character in front of a string.
LEMMA Prepend ==
  ASSUME NEW S, NEW x \in S, NEW t \in Seq(S)
  PROVE  /\ <<x>> \o t \in Seq(S) /\ Len(<<x>> \o t) = Len(t) + 1
         /\ (<<x>> \o t)[1] = x
         /\ \A i \in 2 .. Len(t) + 1 : (<<x>> \o t)[i] = t[i - 1]
<1> DEFINE h == <<x>>
<1>1. h \in Seq(S) /\ Len(h) = 1 /\ h[1] = x /\ Len(t) \in Nat
  OBVIOUS
<1> HIDE DEF h
<1>2. /\ h \o t \in Seq(S) /\ Len(h \o t) = Len(h) + Len(t)
      /\ \A i \in 1 .. Len(h) + Len(t) :
           (h \o t)[i] = IF i <= Len(h) THEN h[i] ELSE t[i - Len(h)]
  BY <1>1, ConcatProperties
<1>3. h \o t \in Seq(S) /\ Len(h \o t) = Len(t) + 1 /\ (h \o t)[1] = x
      /\ \A i \in 2 .. Len(t) + 1 : (h \o t)[i] = t[i - 1]
  BY <1>1, <1>2
<1> QED
  BY <1>3 DEF h

LEMMA PrependHeadTail ==
  ASSUME NEW S, NEW x \in S, NEW t \in Seq(S)
  PROVE  /\ <<x>> \o t # <<>> /\ Head(<<x>> \o t) = x /\ Tail(<<x>> \o t) = t
<1> DEFINE u == <<x>> \o t
<1>1. /\ u \in Seq(S) /\ Len(u) = Len(t) + 1 /\ u[1] = x /\ Len(t) \in Nat
      /\ \A i \in 2 .. Len(t) + 1 : u[i] = t[i - 1]
  BY Prepend
<1> HIDE DEF u
<1>2. u # <<>> /\ Head(u) = x
  BY <1>1
<1>3. Tail(u) \in Seq(S) /\ Len(Tail(u)) = Len(t)
      /\ \A i \in 1 .. Len(t) : Tail(u)[i] = u[i + 1]
  BY <1>1
<1>4. \A i \in 1 .. Len(t) : Tail(u)[i] = t[i]
  BY <1>1, <1>3
<1>5. Tail(u) = t
  BY <1>3, <1>4, SeqEqual
<1> QED
  BY <1>2, <1>5 DEF u

LEMMA PrependAppend ==
  ASSUME NEW S, NEW x \in S, NEW y \in S, NEW t \in Seq(S)
  PROVE  <<x>> \o Append(t, y) = Append(<<x>> \o t, y)
<1> DEFINE u == <<x>> \o t
           v == <<x>> \o Append(t, y)
<1>1. /\ Append(t, y) \in Seq(S) /\ Len(Append(t, y)) = Len(t) + 1 /\ Len(t) \in Nat
      /\ Append(t, y)[Len(t) + 1] = y
      /\ \A i \in 1 .. Len(t) : Append(t, y)[i] = t[i]
  OBVIOUS
<1>2. /\ u \in Seq(S) /\ Len(u) = Len(t) + 1 /\ u[1] = x
      /\ \A i \in 2 .. Len(t) + 1 : u[i] = t[i - 1]
  BY Prepend
<1>3. /\ v \in Seq(S) /\ Len(v) = Len(t) + 2 /\ v[1] = x
      /\ \A i \in 2 .. Len(t) + 2 : v[i] = Append(t, y)[i - 1]
  BY <1>1, Prepend
<1> HIDE DEF u, v
<1>4. /\ Append(u, y) \in Seq(S) /\ Len(Append(u, y)) = Len(t) + 2
      /\ Append(u, y)[Len(t) + 2] = y
      /\ \A i \in 1 .. Len(t) + 1 : Append(u, y)[i] = u[i]
  BY <1>1, <1>2
<1>5. ASSUME NEW i \in 1 .. Len(t) + 2 PROVE v[i] = Append(u, y)[i]
  BY <1>1, <1>2, <1>3, <1>4
<1>6. v = Append(u, y)
  BY <1>3, <1>4, <1>5, SeqEqual
<1> QED
  BY <1>6 DEF u, v

LEMMA MaskedTail ==
  ASSUME NEW s \in Seq(Keys), s # <<>>
  PROVE  /\ Low(Head(s)) \in Seven /\ Tail(s) \in Seq(Keys)
         /\ Masked(s) = <<Low(Head(s))>> \o Masked(Tail(s))
<1>1. /\ Tail(s) \in Seq(Keys) /\ Len(s) \in Nat /\ Len(s) >= 1
      /\ Len(Tail(s)) = Len(s) - 1 /\ Head(s) = s[1] /\ Head(s) \in Keys
      /\ \A i \in 2 .. Len(s) : Tail(s)[i - 1] = s[i]
  OBVIOUS
<1>2. Low(Head(s)) \in Seven
  BY <1>1, LowIsSeven
<1>3. /\ Masked(s) \in Seq(Seven) /\ Len(Masked(s)) = Len(s)
      /\ \A i \in 1 .. Len(s) : Masked(s)[i] = Low(s[i])
  BY MaskedIs
<1> DEFINE t == Masked(Tail(s))
           u == <<Low(Head(s))>> \o t
<1>4. /\ t \in Seq(Seven) /\ Len(t) = Len(s) - 1
      /\ \A i \in 1 .. Len(s) - 1 : t[i] = Low(Tail(s)[i])
  BY <1>1, MaskedIs
<1> HIDE DEF t
<1>5. /\ u \in Seq(Seven) /\ Len(u) = Len(t) + 1 /\ u[1] = Low(Head(s))
      /\ \A i \in 2 .. Len(t) + 1 : u[i] = t[i - 1]
  BY <1>2, <1>4, Prepend
<1> HIDE DEF u
<1>6. ASSUME NEW i \in 1 .. Len(s) PROVE Masked(s)[i] = u[i]
  BY <1>1, <1>3, <1>4, <1>5
<1>7. Masked(s) = u
  BY <1>1, <1>3, <1>4, <1>5, <1>6, SeqEqual
<1> QED
  BY <1>1, <1>2, <1>7 DEF u, t

-----------------------------------------------------------------------------

\* The steps of TTY in terms of Line and Outgoing.
LEMMA AbstractSteps ==
  /\ ~cleared' /\ shown' = <<>> /\ Line' = Line /\ got' = got /\ Outgoing' = Outgoing
       => Console!Next
  /\ ~cleared' /\ shown' = <<>> /\ (\E k \in Keys : Line' = Append(Line, Low(k)))
       /\ got' = got /\ Outgoing' = Outgoing => Console!Next
  /\ ~cleared' /\ shown' = <<>> /\ Line # <<>> /\ got' = Head(Line) /\ Line' = Tail(Line)
       /\ Outgoing' = Outgoing => Console!Next
  /\ ~cleared' /\ shown' = <<>> /\ Line' = Line /\ got' = got /\ Outgoing = <<>>
       /\ (\E k \in Keys : Outgoing' = IF Low(k) = NUL THEN <<>> ELSE <<Low(k)>>)
       => Console!Next
  /\ ~cleared' /\ Outgoing # <<>> /\ shown' = Outgoing /\ Outgoing' = <<>>
       /\ Line' = Line /\ got' = got => Console!Next
  /\ cleared' /\ shown' = <<>> /\ Outgoing' = <<>> /\ got' = got
       /\ (Line' = Line \/ (Line # <<>> /\ Line' = Tail(Line))) => Console!Next
BY DEF Console!Next, Console!Type, Console!Receive, Console!Send, Console!Show,
       Console!Reset, Console!Forget, Console!Character, Line, Held, Masked,
       Outgoing, Low

\* What is on the line, by whether the receiver holds a character.
LEMMA LineIs ==
  ASSUME TypeOK
  PROVE  /\ tty \in Seq(Keys) /\ Masked(tty) \in Seq(Seven) /\ rbuf \in Seven
         /\ ~rdone => Line = Masked(tty)
         /\ rdone => /\ Line = <<rbuf>> \o Masked(tty)
                     /\ Line # <<>> /\ Head(Line) = rbuf /\ Tail(Line) = Masked(tty)
<1>1. tty \in Seq(Keys) /\ rbuf \in Seven
  BY DEF TypeOK, Seven
<1>2. Masked(tty) \in Seq(Seven)
  BY <1>1, MaskedIs
<1>3. ASSUME NEW t \in Seq(Seven)
      PROVE  /\ <<>> \o t = t
             /\ <<rbuf>> \o t # <<>> /\ Head(<<rbuf>> \o t) = rbuf
             /\ Tail(<<rbuf>> \o t) = t
  BY <1>1, PrependHeadTail, ConcatEmptySeq
<1> HIDE DEF Masked
<1>4. CASE rdone
  BY <1>1, <1>2, <1>3, <1>4 DEF Line, Held
<1>5. CASE ~rdone
  BY <1>1, <1>2, <1>3, <1>5 DEF Line, Held
<1> QED
  BY <1>4, <1>5

\* A step that leaves these alone leaves the line and the sent character.
LEMMA SameLine ==
  /\ UNCHANGED <<rdone, rbuf, tty>> => Line' = Line
  /\ xbuf' = xbuf => Outgoing' = Outgoing
BY DEF Line, Held, Masked, Outgoing

LEMMA PressKeyTypes == TypeOK /\ PressKey => Console!Next
<1> SUFFICES ASSUME TypeOK, PressKey PROVE Console!Next
  OBVIOUS
<1>1. PICK k \in Keys : tty' = Append(tty, k)
  BY DEF PressKey
<1>2. /\ shown' = <<>> /\ ~cleared' /\ got' = got
      /\ UNCHANGED <<rdone, rbuf, xbuf>>
  BY DEF PressKey, Quiet, receiver, transmitter
<1>3. Masked(tty)' = Append(Masked(tty), Low(k))
  <2>1. Masked(Append(tty, k)) = Append(Masked(tty), Low(k))
    BY LineIs, MaskedAppend
  <2>2. Masked(tty)' = Masked(Append(tty, k))
    BY <1>1 DEF Masked
  <2> QED
    BY <2>1, <2>2
<1>4. Line' = Append(Line, Low(k))
  <2>1. Line' = Held \o Masked(tty)'
    BY <1>2 DEF Line, Held
  <2>2. CASE rdone
    <3>1. Line = <<rbuf>> \o Masked(tty) /\ Line' = <<rbuf>> \o Append(Masked(tty), Low(k))
      BY <1>3, <2>1, <2>2, LineIs DEF Held
    <3>2. rbuf \in Seven /\ Low(k) \in Seven /\ Masked(tty) \in Seq(Seven)
      BY LineIs, LowIsSeven
    <3> QED
      BY <3>1, <3>2, PrependAppend
  <2>3. CASE ~rdone
    <3>1. Append(Masked(tty), Low(k)) \in Seq(Seven)
      BY LineIs, LowIsSeven
    <3>2. Line = Masked(tty) /\ Line' = <<>> \o Append(Masked(tty), Low(k))
      BY <1>3, <2>1, <2>3, LineIs DEF Held
    <3> QED
      BY <3>1, <3>2, ConcatEmptySeq
  <2> QED
    BY <2>2, <2>3
<1> QED
  BY <1>2, <1>4, SameLine, AbstractSteps

LEMMA ReadByteKeepsLine == TypeOK /\ Buffers /\ ReadByte => Console!Next
<1> SUFFICES ASSUME TypeOK, Buffers, ReadByte PROVE Console!Next
  OBVIOUS
<1>1. /\ ~rdone /\ tty # <<>> /\ tty' = Tail(tty) /\ rbuf' = Low(Head(tty)) /\ rdone' = TRUE
      /\ shown' = <<>> /\ ~cleared' /\ got' = got /\ xbuf' = xbuf
  BY DEF ReadByte, transmitter, Buffers, ReadsWhenEmpty, Low
<1>2. Line = Masked(tty) /\ Masked(tty) = <<Low(Head(tty))>> \o Masked(Tail(tty))
  BY <1>1, LineIs, MaskedTail
<1>3. Line' = <<Low(Head(tty))>> \o Masked(Tail(tty))
  BY <1>1 DEF Line, Held, Masked
<1> QED
  BY <1>1, <1>2, <1>3, SameLine, AbstractSteps

LEMMA GuestRefines == TypeOK /\ Buffers /\ Guest => Console!Next
<1> SUFFICES ASSUME TypeOK, Buffers, Guest PROVE Console!Next
  OBVIOUS
<1>0. /\ shown' = <<>> /\ tty' = tty
      /\ ClearTerminal => cleared' = TRUE
      /\ ReadRBUF \/ WriteRBUF \/ WriteRCSR \/ WriteXCSR \/ WriteXBUF =>
           cleared' = FALSE
  BY DEF Guest, ReadRBUF, FetchRBUF, WriteRBUF, StoreRBUF, WriteRCSR, WriteXCSR,
         WriteXBUF, StoreXBUF, ClearTerminal, Quiet, world
<1>e. ~rdone' => Line' = Masked(tty)
  <2>1. ~rdone' => Line' = <<>> \o Masked(tty)
    BY <1>0 DEF Line, Held, Masked
  <2> QED
    BY <2>1, LineIs, ConcatEmptySeq
<1>1. CASE ReadRBUF
  <2>0. cleared' = FALSE /\ shown' = <<>>
    BY <1>0, <1>1
  <2>1. rdone /\ got' = rbuf /\ rdone' = FALSE /\ xbuf' = xbuf
    BY <1>1 DEF ReadRBUF, FetchRBUF, transmitter
  <2> QED
    BY <1>0, <1>e, <2>0, <2>1, LineIs, SameLine, AbstractSteps
<1>2. CASE WriteRBUF
  <2>0. cleared' = FALSE /\ shown' = <<>>
    BY <1>0, <1>2
  <2>1. ~rdone /\ rdone' = FALSE /\ got' = got /\ xbuf' = xbuf
    BY <1>2 DEF WriteRBUF, StoreRBUF, transmitter
  <2> QED
    BY <1>0, <1>e, <2>0, <2>1, LineIs, SameLine, AbstractSteps
<1>3. CASE WriteRCSR \/ WriteXCSR
  <2>0. cleared' = FALSE /\ shown' = <<>>
    BY <1>0, <1>3
  <2>1. UNCHANGED <<rdone, rbuf, tty, got, xbuf>>
    BY <1>3 DEF WriteRCSR, WriteXCSR, receiver, transmitter, world
  <2> QED
    BY <1>0, <2>0, <2>1, SameLine, AbstractSteps
<1>4. CASE WriteXBUF
  <2>0. cleared' = FALSE /\ shown' = <<>>
    BY <1>0, <1>4
  <2>1. PICK k \in Keys : StoreXBUF(k)
    BY <1>4 DEF WriteXBUF
  <2>2. xbuf' = Low(k) /\ UNCHANGED <<rdone, rbuf, got>>
    BY <2>1 DEF StoreXBUF, receiver, Low
  <2>3. Outgoing = <<>>
    BY <1>4 DEF WriteXBUF, Buffers, UnsentIsBusy, Outgoing
  <2>4. Outgoing' = IF Low(k) = NUL THEN <<>> ELSE <<Low(k)>>
    BY <2>2 DEF Outgoing
  <2> QED
    BY <1>0, <2>0, <2>2, <2>3, <2>4, SameLine, AbstractSteps
<1>5. CASE ClearTerminal
  <2>0. cleared' = TRUE /\ shown' = <<>>
    BY <1>0, <1>5
  <2>1. rdone' = FALSE /\ xbuf' = NUL /\ got' = got
    BY <1>5, KL11Assumption DEF ClearTerminal
  <2>2. Outgoing' = <<>>
    BY <2>1 DEF Outgoing
  <2> QED
    BY <1>0, <1>e, <2>0, <2>1, <2>2, LineIs, AbstractSteps
<1> QED
  BY <1>1, <1>2, <1>3, <1>4, <1>5 DEF Guest

LEMMA NextConsole == TypeOK /\ Buffers /\ [Next]_vars => [Console!Next]_(Console!vars)
<1> SUFFICES ASSUME TypeOK, Buffers, [Next]_vars
             PROVE  Console!Next \/ UNCHANGED Console!vars
  OBVIOUS
<1>1. CASE PressKey
  BY <1>1, PressKeyTypes
<1>2. CASE Sigio \/ PollIdle \/ PollReceive \/ ReadNothing \/ ClearKeypressed
  <2>1. shown' = <<>> /\ ~cleared' /\ UNCHANGED <<rdone, rbuf, tty, got, xbuf>>
    BY <1>2 DEF Sigio, PollIdle, PollReceive, ReadNothing, ClearKeypressed, Quiet,
                receiver, transmitter, world
  <2> QED
    BY <2>1, SameLine, AbstractSteps
<1>3. CASE ReadByte
  BY <1>3, ReadByteKeepsLine
<1>4. CASE Transmit
  <2>1. /\ shown' = (IF xbuf # NUL THEN <<xbuf>> ELSE <<>>) /\ xbuf' = NUL
        /\ ~cleared' /\ UNCHANGED <<rdone, rbuf, tty, got>>
    BY <1>4 DEF Transmit, receiver, world
  <2>2. shown' = Outgoing /\ Outgoing' = <<>> /\ Line' = Line
    BY <2>1, SameLine DEF Outgoing
  <2> QED
    BY <2>1, <2>2, AbstractSteps
<1>5. CASE Guest
  BY <1>5, GuestRefines
<1>6. CASE UNCHANGED vars
  BY <1>6 DEF vars, Console!vars, receiver, transmitter, world
<1> QED
  BY <1>1, <1>2, <1>3, <1>4, <1>5, <1>6 DEF Next, Poll

LEMMA InitConsole == Init => Console!Init
<1> SUFFICES ASSUME Init PROVE Console!Init
  OBVIOUS
<1>1. /\ tty = <<>> /\ rdone = FALSE /\ xbuf = NUL /\ got = NUL /\ shown = <<>>
      /\ cleared = FALSE
  BY KL11Assumption DEF Init
<1>2. Masked(<<>>) = <<>>
  <2>1. <<>> \in Seq(Keys)
    OBVIOUS
  <2>2. Len(Masked(<<>>)) = 0 /\ Masked(<<>>) \in Seq(Seven)
    BY <2>1, MaskedIs
  <2> QED
    BY <2>2
<1>3. Line = <<>>
  BY <1>1, <1>2, ConcatEmptySeq DEF Line, Held
<1> QED
  BY <1>1, <1>3 DEF Console!Init, Line, Held, Masked

\* The console is a pair of character streams for every guest that waits for
\* DONE and READY, wherever keys and signals come in poll(), and only
\* clearterminal() loses a character.
THEOREM IsATTYAlways == Spec => IsATTY
BY InitConsole, NextConsole, ConsoleTypeCorrect, BuffersAlways, PTL
DEF Spec, IsATTY, Console!Spec

-----------------------------------------------------------------------------

\* Only the assignment that follows a read() which found nothing can forget
\* a byte.
LEMMA NextForgets ==
  [Next]_vars => [~Forgotten /\ Forgotten' => at = "nothing" /\ keypressed /\ tty # <<>>]_vars
<1> SUFFICES ASSUME [Next]_vars, ~Forgotten, Forgotten'
             PROVE  at = "nothing" /\ keypressed /\ tty # <<>>
  OBVIOUS
<1>0. tty' # <<>> /\ ~keypressed' /\ ~sigio'
  BY DEF Forgotten
<1>1. CASE ClearKeypressed
  BY <1>0, <1>1 DEF ClearKeypressed, world, Forgotten
<1>2. CASE PressKey \/ Sigio
  BY <1>0, <1>2 DEF PressKey, Sigio
<1>3. CASE ReadByte
  BY <1>0, <1>3 DEF ReadByte, Forgotten
<1>4. CASE PollIdle \/ PollReceive \/ ReadNothing \/ Transmit \/ Guest \/ UNCHANGED vars
  <2>1. UNCHANGED <<keypressed, tty, sigio>>
    BY <1>4 DEF PollIdle, PollReceive, ReadNothing, Transmit, Guest, ReadRBUF, FetchRBUF,
                WriteRBUF, StoreRBUF, WriteRCSR, WriteXCSR, WriteXBUF, StoreXBUF,
                ClearTerminal, vars, world
  <2> QED
    BY <1>0, <2>1 DEF Forgotten
<1> QED
  BY <1>1, <1>2, <1>3, <1>4 DEF Next, Poll

\* A byte is forgotten at one statement of poll() only.
THEOREM OnlyTheRaceForgetsAlways == Spec => OnlyTheRaceForgets
BY NextForgets, PTL DEF Spec, OnlyTheRaceForgets

=============================================================================
