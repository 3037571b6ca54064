-------------------------------- MODULE KL11 --------------------------------
(***************************************************************************)
(* The KL11 console (kl11.cc).  The run loop calls poll() after an         *)
(* instruction that no interrupt or fault cuts short; the guest's program  *)
(* runs in between.  The terminal is not of this thread: a key may be      *)
(* pressed, and SIGIO handled, at any statement of poll().                 *)
(***************************************************************************)
EXTENDS Naturals, Sequences

CONSTANTS
  Keys,         \* the bytes the terminal sends and the guest sends to it
  NUL,          \* the byte that leaves xbuf empty (0)
  MaxTyped,     \* bound on the bytes the terminal holds unread
  Delay,        \* polls a character takes (32 in the source)
  NCount        \* count is counted modulo NCount (2^16 in the source)

ASSUME KL11Assumption ==
  /\ Keys \subseteq 0 .. 255 /\ NUL = 0 /\ NUL \in Keys
  /\ NCount \in Nat /\ Delay \in 1 .. NCount - 1
  /\ MaxTyped \in Nat

VARIABLES
  rdone, rie, rbuf,        \* bits 7 and 6 of RCSR; RBUF
  xready, xie, xbuf,       \* bits 7 and 6 of XCSR; XBUF
  count,                   \* polls left
  keypressed,              \* set by the SIGIO handler
  at,                      \* where in poll() the thread is
  tty, sigio,              \* bytes held by the terminal; SIGIO is pending
  got, shown,              \* what the guest last read; what was just shown
  cleared,                 \* the last step was clearterminal()
  irqs                     \* the interrupts the last step asked for

receiver == <<rdone, rie, rbuf>>
transmitter == <<xready, xie, xbuf, count>>
world == <<tty, sigio>>
vars == <<receiver, transmitter, keypressed, at, world, got, shown, cleared,
          irqs>>

\* KB11::reset() has cleared the terminal.
Init ==
  /\ rdone = FALSE /\ rie = FALSE /\ rbuf = 0
  /\ xready = TRUE /\ xie = FALSE /\ xbuf = 0 /\ count = 0
  /\ keypressed = FALSE /\ at = "guest"
  /\ tty = <<>> /\ sigio = FALSE
  /\ got = 0 /\ shown = <<>> /\ cleared = FALSE /\ irqs = {}

Quiet == shown' = <<>> /\ cleared' = FALSE /\ irqs' = {}

-----------------------------------------------------------------------------
(* The terminal and the signal. *)

PressKey ==
  /\ Len(tty) < MaxTyped
  /\ \E k \in Keys : tty' = Append(tty, k)
  /\ sigio' = TRUE
  /\ Quiet /\ UNCHANGED <<receiver, transmitter, keypressed, at, got>>

\* sigioHandler()
Sigio ==
  /\ sigio
  /\ keypressed' = TRUE /\ sigio' = FALSE
  /\ Quiet /\ UNCHANGED <<receiver, transmitter, at, tty, got>>

-----------------------------------------------------------------------------
(* poll(), statement by statement where a signal makes a difference. *)

\* Nothing to receive: the tests fail and the thread goes on to transmit.
PollIdle ==
  /\ at = "guest" /\ (rdone \/ ~keypressed)
  /\ at' = "transmit"
  /\ Quiet /\ UNCHANGED <<receiver, transmitter, keypressed, world, got>>

\* Faulty variant: only a receiver that may interrupt is read.
PollReceiveIfEnabled ==
  /\ at = "guest" /\ ~rdone /\ keypressed
  /\ at' = IF rie THEN "read" ELSE "transmit"
  /\ Quiet /\ UNCHANGED <<receiver, transmitter, keypressed, world, got>>

\* Faulty variant: the receiver is read while it holds a character.
PollReceiveAnyway ==
  /\ at = "guest" /\ keypressed
  /\ at' = "read"
  /\ Quiet /\ UNCHANGED <<receiver, transmitter, keypressed, world, got>>

PollReceive ==
  /\ at = "guest" /\ ~rdone /\ keypressed
  /\ at' = "read"
  /\ Quiet /\ UNCHANGED <<receiver, transmitter, keypressed, world, got>>

\* Faulty variant: the eighth bit is kept.
ReadByteEightBits ==
  /\ at = "read" /\ tty # <<>>
  /\ tty' = Tail(tty)
  /\ rbuf' = Head(tty) /\ rdone' = TRUE
  /\ irqs' = IF rie THEN {"TTYIN"} ELSE {}
  /\ at' = "transmit"
  /\ shown' = <<>> /\ cleared' = FALSE
  /\ UNCHANGED <<rie, transmitter, keypressed, sigio, got>>

\* Faulty variant: keypressed is cleared by every byte.
ReadByteOnce ==
  /\ at = "read" /\ tty # <<>>
  /\ tty' = Tail(tty)
  /\ rbuf' = Head(tty) % 128 /\ rdone' = TRUE
  /\ keypressed' = FALSE
  /\ irqs' = IF rie THEN {"TTYIN"} ELSE {}
  /\ at' = "transmit"
  /\ shown' = <<>> /\ cleared' = FALSE
  /\ UNCHANGED <<rie, transmitter, sigio, got>>

\* read() returns a byte.
ReadByte ==
  /\ at = "read" /\ tty # <<>>
  /\ tty' = Tail(tty)
  /\ rbuf' = Head(tty) % 128 /\ rdone' = TRUE
  /\ irqs' = IF rie THEN {"TTYIN"} ELSE {}
  /\ at' = "transmit"
  /\ shown' = <<>> /\ cleared' = FALSE
  /\ UNCHANGED <<rie, transmitter, keypressed, sigio, got>>

\* read() returns -1.
ReadNothing ==
  /\ at = "read" /\ tty = <<>>
  /\ at' = "nothing"
  /\ Quiet /\ UNCHANGED <<receiver, transmitter, keypressed, world, got>>

ClearKeypressed ==
  /\ at = "nothing"
  /\ keypressed' = FALSE
  /\ at' = "transmit"
  /\ Quiet /\ UNCHANGED <<receiver, transmitter, world, got>>

\* Faulty variant: count stops at 0.
TransmitSaturates ==
  LET start == IF xbuf # NUL THEN Delay ELSE count
      down  == IF start = 0 THEN 0 ELSE start - 1
  IN  /\ at = "transmit"
      /\ shown' = IF xbuf # NUL THEN <<xbuf>> ELSE <<>>
      /\ xbuf' = NUL
      /\ count' = IF xready THEN start ELSE down
      /\ xready' = (xready \/ start = 1)
      /\ irqs' = IF ~xready /\ start = 1 /\ xie THEN {"TTYOUT"} ELSE {}
      /\ at' = "guest" /\ cleared' = FALSE
      /\ UNCHANGED <<receiver, xie, keypressed, world, got>>

\* The rest of poll().  A byte in xbuf is shown and starts the delay; count
\* goes down while the transmitter is busy, around from 0 too.
Transmit ==
  LET start == IF xbuf # NUL THEN Delay ELSE count
      down  == (start + NCount - 1) % NCount
  IN  /\ at = "transmit"
      /\ shown' = IF xbuf # NUL THEN <<xbuf>> ELSE <<>>
      /\ xbuf' = NUL
      /\ count' = IF xready THEN start ELSE down
      /\ xready' = (xready \/ down = 0)
      /\ irqs' = IF ~xready /\ down = 0 /\ xie THEN {"TTYOUT"} ELSE {}
      /\ at' = "guest" /\ cleared' = FALSE
      /\ UNCHANGED <<receiver, xie, keypressed, world, got>>

Poll ==
  \/ PollIdle \/ PollReceive \/ ReadByte \/ ReadNothing \/ ClearKeypressed
  \/ Transmit

-----------------------------------------------------------------------------
(* The guest, between polls.  Its driver reads and sends a character only  *)
(* when DONE or READY is set, as the drivers of UNIX do.                   *)

\* Reading RBUF clears DONE, whether it is set or not.
FetchRBUF ==
  /\ at = "guest"
  /\ got' = rbuf /\ rdone' = FALSE
  /\ Quiet /\ UNCHANGED <<rie, rbuf, transmitter, keypressed, at, world>>

ReadRBUF == rdone /\ FetchRBUF

\* So does writing it, which would cost the guest the character.
StoreRBUF ==
  /\ at = "guest"
  /\ rdone' = FALSE
  /\ Quiet /\ UNCHANGED <<rie, rbuf, transmitter, keypressed, at, world, got>>

WriteRBUF == ~rdone /\ StoreRBUF

\* The interrupt enable bits can be set, and only a reset clears them.
WriteRCSR ==
  /\ at = "guest"
  /\ rie' = TRUE
  /\ Quiet /\ UNCHANGED <<rdone, rbuf, transmitter, keypressed, at, world, got>>

WriteXCSR ==
  /\ at = "guest"
  /\ xie' = TRUE
  /\ Quiet
  /\ UNCHANGED <<receiver, xready, xbuf, count, keypressed, at, world, got>>

\* The store itself asks nothing of READY.
StoreXBUF(v) ==
  /\ at = "guest"
  /\ xbuf' = v % 128 /\ xready' = FALSE
  /\ Quiet /\ UNCHANGED <<receiver, xie, count, keypressed, at, world, got>>

WriteXBUF == xready /\ \E k \in Keys : StoreXBUF(k)

\* clearterminal(), for the RESET instruction: keypressed keeps its value.
ClearTerminal ==
  /\ at = "guest"
  /\ rdone' = FALSE /\ rie' = FALSE /\ rbuf' = 0
  /\ xready' = TRUE /\ xie' = FALSE /\ xbuf' = 0 /\ count' = 0
  /\ cleared' = TRUE /\ shown' = <<>> /\ irqs' = {}
  /\ UNCHANGED <<keypressed, at, world, got>>

Guest ==
  \/ ReadRBUF \/ WriteRBUF \/ WriteRCSR \/ WriteXCSR \/ WriteXBUF
  \/ ClearTerminal

-----------------------------------------------------------------------------

Next == PressKey \/ Sigio \/ Poll \/ Guest

Spec == Init /\ [][Next]_vars

\* The run loop polls again and again: interrupts and faults do not cut short
\* every instruction.
FairSpec == Spec /\ WF_vars(Poll)

-----------------------------------------------------------------------------

\* Every register stays within its width.
TypeOK ==
  /\ rdone \in BOOLEAN /\ rie \in BOOLEAN /\ rbuf \in 0 .. 127
  /\ xready \in BOOLEAN /\ xie \in BOOLEAN /\ xbuf \in 0 .. 127
  /\ count \in 0 .. NCount - 1
  /\ keypressed \in BOOLEAN /\ sigio \in BOOLEAN
  /\ at \in {"guest", "read", "nothing", "transmit"}
  /\ tty \in Seq(Keys) /\ got \in 0 .. 127 /\ shown \in Seq(0 .. 127)
  /\ cleared \in BOOLEAN /\ irqs \subseteq {"TTYIN", "TTYOUT"}

Console == INSTANCE TTY WITH
  line <- (IF rdone THEN <<rbuf>> ELSE <<>>) \o [i \in DOMAIN tty |-> tty[i] % 128],
  outgoing <- IF xbuf = NUL THEN <<>> ELSE <<xbuf>>

(***************************************************************************)
(* A guest that waits for DONE and READY gets what was typed and shows     *)
(* what it sends, in order and nothing twice.  Only clearterminal() loses  *)
(* a character, the one received and the one to be shown.                  *)
(***************************************************************************)
IsATTY == Console!Spec

(***************************************************************************)
(* The transmitter becomes ready again after every character, also after   *)
(* a NUL, which takes all of count's NCount polls.                         *)
(***************************************************************************)
TransmitterReturns == ~xready ~> xready

\* A byte that waits in the terminal is on the way to the guest: keypressed
\* is set, and poll() is not about to clear it.
OnTheWay == tty # <<>> /\ keypressed /\ at # "nothing"

(***************************************************************************)
(* While bytes that poll() knows of are waiting, the guest finds DONE set. *)
(***************************************************************************)
WaitingIsRead == OnTheWay ~> rdone

\* A byte waits in the terminal, and neither a signal nor keypressed tells.
Forgotten == tty # <<>> /\ ~keypressed /\ ~sigio

(***************************************************************************)
(* A byte is forgotten in one place only: when SIGIO is handled between    *)
(* the read() that found nothing and the assignment to keypressed.         *)
(***************************************************************************)
OnlyTheRaceForgets ==
  [][~Forgotten /\ Forgotten' => at = "nothing" /\ keypressed /\ tty # <<>>]_vars

=============================================================================
