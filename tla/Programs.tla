------------------------------ MODULE Programs ------------------------------
(***************************************************************************)
(* Programs for the machine: those the source holds as data (bootrom.h),   *)
(* and two that use the devices as the drivers of an operating system do.  *)
(***************************************************************************)
EXTENDS Integers, Sequences, TLC

\* The words of a program from address a on.
Program(a, words) ==
  [b \in {a + 2 * (k - 1) : k \in DOMAIN words} |-> words[(b - a) \div 2 + 1]]

\* bootrom.h: loads the first two sectors of drive 0 and jumps to them.
bootrom ==
  <<\o042113, \o012706, \o2000, \o012700, 0, \o010003, \o000303, \o006303, \o006303,
    \o006303, \o006303, \o006303, \o012701, \o177412, \o010311, \o005041, \o012741,
    \o177000, \o012741, 5, \o005002, \o005003, \o012704, \o2020, \o005005, \o105711,
    \o100376, \o105011, \o005007>>

\* bootrom.h: sends on what the console receives.
consecho ==
  <<\o012700, \o177560, \o105710, \o100376, \o016060, 2, 6, \o000772>>

\* TSTB @#RCSR; BPL .+8; MOV @#RBUF,@#XBUF
sendon == <<\o105737, \o177560, \o100003, \o013737, \o177562, \o177566>>

\* The echo with interrupts: at priority 7 both are enabled and what came in
\* before is sent on, and at 0 it is WAIT; BR .-2.
interrupting ==
  <<\o012706, \o3000, \o237, \o012737, \o100, \o177560, \o012737, \o100, \o177564>>
    \o sendon \o <<\o230, 1, \o000776>>

\* The receiver's handler sends on, the transmitter's does nothing.
handlers ==
  Program(\o1100, sendon \o <<2>>) @@ Program(\o1120, <<2>>)
    @@ Program(\o60, <<\o1100, \o240, \o1120, \o240>>)

\* MOV #v,@#a
Load(v, a) == <<\o012737, v, a>>

\* MOV #v,@#RKCS
Command(v) == Load(v, \o177404)

\* Until DONE: TSTB @#RKCS; BPL .-4
Await == <<\o105737, \o177404, \o100375>>

\* SP; clock, printer, CLR @#RCSR, CLR @#RBUF, MOV @#RBUF,R2, RESET; clock; a
\* drive that is not there, reset, an odd address, read check, seek; then the
\* words go to the disk and come back to another place.
disktest(from, to, words) ==
  <<\o012706, \o3000>> \o Load(64, \o177546) \o Load(64, \o177514) \o Load(65, \o177516)
    \o <<\o005037, \o177560, \o005037, \o177562, \o013702, \o177562, 5>>
    \o Load(64, \o177546) \o Load(\o20000, \o177412) \o Command(5) \o Command(1)
    \o Load(1, \o177410) \o Load(\o177776, \o177406) \o Command(5)
    \o Command(\o13) \o Command(\o11)
    \o Load(from, \o177410) \o Load(65536 - words, \o177406)
    \o Command(\o103) \o Await
    \o Load(0, \o177412) \o Load(to, \o177410)
    \o Load(65536 - words, \o177406) \o Command(\o105) \o Await \o <<0>>

\* For odd addresses and for the disk, one that stops the disk; for the clock,
\* one that does nothing.
diskhandlers ==
  Program(\o1200, <<\o005037, \o177404, 2, 0, 2>>)
    @@ Program(4, <<\o1200, \o340>>) @@ Program(\o220, <<\o1200, \o340>>)
    @@ Program(\o100, <<\o1210, \o340>>)

=============================================================================
