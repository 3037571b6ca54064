-------------------------------- MODULE KT11 --------------------------------
(***************************************************************************)
(* The KT11 memory management unit (kt11.h, kt11.cc): decode(), which maps *)
(* a virtual address and notes writes and faults, and the registers that   *)
(* the guest's kernel loads.                                               *)
(*                                                                         *)
(* A virtual address is its page (bits 15-13), its block (12-6) and its    *)
(* displacement (5-0); a bus address, its block and its displacement.      *)
(***************************************************************************)
EXTENDS Naturals

CONSTANTS
  Modes,        \* the modes whose pages the guest uses, of 0, 1 and 3
  Pages,        \* 0 .. 7 in the source
  NBlocks,      \* blocks in a page, 128 in the source
  Disps,        \* 0 .. 63 in the source
  Bases,        \* the PARs the guest loads, of 0 .. 4095
  Lens,         \* the lengths it loads, of 0 .. NBlocks - 1
  IOPage        \* the page, 7, whose upper half leads to the device registers

ASSUME KT11Assumption ==
  /\ Modes \subseteq {0, 1, 3} /\ 0 \in Modes
  /\ Pages \subseteq Nat /\ IOPage \in Pages
  /\ NBlocks \in Nat \ {0}
  /\ Bases \subseteq Nat /\ 0 \in Bases
  /\ Lens \subseteq 0 .. NBlocks - 1 /\ 0 \in Lens

VARIABLES
  enabled,      \* bit 0 of SR0
  sr0,          \* the rest of SR0: abort bit, page and mode
  pages,        \* PAR and PDR of every page
  last,         \* the last access: what was asked for and what it came to
  written,      \* the pages written to since their PDR was loaded
  loadedW       \* the pages whose PDR was loaded with its W bit set

vars == <<enabled, sr0, pages, last, written, loadedW>>

\* par: the base block; of the PDR r (bit 1), rw (bit 2), ed (bit 3),
\* w (bit 6) and len (bits 14-8).
Page ==
  [par : Bases, r : BOOLEAN, rw : BOOLEAN, ed : BOOLEAN, w : BOOLEAN, len : Lens]

NoPage ==
  [par |-> 0, r |-> FALSE, rw |-> FALSE, ed |-> FALSE, w |-> FALSE, len |-> 0]

Virtual == [page : Pages, block : 0 .. NBlocks - 1, disp : Disps]

Aborts == {"none", "nonresident", "length", "readonly"}  \* bits 15, 14 and 13

SR0s == [abort : Aborts, page : Pages \cup {0}, mode : {0, 3}]

Init ==
  /\ enabled = FALSE
  /\ sr0 = [abort |-> "none", page |-> 0, mode |-> 0]
  /\ pages = [m \in Modes |-> [p \in Pages |-> NoPage]]
  /\ last = [kind |-> "none"]
  /\ written = {} /\ loadedW = {}

-----------------------------------------------------------------------------
(* decode() *)

Readable(p) == p.r

Writable(p) == p.r \/ p.rw

\* Faulty variant: a page that grows down is checked like one that grows up.
BeyondLengthUpOnly(p, block) == block > p.len

\* Faulty variant: the last block of a page that grows down is refused.
BeyondLengthTooEarly(p, block) ==
  IF p.ed THEN block <= p.len ELSE block > p.len

BeyondLength(p, block) == IF p.ed THEN block < p.len ELSE block > p.len

\* The tests of decode(), in their order.
Abort(p, block, wr) ==
  IF wr /\ ~Writable(p) THEN "readonly"
  ELSE IF ~Readable(p) THEN "nonresident"
  ELSE IF BeyondLength(p, block) THEN "length"
  ELSE "none"

\* With the unit on. The sum may exceed 12 bits; the bus then traps.
Mapped(p, va) == [block |-> p.par + va.block, disp |-> va.disp]

\* With the unit off: addresses above 0167777 are moved up by 0600000.
Unmapped(va) ==
  LET a == va.page * NBlocks + va.block
  IN  [block |-> IF va.page = IOPage /\ va.block >= NBlocks \div 2
                 THEN a + 24 * NBlocks ELSE a,
       disp |-> va.disp]

DecodeOff(m, va, wr) ==
  /\ ~enabled
  /\ last' = [kind |-> "off", va |-> va, at |-> Unmapped(va)]
  /\ UNCHANGED <<enabled, sr0, pages, written, loadedW>>

\* Faulty variant: SR0 gets the block where the page belongs.
DecodeAbortWrongBits(m, va, wr) ==
  LET why == Abort(pages[m][va.page], va.block, wr)
  IN  /\ enabled /\ why # "none"
      /\ sr0' = [abort |-> why, page |-> va.block, mode |-> IF m = 0 THEN 0 ELSE 3]
      /\ last' = [kind |-> "abort", mode |-> m, va |-> va, wr |-> wr, why |-> why]
      /\ UNCHANGED <<enabled, pages, written, loadedW>>

\* SR0 names the page; any mode but the kernel's is shown as user mode.
DecodeAbort(m, va, wr) ==
  LET why == Abort(pages[m][va.page], va.block, wr)
  IN  /\ enabled /\ why # "none"
      /\ sr0' = [abort |-> why, page |-> va.page, mode |-> IF m = 0 THEN 0 ELSE 3]
      /\ last' = [kind |-> "abort", mode |-> m, va |-> va, wr |-> wr, why |-> why]
      /\ UNCHANGED <<enabled, pages, written, loadedW>>

\* Faulty variant: reads set the W bit too.
DecodeOnMarksReads(m, va, wr) ==
  LET p == pages[m][va.page]
  IN  /\ enabled /\ Abort(p, va.block, wr) = "none"
      /\ pages' = [pages EXCEPT ![m][va.page].w = TRUE]
      /\ last' = [kind |-> "access", mode |-> m, va |-> va, wr |-> wr,
                  at |-> Mapped(p, va)]
      /\ written' = IF wr THEN written \cup {<<m, va.page>>} ELSE written
      /\ UNCHANGED <<enabled, sr0, loadedW>>

DecodeOn(m, va, wr) ==
  LET p == pages[m][va.page]
  IN  /\ enabled /\ Abort(p, va.block, wr) = "none"
      /\ pages' = IF wr THEN [pages EXCEPT ![m][va.page].w = TRUE] ELSE pages
      /\ last' = [kind |-> "access", mode |-> m, va |-> va, wr |-> wr,
                  at |-> Mapped(p, va)]
      /\ written' = IF wr THEN written \cup {<<m, va.page>>} ELSE written
      /\ UNCHANGED <<enabled, sr0, loadedW>>

\* decode<wr>(a, mode)
Decode ==
  \E m \in Modes, va \in Virtual, wr \in BOOLEAN :
    DecodeOff(m, va, wr) \/ DecodeAbort(m, va, wr) \/ DecodeOn(m, va, wr)

-----------------------------------------------------------------------------
(* The registers. *)

\* write16() to a PAR.
LoadPAR ==
  /\ \E m \in Modes, i \in Pages, b \in Bases :
       pages' = [pages EXCEPT ![m][i].par = b]
  /\ last' = [kind |-> "none"]
  /\ UNCHANGED <<enabled, sr0, written, loadedW>>

\* write16() to a PDR: all of its bits, W too.
LoadPDR ==
  /\ \E m \in Modes, i \in Pages, q \in Page :
       /\ q.par = pages[m][i].par
       /\ pages' = [pages EXCEPT ![m][i] = q]
       /\ written' = written \ {<<m, i>>}
       /\ loadedW' = IF q.w THEN loadedW \cup {<<m, i>>} ELSE loadedW \ {<<m, i>>}
  /\ last' = [kind |-> "none"]
  /\ UNCHANGED <<enabled, sr0>>

\* UNIBUS::write16() to SR0, which loads all of it.
LoadSR0 ==
  /\ enabled' \in BOOLEAN /\ sr0' \in SR0s
  /\ last' = [kind |-> "none"]
  /\ UNCHANGED <<pages, written, loadedW>>

-----------------------------------------------------------------------------

Next == Decode \/ LoadPAR \/ LoadPDR \/ LoadSR0

Spec == Init /\ [][Next]_vars

-----------------------------------------------------------------------------

\* The registers stay within their widths.
TypeOK ==
  /\ enabled \in BOOLEAN /\ sr0 \in SR0s
  /\ pages \in [Modes -> [Pages -> Page]]
  /\ written \subseteq Modes \X Pages /\ loadedW \subseteq Modes \X Pages

\* The blocks a page stands for: its length counts up from the first block,
\* or down from the last.
Window(p) ==
  IF p.ed THEN p.par + p.len .. p.par + NBlocks - 1 ELSE p.par .. p.par + p.len

(***************************************************************************)
(* An access that is let through ends in the window of the page of the     *)
(* mode it is made for, at the same displacement, and the page is there.   *)
(***************************************************************************)
Confined ==
  last.kind = "access" =>
    LET p == pages[last.mode][last.va.page]
    IN  /\ p.r
        /\ last.at.block \in Window(p) /\ last.at.disp = last.va.disp

(***************************************************************************)
(* The W bit of a page tells that the page was written to since its PDR    *)
(* was loaded, unless it was loaded with the bit set.                      *)
(***************************************************************************)
WrittenIsMarked ==
  \A m \in Modes, i \in Pages :
    pages[m][i].w <=> <<m, i>> \in written \cup loadedW

(***************************************************************************)
(* The other half: an access that faults had no page there to read, or was *)
(* to a block outside the window.  A page is not a block short at the end  *)
(* from which it grows, and nothing the guest may reach is refused.        *)
(***************************************************************************)
OnlyOutsideFaults ==
  last.kind = "abort" =>
    LET p == pages[last.mode][last.va.page]
    IN  ~p.r \/ p.par + last.va.block \notin Window(p)

(***************************************************************************)
(* What the message of the first abort says it prevents (kt11.h:26, "write *)
(* to read-only page"): a page is written to only if its PDR gives write   *)
(* access.  It does not hold: write() tests bit 1 as well as bit 2.        *)
(***************************************************************************)
ReadOnlyIsKept ==
  last.kind = "access" /\ last.wr => pages[last.mode][last.va.page].rw

=============================================================================
