---------------------------- MODULE KT11_proofs ----------------------------
(***************************************************************************)
(* Proofs about module KT11, for every number of modes, pages and blocks   *)
(* and every value the guest loads into the registers.                     *)
(***************************************************************************)
EXTENDS KT11, TLAPS

LEMMA InitTypeOK == Init => TypeOK
<1> SUFFICES ASSUME Init PROVE TypeOK
  OBVIOUS
<1>1. NoPage \in Page
  BY KT11Assumption DEF NoPage, Page
<1>2. pages \in [Modes -> [Pages -> Page]]
  BY <1>1 DEF Init
<1>3. sr0 \in SR0s
  BY DEF Init, SR0s, Aborts
<1> QED
  BY <1>2, <1>3 DEF Init, TypeOK

\* What one write to a page of one mode does to the table of pages.
LEMMA PagesUpdate ==
  ASSUME pages \in [Modes -> [Pages -> Page]],
         NEW m \in Modes, NEW i \in Pages, NEW q \in Page
  PROVE  LET new == [pages EXCEPT ![m] = [pages[m] EXCEPT ![i] = q]]
         IN  /\ new \in [Modes -> [Pages -> Page]]
             /\ \A n \in Modes, j \in Pages :
                  new[n][j] = IF n = m /\ j = i THEN q ELSE pages[n][j]
<1> DEFINE new == [pages EXCEPT ![m] = [pages[m] EXCEPT ![i] = q]]
<1>1. [pages[m] EXCEPT ![i] = q] \in [Pages -> Page]
  OBVIOUS
<1>2. new \in [Modes -> [Pages -> Page]]
  BY <1>1
<1>3. ASSUME NEW n \in Modes, NEW j \in Pages
      PROVE  new[n][j] = IF n = m /\ j = i THEN q ELSE pages[n][j]
  <2>1. new[n] = IF n = m THEN [pages[m] EXCEPT ![i] = q] ELSE pages[n]
    OBVIOUS
  <2>2. [pages[m] EXCEPT ![i] = q][j] = IF j = i THEN q ELSE pages[m][j]
    OBVIOUS
  <2> QED
    BY <2>1, <2>2
<1> QED
  BY <1>2, <1>3

\* Changing a field of a page leaves a page.
LEMMA PageFields ==
  ASSUME NEW q \in Page, NEW b \in Bases
  PROVE  /\ [q EXCEPT !.w = TRUE] \in Page /\ [q EXCEPT !.par = b] \in Page
         /\ [q EXCEPT !.w = TRUE].w /\ [q EXCEPT !.par = b].w = q.w
         /\ [q EXCEPT !.w = TRUE].par = q.par /\ [q EXCEPT !.w = TRUE].len = q.len
         /\ [q EXCEPT !.w = TRUE].r = q.r /\ [q EXCEPT !.w = TRUE].ed = q.ed
         /\ q.par \in Bases /\ q.len \in Lens
         /\ q.w \in BOOLEAN /\ q.r \in BOOLEAN /\ q.ed \in BOOLEAN
BY DEF Page

\* The steps that change a page replace it by a page.
LEMMA LoadPARPages ==
  ASSUME TypeOK, LoadPAR
  PROVE  /\ pages' \in [Modes -> [Pages -> Page]]
         /\ \A n \in Modes, j \in Pages : pages'[n][j].w = pages[n][j].w
<1>1. PICK m \in Modes, i \in Pages, b \in Bases :
        pages' = [pages EXCEPT ![m][i].par = b]
  BY DEF LoadPAR
<1> DEFINE q == [pages[m][i] EXCEPT !.par = b]
<1>2. pages \in [Modes -> [Pages -> Page]] /\ pages[m][i] \in Page
  BY DEF TypeOK
<1>3. q \in Page /\ q.w = pages[m][i].w
  BY <1>2, PageFields
<1>4. pages' = [pages EXCEPT ![m] = [pages[m] EXCEPT ![i] = q]]
  BY <1>1
<1> HIDE DEF q
<1> QED
  BY <1>2, <1>3, <1>4, PagesUpdate

LEMMA LoadPDRPages ==
  ASSUME TypeOK, NEW m \in Modes, NEW i \in Pages, NEW q \in Page,
         pages' = [pages EXCEPT ![m][i] = q]
  PROVE  /\ pages' \in [Modes -> [Pages -> Page]]
         /\ \A n \in Modes, j \in Pages :
              pages'[n][j] = IF n = m /\ j = i THEN q ELSE pages[n][j]
<1>1. pages \in [Modes -> [Pages -> Page]]
  BY DEF TypeOK
<1>2. pages' = [pages EXCEPT ![m] = [pages[m] EXCEPT ![i] = q]]
  OBVIOUS
<1> QED
  BY <1>1, <1>2, PagesUpdate

LEMMA WritePages ==
  ASSUME TypeOK, NEW m \in Modes, NEW i \in Pages
  PROVE  pages' = [pages EXCEPT ![m][i].w = TRUE] =>
           /\ pages' \in [Modes -> [Pages -> Page]]
           /\ \A n \in Modes, j \in Pages :
                pages'[n][j] = IF n = m /\ j = i
                               THEN [pages[m][i] EXCEPT !.w = TRUE]
                               ELSE pages[n][j]
<1> DEFINE q == [pages[m][i] EXCEPT !.w = TRUE]
<1>0. SUFFICES ASSUME pages' = [pages EXCEPT ![m][i].w = TRUE]
               PROVE  /\ pages' \in [Modes -> [Pages -> Page]]
                      /\ \A n \in Modes, j \in Pages :
                           pages'[n][j] = IF n = m /\ j = i THEN q
                                          ELSE pages[n][j]
  OBVIOUS
<1>1. pages \in [Modes -> [Pages -> Page]] /\ pages[m][i] \in Page
  BY DEF TypeOK
<1>2. q \in Page
  BY <1>1, PageFields, KT11Assumption
<1>3. pages' = [pages EXCEPT ![m] = [pages[m] EXCEPT ![i] = q]]
  BY <1>0
<1> HIDE DEF q
<1> QED
  BY <1>1, <1>2, <1>3, PagesUpdate

\* The four ways a step can go, with what it picks.
LEMMA NextCases ==
  ASSUME [Next]_vars
  PROVE  \/ \E m \in Modes, va \in Virtual, wr \in BOOLEAN :
              \/ DecodeOff(m, va, wr) \/ DecodeAbort(m, va, wr)
              \/ DecodeOn(m, va, wr)
         \/ LoadPAR \/ LoadPDR \/ LoadSR0 \/ UNCHANGED vars
BY DEF Next, Decode

LEMMA NextTypeOK == TypeOK /\ [Next]_vars => TypeOK'
<1> SUFFICES ASSUME TypeOK, [Next]_vars PROVE TypeOK'
  OBVIOUS
<1>0. /\ enabled \in BOOLEAN /\ sr0 \in SR0s
      /\ pages \in [Modes -> [Pages -> Page]]
      /\ written \subseteq Modes \X Pages /\ loadedW \subseteq Modes \X Pages
  BY DEF TypeOK
<1>1. ASSUME NEW m \in Modes, NEW va \in Virtual, NEW wr \in BOOLEAN,
             DecodeOff(m, va, wr)
      PROVE  TypeOK'
  <2>1. UNCHANGED <<enabled, sr0, pages, written, loadedW>>
    BY <1>1 DEF DecodeOff
  <2> QED
    BY <1>0, <2>1 DEF TypeOK
<1>2. ASSUME NEW m \in Modes, NEW va \in Virtual, NEW wr \in BOOLEAN,
             DecodeAbort(m, va, wr)
      PROVE  TypeOK'
  <2>1. Abort(pages[m][va.page], va.block, wr) \in Aborts /\ va.page \in Pages
    BY DEF Abort, Aborts, Virtual
  <2>2. sr0' \in SR0s
    BY <1>2, <2>1 DEF DecodeAbort, SR0s
  <2> QED
    BY <1>0, <1>2, <2>2 DEF DecodeAbort, TypeOK
<1>3. ASSUME NEW m \in Modes, NEW va \in Virtual, NEW wr \in BOOLEAN,
             DecodeOn(m, va, wr)
      PROVE  TypeOK'
  <2>1. va.page \in Pages
    BY DEF Virtual
  <2>2. pages' \in [Modes -> [Pages -> Page]]
    BY <1>0, <1>3, <2>1, WritePages DEF DecodeOn
  <2>3. written' \subseteq Modes \X Pages
    BY <1>0, <1>3, <2>1 DEF DecodeOn
  <2> QED
    BY <1>0, <1>3, <2>2, <2>3 DEF DecodeOn, TypeOK
<1>4. CASE LoadPAR
  BY <1>0, <1>4, LoadPARPages DEF LoadPAR, TypeOK
<1>5. CASE LoadPDR
  <2>1. PICK m \in Modes, i \in Pages, q \in Page :
          /\ pages' = [pages EXCEPT ![m][i] = q]
          /\ written' = written \ {<<m, i>>}
          /\ loadedW' = IF q.w THEN loadedW \cup {<<m, i>>}
                        ELSE loadedW \ {<<m, i>>}
    BY <1>5 DEF LoadPDR
  <2>2. pages' \in [Modes -> [Pages -> Page]]
    BY <2>1, LoadPDRPages
  <2>3. written' \subseteq Modes \X Pages /\ loadedW' \subseteq Modes \X Pages
    BY <1>0, <2>1
  <2> QED
    BY <1>0, <1>5, <2>2, <2>3 DEF LoadPDR, TypeOK
<1>6. CASE LoadSR0
  <2>1. sr0' \in SR0s
    BY <1>6 DEF LoadSR0, SR0s, Aborts
  <2> QED
    BY <1>0, <1>6, <2>1 DEF LoadSR0, TypeOK
<1>7. CASE UNCHANGED vars
  BY <1>7 DEF vars, TypeOK
<1> QED
  BY <1>1, <1>2, <1>3, <1>4, <1>5, <1>6, <1>7, NextCases

\* The registers of the unit stay within their widths.
THEOREM MMUTypeCorrect == Spec => []TypeOK
BY InitTypeOK, NextTypeOK, PTL DEF Spec

-----------------------------------------------------------------------------

\* decode() keeps an access inside the page's window: the one fact about its
\* arithmetic that protection rests on.
LEMMA MappedInWindow ==
  ASSUME NEW p \in Page, NEW va \in Virtual, NEW wr \in BOOLEAN,
         Abort(p, va.block, wr) = "none"
  PROVE  /\ p.r /\ Mapped(p, va).block \in Window(p)
         /\ Mapped(p, va).disp = va.disp
<1>1. p.par \in Nat /\ p.len \in 0 .. NBlocks - 1 /\ va.block \in 0 .. NBlocks - 1
      /\ NBlocks \in Nat
  BY KT11Assumption DEF Page, Virtual
<1>2. p.r /\ ~BeyondLength(p, va.block)
  BY DEF Abort, Readable
<1>3. CASE p.ed
  <2>1. va.block >= p.len
    BY <1>1, <1>2, <1>3 DEF BeyondLength
  <2> QED
    BY <1>1, <1>2, <1>3, <2>1 DEF Mapped, Window
<1>4. CASE ~p.ed
  <2>1. va.block <= p.len
    BY <1>1, <1>2, <1>4 DEF BeyondLength
  <2> QED
    BY <1>1, <1>2, <1>4, <2>1 DEF Mapped, Window
<1> QED
  BY <1>3, <1>4

LEMMA NextConfined == TypeOK /\ Confined /\ [Next]_vars => Confined'
<1> SUFFICES ASSUME TypeOK, Confined, [Next]_vars PROVE Confined'
  OBVIOUS
<1>1. ASSUME NEW m \in Modes, NEW va \in Virtual, NEW wr \in BOOLEAN,
             DecodeOn(m, va, wr)
      PROVE  Confined'
  <2> DEFINE p == pages[m][va.page]
             q == pages'[m][va.page]
  <2>1. va.page \in Pages /\ p \in Page
    BY DEF Virtual, TypeOK
  <2>2. q = p \/ q = [p EXCEPT !.w = TRUE]
    BY <1>1, <2>1, WritePages DEF DecodeOn
  <2>3. q.par = p.par /\ q.len = p.len /\ q.r = p.r /\ q.ed = p.ed
    <3>1. /\ [p EXCEPT !.w = TRUE].par = p.par /\ [p EXCEPT !.w = TRUE].len = p.len
          /\ [p EXCEPT !.w = TRUE].r = p.r /\ [p EXCEPT !.w = TRUE].ed = p.ed
      BY <2>1, PageFields, KT11Assumption
    <3> QED
      BY <2>2, <3>1
  <2>4. p.r /\ Mapped(p, va).block \in Window(p) /\ Mapped(p, va).disp = va.disp
    BY <1>1, <2>1, MappedInWindow DEF DecodeOn
  <2>5. last' = [kind |-> "access", mode |-> m, va |-> va, wr |-> wr,
                 at |-> Mapped(p, va)]
    BY <1>1 DEF DecodeOn
  <2>6. Window(q) = Window(p)
    BY <2>3 DEF Window
  <2>7. /\ q.r
        /\ last'.at.block \in Window(q) /\ last'.at.disp = last'.va.disp
        /\ last'.mode = m /\ last'.va = va
    BY <2>3, <2>4, <2>5, <2>6
  <2> HIDE DEF p
  <2>8. Confined' <=>
          (last'.kind = "access" =>
             /\ pages'[last'.mode][last'.va.page].r
             /\ last'.at.block \in Window(pages'[last'.mode][last'.va.page])
             /\ last'.at.disp = last'.va.disp)
    BY DEF Confined, Window
  <2> QED
    BY <2>7, <2>8
<1>2. ASSUME NEW m \in Modes, NEW va \in Virtual, NEW wr \in BOOLEAN,
             DecodeOff(m, va, wr) \/ DecodeAbort(m, va, wr)
      PROVE  Confined'
  <2>1. last'.kind # "access"
    BY <1>2 DEF DecodeOff, DecodeAbort
  <2> QED
    BY <2>1 DEF Confined
<1>3. CASE LoadPAR \/ LoadPDR \/ LoadSR0
  <2>1. last'.kind # "access"
    BY <1>3 DEF LoadPAR, LoadPDR, LoadSR0
  <2> QED
    BY <2>1 DEF Confined
<1>4. CASE UNCHANGED vars
  BY <1>4 DEF vars, Confined, Window
<1> QED
  BY <1>1, <1>2, <1>3, <1>4, NextCases

\* Protection: every access that is let through lies in the window of a page
\* of its mode.
THEOREM ConfinedAlways == Spec => []Confined
<1>1. Init => Confined
  BY DEF Init, Confined
<1> QED
  BY <1>1, NextConfined, MMUTypeCorrect, PTL DEF Spec

-----------------------------------------------------------------------------

LEMMA NextMarked ==
  TypeOK /\ WrittenIsMarked /\ [Next]_vars => WrittenIsMarked'
<1> SUFFICES ASSUME TypeOK, WrittenIsMarked, [Next]_vars,
                    NEW n \in Modes, NEW j \in Pages
             PROVE  pages'[n][j].w <=> <<n, j>> \in written' \cup loadedW'
  BY DEF WrittenIsMarked
<1>0. pages[n][j].w <=> <<n, j>> \in written \cup loadedW
  BY DEF WrittenIsMarked
<1>t. pages \in [Modes -> [Pages -> Page]]
  BY DEF TypeOK
<1>1. ASSUME NEW m \in Modes, NEW va \in Virtual, NEW wr \in BOOLEAN,
             DecodeOn(m, va, wr)
      PROVE  pages'[n][j].w <=> <<n, j>> \in written' \cup loadedW'
  <2>1. va.page \in Pages
    BY DEF Virtual
  <2>2. CASE wr
    <3>1. pages'[n][j] = IF n = m /\ j = va.page
                         THEN [pages[m][va.page] EXCEPT !.w = TRUE]
                         ELSE pages[n][j]
      BY <1>1, <2>1, <2>2, WritePages DEF DecodeOn
    <3>2. written' = written \cup {<<m, va.page>>} /\ loadedW' = loadedW
      BY <1>1, <2>2 DEF DecodeOn
    <3>3. [pages[m][va.page] EXCEPT !.w = TRUE].w = TRUE
      BY <1>t, <2>1, PageFields, KT11Assumption
    <3>4. CASE n = m /\ j = va.page
      BY <3>1, <3>2, <3>3, <3>4
    <3>5. CASE ~(n = m /\ j = va.page)
      BY <1>0, <3>1, <3>2, <3>5
    <3> QED
      BY <3>4, <3>5
  <2>3. CASE ~wr
    BY <1>0, <1>1, <2>3 DEF DecodeOn
  <2> QED
    BY <2>2, <2>3
<1>2. ASSUME NEW m \in Modes, NEW va \in Virtual, NEW wr \in BOOLEAN,
             DecodeOff(m, va, wr) \/ DecodeAbort(m, va, wr)
      PROVE  pages'[n][j].w <=> <<n, j>> \in written' \cup loadedW'
  BY <1>0, <1>2 DEF DecodeOff, DecodeAbort
<1>3. CASE LoadPAR
  <2>1. pages'[n][j].w = pages[n][j].w
    BY <1>3, LoadPARPages
  <2> QED
    BY <1>0, <1>3, <2>1 DEF LoadPAR
<1>4. CASE LoadPDR
  <2>1. PICK m \in Modes, i \in Pages, q \in Page :
          /\ pages' = [pages EXCEPT ![m][i] = q]
          /\ written' = written \ {<<m, i>>}
          /\ loadedW' = IF q.w THEN loadedW \cup {<<m, i>>}
                        ELSE loadedW \ {<<m, i>>}
    BY <1>4 DEF LoadPDR
  <2>2. pages'[n][j] = IF n = m /\ j = i THEN q ELSE pages[n][j]
    BY <2>1, LoadPDRPages
  <2>3. q.w \in BOOLEAN
    BY DEF Page
  <2>4. CASE n = m /\ j = i
    BY <2>1, <2>2, <2>3, <2>4
  <2>5. CASE ~(n = m /\ j = i)
    <3>1. <<n, j>> # <<m, i>>
      BY <2>5
    <3>2. pages'[n][j] = pages[n][j]
      BY <2>2, <2>5
    <3>3. <<n, j>> \in written' \cup loadedW' <=> <<n, j>> \in written \cup loadedW
      BY <2>1, <3>1
    <3> QED
      BY <1>0, <3>2, <3>3
  <2> QED
    BY <2>4, <2>5
<1>5. CASE LoadSR0 \/ UNCHANGED vars
  BY <1>0, <1>5 DEF LoadSR0, vars
<1> QED
  BY <1>1, <1>2, <1>3, <1>4, <1>5, NextCases

\* The W bits tell the pages that were written to from those that were not.
THEOREM WrittenIsMarkedAlways == Spec => []WrittenIsMarked
<1>1. Init => WrittenIsMarked
  BY DEF Init, WrittenIsMarked, NoPage
<1> QED
  BY <1>1, NextMarked, MMUTypeCorrect, PTL DEF Spec

-----------------------------------------------------------------------------

\* A block that decode() finds beyond the length lies outside the window.
LEMMA BeyondWindow ==
  ASSUME NEW p \in Page, NEW va \in Virtual, BeyondLength(p, va.block)
  PROVE  p.par + va.block \notin Window(p)
<1>1. p.par \in Nat /\ p.len \in 0 .. NBlocks - 1 /\ va.block \in 0 .. NBlocks - 1
      /\ NBlocks \in Nat
  BY KT11Assumption DEF Page, Virtual
<1>2. CASE p.ed
  BY <1>1, <1>2 DEF BeyondLength, Window
<1>3. CASE ~p.ed
  BY <1>1, <1>3 DEF BeyondLength, Window
<1> QED
  BY <1>2, <1>3

LEMMA NextOutside ==
  TypeOK /\ OnlyOutsideFaults /\ [Next]_vars => OnlyOutsideFaults'
<1> SUFFICES ASSUME TypeOK, OnlyOutsideFaults, [Next]_vars
             PROVE  OnlyOutsideFaults'
  OBVIOUS
<1>1. ASSUME NEW m \in Modes, NEW va \in Virtual, NEW wr \in BOOLEAN,
             DecodeAbort(m, va, wr)
      PROVE  OnlyOutsideFaults'
  <2> DEFINE p == pages[m][va.page]
  <2>1. /\ Abort(p, va.block, wr) # "none"
        /\ last'.mode = m /\ last'.va = va /\ pages'[m][va.page] = p
    BY <1>1 DEF DecodeAbort
  <2>2. p \in Page
    BY DEF Virtual, TypeOK
  <2>3. ~p.r \/ BeyondLength(p, va.block)
    BY <2>1 DEF Abort, Readable, Writable
  <2>4. ~p.r \/ p.par + va.block \notin Window(p)
    BY <2>2, <2>3, BeyondWindow
  <2> HIDE DEF p
  <2> QED
    BY <2>1, <2>4 DEF OnlyOutsideFaults, Window
<1>2. ASSUME NEW m \in Modes, NEW va \in Virtual, NEW wr \in BOOLEAN,
             DecodeOff(m, va, wr) \/ DecodeOn(m, va, wr)
      PROVE  OnlyOutsideFaults'
  <2>1. last'.kind # "abort"
    BY <1>2 DEF DecodeOff, DecodeOn
  <2> QED
    BY <2>1 DEF OnlyOutsideFaults
<1>3. CASE LoadPAR \/ LoadPDR \/ LoadSR0
  <2>1. last'.kind # "abort"
    BY <1>3 DEF LoadPAR, LoadPDR, LoadSR0
  <2> QED
    BY <2>1 DEF OnlyOutsideFaults
<1>4. CASE UNCHANGED vars
  BY <1>4 DEF vars, OnlyOutsideFaults, Window
<1> QED
  BY <1>1, <1>2, <1>3, <1>4, NextCases

\* Nothing is refused that the page allows: an access faults only if no page
\* is there or the block lies outside its window.
THEOREM OnlyOutsideFaultsAlways == Spec => []OnlyOutsideFaults
<1>1. Init => OnlyOutsideFaults
  BY DEF Init, OnlyOutsideFaults
<1> QED
  BY <1>1, NextOutside, MMUTypeCorrect, PTL DEF Spec

=============================================================================
