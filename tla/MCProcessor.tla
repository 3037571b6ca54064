---------------------------- MODULE MCProcessor ----------------------------
(* Instances of Processor: one instruction at 0500 of a small memory. *)
EXTENDS Processor

Operands(regs) == {8 * m + r : m \in 0 .. 7, r \in regs}

\* Each kind of instruction, with every mode where it has operands.  R3, R4
\* and R5 are data, R1 and R2 point at what Pointers says.  No instruction
\* makes the kernel's R6 odd: no trap could be taken any more.
MCInstructions ==
  {b + 64 * s + d : b \in {\o010000, \o110000}, s \in Operands({1, 6, 7}), d \in Operands({2})}
  \cup {b + 64 * s + d : b \in {\o060000, \o150000}, s \in Operands({1, 2}), d \in Operands({1, 2, 7})}
  \cup {b + \o0300 + d : b \in {\o020000, \o160000}, d \in Operands({2, 6})}
  \cup {b + d : b \in {\o005200, \o006300, \o006700, \o074300, \o070300, \o105100,
                       \o106000, \o105200, \o004700, \o004500, \o004100, \o000100},
                d \in Operands({1, 2, 6, 7}) \ {6}}
  \cup {b + d : b \in {\o006500, \o006600}, d \in Operands({1, 6, 7})}
  \cup {\o077102, \o000402, \o001402, \o103402, \o000207, \o000205, \o006402, \o000002,
        \o000003, \o000004, \o000005, \o000007, \o104000, \o104401, \o000010, \o000237,
        \o000257, \o000277, \o170011, \o071301, \o072327}

Page(b, r, w) == [base |-> b, r |-> r, w |-> w]
NoPage == Page(0, FALSE, FALSE)

\* Page 0 is memory, page 1 refuses, page 2 can be read, page 7 is seven.
Pages(seven) ==
  [m \in 0 .. 3 |-> [p \in 0 .. 7 |->
     CASE p = 0 -> Page(0, TRUE, TRUE)
       [] p = 2 -> Page(\o200, TRUE, FALSE)
       [] p = 7 -> seven
       [] OTHER -> NoPage]]

Devices == Page(\o7600, TRUE, TRUE)
Memory == Page(\o400, TRUE, TRUE)

\* Where programs are, what memory holds, and vectors of UNIX's kind.  The
\* subroutine and the handler return at once.
MCCore(i) ==
  [a \in {4, 6, 8, 10, 12, 14, 16, 18, 24, 26, 28, 30, \o250, \o252,
          \o500, \o502, \o504, \o506, \o600, \o602, \o604, \o700, \o702, \o704,
          \o520, \o1000, \o1002, \o1004, \o1010, \o1012, \o3000, \o20000, \o40000, \o50000} |->
     CASE a = \o500 -> i
       [] a \in {\o502, \o504} -> 8
       [] a = \o520 -> \o207
       [] a = \o3000 -> 2
       [] a < \o400 -> IF a % 4 = 0 THEN \o3000 ELSE \o340
       [] a \in {\o600, \o604, \o700, \o704} -> \o520
       [] a \in {\o602, \o702} -> \o140001
       [] a = \o1000 -> \o1010
       [] a = \o1002 -> \o20000
       [] a = \o1010 -> \o100377
       [] OTHER -> \o1000 + a \div \o10000]

\* <<mode, previous mode, MMU, page 7, R1, R2, R6 and the kernel's, codes>>
Pointers ==
  {<<0, 0, FALSE, Devices, \o1000, \o1004, \o700, \o700, 1>>,
   <<0, 3, FALSE, Devices, \o170003, \o177562, \o700, \o700, 8>>,
   <<3, 3, TRUE,  Devices, \o1001, \o20002, \o20002, \o20004, 5>>,
   <<3, 0, TRUE,  Devices, \o1002, \o40001, \o700, \o600, 10>>,
   <<0, 3, TRUE,  Memory,  \o1002, \o170004, \o700, \o700, 15>>,
   <<3, 3, TRUE,  Devices, \o20000, \o177776, \o20000, \o600, 0>>}

StartOf(i, p) ==
  [R |-> [r \in 0 .. 7 |-> CASE r = 0 -> 0 [] r = 1 -> p[5] [] r = 2 -> p[6]
                             [] r = 3 -> 2 [] r = 4 -> \o177777 [] r = 5 -> \o1000
                             [] r = 6 -> p[7] [] r = 7 -> \o500],
   psw |-> \o40000 * p[1] + \o10000 * p[2] + p[9],
   sp |-> [m \in 0 .. 3 |-> IF m = 0 THEN p[8] ELSE \o1000 - 16 * m],
   pc |-> 0, core |-> MCCore(i),
   mmu |-> [on |-> p[3], pages |-> Pages(p[4])],
   io |-> [a \in {\o777562} |-> 65],
   log |-> <<>>, val |-> 0, trap |-> 0, dead |-> FALSE]

MCStarts == {StartOf(i, p) : i \in MCInstructions, p \in Pointers}

MCRegisters == 0 .. 7

=============================================================================
