------------------------------ MODULE Decoder ------------------------------
(***************************************************************************)
(* Which instruction a word is: for the processor (the switch of           *)
(* KB11::step(), kb11.cc) and for the disassembler (disamtable,            *)
(* disasm.cc).  An instruction is its name and the length of its operands. *)
(***************************************************************************)
EXTENDS Naturals, Sequences

Op(name, length) == [name |-> name, len |-> length]

Invalid == Op("invalid", 2)  \* trapat(INTINVAL)

Branches == <<"BR", "BNE", "BEQ", "BGE", "BLT", "BGT", "BLE">>
ByteBranches == <<"BPL", "BMI", "BHI", "BLOS", "BVC", "BVS", "BCC", "BCS">>
Singles == <<"CLR", "COM", "INC", "DEC", "NEG", "ADC", "SBC", "TST",
             "ROR", "ROL", "ASR", "ASL">>
Doubles == <<"MOV", "CMP", "BIT", "BIC", "BIS">>
Extended == <<"MUL", "DIV", "ASH", "ASHC", "XOR">>
Zeroes == <<"HALT", "WAIT", "RTI", "BPT", "IOT", "RESET", "RTT", "MFPT">>

\* 0000xx, 0001DD, 0002xx and 0003DD
ZeroGroup(i) ==
  CASE i < 8              -> Op(Zeroes[i + 1], 2)
    [] i \div 64 = 1      -> Op("JMP", 2)
    [] i \div 8 = \o20    -> Op("RTS", 2)
    [] i \div 8 = \o23    -> Op("SPL", 2)
    [] i \div 8 \in \o24 .. \o25 -> Op("CLRCC", 2)
    [] i \div 8 \in \o26 .. \o27 -> Op("SETCC", 2)
    [] i \div 64 = 3      -> Op("SWAB", 2)
    [] OTHER              -> Invalid

\* 00xxDD and 10xxDD from xx = 50 on; x is i >> 6.
OneOperand(x, length) ==
  LET k == x % 64
  IN  CASE k \in \o50 .. \o63 -> Op(Singles[k - \o50 + 1], length)
        [] x = \o64 -> Op("MARK", 2)
        [] x = \o65 -> Op("MFPI", 2)
        [] x = \o66 -> Op("MTPI", 2)
        [] x = \o67 -> Op("SXT", 2)
        [] OTHER -> Invalid

\* Faulty variant: the second half of JSR's codes, R4 to R7, is forgotten.
WordGroupHalfJSR(i) ==
  LET b == i \div 256
  IN  CASE b = 0 -> ZeroGroup(i)
        [] b \in 1 .. 7 -> Op(Branches[b], 2)
        [] b = 8 -> Op("JSR", 2)
        [] OTHER -> OneOperand(i \div 64, 2)

\* 00xxxx: the upper eight bits first.
WordGroup(i) ==
  LET b == i \div 256
  IN  CASE b = 0 -> ZeroGroup(i)
        [] b \in 1 .. 7 -> Op(Branches[b], 2)
        [] b \in 8 .. 9 -> Op("JSR", 2)
        [] OTHER -> OneOperand(i \div 64, 2)

\* 10xxxx
ByteGroup(i) ==
  LET b == (i \div 256) % 16
  IN  CASE b < 8 -> Op(ByteBranches[b + 1], 2)
        [] b = 8 -> Op("EMT", 2)
        [] b = 9 -> Op("TRAP", 2)
        [] OTHER -> OneOperand(i \div 64, 1)

\* The switch of step(), on the upper four bits.
Operation(i) ==
  LET g == i \div 4096
      r == (i \div 512) % 8
  IN  CASE g = 0 -> WordGroup(i)
        [] g \in 1 .. 5 -> Op(Doubles[g], 2)
        [] g = 6 -> Op("ADD", 2)
        [] g = 7 -> IF r < 5 THEN Op(Extended[r + 1], 2)
                    ELSE IF r = 7 THEN Op("SOB", 2) ELSE Invalid
        [] g = 8 -> ByteGroup(i)
        [] g \in 9 .. 13 -> Op(Doubles[g - 8], 1)
        [] g = 14 -> Op("SUB", 2)
        [] OTHER -> IF i = \o170011 THEN Op("SETD", 2) ELSE Invalid

-----------------------------------------------------------------------------
(* The disassembler's table.  The mask of an entry leaves out the lowest   *)
(* bits, which are operands, and, of the entries that stand for a byte     *)
(* instruction too (b), the highest.                                       *)

\* n entries one step apart: names from ins on, each of step codes.
Entries(names, ins, step, b) ==
  [k \in 1 .. Len(names) |->
     [name |-> names[k], ins |-> ins + (k - 1) * step, step |-> step, b |-> b]]

disamtable ==
  Entries(Tail(Zeroes), 1, 1, FALSE)
  \o Entries(<<"JMP">>, \o100, \o100, FALSE)
  \o Entries(<<"RTS">>, \o200, 8, FALSE)
  \o Entries(<<"SWAB">>, \o300, \o100, FALSE)
  \o Entries(<<"MARK", "MFPI", "MTPI", "SXT">>, \o6400, \o100, FALSE)
  \o Entries(<<"EMT", "TRAP">>, \o104000, \o400, FALSE)
  \o Entries(ByteBranches, \o100000, \o400, FALSE)
  \o Entries(Branches, \o400, \o400, FALSE)
  \o Entries(<<"JSR">>, \o4000, \o1000, FALSE)
  \o Entries(<<"MUL", "DIV", "ASH", "ASHC">>, \o70000, \o1000, FALSE)
  \o Entries(<<"SOB">>, \o77000, \o1000, FALSE)
  \o Entries(<<"ADD">>, \o60000, \o10000, FALSE)
  \o Entries(<<"SUB">>, \o160000, \o10000, FALSE)
  \o Entries(Singles, \o5000, \o100, TRUE)
  \o Entries(Doubles, \o10000, \o10000, TRUE)

Matches(e, i) ==
  LET w == IF e.b THEN i % \o100000 ELSE i
  IN  w - (w % e.step) = e.ins

\* disasm(): the first entry that matches; the last, HALT, when none does.
Disassembled(i) ==
  LET hits == {k \in DOMAIN disamtable : Matches(disamtable[k], i)}
      e == disamtable[CHOOSE k \in hits : \A j \in hits : k <= j]
  IN  IF hits = {} THEN Op("HALT", 2)
      ELSE Op(e.name, IF e.b /\ i >= \o100000 THEN 1 ELSE 2)

\* What the table has no entry for.
Unlisted == {"HALT", "XOR", "SPL", "CLRCC", "SETCC", "SETD", "invalid"}

\* The two decoders, word by word.
Code == 0 .. \o177777

DecodersAgree ==
  \A i \in Code :
    LET o == Operation(i)
        d == Disassembled(i)
    IN  IF o.name \in Unlisted THEN d.name = "HALT" ELSE d = o

=============================================================================
