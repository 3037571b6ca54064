----------------------------- MODULE MCMachine -----------------------------
(* Instances of Machine: a program each, on the bare machine. *)
EXTENDS Machine, Programs

StartAt(a, core) ==
  [R |-> [r \in 0 .. 7 |-> IF r = 7 THEN a ELSE 0], psw |-> 0,
   sp |-> [m \in 0 .. 3 |-> 0], pc |-> 0, core |-> core,
   mmu |-> [on |-> FALSE, pages |-> <<>>],
   io |-> (StackLimit :> \o377) @@ (Switches :> \o173030),
   log |-> <<>>, val |-> 0, trap |-> 0, dead |-> FALSE]

MCStarts ==
  {StartAt(BootStart, Program(\o2000, bootrom)),
   StartAt(TestStart, Program(TestStart, disktest(TestStart, TestBuffer, TestWords)) @@ diskhandlers),
   StartAt(EchoStart, Program(EchoStart, consecho)),
   StartAt(EchoStart, Program(EchoStart, interrupting) @@ handlers)}

\* The block that is booted begins with HALT.
MCDiskWord(w) == (3 * w) % 65536

MCKeys == {66, 193}

MCRegisters == 0 .. 7

=============================================================================
