------------------------------ MODULE RKBlocks ------------------------------
(***************************************************************************)
(* What the disk controller promises of a transfer: it moves words between *)
(* consecutive positions of the disk and consecutive bus addresses, from   *)
(* where the program told it to start, and no more than it was asked for.  *)
(* RK11 implements it, a sector at a time, with a cylinder, a surface and  *)
(* a sector number.                                                        *)
(***************************************************************************)
EXTENDS Naturals

CONSTANTS
  NBytes,       \* bus addresses wrap around at NBytes (2^16 in the source)
  Positions,    \* the word positions a program can name
  MaxCount      \* the largest number of words a program asks for

VARIABLES
  next,         \* position of the next word on the disk
  addr,         \* bus address of the next word
  left,         \* number of words still to move
  moved         \* the pairs <<position, address>> moved by the last step

vars == <<next, addr, left, moved>>

Init == next = 0 /\ addr = 0 /\ left = 0 /\ moved = {}

\* The program sets up a transfer, or gives one up.
Program ==
  /\ next' \in Positions /\ addr' \in 0 .. NBytes - 1 /\ left' \in 0 .. MaxCount
  /\ moved' = {}

\* Nothing is said of the position once all the words have been moved.
Move ==
  \E n \in 1 .. left :
    /\ moved' = {<<next + k, (addr + 2 * k) % NBytes>> : k \in 0 .. n - 1}
    /\ left' = left - n
    /\ addr' = (addr + 2 * n) % NBytes
    /\ next' = IF left' = 0 THEN 0 ELSE next + n

Next == Program \/ Move

Spec == Init /\ [][Next]_vars

=============================================================================
