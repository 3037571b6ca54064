------------------------------- MODULE MCRK11 -------------------------------
(* Instances of RK11: a disk of 2 cylinders, 2 surfaces and 2 sectors. *)
EXTENDS RK11

At(d, c, s, k) == [drive |-> d, cyl |-> c, surf |-> s, sec |-> k]

\* The ends of a track, a cylinder and the disk, and what is not on it.
MCStarts ==
  {At(0, 0, 0, 1), At(0, 0, 1, 1), At(0, 1, 1, 0), At(0, 1, 1, 1),
   At(1, 0, 0, 0), At(0, 2, 0, 0), At(0, 0, 0, 2)}

MCFunctions == {0, 1, 2, 6, 7}

=============================================================================
