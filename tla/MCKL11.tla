------------------------------- MODULE MCKL11 -------------------------------
(* Instances of KL11. *)
EXTENDS KL11

\* NUL, and a letter with and without the eighth bit.
MCKeys == {0, 65, 193}

=============================================================================
