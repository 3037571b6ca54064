------------------------------- MODULE MCKT11 -------------------------------
(* Instances of KT11. *)
EXTENDS KT11
=============================================================================
