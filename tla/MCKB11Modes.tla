----------------------------- MODULE MCKB11Modes -----------------------------
(* Instances of KB11Modes. *)
EXTENDS KB11Modes

\* Trap vectors as UNIX sets them up, and one that goes to supervisor mode.
MCVectors ==
  {[cur |-> 0, prev |-> 0, pri |-> p, cc |-> {}] : p \in Priorities}
    \cup {[cur |-> m, prev |-> 0, pri |-> 0, cc |-> {}] : m \in Modes \ {0, 3}}

=============================================================================
