---------------------------- MODULE IrqTableSpec ----------------------------
(***************************************************************************)
(* What interrupt() and popirq() do to KB11::itab when each runs to its    *)
(* end: an entry is filed where the two searches put it, the first entry   *)
(* is removed.  Nothing is said of the steps taken while the SIGALRM       *)
(* handler may file entries too.                                           *)
(***************************************************************************)
EXTENDS IrqTable

CONSTANT Uses                    \* the entries that are ever filed

VARIABLES
  table,
  quiet         \* the handler files nothing

Init == table = EmptyTable

File(e) ==
  \E p \in Slot : Lands(table, e, p) /\ table' = Filed(table, e, p)

RemoveFirst == ~Free(table, 0) /\ table' = Popped(table)

Next == RemoveFirst \/ \E e \in Uses : File(e)

Spec == Init /\ [][quiet => Next]_table

=============================================================================
