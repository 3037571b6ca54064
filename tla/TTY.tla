-------------------------------- MODULE TTY --------------------------------
(***************************************************************************)
(* What a console promises the program that uses it: the characters typed  *)
(* come in, and the characters sent go out, one by one, in order, each     *)
(* once.  KL11 implements it with a one-character buffer each way, which a *)
(* bus reset empties.                                                      *)
(***************************************************************************)
EXTENDS Naturals, Sequences

CONSTANTS
  Keys,         \* the bytes the terminal sends
  NUL           \* the character that is not sent

VARIABLES
  line,         \* characters typed and not read yet
  got,          \* the character last read
  outgoing,     \* the character sent and not shown yet, if there is one
  shown,        \* the characters shown by the last step
  cleared       \* the last step was a reset

vars == <<line, got, outgoing, shown, cleared>>

Init ==
  line = <<>> /\ got = NUL /\ outgoing = <<>> /\ shown = <<>> /\ cleared = FALSE

\* A character has seven bits.
Character == {k % 128 : k \in Keys}

Type ==
  /\ \E c \in Character : line' = Append(line, c)
  /\ shown' = <<>> /\ UNCHANGED <<got, outgoing>>

Receive ==
  /\ line # <<>>
  /\ got' = Head(line) /\ line' = Tail(line)
  /\ shown' = <<>> /\ UNCHANGED outgoing

Send ==
  /\ outgoing = <<>>
  /\ \E c \in Character : outgoing' = IF c = NUL THEN <<>> ELSE <<c>>
  /\ shown' = <<>> /\ UNCHANGED <<line, got>>

Show ==
  /\ outgoing # <<>>
  /\ shown' = outgoing /\ outgoing' = <<>>
  /\ UNCHANGED <<line, got>>

Forget == shown' = <<>> /\ UNCHANGED <<line, got, outgoing>>

\* A reset loses what the device holds, and a character it had not taken yet
\* stays on the line.
Reset ==
  /\ line' = line \/ (line # <<>> /\ line' = Tail(line))
  /\ outgoing' = <<>> /\ shown' = <<>> /\ UNCHANGED got

\* No other step is taken for a reset, nor a reset for another step.
Next ==
  \/ ~cleared' /\ (Type \/ Receive \/ Send \/ Show \/ Forget)
  \/ cleared' /\ Reset

Spec == Init /\ [][Next]_vars

=============================================================================
