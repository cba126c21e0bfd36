--------------------------- MODULE AppendOnlyLog ---------------------------
(***************************************************************************)
(* What the audit chain promises its readers: one log of record bodies     *)
(* that only ever grows, one record at a time, at its end.                 *)
(***************************************************************************)
EXTENDS Sequences

CONSTANT Bodies   \* the record bodies a writer may commit

VARIABLE log      \* the committed bodies, in seq order

Init == log = <<>>

Commit(b) == log' = Append(log, b)

Next == \E b \in Bodies : Commit(b)

Spec == Init /\ [][Next]_log
=============================================================================
