---------------------------- MODULE MCExceptions ----------------------------
(* An instance of Exceptions for TLC: a request that is a governed call    *)
(* that may wait for approval, or is filed by hand; a call of the same     *)
(* agent, whose effects no dispatcher takes, and one of another agent,     *)
(* that may not wait; a principle that asks for a review in one            *)
(* constitution and denies in the other.                                   *)
EXTENDS Exceptions

FiredBy == [r1 |-> {"p"}, r2 |-> {"p", "z"}, r3 |-> {"p"}]
Makers == [r1 |-> "a", r2 |-> "a", r3 |-> "b"]
SomeNotify == [r1 |-> {"notify"}, r2 |-> {"notify"}, r3 |-> {}]
Constitutions == <<[p |-> "governance_review", z |-> "warn"], [p |-> "deny", z |-> "warn"]>>
=============================================================================
