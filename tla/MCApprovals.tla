---------------------------- MODULE MCApprovals -----------------------------
(* An instance of Approvals for TLC: every request is parked with two      *)
(* fired principles.                                                       *)
EXTENDS Approvals

FiredBy == [r \in Requests |-> {"p", "q"}]
=============================================================================
