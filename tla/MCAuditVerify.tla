--------------------------- MODULE MCAuditVerify ----------------------------
(* An instance of AuditVerify for TLC.  Bodies and keys are each           *)
(* interchangeable.                                                        *)
EXTENDS AuditVerify, TLC

CONSTANTS b1, b2, k1, k2

Contents == {b1, b2}
Generated == {k1, k2}
Signers == Generated \cup {NoKey}

Symmetric == Permutations(Contents) \cup Permutations(Generated)
=============================================================================
