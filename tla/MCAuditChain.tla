---------------------------- MODULE MCAuditChain ----------------------------
(* Instances of AuditChain for TLC: two writers, or the one the code assumes.*)
EXTENDS AuditChain

CONSTANTS w1, w2

TwoWriters == {w1, w2}
OneWriter == {w1}
=============================================================================
