-------------------------- MODULE MCDecisionPipeline --------------------------
(* Instances of DecisionPipeline for TLC.                                  *)
EXTENDS DecisionPipeline

CONSTANTS c1, agent

OneCall == {c1}
Escalations == [p \in Refs |-> IF p = "p" THEN {"create_incident"} ELSE {"additional_monitoring"}]
ByOneAgent == [c \in Calls |-> agent]
=============================================================================
