----------------------------- MODULE Graduated ------------------------------
(***************************************************************************)
(* The graduated response (pipeline/graduated.py).  Risk and trust scores  *)
(* are integers in 0..One, the code's 0.0..1.0 rescaled.                   *)
(***************************************************************************)
EXTENDS Outcomes

CONSTANTS
  One,           \* the score that stands for 1.0
  SandboxAt,     \* GraduatedThresholds.sandbox_at
  DenyAt,        \* GraduatedThresholds.deny_at
  TrustHardenAt  \* GraduatedThresholds.trust_harden_at

(* GraduatedThresholds.__post_init__ refuses anything else.                *)
ASSUME ThresholdsAssumption ==
  /\ One \in Nat /\ SandboxAt \in 0..One /\ DenyAt \in 0..One
  /\ SandboxAt <= DenyAt
  /\ TrustHardenAt \in 0..One

Score == 0..One

RiskToOutcome(risk) ==
  CASE risk >= DenyAt -> "deny"
    [] risk < DenyAt /\ risk >= SandboxAt -> "sandbox"
    [] OTHER -> "allow"

(* Low trust tightens a risk outcome by one step, and never relaxes it.    *)
HardenNext(o) ==
  CASE o = "allow" -> "sandbox"
    [] o = "sandbox" -> "require_approval"
    [] OTHER -> o
ApplyTrustBand(base, trust) ==
  IF trust <= TrustHardenAt THEN HardenNext(base) ELSE base

(* graduated_response: a deny floor is terminal, any other only tightens.  *)
GraduatedResponse(floor, risk, trust) ==
  IF floor = "deny" THEN "deny"
  ELSE MoreRestrictive(floor, ApplyTrustBand(RiskToOutcome(risk), trust))
=============================================================================
