------------------------------ MODULE Outcomes ------------------------------
(***************************************************************************)
(* The outcome vocabulary, its one restrictiveness order                   *)
(* (contract/policy_io.py) and what a PEP does with an outcome             *)
(* (sdk/enforce.py).                                                       *)
(***************************************************************************)
EXTENDS Integers

Outcome == {"allow", "warn", "governance_review", "temporary_exception",
            "sandbox", "require_consensus", "require_approval", "deny"}

(* A temporary exception is ratified by a human, never authored.           *)
AuthorableEffects == Outcome \ {"temporary_exception"}

(* OUTCOME_RESTRICTIVENESS: higher is more restrictive.                    *)
Rank(o) ==
  CASE o = "allow" -> 0
    [] o = "warn" -> 1
    [] o \in {"governance_review", "temporary_exception"} -> 2
    [] o = "sandbox" -> 3
    [] o = "require_consensus" -> 4
    [] o = "require_approval" -> 5
    [] OTHER -> 6

(* max(a, b, key=OUTCOME_RESTRICTIVENESS): the first one wins a tie.       *)
MoreRestrictive(a, b) == IF Rank(a) >= Rank(b) THEN a ELSE b

(* select_floor: the most restrictive of the matched effects, or none.     *)
NoFloor == "none"
SelectFloor(effects) ==
  IF effects = {} THEN NoFloor
  ELSE CHOOSE o \in effects : \A p \in effects : Rank(p) <= Rank(o)

(* What a PEP runs at once; what it enforces as an approval until there    *)
(* is a realization of its own.                                            *)
Executable == {"allow", "warn", "temporary_exception", "governance_review"}
SubstitutedToApproval == {"sandbox", "require_consensus"}

(* Escalations, orthogonal to the outcome.                                 *)
SideEffect == {"notify", "additional_monitoring", "risk_flag", "create_incident"}
=============================================================================
