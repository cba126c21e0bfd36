----------------------------- MODULE Exceptions -----------------------------
(***************************************************************************)
(* The life of a temporary exception (POL-13) through every component it   *)
(* crosses: an operator grants it with a resolution (approvals.py), the    *)
(* pipeline looks it up when a principle denies (active_exceptions; the    *)
(* transform of runner.py), and governed_call enforces what comes of it,   *)
(* beside amendments of the constitution, revocations and the clock.       *)
(* Decisions are no longer arbitrary: they follow from the principles that *)
(* fire on the call under the constitution that is loaded.                 *)
(***************************************************************************)
EXTENDS Enforcement

CONSTANTS
  AgentOf,   \* AgentOf[r]: the agent that makes the call r
  EffectIn,  \* EffectIn[v][p]: the effect of principle p in constitution v
  MaxTime    \* bound on the clock, for model checking

Versions == DOMAIN EffectIn

ASSUME ExceptionsAssumption ==
  /\ MaxTime \in Nat
  /\ \A v \in Versions : EffectIn[v] \in [Refs -> AuthorableEffects]
  /\ DOMAIN AgentOf = Requests

VARIABLES
  version,  \* the constitution that is loaded
  now,      \* the clock
  until,    \* until[g]: the expires_at of the temporary_exceptions row g
  basis     \* basis[r]: what the decision on r rested on

ratifyVars == <<allVars, version, now, until, basis>>

Expiries == 1..(MaxTime + 1)
NoBasis == [denied |-> {}, used |-> {}, at |-> 0]

ExceptionsInit ==
  /\ EnforcementInit
  /\ version \in Versions
  /\ now = 0
  /\ until = [g \in {} |-> 0]
  /\ basis = [r \in Requests |-> NoBasis]

-----------------------------------------------------------------------------
(* active_exceptions: the unrevoked, unexpired grants of this agent for    *)
(* these principles.                                                       *)
MutantActive(agent, refs) ==
  {g \in grants \ revoked : g.ref \in refs /\ until[g] > now}
Active(agent, refs) ==
  {g \in grants \ revoked : g.ref \in refs /\ AgentOf[g.req] = agent /\ until[g] > now}

EffectsOf(refs) == {EffectIn[version][p] : p \in refs}
DenyRefs(r) == {p \in FiredRefs[r] : EffectIn[version][p] = "deny"}
Used(r) == Active(AgentOf[r], DenyRefs(r))

(* _apply_exception_transform: every principle that denies is covered, and *)
(* those that do not deny still govern.                                    *)
Lifted(r) == DenyRefs(r) # {} /\ \A p \in DenyRefs(r) : \E g \in Used(r) : g.ref = p

FloorOf(refs) == IF refs = {} THEN "allow" ELSE SelectFloor(EffectsOf(refs))
Floor(r) == IF Lifted(r) THEN FloorOf(FiredRefs[r] \ DenyRefs(r)) ELSE FloorOf(FiredRefs[r])

(* Risk and trust only tighten a floor that does not deny, and what they   *)
(* leave allowed is labelled as the exception it is.                       *)
Tightened == {"allow", "sandbox", "require_approval", "deny"}
Graduated(r, tightened) ==
  LET outcome == IF Floor(r) = "deny" THEN "deny" ELSE MoreRestrictive(Floor(r), tightened) IN
  IF Lifted(r) /\ outcome = "allow" THEN "temporary_exception" ELSE outcome

ReviewFired(r) == "governance_review" \in EffectsOf(FiredRefs[r])

(* _fail_safe: against the floor that is not lifted, and without reasons.  *)
(* (One that would be parked without reasons grants nothing; it is left to *)
(* DecisionPipeline.)                                                      *)
FailSafeOutcome(r) ==
  IF r \in OpenClass THEN FloorOf(FiredRefs[r]) ELSE "deny"

(* The decision and the lookup are one step of the loop.                   *)
Decide(r) ==
  /\ \/ \E tightened \in Tightened, fx \in SUBSET SideEffects[r] :
          Decided(r, Graduated(r, tightened), fx, ReviewFired(r))
     \/ /\ FailSafeOutcome(r) \in Executable \cup {"deny"}
        /\ Decided(r, FailSafeOutcome(r), {}, FALSE)
  /\ basis' = [basis EXCEPT ![r] =
       IF Lifted(r) THEN [denied |-> DenyRefs(r), used |-> Used(r), at |-> now]
       ELSE [NoBasis EXCEPT !.denied = DenyRefs(r)]]
  /\ UNCHANGED <<version, now, until>>

(* A failure before the policy stage of a fail-open class: there is no     *)
(* floor yet, and the fail-safe allows.                                    *)
FailsEarly(r) ==
  /\ r \in OpenClass
  /\ Decided(r, "allow", {}, FALSE)
  /\ basis' = [basis EXCEPT ![r] = NoBasis]
  /\ UNCHANGED <<version, now, until>>

CallGoesOn(r) ==
  /\ Evaluate(r) \/ Onward(r) \/ FileRequest(r)
  /\ UNCHANGED <<version, now, until, basis>>

(* The expiry is an input of resolve, the same for every row it grants.    *)
ApprovalGoesOn ==
  /\ ApprovalStep
  /\ IF grants' = grants THEN UNCHANGED until
     ELSE \E t \in Expiries : until' = [g \in grants' |-> IF g \in grants THEN until[g] ELSE t]
  /\ UNCHANGED <<version, now, basis>>

Amend ==
  /\ SharedLoop => busy = Free
  /\ version' \in Versions \ {version}
  /\ UNCHANGED <<allVars, now, until, basis>>

Tick ==
  /\ SharedLoop => busy = Free
  /\ now < MaxTime
  /\ now' = now + 1
  /\ UNCHANGED <<allVars, version, until, basis>>

ExceptionsNext ==
  \/ \E r \in Requests : Decide(r) \/ FailsEarly(r) \/ CallGoesOn(r)
  \/ ApprovalGoesOn
  \/ Amend
  \/ Tick

ExceptionsSpec == ExceptionsInit /\ [][ExceptionsNext]_ratifyVars

-----------------------------------------------------------------------------
Ran(r) == call[r].pc = "ran"

(* POL-13: an operation on which a principle denied ran only if, for each  *)
(* such principle, an operator had approved a request of the same agent in *)
(* which it fired, with an exception neither revoked nor expired when the  *)
(* decision was made; whatever was parked, amended or resolved meanwhile.  *)
Ratified(r, p) ==
  \E g \in basis[r].used :
    /\ g.ref = p /\ until[g] > basis[r].at
    /\ AgentOf[g.req] = AgentOf[r]
    /\ row[g.req] = "approved" /\ p \in FiredRefs[g.req]
RanAsRatified == \A r \in Requests : Ran(r) => \A p \in basis[r].denied : Ratified(r, p)

(* No governed call lifts a deny of its own: behind every run past one,    *)
(* through whatever chain of exceptions, stands an approved request of the *)
(* same agent, naming the principle, that was filed by hand or was parked  *)
(* by a call which that principle did not deny, as before an amendment     *)
(* (enforce.py, the deny branch; approvals.py, create and resolve;         *)
(* test_approval_e2e.py, which files one).                                 *)
LiftedFromOutside(r, p) ==
  \E q \in Requests :
    /\ AgentOf[q] = AgentOf[r]
    /\ row[q] = "approved" /\ p \in FiredRefs[q]
    /\ call[q].pc = "filed" \/ p \notin basis[q].denied
DenyLiftedFromOutside ==
  \A r \in Requests : Ran(r) => \A p \in basis[r].denied : LiftedFromOutside(r, p)
=============================================================================
