-------------------------- MODULE DecisionPipeline --------------------------
(***************************************************************************)
(* Pipeline.evaluate (pipeline/runner.py): the ordered stages that turn an *)
(* action into an audited Decision, and the fail-safe that catches any     *)
(* exception they raise.  Evaluations are coroutines of one event loop:    *)
(* `running' is the one that holds it, and only the await of the semantic  *)
(* interpreter gives it up before the decision is returned.                *)
(***************************************************************************)
EXTENDS Graduated, Sequences, FiniteSets

CONSTANTS
  Calls,          \* the evaluations, one per action
  Agents,         \* the agents that act
  AgentOf,        \* AgentOf[c]: the agent whose action c evaluates
  Refs,           \* the principles of the constitution
  Effects,        \* the effects they author
  SideEffectsOf,  \* SideEffectsOf[p]: the escalations principle p declares
  Hinted,         \* the principles that author remediation hints
  NoMatchFloors,  \* the per-class floors when no principle matches
  MaxExpiry,      \* exceptions expire at 1..MaxExpiry; 0 has passed
  MaxVersion      \* bound on policy reloads, for model checking

NoCall == "no call"

ASSUME PipelineAssumption ==
  /\ NoCall \notin Calls
  /\ AgentOf \in [Calls -> Agents]
  /\ Effects \subseteq AuthorableEffects /\ NoMatchFloors \subseteq AuthorableEffects
  /\ SideEffectsOf \in [Refs -> SUBSET SideEffect]
  /\ MaxExpiry \in Nat /\ MaxVersion \in Nat \ {0}

VARIABLES
  call,     \* call[c]: the state of evaluation c
  running,  \* the evaluation that holds the event loop, or NoCall
  killed,   \* the agents the kill switch holds, in memory
  version,  \* the constitution/policy version loaded in the engine
  log       \* log[c]: the audit records written for c

vars == <<call, running, killed, version, log>>

None == 0        \* no expiry, or no version
Advice == {"none", "authored", "await", "review"}  \* the remediation lines

Stages == {"new", "kill", "identity", "policy", "interpret", "transform", "risk",
           "append", "retry", "failsafe", "safeappend", "returned", "cancelled"}

(* Locals of evaluate; the Decision; and what only the properties read: the*)
(* strictest floor established, the graduated verdict, the live exceptions *)
(* consumed and the version evaluated.                                     *)
CallState ==
  [pc : Stages, open : BOOLEAN, clean : BOOLEAN, trust : Score,
   floor : Outcome, deny : SUBSET Refs, others : SUBSET Effects,
   box : Outcome \cup {NoFloor}, applied : 0..MaxExpiry,
   fired : SUBSET Refs, flagged : BOOLEAN,
   outcome : Outcome, expires : 0..MaxExpiry, pinned : 0..MaxVersion,
   effects : SUBSET SideEffect, remediation : Advice, evidence : BOOLEAN,
   known : Outcome, verdict : Outcome, waived : SUBSET (Refs \X (1..MaxExpiry)),
   evaluated : 0..MaxVersion]

New == [pc |-> "new", open |-> FALSE, clean |-> TRUE, trust |-> One,
        floor |-> "allow", deny |-> {}, others |-> {},
        box |-> NoFloor, applied |-> None,
        fired |-> {}, flagged |-> FALSE,
        outcome |-> "deny", expires |-> None, pinned |-> None,
        effects |-> {}, remediation |-> "none", evidence |-> FALSE,
        known |-> "allow", verdict |-> "allow", waived |-> {}, evaluated |-> None]

Init ==
  /\ call = [c \in Calls |-> New]
  /\ running = NoCall
  /\ killed = {}
  /\ version = 1
  /\ log = [c \in Calls |-> <<>>]

-----------------------------------------------------------------------------
At(c, stage) == running = c /\ call[c].pc = stage
Becomes(c, d) == call' = [call EXCEPT ![c] = d]

(* The class of the action is fail-open or not; its payload is redactable  *)
(* or not.                                                                 *)
Start(c) ==
  /\ running = NoCall /\ call[c].pc = "new"
  /\ \E open, clean \in BOOLEAN :
       Becomes(c, [call[c] EXCEPT !.pc = "kill", !.open = open, !.clean = clean])
  /\ running' = c
  /\ UNCHANGED <<killed, version, log>>

(* A short-circuit: the deny is boxed, and audited before it is returned.  *)
MutantShortCircuit(d, v) ==
  [d EXCEPT !.pc = "append", !.outcome = "deny", !.pinned = v, !.known = "deny"]
ShortCircuit(d, v) ==
  [d EXCEPT !.pc = "append", !.outcome = "deny", !.box = "deny", !.pinned = v,
            !.known = "deny"]

(* Stage 0.                                                                *)
CheckKillSwitch(c) ==
  /\ At(c, "kill")
  /\ Becomes(c, IF AgentOf[c] \in killed THEN ShortCircuit(call[c], None)
                ELSE [call[c] EXCEPT !.pc = "identity"])
  /\ UNCHANGED <<running, killed, version, log>>

(* Stage 1: a forged or unknown identity, or a trust score.                *)
VerifyIdentity(c) ==
  /\ At(c, "identity")
  /\ \/ Becomes(c, ShortCircuit(call[c], version))
     \/ \E trust \in Score :
          Becomes(c, [call[c] EXCEPT !.pc = "policy", !.trust = trust])
  /\ UNCHANGED <<running, killed, version, log>>

(* Stages 2 and 3.  The principles of some set of refs fire, each with its *)
(* effect ...                                                              *)
EffectsOf(matched) == {matched[r] : r \in DOMAIN matched}
DenyRefs(matched) == {r \in DOMAIN matched : matched[r] = "deny"}

(* The floor that the principles which do not deny leave standing.         *)
MutantRestFloor(others) == SelectFloor(others)
RestFloor(others) == IF others = {} THEN "allow" ELSE SelectFloor(others)

PolicyMatched(c) ==
  /\ At(c, "policy")
  /\ \E R \in (SUBSET Refs) \ {{}} : \E matched \in [R -> Effects] :
       LET floor == SelectFloor(EffectsOf(matched)) IN
       Becomes(c, [call[c] EXCEPT
         !.pc = IF floor = "deny" THEN "transform" ELSE "risk",
         !.floor = floor, !.box = floor, !.fired = R, !.deny = DenyRefs(matched),
         !.others = EffectsOf(matched) \ {"deny"},
         !.known = floor, !.evaluated = version])
  /\ UNCHANGED <<running, killed, version, log>>

(* ... or none does: the floor is the posture's, and the interpreter is    *)
(* awaited.                                                                *)
PolicyNotMatched(c) ==
  /\ At(c, "policy")
  /\ \E floor \in NoMatchFloors :
       Becomes(c, [call[c] EXCEPT !.pc = "interpret", !.floor = floor, !.box = floor,
                                  !.known = floor, !.evaluated = version])
  /\ running' = NoCall
  /\ UNCHANGED <<killed, version, log>>

(* The interpreter's verdict only tightens the floor; an error or an       *)
(* outcome that is not authorable leaves it.                               *)
NoVerdict == "no verdict"
Clamp(floor, verdict) ==
  IF verdict \in AuthorableEffects THEN MoreRestrictive(floor, verdict) ELSE floor

InterpreterAnswers(c) ==
  /\ running = NoCall /\ call[c].pc = "interpret"
  /\ \E verdict \in AuthorableEffects \cup {NoVerdict} :
       LET floor == Clamp(call[c].floor, verdict) IN
       Becomes(c, [call[c] EXCEPT !.pc = "risk", !.floor = floor, !.box = floor,
                                  !.known = MoreRestrictive(@, floor)])
  /\ running' = c
  /\ UNCHANGED <<killed, version, log>>

(* The awaiting task is cancelled: CancelledError is no Exception, so      *)
(* neither handler sees it and no decision exists.                         *)
Cancel(c) ==
  /\ running = NoCall /\ call[c].pc = "interpret"
  /\ Becomes(c, [call[c] EXCEPT !.pc = "cancelled"])
  /\ UNCHANGED <<running, killed, version, log>>

(* POL-13: a deny floor is lifted when the lookup found an exception for   *)
(* every deny ref and none of them has expired.                            *)
Live(found) == {r \in DOMAIN found : found[r] > 0}

Covered(deny, found) == deny \subseteq Live(found)

MutantEarliest(found) ==
  CHOOSE e \in EffectsOf(found) : \A r \in DOMAIN found : found[r] <= e
Earliest(found) ==
  CHOOSE e \in EffectsOf(found) : \A r \in DOMAIN found : e <= found[r]

ApplyExceptions(c) ==
  LET d == call[c] IN
  /\ At(c, "transform")
  /\ \E R \in SUBSET d.deny : \E found \in [R -> 0..MaxExpiry] :
       Becomes(c,
         IF Covered(d.deny, found)
         THEN [d EXCEPT !.pc = "risk", !.floor = RestFloor(d.others), !.applied = Earliest(found),
                        !.waived = {<<r, found[r]>> : r \in Live(found)}]
         ELSE [d EXCEPT !.pc = "risk"])
  /\ UNCHANGED <<running, killed, version, log>>

(* Stage 4: the most severe finding scores, and the expensive tier runs    *)
(* only when the inline tier flagged something.                            *)
AssessRisk(flagged, inline, expensive) ==
  IF flagged /\ expensive > inline THEN expensive ELSE inline

(* Stage 5.  An exception that survived to an allow is labelled as what it *)
(* is, with the earliest expiry.                                           *)
Relabel(outcome, applied) ==
  IF applied # None /\ outcome = "allow" THEN "temporary_exception" ELSE outcome

(* What the Decision carries beside its outcome: the escalations of every  *)
(* principle that fired and of a flagged finding, and what to do about a   *)
(* restrictive outcome.                                                    *)
Declared(refs) == UNION {SideEffectsOf[p] : p \in refs}
DeriveSideEffects(d) == Declared(d.fired) \cup (IF d.flagged THEN {"risk_flag"} ELSE {})

Restrictive(o) == Rank(o) >= Rank("sandbox")
DeriveRemediation(d, outcome) ==
  CASE ~ Restrictive(outcome) -> "none"
    [] Restrictive(outcome) /\ d.fired \cap Hinted # {} -> "authored"
    [] outcome = "require_approval" /\ d.fired \cap Hinted = {} -> "await"
    [] OTHER -> IF d.deny # {} \/ \E e \in d.others : Restrictive(e) THEN "review" ELSE "none"

Decision(d, outcome, v) ==
  [d EXCEPT !.pc = "append", !.outcome = outcome, !.pinned = v, !.verdict = outcome,
            !.effects = DeriveSideEffects(d),
            !.remediation = DeriveRemediation(d, outcome),
            !.expires = IF outcome = "temporary_exception" THEN d.applied ELSE None]
MutantDecide(d, outcome, v) == Decision(d, outcome, v)
Decide(d, outcome, v) == [Decision(d, outcome, v) EXCEPT !.box = outcome]

ScoreAndDecide(c) ==
  LET d == call[c] IN
  /\ At(c, "risk")
  /\ \E inline, expensive \in Score, flagged \in BOOLEAN :
       LET risk == AssessRisk(flagged, inline, expensive) IN
       Becomes(c, Decide([d EXCEPT !.flagged = flagged],
                         Relabel(GraduatedResponse(d.floor, risk, d.trust), d.applied),
                         version))
  /\ UNCHANGED <<running, killed, version, log>>

(* The append of d wrote its record: the decision is returned.             *)
MutantRecordOf(d) == [outcome |-> d.verdict, expires |-> d.expires,
                      effects |-> d.effects, remediation |-> d.remediation]
RecordOf(d) == [outcome |-> d.outcome, expires |-> d.expires,
                effects |-> d.effects, remediation |-> d.remediation]

Audited(c, d) ==
  /\ Becomes(c, [d EXCEPT !.pc = "returned", !.evidence = TRUE])
  /\ log' = [log EXCEPT ![c] = Append(@, RecordOf(d))]
  /\ running' = NoCall
  /\ UNCHANGED <<killed, version>>

AppendRecord(c) ==
  At(c, "append") /\ call[c].clean /\ Audited(c, call[c])

(* _append_with_redaction_fallback: the posture applies first, then a      *)
(* payload-free copy is appended.                                          *)
MutantRetryUnstripped(d) ==
  [d EXCEPT !.pc = "append", !.outcome = IF d.open THEN @ ELSE "deny"]
AfterRedactionError(d) ==
  [d EXCEPT !.pc = "retry", !.outcome = IF d.open THEN @ ELSE "deny"]

RedactionFails(c) ==
  /\ At(c, "append") /\ ~ call[c].clean
  /\ Becomes(c, AfterRedactionError(call[c]))
  /\ UNCHANGED <<running, killed, version, log>>

RetryStripped(c) == At(c, "retry") /\ Audited(c, call[c])

(* An exception of a stage after the in-memory kill check, of the audit    *)
(* backend or of its secret scan reaches the outer handler.                *)
Raise(c) ==
  /\ running = c
  /\ call[c].pc \in {"identity", "policy", "transform", "risk", "append", "retry"}
  /\ Becomes(c, [call[c] EXCEPT !.pc = "failsafe"])
  /\ UNCHANGED <<running, killed, version, log>>

(* _fail_safe: the posture's outcome, tightened to the boxed floor; a new, *)
(* unversioned Decision, on which a fail-open rides with a human notified. *)
MutantFailSafeOutcome(d) ==
  IF d.box # NoFloor THEN d.box ELSE IF d.open THEN "allow" ELSE "deny"
FailSafeOutcome(d) ==
  LET posture == IF d.open THEN "allow" ELSE "deny"
  IN  IF d.box = NoFloor THEN posture ELSE MoreRestrictive(posture, d.box)

MutantFailSafeEffects(d) == IF FailSafeOutcome(d) = "allow" THEN {"notify"} ELSE {}
FailSafeEffects(d) == IF d.open THEN {"notify"} ELSE {}

FailSafe(c) ==
  /\ At(c, "failsafe")
  /\ Becomes(c, [call[c] EXCEPT !.pc = "safeappend", !.outcome = FailSafeOutcome(call[c]),
                                !.expires = None, !.pinned = None,
                                !.effects = FailSafeEffects(call[c]),
                                !.remediation = "none"])
  /\ UNCHANGED <<running, killed, version, log>>

FailSafeAudited(c) == At(c, "safeappend") /\ Audited(c, call[c])

(* No record, no allow; any other outcome is returned without evidence.    *)
Unaudited(outcome) == IF outcome = "allow" THEN "deny" ELSE outcome

FailSafeUnaudited(c) ==
  /\ At(c, "safeappend")
  /\ Becomes(c, [call[c] EXCEPT !.pc = "returned", !.outcome = Unaudited(@)])
  /\ running' = NoCall
  /\ UNCHANGED <<killed, version, log>>

-----------------------------------------------------------------------------
(* The rest of the process, at the points where the loop is free.          *)
ToggleKill(a) ==
  /\ running = NoCall
  /\ killed' = IF a \in killed THEN killed \ {a} ELSE killed \cup {a}
  /\ UNCHANGED <<call, running, version, log>>

MutantReloadPolicy ==
  /\ version < MaxVersion
  /\ version' = version + 1
  /\ UNCHANGED <<call, running, killed, log>>
ReloadPolicy ==
  /\ running = NoCall
  /\ version < MaxVersion
  /\ version' = version + 1
  /\ UNCHANGED <<call, running, killed, log>>

Step(c) ==
  \/ CheckKillSwitch(c)
  \/ VerifyIdentity(c)
  \/ PolicyMatched(c)
  \/ PolicyNotMatched(c)
  \/ InterpreterAnswers(c)
  \/ ApplyExceptions(c)
  \/ ScoreAndDecide(c)
  \/ AppendRecord(c)
  \/ RedactionFails(c)
  \/ RetryStripped(c)
  \/ FailSafe(c)
  \/ FailSafeAudited(c)
  \/ FailSafeUnaudited(c)

Next ==
  \/ \E c \in Calls : Start(c) \/ Step(c) \/ Raise(c) \/ Cancel(c)
  \/ \E a \in Agents : ToggleKill(a)
  \/ ReloadPolicy

Spec == Init /\ [][Next]_vars

(* The loop runs the coroutine that holds it, and interpreter backends     *)
(* answer or time out.  Nothing makes a stage raise or an operator act.    *)
FairSpec == Spec /\ \A c \in Calls : WF_vars(Step(c))

-----------------------------------------------------------------------------
TypeOK ==
  /\ call \in [Calls -> CallState]
  /\ running \in Calls \cup {NoCall}
  /\ killed \subseteq Agents
  /\ version \in 1..MaxVersion
  /\ DOMAIN log = Calls

Returned(c) == call[c].pc = "returned"

(* POL-05 and PIPE-05: whichever stage raised and however the audit failed,*)
(* the returned outcome is at least as restrictive as the floor known when *)
(* the evaluation ended; a deny floor is relaxed only when every principle *)
(* that denied was waived, and then no lower than the others' floor.       *)
FullyWaived(d) == d.deny # {} /\ \A r \in d.deny : \E w \in d.waived : w[1] = r
FloorHolds ==
  \A c \in Calls : LET d == call[c] IN
    Returned(c) /\ Rank(d.outcome) < Rank(d.known) =>
      FullyWaived(d) /\ \A e \in d.others : Rank(d.outcome) >= Rank(e)

(* A verdict that risk or low trust tightened survives an audit failure:   *)
(* the fail-safe of a fail-open class never returns less.                  *)
VerdictHolds ==
  \A c \in Calls : Returned(c) => Rank(call[c].outcome) >= Rank(call[c].verdict)

(* A fail-closed class never returns anything but a deny without evidence, *)
(* or for a payload that cannot be redacted (runner.py, the fail-safe and  *)
(* the redaction fallback).                                                *)
ClosedFailsClosed ==
  \A c \in Calls : LET d == call[c] IN
    Returned(c) /\ ~ d.open /\ ~ (d.evidence /\ d.clean) => d.outcome = "deny"

(* The evidence is the decision: exactly one record, of what the caller    *)
(* enforces, or none and no evidence_ref.                                  *)
EvidenceIsTheDecision ==
  \A c \in Calls : LET d == call[c] IN
    log[c] = IF d.evidence
             THEN <<[outcome |-> d.outcome, expires |-> d.expires,
                     effects |-> d.effects, remediation |-> d.remediation]>>
             ELSE <<>>

(* PIPE-09: whatever raised or could not be recorded on the way, the       *)
(* escalations that the principles which fired and the findings call for   *)
(* ride on the decision; a fail-safe loses them only where it denies a     *)
(* fail-closed class, and otherwise notifies a human.                      *)
EscalationsRide ==
  \A c \in Calls : LET d == call[c] IN
    Returned(c) =>
      \/ Declared(d.fired) \cup (IF d.flagged THEN {"risk_flag"} ELSE {}) \subseteq d.effects
      \/ "notify" \in d.effects
      \/ ~ d.open /\ d.outcome = "deny"

(* POL-13: on a fail-closed class a temporary exception expires no later   *)
(* than every exception it consumed, one for each principle that denied.   *)
TimeBoxed(d) ==
  d.outcome = "temporary_exception" =>
    d.expires # None /\ FullyWaived(d) /\ \A w \in d.waived : d.expires <= w[2]
ClosedExceptionTimeBoxed ==
  \A c \in Calls : Returned(c) /\ ~ call[c].open => TimeBoxed(call[c])

(* POL-08, where the code keeps it: the version pinned on a decision that  *)
(* the principles drove is the one that evaluated it, because nothing else *)
(* of the process runs between the two (policy.py, reload).                *)
MatchedPinsEvaluated ==
  \A c \in Calls : LET d == call[c] IN
    Returned(c) /\ d.fired # {} /\ d.pinned # None => d.pinned = d.evaluated

(* An evaluation that began ends, with a decision or by cancellation.      *)
EvaluationsEnd ==
  \A c \in Calls : call[c].pc = "kill" ~> call[c].pc \in {"returned", "cancelled"}

-----------------------------------------------------------------------------
(* What the documentation says, and the code does not keep.                *)

(* "no record -> no allow" (runner.py, posture.py): nothing a PEP executes *)
(* is returned without evidence.                                           *)
NoRecordNoExecution ==
  \A c \in Calls : Returned(c) /\ call[c].outcome \in Executable => call[c].evidence

(* ADR 0005: a temporary_exception is time-boxed and carries expires_at.   *)
ExceptionCarriesExpiry == \A c \in Calls : Returned(c) => TimeBoxed(call[c])

(* PIPE-08: the line that tells the caller to await an operator is on a    *)
(* decision that parks it (the redaction fallback denies and leaves it).   *)
AwaitedIsParked ==
  \A c \in Calls :
    Returned(c) /\ call[c].remediation = "await" => call[c].outcome = "require_approval"

(* POL-08: a decision that pins a version pins the one that evaluated it.  *)
PinsEvaluatedVersion ==
  \A c \in Calls : LET d == call[c] IN
    Returned(c) /\ d.pinned # None /\ d.evaluated # None => d.pinned = d.evaluated
=============================================================================
