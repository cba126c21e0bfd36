--------------------------- MODULE PipelineProofs ----------------------------
(***************************************************************************)
(* For any calls, agents, principles, effects, escalations and thresholds, *)
(* and any number of reloads: whatever raises, and wherever, a decision of *)
(* Pipeline.evaluate is no weaker than its floor and its verdict, and is   *)
(* what the log says it is.                                                *)
(***************************************************************************)
EXTENDS DecisionPipeline, TLAPS, WellFoundedInduction

(* The outcome o respects what is known of d: its strictest floor, or what *)
(* the waived principles leave of it.                                      *)
Respects(d, o) ==
  \/ Rank(o) >= Rank(d.known)
  \/ FullyWaived(d) /\ \A e \in d.others : Rank(o) >= Rank(e)

Owed(d) == Declared(d.fired) \cup (IF d.flagged THEN {"risk_flag"} ELSE {})

(* What the fail-safe would find in the box.                               *)
BoxHolds(d) ==
  IF d.box = NoFloor THEN d.known = "allow" /\ d.verdict = "allow"
  ELSE Respects(d, d.box) /\ Rank(d.box) >= Rank(d.verdict)

(* Before a floor is established, and while it is the posture's and the    *)
(* interpreter is awaited.                                                 *)
BeforeFloor(d) ==
  /\ d.pc \in {"new", "kill", "identity", "policy"} => d.box = NoFloor
  /\ d.pc = "interpret" => d.floor \in AuthorableEffects /\ d.known = d.floor
  /\ d.pc \in {"new", "kill", "identity", "policy", "interpret"} =>
       d.fired = {} /\ ~ d.flagged /\ d.deny = {} /\ d.others = {} /\ d.applied = None

(* With the floor known, and before the verdict.                           *)
WithFloor(d) ==
  /\ d.pc \in {"new", "kill", "identity", "policy", "interpret", "transform", "risk"} =>
       d.verdict = "allow"
  /\ d.pc = "transform" =>
       d.floor = "deny" /\ d.box = "deny" /\ d.deny # {} /\ d.applied = None
  /\ d.pc = "risk" => d.floor \in AuthorableEffects /\ Respects(d, d.floor)
  /\ d.applied # None => FullyWaived(d) /\ \A w \in d.waived : d.applied <= w[2]

(* The decision: at the audit, and at the audit of the fail-safe.          *)
AtAudit(d) ==
  /\ d.pc \in {"append", "retry", "safeappend", "returned"} =>
       Respects(d, d.outcome) /\ Rank(d.outcome) >= Rank(d.verdict)
  /\ d.pc \in {"append", "retry"} =>
       /\ Owed(d) \subseteq d.effects /\ TimeBoxed(d)
       /\ d.fired # {} /\ d.pinned # None => d.pinned = d.evaluated
  /\ d.pc = "retry" => ~ d.clean
  /\ d.pc = "safeappend" => d.pinned = None /\ (d.open => "notify" \in d.effects)
  /\ d.pc \in {"retry", "safeappend"} /\ ~ d.open => d.outcome = "deny"

(* What a returned decision promises, one conjunct for each property.      *)
AsReturned(d) ==
  d.pc = "returned" =>
    /\ ~ d.open /\ ~ (d.evidence /\ d.clean) => d.outcome = "deny"
    /\ \/ Owed(d) \subseteq d.effects
       \/ "notify" \in d.effects
       \/ ~ d.open /\ d.outcome = "deny"
    /\ ~ d.open => TimeBoxed(d)
    /\ d.fired # {} /\ d.pinned # None => d.pinned = d.evaluated

Sound(d) == BoxHolds(d) /\ BeforeFloor(d) /\ WithFloor(d) /\ AtAudit(d) /\ AsReturned(d)

(* A stage runs only with the loop held, so the version that evaluated is  *)
(* still the one that is loaded when it is pinned.                         *)
Owned(c) ==
  call[c].pc \notin {"new", "interpret", "returned", "cancelled"} => running = c
Current(c) ==
  call[c].pc \in {"transform", "risk"} /\ call[c].fired # {} => call[c].evaluated = version

Logged(c) ==
  /\ call[c].evidence => call[c].pc = "returned"
  /\ log[c] = IF call[c].evidence THEN <<RecordOf(call[c])>> ELSE <<>>

CallHolds(c) == Sound(call[c]) /\ Owned(c) /\ Current(c) /\ Logged(c)

IInv == TypeOK /\ \A c \in Calls : CallHolds(c)

-----------------------------------------------------------------------------
(* The laws of the graduated response that a decision rests on, for every  *)
(* choice of the thresholds.                                               *)
LEMMA RankType ==
  ASSUME NEW o
  PROVE  Rank(o) \in 0..6
BY DEF Rank

(* deny alone has the highest rank: nothing else can pass for it.          *)
LEMMA OnlyDenyIsMaximal ==
  ASSUME NEW o \in Outcome, Rank(o) = 6
  PROVE  o = "deny"
BY DEF Outcome, Rank

LEMMA MoreRestrictiveBounds ==
  ASSUME NEW a, NEW b
  PROVE  /\ MoreRestrictive(a, b) \in {a, b}
         /\ Rank(MoreRestrictive(a, b)) >= Rank(a)
         /\ Rank(MoreRestrictive(a, b)) >= Rank(b)
BY RankType DEF MoreRestrictive

LEMMA RiskType ==
  ASSUME NEW risk \in Score
  PROVE  RiskToOutcome(risk) \in {"allow", "sandbox", "deny"}
BY DEF RiskToOutcome

(* The policy floor is never relaxed: whatever the risk and the trust, the *)
(* graduated response (graduated.py) ranks at least as high as the floor.  *)
THEOREM FloorNeverRelaxed ==
  ASSUME NEW floor \in Outcome, NEW risk \in Score, NEW trust \in Score
  PROVE  /\ GraduatedResponse(floor, risk, trust) \in Outcome
         /\ Rank(GraduatedResponse(floor, risk, trust)) >= Rank(floor)
<1>1. ApplyTrustBand(RiskToOutcome(risk), trust) \in Outcome
  BY RiskType DEF ApplyTrustBand, HardenNext, Outcome
<1>2. CASE floor = "deny"
  BY <1>2 DEF GraduatedResponse, Outcome, Rank
<1>3. CASE floor # "deny"
  BY <1>1, <1>3, MoreRestrictiveBounds DEF GraduatedResponse
<1> QED
  BY <1>2, <1>3

(* Trust only tightens: less trust never yields a less restrictive         *)
(* response to the same floor and risk (TRST-02, no trust farming).        *)
THEOREM TrustNeverRelaxes ==
  ASSUME NEW floor \in Outcome, NEW risk \in Score,
         NEW t1 \in Score, NEW t2 \in Score, t1 <= t2
  PROVE  Rank(GraduatedResponse(floor, risk, t2)) <= Rank(GraduatedResponse(floor, risk, t1))
<1> DEFINE base == RiskToOutcome(risk)
<1>1. t1 \in Int /\ t2 \in Int /\ TrustHardenAt \in Int
  BY ThresholdsAssumption DEF Score
<1>2. base \in {"allow", "sandbox", "deny"}
  BY RiskType
<1>3. t2 <= TrustHardenAt => t1 <= TrustHardenAt
  BY <1>1
<1>4. Rank(ApplyTrustBand(base, t2)) <= Rank(ApplyTrustBand(base, t1))
  BY <1>2, <1>3 DEF ApplyTrustBand, HardenNext, Rank
<1>5. ASSUME NEW a, NEW b, Rank(a) <= Rank(b)
      PROVE  Rank(MoreRestrictive(floor, a)) <= Rank(MoreRestrictive(floor, b))
  BY <1>5, RankType DEF MoreRestrictive
<1> QED
  BY <1>4, <1>5 DEF GraduatedResponse, Rank

(* More risk never yields a less restrictive response (POL-06).            *)
THEOREM RiskIsMonotone ==
  ASSUME NEW floor \in Outcome, NEW trust \in Score,
         NEW r1 \in Score, NEW r2 \in Score, r1 <= r2
  PROVE  Rank(GraduatedResponse(floor, r1, trust)) <= Rank(GraduatedResponse(floor, r2, trust))
<1>1. /\ r1 \in Int /\ r2 \in Int /\ SandboxAt \in Int /\ DenyAt \in Int
      /\ SandboxAt <= DenyAt
  BY ThresholdsAssumption DEF Score
<1>2. /\ RiskToOutcome(r1) = "deny" => RiskToOutcome(r2) = "deny"
      /\ RiskToOutcome(r1) = "sandbox" => RiskToOutcome(r2) \in {"sandbox", "deny"}
      /\ RiskToOutcome(r1) \in {"allow", "sandbox", "deny"}
      /\ RiskToOutcome(r2) \in {"allow", "sandbox", "deny"}
  BY <1>1 DEF RiskToOutcome
<1>3. Rank(ApplyTrustBand(RiskToOutcome(r1), trust)) <= Rank(ApplyTrustBand(RiskToOutcome(r2), trust))
  BY <1>2 DEF ApplyTrustBand, HardenNext, Rank
<1>4. ASSUME NEW a, NEW b, Rank(a) <= Rank(b)
      PROVE  Rank(MoreRestrictive(floor, a)) <= Rank(MoreRestrictive(floor, b))
  BY <1>4, RankType DEF MoreRestrictive
<1> QED
  BY <1>3, <1>4 DEF GraduatedResponse, Rank

-----------------------------------------------------------------------------
(* The operators.                                                          *)
LEMMA HasLeast ==
  ASSUME NEW S \in SUBSET Nat, S # {}
  PROVE  \E e \in S : \A f \in S : e <= f
<1> DEFINE R == OpToRel(<, Nat)
<1>1. IsWellFoundedOn(R, Nat)
  BY NatLessThanWellFounded
<1>2. PICK e \in S : \A f \in S : <<f, e>> \notin R
  <2> HIDE DEF R
  <2> QED
    BY <1>1, WFMin
<1>3. \A f \in S : f < e => <<f, e>> \in R
  <2> TAKE f \in S
  <2> HAVE f < e
  <2>1. <<f, e>> \in Nat \X Nat /\ <<f, e>>[1] < <<f, e>>[2]
    OBVIOUS
  <2> QED
    BY <2>1 DEF OpToRel
<1>4. \A f \in S : ~ (f < e)
  <2> HIDE DEF R
  <2> QED
    BY <1>2, <1>3
<1> QED
  BY <1>4

LEMMA SelectFloorHolds ==
  ASSUME NEW fx \in SUBSET AuthorableEffects, fx # {}
  PROVE  /\ SelectFloor(fx) \in fx
         /\ \A e \in fx : Rank(SelectFloor(fx)) >= Rank(e)
<1>1. \E o \in fx : \A p \in fx : Rank(p) <= Rank(o)
  BY DEF AuthorableEffects, Outcome, Rank
<1>2. SelectFloor(fx) \in fx /\ \A e \in fx : Rank(e) <= Rank(SelectFloor(fx))
  BY <1>1 DEF SelectFloor
<1> QED
  BY <1>2, RankType

LEMMA EffectsOfHolds ==
  ASSUME NEW S, NEW R, R # {}, NEW matched \in [R -> S]
  PROVE  EffectsOf(matched) \in SUBSET S /\ EffectsOf(matched) # {}
<1>1. DOMAIN matched = R /\ \A r \in R : matched[r] \in S
  OBVIOUS
<1> QED
  BY <1>1 DEF EffectsOf

LEMMA RestFloorHolds ==
  ASSUME NEW others \in SUBSET AuthorableEffects
  PROVE  /\ RestFloor(others) \in AuthorableEffects
         /\ \A e \in others : Rank(RestFloor(others)) >= Rank(e)
BY SelectFloorHolds DEF RestFloor, AuthorableEffects, Outcome

LEMMA EarliestHolds ==
  ASSUME NEW R, R # {}, NEW found \in [R -> 0..MaxExpiry]
  PROVE  /\ Earliest(found) \in EffectsOf(found)
         /\ \A r \in R : Earliest(found) <= found[r]
<1>1. EffectsOf(found) \in SUBSET Nat /\ EffectsOf(found) # {}
  <2>1. EffectsOf(found) \in SUBSET (0..MaxExpiry) /\ EffectsOf(found) # {}
    BY EffectsOfHolds
  <2> QED
    BY <2>1, PipelineAssumption
<1>2. PICK e \in EffectsOf(found) : \A f \in EffectsOf(found) : e <= f
  BY <1>1, HasLeast
<1>3. \E x \in EffectsOf(found) : \A r \in DOMAIN found : x <= found[r]
  BY <1>2 DEF EffectsOf
<1> QED
  BY <1>3 DEF Earliest

LEMMA ClampHolds ==
  ASSUME NEW floor \in AuthorableEffects, NEW verdict
  PROVE  /\ Clamp(floor, verdict) \in AuthorableEffects
         /\ MoreRestrictive(floor, Clamp(floor, verdict)) = Clamp(floor, verdict)
BY RankType DEF Clamp, MoreRestrictive

(* The graduated outcome, relabelled, is no weaker than its floor, and is  *)
(* an exception only where one was applied.                                *)
LEMMA RelabelHolds ==
  ASSUME NEW floor \in AuthorableEffects, NEW risk \in Score, NEW trust \in Score,
         NEW applied
  PROVE  LET o == Relabel(GraduatedResponse(floor, risk, trust), applied) IN
         /\ o \in Outcome
         /\ Rank(o) >= Rank(floor)
         /\ o = "temporary_exception" => applied # None
<1>1. /\ GraduatedResponse(floor, risk, trust) \in Outcome
      /\ Rank(GraduatedResponse(floor, risk, trust)) >= Rank(floor)
  BY FloorNeverRelaxed DEF AuthorableEffects
<1>2. GraduatedResponse(floor, risk, trust) # "temporary_exception"
  <2>1. ApplyTrustBand(RiskToOutcome(risk), trust) # "temporary_exception"
    BY RiskType DEF ApplyTrustBand, HardenNext
  <2> QED
    BY <2>1 DEF GraduatedResponse, MoreRestrictive, AuthorableEffects
<1> QED
  BY <1>1, <1>2, RankType DEF Relabel, Outcome, Rank

(* The fail-safe, for a deny or the posture's allow and whatever the box   *)
(* holds.                                                                  *)
LEMMA FailSafeHolds ==
  ASSUME NEW d \in CallState, BoxHolds(d)
  PROVE  /\ FailSafeOutcome(d) \in Outcome
         /\ Respects(d, FailSafeOutcome(d)) /\ Rank(FailSafeOutcome(d)) >= Rank(d.verdict)
         /\ ~ d.open => FailSafeOutcome(d) = "deny"
<1> DEFINE o == FailSafeOutcome(d)
<1>1. d.box \in Outcome \cup {NoFloor} /\ d.open \in BOOLEAN
  BY DEF CallState
<1>2. CASE d.box = NoFloor
  BY <1>1, <1>2, RankType DEF FailSafeOutcome, BoxHolds, Respects, Outcome, Rank
<1>3. CASE d.box # NoFloor
  <2>1. o \in Outcome /\ Rank(o) >= Rank(d.box)
    BY <1>1, <1>3, MoreRestrictiveBounds DEF FailSafeOutcome, Outcome
  <2>2. ~ d.open => o = "deny"
    BY <1>1, <1>3 DEF FailSafeOutcome, MoreRestrictive, Rank
  <2>3. Respects(d, d.box) /\ Rank(d.box) >= Rank(d.verdict)
    BY <1>3 DEF BoxHolds
  <2>4. Respects(d, o) /\ Rank(o) >= Rank(d.verdict)
    BY <2>1, <2>3, RankType DEF Respects
  <2> QED
    BY <2>1, <2>2, <2>4
<1> QED
  BY <1>2, <1>3

-----------------------------------------------------------------------------
(* One evaluation moves from one sound state to another, and the others    *)
(* stay where they are.                                                    *)
Holding(d, holder) ==
  d.pc \notin {"new", "interpret", "returned", "cancelled"} => holder
Fresh(d) ==
  d.pc \in {"transform", "risk"} /\ d.fired # {} => d.evaluated = version

LEMMA Moves ==
  ASSUME IInv, NEW c \in Calls, NEW d \in CallState, Becomes(c, d), Sound(d),
         running \in {c, NoCall}, running' \in {c, NoCall}, Holding(d, running' = c),
         Fresh(d), UNCHANGED <<killed, version>>,
         DOMAIN log' = Calls, \A b \in Calls : b # c => log'[b] = log[b],
         d.evidence => d.pc = "returned",
         log'[c] = IF d.evidence THEN <<RecordOf(d)>> ELSE <<>>
  PROVE  IInv'
<1>1. call' = [call EXCEPT ![c] = d] /\ call \in [Calls -> CallState]
  BY DEF Becomes, IInv, TypeOK
<1>2. call'[c] = d /\ \A b \in Calls : b # c => call'[b] = call[b]
  BY <1>1
<1>3. TypeOK'
  BY <1>1 DEF IInv, TypeOK
<1>4. CallHolds(c)'
  BY <1>2 DEF CallHolds, Owned, Current, Logged, Holding, Fresh
<1>5. ASSUME NEW b \in Calls, b # c
      PROVE  CallHolds(b)'
  <2>1. CallHolds(b) /\ call'[b] = call[b] /\ log'[b] = log[b]
    BY <1>2, <1>5 DEF IInv
  <2>2. running # b
    BY <1>5, PipelineAssumption
  <2> QED
    BY <2>1, <2>2 DEF CallHolds, Owned, Current, Logged
<1> QED
  BY <1>3, <1>4, <1>5 DEF IInv

(* The stages that write nothing to the log.                               *)
LEMMA MovesUnlogged ==
  ASSUME IInv, NEW c \in Calls, NEW d \in CallState, Becomes(c, d), Sound(d),
         running \in {c, NoCall}, running' \in {c, NoCall}, Holding(d, running' = c),
         Fresh(d), UNCHANGED <<killed, version, log>>,
         call[c].pc # "returned", ~ d.evidence
  PROVE  IInv'
<1>1. DOMAIN log = Calls /\ Logged(c)
  BY DEF IInv, TypeOK, CallHolds
<1>2. ~ call[c].evidence /\ log[c] = <<>>
  BY <1>1 DEF Logged
<1> QED
  BY <1>1, <1>2, Moves

LEMMA CallFacts ==
  ASSUME IInv, NEW c \in Calls
  PROVE  /\ call[c] \in CallState /\ Sound(call[c]) /\ Owned(c) /\ Current(c)
         /\ call[c].pc # "returned" => ~ call[c].evidence
BY DEF IInv, TypeOK, CallHolds, Logged

LEMMA InitHolds == Init => IInv
<1> SUFFICES ASSUME Init PROVE IInv
  OBVIOUS
<1>1. New \in CallState
  BY PipelineAssumption, ThresholdsAssumption
  DEF New, CallState, Stages, Score, Outcome, NoFloor, None, Advice
<1>2. TypeOK
  BY <1>1, PipelineAssumption DEF Init, TypeOK
<1>3. Sound(New)
  BY DEF New, Sound, BoxHolds, BeforeFloor, WithFloor, AtAudit, AsReturned, None
<1>4. \A c \in Calls : CallHolds(c)
  BY <1>3 DEF Init, CallHolds, Owned, Current, Logged, New
<1> QED
  BY <1>2, <1>4 DEF IInv

LEMMA StartHolds ==
  ASSUME IInv, NEW c \in Calls, Start(c)
  PROVE  IInv'
<1>1. PICK open \in BOOLEAN, clean \in BOOLEAN :
        Becomes(c, [call[c] EXCEPT !.pc = "kill", !.open = open, !.clean = clean])
  BY DEF Start
<1> DEFINE d == [call[c] EXCEPT !.pc = "kill", !.open = open, !.clean = clean]
<1>2. d \in CallState
  <2>1. call[c] \in CallState /\ "kill" \in Stages
    BY CallFacts DEF Stages
  <2> QED
    BY <2>1, Zenon DEF CallState
<1>3. Sound(d) /\ d.pc = "kill" /\ ~ d.evidence
  BY CallFacts
  DEF CallState, Start, Sound, BoxHolds, Respects, FullyWaived,
      BeforeFloor, WithFloor, AtAudit, AsReturned
<1> QED
  BY <1>1, <1>2, <1>3, MovesUnlogged DEF Start, Holding, Fresh

(* A short-circuit is a deny in the box, as strict as anything known.      *)
LEMMA ShortCircuitHolds ==
  ASSUME NEW d \in CallState, NEW v \in 0..MaxVersion,
         d.pc \in {"kill", "identity"}, Sound(d)
  PROVE  /\ ShortCircuit(d, v) \in CallState /\ Sound(ShortCircuit(d, v))
         /\ ShortCircuit(d, v).pc = "append" /\ ShortCircuit(d, v).evidence = d.evidence
<1>1. "append" \in Stages /\ "deny" \in Outcome /\ "deny" \in Outcome \cup {NoFloor}
  BY DEF Stages, Outcome
<1>2. ShortCircuit(d, v) \in CallState
  BY <1>1, Zenon DEF ShortCircuit, CallState
<1>3. Declared({}) = {}
  BY DEF Declared
<1>4. Sound(ShortCircuit(d, v))
  BY <1>3, RankType
  DEF ShortCircuit, CallState, Sound, BoxHolds, Respects, FullyWaived, BeforeFloor, WithFloor,
      AtAudit, AsReturned, Owed, TimeBoxed, Rank, NoFloor
<1> QED
  BY <1>2, <1>4 DEF ShortCircuit, CallState

LEMMA CheckKillSwitchHolds ==
  ASSUME IInv, NEW c \in Calls, CheckKillSwitch(c)
  PROVE  IInv'
<1>1. /\ call[c] \in CallState /\ Sound(call[c]) /\ ~ call[c].evidence
      /\ call[c].pc = "kill" /\ running = c
  BY CallFacts DEF CheckKillSwitch, At
<1>2. CASE AgentOf[c] \in killed
  <2>1. Becomes(c, ShortCircuit(call[c], None)) /\ None \in 0..MaxVersion
    BY <1>2, PipelineAssumption DEF CheckKillSwitch, None
  <2> QED
    BY <1>1, <2>1, ShortCircuitHolds, MovesUnlogged DEF CheckKillSwitch, Holding, Fresh
<1>3. CASE AgentOf[c] \notin killed
  <2> DEFINE d == [call[c] EXCEPT !.pc = "identity"]
  <2>1. d \in CallState /\ d.pc = "identity" /\ ~ d.evidence
    BY <1>1 DEF CallState, Stages
  <2>2. Sound(d)
    BY <1>1 DEF CallState, Sound, BoxHolds, Respects, FullyWaived, BeforeFloor, WithFloor,
                AtAudit, AsReturned
  <2> QED
    BY <1>1, <1>3, <2>1, <2>2, MovesUnlogged DEF CheckKillSwitch, Holding, Fresh
<1> QED
  BY <1>2, <1>3

LEMMA VerifyIdentityHolds ==
  ASSUME IInv, NEW c \in Calls, VerifyIdentity(c)
  PROVE  IInv'
<1>1. /\ call[c] \in CallState /\ Sound(call[c]) /\ ~ call[c].evidence
      /\ call[c].pc = "identity" /\ running = c
  BY CallFacts DEF VerifyIdentity, At
<1>2. CASE Becomes(c, ShortCircuit(call[c], version))
  <2>1. version \in 0..MaxVersion
    BY PipelineAssumption DEF IInv, TypeOK
  <2> QED
    BY <1>1, <1>2, <2>1, ShortCircuitHolds, MovesUnlogged DEF VerifyIdentity, Holding, Fresh
<1>3. ASSUME NEW trust \in Score, Becomes(c, [call[c] EXCEPT !.pc = "policy", !.trust = trust])
      PROVE  IInv'
  <2> DEFINE d == [call[c] EXCEPT !.pc = "policy", !.trust = trust]
  <2>1. "policy" \in Stages
    BY DEF Stages
  <2>2. d \in CallState
    BY <1>1, <2>1, Zenon DEF CallState
  <2>3. Sound(d) /\ d.pc = "policy" /\ ~ d.evidence
    BY <1>1 DEF CallState, Sound, BoxHolds, Respects, FullyWaived, BeforeFloor, WithFloor,
                AtAudit, AsReturned
  <2> QED
    BY <1>1, <1>3, <2>2, <2>3, MovesUnlogged DEF VerifyIdentity, Holding, Fresh
<1> QED
  BY <1>2, <1>3 DEF VerifyIdentity

LEMMA PolicyMatchedHolds ==
  ASSUME IInv, NEW c \in Calls, PolicyMatched(c)
  PROVE  IInv'
<1>1. /\ call[c] \in CallState /\ Sound(call[c]) /\ ~ call[c].evidence
      /\ call[c].pc = "policy" /\ running = c /\ version \in 0..MaxVersion
  BY CallFacts, PipelineAssumption DEF PolicyMatched, At, IInv, TypeOK
<1> DEFINE Stage(floor) == IF floor = "deny" THEN "transform" ELSE "risk"
           Matched(R, matched) ==
             LET floor == SelectFloor(EffectsOf(matched)) IN
             [call[c] EXCEPT
               !.pc = Stage(floor), !.floor = floor, !.box = floor, !.fired = R,
               !.deny = DenyRefs(matched), !.others = EffectsOf(matched) \ {"deny"},
               !.known = floor, !.evaluated = version]
<1>2. PICK R \in (SUBSET Refs) \ {{}} :
        \E matched \in [R -> Effects] : Becomes(c, Matched(R, matched))
  BY DEF PolicyMatched
<1>2a. PICK matched \in [R -> Effects] : Becomes(c, Matched(R, matched))
  BY <1>2
<1> DEFINE floor == SelectFloor(EffectsOf(matched))
           d == [call[c] EXCEPT
             !.pc = Stage(floor), !.floor = floor, !.box = floor, !.fired = R,
             !.deny = DenyRefs(matched), !.others = EffectsOf(matched) \ {"deny"},
             !.known = floor, !.evaluated = version]
<1>3. EffectsOf(matched) \in SUBSET AuthorableEffects /\ EffectsOf(matched) # {}
  <2>1. R # {} /\ matched \in [R -> Effects]
    OBVIOUS
  <2>2. EffectsOf(matched) \in SUBSET Effects /\ EffectsOf(matched) # {}
    BY <2>1, EffectsOfHolds
  <2> QED
    BY <2>2, PipelineAssumption
<1>4. floor \in EffectsOf(matched) /\ floor \in AuthorableEffects
  BY <1>3, SelectFloorHolds
<1>5. floor = "deny" => DenyRefs(matched) # {}
  BY <1>4 DEF EffectsOf, DenyRefs
<1>6. d \in CallState
  <2>1. Stage(floor) \in Stages /\ floor \in Outcome /\ floor \in Outcome \cup {NoFloor}
    BY <1>4 DEF Stages, AuthorableEffects
  <2>2. DenyRefs(matched) \in SUBSET Refs /\ EffectsOf(matched) \ {"deny"} \in SUBSET Effects
    BY DEF DenyRefs, EffectsOf
  <2>3. R \in SUBSET Refs
    OBVIOUS
  <2> HIDE DEF Stage, floor
  <2> QED
    BY <1>1, <2>1, <2>2, <2>3, Zenon DEF CallState
<1>7. /\ d.pc \in {"transform", "risk"} /\ ~ d.evidence /\ d.evaluated = version
      /\ d.pc = "transform" => d.floor = "deny" /\ d.deny # {}
      /\ d.floor \in AuthorableEffects /\ d.box = d.floor /\ d.known = d.floor
      /\ d.verdict = "allow" /\ d.applied = None
  BY <1>1, <1>4, <1>5 DEF CallState, Sound, BeforeFloor, WithFloor
<1>8. Sound(d)
  <2> HIDE DEF d
  <2> QED
    BY <1>7, RankType DEF Sound, BoxHolds, Respects, BeforeFloor, WithFloor, AtAudit, AsReturned,
                          AuthorableEffects, Outcome, NoFloor, Rank
<1> QED
  BY <1>1, <1>2a, <1>6, <1>7, <1>8, MovesUnlogged DEF PolicyMatched, Holding, Fresh

LEMMA PolicyNotMatchedHolds ==
  ASSUME IInv, NEW c \in Calls, PolicyNotMatched(c)
  PROVE  IInv'
<1>1. /\ call[c] \in CallState /\ Sound(call[c]) /\ ~ call[c].evidence
      /\ call[c].pc = "policy" /\ running = c /\ version \in 0..MaxVersion
  BY CallFacts, PipelineAssumption DEF PolicyNotMatched, At, IInv, TypeOK
<1>2. PICK floor \in NoMatchFloors :
        Becomes(c, [call[c] EXCEPT !.pc = "interpret", !.floor = floor, !.box = floor,
                                   !.known = floor, !.evaluated = version])
  BY DEF PolicyNotMatched
<1> DEFINE d == [call[c] EXCEPT !.pc = "interpret", !.floor = floor, !.box = floor,
                                !.known = floor, !.evaluated = version]
<1>3. /\ floor \in AuthorableEffects /\ floor \in Outcome /\ floor \in Outcome \cup {NoFloor}
      /\ "interpret" \in Stages
  BY PipelineAssumption DEF AuthorableEffects, Stages
<1>4. d \in CallState
  BY <1>1, <1>3, Zenon DEF CallState
<1>5. Sound(d) /\ d.pc = "interpret" /\ ~ d.evidence
  BY <1>1, <1>3, RankType
  DEF CallState, Sound, BoxHolds, Respects, BeforeFloor, WithFloor, AtAudit, AsReturned,
      AuthorableEffects, Outcome, NoFloor, Rank
<1> QED
  BY <1>1, <1>2, <1>4, <1>5, MovesUnlogged DEF PolicyNotMatched, Holding, Fresh

LEMMA InterpreterAnswersHolds ==
  ASSUME IInv, NEW c \in Calls, InterpreterAnswers(c)
  PROVE  IInv'
<1>1. /\ call[c] \in CallState /\ Sound(call[c]) /\ ~ call[c].evidence
      /\ call[c].pc = "interpret" /\ running = NoCall
  BY CallFacts DEF InterpreterAnswers
<1>2. PICK verdict \in AuthorableEffects \cup {NoVerdict} :
        LET floor == Clamp(call[c].floor, verdict) IN
        Becomes(c, [call[c] EXCEPT !.pc = "risk", !.floor = floor, !.box = floor,
                                   !.known = MoreRestrictive(@, floor)])
  BY DEF InterpreterAnswers
<1> DEFINE floor == Clamp(call[c].floor, verdict)
           d == [call[c] EXCEPT !.pc = "risk", !.floor = floor, !.box = floor,
                                !.known = MoreRestrictive(@, floor)]
<1>3. floor \in AuthorableEffects /\ MoreRestrictive(call[c].known, floor) = floor
  BY <1>1, ClampHolds DEF Sound, BeforeFloor
<1>4. d \in CallState
  <2>1. "risk" \in Stages /\ floor \in Outcome /\ floor \in Outcome \cup {NoFloor}
    BY <1>3 DEF Stages, AuthorableEffects
  <2>2. d = [call[c] EXCEPT !.pc = "risk", !.floor = floor, !.box = floor, !.known = floor]
    BY <1>3
  <2> HIDE DEF floor, d
  <2> QED
    BY <1>1, <2>1, <2>2, Zenon DEF CallState
<1>5. /\ d.pc = "risk" /\ ~ d.evidence /\ d.fired = {} /\ d.applied = None
      /\ d.floor \in AuthorableEffects /\ d.box = d.floor /\ d.known = d.floor
      /\ d.verdict = "allow"
  BY <1>1, <1>3 DEF CallState, Sound, BeforeFloor, WithFloor
<1>6. Sound(d)
  <2> HIDE DEF d
  <2> QED
    BY <1>5, RankType DEF Sound, BoxHolds, Respects, BeforeFloor, WithFloor, AtAudit, AsReturned,
                          AuthorableEffects, Outcome, NoFloor, Rank
<1> QED
  BY <1>1, <1>2, <1>4, <1>5, <1>6, MovesUnlogged DEF InterpreterAnswers, Holding, Fresh

LEMMA CancelHolds ==
  ASSUME IInv, NEW c \in Calls, Cancel(c)
  PROVE  IInv'
<1> DEFINE d == [call[c] EXCEPT !.pc = "cancelled"]
<1>1. /\ call[c] \in CallState /\ Sound(call[c]) /\ ~ call[c].evidence
      /\ call[c].pc = "interpret" /\ running = NoCall
  BY CallFacts DEF Cancel
<1>2. d \in CallState /\ d.pc = "cancelled" /\ ~ d.evidence
  BY <1>1 DEF CallState, Stages
<1>3. Sound(d)
  BY <1>1 DEF CallState, Sound, BoxHolds, Respects, FullyWaived, BeforeFloor, WithFloor,
              AtAudit, AsReturned
<1> QED
  BY <1>1, <1>2, <1>3, MovesUnlogged DEF Cancel, Holding, Fresh

(* The transform: a lifted deny leaves what the others impose.             *)
LEMMA ApplyExceptionsHolds ==
  ASSUME IInv, NEW c \in Calls, ApplyExceptions(c)
  PROVE  IInv'
<1> DEFINE b == call[c]
<1>1. /\ b \in CallState /\ Sound(b) /\ ~ b.evidence /\ b.pc = "transform" /\ running = c
      /\ b.fired # {} => b.evaluated = version
  BY CallFacts DEF ApplyExceptions, At, Current
<1>2. b.floor = "deny" /\ b.box = "deny" /\ b.deny # {} /\ b.applied = None /\ b.verdict = "allow"
  BY <1>1 DEF Sound, WithFloor
<1> DEFINE Transformed(found) ==
       Becomes(c,
         IF Covered(b.deny, found)
         THEN [b EXCEPT !.pc = "risk", !.floor = RestFloor(b.others), !.applied = Earliest(found),
                        !.waived = {<<r, found[r]>> : r \in Live(found)}]
         ELSE [b EXCEPT !.pc = "risk"])
<1>3a. PICK R \in SUBSET b.deny : \E found \in [R -> 0..MaxExpiry] : Transformed(found)
  BY DEF ApplyExceptions
<1>3. PICK found \in [R -> 0..MaxExpiry] : Transformed(found)
  BY <1>3a
<1>4. CASE ~ Covered(b.deny, found)
  <2> DEFINE d == [b EXCEPT !.pc = "risk"]
  <2>1. /\ d \in CallState /\ d.pc = "risk" /\ ~ d.evidence /\ d.fired = b.fired
        /\ d.evaluated = b.evaluated /\ d.floor = "deny" /\ d.box = "deny" /\ d.applied = None
        /\ d.verdict = "allow"
    BY <1>1, <1>2 DEF CallState, Stages
  <2>2. Sound(d)
    <3> HIDE DEF d
    <3> QED
      BY <2>1, RankType DEF Sound, BoxHolds, Respects, BeforeFloor, WithFloor, AtAudit, AsReturned,
                            AuthorableEffects, Outcome, NoFloor, Rank
  <2> QED
    BY <1>1, <1>3, <1>4, <2>1, <2>2, MovesUnlogged DEF ApplyExceptions, Holding, Fresh
<1>5. CASE Covered(b.deny, found)
  <2> DEFINE uses == {<<r, found[r]>> : r \in Live(found)}
             rest == RestFloor(b.others)
             first == Earliest(found)
             d == [b EXCEPT !.pc = "risk", !.floor = rest, !.applied = first, !.waived = uses]
  <2>1. R = b.deny /\ Live(found) = R /\ R \in SUBSET Refs
    BY <1>1, <1>5 DEF Covered, Live, CallState
  <2>2. \A r \in R : found[r] \in 1..MaxExpiry
    BY <2>1, PipelineAssumption DEF Live
  <2>3. first \in 1..MaxExpiry /\ \A r \in R : first <= found[r]
    BY <1>2, <2>1, <2>2, EarliestHolds DEF EffectsOf
  <2>4. b.others \in SUBSET AuthorableEffects
    BY <1>1, PipelineAssumption DEF CallState
  <2>5. rest \in AuthorableEffects /\ \A e \in b.others : Rank(rest) >= Rank(e)
    BY <2>4, RestFloorHolds
  <2>6. uses \in SUBSET (Refs \X (1..MaxExpiry))
    BY <2>1, <2>2
  <2>7. d \in CallState
    <3>1. "risk" \in Stages /\ rest \in Outcome /\ first \in 0..MaxExpiry
      BY <2>3, <2>5, PipelineAssumption DEF Stages, AuthorableEffects
    <3> HIDE DEF rest, first, uses
    <3> QED
      BY <1>1, <2>6, <3>1, Zenon DEF CallState
  <2>8. /\ d.pc = "risk" /\ ~ d.evidence /\ d.fired = b.fired /\ d.evaluated = b.evaluated
        /\ d.floor = rest /\ d.box = "deny" /\ d.applied = first /\ d.verdict = "allow"
        /\ d.deny = R /\ d.others = b.others /\ d.waived = uses
    BY <1>1, <1>2, <2>1 DEF CallState
  <2>9. FullyWaived(d) /\ \A w \in d.waived : d.applied <= w[2]
    <3>1. \A r \in R : <<r, found[r]>> \in uses /\ <<r, found[r]>>[1] = r
      BY <2>1
    <3>2. \A w \in uses : \E r \in R : w[2] = found[r]
      BY <2>1
    <3> HIDE DEF uses, d
    <3> QED
      BY <1>2, <2>1, <2>3, <2>8, <3>1, <3>2 DEF FullyWaived
  <2>10. Sound(d)
    <3> HIDE DEF d, rest
    <3> QED
      BY <2>5, <2>8, <2>9, RankType
      DEF Sound, BoxHolds, Respects, BeforeFloor, WithFloor, AtAudit, AsReturned, NoFloor, Rank
  <2> QED
    BY <1>1, <1>3, <1>5, <2>7, <2>8, <2>10, MovesUnlogged DEF ApplyExceptions, Holding, Fresh
<1> QED
  BY <1>4, <1>5

LEMMA DecideTyped ==
  ASSUME NEW s \in CallState, NEW o \in Outcome, NEW v \in 0..MaxVersion
  PROVE  Decide(s, o, v) \in CallState
<1> DEFINE expires == IF o = "temporary_exception" THEN s.applied ELSE None
           decided == [s EXCEPT !.pc = "append", !.outcome = o, !.pinned = v, !.verdict = o,
                                !.effects = DeriveSideEffects(s),
                                !.remediation = DeriveRemediation(s, o), !.expires = expires]
<1>1. DeriveSideEffects(s) \in SUBSET SideEffect /\ DeriveRemediation(s, o) \in Advice
  BY PipelineAssumption
  DEF DeriveSideEffects, Declared, DeriveRemediation, Advice, CallState, SideEffect
<1>2. expires \in 0..MaxExpiry /\ "append" \in Stages
  BY PipelineAssumption DEF CallState, None, Stages
<1>3. decided \in CallState
  <2> HIDE DEF expires
  <2> QED
    BY <1>1, <1>2, Zenon DEF CallState
<1>4. Decision(s, o, v) \in CallState /\ o \in Outcome \cup {NoFloor}
  BY <1>3 DEF Decision
<1> QED
  BY <1>4, Zenon DEF Decide, CallState

LEMMA ScoreAndDecideHolds ==
  ASSUME IInv, NEW c \in Calls, ScoreAndDecide(c)
  PROVE  IInv'
<1> DEFINE b == call[c]
<1>1. /\ b \in CallState /\ Sound(b) /\ ~ b.evidence /\ b.pc = "risk" /\ running = c
      /\ b.fired # {} => b.evaluated = version
      /\ version \in 0..MaxVersion
  BY CallFacts, PipelineAssumption DEF ScoreAndDecide, At, Current, IInv, TypeOK
<1>2. /\ b.floor \in AuthorableEffects /\ Respects(b, b.floor)
      /\ b.applied # None => FullyWaived(b) /\ \A w \in b.waived : b.applied <= w[2]
  BY <1>1 DEF Sound, WithFloor
<1> DEFINE Scored(flagged) == [b EXCEPT !.flagged = flagged]
           Response(flagged, inline, expensive) ==
             Relabel(GraduatedResponse(b.floor, AssessRisk(flagged, inline, expensive), b.trust),
                     b.applied)
<1>3. PICK inline \in Score, expensive \in Score, flagged \in BOOLEAN :
        Becomes(c, Decide(Scored(flagged), Response(flagged, inline, expensive), version))
  <2>1. \A flagged \in BOOLEAN :
          /\ Scored(flagged).floor = b.floor /\ Scored(flagged).trust = b.trust
          /\ Scored(flagged).applied = b.applied
    BY <1>1 DEF CallState
  <2> QED
    BY <2>1 DEF ScoreAndDecide
<1> DEFINE o == Response(flagged, inline, expensive)
           s == Scored(flagged)
           d == Decide(s, o, version)
<1>4. o \in Outcome /\ Rank(o) >= Rank(b.floor) /\ (o = "temporary_exception" => b.applied # None)
  <2>1. AssessRisk(flagged, inline, expensive) \in Score /\ b.trust \in Score
    BY <1>1 DEF AssessRisk, CallState
  <2> QED
    BY <1>2, <2>1, RelabelHolds
<1>5. s \in CallState /\ s = [b EXCEPT !.flagged = flagged]
  BY <1>1 DEF CallState
<1>6. d \in CallState
  <2> HIDE DEF o, s
  <2> QED
    BY <1>1, <1>4, <1>5, DecideTyped
<1>7. /\ d.pc = "append" /\ ~ d.evidence /\ d.fired = b.fired /\ d.evaluated = b.evaluated
      /\ d.outcome = o /\ d.verdict = o /\ d.box = o /\ d.pinned = version
      /\ d.known = b.known /\ d.deny = b.deny /\ d.others = b.others /\ d.waived = b.waived
      /\ d.applied = b.applied /\ d.flagged = flagged
      /\ d.effects = DeriveSideEffects(s)
      /\ o = "temporary_exception" => d.expires = b.applied
  <2> HIDE DEF o
  <2> QED
    BY <1>1, <1>5 DEF Decide, Decision, CallState
<1>8. Owed(d) \subseteq d.effects
  <2> HIDE DEF o, d
  <2>1. s.fired = b.fired /\ s.flagged = flagged
    BY <1>1 DEF CallState
  <2> QED
    BY <1>7, <2>1 DEF Owed, DeriveSideEffects
<1>9. TimeBoxed(d) /\ Respects(d, o)
  <2> HIDE DEF o, d
  <2> QED
    BY <1>2, <1>4, <1>7, RankType DEF TimeBoxed, Respects, FullyWaived
<1>10. Sound(d)
  <2> HIDE DEF o, d
  <2> QED
    BY <1>1, <1>2, <1>4, <1>7, <1>8, <1>9, RankType
    DEF Sound, BoxHolds, BeforeFloor, WithFloor, AtAudit, AsReturned, FullyWaived,
        Outcome, NoFloor, Rank
<1> HIDE DEF d
<1> QED
  BY <1>1, <1>3, <1>6, <1>7, <1>10, MovesUnlogged DEF ScoreAndDecide, Holding, Fresh, d

(* An audited decision is returned, with its one record.                   *)
LEMMA AuditedHolds ==
  ASSUME IInv, NEW c \in Calls, running = c, Audited(c, call[c]),
         \/ call[c].pc = "append" /\ call[c].clean
         \/ call[c].pc \in {"retry", "safeappend"}
  PROVE  IInv'
<1> DEFINE b == call[c]
           d == [b EXCEPT !.pc = "returned", !.evidence = TRUE]
<1>1. b \in CallState /\ Sound(b) /\ ~ b.evidence /\ log[c] = <<>>
  BY CallFacts DEF IInv, CallHolds, Logged
<1>2. d \in CallState
  <2>1. "returned" \in Stages /\ TRUE \in BOOLEAN
    BY DEF Stages
  <2> QED
    BY <1>1, <2>1, Zenon DEF CallState
<1>3. d.pc = "returned" /\ d.evidence /\ RecordOf(d) = RecordOf(b)
  BY <1>1 DEF CallState, RecordOf
<1>4. Sound(d)
  <2>1. /\ d.open = b.open /\ d.clean = b.clean /\ d.deny = b.deny /\ d.others = b.others
        /\ d.box = b.box /\ d.applied = b.applied /\ d.fired = b.fired /\ d.flagged = b.flagged
        /\ d.outcome = b.outcome /\ d.expires = b.expires /\ d.pinned = b.pinned
        /\ d.effects = b.effects /\ d.known = b.known /\ d.verdict = b.verdict
        /\ d.waived = b.waived /\ d.evaluated = b.evaluated
    BY <1>1 DEF CallState
  <2>2. BoxHolds(d) /\ BeforeFloor(d) /\ WithFloor(d)
    <3> HIDE DEF d
    <3> QED
      BY <1>1, <1>3, <2>1 DEF Sound, BoxHolds, Respects, FullyWaived, BeforeFloor, WithFloor
  <2>3. AtAudit(d)
    <3> HIDE DEF d
    <3> QED
      BY <1>1, <1>3, <2>1 DEF Sound, AtAudit, Respects, FullyWaived
  <2>4. AsReturned(d)
    <3> HIDE DEF d
    <3> QED
      BY <1>1, <1>3, <2>1 DEF Sound, AtAudit, AsReturned, Owed, TimeBoxed, FullyWaived
  <2> QED
    BY <2>2, <2>3, <2>4 DEF Sound
<1>5. /\ Becomes(c, d) /\ running' = NoCall /\ UNCHANGED <<killed, version>>
      /\ log' = [log EXCEPT ![c] = <<RecordOf(d)>>]
  <2>1. Append(log[c], RecordOf(b)) = <<RecordOf(d)>>
    <3> HIDE DEF d, b
    <3> QED
      BY <1>1, <1>3
  <2> QED
    BY <2>1 DEF Audited
<1>6. /\ DOMAIN log' = Calls /\ log'[c] = <<RecordOf(d)>>
      /\ \A x \in Calls : x # c => log'[x] = log[x]
  BY <1>5 DEF IInv, TypeOK
<1> HIDE DEF d
<1> QED
  BY <1>2, <1>3, <1>4, <1>5, <1>6, Moves DEF Holding, Fresh

LEMMA RedactionFailsHolds ==
  ASSUME IInv, NEW c \in Calls, RedactionFails(c)
  PROVE  IInv'
<1> DEFINE b == call[c]
           o == IF b.open THEN b.outcome ELSE "deny"
           d == [b EXCEPT !.pc = "retry", !.outcome = o]
<1>1. /\ b \in CallState /\ Sound(b) /\ ~ b.evidence /\ b.pc = "append" /\ ~ b.clean
      /\ running = c
  BY CallFacts DEF RedactionFails, At
<1>2. Becomes(c, d) /\ UNCHANGED <<running, killed, version, log>>
  BY DEF RedactionFails, AfterRedactionError
<1>3. o \in Outcome /\ (b.open => o = b.outcome) /\ (~ b.open => o = "deny")
  BY <1>1 DEF CallState, Outcome
<1>4. d \in CallState
  <2>1. "retry" \in Stages
    BY DEF Stages
  <2> HIDE DEF o
  <2> QED
    BY <1>1, <1>3, <2>1, Zenon DEF CallState
<1>5. /\ d.pc = "retry" /\ d.outcome = o /\ ~ d.evidence
      /\ d.open = b.open /\ d.clean = b.clean /\ d.deny = b.deny /\ d.others = b.others
      /\ d.box = b.box /\ d.applied = b.applied /\ d.fired = b.fired /\ d.flagged = b.flagged
      /\ d.expires = b.expires /\ d.pinned = b.pinned
      /\ d.effects = b.effects /\ d.known = b.known /\ d.verdict = b.verdict
      /\ d.waived = b.waived /\ d.evaluated = b.evaluated
  BY <1>1 DEF CallState
<1>6. BoxHolds(d) /\ BeforeFloor(d) /\ WithFloor(d) /\ AsReturned(d)
  <2> HIDE DEF d, o
  <2> QED
    BY <1>1, <1>5
    DEF Sound, BoxHolds, Respects, FullyWaived, BeforeFloor, WithFloor, AsReturned
<1>7. AtAudit(d)
  <2> HIDE DEF d, o
  <2> QED
    BY <1>1, <1>3, <1>5, RankType
    DEF Sound, AtAudit, Respects, FullyWaived, Owed, TimeBoxed, Rank
<1> HIDE DEF d
<1> QED
  BY <1>1, <1>2, <1>4, <1>5, <1>6, <1>7, MovesUnlogged DEF Sound, Holding, Fresh

(* Whatever is raised, the fail-safe finds the box as it was.              *)
LEMMA RaiseHolds ==
  ASSUME IInv, NEW c \in Calls, Raise(c)
  PROVE  IInv'
<1> DEFINE d == [call[c] EXCEPT !.pc = "failsafe"]
<1>1. call[c] \in CallState /\ Sound(call[c]) /\ call[c].pc # "returned" /\ ~ call[c].evidence
  BY CallFacts DEF Raise
<1>2. d \in CallState /\ d.pc = "failsafe" /\ ~ d.evidence
  BY <1>1 DEF CallState, Stages
<1>3. Sound(d)
  BY <1>1 DEF CallState, Sound, BoxHolds, Respects, FullyWaived, BeforeFloor, WithFloor,
              AtAudit, AsReturned
<1> QED
  BY <1>1, <1>2, <1>3, MovesUnlogged DEF Raise, Holding, Fresh

LEMMA FailSafeStepHolds ==
  ASSUME IInv, NEW c \in Calls, FailSafe(c)
  PROVE  IInv'
<1> DEFINE b == call[c]
           o == FailSafeOutcome(b)
           fx == FailSafeEffects(b)
           d == [b EXCEPT !.pc = "safeappend", !.outcome = o, !.expires = None, !.pinned = None,
                          !.effects = fx, !.remediation = "none"]
<1>1. b \in CallState /\ Sound(b) /\ ~ b.evidence /\ b.pc = "failsafe" /\ running = c
  BY CallFacts DEF FailSafe, At
<1>2. /\ o \in Outcome /\ Respects(b, o) /\ Rank(o) >= Rank(b.verdict)
      /\ ~ b.open => o = "deny"
  BY <1>1, FailSafeHolds DEF Sound
<1>3. fx \in SUBSET SideEffect /\ (b.open => "notify" \in fx)
  BY <1>1 DEF FailSafeEffects, SideEffect
<1>4. d \in CallState
  <2>1. "safeappend" \in Stages /\ "none" \in Advice /\ None \in 0..MaxExpiry /\ None \in 0..MaxVersion
    BY PipelineAssumption DEF Stages, Advice, None
  <2> HIDE DEF o, fx
  <2> QED
    BY <1>1, <1>2, <1>3, <2>1, Zenon DEF CallState
<1>5. /\ d.pc = "safeappend" /\ d.outcome = o /\ d.pinned = None /\ d.effects = fx
      /\ ~ d.evidence /\ d.open = b.open /\ d.clean = b.clean /\ d.deny = b.deny
      /\ d.others = b.others /\ d.box = b.box /\ d.applied = b.applied
      /\ d.fired = b.fired /\ d.flagged = b.flagged /\ d.known = b.known
      /\ d.verdict = b.verdict /\ d.waived = b.waived
  <2> HIDE DEF o, fx
  <2> QED
    BY <1>1 DEF CallState
<1>6. BoxHolds(d) /\ BeforeFloor(d) /\ WithFloor(d) /\ AsReturned(d)
  <2> HIDE DEF d, o, fx
  <2> QED
    BY <1>1, <1>5
    DEF Sound, BoxHolds, Respects, FullyWaived, BeforeFloor, WithFloor, AsReturned
<1>7. AtAudit(d)
  <2> HIDE DEF d, o, fx
  <2> QED
    BY <1>2, <1>3, <1>5 DEF AtAudit, Respects, FullyWaived
<1>8. Becomes(c, d) /\ UNCHANGED <<running, killed, version, log>>
  BY DEF FailSafe
<1> HIDE DEF d
<1> QED
  BY <1>1, <1>4, <1>5, <1>6, <1>7, <1>8, MovesUnlogged DEF Sound, Holding, Fresh

LEMMA FailSafeUnauditedHolds ==
  ASSUME IInv, NEW c \in Calls, FailSafeUnaudited(c)
  PROVE  IInv'
<1> DEFINE b == call[c]
           o == Unaudited(b.outcome)
           d == [b EXCEPT !.pc = "returned", !.outcome = o]
<1>1. b \in CallState /\ Sound(b) /\ ~ b.evidence /\ b.pc = "safeappend" /\ running = c
  BY CallFacts DEF FailSafeUnaudited, At
<1>2. /\ o \in Outcome /\ Rank(o) >= Rank(b.outcome) /\ (b.outcome = "deny" => o = "deny")
  BY <1>1, RankType DEF Unaudited, CallState, Outcome, Rank
<1>3. Becomes(c, d) /\ running' = NoCall /\ UNCHANGED <<killed, version, log>>
  BY DEF FailSafeUnaudited
<1>4. d \in CallState
  <2>1. "returned" \in Stages
    BY DEF Stages
  <2> HIDE DEF o
  <2> QED
    BY <1>1, <1>2, <2>1, Zenon DEF CallState
<1>5. /\ d.pc = "returned" /\ d.outcome = o /\ ~ d.evidence
      /\ d.open = b.open /\ d.deny = b.deny /\ d.others = b.others
      /\ d.box = b.box /\ d.applied = b.applied /\ d.fired = b.fired /\ d.flagged = b.flagged
      /\ d.pinned = b.pinned /\ d.effects = b.effects /\ d.known = b.known
      /\ d.verdict = b.verdict /\ d.waived = b.waived /\ d.evaluated = b.evaluated
  <2> HIDE DEF o
  <2> QED
    BY <1>1 DEF CallState
<1>6. BoxHolds(d) /\ BeforeFloor(d) /\ WithFloor(d)
  <2> HIDE DEF d, o
  <2> QED
    BY <1>1, <1>5 DEF Sound, BoxHolds, Respects, FullyWaived, BeforeFloor, WithFloor
<1>7. AtAudit(d)
  <2>1. Respects(b, b.outcome) /\ Rank(b.outcome) >= Rank(b.verdict)
    BY <1>1 DEF Sound, AtAudit
  <2> HIDE DEF d, o
  <2>2. Respects(b, o) /\ Rank(o) >= Rank(b.verdict)
    BY <1>2, <2>1, RankType DEF Respects
  <2> QED
    BY <1>5, <2>2 DEF AtAudit, Respects, FullyWaived
<1>8. AsReturned(d)
  <2> HIDE DEF d, o
  <2> QED
    BY <1>1, <1>2, <1>5 DEF Sound, AtAudit, AsReturned, TimeBoxed
<1> HIDE DEF d
<1> QED
  BY <1>1, <1>3, <1>4, <1>5, <1>6, <1>7, <1>8, MovesUnlogged DEF Sound, Holding, Fresh

-----------------------------------------------------------------------------
LEMMA StepHolds ==
  ASSUME IInv, NEW c \in Calls, Step(c)
  PROVE  IInv'
<1>1. CASE CheckKillSwitch(c)
  BY <1>1, CheckKillSwitchHolds
<1>2. CASE VerifyIdentity(c)
  BY <1>2, VerifyIdentityHolds
<1>3. CASE PolicyMatched(c)
  BY <1>3, PolicyMatchedHolds
<1>4. CASE PolicyNotMatched(c)
  BY <1>4, PolicyNotMatchedHolds
<1>5. CASE InterpreterAnswers(c)
  BY <1>5, InterpreterAnswersHolds
<1>6. CASE ApplyExceptions(c)
  BY <1>6, ApplyExceptionsHolds
<1>7. CASE ScoreAndDecide(c)
  BY <1>7, ScoreAndDecideHolds
<1>8. CASE AppendRecord(c) \/ RetryStripped(c) \/ FailSafeAudited(c)
  BY <1>8, AuditedHolds DEF AppendRecord, RetryStripped, FailSafeAudited, At
<1>9. CASE RedactionFails(c)
  BY <1>9, RedactionFailsHolds
<1>10. CASE FailSafe(c)
  BY <1>10, FailSafeStepHolds
<1>11. CASE FailSafeUnaudited(c)
  BY <1>11, FailSafeUnauditedHolds
<1> QED
  BY <1>1, <1>2, <1>3, <1>4, <1>5, <1>6, <1>7, <1>8, <1>9, <1>10, <1>11 DEF Step

LEMMA ToggleKillHolds ==
  ASSUME IInv, NEW a \in Agents, ToggleKill(a)
  PROVE  IInv'
<1>1. killed' \subseteq Agents /\ UNCHANGED <<call, running, version, log>>
  BY DEF ToggleKill, IInv, TypeOK
<1> QED
  BY <1>1 DEF IInv, TypeOK, CallHolds, Owned, Current, Logged

(* A reload waits for the loop, so no stage has its version changed.       *)
LEMMA ReloadPolicyHolds ==
  ASSUME IInv, ReloadPolicy
  PROVE  IInv'
<1>1. /\ running = NoCall /\ version' = version + 1 /\ version' \in 1..MaxVersion
      /\ UNCHANGED <<call, running, killed, log>>
  BY PipelineAssumption DEF ReloadPolicy, IInv, TypeOK
<1>2. TypeOK'
  BY <1>1 DEF IInv, TypeOK
<1>3. ASSUME NEW c \in Calls
      PROVE  CallHolds(c)'
  <2>1. CallHolds(c) /\ running # c
    BY <1>1, PipelineAssumption DEF IInv
  <2>2. call[c].pc \in {"new", "interpret", "returned", "cancelled"}
    BY <2>1 DEF CallHolds, Owned
  <2> QED
    BY <1>1, <2>1, <2>2 DEF CallHolds, Owned, Current, Logged
<1> QED
  BY <1>2, <1>3 DEF IInv

LEMMA NextHolds == IInv /\ [Next]_vars => IInv'
<1> SUFFICES ASSUME IInv, [Next]_vars PROVE IInv'
  OBVIOUS
<1>1. CASE \E c \in Calls : Start(c) \/ Step(c) \/ Raise(c) \/ Cancel(c)
  BY <1>1, StartHolds, StepHolds, RaiseHolds, CancelHolds
<1>2. CASE \E a \in Agents : ToggleKill(a)
  BY <1>2, ToggleKillHolds
<1>3. CASE ReloadPolicy
  BY <1>3, ReloadPolicyHolds
<1>4. CASE UNCHANGED vars
  BY <1>4 DEF vars, IInv, TypeOK, CallHolds, Owned, Current, Logged
<1> QED
  BY <1>1, <1>2, <1>3, <1>4 DEF Next

LEMMA AlwaysHolds == Spec => []IInv
BY InitHolds, NextHolds, PTL DEF Spec

(* Every evaluation, the loop, the kill set and the loaded version stay    *)
(* what they are declared to be.                                           *)
THEOREM PipelineTypeCorrect == Spec => []TypeOK
<1>1. IInv => TypeOK
  BY DEF IInv
<1> QED
  BY <1>1, AlwaysHolds, PTL

(* POL-05, PIPE-05: however the evaluation ended, it returns no less than  *)
(* the strictest floor it knew, or than what waivers left of it.           *)
THEOREM FloorAlwaysHolds == Spec => []FloorHolds
<1>1. IInv => FloorHolds
  <2> SUFFICES ASSUME IInv, NEW c \in Calls, call[c].pc = "returned",
                      Rank(call[c].outcome) < Rank(call[c].known)
               PROVE  FullyWaived(call[c]) /\ \A e \in call[c].others : Rank(call[c].outcome) >= Rank(e)
    BY DEF FloorHolds, Returned
  <2>1. Respects(call[c], call[c].outcome)
    BY CallFacts DEF Sound, AtAudit
  <2> QED
    BY <2>1, RankType DEF Respects
<1> QED
  BY <1>1, AlwaysHolds, PTL

(* The verdict of risk and trust survives every failure of the audit.      *)
THEOREM VerdictAlwaysHolds == Spec => []VerdictHolds
<1>1. IInv => VerdictHolds
  BY CallFacts DEF VerdictHolds, Returned, Sound, AtAudit
<1> QED
  BY <1>1, AlwaysHolds, PTL

(* A fail-closed class returns nothing but a deny without evidence, or for *)
(* a payload that cannot be redacted.                                      *)
THEOREM ClosedAlwaysFailsClosed == Spec => []ClosedFailsClosed
<1>1. IInv => ClosedFailsClosed
  BY CallFacts DEF ClosedFailsClosed, Returned, Sound, AsReturned
<1> QED
  BY <1>1, AlwaysHolds, PTL

(* What the caller is given is what the one record says, or is without     *)
(* evidence.                                                               *)
THEOREM EvidenceAlwaysIsTheDecision == Spec => []EvidenceIsTheDecision
<1>1. IInv => EvidenceIsTheDecision
  BY DEF IInv, CallHolds, Logged, EvidenceIsTheDecision, RecordOf
<1> QED
  BY <1>1, AlwaysHolds, PTL

(* PIPE-09: the escalations owed ride on the decision, or a human is       *)
(* notified, or it denies.                                                 *)
THEOREM EscalationsAlwaysRide == Spec => []EscalationsRide
<1>1. IInv => EscalationsRide
  BY CallFacts DEF EscalationsRide, Returned, Sound, AsReturned, Owed
<1> QED
  BY <1>1, AlwaysHolds, PTL

(* POL-13: on a fail-closed class no exception outlives one it consumed.   *)
THEOREM ClosedExceptionsAlwaysTimeBoxed == Spec => []ClosedExceptionTimeBoxed
<1>1. IInv => ClosedExceptionTimeBoxed
  BY CallFacts DEF ClosedExceptionTimeBoxed, Returned, Sound, AsReturned
<1> QED
  BY <1>1, AlwaysHolds, PTL

(* POL-08: a decision that principles drove pins what evaluated it,        *)
(* however often the policy is reloaded.                                   *)
THEOREM MatchedAlwaysPinsEvaluated == Spec => []MatchedPinsEvaluated
<1>1. IInv => MatchedPinsEvaluated
  BY CallFacts DEF MatchedPinsEvaluated, Returned, Sound, AsReturned
<1> QED
  BY <1>1, AlwaysHolds, PTL
=============================================================================
