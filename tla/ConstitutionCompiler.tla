------------------------- MODULE ConstitutionCompiler -----------------------
(***************************************************************************)
(* From a written constitution to the floor of an operation and to its     *)
(* evidence: the validation, the compiler (constitution/compiler.py), which*)
(* turns each condition into rules without a disjunction, the evaluation   *)
(* of those rules by OPA on an operation the SDK governs, the floor that   *)
(* the pipeline selects, and the redacted record of what was judged.       *)
(***************************************************************************)
EXTENDS Constitution

CONSTANTS
  Documents,    \* the constitutions that may be written
  Operations,   \* what the hooks and wrappers of the SDK may be called with
  MatchedRefs,  \* what the sequence correlator may have matched
  MaxDisjuncts  \* _MAX_DISJUNCTS, the ceiling on the rules of one principle

PrincipleType ==
  [id : DOMAIN IdKey, kind : {"action", "sequence"}, effect : STRING,
   applies : SUBSET ActionType, when : Conditions \cup {NoCondition}, sequence : Seq(STRING)]

ASSUME CompilerAssumption ==
  /\ MaxDisjuncts \in Nat \ {0}
  /\ \A c \in Documents : c.principles \in Seq(PrincipleType)
  /\ \A c \in Documents : \A name \in DOMAIN c.lists : c.lists[name] \in Seq(STRING)
  /\ \A q \in Operations : q.type \in ActionType

VARIABLES
  stage,    \* how far the document got
  document,
  bundle,   \* what the compiler made of it, or NoBundle
  action,   \* the action that is evaluated, or NoAction
  judged,   \* the document it is judged by
  matched,  \* the principles that fired on it
  evidence  \* the content of its audit record, or NoEvidence

vars == <<stage, document, bundle, action, judged, matched, evidence>>

NoBundle == "no bundle"
NoAction == "no action"
NoInput == "no input"
NoEvidence == "no evidence"

Init ==
  /\ stage = "written"
  /\ document \in Documents
  /\ bundle = NoBundle
  /\ action = NoAction
  /\ judged = NoInput
  /\ matched = {}
  /\ evidence = NoEvidence

-----------------------------------------------------------------------------
(* _to_dnf: a disjunction of conjunctions of leaves, negation pushed to    *)
(* the leaves.                                                             *)
MutantConjunctive(n, negated) == n.node = "all"
Conjunctive(n, negated) == (n.node = "all") # negated

Cross(D, E) == FlattenSeq([i \in DOMAIN D |-> [j \in DOMAIN E |-> D[i] \o E[j]]])
Crossed(parts) ==
  LET crossed[i \in 0..Len(parts)] ==
        IF i = 0 THEN << <<>> >> ELSE Cross(crossed[i - 1], parts[i])
  IN crossed[Len(parts)]

Dnf[n \in Conditions] ==
  [negated \in BOOLEAN |->
     IF n.node = "leaf" THEN << <<[leaf |-> n, negated |-> negated]>> >>
     ELSE IF n.node = "not" THEN Dnf[n.of[1]][~ negated]
     ELSE LET parts == [i \in DOMAIN n.of |-> Dnf[n.of[i]][negated]] IN
          IF Conjunctive(n, negated) THEN Crossed(parts) ELSE FlattenSeq(parts)]

(* _lower_leaf: the inverse operator where there is one, else a `not`.     *)
NegatedOp == [eq |-> "ne", ne |-> "eq", in |-> "not_in", not_in |-> "in",
              gte |-> "lt", lte |-> "gt"]
Lower(literal) ==
  LET leaf == literal.leaf
      op == IF literal.negated /\ leaf.op \in DOMAIN NegatedOp THEN NegatedOp[leaf.op] ELSE leaf.op
  IN [op |-> op, field |-> leaf.field, value |-> leaf.value, list |-> leaf.list,
      not |-> op = "not_in" \/ (literal.negated /\ op = leaf.op)]

Lowered(disjunct) == [i \in DOMAIN disjunct |-> Lower(disjunct[i])]

(* _principle_rules: one rule for each disjunct, or the one of a sequence. *)
Rule(p, body) == [principle_ref |-> p.id, effect |-> p.effect, kind |-> p.kind,
                  types |-> p.applies, body |-> body]
Rules(p) ==
  IF p.kind = "sequence" THEN <<Rule(p, <<>>)>>
  ELSE LET D == IF p.when = NoCondition THEN << <<>> >> ELSE Dnf[p.when][FALSE]
       IN [i \in DOMAIN D |-> Rule(p, Lowered(D[i]))]

Compiles(c) == \A i \in DOMAIN c.principles : Len(Rules(c.principles[i])) <= MaxDisjuncts

SequenceRules(ps) ==
  LET qs == SelectSeq(ps, LAMBDA p : p.kind = "sequence") IN
  [i \in DOMAIN qs |->
     [principle_ref |-> qs[i].id, intent_classes |-> qs[i].sequence, effect |-> qs[i].effect]]

CompiledBundle(c) ==
  LET form == CanonicalForm(c)
      ps == Sorted(c.principles)
  IN [constitution_version |-> form,
      rules |-> FlattenSeq([i \in DOMAIN ps |-> Rules(ps[i])]),
      sequences |-> SequenceRules(ps),
      lists |-> form.lists]

-----------------------------------------------------------------------------
(* OPA on one line of a rule: an undefined field makes a comparison        *)
(* undefined, and `not` of that holds.  No field is a number yet, so no    *)
(* line compares numbers.                                                  *)
Compares(op, x, v) ==
  CASE op = "eq" -> x = v
    [] op = "ne" -> x # v
    [] op \in {"in", "not_in"} -> x.of \subseteq v.of
    [] op \in {"prefix", "glob"} -> <<op, v.of, x.of>> \in Matching

LineHolds(line, input, lists) ==
  LET v == IF line.list = NoList THEN line.value ELSE Value("list", lists[line.list])
      test == line.field \in DOMAIN input /\ Compares(line.op, input[line.field], v)
  IN test # line.not

Fires(rule, input, lists) ==
  /\ input["type"].of \subseteq rule.types
  /\ rule.kind = "sequence" => rule.principle_ref \in input["sequence.matched_refs"].of
  /\ \A i \in DOMAIN rule.body : LineHolds(rule.body[i], input, lists)

Matched(input) ==
  {[principle_ref |-> rule.principle_ref, effect |-> rule.effect] :
     rule \in {r \in ToSet(bundle.rules) : Fires(r, input, bundle.lists)}}

-----------------------------------------------------------------------------
(* load_constitution: the document is validated as a whole.                *)
Accept ==
  /\ stage = "written" /\ ConstitutionOK(document)
  /\ stage' = "accepted"
  /\ UNCHANGED <<document, bundle, action, judged, matched, evidence>>

Reject ==
  /\ stage = "written" /\ ~ ConstitutionOK(document)
  /\ stage' = "rejected"
  /\ UNCHANGED <<document, bundle, action, judged, matched, evidence>>

(* compile_constitution, which raises above the ceiling.                   *)
Compile ==
  /\ stage = "accepted" /\ Compiles(document)
  /\ stage' = "compiled"
  /\ bundle' = CompiledBundle(document)
  /\ UNCHANGED <<document, action, judged, matched, evidence>>

TooManyDisjuncts ==
  /\ stage = "accepted" /\ ~ Compiles(document)
  /\ stage' = "refused"
  /\ UNCHANGED <<document, bundle, action, judged, matched, evidence>>

(* A hook or wrapper is called; the action is normalised, enriched and     *)
(* evaluated under the bundle that is loaded.  An evaluation keeps nothing *)
(* for the next one, so one is followed.                                   *)
Evaluate(q, refs) ==
  LET a == Normalize(q)
      input == BuildPolicyInput(a, Enrich(a), refs)
  IN
  /\ stage = "compiled" /\ Splits(Url(a))
  /\ stage' = "evaluated"
  /\ action' = a
  /\ judged' = input
  /\ matched' = Matched(input)
  /\ UNCHANGED <<document, bundle, evidence>>

(* A url that cannot be split leaves the action unjudged, to the fail-safe.*)
CannotJudge(q) ==
  LET a == Normalize(q) IN
  /\ stage = "compiled" /\ ~ Splits(Url(a))
  /\ stage' = "failsafe"
  /\ action' = a
  /\ UNCHANGED <<document, bundle, judged, matched, evidence>>

(* AuditWriter.append: redaction first.                                    *)
Evidence(a, intent, payload) ==
  [agent_id |-> a.agent_id, action_type |-> a.type, context |-> a.context,
   inferred_intent |-> intent, redacted_payload |-> payload]

Record ==
  /\ stage = "evaluated" /\ Redacts(action.payload) /\ ~ PortRaises(action.payload)
  /\ stage' = "recorded"
  /\ evidence' = Evidence(action, TagIntent(action), Redacted(action.payload))
  /\ UNCHANGED <<document, bundle, action, judged, matched>>

(* The redaction fallback appends a payload-free copy, and so does the     *)
(* fail-safe, with a decision that is new.                                 *)
RecordStripped ==
  /\ stage = "evaluated" /\ ~ Redacts(action.payload)
  /\ stage' = "stripped"
  /\ evidence' = Evidence(action, TagIntent(action), <<>>)
  /\ UNCHANGED <<document, bundle, action, judged, matched>>

RedactionRaises ==
  /\ stage = "evaluated" /\ PortRaises(action.payload)
  /\ stage' = "failsafe"
  /\ UNCHANGED <<document, bundle, action, judged, matched, evidence>>

RecordFailSafe ==
  /\ stage = "failsafe"
  /\ stage' = "failed"
  /\ evidence' = Evidence(action, "", <<>>)
  /\ UNCHANGED <<document, bundle, action, judged, matched>>

Next ==
  \/ Accept
  \/ Reject
  \/ Compile
  \/ TooManyDisjuncts
  \/ \E q \in Operations :
       \/ \E refs \in MatchedRefs : Evaluate(q, refs)
       \/ CannotJudge(q)
  \/ Record
  \/ RecordStripped
  \/ RedactionRaises
  \/ RecordFailSafe

Spec == Init /\ [][Next]_vars

-----------------------------------------------------------------------------
(* The condition as it is written, read by its own structure: no normal    *)
(* form, no rules, no undefined fields.                                    *)
LeafHolds(n, input) ==
  LET v == IF n.list = NoList THEN n.value ELSE Value("list", ToSet(document.lists[n.list])) IN
  /\ n.field \in DOMAIN input
  /\ CASE n.op = "eq" -> input[n.field].of = v.of
       [] n.op = "ne" -> input[n.field].of # v.of
       [] n.op = "in" -> input[n.field].of \subseteq v.of
       [] n.op = "not_in" -> input[n.field].of \cap v.of = {}
       [] OTHER -> <<n.op, v.of, input[n.field].of>> \in Matching

Holds(when, input) ==
  LET holds[n \in Conditions] ==
        IF n.node = "leaf" THEN LeafHolds(n, input)
        ELSE IF n.node = "not" THEN ~ holds[n.of[1]]
        ELSE IF n.node = "all" THEN \A k \in Children(n) : holds[k]
        ELSE \E k \in Children(n) : holds[k]
  IN holds[when]

Meant(p, input) ==
  /\ action.type \in p.applies
  /\ IF p.kind = "sequence"
     THEN p.id \in input["sequence.matched_refs"].of
     ELSE p.when # NoCondition => Holds(p.when, input)

(* What fires is what was written: on every action, the compiled rules     *)
(* match exactly the principles whose condition holds, and the floor is    *)
(* the most restrictive of their effects (compiler.py, _to_dnf; schema.py, *)
(* _field_scope: a negation must not fire on a field that is not there).   *)
FloorIsAsWritten ==
  stage = "evaluated" =>
    LET meant == {p \in ToSet(document.principles) : Meant(p, judged)} IN
    /\ {m.principle_ref : m \in matched} = {p.id : p \in meant}
    /\ SelectFloor({m.effect : m \in matched}) = SelectFloor({p.effect : p \in meant})

(* "Same content in any authoring order -> the same version" (version.py), *)
(* and the same rules; for ids that differ as numbers.                     *)
Backwards(c) ==
  [principles |-> Reverse(c.principles),
   lists |-> [name \in DOMAIN c.lists |-> Reverse(c.lists[name])]]
DistinctKeys(c) ==
  \A i, j \in DOMAIN c.principles :
    IdKey[c.principles[i].id] = IdKey[c.principles[j].id] => i = j
OrderDoesNotMatter ==
  stage = "compiled" /\ DistinctKeys(document) => CompiledBundle(Backwards(document)) = bundle

(* The hosts that an authority may stand for: the first of its pieces, or  *)
(* an address, followed by a port or not.                                  *)
Readings(authority) ==
  {host \in DOMAIN Groups \cup {authority[1]} :
     \E port \in {"", authority[Len(authority)]} : Authority(host, port) = authority}

ReadBack(payload, f) ==
  IF f = "egress.host"
  THEN IF "url" \in DOMAIN payload THEN Readings(payload["url"].authority) ELSE {""}
  ELSE {IF KeyOf(f) \in DOMAIN payload THEN Text(payload[KeyOf(f)]) ELSE ""}

(* The evidence shows what was judged: each field that the rules of a      *)
(* constitution read by its key from the payload, and the intent and type  *)
(* of the action, can be read back from the redacted record, and in one    *)
(* way only unless the host is an IPv6 address; and only the arguments of  *)
(* a tool, which no wrapper names, can be unclassifiable (audit.py,        *)
(* _redact_url and _redact_or_raise).  Not in the record, and not claimed: *)
(* the tool's name, the guardrails that fired, the matched sequences.      *)
EvidenceShowsWhatWasJudged ==
  /\ stage = "recorded" =>
       /\ \A f \in PayloadFields(action.type) :
            LET readings == ReadBack(evidence.redacted_payload, f) IN
            \E x \in readings :
              /\ judged[f] = Str(x)
              /\ readings = {x} \/ (f = "egress.host" /\ x \in DOMAIN Groups)
       /\ judged["intent.class"] = Str(evidence.inferred_intent)
       /\ judged["type"] = Str(evidence.action_type)
  /\ stage = "stripped" => action.type = "tool_call"

(* "Keeps the host for forensic value" (audit.py, _redact_url): the host   *)
(* that was judged is the only one the evidence may mean.  It is not, for  *)
(* an IPv6 address may end in what reads as a port.                        *)
HostIsInEvidence ==
  stage = "recorded" /\ "egress.host" \in PayloadFields(action.type) =>
    \A x \in ReadBack(evidence.redacted_payload, "egress.host") : judged["egress.host"] = Str(x)
=============================================================================
