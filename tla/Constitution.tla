---------------------------- MODULE Constitution ----------------------------
(***************************************************************************)
(* What an operator may write (constitution/schema.py), over which fields  *)
(* (contract/policy_io.py), and the document that an action is judged by   *)
(* (pipeline/policy_input.py).  A condition is a tree of leaves under the  *)
(* nodes all, any and not.                                                 *)
(***************************************************************************)
EXTENDS Outcomes, AgentActions, SequencesExt

CONSTANTS
  Nesting,   \* how deep anyone nests a condition
  Matching,  \* the triples <<op, pattern, string>> in which the pattern matches
  IdKey      \* IdKey[id]: the numeric key of a principle's id

ASSUME ConstitutionAssumption ==
  /\ Nesting \in Nat
  /\ \A id \in DOMAIN IdKey : IdKey[id] \in Nat

NoList == "no list"

(* POLICY_INPUT_FIELDS: the type of a field and the actions that have it.  *)
CommonFields ==
  {"type", "target", "intent.class", "sequence.matched_refs",
   "guardrails.pii", "guardrails.unsafe", "guardrails.format"}
FieldNames ==
  CommonFields
    \cup {"egress.host", "memory.operation", "memory.key", "mcp.server", "mcp.tool",
          "delegation.to_agent", "model.name"}
Field(type, scope) == [type |-> type, scope |-> scope]
PolicyInputFields ==
  [f \in FieldNames |->
     CASE f \in {"type", "target", "intent.class"} -> Field("str", ActionType)
       [] f \in {"guardrails.pii", "guardrails.unsafe", "guardrails.format"} -> Field("bool", ActionType)
       [] f = "sequence.matched_refs" -> Field("list", ActionType)
       [] f = "egress.host" -> Field("str", {"tool_call", "mcp_call"})
       [] f \in {"memory.operation", "memory.key"} -> Field("str", {"memory_access"})
       [] f \in {"mcp.server", "mcp.tool"} -> Field("str", {"mcp_call"})
       [] f = "delegation.to_agent" -> Field("str", {"delegation"})
       [] f = "model.name" -> Field("str", {"model_invocation"})]

-----------------------------------------------------------------------------
(* build_policy_input: every field of the action's type is there, empty    *)
(* when the payload says nothing of it.                                    *)
PayloadFields(t) ==
  CASE t = "tool_call" -> {"egress.host"}
    [] t = "mcp_call" -> {"mcp.server", "mcp.tool", "egress.host"}
    [] t = "memory_access" -> {"memory.operation", "memory.key"}
    [] t = "delegation" -> {"delegation.to_agent"}
    [] OTHER -> {"model.name"}

KeyOf(f) ==
  CASE f = "memory.operation" -> "operation"
    [] f = "memory.key" -> "key"
    [] f = "mcp.server" -> "server"
    [] f = "mcp.tool" -> "tool"
    [] f = "delegation.to_agent" -> "to_agent"
    [] f = "model.name" -> "model"

Truth(b) == Value("bool", {IF b THEN "true" ELSE "false"})
BuildPolicyInput(a, enrichment, refs) ==
  [f \in CommonFields \cup PayloadFields(a.type) |->
     CASE f = "type" -> Str(a.type)
       [] f = "target" -> Str(a.target)
       [] f = "intent.class" -> Str(enrichment.intent)
       [] f = "guardrails.pii" -> Truth("pii" \in enrichment.guardrails)
       [] f = "guardrails.unsafe" -> Truth("unsafe" \in enrichment.guardrails)
       [] f = "guardrails.format" -> Truth("format" \in enrichment.guardrails)
       [] f = "sequence.matched_refs" -> Value("list", refs)
       [] f = "egress.host" -> Str(Host(Url(a)))
       [] OTHER -> Str(Says(a, KeyOf(f)))]

-----------------------------------------------------------------------------
(* A node holds its children in order; `not` holds one.                    *)
LeafType ==
  [node : {"leaf"}, field : STRING, op : STRING, list : STRING,
   value : [type : STRING, of : SUBSET STRING]]
Tree[k \in 0..Nesting] ==
  IF k = 0 THEN LeafType
  ELSE LeafType \cup [node : {"not"}, of : [1..1 -> Tree[k - 1]]]
                \cup [node : {"all", "any"}, of : Seq(Tree[k - 1]) \ {<<>>}]
Conditions == Tree[Nesting]

Children(n) == IF n.node = "leaf" THEN {} ELSE ToSet(n.of)
Depth[n \in Conditions] ==
  IF n.node = "leaf" THEN 0 ELSE 1 + Max({Depth[k] : k \in Children(n)})
Leaves[n \in Conditions] ==
  IF n.node = "leaf" THEN {n} ELSE UNION {Leaves[k] : k \in Children(n)}

(* A leaf compares a field with a value, or with a named list, of a type   *)
(* that the operator takes.                                                *)
Scalar == {"str", "bool", "num"}
TypesFit(leaf, type) ==
  \/ leaf.op \in {"prefix", "glob"} /\ type = "str" /\ leaf.value.type = "str"
  \/ leaf.op \in {"gte", "lte"} /\ type = "num" /\ leaf.value.type = "num"
  \/ leaf.op \in {"eq", "ne"} /\ type \in Scalar /\ leaf.value.type = type
  \/ leaf.op \in {"in", "not_in"} /\ type = "str" /\ leaf.value.type \in {"list", "none"}

LeafOK(leaf) ==
  /\ leaf.field \in DOMAIN PolicyInputFields
  /\ (leaf.value = NoValue) # (leaf.list = NoList)
  /\ leaf.list # NoList => leaf.op \in {"in", "not_in"}
  /\ TypesFit(leaf, PolicyInputFields[leaf.field].type)

NoCondition == [node |-> "none"]
MaxDepth == 3

(* _field_scope: a principle applies only to actions that have the fields. *)
InScope(p, leaf) == p.applies \subseteq PolicyInputFields[leaf.field].scope

PrincipleOK(p) ==
  /\ p.effect \in AuthorableEffects
  /\ IF p.kind = "sequence"
     THEN Len(p.sequence) >= 2 /\ p.when = NoCondition
     ELSE p.sequence = <<>>
  /\ p.when # NoCondition =>
       /\ Depth[p.when] <= MaxDepth
       /\ \A leaf \in Leaves[p.when] : LeafOK(leaf) /\ InScope(p, leaf)

(* The cross checks: ids are unique and named lists exist.                 *)
ConstitutionOK(c) ==
  /\ \A i \in DOMAIN c.principles : PrincipleOK(c.principles[i])
  /\ \A i, j \in DOMAIN c.principles : c.principles[i].id = c.principles[j].id => i = j
  /\ \A i \in DOMAIN c.principles :
       LET p == c.principles[i] IN
       p.when # NoCondition =>
         \A leaf \in Leaves[p.when] : leaf.list \in DOMAIN c.lists \cup {NoList}

(* canonical_form: principles by id, each list as the set it is.  Sorting  *)
(* is stable: principles of one key keep their order.  The order of        *)
(* applies_to and of the values in a leaf is kept too: they are sets here. *)
Before(ps, i, j) ==
  \/ IdKey[ps[i].id] < IdKey[ps[j].id]
  \/ IdKey[ps[i].id] = IdKey[ps[j].id] /\ i < j
PlaceOf(ps, j) == Cardinality({i \in DOMAIN ps : Before(ps, i, j)})
MutantSorted(ps) == ps
Sorted(ps) == [n \in DOMAIN ps |-> ps[CHOOSE j \in DOMAIN ps : PlaceOf(ps, j) = n - 1]]
CanonicalForm(c) ==
  [principles |-> Sorted(c.principles),
   lists |-> [name \in DOMAIN c.lists |-> ToSet(c.lists[name])]]
=============================================================================
