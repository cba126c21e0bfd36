---------------------------- MODULE AgentActions ----------------------------
(***************************************************************************)
(* An operation on its way through the system: what a hook or wrapper of   *)
(* the SDK is called with, the AgentAction it is normalised to             *)
(* (sdk/normalize.py), what enrichment adds (pipeline/enrichment.py) and   *)
(* the redacted payload that becomes evidence (controlplane/audit.py).     *)
(***************************************************************************)
EXTENDS Integers, Sequences, FiniteSets, TLC

CONSTANTS
  Split,        \* Split[u]: the scheme, host and port urlsplit finds in u
  Groups,       \* Groups[h]: what is between the colons of h, an IPv6 address
  Destroys,     \* the targets that fold to a word or prefix of destruction
  Renames,      \* the targets that fold to a word or prefix of renaming
  Deletes,      \* the memory operations that fold to "delete"
  Flagged       \* Flagged[g]: the texts in which the scorer of g finds something

ASSUME GroupsAssumption == \A h \in DOMAIN Groups : Groups[h] \in Seq(STRING) /\ Len(Groups[h]) > 2

ActionType == {"tool_call", "memory_access", "mcp_call", "model_invocation", "delegation"}
Guardrail == {"pii", "unsafe", "format"}

(* A value: a list is the set it denotes, a scalar the set of it alone.    *)
Value(type, x) == [type |-> type, of |-> x]
NoValue == Value("none", {})
Str(x) == Value("str", {x})
Text(v) == CHOOSE x \in v.of : TRUE

-----------------------------------------------------------------------------
(* The agent peeked at in the token; the identity stage verifies it.       *)
NoToken == "no token"
AgentIdFromToken(token) == IF token = NoToken THEN "" ELSE token

NoContext == [parent |-> "", conversation |-> ""]

(* The first name that a chat model has; the name of its class comes last. *)
ModelName(names) == SelectSeq(names, LAMBDA n : n # "")[1]

(* Tool and model calls are governed by the hooks of the middleware, which *)
(* have no lineage; the wrappers govern the rest, and pass theirs on.      *)
Hooked == {"tool_call", "model_invocation"}
Context(q) == IF q.type \in Hooked THEN NoContext ELSE q.context

Target(q) ==
  CASE q.type = "tool_call" -> q.name
    [] q.type = "model_invocation" -> ModelName(q.model)
    [] q.type = "memory_access" -> "memory:" \o q.operation
    [] q.type = "mcp_call" -> q.server \o ":" \o q.tool
    [] OTHER -> q.to_agent

Payload(q) ==
  CASE q.type = "tool_call" -> q.args
    [] q.type = "model_invocation" -> [model |-> Str(ModelName(q.model)), messages |-> Str(q.messages)]
    [] q.type = "memory_access" ->
         [operation |-> Str(q.operation), key |-> Str(q.key), value |-> Str(q.value)]
    [] q.type = "mcp_call" -> [server |-> Str(q.server), tool |-> Str(q.tool), args |-> Str(q.args)]
    [] OTHER -> [to_agent |-> Str(q.to_agent), task |-> Str(q.task)]

Normalize(q) ==
  [agent_id |-> AgentIdFromToken(q.token), type |-> q.type, target |-> Target(q),
   payload |-> Payload(q), context |-> Context(q)]

-----------------------------------------------------------------------------
(* enrich: the intent, from the target or the memory operation, and the    *)
(* guardrails whose scorer finds something in the values of the payload.   *)
Says(a, key) == IF key \in DOMAIN a.payload THEN Text(a.payload[key]) ELSE ""

TagIntent(a) ==
  CASE a.type = "memory_access" /\ Says(a, "operation") \in Deletes -> "DATA_DESTRUCTION"
    [] a.target \in Destroys -> "DATA_DESTRUCTION"
    [] a.target \in Renames -> "RESOURCE_RENAME"
    [] OTHER -> ""

PayloadText(a) == UNION {a.payload[key].of : key \in DOMAIN a.payload}
Enrich(a) ==
  [intent |-> TagIntent(a),
   guardrails |-> {g \in Guardrail : PayloadText(a) \cap Flagged[g] # {}}]

-----------------------------------------------------------------------------
(* urlsplit on the url of a payload: it raises on some strings, and on a   *)
(* value that is no string unless that is empty, which has no host.        *)
Url(a) == IF "url" \in DOMAIN a.payload THEN a.payload["url"] ELSE NoValue
Splits(url) == url.type = "none" \/ (url.type = "str" /\ Text(url) \in DOMAIN Split)
Host(url) == IF url.type = "str" THEN Split[Text(url)].host ELSE ""

(* _redact_or_raise: every key is classified, or nothing is written.       *)
DigestKeys == {"content", "messages", "value", "args", "task"}
MutantVerbatimKeys == {"model", "key", "server", "tool", "to_agent", "from_agent"}
VerbatimKeys == {"model", "operation", "key", "server", "tool", "to_agent", "from_agent"}

(* A url keeps scheme, host and port, and a port out of range raises.      *)
UrlClassified(url) ==
  url.type = "str" /\ Split[Text(url)].scheme # "" /\ Split[Text(url)].host # ""
Classified(key, v) ==
  \/ key = "url" /\ UrlClassified(v)
  \/ key \in DigestKeys /\ v.type # "object"
  \/ key \in VerbatimKeys /\ v.type = "str"

Redacts(payload) == \A key \in DOMAIN payload : Classified(key, payload[key])
PortRaises(payload) ==
  "url" \in DOMAIN payload /\ UrlClassified(payload["url"])
    /\ Split[Text(payload["url"])].port = "out of range"

(* _redact_url joins host and port with a colon, and puts no brackets      *)
(* around an address: what it writes is known only between its colons.     *)
Pieces(host) == IF host \in DOMAIN Groups THEN Groups[host] ELSE <<host>>
Authority(host, port) == IF port = "" THEN Pieces(host) ELSE Append(Pieces(host), port)
RedactUrl(url) == [scheme |-> url.scheme, authority |-> Authority(url.host, url.port)]

Digest(v) == [digest |-> v]
Redacted(payload) ==
  [key \in DOMAIN payload |->
     IF key = "url" THEN RedactUrl(Split[Text(payload[key])])
     ELSE IF key \in DigestKeys THEN Digest(payload[key])
     ELSE payload[key]]
=============================================================================
