--------------------------- MODULE MCConstitution ---------------------------
(* An instance of ConstitutionCompiler for TLC: one principle under any    *)
(* condition of up to three levels over three leaves; two principles in    *)
(* either order; and documents that the schema refuses.                    *)
EXTENDS ConstitutionCompiler

Web == {"tool_call", "mcp_call"}
Leaf(field, op, value, list) ==
  [node |-> "leaf", field |-> field, op |-> op, value |-> value, list |-> list]
Elsewhere == Leaf("egress.host", "not_in", NoValue, "approved")
Admin == Leaf("target", "prefix", Value("str", {"adm"}), NoList)
Private == Leaf("guardrails.pii", "eq", Value("bool", {"true"}), NoList)

Others ==
  {Leaf("target", "ne", Value("str", {"shop"}), NoList),
   Leaf("target", "in", Value("list", {"shop", "admin"}), NoList),
   Leaf("target", "not_in", Value("list", {"shop"}), NoList),
   Leaf("egress.host", "in", NoValue, "approved"),
   Leaf("target", "glob", Value("str", {"sh*"}), NoList),
   Leaf("mcp.server", "ne", Value("str", {"peer"}), NoList)}

(* The conditions one level above those of C, with up to two children.     *)
Not(C) == {[node |-> "not", of |-> <<c>>] : c \in C}
Over(C, D) ==
  {[node |-> n, of |-> kids] : n \in {"all", "any"}, kids \in {<<c>> : c \in C}}
    \cup {[node |-> n, of |-> <<c, d>>] : n \in {"all", "any"}, c \in C, d \in D}
Level0 == {Elsewhere, Admin, Private}
Level1 == Not(Level0) \cup Over(Level0, Level0)
Level2 == Not(Level1) \cup Over(Level1, Level0 \cup Level1)
Level3 == Not(Level2) \cup Over(Level2, {Private})
TooDeep == Not(Not(Not(Not({Admin}))))

Principle(id, kind, effect, types, when, sequence) ==
  [id |-> id, kind |-> kind, effect |-> effect, applies |-> types, when |-> when,
   sequence |-> sequence]
Document(principles) == [principles |-> principles, lists |-> [approved |-> <<"host", "peer">>]]

WellFormed ==
  Others \cup Not(Others) \cup Not(Not(Others)) \cup Level0 \cup Level1 \cup Level2
    \cup Level3 \cup TooDeep
Single ==
  {Document(<<Principle("1", "action", "deny", Web, c, <<>>)>>) : c \in {NoCondition} \cup WellFormed}

Steps == <<"RENAME", "DESTROY">>
Several ==
  {Principle(id, "action", effect, types, c, <<>>) :
     id \in {"1", "2"}, effect \in {"warn", "sandbox", "temporary_exception"},
     types \in {Web, ActionType}, c \in {Elsewhere, Admin, Private}}
    \cup {Principle("2", "sequence", "deny", Web, c, q) :
            c \in {NoCondition, Admin}, q \in {Steps, <<"RENAME">>}}
Pairs == {Document(<<p, q>>) : p \in Several, q \in Several}

(* Leaves that the schema refuses: a type the operator does not take, both *)
(* or none of value and list, a field or a list that does not exist.       *)
Wrong ==
  {Leaf("guardrails.pii", "in", NoValue, "approved"),
   Leaf("guardrails.pii", "prefix", Value("str", {"adm"}), NoList),
   Leaf("target", "gte", Value("num", {"1"}), NoList),
   Leaf("target", "eq", Value("bool", {"true"}), NoList),
   Leaf("target", "in", Value("str", {"adm"}), NoList),
   Leaf("target", "in", Value("list", {"adm"}), "approved"),
   Leaf("target", "eq", NoValue, NoList),
   Leaf("target", "prefix", NoValue, "approved"),
   Leaf("sequence.matched_refs", "eq", Value("list", {"1"}), NoList),
   Leaf("target", "in", NoValue, "missing"),
   Leaf("nowhere", "eq", Value("str", {"adm"}), NoList)}
Refused == {Document(<<Principle("1", "action", "deny", Web, c, <<>>)>>) :
              c \in Wrong \cup Not(Wrong)}

Written == Single \cup Pairs \cup Refused

(* Tools called with a url that is approved or is not, that has no scheme, *)
(* a port out of range, an IPv6 address or no form at all; with arguments  *)
(* the redactor does not know or cannot digest; and every wrapper.         *)
Urls ==
  "https://host/?key" :> [scheme |-> "https", host |-> "host", port |-> ""]
    @@ "HTTPS://me@Elsewhere:8443/" :> [scheme |-> "https", host |-> "elsewhere", port |-> "8443"]
    @@ "host/?key" :> [scheme |-> "", host |-> "", port |-> ""]
    @@ "https://host:99999/" :> [scheme |-> "https", host |-> "host", port |-> "out of range"]
    @@ "https://[::1]:8080/" :> [scheme |-> "https", host |-> "::1", port |-> "8080"]
    @@ "https://[::1:8080]/" :> [scheme |-> "https", host |-> "::1:8080", port |-> ""]
Addresses == "::1" :> <<"", "", "1">> @@ "::1:8080" :> <<"", "", "1", "8080">>

Tool(name, args) == [type |-> "tool_call", token |-> "agent", name |-> name, args |-> args]
Url1(u) == "url" :> u
Content(v) == "content" :> v
Card == Str("a card")
ToolCalls ==
  {Tool(name, args @@ Content(text)) :
     name \in {"admin", "shop"}, text \in {Card, Str("news")},
     args \in {<<>>, Url1(Str("https://host/?key")), Url1(Str("HTTPS://me@Elsewhere:8443/"))}}
  \cup {Tool("mv", args) :
     args \in {Url1(Str("host/?key")), Url1(Str("https://host:99999/")), Url1(Str("https://[host/")),
               Url1(Str("https://[::1]:8080/")), Url1(Str("https://[::1:8080]/")), Url1(NoValue), Url1(Value("num", {"7"})), "query" :> Str("news"),
               Content(Value("object", {"a handle"})), Content(Value("json", {"a card"})),
               Url1(Str("https://host:99999/")) @@ "query" :> Str("news")}}

Lineage == [parent |-> "an action", conversation |-> "a conversation"]
Wrapped ==
  {[type |-> "memory_access", token |-> "agent", operation |-> op, key |-> "k", value |-> "a card",
    context |-> Lineage] : op \in {"read", "DELETE"}}
  \cup {[type |-> "mcp_call", token |-> "agent", server |-> server, tool |-> "drop_all", args |-> "news",
         context |-> Lineage] : server \in {"peer", "other"}}
  \cup {[type |-> "delegation", token |-> "agent", to_agent |-> "admin", task |-> "news",
         context |-> Lineage],
        [type |-> "model_invocation", token |-> "agent", model |-> <<"", "shop", "ChatModel">>,
         messages |-> "a card"]}
Governed == ToolCalls \cup Wrapped

Detected == [g \in Guardrail |-> IF g = "pii" THEN {"a card"} ELSE {}]
Tried == {{}, {"2"}}

Patterns == {<<"prefix", {"adm"}, {"admin"}>>, <<"glob", {"sh*"}, {"shop"}>>}
Numbers == [id \in {"1", "2"} |-> IF id = "1" THEN 1 ELSE 2]
=============================================================================
