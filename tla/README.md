# agentos-guard: TLA+ models, checks and proofs

agentos-guard sits between an AI agent and what it wants to do. Each action is
evaluated before it runs; the decision is written to a hash-chained log; and the
caller runs the action, refuses it or parks it for a human. This directory holds
TLA+ models of the parts whose correctness depends on order, failure or
concurrency, the TLC configurations that check them on small instances, and
proofs, checked by TLAPS, of the facts that matter most for every value of the
constants.

Paths below are relative to `packages/` of the repository (`src/packages/` in
`PROJECT.json`); `contract` stands for `contract/src/agentos_contract`, and so on.

## 1. The system

| Component | Code | State it keeps | Operations | Talks to |
|---|---|---|---|---|
| Outcome vocabulary, graduated response | `contract/decision.py`, `contract/policy_io.py`, `pipeline/graduated.py` | none | order of restrictiveness, `select_floor`, `graduated_response` | used by everything |
| Decision pipeline | `pipeline/runner.py`, `posture.py` | locals of one `evaluate` coroutine | `evaluate`, the exception transform, the redaction fallback, `_fail_safe` | kill switch, identity, policy, interpreter, exceptions, risk, audit writer |
| Audit writer | `controlplane/audit.py` | `audit_records` table, cached head, asyncio lock | `append`, `append_event` | table shared with other processes |
| Audit verifier, checkpoints | `controlplane/audit_verify.py`, `checkpoint.py` | `chain_checkpoint` table | `verify_chain`, `checkpoint` | the audit table, a remote time stamping authority |
| Kill switch | `controlplane/killswitch.py` | `_killed` in memory, `kill_switch` table, events | `kill`, `kill_fleet`, `clear`, `clear_fleet`, `status`, `_load` | audit writer; read by the pipeline |
| Approval store | `controlplane/approvals.py` | `approval_request`, `temporary_exception`, `governance_review` tables | `create`, `resolve`, `wait_resolved`, `revoke`, `open_review`, `close_review`, `find_exceptions` | audit writer; operators in this or another process |
| Enforcement | `sdk/enforce.py`, `controlplane/coordinator.py` | locals of one `governed_call` | dispatch, review, run, refuse, park and wait | pipeline, approval store, audit writer |
| Resource store | `controlplane/resources.py`, `store/models.py` | `trust_profile`, `abom`, `constitution`, `policy` tables | `put_*`, `get_*`, `apply_constitution` | HTTP API, compiler |
| Policy engine | `pipeline/policy.py` | the loaded WASM bundle and its versions | `evaluate`, `reload` | read by the pipeline |
| Identity, registry | `controlplane/identity_engine.py`, `registry.py`, `pipeline/identity.py` | `agent` table, verification cache | `register`, `verify`, `invalidate` | inventory; read by the pipeline |
| Sequence correlator | `pipeline/sequence.py` | a bounded window per conversation | `observe` | read by enrichment |
| Interpreter cache | `pipeline/interpreter/cache.py` | a bounded map | `interpret`, `invalidate` | remote models |
| Inventory | `controlplane/inventory.py` | `inventory_component` table | `declare`, `observe`, `enrich_from_audit` | registry, audit table |
| Constitution compiler | `constitution/schema.py`, `version.py`, `compiler.py`, `contract/policy_io.py` | none | validate, compile, hash | resource store, policy engine |
| Risk scorers, enrichment, secret scan | `pipeline/risk/*`, `enrichment.py`, `controlplane/secret_scan.py` | none | intent and guardrail tags, text scoring | pipeline, audit writer |
| SDK hooks and wrappers | `sdk/normalize.py`, `middleware.py`, `wrappers.py` | none | what an operation is normalised to | `governed_call` |
| HTTP API, dashboard, authentication, SDK client, migrations | `controlplane/api.py`, `dashboard.py`, `auth.py`, `sdk/client.py` | none of their own | routing, rendering | the stores |

### How the parts interact

`governed_call` (SDK) awaits `Pipeline.evaluate`, which runs its stages in order:
kill switch, identity, policy (and, when no principle matches, the semantic
interpreter), the exceptions that may lift a deny, risk and trust, the graduated
response; the decision is appended to the chain before it is returned. Any
exception lands in `_fail_safe`. The caller then dispatches the side effects,
opens the review if one is owed, and runs, refuses or parks the operation. A
parked call polls its row until an operator resolves it or its deadline passes.
The stores share one database; processes share nothing else.

### What is hard

* **One event loop, a few awaits.** In one process all of this is coroutines.
  Almost every operation runs without giving way, and correctness rests on that;
  the exceptions are the await of the interpreter, the polling sleep of a parked
  call and the audit writer's lock.
* **Several processes over one table.** A second audit writer, an operator who
  resolves from the API process, two API workers that put the same resource.
* **Failure between two writes.** Memory, row and event of a kill; row and event
  of a resolution; the audit append after the decision.
* **A remembered fact that moved**: the cached head, the loaded policy, the row a
  session read, the checkpointed head.
* **A life longer than one call.** An exception is granted in one call, looked up
  in another and enforced in a third, while the constitution is amended; a signing
  key ends with its process, the chain it signed does not.
* **Fail-open classes.** An operator may declare an action class fail-open; every
  error path then has two behaviours.

### What makes each component correct

* Graduated response: never less restrictive than the floor; trust only tightens;
  monotone in risk.
* Pipeline: no failure, whatever its stage, returns less than the floor; the record is the
  decision; escalations ride on every path; a fail-closed class never returns an
  unaudited execution; every evaluation ends.
* Audit chain: append-only, linked, gap-free, never forked; a stale writer fails
  closed; a sole writer never collides.
* Verifier: what it accepts is what was anchored; of what is intact it refuses
  only what is known.
* Kill switch: an acknowledged kill holds across failures and restarts; nobody is
  un-killed without a record of it.
* Approvals: one transition per request; events, verdicts and exceptions agree
  with the row.
* Enforcement: an operation runs only as the table says, after everything that
  its dispatcher and its coordinator owe is on the chain; every call ends.
* Exceptions: what a principle denied runs only with an exception an operator
  ratified for that agent and principle, and that still held at the decision; no
  governed call lifts a deny of its own.
* Identity and registry: re-enrolment never moves trust, declared components stay
  declared, a cached verdict is no staler than its window.
* Correlator and interpreter cache: within their bounds exactly what happened is
  matched; a verdict serves only its own shape and versions.
* Compiler: the rules fire exactly where the written condition holds; the order of
  authoring changes nothing; the evidence shows the fields that the rules read by
  their key.
* Resource store: no lost update; apply is idempotent; the pair is never torn.

## 2. The modules

| Module | Models | Composes |
|---|---|---|
| `Outcomes` | the vocabulary and its order; what a PEP runs | |
| `Graduated` | thresholds, trust band, `graduated_response` | `Outcomes` |
| `DecisionPipeline`, `PipelineProofs` | `Pipeline.evaluate` and everything it calls that changes state; theorems, those of `Graduated` too | `Graduated` |
| `AppendOnlyLog` | the abstract log: what an audit log promises | |
| `AuditChain` | `AuditWriter` | implements `AppendOnlyLog` |
| `AuditVerify`, `AuditProofs` | `verify_chain`, `CheckpointService` and failing storage; theorems, those of `AuditChain` too | `AuditChain` |
| `KillSwitch`, `KillSwitchProofs` | `KillSwitchStore`; theorems | |
| `Approvals` | `ApprovalStore` | |
| `Enforcement` | `governed_call`, coordinator, dispatcher | `Approvals`, `Outcomes` |
| `Exceptions`, `ExceptionsProofs` | the life of a temporary exception: decision, grant, lookup, expiry, amendment; theorems, those of `Approvals` and `Enforcement` too | implements `Enforcement` |
| `ResourceStore`, `ResourceStoreProofs` | `ResourceStore`; theorems | |
| `SequenceCorrelator` | the windows of intent classes and their matching | |
| `InterpreterCache` | `CachedInterpreter` | |
| `PipelineMemory`, `PipelineMemoryProofs` | what evaluations share through these two, beside reloads; theorems | `SequenceCorrelator`, `InterpreterCache` |
| `Registry` | `Registry.register`, `InventoryStore` | |
| `AgentActions` | normalisation, enrichment, redaction of one operation | |
| `Constitution` | the schema, the policy input, the canonical form | `AgentActions`, `Outcomes` |
| `ConstitutionCompiler`, `ConstitutionProofs` | validation, compilation, evaluation of the rules, the evidence of it; theorems | `Constitution` |
| `IdentityCache`, `IdentityCacheProofs` | `CachingIdentityStage` over `IdentityEngine.verify`; theorems | `Registry` |

Each `MC*` module instantiates its specification; each `MC*.cfg` is one run.
Definitions called `Mutant...` are wrong variants of the definition under them.
No specification uses them. They exist so that each property can be shown to
fail when the code is changed the way the mutant says; `PROJECT.json` pairs them.

### DecisionPipeline

`call[c]` holds the locals of one `evaluate`: the stage it is at (`pc`), the
fail-open flag of its class, whether its payload redacts, the trust score, the
floor, the deny refs and the effects of the other matched principles, the boxed
floor (`box`, the `floor_box` that `_fail_safe` reads), the applied exception's
expiry, and the decision (`outcome`, `expires`, `pinned`, `evidence`). Four fields
are there for the properties only: `known` (the strictest floor established),
`verdict` (what the graduated stage said), `waived` (the live exceptions used)
and `evaluated` (the version the policy was evaluated under). `running` is the
coroutine that holds the loop: `PolicyNotMatched` gives it up at the await of the
interpreter and `InterpreterAnswers` takes it again; kills and reloads happen
only when nobody holds it. One action per stage; `Raise` stands for an exception
out of any stage, `Cancel` for a `CancelledError`, which no handler catches.
Matched principles, interpreter verdicts, scores, exceptions found
and the redactability of the payload are inputs. `AssessRisk` is the aggregator:
the expensive scorers run only when no inline one already decides. A decision carries the
side effects of the principles that fired and of the risk flag, and a remediation
line; the fail-safe carries its own. How the adapter of the interpreter asks again
is in `PipelineMemory`; here its verdict arrives or does not.

### AuditChain, AppendOnlyLog

`rows` is the table, `head[w]` the head cached by writer `w`, `call[w]` the append
under way. `Begin` is `_chain_head` under the lock, `Insert` the commit (refused
when `UNIQUE(seq)` is taken), `Return` the cache update after it, `Fail` any
exception, `Restart` a new process. The digest is an injective tuple. The
refinement maps the row with seq `i` to entry `i + 1` of `AppendOnlyLog`.

### AuditVerify

Adds the two readers of the chain. `ReadRows` and `ReadCheckpoints` are the two
sessions of `verify_chain`; `ReadHead` and `StoreCheckpoint` those of
`checkpoint`, with the anchoring between them. A signature is the key that made it
and what it covers: `signed` holds those of the rows, a checkpoint its proof. `key[w]` is
the key of the process a writer lives in: a process that is not supplied with one
generates one when it starts, so `Restart` may change it. A verification is given a
key or none, and a time stamping authority's certificate or none; what it cannot
check it skips.
`LoseTail`, `LoseRow`, `ChangeBody`, `GarbleSignature` and `GarbleProof` model
storage that fails; they are external, for no code does them. `anchored` remembers,
for the properties, what the table held when a head was anchored.

### KillSwitch

`memory`, `table` and `audited` are the three places a kill lives. `kill` writes
memory, row, event in that order; `clear` row, event, memory. `Raise` may end an
operation before either of its fallible writes, `Restart` may come at any point.
`acked` and `result` record what operators were told.

### Approvals, Enforcement

`row`, `grants`, `revoked` and `events` are the tables and the chain; `wait[r]`
is where the `wait_resolved` of request `r` is, `res[s]` where the `resolve` of
operator `s` is. `SharedLoop` chooses the deployment: when TRUE, whoever is inside
an operation holds the loop (`busy`) until the operation ends; when FALSE an
operator in another process interleaves anywhere. `Enforcement` adds `call[r]`, the
`governed_call` of request `r`, and replaces `Park` by the call that parks. A
side effect dispatched, a review opened, a substitution recorded are events.
`Wired` and `Dispatching` are the calls with a coordinator and with a dispatcher:
both are optional arguments of `governed_call`, absent by default, and what a call
without them owes is dropped.

`create` is public. `File` is a request filed with it by hand, on which nobody waits
(`WaitAgain` may begin to); in `Enforcement` a request is filed (`FileRequest`, `pc`
is `filed`) instead of being a call. `tests/integration/test_approval_e2e.py:163-205`
grants an exception in this way. `ByHand` bounds, for TLC, which requests may be
filed.

### Exceptions

`Enforcement` lets a call be decided in any way. `Exceptions` decides it as the
pipeline does: by the effects that the principles fired on the call have in the
loaded constitution (`version`), the unrevoked and unexpired grants of its agent
(`Active`), the risk, which only tightens, or the fail-safe, which in a fail-open
class that fails before the policy stage allows (`FailsEarly`). `until[g]` is the
expiry of a grant, an input of the resolution that made it; `Amend` loads another
constitution, `Tick` moves the clock. `basis[r]` remembers what a decision rested
on. A fail-safe that would park a call, without reasons, grants nothing when it is
approved; it is left to `DecisionPipeline`.

### ResourceStore

`row[a]` is the versioned row of agent `a` (trust profiles and ABOMs follow the
same code), `constitution` and `policy` the two tables of an applied
constitution. `session[s]` is one session in the middle of an operation: `PutReads`
then `PutCommits`; `ApplyReads`, then the insertion, or the fetch of the pair, or a
lost race, a rollback and a second fetch. A put of unchanged content emits no
UPDATE, hence no version check, and the model does the same. `answered` and
`applied` record what clients were told.

### SequenceCorrelator, InterpreterCache, PipelineMemory

`windows` is the ordered dictionary of the correlator, oldest conversation
first; `entries` that of the cache. The iterator that the matching shares between
the classes of a sequence is the recursive function in `OrderedSubsequence`.
`eval[e]` is one evaluation: it observes its intent class and either is decided by
a principle or asks the interpreter; a miss awaits, and other evaluations, a
reload or an `invalidate` may come before the answer is stored. `observed` and
`given` are the whole history, kept for the properties: what was seen, and what
the interpreter said to which request. An answer that is not a verdict is asked
for again by the adapter, `MaxAttempts` times (`Malformed`). A request is its shape and the versions
read when it was built. An evaluation asks only when no sequence
matched: a matched sequence is a matched principle.

### Registry, IdentityCache

`trust` is the `agent` table (no code deletes a row), `inventory` the sources of
the components, `op[t]` the operation of session `t`: a registration reads its row
(`Register`), commits it (`CommitAgent`), issues the token (`IssueToken`) and
declares the manifest, one read per component (`Upsert`) and one commit
(`CommitComponents`); `Observe` begins the same for one component. A read and a
commit are separate steps, so sessions interleave between them; the keys of the
tables decide who fails. An empty manifest writes nothing and is the same as
none; a registry without an inventory ignores manifests, and is one that is
given none. `EnrolledStands` speaks of registrations that were answered, not of one
that failed with its agent row behind it. `check` is a verification that missed the
cache, between the clock reading and the engine's answer: registrations and the
clock go on meanwhile. `Invalidate` does not fall between the two: neither `verify`
nor `invalidate` takes a lock, and the model assumes that both are called on the
event loop, where `verify` does not give way. A hit changes no state and is no step. A token is its subject and its expiry. `inForce`
and `since` record, for the properties, when each trust score was last the
agent's and which it had since its entries were last dropped.

### AgentActions, Constitution, ConstitutionCompiler

An operation is what a hook or a wrapper of the SDK is called with. `Normalize` is
the action it becomes, `Enrich` its intent and guardrails, `BuildPolicyInput` what
the rules read, `Redacted` what becomes evidence. Each of these has a
list of payload keys of its own. What `urlsplit` finds in a url, which targets and which
texts are noticed are parameters. A url may have no host, make `urlsplit` raise, or
split but have a port that raises when it is redacted: the three ways
lead to `Evaluate`, `CannotJudge`, `RecordStripped` and `RedactionRaises`.
`_redact_url` joins host and port with a colon and puts no brackets around an IPv6
address, so `RedactUrl` keeps of the authority only what stands between its colons
(`Authority`; `Groups` says how an address falls apart). `Readings` are the hosts it
may then mean.

A document goes from `written` to `accepted` or `rejected`, then to `compiled`
or (above the ceiling of rules) `refused`, and a compiled one is evaluated on an
operation and recorded. A condition is a tree of records; a value is a type and a set, a
scalar being the set of it alone, so that values of all types compare. `Dnf`,
`Lower` and `Rules` are the compiler; a rule is what the Rego text of it means: its
action types and the lines of its body. `LineHolds` and `Fires` say how Open Policy
Agent, which is external, reads them: a comparison of a field that is not in the
input is undefined, and `not` of it holds. `Holds` is the reference: the
condition read by its own structure. Which strings a prefix or a glob matches is
a constant; `IdKey` is the numeric reading of an id. `Conditions` is every tree of
at most `Nesting` levels, over any leaves; what the code computes by recursion
over a condition (`Depth`, `Leaves`, `Dnf`) is a recursive function of it, so that
it can be proved about. `Sorted` is a stable sort, by the place each principle
takes.

## 3. The runs

| Run | Shows | Instance |
|---|---|---|
| `audit_chain` | every row links to its predecessor, a stale writer writes nothing, the table is an append-only log | 2 writers, 4 kinds of body, 3 rows |
| `audit_verify` | an accepted table holds what was anchored; an intact one is refused only for a checkpoint stored between the verifier's reads or for a signature under another life's key; a sole writer never collides | 1 writer, signed with one of 2 keys or unsigned, 2 rows, 2 checkpoints of the local anchor, 1 storage fault |
| `pipeline` | floors and verdicts survive every failure, evidence is the decision, escalations ride, matched decisions pin what matched, exceptions are time-boxed, a fail-closed class denies without evidence, every evaluation ends | 1 evaluation, 2 principles, all effects, 2 expiries, 2 versions, scores 0..2 |
| `killswitch` | kills hold, durability never runs ahead of enforcement, nobody is un-killed quietly | 2 agents and the fleet |
| `exceptions` | operations run only as the table says, after what they owe; one transition per request; events and exceptions match rows; what a principle denied runs only on a ratified exception, and no call lifts a deny of its own | shared loop, 3 requests of 2 agents (one fail-open; one with a coordinator and a dispatcher, which may be filed by hand instead), 1 operator, 2 principles, 2 constitutions, clock to 1 |
| `enforcement_split` | every call ends | operator in another process, 2 calls (one with a coordinator and a dispatcher, one with neither), the first of which may be filed by hand instead |
| `resources` | a version names one content; apply is idempotent and finds both rows | 2 sessions, 3 contents, 3 versions, 3 documents with 2 canonical forms |
| `pipeline_memory` | a principle fires on a sequence only if it happened, and within the bounds always; a verdict advises only under the versions it was given for | 4 evaluations, 3 conversations, windows of 2, 2 conversations and 1 verdict kept, 2 versions, 2 attempts |
| `constitution` | rules fire exactly where the written conditions hold; the order of authoring changes nothing; evidence shows each field read by its key, and only a tool call is stripped of its payload | 11,878 documents, 29 operations, at most 4 rules for a principle |
| `identity_cache` | enrolments stand, declared wins, trust moves by grade; a hit is no staler than the window or the last invalidation | 2 sessions, 1 agent, 1 component, 1 entry, TTL 2, clock to 4 |

Why the bounds are enough. *Audit*: a fork needs two writers and two rows on one
predecessor; the third row shows that a writer behind by one stays behind. For
the verifier the cases are a checkpoint before the fault and one after it; with
two rows a tail, or the first row, is lost and the chain grows again over an
anchored seq. Two keys and none are a re-key, an unsigned row among signed ones
and a verification with a foreign key. The rules for the two anchors differ only in
who signs a proof and what checks it: the same instance under the time stamping
authority (the other value of `Anchor`) passes too. *Pipeline*: evaluations
share only the kill set, the loaded version and the loop, and each appends to
its own log, so one evaluation with an environment that kills and reloads
whenever the loop is free meets everything another evaluation could do to it.
Two principles give every shape of floor (deny alone, deny with another effect,
two denies with one or two exceptions); scores 0..2 put one in each band of
risk, and one at and one above the trust threshold; two expiries tell earliest
from latest. *Kill switch*: two
agents and the fleet give every shadowing. *Exceptions*: the first request, parked or filed by
hand, may be approved and grant; the second, of its agent, may be lifted by that
grant; the third, of another agent, may not. The second may carry an effect
and has no dispatcher. One principle asks for a review under one
constitution and denies under the other, without which nothing is both granted
and denied; the second principle only warns. With two expiries and two clock
values a grant is looked up before and at its expiry. One operator is enough on a
shared loop, where two never interleave; that is proved for any number.
*Enforcement, split*: a call that dispatches and parks, and one nothing waits on; a
request filed by hand, beside the second call, takes the place of the first. *Resources*:
three contents, since with two both losers of a race would write the same.
*Pipeline memory*: a window of two just holds what the
longest declared sequence needs before its last step, so one class more overruns
it; the third conversation pushes out the first; a late answer, a reload and a
hit take three evaluations, and the fourth lets a sequence complete beside them.
*Identity cache*: two sessions are a race; the
clock passes the expiry of an entry made after a token's own.
*Constitution*: every condition of depth one and two over three
leaves with up to two children at a node, and those of depth three over these;
a leaf for each operator, negated once and twice; pairs of principles in both
orders; a document for each rule of the schema; an operation for each type, each
form a url can have and each class of payload key, with two IPv6 urls that are
redacted to one string. The ceiling of four rules
instead of 64 is reached by conditions of that size. One evaluation is
followed, since an evaluation keeps nothing.

### Runs that must fail

Each checks one sentence of the repository's documentation that the code does
not keep; `PROJECT.json` quotes it.

* `pipeline_unrecorded`: a fail-open class, with the audit backend down twice,
  returns an executable `warn` without evidence; only an unaudited `allow` is
  turned into a deny.
* `approvals_race`: the timeout mark overwrites a resolution committed by
  another process after the waiter's read.

### Disagreements without a run

* A policy reload during the await of the interpreter makes the decision pin a
  version that did not evaluate the action (`PinsEvaluatedVersion` in
  `DecisionPipeline`; TLC refutes it). When principles matched it
  does pin what evaluated it: `MatchedPinsEvaluated`, checked and proved.
* A denied call is never parked by the system, and only a pending request can be
  approved with an exception. `docs/architecture/04-constitution-and-policy.md:58`
  speaks of what is "Otherwise-denied, but a human ratifies a time-boxed exception".
  No code of the packages but the coordinator calls `create`, and it does so only for
  calls that are not denied; so the operator of a denied call has to file a
  request by hand with a decision of their own making, as
  `tests/integration/test_approval_e2e.py:163-205` does, or wait for an amendment
  under which the principle does not deny. `DenyLiftedFromOutside` says that there is
  no third way: through any chain of exceptions, a deny is lifted by a request
  filed by hand or by one its principle did not deny.
* `coordinator.py` promises of a dispatcher "no event, no quiet proceed". Without one,
  which is the default of `governed_call`, the side effects of the decision are
  dropped and the operation runs, without even the warning that is logged when a review is
  dropped for want of a coordinator. `ObligationsPrecedeRun` claims nothing of such
  calls.
* `_redact_url` says that it "keeps the host for forensic value". It writes an IPv6
  host without brackets: `https://[::1]:8080/` and `https://[::1:8080]/` leave the same
  evidence (`HostIsInEvidence` in `ConstitutionCompiler`; TLC refutes it).
  `EvidenceShowsWhatWasJudged` therefore says that the judged host is among
  the readings of the evidence, and the only one unless it is an IPv6 address.
* The redaction fallback turns a decision into a deny and leaves its
  remediation, which may still tell the caller to await an operator
  (`AwaitedIsParked` in `DecisionPipeline`; TLC refutes it).
* The `target` of a tool call, its name, is not in the audit record; principles
  judge it. Nor, as fields of their own, are the guardrails that fired and the matched
  sequences.
* The MCP wrapper puts no url in the payload, so `egress.host` is empty on every
  `mcp_call` it governs: an allowlist of hosts that applies to MCP calls fires on
  all of them.
* `identity_engine.py:76` says that the id stored with a signature lets a verifier pick
  the right historical key. `verify_chain` takes one key and does not read the id: a
  table that outlived a re-key verifies with signatures under no key
  (`SomeKeyVerifies` in `AuditVerify`; TLC refutes it).
* A clear whose event fails leaves the kill in memory and not in the table, while
  `killswitch.py` says it stays in both (`FailedClearLeavesBothKilled` in
  `KillSwitch`; TLC refutes it).
* `_fail_safe` builds a decision without `expires_at`; with a fail-open class and
  a boxed floor of `temporary_exception` it returns an exception with no time box
  (definition `ExceptionCarriesExpiry` in `DecisionPipeline`; TLC refutes it).
* The verifier takes a checkpoint stored between its two reads for a truncated
  chain; `FalseAlarmsAreKnown` says that this and the re-key are the only false
  alarms.
* A kill is read at stage 0 only: a call that is parked, then approved, runs
  although its agent was killed meanwhile (`enforce.py`).
* A resolution whose event append fails stays committed without an event;
  revoking an exception and closing a review write no event.
* An orphaned pending row outlives its `deadline_at`: only its waiter enforces it.
* Two first puts of one agent: the loser gets the raw `IntegrityError`, not the
  `VersionConflict` of the module docstring.
* `load_trust` reads the `agent` row, which `PUT /trust-profiles` never writes,
  although `registry.py` says trust is graded only through that route.
* `version.py` says that the same content in any authoring order has the same
  version. Ids such as `1` and `01` have one numeric key, so their order is kept
  (`OrderDoesNotMatter` is therefore about distinct keys); so is the order
  inside `applies_to` and inside a list of values written in a condition, which the
  model has as sets.
* `schema.py` says that `ne` fires silently on an absent field. In Rego the
  comparison is undefined and does not fire; `not_in` and the negated prefix and
  glob do.
* `get_latest_policy` orders by `created_at`: re-applying an older constitution
  does not make it the latest again.

## 4. Fairness

Liveness is checked in two runs. `pipeline` (`FairSpec`): weak fairness of each
evaluation's steps. The loop runs the coroutine that holds it, and interpreter
backends answer or time out, which the runner treats as an answer. Nothing is
assumed of exceptions, cancellations, operators or reloads. `enforcement_split`
(`EnforcementFairSpec`): strong fairness of the steps of each call, each waiter
and each resolution already begun. The loop's ready queue is first in, first
out, so a callback that becomes ready again and again is not passed over for
ever; with weak fairness the model could let another party take the loop
whenever the step is about to run. No fairness obliges an operator to begin a
resolution: `CallsEnd` must hold because deadlines pass.

## 5. What is proved

All proofs are for arbitrary constants under the named assumptions of the
modules, and are checked to the last leaf.

* **`AuditProofs`** (any writers, bodies, keys, either anchor). Of the chain:
  `TypeCorrect`, `ChainAlwaysLinked`, `ChainNeverForks`, `SoleWriterSafe`,
  `StaleWriterFailsClosed`. `ChainLinked` is not inductive: an append in progress
  has read a head some time ago. The invariant adds that the head held by
  each call and each cache is on the chain (`CallsOnChain`, `HeadCommitted`), that
  seq is a key and that each hash is the digest of its row; `NoFork` then follows
  because digests are injective. The sole-writer theorem needs a second
  invariant: with one writer nothing in the table is ahead of its cache.
  `ChainImplementsLog`: every step of the chain, with any number of writers, is one
  of `AppendOnlyLog` or changes nothing in it; the rows have the seqs from 0 up without
  a gap (`LogInv`), so the mapping to entries is a function of the table. Of the
  verifier, over storage that loses and changes rows, signatures and proofs:
  `SoleWriterSafeOverFaults`, from `TableInv` (whatever storage did, seq stays
  a key and a sole writer's cache is ahead of the table);
  `AcceptedAlwaysAnchored`, from `AcceptInv`, where the step that counts is an
  induction down the links: the anchored head fixes its row, the row's
  digest fixes the row before it, down to genesis; and
  `FalseAlarmsAlwaysKnown`, from `CleanInv`, which says of an undamaged table that every
  check of every row holds, and of a checkpoint that the table still has its head.
* **`KillSwitchProofs`** (any set of agents): `TypeCorrect`,
  `DurableKillIsEnforced`, `AcknowledgedKillAlwaysHolds`, `UnkillAlwaysAudited`.
  The strengthening says that an acknowledged kill has its row on, and what each
  half-done operation has already written.
* **`PipelineProofs`** (any calls, agents, principles, effects, thresholds, scores,
  any number of reloads). Of the graduated response: `FloorNeverRelaxed`,
  `TrustNeverRelaxes`, `RiskIsMonotone`. Of the pipeline: `PipelineTypeCorrect`,
  `FloorAlwaysHolds`, `VerdictAlwaysHolds`, `ClosedAlwaysFailsClosed`, `EvidenceAlwaysIsTheDecision`,
  `EscalationsAlwaysRide`, `ClosedExceptionsAlwaysTimeBoxed`,
  `MatchedAlwaysPinsEvaluated`. The properties speak of a returned decision; any
  stage may raise, and then the fail-safe decides from the boxed floor. So the
  invariant must say of every stage that the box already respects everything known
  (`BoxHolds`: the box ranks at least as high as the strictest floor, or every denying
  principle is waived and the box as high as what the others ask), what each stage may rely on
  (`BeforeFloor`, `WithFloor`, `AtAudit`), and that the loop is held from the
  policy to the pin (`Owned`, `Current`), except across the await. The earliest of a
  set of expiries rests on the well-foundedness of the naturals.
* **`ExceptionsProofs`** (any requests, calls, operators, agents, principles,
  constitutions). Of the approval store, in either deployment: `TypeCorrect`,
  `AnnouncedGrantsAlwaysExist`, from `StoreInv` (whoever waits has a row; what a resolution still has to announce is already
  in the table). Under `SharedLoop`, a hypothesis of the theorems and not an
  assumption of the module: `SingleTransitionOnLoop`, `EventsAlwaysMatchRows`,
  `GrantsAlwaysRatified`, `VerdictsAlwaysMatchRows`. The theorems about
  verdicts, announced grants, forks and committed heads have no run of their own:
  TLC checked those invariants before they were proved. Their invariant `LoopInv`
  adds that whoever is between two steps of an operation holds the loop
  (`OneInside`) and that what it read of its row still holds (`ResolutionFits`,
  `TimeoutFits`); without the loop these two fail, and the run
  `approvals_race` shows `EventsMatchRows` fail with them.
  Of the calls around the store, `ExceptionsImplementEnforcement`: every behaviour of
  `Exceptions` is one of `Enforcement`, in either deployment, so what is proved of
  the calls holds of the calls as they are decided. Under `SharedLoop`, a
  hypothesis: `EnforcementTypeCorrect`, `RanAlwaysAsTheTableSays`,
  `ObligationsAlwaysPrecedeRun`, `EnforcedSingleTransition`, from `EInv` (the
  invariant `LoopInv` of the approvals; a request has a row only if it was parked or filed;
  what its dispatcher and its coordinator owe is on the chain by the time it leaves the
  stage that owes it);
  `RanAlwaysRatified`, `DenyAlwaysLiftedFromOutside` and `RatificationsAgree`, from `XInv`,
  which adds that every denial on which an undenied decision rests is waived by a
  grant that held then (`BasisFits`) and that behind every grant, through the
  grants it was itself ratified under, stands an approved request that was filed by
  hand, and so rests on no decision, or that its principle did not deny
  (`Consented`). A chain of exceptions may be of any length,
  which is why the invariant is on grants and not on calls. TLC checked `XInv` on the
  instance of `exceptions` as well.
* **`ResourceStoreProofs`** (any number of sessions, agents, documents):
  `TypeCorrect`, `VersionsNameContents`, `ApplyAlwaysIdempotent`,
  `FetchAlwaysFindsBoth`. The invariant says that whatever a client or a session
  ever saw is the current row or older than it, and that a session agrees with
  every answer on any version they both saw: needed because a put of unchanged
  content answers with a row that may be long gone. For apply: both tables
  hold the same rows, one for each version, and a session that lost the race has
  a winner.
* **`IdentityCacheProofs`** (any sessions, agents, components):
  `RegistryTypeCorrect`, `EnrolledAlwaysStands`, `DeclaredAlwaysWins`,
  `TrustAlwaysMovesByGrade`. The invariant adds that a row which a session read
  or wrote is still there; the lemmas say what a commit of a row, and one of
  components, leaves of the tables. Of the cache, for any bound and window:
  `TypeCorrect` and `AlwaysStaleWithinTTL`, from `StaleInv`: the clock is behind no
  record of a trust score, and the score in force is recorded as of now (`ClockInv`);
  a verification under way read the clock no later than now (`CheckInv`); and an
  entry ends within the bound of the last moment its score was in force and of
  its token's expiry (`CacheInv`).
* **`PipelineMemoryProofs`** (any bounds, conversations, classes, versions and
  attempts): `MemoryTypeCorrect`, `AlwaysAdvisedByItsOwnVersion`,
  `AlwaysMatchesHappened`, `AlwaysSequencesCaught`. The invariant says that each
  window is the end of what its conversation was seen to do (`WindowsInv`,
  `EndsOfConversations`), that nothing which the bounds promise to keep was dropped
  (`NothingLost`), that each cached verdict was given to a request of its shape and
  versions (`VerdictsInv`), and what an evaluation holds at each of its stages
  (`EvaluationsInv`). The lemmas say what `SelectSeq` keeps and that the
  iterator finds an ordered subsequence exactly when there is one.
* **`ConstitutionProofs`** (any documents, conditions of any depth, operations, lists,
  matching of patterns): `AlwaysAsWritten`, `AlwaysTheSameInAnyOrder`,
  `AlwaysShowsWhatWasJudged`. The invariant (`InvHolds`) is plain: what each stage
  holds is what the stage before made of it. The work is in the lemmas. The normal form
  holds where the condition does (`DnfFaithful`, `CrossedHolds`,
  `FlattenDisjunctions`) and is made of the condition's leaves (`DnfOfLeaves`); a
  lowered line holds where its leaf does, provided that the field is in
  the input with a value of its type (`LineIsLeaf`), which the scope check of the
  schema ensures (`InputFields`): without that check the lemma fails exactly
  for a negated leaf on an absent field. What a redacted payload shows of a field rests on there being one way to read an
  authority that is no address (`OneThenAnother`, `HostIsAReading`). Principles of
  distinct keys have one place each (`Places`), so that reversal leaves the sorted document alone
  (`SortedBackwards`).

How recursion is reasoned about. The library's induction theorems take an operator
as a parameter, which the provers here cannot instantiate. Where a proof needs an
induction it takes the least counterexample of a set of numbers instead
(`HasLeast`, `UpTo`), and for conditions the set of levels at which a fact holds
(`TreeInduction`); that a recursive definition has a solution at all is proved the same
way (`TreeRecursion`, `CountRecursion`).

Every invariant that a passing run checks, and every action property, is stated by
a theorem for all constants. Only model-checked: liveness, which is out of the prover's
reach (`EvaluationsEnd` and `CallsEnd`), and the two runs that must
fail. `OrderDoesNotMatter`, and with it its theorem, compares one order with its
reverse and not with every permutation.

## 6. What is not modelled, and why

* Text: secret patterns, the patterns of the risk scorers and of enrichment, the
  Rego text the compiler emits, the OPA build. What they return is an input.
* The graduated section of a constitution: its checks are the assumption of
  `Graduated`. Titles and statements are not in the rules; of a remediation hint
  only that it is there.
* The completeness of decision bodies (step 3b of `verify_chain`): a body is a model
  value, and only the writer's own code makes one.
* `close_review` and the listings of the approval store: one guarded write of a
  column nothing else reads, and reads.
* HTTP routing, authentication, the dashboard, the SDK's HTTP client, the store
  engine and migrations: they keep no state; the unique keys and version columns
  they declare are in the models of the stores.
* The prompts of the interpreter's adapters and the extraction of JSON from an
  answer: a remote service answers, answers badly or raises.
* Interception coverage (`sdk/coverage.py`): a map filled at import time.
* Address literals of future IP versions, and IPv6 zone identifiers, in urls.
* Two limits of what is modelled. An exception that `resolve` grants twice in one
  resolution is in no passing instance of TLC's (each call of `exceptions` that can be
  approved fires one principle); the approval theorems cover it. And `Exceptions`
  leaves out the fail-safe that parks without reasons, as said above.

## 7. Plan

1. Done: the modules above, in the order `Graduated`, `AuditChain`,
   `DecisionPipeline`, `KillSwitch`, `Approvals`, `Enforcement`, `AuditVerify`,
   `ResourceStore`, `PipelineMemory`, `IdentityCache`, `ConstitutionCompiler`,
   `Exceptions`, `AgentActions`; the keys and signatures of `AuditVerify`; the
   theorems of section 5, one for each safety property of section 3.
2. Next models: the completeness of decision bodies in the verifier; a reload
   between compilation and evaluation.
3. Abstract specifications worth stating: an atomic approval (pending, then one
   of three terminal states) that `Approvals` implements on a shared loop; an
   abstract PDP (a floor, then a decision no weaker, then a record) that
   `DecisionPipeline` implements.
4. Next proofs: those two refinements; every permutation of a document instead of
   its reverse; for the exceptions, the bound on how long a grant may lift a deny.
