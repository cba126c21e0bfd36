------------------------------ MODULE Approvals ------------------------------
(***************************************************************************)
(* ApprovalStore (controlplane/approvals.py): the parked approvals, the    *)
(* coroutines that poll their rows, the operators that resolve them and    *)
(* the temporary exceptions a resolution grants.  Every operation reads    *)
(* the row, commits, and then appends its events.  On one event loop an    *)
(* operation never gives way between those steps; a resolver in another    *)
(* thread or process may interleave anywhere (module docstring, D3).       *)
(***************************************************************************)
EXTENDS FiniteSets

CONSTANTS
  Requests,    \* the approval requests that may be made
  Resolvers,   \* operators, each with at most one resolution in progress
  Refs,        \* principles
  FiredRefs,   \* FiredRefs[r]: the principles among the reasons parked with r
  SharedLoop   \* do the resolvers run on the event loop of the waiters?

Free == "free"

ASSUME ApprovalsAssumption ==
  /\ FiredRefs \in [Requests -> SUBSET Refs]
  /\ SharedLoop \in BOOLEAN
  /\ Requests \cap Resolvers = {}
  /\ Free \notin Requests \cup Resolvers

VARIABLES
  row,      \* row[r]: status of the approval_requests row of r, or "absent"
  wait,     \* wait[r]: where the wait_resolved of r is
  due,      \* due[r]: its deadline has passed
  verdict,  \* verdict[r]: what it returned, or "none"
  res,      \* res[s]: the resolve in progress of operator s
  grants,   \* the temporary_exceptions rows
  revoked,  \* those of them that were revoked
  events,   \* the lifecycle events on the audit chain
  busy      \* who is inside an operation on the shared loop, or Free

waitVars == <<wait, due, verdict>>
vars == <<row, wait, due, verdict, res, grants, revoked, events, busy>>

Idle == [pc |-> "idle"]
Terminal == {"approved", "denied", "timed_out"}

Event(kind, r, by, about) == [kind |-> kind, req |-> r, by |-> by, about |-> about]
System == "system"

Init ==
  /\ row = [r \in Requests |-> "absent"]
  /\ wait = [r \in Requests |-> "none"]
  /\ due = [r \in Requests |-> FALSE]
  /\ verdict = [r \in Requests |-> "none"]
  /\ res = [s \in Resolvers |-> Idle]
  /\ grants = {}
  /\ revoked = {}
  /\ events = {}
  /\ busy = Free

(* On a shared loop an operation runs to its end before anything else.     *)
MutantTurn(a) == TRUE
Turn(a) == SharedLoop => busy \in {Free, a}
Hold(a) == busy' = IF SharedLoop THEN a ELSE Free
Release == busy' = Free

-----------------------------------------------------------------------------
(* resolve.  A grant needs an approval (ValueError), and only a pending    *)
(* row is resolved (AlreadyResolvedError).                                 *)
MutantResolvable == {"pending", "timed_out"}
Resolvable == {"pending"}

Resolve(s, r, approved, grant) ==
  /\ Turn(s) /\ res[s] = Idle
  /\ row[r] \in Resolvable
  /\ grant => approved
  /\ res' = [res EXCEPT ![s] =
       [pc |-> "checked", req |-> r, to |-> IF approved THEN "approved" ELSE "denied",
        owed |-> IF grant THEN FiredRefs[r] ELSE {}]]
  /\ Hold(s)
  /\ UNCHANGED <<row, waitVars, grants, revoked, events>>

MutantGrantsOf(s) == {[req |-> res[s].req, ref |-> f, by |-> s] : f \in Refs}
GrantsOf(s) == {[req |-> res[s].req, ref |-> f, by |-> s] : f \in res[s].owed}

CommitResolution(s) ==
  /\ Turn(s) /\ res[s].pc = "checked"
  /\ row' = [row EXCEPT ![res[s].req] = res[s].to]
  /\ grants' = grants \cup GrantsOf(s)
  /\ res' = [res EXCEPT ![s] = [res[s] EXCEPT !.pc = "committed"]]
  /\ Hold(s)
  /\ UNCHANGED <<waitVars, revoked, events>>

AuditResolution(s) ==
  /\ Turn(s) /\ res[s].pc = "committed"
  /\ events' = events \cup {Event("approval_resolved", res[s].req, s, res[s].to)}
  /\ IF res[s].owed = {}
     THEN res' = [res EXCEPT ![s] = Idle] /\ Release
     ELSE res' = [res EXCEPT ![s] = [res[s] EXCEPT !.pc = "granting"]] /\ Hold(s)
  /\ UNCHANGED <<row, waitVars, grants, revoked>>

AuditGrant(s) ==
  /\ Turn(s) /\ res[s].pc = "granting"
  /\ \E f \in res[s].owed :
       /\ events' = events \cup {Event("exception_granted", res[s].req, s, f)}
       /\ IF res[s].owed = {f}
          THEN res' = [res EXCEPT ![s] = Idle] /\ Release
          ELSE res' = [res EXCEPT ![s] = [res[s] EXCEPT !.owed = res[s].owed \ {f}]] /\ Hold(s)
  /\ UNCHANGED <<row, waitVars, grants, revoked>>

(* The commit or an append raises, or the resolver's process stops.        *)
ResolveStops(s) ==
  /\ Turn(s) /\ res[s] # Idle
  /\ res' = [res EXCEPT ![s] = Idle]
  /\ Release
  /\ UNCHANGED <<row, waitVars, grants, revoked, events>>

(* revoke: no event is written.                                            *)
Revoke(g) ==
  /\ SharedLoop => busy = Free
  /\ revoked' = revoked \cup {g}
  /\ UNCHANGED <<row, waitVars, res, grants, events, busy>>

-----------------------------------------------------------------------------
(* create by itself: an operator, or any caller of the store, files a      *)
(* request on which nobody waits yet.                                      *)
File(r) ==
  /\ SharedLoop => busy = Free
  /\ row[r] = "absent"
  /\ row' = [row EXCEPT ![r] = "pending"]
  /\ UNCHANGED <<waitVars, res, grants, revoked, events, busy>>

(* create, and wait_resolved up to its first sleep.                        *)
Park(r) ==
  /\ Turn(r) /\ row[r] = "absent"
  /\ row' = [row EXCEPT ![r] = "pending"]
  /\ wait' = [wait EXCEPT ![r] = "polling"]
  /\ Release
  /\ UNCHANGED <<due, verdict, res, grants, revoked, events>>

DeadlinePasses(r) ==
  /\ wait[r] = "polling" /\ ~ due[r]
  /\ due' = [due EXCEPT ![r] = TRUE]
  /\ UNCHANGED <<row, wait, verdict, res, grants, revoked, events, busy>>

WaitReturns(r, v) ==
  /\ wait' = [wait EXCEPT ![r] = "returned"]
  /\ verdict' = [verdict EXCEPT ![r] = v]
  /\ Release
  /\ UNCHANGED due

(* One turn of wait_resolved's loop that finds the row resolved, or finds  *)
(* it pending past the deadline; any other turn sleeps again.              *)
PollResolved(r) ==
  /\ Turn(r) /\ wait[r] = "polling"
  /\ row[r] # "pending"
  /\ WaitReturns(r, row[r])
  /\ UNCHANGED <<row, res, grants, revoked, events>>

MutantDue(r) == FALSE
Due(r) == due[r]
PollDue(r) ==
  /\ Turn(r) /\ wait[r] = "polling"
  /\ row[r] = "pending" /\ Due(r)
  /\ wait' = [wait EXCEPT ![r] = "marking"]
  /\ Hold(r)
  /\ UNCHANGED <<row, due, verdict, res, grants, revoked, events>>

(* _mark_timed_out reads the row again, commits, then appends its event.   *)
MarkReads(r) ==
  /\ Turn(r) /\ wait[r] = "marking"
  /\ IF row[r] = "pending"
     THEN /\ wait' = [wait EXCEPT ![r] = "committing"]
          /\ Hold(r)
          /\ UNCHANGED <<due, verdict>>
     ELSE WaitReturns(r, row[r])
  /\ UNCHANGED <<row, res, grants, revoked, events>>

CommitTimeout(r) ==
  /\ Turn(r) /\ wait[r] = "committing"
  /\ row' = [row EXCEPT ![r] = "timed_out"]
  /\ wait' = [wait EXCEPT ![r] = "auditing"]
  /\ Hold(r)
  /\ UNCHANGED <<due, verdict, res, grants, revoked, events>>

AuditTimeout(r) ==
  /\ Turn(r) /\ wait[r] = "auditing"
  /\ events' = events \cup {Event("approval_timed_out", r, System, "timed_out")}
  /\ WaitReturns(r, "timed_out")
  /\ UNCHANGED <<row, res, grants, revoked>>

(* The waiter raises, is cancelled, or its process stops; the row stays.   *)
(* Whoever has the id of a request may wait on it, a restarted process or  *)
(* the one who filed it, with a deadline of its own.                       *)
Waiting == {"polling", "marking", "committing", "auditing"}
WaitStops(r) ==
  /\ Turn(r) /\ wait[r] \in Waiting
  /\ wait' = [wait EXCEPT ![r] = "lost"]
  /\ Release
  /\ UNCHANGED <<row, due, verdict, res, grants, revoked, events>>

WaitAgain(r) ==
  /\ Turn(r) /\ row[r] # "absent" /\ wait[r] \in {"none", "lost"}
  /\ wait' = [wait EXCEPT ![r] = "polling"]
  /\ due' = [due EXCEPT ![r] = FALSE]
  /\ UNCHANGED <<row, verdict, res, grants, revoked, events, busy>>

ResolverStep(s) ==
  \/ CommitResolution(s)
  \/ AuditResolution(s)
  \/ AuditGrant(s)

WaiterStep(r) ==
  \/ DeadlinePasses(r)
  \/ PollResolved(r)
  \/ PollDue(r)
  \/ MarkReads(r)
  \/ CommitTimeout(r)
  \/ AuditTimeout(r)

OperatorNext ==
  \/ \E s \in Resolvers, r \in Requests, approved, grant \in BOOLEAN :
       Resolve(s, r, approved, grant)
  \/ \E s \in Resolvers : ResolverStep(s) \/ ResolveStops(s)
  \/ \E g \in grants \ revoked : Revoke(g)

WaiterNext == \E r \in Requests : WaiterStep(r) \/ WaitStops(r) \/ WaitAgain(r)

Next == OperatorNext \/ WaiterNext \/ \E r \in Requests : Park(r) \/ File(r)

Spec == Init /\ [][Next]_vars

-----------------------------------------------------------------------------
Grant == [req : Requests, ref : Refs, by : Resolvers]
Resolution == [pc : {"checked", "committed", "granting"}, req : Requests,
               to : {"approved", "denied"}, owed : SUBSET Refs]

(* Of the events, this component's: others append theirs to the chain too. *)
TypeOK ==
  /\ row \in [Requests -> Terminal \cup {"absent", "pending"}]
  /\ wait \in [Requests -> Waiting \cup {"none", "returned", "lost"}]
  /\ due \in [Requests -> BOOLEAN]
  /\ verdict \in [Requests -> Terminal \cup {"none"}]
  /\ DOMAIN res = Resolvers
  /\ \A s \in Resolvers : res[s] = Idle \/ res[s] \in Resolution
  /\ grants \subseteq Grant
  /\ revoked \subseteq grants
  /\ \A e \in events :
       /\ e.kind = "approval_resolved" =>
            e.req \in Requests /\ e.by \in Resolvers /\ e.about \in {"approved", "denied"}
       /\ e.kind = "approval_timed_out" =>
            e.req \in Requests /\ e.by = System /\ e.about = "timed_out"
       /\ e.kind = "exception_granted" =>
            e.req \in Requests /\ e.by \in Resolvers /\ e.about \in Refs
  /\ busy \in Requests \cup Resolvers \cup {Free}

(* "The single status transition": once a row is resolved or timed out, no *)
(* operation moves it again (approvals.py, resolve and _mark_timed_out).   *)
SingleTransition ==
  [][\A r \in Requests : row[r] \in Terminal => row'[r] = row[r]]_vars

(* "A racing resolve wins": an event on the chain that says a request was  *)
(* resolved, or timed out, is still what its row says.                     *)
Decides == {"approval_resolved", "approval_timed_out"}
EventsMatchRows ==
  \A e \in events : e.kind \in Decides => row[e.req] = e.about

(* A temporary exception exists only for a request its row shows approved, *)
(* and only for a principle among the reasons parked with it               *)
(* (approvals.py, resolve: the ONLY way an exception is born).             *)
GrantsRatified ==
  \A g \in grants : row[g.req] = "approved" /\ g.ref \in FiredRefs[g.req]

(* The chain never announces an exception the table does not hold, however *)
(* operators, waiters and failures interleave (approvals.py, resolve).     *)
AnnouncedGrantsExist ==
  \A e \in events : e.kind = "exception_granted" =>
    [req |-> e.req, ref |-> e.about, by |-> e.by] \in grants

(* What a waiter was told is what the row says (approvals.py,              *)
(* wait_resolved), so no two readers act on different answers.             *)
VerdictMatchesRow ==
  \A r \in Requests : wait[r] = "returned" => row[r] = verdict[r]
=============================================================================
