-------------------------- MODULE ExceptionsProofs ---------------------------
(***************************************************************************)
(* For any requests, operators and principles: the tables, events and      *)
(* verdicts of the approval store are well typed and announce no exception *)
(* the table lacks, in either deployment; and on one event loop a request  *)
(* makes a single transition, with which everything else agrees.  There,   *)
(* for any calls and constitutions: an operation runs only as the table    *)
(* says and after everything it owes is on the chain; one on which a       *)
(* principle denied runs only with an exception ratified for it; and no    *)
(* governed call lifts a deny of its own.                                  *)
(***************************************************************************)
EXTENDS Exceptions, TLAPS

-----------------------------------------------------------------------------
(* The approval store alone.                                               *)

Deciding(s) == res[s].pc \in {"checked", "committed", "granting"}
Written(s) == res[s].pc \in {"committed", "granting"}

(* In either deployment: whoever waits has a row, and the exceptions a     *)
(* resolution still has to announce are in the table.                      *)
ParkedHaveRows == \A r \in Requests : wait[r] # "none" => row[r] # "absent"
OwedGranted == \A s \in Resolvers : Written(s) => GrantsOf(s) \subseteq grants

StoreInv == TypeOK /\ ParkedHaveRows /\ OwedGranted /\ AnnouncedGrantsExist

LEMMA ResTypes ==
  ASSUME TypeOK, NEW s \in Resolvers
  PROVE  /\ res[s] # Idle <=> Deciding(s)
         /\ Deciding(s) => res[s] \in Resolution
BY DEF TypeOK, Resolution, Idle, Deciding

LEMMA InitStore == Init => StoreInv
BY DEF Init, StoreInv, TypeOK, ParkedHaveRows, OwedGranted, AnnouncedGrantsExist,
       Idle, Written, Free, Terminal, Waiting

LEMMA ResolveStore ==
  ASSUME StoreInv, NEW s \in Resolvers, NEW r \in Requests, NEW approved \in BOOLEAN,
         NEW grant \in BOOLEAN, Resolve(s, r, approved, grant)
  PROVE  StoreInv'
<1> DEFINE to == [pc |-> "checked", req |-> r, to |-> IF approved THEN "approved" ELSE "denied",
                  owed |-> IF grant THEN FiredRefs[r] ELSE {}]
<1>1. /\ res' = [res EXCEPT ![s] = to]
      /\ UNCHANGED <<row, wait, due, verdict, grants, revoked, events>>
      /\ busy' \in {s, Free}
  BY DEF Resolve, waitVars, Hold
<1>2. to \in Resolution /\ to.pc = "checked"
  BY ApprovalsAssumption DEF Resolution
<1>3. DOMAIN res' = Resolvers /\ res'[s] = to /\ \A t \in Resolvers : t # s => res'[t] = res[t]
  BY <1>1 DEF StoreInv, TypeOK
<1>4. TypeOK'
  BY <1>1, <1>2, <1>3 DEF StoreInv, TypeOK
<1>5. OwedGranted'
  BY <1>1, <1>2, <1>3 DEF StoreInv, OwedGranted, Written, GrantsOf
<1> QED
  BY <1>1, <1>4, <1>5 DEF StoreInv, ParkedHaveRows, AnnouncedGrantsExist

LEMMA CommitResolutionStore ==
  ASSUME StoreInv, NEW s \in Resolvers, CommitResolution(s)
  PROVE  StoreInv'
<1> DEFINE q == res[s].req
           to == [res[s] EXCEPT !.pc = "committed"]
<1>1. /\ res[s].pc = "checked" /\ busy' \in {s, Free}
      /\ row' = [row EXCEPT ![q] = res[s].to]
      /\ grants' = grants \cup GrantsOf(s)
      /\ res' = [res EXCEPT ![s] = to]
      /\ UNCHANGED <<wait, due, verdict, revoked, events>>
  BY DEF CommitResolution, waitVars, Hold
<1>2. res[s] \in Resolution
  BY <1>1, ResTypes DEF StoreInv, Deciding
<1>3. /\ to \in Resolution /\ to.pc = "committed"
      /\ to.req = res[s].req /\ to.owed = res[s].owed
  BY <1>2 DEF Resolution
<1>4. DOMAIN res' = Resolvers /\ res'[s] = to /\ \A t \in Resolvers : t # s => res'[t] = res[t]
  BY <1>1 DEF StoreInv, TypeOK
<1>5. GrantsOf(s) \subseteq Grant
  BY <1>2 DEF GrantsOf, Grant, Resolution
<1>6. TypeOK'
  BY <1>1, <1>2, <1>3, <1>4, <1>5 DEF StoreInv, TypeOK, Resolution, Terminal
<1>7. ParkedHaveRows'
  BY <1>1, <1>2 DEF StoreInv, TypeOK, ParkedHaveRows, Resolution
<1>8. OwedGranted'
  <2>1. GrantsOf(s)' = GrantsOf(s)
    BY <1>3, <1>4 DEF GrantsOf
  <2>2. \A t \in Resolvers : t # s => (GrantsOf(t)' = GrantsOf(t) /\ Written(t)' = Written(t))
    BY <1>4 DEF GrantsOf, Written
  <2> QED
    BY <1>1, <2>1, <2>2 DEF StoreInv, OwedGranted
<1> QED
  BY <1>1, <1>6, <1>7, <1>8 DEF StoreInv, AnnouncedGrantsExist

LEMMA AuditResolutionStore ==
  ASSUME StoreInv, NEW s \in Resolvers, AuditResolution(s)
  PROVE  StoreInv'
<1> DEFINE e == Event("approval_resolved", res[s].req, s, res[s].to)
           to == IF res[s].owed = {} THEN Idle ELSE [res[s] EXCEPT !.pc = "granting"]
<1>1. /\ res[s].pc = "committed" /\ busy' \in {s, Free}
      /\ events' = events \cup {e}
      /\ res' = [res EXCEPT ![s] = to]
      /\ UNCHANGED <<row, wait, due, verdict, grants, revoked>>
  BY DEF AuditResolution, waitVars, Hold, Release
<1>2. res[s] \in Resolution
  BY <1>1, ResTypes DEF StoreInv, Deciding
<1>3. \/ to = Idle /\ to.pc = "idle"
      \/ /\ to \in Resolution /\ to.pc = "granting"
         /\ to.req = res[s].req /\ to.owed = res[s].owed
  BY <1>2 DEF Resolution, Idle
<1>4. DOMAIN res' = Resolvers /\ res'[s] = to /\ \A t \in Resolvers : t # s => res'[t] = res[t]
  BY <1>1 DEF StoreInv, TypeOK
<1>5. e \in [kind : {"approval_resolved"}, req : Requests, by : Resolvers,
             about : {"approved", "denied"}] /\ e.kind # "exception_granted"
  BY <1>2 DEF Event, Resolution
<1>6. TypeOK'
  <2>1. \A t \in Resolvers : res'[t] = Idle \/ res'[t] \in Resolution
    BY <1>3, <1>4 DEF StoreInv, TypeOK
  <2> QED
    BY <1>1, <1>4, <1>5, <2>1 DEF StoreInv, TypeOK
<1>7. OwedGranted'
  <2>1. Written(s)' => GrantsOf(s)' = GrantsOf(s) /\ Written(s)
    BY <1>1, <1>3, <1>4 DEF GrantsOf, Written
  <2>2. \A t \in Resolvers : t # s => (GrantsOf(t)' = GrantsOf(t) /\ Written(t)' = Written(t))
    BY <1>4 DEF GrantsOf, Written
  <2> QED
    BY <1>1, <2>1, <2>2 DEF StoreInv, OwedGranted
<1> QED
  BY <1>1, <1>5, <1>6, <1>7 DEF StoreInv, ParkedHaveRows, AnnouncedGrantsExist

LEMMA AuditGrantStore ==
  ASSUME StoreInv, NEW s \in Resolvers, AuditGrant(s)
  PROVE  StoreInv'
<1>1. /\ res[s].pc = "granting" /\ busy' \in {s, Free}
      /\ UNCHANGED <<row, wait, due, verdict, grants, revoked>>
  BY DEF AuditGrant, waitVars, Hold, Release
<1>2. res[s] \in Resolution
  BY <1>1, ResTypes DEF StoreInv, Deciding
<1>3. PICK f \in res[s].owed :
        /\ events' = events \cup {Event("exception_granted", res[s].req, s, f)}
        /\ res' = [res EXCEPT ![s] = IF res[s].owed = {f} THEN Idle
                                     ELSE [res[s] EXCEPT !.owed = res[s].owed \ {f}]]
  BY DEF AuditGrant
<1> DEFINE e == Event("exception_granted", res[s].req, s, f)
           to == IF res[s].owed = {f} THEN Idle ELSE [res[s] EXCEPT !.owed = res[s].owed \ {f}]
<1>4. \/ to = Idle /\ to.pc = "idle"
      \/ /\ to \in Resolution /\ to.req = res[s].req /\ to.owed \subseteq res[s].owed
  BY <1>2 DEF Resolution, Idle
<1>5. DOMAIN res' = Resolvers /\ res'[s] = to /\ \A t \in Resolvers : t # s => res'[t] = res[t]
  BY <1>3 DEF StoreInv, TypeOK
<1>6. e \in [kind : {"exception_granted"}, req : Requests, by : Resolvers, about : Refs]
      /\ e.req = res[s].req /\ e.about = f /\ e.by = s
  BY <1>2 DEF Event, Resolution
<1>7. [req |-> res[s].req, ref |-> f, by |-> s] \in grants
  BY <1>1 DEF StoreInv, OwedGranted, Written, GrantsOf
<1>8. TypeOK'
  <2>1. \A t \in Resolvers : res'[t] = Idle \/ res'[t] \in Resolution
    BY <1>4, <1>5 DEF StoreInv, TypeOK
  <2> QED
    BY <1>1, <1>3, <1>5, <1>6, <2>1 DEF StoreInv, TypeOK
<1>9. OwedGranted'
  <2>1. Written(s)' => GrantsOf(s)' \subseteq GrantsOf(s) /\ Written(s)
    BY <1>1, <1>4, <1>5 DEF GrantsOf, Written
  <2>2. \A t \in Resolvers : t # s => (GrantsOf(t)' = GrantsOf(t) /\ Written(t)' = Written(t))
    BY <1>5 DEF GrantsOf, Written
  <2> QED
    BY <1>1, <2>1, <2>2 DEF StoreInv, OwedGranted
<1> QED
  BY <1>1, <1>3, <1>6, <1>7, <1>8, <1>9 DEF StoreInv, ParkedHaveRows, AnnouncedGrantsExist

LEMMA ResolveStopsStore ==
  ASSUME StoreInv, NEW s \in Resolvers, ResolveStops(s)
  PROVE  StoreInv'
<1>1. /\ res' = [res EXCEPT ![s] = Idle] /\ busy' = Free
      /\ UNCHANGED <<row, wait, due, verdict, grants, revoked, events>>
  BY DEF ResolveStops, waitVars, Release
<1>2. DOMAIN res' = Resolvers /\ res'[s] = Idle /\ \A t \in Resolvers : t # s => res'[t] = res[t]
  BY <1>1 DEF StoreInv, TypeOK
<1>3. TypeOK'
  BY <1>1, <1>2 DEF StoreInv, TypeOK
<1>4. OwedGranted'
  <2>1. ~ Written(s)'
    BY <1>2 DEF Written, Idle
  <2>2. \A t \in Resolvers : t # s => (GrantsOf(t)' = GrantsOf(t) /\ Written(t)' = Written(t))
    BY <1>2 DEF GrantsOf, Written
  <2> QED
    BY <1>1, <2>1, <2>2 DEF StoreInv, OwedGranted
<1> QED
  BY <1>1, <1>3, <1>4 DEF StoreInv, ParkedHaveRows, AnnouncedGrantsExist

LEMMA RevokeStore ==
  ASSUME StoreInv, NEW g \in grants \ revoked, Revoke(g)
  PROVE  StoreInv'
<1>1. revoked' = revoked \cup {g} /\ UNCHANGED <<row, wait, due, verdict, res, grants, events, busy>>
  BY DEF Revoke, waitVars
<1>2. TypeOK'
  BY <1>1 DEF StoreInv, TypeOK
<1>3. OwedGranted'
  BY <1>1 DEF StoreInv, OwedGranted, Written, GrantsOf
<1> QED
  BY <1>1, <1>2, <1>3 DEF StoreInv, ParkedHaveRows, AnnouncedGrantsExist

(* A step of a waiter leaves the resolutions and the exceptions alone, and *)
(* announces none.                                                         *)
LEMMA WaiterKeepsGrants ==
  ASSUME StoreInv, UNCHANGED <<res, grants, revoked>>,
         \A e \in events' \ events : e.kind # "exception_granted"
  PROVE  OwedGranted' /\ AnnouncedGrantsExist'
<1>1. OwedGranted'
  BY DEF StoreInv, OwedGranted, Written, GrantsOf
<1> QED
  BY <1>1 DEF StoreInv, AnnouncedGrantsExist

LEMMA ParkStore ==
  ASSUME StoreInv, NEW r \in Requests, Park(r)
  PROVE  StoreInv'
<1>1. /\ row' = [row EXCEPT ![r] = "pending"] /\ wait' = [wait EXCEPT ![r] = "polling"]
      /\ busy' = Free /\ UNCHANGED <<due, verdict, res, grants, revoked, events>>
  BY DEF Park, Release
<1>2. TypeOK' /\ ParkedHaveRows'
  BY <1>1 DEF StoreInv, TypeOK, ParkedHaveRows, Waiting, Terminal
<1> QED
  BY <1>1, <1>2, WaiterKeepsGrants DEF StoreInv

LEMMA FileStore ==
  ASSUME StoreInv, NEW r \in Requests, File(r)
  PROVE  StoreInv'
<1>1. /\ row' = [row EXCEPT ![r] = "pending"]
      /\ UNCHANGED <<wait, due, verdict, res, grants, revoked, events, busy>>
  BY DEF File, waitVars
<1>2. TypeOK' /\ ParkedHaveRows'
  BY <1>1 DEF StoreInv, TypeOK, ParkedHaveRows, Terminal
<1> QED
  BY <1>1, <1>2, WaiterKeepsGrants DEF StoreInv

LEMMA DeadlinePassesStore ==
  ASSUME StoreInv, NEW r \in Requests, DeadlinePasses(r)
  PROVE  StoreInv'
<1>1. due' = [due EXCEPT ![r] = TRUE]
      /\ UNCHANGED <<row, wait, verdict, res, grants, revoked, events, busy>>
  BY DEF DeadlinePasses
<1>2. TypeOK' /\ ParkedHaveRows'
  BY <1>1 DEF StoreInv, TypeOK, ParkedHaveRows
<1> QED
  BY <1>1, <1>2, WaiterKeepsGrants DEF StoreInv

LEMMA PollResolvedStore ==
  ASSUME StoreInv, NEW r \in Requests, PollResolved(r)
  PROVE  StoreInv'
<1>1. /\ wait[r] = "polling" /\ row[r] # "pending"
      /\ wait' = [wait EXCEPT ![r] = "returned"] /\ verdict' = [verdict EXCEPT ![r] = row[r]]
      /\ busy' = Free /\ UNCHANGED <<row, due, res, grants, revoked, events>>
  BY DEF PollResolved, WaitReturns, Release
<1>2. row[r] \in Terminal
  BY <1>1 DEF StoreInv, TypeOK, ParkedHaveRows
<1>3. TypeOK' /\ ParkedHaveRows'
  BY <1>1, <1>2 DEF StoreInv, TypeOK, ParkedHaveRows
<1> QED
  BY <1>1, <1>3, WaiterKeepsGrants DEF StoreInv

LEMMA PollDueStore ==
  ASSUME StoreInv, NEW r \in Requests, PollDue(r)
  PROVE  StoreInv'
<1>1. /\ wait[r] = "polling" /\ wait' = [wait EXCEPT ![r] = "marking"]
      /\ busy' \in {r, Free} /\ UNCHANGED <<row, due, verdict, res, grants, revoked, events>>
  BY DEF PollDue, Hold
<1>2. /\ wait' \in [Requests -> Waiting \cup {"none", "returned", "lost"}]
      /\ due' \in [Requests -> BOOLEAN]
  <2>1. wait \in [Requests -> Waiting \cup {"none", "returned", "lost"}] /\ due \in [Requests -> BOOLEAN]
    BY DEF StoreInv, TypeOK
  <2> QED
    BY <1>1, <2>1 DEF Waiting
<1>3. TypeOK'
  BY <1>1, <1>2 DEF StoreInv, TypeOK
<1>4. ParkedHaveRows'
  BY <1>1 DEF StoreInv, TypeOK, ParkedHaveRows
<1> QED
  BY <1>1, <1>3, <1>4, WaiterKeepsGrants DEF StoreInv

LEMMA MarkReadsStore ==
  ASSUME StoreInv, NEW r \in Requests, MarkReads(r)
  PROVE  StoreInv'
<1>1. /\ wait[r] = "marking" /\ busy' \in {r, Free}
      /\ UNCHANGED <<row, due, res, grants, revoked, events>>
  BY DEF MarkReads, WaitReturns, Hold, Release
<1>2. \/ wait' = [wait EXCEPT ![r] = "committing"] /\ verdict' = verdict
      \/ /\ row[r] # "pending"
         /\ wait' = [wait EXCEPT ![r] = "returned"]
         /\ verdict' = [verdict EXCEPT ![r] = row[r]]
  BY DEF MarkReads, WaitReturns
<1>3. row[r] # "pending" => row[r] \in Terminal
  BY <1>1 DEF StoreInv, TypeOK, ParkedHaveRows
<1>4. TypeOK' /\ ParkedHaveRows'
  BY <1>1, <1>2, <1>3 DEF StoreInv, TypeOK, ParkedHaveRows, Waiting
<1> QED
  BY <1>1, <1>4, WaiterKeepsGrants DEF StoreInv

LEMMA CommitTimeoutStore ==
  ASSUME StoreInv, NEW r \in Requests, CommitTimeout(r)
  PROVE  StoreInv'
<1>1. /\ row' = [row EXCEPT ![r] = "timed_out"] /\ wait' = [wait EXCEPT ![r] = "auditing"]
      /\ busy' \in {r, Free} /\ UNCHANGED <<due, verdict, res, grants, revoked, events>>
  BY DEF CommitTimeout, Hold
<1>2. TypeOK' /\ ParkedHaveRows'
  BY <1>1 DEF StoreInv, TypeOK, ParkedHaveRows, Waiting, Terminal
<1> QED
  BY <1>1, <1>2, WaiterKeepsGrants DEF StoreInv

LEMMA AuditTimeoutStore ==
  ASSUME StoreInv, NEW r \in Requests, AuditTimeout(r)
  PROVE  StoreInv'
<1> DEFINE e == Event("approval_timed_out", r, System, "timed_out")
<1>1. /\ wait[r] = "auditing" /\ events' = events \cup {e}
      /\ wait' = [wait EXCEPT ![r] = "returned"] /\ verdict' = [verdict EXCEPT ![r] = "timed_out"]
      /\ busy' = Free /\ UNCHANGED <<row, due, res, grants, revoked>>
  BY DEF AuditTimeout, WaitReturns, Release
<1>2. /\ e.kind # "exception_granted"
      /\ e \in [kind : {"approval_timed_out"}, req : Requests, by : {System},
                about : {"timed_out"}]
  BY DEF Event
<1>3. TypeOK'
  BY <1>1, <1>2 DEF StoreInv, TypeOK, Terminal
<1>4. ParkedHaveRows'
  BY <1>1 DEF StoreInv, TypeOK, ParkedHaveRows
<1> QED
  BY <1>1, <1>2, <1>3, <1>4, WaiterKeepsGrants DEF StoreInv

LEMMA WaitStopsStore ==
  ASSUME StoreInv, NEW r \in Requests, WaitStops(r) \/ WaitAgain(r)
  PROVE  StoreInv'
<1>1. /\ wait[r] # "none" \/ row[r] # "absent"
      /\ busy' \in {busy, Free}
      /\ \E w \in {"lost", "polling"} : wait' = [wait EXCEPT ![r] = w]
      /\ due' = due \/ due' = [due EXCEPT ![r] = FALSE]
      /\ UNCHANGED <<row, verdict, res, grants, revoked, events>>
  BY DEF WaitStops, WaitAgain, Release, Waiting
<1>2. /\ wait' \in [Requests -> Waiting \cup {"none", "returned", "lost"}]
      /\ due' \in [Requests -> BOOLEAN]
  <2>1. wait \in [Requests -> Waiting \cup {"none", "returned", "lost"}] /\ due \in [Requests -> BOOLEAN]
    BY DEF StoreInv, TypeOK
  <2> QED
    BY <1>1, <2>1 DEF Waiting
<1>3. TypeOK'
  BY <1>1, <1>2 DEF StoreInv, TypeOK
<1>4. ParkedHaveRows'
  BY <1>1 DEF StoreInv, TypeOK, ParkedHaveRows
<1> QED
  BY <1>1, <1>3, <1>4, WaiterKeepsGrants DEF StoreInv

LEMMA NextStore == StoreInv /\ [Next]_vars => StoreInv'
<1> SUFFICES ASSUME StoreInv, [Next]_vars PROVE StoreInv'
  OBVIOUS
<1>1. CASE UNCHANGED vars
  BY <1>1 DEF vars, waitVars, StoreInv, TypeOK, ParkedHaveRows, OwedGranted, Written,
     GrantsOf, AnnouncedGrantsExist
<1>2. CASE OperatorNext
  BY <1>2, ResolveStore, CommitResolutionStore, AuditResolutionStore, AuditGrantStore,
     ResolveStopsStore, RevokeStore DEF OperatorNext, ResolverStep
<1>3. CASE WaiterNext
  BY <1>3, DeadlinePassesStore, PollResolvedStore, PollDueStore, MarkReadsStore,
     CommitTimeoutStore, AuditTimeoutStore, WaitStopsStore DEF WaiterNext, WaiterStep
<1>4. CASE \E r \in Requests : Park(r) \/ File(r)
  BY <1>4, ParkStore, FileStore
<1> QED
  BY <1>1, <1>2, <1>3, <1>4 DEF Next

LEMMA AlwaysStore == Spec => []StoreInv
BY InitStore, NextStore, PTL DEF Spec

-----------------------------------------------------------------------------
(* What either deployment guarantees.                                      *)

(* The rows, waiters, resolutions, exceptions and events keep their types: *)
(* a verdict is a terminal status, a revoked exception is one that exists. *)
THEOREM TypeCorrect == Spec => []TypeOK
BY AlwaysStore, PTL DEF StoreInv

(* Whatever threads or processes resolve, and wherever an operation stops, *)
(* the chain announces only exceptions the table holds (resolve commits    *)
(* the exception rows before it appends exception_granted).                *)
THEOREM AnnouncedGrantsAlwaysExist == Spec => []AnnouncedGrantsExist
BY AlwaysStore, PTL DEF StoreInv

-----------------------------------------------------------------------------
(* On one event loop: whoever is between two steps of an operation holds   *)
(* the loop, what it read still holds, and all that was ever announced,    *)
(* granted or returned agrees with the rows.                               *)
Inside == {"marking", "committing", "auditing"}

OneInside ==
  /\ \A s \in Resolvers : res[s] # Idle => busy = s
  /\ \A r \in Requests : wait[r] \in Inside => busy = r

ResolutionFits ==
  \A s \in Resolvers : Deciding(s) =>
    /\ row[res[s].req] = IF res[s].pc = "checked" THEN "pending" ELSE res[s].to
    /\ res[s].owed \subseteq FiredRefs[res[s].req]
    /\ res[s].owed # {} => res[s].to = "approved"

TimeoutFits ==
  \A r \in Requests :
    /\ wait[r] = "committing" => row[r] = "pending"
    /\ wait[r] = "auditing" => row[r] = "timed_out"

Agreement == EventsMatchRows /\ GrantsRatified /\ VerdictMatchesRow

LoopInv == StoreInv /\ OneInside /\ ResolutionFits /\ TimeoutFits /\ Agreement

TerminalKept == \A r \in Requests : row[r] \in Terminal => row'[r] = row[r]

LEMMA InitLoop == Init => LoopInv
BY InitStore DEF Init, LoopInv, OneInside, ResolutionFits, TimeoutFits, Agreement,
   EventsMatchRows, GrantsRatified, VerdictMatchesRow, Idle, Deciding, Inside

(* Who takes a turn on the loop is alone inside an operation.              *)
LEMMA AloneOnLoop ==
  ASSUME SharedLoop, LoopInv, NEW a \in Requests \cup Resolvers, Turn(a)
  PROVE  /\ \A t \in Resolvers : t # a => res[t] = Idle /\ ~ Deciding(t)
         /\ \A q \in Requests : q # a => wait[q] \notin Inside
<1>1. busy \in {Free, a} /\ Free \notin Requests \cup Resolvers
  BY ApprovalsAssumption DEF Turn
<1>2. \A t \in Resolvers : t # a => res[t] = Idle
  BY <1>1 DEF LoopInv, OneInside
<1>3. \A q \in Requests : q # a => wait[q] \notin Inside
  BY <1>1 DEF LoopInv, OneInside
<1> QED
  BY <1>2, <1>3, ResTypes DEF LoopInv, StoreInv

(* Agreement survives a step that moves no settled row and adds only       *)
(* events, exceptions and verdicts that fit the rows it leaves.            *)
LEMMA AgreementKept ==
  ASSUME LoopInv, StoreInv', TerminalKept,
         \A e \in events' \ events : e.kind \in Decides => row'[e.req] = e.about,
         \A g \in grants' \ grants : row'[g.req] = "approved" /\ g.ref \in FiredRefs[g.req],
         \A r \in Requests : wait'[r] = "returned" =>
           (wait[r] = "returned" /\ verdict'[r] = verdict[r]) \/ row'[r] = verdict'[r]
  PROVE  Agreement'
<1>1. EventsMatchRows'
  <2> SUFFICES ASSUME NEW e \in events, e.kind \in Decides PROVE row'[e.req] = e.about
    BY DEF EventsMatchRows
  <2>1. e.req \in Requests /\ e.about \in Terminal
    BY DEF LoopInv, StoreInv, TypeOK, Decides, Terminal
  <2> QED
    BY <2>1 DEF LoopInv, Agreement, EventsMatchRows, TerminalKept
<1>2. GrantsRatified'
  BY DEF LoopInv, StoreInv, TypeOK, Grant, Agreement, GrantsRatified, TerminalKept, Terminal
<1>3. VerdictMatchesRow'
  BY DEF LoopInv, StoreInv, TypeOK, Agreement, VerdictMatchesRow, TerminalKept
<1> QED
  BY <1>1, <1>2, <1>3 DEF Agreement

LEMMA ResolveLoop ==
  ASSUME SharedLoop, LoopInv, StoreInv', NEW s \in Resolvers, NEW r \in Requests,
         NEW approved \in BOOLEAN, NEW grant \in BOOLEAN, Resolve(s, r, approved, grant)
  PROVE  LoopInv' /\ TerminalKept
<1> DEFINE to == [pc |-> "checked", req |-> r, to |-> IF approved THEN "approved" ELSE "denied",
                  owed |-> IF grant THEN FiredRefs[r] ELSE {}]
<1>1. /\ Turn(s) /\ row[r] = "pending" /\ (grant => approved)
      /\ res' = [res EXCEPT ![s] = to] /\ busy' = s
      /\ UNCHANGED <<row, wait, due, verdict, grants, revoked, events>>
  BY DEF Resolve, Resolvable, waitVars, Hold
<1>2. DOMAIN res' = Resolvers /\ res'[s] = to /\ \A t \in Resolvers : t # s => res'[t] = res[t]
  BY <1>1 DEF LoopInv, StoreInv, TypeOK
<1>3. OneInside'
  BY <1>1, <1>2, AloneOnLoop, ApprovalsAssumption DEF OneInside
<1>4. ResolutionFits'
  <2>1. \A t \in Resolvers : t # s => ~ Deciding(t)'
    BY <1>1, <1>2, AloneOnLoop DEF Deciding
  <2>2. /\ to.pc = "checked" /\ to.req = r /\ to.owed \subseteq FiredRefs[r]
        /\ to.owed # {} => to.to = "approved"
    BY <1>1
  <2> QED
    BY <1>1, <1>2, <2>1, <2>2 DEF ResolutionFits
<1>5. TimeoutFits'
  BY <1>1 DEF LoopInv, TimeoutFits
<1>6. TerminalKept
  BY <1>1 DEF TerminalKept
<1>7. Agreement'
  BY <1>1, <1>6, AgreementKept
<1> QED
  BY <1>3, <1>4, <1>5, <1>6, <1>7 DEF LoopInv

LEMMA CommitResolutionLoop ==
  ASSUME SharedLoop, LoopInv, StoreInv', NEW s \in Resolvers, CommitResolution(s)
  PROVE  LoopInv' /\ TerminalKept
<1> DEFINE q == res[s].req
           to == [res[s] EXCEPT !.pc = "committed"]
<1>1. /\ Turn(s) /\ res[s].pc = "checked" /\ busy' = s
      /\ row' = [row EXCEPT ![q] = res[s].to]
      /\ grants' = grants \cup GrantsOf(s)
      /\ res' = [res EXCEPT ![s] = to]
      /\ UNCHANGED <<wait, due, verdict, revoked, events>>
  BY DEF CommitResolution, waitVars, Hold
<1>2. Deciding(s) /\ res[s] \in Resolution
  BY <1>1, ResTypes DEF LoopInv, StoreInv, Deciding
<1>3. /\ to.pc = "committed" /\ to.req = q /\ to.owed = res[s].owed /\ to.to = res[s].to
  BY <1>2 DEF Resolution
<1>4. DOMAIN res' = Resolvers /\ res'[s] = to /\ \A t \in Resolvers : t # s => res'[t] = res[t]
  BY <1>1 DEF LoopInv, StoreInv, TypeOK
<1>5. /\ q \in Requests /\ row[q] = "pending"
      /\ row'[q] = res[s].to /\ \A r \in Requests : r # q => row'[r] = row[r]
  BY <1>1, <1>2 DEF LoopInv, StoreInv, TypeOK, ResolutionFits, Resolution
<1>6. TerminalKept
  BY <1>5 DEF TerminalKept, Terminal
<1>7. OneInside'
  BY <1>1, <1>4, AloneOnLoop, ApprovalsAssumption DEF OneInside
<1>8. ResolutionFits'
  <2>1. \A t \in Resolvers : t # s => ~ Deciding(t)'
    BY <1>1, <1>4, AloneOnLoop DEF Deciding
  <2>2. /\ res[s].owed \subseteq FiredRefs[q]
        /\ res[s].owed # {} => res[s].to = "approved"
    BY <1>2 DEF LoopInv, ResolutionFits
  <2>3. row'[to.req] = to.to /\ to.owed \subseteq FiredRefs[to.req]
        /\ (to.owed # {} => to.to = "approved")
    BY <1>3, <1>5, <2>2
  <2> QED
    BY <1>3, <1>4, <2>1, <2>3 DEF ResolutionFits
<1>9. TimeoutFits'
  BY <1>1, AloneOnLoop, ApprovalsAssumption DEF TimeoutFits, Inside
<1>10. \A g \in GrantsOf(s) : row'[g.req] = "approved" /\ g.ref \in FiredRefs[g.req]
  BY <1>2, <1>5 DEF GrantsOf, LoopInv, ResolutionFits
<1>11. Agreement'
  BY <1>1, <1>6, <1>10, AgreementKept
<1> QED
  BY <1>6, <1>7, <1>8, <1>9, <1>11 DEF LoopInv

(* A resolver's step that changes neither a row nor the exceptions, leaves *)
(* its own resolution shorter or ended, and releases the loop if ended.    *)
LEMMA ResolverTail ==
  ASSUME SharedLoop, LoopInv, StoreInv', NEW s \in Resolvers, Turn(s), NEW to,
         res' = [res EXCEPT ![s] = to],
         \/ to = Idle /\ busy' = Free
         \/ /\ Deciding(s) /\ busy' = s /\ to \in Resolution
            /\ to.req = res[s].req /\ to.to = res[s].to /\ to.owed \subseteq res[s].owed
            /\ res[s].pc # "checked" /\ to.pc # "checked",
         \A e \in events' \ events : e.kind \in Decides => row[e.req] = e.about,
         UNCHANGED <<row, wait, due, verdict, grants>>
  PROVE  LoopInv' /\ TerminalKept
<1>1. DOMAIN res' = Resolvers /\ res'[s] = to /\ \A t \in Resolvers : t # s => res'[t] = res[t]
  BY DEF LoopInv, StoreInv, TypeOK
<1>2. OneInside'
  BY <1>1, AloneOnLoop, ApprovalsAssumption DEF OneInside
<1>3. ResolutionFits'
  <2>1. \A t \in Resolvers : t # s => ~ Deciding(t)'
    BY <1>1, AloneOnLoop DEF Deciding
  <2>2. CASE to = Idle
    <3>1. ~ Deciding(s)'
      BY <1>1, <2>2 DEF Deciding, Idle
    <3> QED
      BY <2>1, <3>1 DEF ResolutionFits
  <2>3. CASE to # Idle
    BY <1>1, <2>1, <2>3 DEF LoopInv, ResolutionFits
  <2> QED
    BY <2>2, <2>3
<1>4. TimeoutFits'
  BY DEF LoopInv, TimeoutFits
<1>5. TerminalKept
  BY DEF TerminalKept
<1>6. Agreement'
  BY <1>5, AgreementKept
<1> QED
  BY <1>2, <1>3, <1>4, <1>5, <1>6 DEF LoopInv

LEMMA AuditResolutionLoop ==
  ASSUME SharedLoop, LoopInv, StoreInv', NEW s \in Resolvers, AuditResolution(s)
  PROVE  LoopInv' /\ TerminalKept
<1> DEFINE e == Event("approval_resolved", res[s].req, s, res[s].to)
           to == IF res[s].owed = {} THEN Idle ELSE [res[s] EXCEPT !.pc = "granting"]
<1>1. /\ Turn(s) /\ res[s].pc = "committed"
      /\ busy' = IF res[s].owed = {} THEN Free ELSE s
      /\ events' = events \cup {e}
      /\ res' = [res EXCEPT ![s] = to]
      /\ UNCHANGED <<row, wait, due, verdict, grants>>
  BY DEF AuditResolution, waitVars, Hold, Release
<1>2. Deciding(s) /\ res[s] \in Resolution
  BY <1>1, ResTypes DEF LoopInv, StoreInv, Deciding
<1>3. \/ to = Idle /\ busy' = Free
      \/ /\ busy' = s /\ to \in Resolution /\ to.pc = "granting"
         /\ to.req = res[s].req /\ to.to = res[s].to /\ to.owed = res[s].owed
  BY <1>1, <1>2 DEF Resolution
<1>4. row[e.req] = e.about
  BY <1>1, <1>2 DEF LoopInv, ResolutionFits, Event
<1> HIDE DEF to, e
<1> QED
  BY <1>1, <1>2, <1>3, <1>4, ResolverTail

LEMMA AuditGrantLoop ==
  ASSUME SharedLoop, LoopInv, StoreInv', NEW s \in Resolvers, AuditGrant(s)
  PROVE  LoopInv' /\ TerminalKept
<1>1. /\ Turn(s) /\ res[s].pc = "granting"
      /\ UNCHANGED <<row, wait, due, verdict, grants>>
  BY DEF AuditGrant, waitVars
<1>2. Deciding(s) /\ res[s] \in Resolution
  BY <1>1, ResTypes DEF LoopInv, StoreInv, Deciding
<1>3. PICK f \in res[s].owed :
        /\ events' = events \cup {Event("exception_granted", res[s].req, s, f)}
        /\ res' = [res EXCEPT ![s] = IF res[s].owed = {f} THEN Idle
                                     ELSE [res[s] EXCEPT !.owed = res[s].owed \ {f}]]
        /\ busy' = IF res[s].owed = {f} THEN Free ELSE s
  BY DEF AuditGrant, Hold, Release
<1> DEFINE e == Event("exception_granted", res[s].req, s, f)
           to == IF res[s].owed = {f} THEN Idle ELSE [res[s] EXCEPT !.owed = res[s].owed \ {f}]
<1>4. \/ to = Idle /\ busy' = Free
      \/ /\ busy' = s /\ to \in Resolution /\ to.pc = "granting"
         /\ to.req = res[s].req /\ to.to = res[s].to /\ to.owed \subseteq res[s].owed
  BY <1>1, <1>2, <1>3 DEF Resolution
<1>5. e.kind \notin Decides
  BY DEF Event, Decides
<1> HIDE DEF to, e
<1> QED
  BY <1>1, <1>2, <1>3, <1>4, <1>5, ResolverTail DEF to, e

LEMMA ResolveStopsLoop ==
  ASSUME SharedLoop, LoopInv, StoreInv', NEW s \in Resolvers, ResolveStops(s)
  PROVE  LoopInv' /\ TerminalKept
<1>1. /\ Turn(s) /\ res' = [res EXCEPT ![s] = Idle] /\ busy' = Free
      /\ UNCHANGED <<row, wait, due, verdict, grants, events>>
  BY DEF ResolveStops, waitVars, Release
<1> QED
  BY <1>1, ResolverTail

(* Revoking, and the passing of a deadline, touch nothing of the invariant. *)
LEMMA QuietLoop ==
  ASSUME LoopInv, StoreInv', UNCHANGED <<row, wait, verdict, res, grants, events, busy>>
  PROVE  LoopInv' /\ TerminalKept
<1>1. TerminalKept
  BY DEF TerminalKept
<1>2. Agreement'
  BY <1>1, AgreementKept
<1> QED
  BY <1>1, <1>2 DEF LoopInv, OneInside, ResolutionFits, Deciding, TimeoutFits

(* A waiter's step moves only its own request, and has the resolvers idle. *)
LEMMA WaiterTail ==
  ASSUME SharedLoop, LoopInv, StoreInv', NEW r \in Requests, Turn(r),
         UNCHANGED <<res, grants>>,
         \A q \in Requests : q # r => /\ row'[q] = row[q] /\ wait'[q] = wait[q]
                                      /\ verdict'[q] = verdict[q],
         row[r] \in Terminal => row'[r] = row[r],
         wait'[r] \in Inside => busy' = r,
         wait'[r] = "committing" => row'[r] = "pending",
         wait'[r] = "auditing" => row'[r] = "timed_out",
         wait'[r] = "returned" => row'[r] = verdict'[r],
         \A e \in events' \ events : e.kind \in Decides => row'[e.req] = e.about
  PROVE  LoopInv' /\ TerminalKept
<1>1. TerminalKept
  BY DEF TerminalKept
<1>2. Agreement'
  BY <1>1, AgreementKept
<1>3. \A s \in Resolvers : res[s] = Idle /\ ~ Deciding(s)
  BY AloneOnLoop, ApprovalsAssumption
<1>4. OneInside'
  BY <1>3, AloneOnLoop DEF OneInside
<1>5. ResolutionFits'
  BY <1>3 DEF ResolutionFits, Deciding
<1>6. TimeoutFits'
  BY DEF LoopInv, TimeoutFits
<1> QED
  BY <1>1, <1>2, <1>4, <1>5, <1>6 DEF LoopInv

LEMMA ParkLoop ==
  ASSUME SharedLoop, LoopInv, StoreInv', NEW r \in Requests, Park(r)
  PROVE  LoopInv' /\ TerminalKept
<1>1. /\ Turn(r) /\ row[r] = "absent"
      /\ row' = [row EXCEPT ![r] = "pending"] /\ wait' = [wait EXCEPT ![r] = "polling"]
      /\ UNCHANGED <<verdict, res, grants, events>>
  BY DEF Park
<1>2. wait'[r] = "polling" /\ row[r] \notin Terminal
  BY <1>1 DEF LoopInv, StoreInv, TypeOK, Terminal
<1> QED
  BY <1>1, <1>2, WaiterTail DEF Inside

LEMMA FileLoop ==
  ASSUME SharedLoop, LoopInv, StoreInv', NEW r \in Requests, File(r)
  PROVE  LoopInv' /\ TerminalKept
<1>1. /\ Turn(r) /\ row[r] = "absent"
      /\ row' = [row EXCEPT ![r] = "pending"]
      /\ UNCHANGED <<wait, verdict, res, grants, events>>
  BY DEF File, Turn, waitVars
<1>2. wait'[r] = "none" /\ row[r] \notin Terminal
  BY <1>1 DEF LoopInv, StoreInv, ParkedHaveRows, Terminal
<1>3. \A q \in Requests : q # r => row'[q] = row[q]
  BY <1>1 DEF LoopInv, StoreInv, TypeOK
<1> QED
  BY <1>1, <1>2, <1>3, WaiterTail DEF Inside

LEMMA PollResolvedLoop ==
  ASSUME SharedLoop, LoopInv, StoreInv', NEW r \in Requests, PollResolved(r)
  PROVE  LoopInv' /\ TerminalKept
<1>1. /\ Turn(r) /\ wait' = [wait EXCEPT ![r] = "returned"]
      /\ verdict' = [verdict EXCEPT ![r] = row[r]]
      /\ UNCHANGED <<row, res, grants, events>>
  BY DEF PollResolved, WaitReturns
<1>2. wait'[r] = "returned" /\ verdict'[r] = row[r]
  BY <1>1 DEF LoopInv, StoreInv, TypeOK
<1> QED
  BY <1>1, <1>2, WaiterTail DEF Inside

LEMMA PollDueLoop ==
  ASSUME SharedLoop, LoopInv, StoreInv', NEW r \in Requests, PollDue(r)
  PROVE  LoopInv' /\ TerminalKept
<1>1. /\ Turn(r) /\ wait' = [wait EXCEPT ![r] = "marking"] /\ busy' = r
      /\ UNCHANGED <<row, verdict, res, grants, events>>
  BY DEF PollDue, Hold
<1>2. wait'[r] = "marking"
  BY <1>1 DEF LoopInv, StoreInv, TypeOK
<1> QED
  BY <1>1, <1>2, WaiterTail

LEMMA MarkReadsLoop ==
  ASSUME SharedLoop, LoopInv, StoreInv', NEW r \in Requests, MarkReads(r)
  PROVE  LoopInv' /\ TerminalKept
<1>1. Turn(r) /\ UNCHANGED <<row, res, grants, events>>
  BY DEF MarkReads
<1>2. CASE row[r] = "pending"
  <2>1. wait' = [wait EXCEPT ![r] = "committing"] /\ busy' = r /\ verdict' = verdict
    BY <1>2 DEF MarkReads, Hold
  <2>2. wait'[r] = "committing"
    BY <2>1 DEF LoopInv, StoreInv, TypeOK
  <2> QED
    BY <1>1, <1>2, <2>1, <2>2, WaiterTail
<1>3. CASE row[r] # "pending"
  <2>1. wait' = [wait EXCEPT ![r] = "returned"] /\ verdict' = [verdict EXCEPT ![r] = row[r]]
    BY <1>3 DEF MarkReads, WaitReturns
  <2>2. wait'[r] = "returned" /\ verdict'[r] = row[r]
    BY <2>1 DEF LoopInv, StoreInv, TypeOK
  <2> QED
    BY <1>1, <2>1, <2>2, WaiterTail DEF Inside
<1> QED
  BY <1>2, <1>3

LEMMA CommitTimeoutLoop ==
  ASSUME SharedLoop, LoopInv, StoreInv', NEW r \in Requests, CommitTimeout(r)
  PROVE  LoopInv' /\ TerminalKept
<1>1. /\ Turn(r) /\ wait[r] = "committing" /\ busy' = r
      /\ row' = [row EXCEPT ![r] = "timed_out"] /\ wait' = [wait EXCEPT ![r] = "auditing"]
      /\ UNCHANGED <<verdict, res, grants, events>>
  BY DEF CommitTimeout, Hold
<1>2. wait'[r] = "auditing" /\ row'[r] = "timed_out" /\ row[r] \notin Terminal
  BY <1>1 DEF LoopInv, StoreInv, TypeOK, TimeoutFits, Terminal
<1> QED
  BY <1>1, <1>2, WaiterTail

LEMMA AuditTimeoutLoop ==
  ASSUME SharedLoop, LoopInv, StoreInv', NEW r \in Requests, AuditTimeout(r)
  PROVE  LoopInv' /\ TerminalKept
<1> DEFINE e == Event("approval_timed_out", r, System, "timed_out")
<1>1. /\ Turn(r) /\ wait[r] = "auditing" /\ events' = events \cup {e}
      /\ wait' = [wait EXCEPT ![r] = "returned"]
      /\ verdict' = [verdict EXCEPT ![r] = "timed_out"]
      /\ UNCHANGED <<row, res, grants>>
  BY DEF AuditTimeout, WaitReturns
<1>2. wait'[r] = "returned" /\ verdict'[r] = "timed_out" /\ row[r] = "timed_out"
  BY <1>1 DEF LoopInv, StoreInv, TypeOK, TimeoutFits
<1>3. row[e.req] = e.about
  BY <1>2 DEF Event
<1> HIDE DEF e
<1> QED
  BY <1>1, <1>2, <1>3, WaiterTail DEF Inside

LEMMA WaitStopsLoop ==
  ASSUME SharedLoop, LoopInv, StoreInv', NEW r \in Requests, WaitStops(r) \/ WaitAgain(r)
  PROVE  LoopInv' /\ TerminalKept
<1>1. Turn(r) /\ UNCHANGED <<row, verdict, res, grants, events>>
  BY DEF WaitStops, WaitAgain
<1>2. PICK w \in {"lost", "polling"} : wait' = [wait EXCEPT ![r] = w]
  BY DEF WaitStops, WaitAgain
<1>3. wait'[r] \in {"lost", "polling"}
  BY <1>2 DEF LoopInv, StoreInv, TypeOK
<1> QED
  BY <1>1, <1>2, <1>3, WaiterTail DEF Inside

LEMMA NextLoop == SharedLoop /\ LoopInv /\ [Next]_vars => LoopInv' /\ TerminalKept
<1> SUFFICES ASSUME SharedLoop, LoopInv, [Next]_vars PROVE LoopInv' /\ TerminalKept
  OBVIOUS
<1>1. StoreInv'
  BY NextStore DEF LoopInv
<1>2. CASE UNCHANGED vars
  BY <1>1, <1>2, QuietLoop DEF vars, waitVars
<1>3. CASE OperatorNext
  <2>1. ASSUME NEW g \in grants \ revoked, Revoke(g) PROVE LoopInv' /\ TerminalKept
    BY <1>1, <2>1, QuietLoop DEF Revoke, waitVars
  <2> QED
    BY <1>1, <1>3, <2>1, ResolveLoop, CommitResolutionLoop, AuditResolutionLoop,
       AuditGrantLoop, ResolveStopsLoop DEF OperatorNext, ResolverStep
<1>4. CASE WaiterNext
  <2>1. ASSUME NEW r \in Requests, DeadlinePasses(r) PROVE LoopInv' /\ TerminalKept
    BY <1>1, <2>1, QuietLoop DEF DeadlinePasses
  <2> QED
    BY <1>1, <1>4, <2>1, PollResolvedLoop, PollDueLoop, MarkReadsLoop, CommitTimeoutLoop,
       AuditTimeoutLoop, WaitStopsLoop DEF WaiterNext, WaiterStep
<1>5. CASE \E r \in Requests : Park(r) \/ File(r)
  BY <1>1, <1>5, ParkLoop, FileLoop
<1> QED
  BY <1>2, <1>3, <1>4, <1>5 DEF Next

LEMMA AlwaysLoop == SharedLoop => (Spec => []LoopInv)
<1> SUFFICES ASSUME SharedLoop PROVE Spec => []LoopInv
  OBVIOUS
<1>1. LoopInv /\ [Next]_vars => LoopInv'
  BY NextLoop
<1> QED
  BY InitLoop, <1>1, PTL DEF Spec

(* On one event loop a request makes a single transition: a racing resolve *)
(* and time-out never overwrite one another (resolve, _mark_timed_out).    *)
THEOREM SingleTransitionOnLoop == SharedLoop => (Spec => SingleTransition)
<1> SUFFICES ASSUME SharedLoop PROVE Spec => SingleTransition
  OBVIOUS
<1>1. LoopInv /\ [Next]_vars =>
        [\A r \in Requests : row[r] \in Terminal => row'[r] = row[r]]_vars
  BY NextLoop DEF TerminalKept
<1>2. Spec => []LoopInv
  BY AlwaysLoop
<1> QED
  BY <1>1, <1>2, PTL DEF Spec, SingleTransition

(* On one event loop every announced resolution or time-out is what its    *)
(* row still says (resolve and _mark_timed_out announce after they commit). *)
THEOREM EventsAlwaysMatchRows == SharedLoop => (Spec => []EventsMatchRows)
BY AlwaysLoop, PTL DEF LoopInv, Agreement

(* On one event loop an exception belongs to an approved request and to a  *)
(* principle that was a reason of its parking (resolve).                   *)
THEOREM GrantsAlwaysRatified == SharedLoop => (Spec => []GrantsRatified)
BY AlwaysLoop, PTL DEF LoopInv, Agreement

(* On one event loop no waiter was ever told anything but what the row     *)
(* says (wait_resolved returns the row's status).                          *)
THEOREM VerdictsAlwaysMatchRows == SharedLoop => (Spec => []VerdictMatchesRow)
BY AlwaysLoop, PTL DEF LoopInv, Agreement
-----------------------------------------------------------------------------
(* The calls around the store, and the life of an exception.               *)

Opened(r) == Event("review_opened", r, System, "open")

CallRecord(r) ==
  [pc : Pcs, outcome : Outcome, effects : SUBSET SideEffects[r], review : BOOLEAN]
CallTyped == call = [r \in Requests |-> call[r]] /\ \A r \in Requests : call[r] \in CallRecord(r)

RanFits(r) ==
  \/ call[r].outcome \in Executable
  \/ call[r].outcome # "deny" /\ row[r] = "approved"
  \/ call[r].outcome # "deny" /\ row[r] = "timed_out" /\ r \in OpenClass

(* A call has a row only if it was parked, or filed by hand; what it owes  *)
(* is on the chain by the time it leaves the stage that owes it.           *)
Settled == {"parked", "ran", "denied", "raised", "filed"}
CallFits(r) ==
  /\ row[r] # "absent" => call[r].pc \in Settled /\ call[r].outcome # "deny"
  /\ call[r].pc \in {"reviewing", "enforcing", "parking", "parked", "ran"} =>
       Undispatched(r) = {}
  /\ call[r].pc \in {"enforcing", "parking", "parked", "ran"} /\ call[r].review /\ r \in Wired =>
       Opened(r) \in events
  /\ call[r].pc \in {"parking", "parked", "ran"} /\ call[r].outcome \in SubstitutedToApproval =>
       Substitution(r) \in events
  /\ call[r].pc \in {"parking", "parked"} => call[r].outcome # "deny"
  /\ call[r].pc = "ran" => RanFits(r)

EInv == LoopInv /\ CallTyped /\ \A r \in Requests : CallFits(r)

LEMMA InitCalls == EnforcementInit => EInv
<1> SUFFICES ASSUME EnforcementInit PROVE EInv
  OBVIOUS
<1>1. LoopInv
  BY InitLoop DEF EnforcementInit
<1>2. CallTyped
  BY DEF EnforcementInit, CallTyped, CallRecord, NotCalled, Pcs, Outcome
<1>3. \A r \in Requests : CallFits(r)
  BY DEF EnforcementInit, Init, CallFits, NotCalled, Settled
<1> QED
  BY <1>1, <1>2, <1>3 DEF EInv

-----------------------------------------------------------------------------
(* Steps of the parked rows.                                               *)
Decisive == {"approval_resolved", "approval_timed_out", "exception_granted"}

(* A step of a call whose waiter is at rest touches the loop and appends   *)
(* events of its own kinds; the parked rows do not notice.                 *)
LEMMA CallLeavesRows ==
  ASSUME SharedLoop, LoopInv, NEW r \in Requests, Turn(r), wait[r] \notin Inside,
         UNCHANGED <<row, waitVars, res, grants, revoked>>, busy' \in {r, Free},
         events \subseteq events', \A e \in events' \ events : e.kind \notin Decisive
  PROVE  LoopInv' /\ TerminalKept
<1>1. /\ \A s \in Resolvers : res[s] = Idle
      /\ \A q \in Requests : wait[q] \notin Inside
  BY AloneOnLoop, ApprovalsAssumption
<1>2. StoreInv'
  <2>1. TypeOK'
    BY DEF LoopInv, StoreInv, TypeOK, waitVars, Decisive
  <2>2. ParkedHaveRows' /\ OwedGranted' /\ AnnouncedGrantsExist'
    BY DEF LoopInv, StoreInv, ParkedHaveRows, OwedGranted, Written, GrantsOf, AnnouncedGrantsExist,
           waitVars, Decisive
  <2> QED
    BY <2>1, <2>2 DEF StoreInv
<1>3. TerminalKept
  BY DEF TerminalKept
<1>4. Agreement'
  BY <1>2, <1>3, AgreementKept DEF Decisive, Decides, waitVars
<1>5. OneInside' /\ ResolutionFits' /\ TimeoutFits'
  BY <1>1 DEF LoopInv, OneInside, ResolutionFits, TimeoutFits, Deciding, waitVars
<1> QED
  BY <1>2, <1>3, <1>4, <1>5 DEF LoopInv

(* The rows' own steps make no row and take nothing off the chain.         *)
RowsGrow ==
  /\ events \subseteq events' /\ grants \subseteq grants'
  /\ \A q \in Requests : row[q] = "absent" => row'[q] = "absent"

LEMMA ApprovalsGoOn ==
  ASSUME SharedLoop, LoopInv, ApprovalStep
  PROVE  LoopInv' /\ TerminalKept /\ RowsGrow
<1>1. OperatorNext \/ \E r \in Requests : WaiterStep(r) \/ WaitStops(r) \/ WaitAgain(r)
  BY DEF ApprovalStep
<1>2. LoopInv' /\ TerminalKept
  BY <1>1, NextLoop DEF Next, WaiterNext
<1>3. events \subseteq events' /\ grants \subseteq grants'
  BY <1>1
  DEF OperatorNext, ResolverStep, Resolve, CommitResolution, AuditResolution, AuditGrant,
      ResolveStops, Revoke, WaiterStep, DeadlinePasses, PollResolved, PollDue, MarkReads,
      CommitTimeout, AuditTimeout, WaitStops, WaitAgain
<1>4. ASSUME NEW q \in Requests, row[q] = "absent"
      PROVE  row'[q] = "absent"
  <2>1. ASSUME NEW s \in Resolvers, CommitResolution(s) PROVE row'[q] = "absent"
    <3>1. res[s].pc = "checked" /\ row' = [row EXCEPT ![res[s].req] = res[s].to]
      BY <2>1 DEF CommitResolution
    <3>2. row[res[s].req] = "pending"
      BY <3>1, ResTypes DEF LoopInv, StoreInv, ResolutionFits, Deciding
    <3> QED
      BY <1>4, <3>1, <3>2 DEF LoopInv, StoreInv, TypeOK
  <2>2. ASSUME NEW r \in Requests, CommitTimeout(r) PROVE row'[q] = "absent"
    BY <1>4, <2>2 DEF CommitTimeout, LoopInv, StoreInv, TypeOK, TimeoutFits
  <2>3. CASE OperatorNext
    BY <1>4, <2>1, <2>3
    DEF OperatorNext, ResolverStep, Resolve, AuditResolution, AuditGrant, ResolveStops, Revoke
  <2>4. CASE \E r \in Requests : WaiterStep(r) \/ WaitStops(r) \/ WaitAgain(r)
    BY <1>4, <2>2, <2>4
    DEF WaiterStep, DeadlinePasses, PollResolved, PollDue, MarkReads, AuditTimeout,
        WaitStops, WaitAgain
  <2> QED
    BY <1>1, <2>3, <2>4
<1> QED
  BY <1>2, <1>3, <1>4 DEF RowsGrow

-----------------------------------------------------------------------------
(* Steps of the calls.                                                     *)

(* What is true of a call that does not move stays true.                   *)
LEMMA CallKept ==
  ASSUME EInv, TerminalKept, events \subseteq events', NEW r \in Requests,
         call'[r] = call[r],
         row[r] = "absent" => row'[r] = "absent"
  PROVE  CallFits(r)'
<1>1. CallFits(r)
  BY DEF EInv
<1>2. Undispatched(r)' \subseteq Undispatched(r)
  BY DEF Undispatched, Dispatched
<1>3. Substitution(r)' = Substitution(r)
  BY DEF Substitution
<1>4. RanFits(r) => RanFits(r)'
  BY DEF RanFits, TerminalKept, Terminal
<1> QED
  BY <1>1, <1>2, <1>3, <1>4 DEF CallFits, Opened

LEMMA OneCallMoves ==
  ASSUME EInv, LoopInv', TerminalKept, events \subseteq events',
         NEW r \in Requests, NEW d \in CallRecord(r), Goes(r, d),
         \A q \in Requests : q # r => row'[q] = row[q],
         CallFits(r)'
  PROVE  EInv'
<1>1. DOMAIN call' = Requests /\ call'[r] = d /\ \A q \in Requests : q # r => call'[q] = call[q]
  BY DEF EInv, CallTyped, Goes
<1>2. CallTyped'
  <2>1. call' = [q \in Requests |-> call'[q]]
    BY DEF EInv, CallTyped, Goes
  <2>2. \A q \in Requests : call'[q] \in CallRecord(q)
    BY <1>1 DEF EInv, CallTyped
  <2> QED
    BY <2>1, <2>2 DEF CallTyped, CallRecord
<1>3. \A q \in Requests : q # r => CallFits(q)'
  BY <1>1, CallKept
<1> QED
  BY <1>2, <1>3 DEF EInv

(* The steps before the parking: the rows do not notice them.              *)
LEMMA CallMovesEarly ==
  ASSUME SharedLoop, EInv, NEW r \in Requests, Turn(r),
         call[r].pc \notin Settled,
         UNCHANGED <<row, waitVars, res, grants, revoked>>, busy' \in {r, Free},
         events \subseteq events', \A e \in events' \ events : e.kind \notin Decisive,
         NEW d \in CallRecord(r), Goes(r, d),
         LET opened == d.review /\ r \in Wired => Opened(r) \in events'
             owing == {f \in d.effects : r \in Dispatching /\ Dispatched(r, f) \notin events'}
         IN  /\ d.pc \in {"reviewing", "enforcing", "parking", "ran"} => owing = {}
             /\ d.pc \in {"enforcing", "parking", "ran"} => opened
             /\ d.pc \in {"parking", "ran"} /\ d.outcome \in SubstitutedToApproval =>
                  Event("enforcement_substitution", r, System, d.outcome) \in events'
             /\ d.pc = "parking" => d.outcome # "deny"
             /\ d.pc = "ran" => d.outcome \in Executable
             /\ d.pc # "parked"
  PROVE  EInv'
<1>1. row[r] = "absent" /\ wait[r] = "none"
  BY DEF EInv, CallFits, LoopInv, StoreInv, ParkedHaveRows
<1>2. LoopInv' /\ TerminalKept
  BY <1>1, CallLeavesRows DEF EInv, Inside
<1>3. call'[r] = d
  BY DEF EInv, CallTyped, Goes
<1>4. CallFits(r)'
  BY <1>1, <1>3 DEF CallFits, RanFits, Undispatched, Dispatched, Substitution, Opened, waitVars
<1> QED
  BY <1>2, <1>4, OneCallMoves DEF waitVars

LEMMA EarlyFacts ==
  ASSUME EInv, NEW r \in Requests
  PROVE  /\ call[r] \in CallRecord(r)
         /\ \A pc \in Pcs : [call[r] EXCEPT !.pc = pc] \in CallRecord(r)
         /\ \A pc \in Pcs : /\ [call[r] EXCEPT !.pc = pc].pc = pc
                            /\ [call[r] EXCEPT !.pc = pc].outcome = call[r].outcome
                            /\ [call[r] EXCEPT !.pc = pc].effects = call[r].effects
                            /\ [call[r] EXCEPT !.pc = pc].review = call[r].review
BY DEF EInv, CallTyped, CallRecord

LEMMA EvaluateFits ==
  ASSUME SharedLoop, EInv, NEW r \in Requests, Evaluate(r)
  PROVE  EInv'
<1> DEFINE d == [NotCalled EXCEPT !.pc = "evaluating"]
<1>1. d \in CallRecord(r) /\ d.pc = "evaluating"
  BY DEF CallRecord, NotCalled, Pcs, Outcome
<1>2. Goes(r, d) /\ UNCHANGED vars /\ call[r].pc = "new"
  BY DEF Evaluate
<1>3. LoopInv' /\ TerminalKept
  BY <1>2, NextLoop DEF EInv
<1>4. call'[r] = d
  BY <1>2 DEF EInv, CallTyped, Goes
<1>5. CallFits(r)'
  BY <1>1, <1>2, <1>4 DEF EInv, CallFits, Settled, vars, waitVars
<1> HIDE DEF d
<1> QED
  BY <1>1, <1>2, <1>3, <1>5, OneCallMoves DEF vars, waitVars

LEMMA DecidedFits ==
  ASSUME SharedLoop, EInv, NEW r \in Requests, NEW o \in Outcome,
         NEW fx \in SUBSET SideEffects[r], NEW fired \in BOOLEAN, Decided(r, o, fx, fired)
  PROVE  EInv'
<1> DEFINE d == [pc |-> "dispatching", outcome |-> o, effects |-> fx,
                 review |-> o = "governance_review" \/ fired]
<1>1. d \in CallRecord(r) /\ d.pc = "dispatching"
  BY DEF CallRecord, Pcs
<1>2. /\ Turn(r) /\ call[r].pc = "evaluating" /\ Goes(r, d) /\ busy' \in {r, Free}
      /\ UNCHANGED <<row, waitVars, res, grants, revoked, events>>
  BY DEF Decided, Hold
<1> HIDE DEF d
<1> QED
  BY <1>1, <1>2, CallMovesEarly DEF Settled

LEMMA DispatchFits ==
  ASSUME SharedLoop, EInv, NEW r \in Requests, Dispatch(r)
  PROVE  EInv'
<1>1. PICK f \in Undispatched(r) : events' = events \cup {Dispatched(r, f)}
  BY DEF Dispatch
<1>2. /\ Turn(r) /\ call[r].pc = "dispatching" /\ busy' \in {r, Free} /\ call' = call
      /\ UNCHANGED <<row, waitVars, res, grants, revoked>>
  BY DEF Dispatch, Hold
<1>3. Dispatched(r, f).kind \notin Decisive
  BY DEF Dispatched, Event, Decisive
<1>4. Goes(r, call[r]) /\ call[r] \in CallRecord(r)
  BY <1>2 DEF EInv, CallTyped, Goes
<1> QED
  BY <1>1, <1>2, <1>3, <1>4, CallMovesEarly DEF Settled

LEMMA AfterDispatchFits ==
  ASSUME SharedLoop, EInv, NEW r \in Requests, AfterDispatch(r)
  PROVE  EInv'
<1> DEFINE to == IF Reviews(r) THEN "reviewing" ELSE "enforcing"
           d == [call[r] EXCEPT !.pc = to]
<1>1. /\ Turn(r) /\ call[r].pc = "dispatching" /\ Goes(r, d) /\ busy' \in {r, Free}
      /\ Undispatched(r) = {}
      /\ UNCHANGED <<row, waitVars, res, grants, revoked, events>>
  BY DEF AfterDispatch, Hold
<1>2. to \in {"reviewing", "enforcing"} /\ to \in Pcs
  BY DEF Pcs
<1>3. /\ d \in CallRecord(r) /\ d.pc = to /\ d.outcome = call[r].outcome
      /\ d.effects = call[r].effects /\ d.review = call[r].review
  BY <1>2, EarlyFacts
<1>4. to = "enforcing" => ~ (d.review /\ r \in Wired)
  BY <1>3 DEF Reviews
<1> HIDE DEF d, to
<1> QED
  BY <1>1, <1>2, <1>3, <1>4, CallMovesEarly DEF Settled, Undispatched

LEMMA OpenReviewFits ==
  ASSUME SharedLoop, EInv, NEW r \in Requests, OpenReview(r)
  PROVE  EInv'
<1> DEFINE d == [call[r] EXCEPT !.pc = "enforcing"]
<1>1. /\ Turn(r) /\ call[r].pc = "reviewing" /\ Goes(r, d) /\ busy' \in {r, Free}
      /\ events' = events \cup {Opened(r)}
      /\ UNCHANGED <<row, waitVars, res, grants, revoked>>
  BY DEF OpenReview, Hold, Opened
<1>2. /\ d \in CallRecord(r) /\ d.pc = "enforcing" /\ d.outcome = call[r].outcome
      /\ d.effects = call[r].effects /\ d.review = call[r].review
  BY EarlyFacts DEF Pcs
<1>3. Undispatched(r) = {}
  BY <1>1 DEF EInv, CallFits
<1>4. Opened(r).kind \notin Decisive
  BY DEF Opened, Event, Decisive
<1> HIDE DEF d
<1> QED
  BY <1>1, <1>2, <1>3, <1>4, CallMovesEarly DEF Settled, Undispatched

LEMMA ExecuteFits ==
  ASSUME SharedLoop, EInv, NEW r \in Requests, Execute(r)
  PROVE  EInv'
<1> DEFINE d == [call[r] EXCEPT !.pc = "ran"]
<1>1. /\ Turn(r) /\ call[r].pc = "enforcing" /\ Goes(r, d) /\ busy' \in {r, Free}
      /\ call[r].outcome \in Executable
      /\ UNCHANGED <<row, waitVars, res, grants, revoked, events>>
  BY DEF Execute, RunsNow, RunOperation, Release
<1>2. /\ d \in CallRecord(r) /\ d.pc = "ran" /\ d.outcome = call[r].outcome
      /\ d.effects = call[r].effects /\ d.review = call[r].review
  BY EarlyFacts DEF Pcs, Ended
<1>3. Undispatched(r) = {} /\ (d.review /\ r \in Wired => Opened(r) \in events)
  BY <1>1, <1>2 DEF EInv, CallFits
<1>4. d.outcome \notin SubstitutedToApproval
  BY <1>1, <1>2 DEF Executable, SubstitutedToApproval
<1> HIDE DEF d
<1> QED
  BY <1>1, <1>2, <1>3, <1>4, CallMovesEarly DEF Settled, Undispatched

LEMMA RefuseFits ==
  ASSUME SharedLoop, EInv, NEW r \in Requests, Refuse(r)
  PROVE  EInv'
<1> DEFINE d == [call[r] EXCEPT !.pc = "denied"]
<1>1. /\ Turn(r) /\ call[r].pc = "enforcing" /\ Goes(r, d) /\ busy' \in {r, Free}
      /\ UNCHANGED <<row, waitVars, res, grants, revoked, events>>
  BY DEF Refuse, Deny, Release
<1>2. d \in CallRecord(r) /\ d.pc = "denied"
  BY EarlyFacts DEF Pcs, Ended
<1> HIDE DEF d
<1> QED
  BY <1>1, <1>2, CallMovesEarly DEF Settled

(* A substituted outcome is recorded on the way to the parking.            *)
LEMMA ToParkingFits ==
  ASSUME SharedLoop, EInv, NEW r \in Requests, RecordSubstitution(r) \/ NeedsApproval(r)
  PROVE  EInv'
<1> DEFINE d == [call[r] EXCEPT !.pc = "parking"]
<1>1. /\ Turn(r) /\ call[r].pc = "enforcing" /\ Goes(r, d) /\ busy' \in {r, Free}
      /\ Waits(r)
      /\ UNCHANGED <<row, waitVars, res, grants, revoked>>
      /\ \/ events' = events \cup {Substitution(r)}
         \/ events' = events /\ call[r].outcome \notin SubstitutedToApproval
  BY DEF RecordSubstitution, NeedsApproval, Hold
<1>2. /\ d \in CallRecord(r) /\ d.pc = "parking" /\ d.outcome = call[r].outcome
      /\ d.effects = call[r].effects /\ d.review = call[r].review
  BY EarlyFacts DEF Pcs
<1>3. Undispatched(r) = {} /\ (d.review /\ r \in Wired => Opened(r) \in events)
  BY <1>1, <1>2 DEF EInv, CallFits
<1>4. d.outcome # "deny"
  BY <1>1, <1>2 DEF Waits, Refused
<1>5. Substitution(r) = Event("enforcement_substitution", r, System, d.outcome)
      /\ Substitution(r).kind \notin Decisive
  BY <1>2 DEF Substitution, Event, Decisive
<1> HIDE DEF d
<1> QED
  BY <1>1, <1>2, <1>3, <1>4, <1>5, CallMovesEarly DEF Settled, Undispatched

LEMMA ParkCallFits ==
  ASSUME SharedLoop, EInv, NEW r \in Requests, ParkCall(r)
  PROVE  EInv'
<1> DEFINE d == [call[r] EXCEPT !.pc = "parked"]
<1>1. call[r].pc = "parking" /\ Park(r) /\ Goes(r, d)
  BY DEF ParkCall
<1>2. LoopInv' /\ TerminalKept
  BY <1>1, NextLoop DEF EInv, Next
<1>3. /\ d \in CallRecord(r) /\ d.pc = "parked" /\ d.outcome = call[r].outcome
      /\ d.effects = call[r].effects /\ d.review = call[r].review
  BY EarlyFacts DEF Pcs
<1>4. /\ events' = events
      /\ \A q \in Requests : q # r => row'[q] = row[q]
  BY <1>1 DEF Park, EInv, LoopInv, StoreInv, TypeOK
<1>5. call'[r] = d
  BY <1>1 DEF EInv, CallTyped, Goes
<1>6. CallFits(r)'
  <2> HIDE DEF d
  <2> QED
    BY <1>1, <1>3, <1>4, <1>5
    DEF EInv, CallFits, Settled, Undispatched, Dispatched, Substitution, Opened
<1> HIDE DEF d
<1> QED
  BY <1>1, <1>2, <1>3, <1>4, <1>6, OneCallMoves

(* A request filed by hand has a row and no decision of a pipeline.        *)
LEMMA FileRequestFits ==
  ASSUME SharedLoop, EInv, NEW r \in Requests, FileRequest(r)
  PROVE  EInv'
<1> DEFINE d == [NotCalled EXCEPT !.pc = "filed"]
<1>1. d \in CallRecord(r) /\ d.pc = "filed" /\ d.outcome = "allow"
  BY DEF CallRecord, NotCalled, Pcs, Outcome
<1>2. Goes(r, d) /\ File(r)
  BY DEF FileRequest
<1>3. LoopInv' /\ TerminalKept
  BY <1>2, NextLoop DEF EInv, Next
<1>4. /\ events' = events
      /\ \A q \in Requests : q # r => row'[q] = row[q]
  BY <1>2 DEF File, EInv, LoopInv, StoreInv, TypeOK
<1>5. call'[r] = d
  BY <1>2 DEF EInv, CallTyped, Goes
<1>6. CallFits(r)'
  <2> HIDE DEF d
  <2> QED
    BY <1>1, <1>5 DEF CallFits, Settled
<1> HIDE DEF d
<1> QED
  BY <1>1, <1>2, <1>3, <1>4, <1>6, OneCallMoves

(* The verdict that the resumed call acts on is what the row still says.   *)
LEMMA ResumeFits ==
  ASSUME SharedLoop, EInv, NEW r \in Requests, Resume(r)
  PROVE  EInv'
<1> DEFINE to == IF MayRun(r) THEN "ran" ELSE "denied"
           d == [call[r] EXCEPT !.pc = to]
<1>1. /\ Turn(r) /\ call[r].pc = "parked" /\ wait[r] = "returned" /\ Goes(r, d)
      /\ busy' \in {r, Free}
      /\ UNCHANGED <<row, waitVars, res, grants, revoked, events>>
  BY DEF Resume, RunOperation, Deny, Release
<1>2. LoopInv' /\ TerminalKept
  BY <1>1, CallLeavesRows DEF EInv, Inside
<1>3. to \in {"ran", "denied"} /\ to \in Pcs
  BY DEF Pcs, Ended
<1>4. /\ d \in CallRecord(r) /\ d.pc = to /\ d.outcome = call[r].outcome
      /\ d.effects = call[r].effects /\ d.review = call[r].review
  BY <1>3, EarlyFacts
<1>5. to = "ran" =>
        row[r] = "approved" \/ (row[r] = "timed_out" /\ r \in OpenClass)
  BY <1>1 DEF MayRun, EInv, LoopInv, Agreement, VerdictMatchesRow
<1>6. call'[r] = d
  BY <1>1 DEF EInv, CallTyped, Goes
<1>7. CallFits(r)'
  <2> HIDE DEF d, to
  <2> QED
    BY <1>1, <1>3, <1>4, <1>5, <1>6
    DEF EInv, CallFits, Settled, RanFits, Undispatched, Dispatched, Substitution, Opened, waitVars
<1> HIDE DEF d
<1> QED
  BY <1>1, <1>2, <1>4, <1>7, OneCallMoves DEF waitVars

LEMMA RaisesFits ==
  ASSUME SharedLoop, EInv, NEW r \in Requests, Raises(r)
  PROVE  EInv'
<1> DEFINE d == [call[r] EXCEPT !.pc = "raised"]
<1>1. /\ Turn(r) /\ Goes(r, d) /\ busy' \in {r, Free}
      /\ UNCHANGED <<row, waitVars, res, grants, revoked, events>>
      /\ \/ call[r].pc \notin Settled
         \/ call[r].pc = "parked" /\ wait[r] = "lost"
  BY DEF Raises, Release, Settled
<1>2. d \in CallRecord(r) /\ d.pc = "raised" /\ d.outcome = call[r].outcome
  BY EarlyFacts DEF Pcs, Ended
<1>3. CASE call[r].pc \notin Settled
  <2> HIDE DEF d
  <2> QED
    BY <1>1, <1>2, <1>3, CallMovesEarly
<1>4. CASE call[r].pc = "parked" /\ wait[r] = "lost"
  <2>1. LoopInv' /\ TerminalKept
    BY <1>1, <1>4, CallLeavesRows DEF EInv, Inside
  <2>2. call'[r] = d
    BY <1>1 DEF EInv, CallTyped, Goes
  <2>3. CallFits(r)'
    BY <1>1, <1>2, <1>4, <2>2 DEF EInv, CallFits, Settled, waitVars
  <2> HIDE DEF d
  <2> QED
    BY <1>1, <1>2, <2>1, <2>3, OneCallMoves DEF waitVars
<1> QED
  BY <1>1, <1>3, <1>4

LEMMA ApprovalStepFits ==
  ASSUME SharedLoop, EInv, ApprovalStep
  PROVE  EInv'
<1>1. LoopInv' /\ TerminalKept /\ RowsGrow /\ call' = call
  BY ApprovalsGoOn DEF EInv, ApprovalStep
<1>2. \A r \in Requests : CallFits(r)'
  BY <1>1, CallKept DEF RowsGrow
<1>3. CallTyped'
  BY <1>1 DEF EInv, CallTyped, CallRecord
<1> QED
  BY <1>1, <1>2, <1>3 DEF EInv

LEMMA OnwardFits ==
  ASSUME SharedLoop, EInv, NEW r \in Requests, Onward(r)
  PROVE  EInv'
BY DispatchFits, AfterDispatchFits, OpenReviewFits, ExecuteFits, RefuseFits, ToParkingFits,
   ParkCallFits, ResumeFits, RaisesFits DEF Onward

(* No step of a call moves a settled row: to park or to file a request     *)
(* needs that there is none.                                               *)
LEMMA RowsSettled ==
  ASSUME SharedLoop, EInv, [EnforcementNext]_allVars
  PROVE  TerminalKept
<1>1. CASE ApprovalStep
  BY <1>1, ApprovalsGoOn DEF EInv
<1>2. ASSUME NEW r \in Requests, ParkCall(r) \/ FileRequest(r)
      PROVE  TerminalKept
  BY <1>2 DEF ParkCall, Park, FileRequest, File, TerminalKept, Terminal, EInv, LoopInv, StoreInv, TypeOK
<1>3. CASE row' = row
  BY <1>3 DEF TerminalKept
<1>4. ASSUME NEW r \in Requests, Evaluate(r) \/ CallStep(r), ~ ParkCall(r)
      PROVE  row' = row
  BY <1>4
  DEF Evaluate, CallStep, Onward, vars, Decided, Dispatch, AfterDispatch, OpenReview, Execute,
      Refuse, RecordSubstitution, NeedsApproval, Resume, Raises, RunOperation, Deny
<1>5. CASE UNCHANGED allVars
  BY <1>3, <1>5 DEF allVars, vars
<1> QED
  BY <1>1, <1>2, <1>3, <1>4, <1>5 DEF EnforcementNext

LEMMA EnforcementNextFits ==
  ASSUME SharedLoop, EInv, [EnforcementNext]_allVars
  PROVE  EInv'
<1>1. CASE UNCHANGED allVars
  <2>1. UNCHANGED vars /\ call' = call
    BY <1>1 DEF allVars
  <2>2. LoopInv'
    BY <2>1, NextLoop DEF EInv
  <2>3. \A r \in Requests : CallFits(r)'
    BY <2>1, RowsSettled, CallKept DEF vars, waitVars
  <2> QED
    BY <2>1, <2>2, <2>3 DEF EInv, CallTyped, CallRecord
<1>2. ASSUME NEW r \in Requests, Evaluate(r) \/ CallStep(r) \/ FileRequest(r)
      PROVE  EInv'
  BY <1>2, EvaluateFits, DecidedFits, OnwardFits, FileRequestFits DEF CallStep
<1> QED
  BY <1>1, <1>2, ApprovalStepFits DEF EnforcementNext

LEMMA AlwaysFits == SharedLoop => (EnforcementSpec => []EInv)
<1> SUFFICES ASSUME SharedLoop PROVE EnforcementSpec => []EInv
  OBVIOUS
<1>1. EInv /\ [EnforcementNext]_allVars => EInv'
  BY EnforcementNextFits
<1> QED
  BY <1>1, InitCalls, PTL DEF EnforcementSpec

(* Every governed call carries an outcome of the vocabulary and effects    *)
(* its decision may carry, at a stage of governed_call.                    *)
THEOREM EnforcementTypeCorrect == SharedLoop => (EnforcementSpec => []EnforcementTypeOK)
<1>1. EInv => EnforcementTypeOK
  BY DEF EInv, CallTyped, CallRecord, EnforcementTypeOK
<1> QED
  BY <1>1, AlwaysFits, PTL

(* An operation runs only on an outcome that runs at once, an approval or  *)
(* a timeout of a fail-open class, and its row says so for ever.           *)
THEOREM RanAlwaysAsTheTableSays == SharedLoop => (EnforcementSpec => []RanAsTheTableSays)
<1>1. EInv => RanAsTheTableSays
  BY DEF EInv, CallFits, RanFits, RanAsTheTableSays
<1> QED
  BY <1>1, AlwaysFits, PTL

(* Whatever interleaves with a call, what it owes is on the chain when its *)
(* operation runs or its approval is asked for: with a dispatcher wired in *)
(* every side effect, with a coordinator the review, and the substitution. *)
THEOREM ObligationsAlwaysPrecedeRun == SharedLoop => (EnforcementSpec => []ObligationsPrecedeRun)
<1>1. EInv => ObligationsPrecedeRun
  BY DEF EInv, CallFits, Undispatched, Opened, ObligationsPrecedeRun
<1> QED
  BY <1>1, AlwaysFits, PTL

(* Under the calls that use it as much as alone, the approval store moves  *)
(* no settled row.                                                         *)
THEOREM EnforcedSingleTransition == SharedLoop => (EnforcementSpec => SingleTransition)
<1> SUFFICES ASSUME SharedLoop PROVE EnforcementSpec => SingleTransition
  OBVIOUS
<1>1. EInv /\ [EnforcementNext]_allVars =>
        [\A r \in Requests : row[r] \in Terminal => row'[r] = row[r]]_vars
  BY RowsSettled DEF TerminalKept
<1> QED
  BY <1>1, AlwaysFits, PTL DEF EnforcementSpec, SingleTransition

-----------------------------------------------------------------------------
(* Exceptions.                                                             *)
LEMMA FloorOfHolds ==
  ASSUME version \in Versions, NEW refs \in SUBSET Refs
  PROVE  /\ FloorOf(refs) \in Outcome
         /\ "deny" \in EffectsOf(refs) => FloorOf(refs) = "deny"
<1>1. EffectsOf(refs) \in SUBSET AuthorableEffects /\ (refs # {} => EffectsOf(refs) # {})
  BY ExceptionsAssumption DEF EffectsOf
<1>2. CASE refs = {}
  BY <1>2 DEF FloorOf, EffectsOf, Outcome
<1>3. CASE refs # {}
  <2> DEFINE fx == EffectsOf(refs)
  <2> HIDE DEF fx
  <2>1. fx \in SUBSET Outcome /\ fx # {}
    BY <1>1, <1>3 DEF fx, AuthorableEffects
  <2>2. \E o \in fx : \A e \in fx : Rank(e) <= Rank(o)
    BY <2>1 DEF Outcome, Rank
  <2>3. SelectFloor(fx) \in fx /\ \A e \in fx : Rank(e) <= Rank(SelectFloor(fx))
    BY <2>1, <2>2 DEF SelectFloor
  <2>4. "deny" \in fx => SelectFloor(fx) = "deny"
    BY <2>1, <2>3 DEF Outcome, Rank
  <2> QED
    BY <1>3, <2>1, <2>3, <2>4 DEF FloorOf, fx
<1> QED
  BY <1>2, <1>3

(* Until a waiver lifts it, a deny of any principle is the outcome.        *)
LEMMA OutcomesHold ==
  ASSUME version \in Versions, NEW r \in Requests
  PROVE  /\ \A tightened \in Tightened :
              /\ Graduated(r, tightened) \in Outcome
              /\ ~ Lifted(r) /\ DenyRefs(r) # {} => Graduated(r, tightened) = "deny"
         /\ FailSafeOutcome(r) \in Outcome
         /\ DenyRefs(r) # {} => FailSafeOutcome(r) = "deny"
<1>1. FiredRefs[r] \in SUBSET Refs /\ FiredRefs[r] \ DenyRefs(r) \in SUBSET Refs
  BY ApprovalsAssumption
<1>2. DenyRefs(r) # {} => "deny" \in EffectsOf(FiredRefs[r])
  BY DEF DenyRefs, EffectsOf
<1>3. /\ FloorOf(FiredRefs[r]) \in Outcome
      /\ FloorOf(FiredRefs[r] \ DenyRefs(r)) \in Outcome
      /\ DenyRefs(r) # {} => FloorOf(FiredRefs[r]) = "deny"
  BY <1>1, <1>2, FloorOfHolds
<1>4. Floor(r) \in Outcome /\ (~ Lifted(r) /\ DenyRefs(r) # {} => Floor(r) = "deny")
  BY <1>3 DEF Floor
<1>5. ASSUME NEW tightened \in Tightened
      PROVE  /\ Graduated(r, tightened) \in Outcome
             /\ ~ Lifted(r) /\ DenyRefs(r) # {} => Graduated(r, tightened) = "deny"
  BY <1>4, <1>5 DEF Graduated, MoreRestrictive, Tightened, Outcome
<1> QED
  BY <1>3, <1>5 DEF FailSafeOutcome, Outcome

(* The decisions that follow from the principles are decisions that        *)
(* governed_call enforces.                                                 *)
LEMMA DecisionsAreEnforced ==
  ASSUME version \in Versions, NEW r \in Requests, Decide(r)
  PROVE  CallStep(r)
<1>1. FailSafeOutcome(r) \in Outcome /\ \A t \in Tightened : Graduated(r, t) \in Outcome
  BY OutcomesHold
<1>2. ReviewFired(r) \in BOOLEAN /\ {} \in SUBSET SideEffects[r]
  BY DEF ReviewFired
<1> QED
  BY <1>1, <1>2 DEF Decide, CallStep

LEMMA FailuresAreEnforced ==
  ASSUME NEW r \in Requests, FailsEarly(r)
  PROVE  CallStep(r)
<1>1. "allow" \in Outcome /\ {} \in SUBSET SideEffects[r] /\ FALSE \in BOOLEAN
  BY DEF Outcome
<1> QED
  BY <1>1 DEF FailsEarly, CallStep

Loaded == version \in Versions

LEMMA StepsAreEnforced ==
  Loaded /\ [ExceptionsNext]_ratifyVars => [EnforcementNext]_allVars /\ Loaded'
<1> SUFFICES ASSUME version \in Versions, [ExceptionsNext]_ratifyVars
             PROVE  [EnforcementNext]_allVars /\ version' \in Versions
  BY DEF Loaded, Versions
<1>1. ASSUME NEW r \in Requests, Decide(r)
      PROVE  EnforcementNext /\ version' = version
  BY <1>1, DecisionsAreEnforced DEF Decide, EnforcementNext
<1>5. ASSUME NEW r \in Requests, FailsEarly(r)
      PROVE  EnforcementNext /\ version' = version
  BY <1>5, FailuresAreEnforced DEF FailsEarly, EnforcementNext
<1>2. ASSUME NEW r \in Requests, CallGoesOn(r)
      PROVE  EnforcementNext /\ version' = version
  BY <1>2 DEF CallGoesOn, CallStep, EnforcementNext
<1>3. CASE ApprovalGoesOn
  BY <1>3 DEF ApprovalGoesOn, EnforcementNext
<1>4. CASE Amend \/ Tick \/ UNCHANGED ratifyVars
  BY <1>4 DEF Amend, Tick, ratifyVars
<1> QED
  BY <1>1, <1>2, <1>3, <1>4, <1>5 DEF ExceptionsNext

(* What the enforcement promises for any decision holds of the decisions   *)
(* that follow from a constitution, beside amendments and the clock: the   *)
(* life of an exception implements the enforcement of a call.              *)
THEOREM ExceptionsImplementEnforcement == ExceptionsSpec => EnforcementSpec
<1>1. ExceptionsInit => EnforcementInit /\ Loaded
  BY DEF ExceptionsInit, Loaded
<1> QED
  BY <1>1, StepsAreEnforced, PTL DEF ExceptionsSpec, EnforcementSpec

(* The basis of a decision that may run: for each principle that denied,   *)
(* an exception of the same agent that held when the decision was made.    *)
Waived(r, p) ==
  \E g \in basis[r].used :
    g.ref = p /\ until[g] > basis[r].at /\ AgentOf[g.req] = AgentOf[r]

BasisFits(r) ==
  /\ basis[r].used \subseteq grants
  /\ call[r].pc \in {"new", "evaluating"} => basis[r].denied = {}
  /\ call[r].outcome # "deny" => \A p \in basis[r].denied : Waived(r, p)

(* Behind every exception, through those it was ratified under, stands an  *)
(* approved request that names its principle and that it did not deny: one *)
(* filed by hand rests on no decision.                                     *)
Consented(g) ==
  \E q \in Requests :
    AgentOf[q] = AgentOf[g.req] /\ row[q] = "approved" /\ g.ref \in FiredRefs[q] \ basis[q].denied

XInv ==
  /\ EInv
  /\ Loaded
  /\ DOMAIN until = grants
  /\ DOMAIN basis = Requests
  /\ \A r \in Requests : BasisFits(r)
  /\ \A g \in grants : Consented(g)

LEMMA InitExceptions == ExceptionsInit => XInv
<1> SUFFICES ASSUME ExceptionsInit PROVE XInv
  OBVIOUS
<1>1. grants = {} /\ \A r \in Requests : basis[r] = NoBasis
  BY DEF ExceptionsInit, EnforcementInit, Init
<1>2. \A r \in Requests : BasisFits(r)
  BY <1>1 DEF BasisFits, NoBasis
<1> QED
  BY <1>1, <1>2, InitCalls DEF ExceptionsInit, XInv, Loaded

(* Exceptions, their consent and the decisions that rest on them outlive   *)
(* any step that decides nothing and grants nothing.                       *)
LEMMA BasisKept ==
  ASSUME XInv, EInv', Loaded', TerminalKept, basis' = basis,
         grants \subseteq grants', DOMAIN until' = grants', \A g \in grants : until'[g] = until[g],
         \A r \in Requests : call'[r].outcome = call[r].outcome \/ basis[r].denied = {},
         \A r \in Requests : call'[r].pc \in {"new", "evaluating"} =>
           call[r].pc \in {"new", "evaluating"},
         \A g \in grants' \ grants : Consented(g)'
  PROVE  XInv'
<1>1. ASSUME NEW r \in Requests PROVE BasisFits(r)'
  <2>1. BasisFits(r)
    BY DEF XInv
  <2>2. ASSUME NEW p, Waived(r, p) PROVE Waived(r, p)'
    BY <2>1, <2>2 DEF BasisFits, Waived
  <2> QED
    BY <2>1, <2>2 DEF BasisFits
<1>2. ASSUME NEW g \in grants PROVE Consented(g)'
  BY DEF XInv, Consented, TerminalKept, Terminal
<1> QED
  BY <1>1, <1>2 DEF XInv

(* A decision that rests on exceptions which hold, or denies, is sound.    *)
LEMMA DecisionRests ==
  ASSUME XInv, NEW r \in Requests, EInv', TerminalKept,
         call[r].pc = "evaluating", UNCHANGED <<row, grants, version, now, until>>,
         NEW d, Goes(r, d), d.pc = "dispatching",
         NEW b, basis' = [basis EXCEPT ![r] = b], b.used \subseteq grants,
         d.outcome # "deny" => \A p \in b.denied : \E g \in b.used :
           g.ref = p /\ until[g] > b.at /\ AgentOf[g.req] = AgentOf[r]
  PROVE  XInv'
<1>1. /\ call'[r] = d /\ basis'[r] = b /\ DOMAIN basis' = Requests
      /\ \A q \in Requests : q # r => call'[q] = call[q] /\ basis'[q] = basis[q]
  BY DEF XInv, EInv, CallTyped, Goes
<1>2. BasisFits(r)'
  BY <1>1 DEF BasisFits, Waived
<1>3. ASSUME NEW q \in Requests, q # r PROVE BasisFits(q)'
  <2>1. BasisFits(q)
    BY DEF XInv
  <2> QED
    BY <1>1, <1>3, <2>1 DEF BasisFits, Waived
<1>4. row[r] = "absent"
  BY DEF XInv, EInv, CallFits, Settled
<1>5. ASSUME NEW g \in grants PROVE Consented(g)'
  BY <1>1, <1>4 DEF XInv, Consented
<1> QED
  BY <1>1, <1>2, <1>3, <1>5 DEF XInv, Loaded, Versions

LEMMA DecideRatified ==
  ASSUME SharedLoop, XInv, NEW r \in Requests, Decide(r), EInv', TerminalKept
  PROVE  XInv'
<1> DEFINE b == IF Lifted(r) THEN [denied |-> DenyRefs(r), used |-> Used(r), at |-> now]
                ELSE [NoBasis EXCEPT !.denied = DenyRefs(r)]
<1>1. /\ call[r].pc = "evaluating" /\ basis' = [basis EXCEPT ![r] = b]
      /\ UNCHANGED <<row, grants, version, now, until>>
  BY DEF Decide, Decided
<1>2. PICK d : /\ Goes(r, d) /\ d.pc = "dispatching"
               /\ ~ Lifted(r) /\ DenyRefs(r) # {} => d.outcome = "deny"
  <2>1. ASSUME NEW o, NEW fx, NEW fired, Decided(r, o, fx, fired),
               ~ Lifted(r) /\ DenyRefs(r) # {} => o = "deny"
        PROVE  \E d : /\ Goes(r, d) /\ d.pc = "dispatching"
                      /\ ~ Lifted(r) /\ DenyRefs(r) # {} => d.outcome = "deny"
    BY <2>1 DEF Decided
  <2> QED
    BY <2>1, OutcomesHold DEF Decide, XInv, Loaded
<1>3. b.used \subseteq grants /\ b.denied = DenyRefs(r)
  BY DEF Used, Active, NoBasis
<1>4. Lifted(r) => \A p \in DenyRefs(r) : \E g \in b.used :
        g.ref = p /\ until[g] > b.at /\ AgentOf[g.req] = AgentOf[r]
  BY DEF Lifted, Used, Active
<1> HIDE DEF b
<1>5. d.outcome # "deny" => \A p \in b.denied : \E g \in b.used :
        g.ref = p /\ until[g] > b.at /\ AgentOf[g.req] = AgentOf[r]
  BY <1>2, <1>3, <1>4
<1> QED
  BY <1>1, <1>2, <1>3, <1>5, DecisionRests

LEMMA FailsEarlyRatified ==
  ASSUME SharedLoop, XInv, NEW r \in Requests, FailsEarly(r), EInv', TerminalKept
  PROVE  XInv'
<1>1. /\ call[r].pc = "evaluating" /\ basis' = [basis EXCEPT ![r] = NoBasis]
      /\ UNCHANGED <<row, grants, version, now, until>>
  BY DEF FailsEarly, Decided
<1>2. PICK d : Goes(r, d) /\ d.pc = "dispatching"
  BY DEF FailsEarly, Decided
<1>3. NoBasis.used = {} /\ NoBasis.denied = {}
  BY DEF NoBasis
<1> QED
  BY <1>1, <1>2, <1>3, DecisionRests

LEMMA CallGoesOnRatified ==
  ASSUME SharedLoop, XInv, NEW r \in Requests, CallGoesOn(r), EInv', TerminalKept
  PROVE  XInv'
<1>1. UNCHANGED <<version, now, until, basis>> /\ (Evaluate(r) \/ Onward(r) \/ FileRequest(r))
  BY DEF CallGoesOn
<1>2. grants' = grants
  BY <1>1
  DEF Evaluate, Onward, vars, Dispatch, AfterDispatch, OpenReview, Execute, Refuse,
      RecordSubstitution, NeedsApproval, ParkCall, Park, Resume, Raises, RunOperation, Deny,
      FileRequest, File
<1>3. CASE Evaluate(r) \/ FileRequest(r)
  <2>1. call[r].pc = "new" /\ \A q \in Requests : q # r => call'[q] = call[q]
    BY <1>3 DEF Evaluate, FileRequest, Goes, XInv, EInv, CallTyped
  <2>2. basis[r].denied = {}
    BY <2>1 DEF XInv, BasisFits
  <2> QED
    BY <1>1, <1>2, <2>1, <2>2, BasisKept DEF XInv, Loaded, Versions
<1>4. CASE Onward(r)
  <2>1. \/ call' = call
        \/ \E pc \in Pcs \ {"new", "evaluating"} : Goes(r, [call[r] EXCEPT !.pc = pc])
    BY <1>4
    DEF Onward, Dispatch, AfterDispatch, OpenReview, Execute, Refuse, RecordSubstitution,
        NeedsApproval, ParkCall, Resume, Raises, RunOperation, Deny, Pcs, Ended
  <2>2. ASSUME NEW pc \in Pcs \ {"new", "evaluating"}, Goes(r, [call[r] EXCEPT !.pc = pc])
        PROVE  /\ call'[r].outcome = call[r].outcome /\ call'[r].pc = pc
               /\ \A q \in Requests : q # r => call'[q] = call[q]
    <3>1. /\ call'[r] = [call[r] EXCEPT !.pc = pc]
          /\ \A q \in Requests : q # r => call'[q] = call[q]
      BY <2>2 DEF Goes, XInv, EInv, CallTyped
    <3> QED
      BY <3>1, EarlyFacts DEF XInv
  <2>3. \A q \in Requests :
          /\ call'[q].outcome = call[q].outcome
          /\ call'[q].pc \in {"new", "evaluating"} => call[q].pc \in {"new", "evaluating"}
    BY <2>1, <2>2
  <2> QED
    BY <1>1, <1>2, <2>3, BasisKept DEF XInv, Loaded, Versions
<1> QED
  BY <1>1, <1>3, <1>4

(* What a resolution grants was asked for by hand, or by a call that was   *)
(* parked, which a deny never is: either no principle it grants for had    *)
(* denied that call, or an older exception lifted it, with its own consent. *)
LEMMA ApprovalGoesOnRatified ==
  ASSUME SharedLoop, XInv, ApprovalGoesOn, EInv', TerminalKept
  PROVE  XInv'
<1>1. ApprovalStep /\ call' = call /\ UNCHANGED <<version, now, basis>>
  BY DEF ApprovalGoesOn, ApprovalStep
<1>2. grants \subseteq grants'
  BY <1>1, ApprovalsGoOn DEF XInv, EInv, RowsGrow
<1>3. DOMAIN until' = grants' /\ \A g \in grants : until'[g] = until[g]
  <2>1. CASE grants' = grants
    BY <2>1 DEF ApprovalGoesOn, XInv
  <2>2. CASE grants' # grants
    BY <1>2, <2>2 DEF ApprovalGoesOn
  <2> QED
    BY <2>1, <2>2
<1>4. ASSUME NEW g \in grants' \ grants PROVE Consented(g)'
  <2>1. g.req \in Requests /\ row'[g.req] = "approved" /\ g.ref \in FiredRefs[g.req]
    BY <1>4 DEF EInv, LoopInv, StoreInv, TypeOK, Grant, Agreement, GrantsRatified
  <2>2. call[g.req].outcome # "deny"
    BY <1>1, <2>1 DEF EInv, CallFits
  <2>3. CASE g.ref \notin basis[g.req].denied
    BY <1>1, <2>1, <2>3 DEF Consented
  <2>4. CASE g.ref \in basis[g.req].denied
    <3>1. PICK older \in grants : older.ref = g.ref /\ AgentOf[older.req] = AgentOf[g.req]
      BY <2>1, <2>2, <2>4 DEF XInv, BasisFits, Waived
    <3>2. PICK q \in Requests :
            AgentOf[q] = AgentOf[older.req] /\ row[q] = "approved" /\
            older.ref \in FiredRefs[q] \ basis[q].denied
      BY DEF XInv, Consented
    <3>3. row'[q] = "approved"
      BY <3>2 DEF TerminalKept, Terminal
    <3> QED
      BY <1>1, <3>1, <3>2, <3>3 DEF Consented
  <2> QED
    BY <2>3, <2>4
<1> QED
  BY <1>1, <1>2, <1>3, <1>4, BasisKept DEF XInv, Loaded, Versions

LEMMA XNextRatified ==
  ASSUME SharedLoop, XInv, [ExceptionsNext]_ratifyVars
  PROVE  XInv'
<1>1. [EnforcementNext]_allVars /\ Loaded'
  BY StepsAreEnforced DEF XInv
<1>2. EInv' /\ TerminalKept
  BY <1>1, EnforcementNextFits, RowsSettled DEF XInv
<1>3. ASSUME NEW r \in Requests, Decide(r) \/ FailsEarly(r) \/ CallGoesOn(r)
      PROVE  XInv'
  BY <1>2, <1>3, DecideRatified, FailsEarlyRatified, CallGoesOnRatified
<1>4. CASE ApprovalGoesOn
  BY <1>2, <1>4, ApprovalGoesOnRatified
<1>5. CASE Amend \/ Tick \/ UNCHANGED ratifyVars
  <2>1. UNCHANGED <<allVars, until, basis>>
    BY <1>5 DEF Amend, Tick, ratifyVars
  <2> QED
    BY <1>1, <1>2, <2>1, BasisKept DEF allVars, vars, XInv
<1> QED
  BY <1>3, <1>4, <1>5 DEF ExceptionsNext

LEMMA AlwaysRatified == SharedLoop => (ExceptionsSpec => []XInv)
<1> SUFFICES ASSUME SharedLoop PROVE ExceptionsSpec => []XInv
  OBVIOUS
<1>1. XInv /\ [ExceptionsNext]_ratifyVars => XInv'
  BY XNextRatified
<1> QED
  BY <1>1, InitExceptions, PTL DEF ExceptionsSpec

LEMMA RanIsNotDenied == \A r \in Requests : XInv /\ Ran(r) => call[r].outcome # "deny"
BY DEF XInv, EInv, CallFits, RanFits, Ran, Executable

(* POL-13: a principle that denies is passed only with an exception that   *)
(* an operator ratified and that held when the decision was made.          *)
THEOREM RanAlwaysRatified == SharedLoop => (ExceptionsSpec => []RanAsRatified)
<1>1. XInv => RanAsRatified
  <2> SUFFICES ASSUME XInv, NEW r \in Requests, Ran(r), NEW p \in basis[r].denied
               PROVE  Ratified(r, p)
    BY DEF RanAsRatified
  <2>1. Waived(r, p) /\ basis[r].used \subseteq grants
    BY RanIsNotDenied DEF XInv, BasisFits
  <2>2. \A g \in grants : row[g.req] = "approved" /\ g.ref \in FiredRefs[g.req]
    BY DEF XInv, EInv, LoopInv, Agreement, GrantsRatified
  <2> QED
    BY <2>1, <2>2 DEF Waived, Ratified
<1> QED
  BY <1>1, AlwaysRatified, PTL

(* However long the chain of exceptions, behind an operation that ran past *)
(* a deny stands an approved request that was filed by hand, or parked by  *)
(* a call which that principle did not deny.                               *)
THEOREM DenyAlwaysLiftedFromOutside == SharedLoop => (ExceptionsSpec => []DenyLiftedFromOutside)
<1>1. XInv => DenyLiftedFromOutside
  <2> SUFFICES ASSUME XInv, NEW r \in Requests, Ran(r), NEW p \in basis[r].denied
               PROVE  LiftedFromOutside(r, p)
    BY DEF DenyLiftedFromOutside
  <2>1. PICK g \in grants : g.ref = p /\ AgentOf[g.req] = AgentOf[r]
    BY RanIsNotDenied DEF XInv, BasisFits, Waived
  <2> QED
    BY <2>1 DEF XInv, Consented, LiftedFromOutside
<1> QED
  BY <1>1, AlwaysRatified, PTL

(* What the chain says of an approval is what its row says, and every      *)
(* exception stands on an approved row, through the whole life of both.    *)
THEOREM RatificationsAgree ==
  SharedLoop => (ExceptionsSpec => [](EventsMatchRows /\ GrantsRatified /\ RanAsTheTableSays))
<1>1. XInv => EventsMatchRows /\ GrantsRatified /\ RanAsTheTableSays
  BY DEF XInv, EInv, CallFits, RanFits, RanAsTheTableSays, LoopInv, Agreement
<1> QED
  BY <1>1, AlwaysRatified, PTL
=============================================================================
