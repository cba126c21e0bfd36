---------------------------- MODULE Enforcement -----------------------------
(***************************************************************************)
(* governed_call (sdk/enforce.py) with the coordinator and the dispatcher  *)
(* of controlplane/coordinator.py: what happens between a decision and the *)
(* governed operation, composed with the parked approvals.  A request of   *)
(* Approvals is one governed call, or one that was filed by hand.          *)
(***************************************************************************)
EXTENDS Approvals, Outcomes

CONSTANTS
  Wired,       \* the calls made with a coordinator wired in
  Dispatching, \* the calls made with a dispatcher wired in
  ByHand,      \* the requests that may be filed by hand, all of them in the code
  SideEffects, \* SideEffects[r]: the escalations that its decision may carry
  OpenClass    \* the requests whose action class is explicitly fail-open

ASSUME EnforcementAssumption ==
  /\ Wired \subseteq Requests
  /\ Dispatching \subseteq Requests
  /\ ByHand \subseteq Requests
  /\ OpenClass \subseteq Requests

VARIABLE call   \* call[r]: where governed_call is and the decision it enforces

allVars == <<vars, call>>

MutantNotCalled == [pc |-> "new", outcome |-> "none", effects |-> {}, review |-> FALSE]
NotCalled == [pc |-> "new", outcome |-> "allow", effects |-> {}, review |-> FALSE]

EnforcementInit ==
  /\ Init
  /\ call = [r \in Requests |-> NotCalled]

Goes(r, to) == call' = [call EXCEPT ![r] = to]
Ended == {"ran", "denied", "raised"}

-----------------------------------------------------------------------------
(* The pipeline evaluates; what it decides comes later.  A review is owed  *)
(* by the outcome, or by a fired principle under it.                       *)
Evaluate(r) ==
  /\ Turn(r) /\ call[r].pc = "new"
  /\ Goes(r, [NotCalled EXCEPT !.pc = "evaluating"])
  /\ UNCHANGED vars

Decided(r, o, fx, fired) ==
  /\ Turn(r) /\ call[r].pc = "evaluating"
  /\ Goes(r, [pc |-> "dispatching", outcome |-> o, effects |-> fx,
              review |-> o = "governance_review" \/ fired])
  /\ Hold(r)
  /\ UNCHANGED <<row, waitVars, res, grants, revoked, events>>

(* dispatch: one event for each effect; a sink that raises is contained.   *)
(* Without a dispatcher, which is the default, the effects go nowhere.     *)
Dispatched(r, f) == Event("side_effect", r, System, f)
Undispatched(r) ==
  {f \in call[r].effects : r \in Dispatching /\ Dispatched(r, f) \notin events}

Dispatch(r) ==
  /\ Turn(r) /\ call[r].pc = "dispatching"
  /\ \E f \in Undispatched(r) : events' = events \cup {Dispatched(r, f)}
  /\ Hold(r)
  /\ UNCHANGED <<row, waitVars, res, grants, revoked, call>>

MutantReviews(r) == call[r].outcome = "governance_review" /\ r \in Wired
Reviews(r) == call[r].review /\ r \in Wired
AfterDispatch(r) ==
  /\ Turn(r) /\ call[r].pc = "dispatching"
  /\ Undispatched(r) = {}
  /\ Goes(r, [call[r] EXCEPT !.pc = IF Reviews(r) THEN "reviewing" ELSE "enforcing"])
  /\ Hold(r)
  /\ UNCHANGED <<row, waitVars, res, grants, revoked, events>>

(* open_review: the row is committed, then its event appended.             *)
OpenReview(r) ==
  /\ Turn(r) /\ call[r].pc = "reviewing"
  /\ events' = events \cup {Event("review_opened", r, System, "open")}
  /\ Goes(r, [call[r] EXCEPT !.pc = "enforcing"])
  /\ Hold(r)
  /\ UNCHANGED <<row, waitVars, res, grants, revoked>>

-----------------------------------------------------------------------------
(* The outcome map: what runs now, what is refused, what waits.            *)
RunsNow(r) == call[r].outcome \in Executable
MutantRefused(r) == ~ RunsNow(r) /\ r \notin Wired
Refused(r) == call[r].outcome = "deny" \/ (~ RunsNow(r) /\ r \notin Wired)
Waits(r) == ~ RunsNow(r) /\ ~ Refused(r)

RunOperation(r) ==
  /\ Goes(r, [call[r] EXCEPT !.pc = "ran"])
  /\ Release
  /\ UNCHANGED <<row, waitVars, res, grants, revoked, events>>

Deny(r) ==
  /\ Goes(r, [call[r] EXCEPT !.pc = "denied"])
  /\ Release
  /\ UNCHANGED <<row, waitVars, res, grants, revoked, events>>

Execute(r) ==
  /\ Turn(r) /\ call[r].pc = "enforcing"
  /\ RunsNow(r)
  /\ RunOperation(r)

Refuse(r) ==
  /\ Turn(r) /\ call[r].pc = "enforcing"
  /\ Refused(r)
  /\ Deny(r)

(* record_substitution precedes the parking of a substituted outcome.      *)
Substitution(r) == Event("enforcement_substitution", r, System, call[r].outcome)

RecordSubstitution(r) ==
  /\ Turn(r) /\ call[r].pc = "enforcing" /\ Waits(r)
  /\ call[r].outcome \in SubstitutedToApproval
  /\ events' = events \cup {Substitution(r)}
  /\ Goes(r, [call[r] EXCEPT !.pc = "parking"])
  /\ Hold(r)
  /\ UNCHANGED <<row, waitVars, res, grants, revoked>>

NeedsApproval(r) ==
  /\ Turn(r) /\ call[r].pc = "enforcing" /\ Waits(r)
  /\ call[r].outcome \notin SubstitutedToApproval
  /\ Goes(r, [call[r] EXCEPT !.pc = "parking"])
  /\ Hold(r)
  /\ UNCHANGED <<row, waitVars, res, grants, revoked, events>>

(* A request that is no governed call: ApprovalStore.create called by      *)
(* hand, with a decision of the caller's own.                              *)
FileRequest(r) ==
  /\ r \in ByHand /\ call[r].pc = "new"
  /\ File(r)
  /\ Goes(r, [NotCalled EXCEPT !.pc = "filed"])

(* park_and_wait creates the row and gives way to the first sleep.         *)
ParkCall(r) ==
  /\ call[r].pc = "parking"
  /\ Park(r)
  /\ Goes(r, [call[r] EXCEPT !.pc = "parked"])

(* It answers True for an approval, or for a timeout of a fail-open class. *)
(* (Others may step between the answer and its use; on a shared loop that  *)
(* only adds behaviours to the code's.)                                    *)
MutantMayRun(r) == verdict[r] # "denied"
MayRun(r) ==
  \/ verdict[r] = "approved"
  \/ verdict[r] = "timed_out" /\ r \in OpenClass

Resume(r) ==
  /\ Turn(r) /\ call[r].pc = "parked" /\ wait[r] = "returned"
  /\ IF MayRun(r) THEN RunOperation(r) ELSE Deny(r)

(* A failed append, create or commit, or a cancellation, ends the call     *)
(* with an exception; a wait that stopped takes its call with it.          *)
Raises(r) ==
  /\ Turn(r)
  /\ \/ call[r].pc \in {"evaluating", "reviewing", "parking"}
     \/ call[r].pc = "dispatching" /\ Undispatched(r) # {}
     \/ call[r].pc = "enforcing" /\ Waits(r) /\ call[r].outcome \in SubstitutedToApproval
     \/ call[r].pc = "parked" /\ wait[r] = "lost"
  /\ Goes(r, [call[r] EXCEPT !.pc = "raised"])
  /\ Release
  /\ UNCHANGED <<row, waitVars, res, grants, revoked, events>>

-----------------------------------------------------------------------------
Onward(r) ==
  \/ Dispatch(r)
  \/ AfterDispatch(r)
  \/ OpenReview(r)
  \/ Execute(r)
  \/ Refuse(r)
  \/ RecordSubstitution(r)
  \/ NeedsApproval(r)
  \/ ParkCall(r)
  \/ Resume(r)
  \/ Raises(r)

CallStep(r) ==
  \/ \E o \in Outcome, fx \in SUBSET SideEffects[r], fired \in BOOLEAN : Decided(r, o, fx, fired)
  \/ Onward(r)

(* The rows' own steps.  A restarted process may wait on a row again, for  *)
(* the caller of the wait that stopped is gone; and the filer on its own.  *)
ApprovalStep ==
  /\ \/ OperatorNext
     \/ \E r \in Requests :
          WaiterStep(r) \/ WaitStops(r) \/ (call[r].pc \in {"raised", "filed"} /\ WaitAgain(r))
  /\ UNCHANGED call

EnforcementNext ==
  \/ \E r \in Requests : Evaluate(r) \/ CallStep(r) \/ FileRequest(r)
  \/ ApprovalStep

EnforcementSpec == EnforcementInit /\ [][EnforcementNext]_allVars

(* The loop's ready queue is first in, first out: a step that is ready     *)
(* again and again is not passed over for ever, however often an operator  *)
(* or another call holds the loop before it.                               *)
EnforcementFairSpec ==
  /\ EnforcementSpec
  /\ \A r \in Requests :
       SF_allVars(CallStep(r)) /\ SF_allVars(WaiterStep(r) /\ UNCHANGED call)
  /\ \A s \in Resolvers : SF_allVars(ResolverStep(s) /\ UNCHANGED call)

-----------------------------------------------------------------------------
Pcs == Ended \cup {"new", "evaluating", "dispatching", "reviewing", "enforcing",
                   "parking", "parked", "filed"}

EnforcementTypeOK ==
  \A r \in Requests :
    call[r] \in [pc : Pcs, outcome : Outcome, effects : SUBSET SideEffects[r], review : BOOLEAN]

(* An operation ran only on an outcome that runs at once, or with a row    *)
(* that an operator approved or, in a fail-open class, that timed out: the *)
(* operation and the table never disagree (enforce.py, the outcome map).   *)
RanAsTheTableSays ==
  \A r \in Requests : call[r].pc = "ran" =>
    \/ call[r].outcome \in Executable
    \/ call[r].outcome # "deny" /\ row[r] = "approved"
    \/ call[r].outcome # "deny" /\ row[r] = "timed_out" /\ r \in OpenClass

(* "No event, no quiet proceed": when an operation ran, or its approval    *)
(* was asked for, what it owes is already on the chain: with a dispatcher  *)
(* every effect, with a coordinator the review, and the substitution       *)
(* (coordinator.py, dispatch; enforce.py, D5).  Nothing is claimed of the  *)
(* effects of a call made without a dispatcher, nor of the review of one   *)
(* made without a coordinator: governed_call drops them.                   *)
ObligationsPrecedeRun ==
  \A r \in Requests : call[r].pc \in {"ran", "parked"} =>
    /\ r \in Dispatching => \A f \in call[r].effects : Dispatched(r, f) \in events
    /\ call[r].review /\ r \in Wired => Event("review_opened", r, System, "open") \in events
    /\ call[r].outcome \in SubstitutedToApproval => Substitution(r) \in events

(* Every governed call ends: it runs, is denied or raises, whoever does or *)
(* does not answer (enforce.py, governed_call).                            *)
CallsEnd ==
  \A r \in Requests : call[r].pc = "evaluating" ~> call[r].pc \in Ended
=============================================================================
