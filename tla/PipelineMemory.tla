--------------------------- MODULE PipelineMemory ---------------------------
(***************************************************************************)
(* What Pipeline.evaluate (pipeline/runner.py) remembers from one action   *)
(* to the next: the windows of the sequence correlator and the verdicts of *)
(* the cached interpreter, used by evaluations that interleave at the      *)
(* await of the interpreter, beside reloads of the policy.                 *)
(***************************************************************************)
EXTENDS SequenceCorrelator, InterpreterCache, FiniteSets

CONSTANTS
  Evaluations,  \* the evaluations, one per action
  Classes,      \* the intent classes of the tagger
  Verdicts,     \* what the interpreter may answer
  Versions,     \* the constitutions that may be loaded
  MaxAttempts   \* how often the adapter asks for a well-formed verdict

ASSUME MemoryAssumption ==
  /\ Classes \subseteq STRING /\ Untagged \notin Classes
  /\ MaxAttempts \in Nat \ {0}

VARIABLES
  eval,      \* eval[e]: where evaluation e is, its request and its verdict
  version,   \* the version the policy engine holds
  observed,  \* the tagged actions, with the correlator's answers
  given      \* what the interpreter answered, with the request it was asked

vars == <<windows, entries, eval, version, observed, given>>

NotAsked == [pc |-> "new"]

Init ==
  /\ CorrelatorInit
  /\ CacheInit
  /\ eval = [e \in Evaluations |-> NotAsked]
  /\ version \in Versions
  /\ observed = <<>>
  /\ given = {}

Becomes(e, state) == eval' = [eval EXCEPT ![e] = state]

(* Up to the await, or to the end of the policy stage, an evaluation holds *)
(* the event loop.  A matched sequence, or any other principle, decides;   *)
(* when nothing matches the interpreter is asked.                          *)
Request(class) == [shape |-> class, version |-> version]

Note(key, class) ==
  observed' = IF class = Untagged THEN observed
              ELSE Append(observed, [key |-> key, class |-> class, refs |-> Matches(key, class)])

Decide(e, key, class) ==
  /\ eval[e].pc = "new"
  /\ Observe(key, class)
  /\ Note(key, class)
  /\ Becomes(e, [pc |-> "unadvised"])
  /\ UNCHANGED <<entries, version, given>>

AskInterpreter(e, key, class) ==
  /\ eval[e].pc = "new"
  /\ Matches(key, class) = {}
  /\ Observe(key, class)
  /\ Note(key, class)
  /\ Becomes(e, IF IsHit(Request(class))
                THEN [pc |-> "advised", request |-> Request(class),
                      verdict |-> Hit(Request(class))]
                ELSE [pc |-> "awaiting", request |-> Request(class), refused |-> 0])
  /\ UNCHANGED <<entries, version, given>>

(* The interpreter answers and the verdict is cached under the request's   *)
(* own key, whatever was reloaded or cached during the await ...           *)
Answers(e, verdict) ==
  /\ eval[e].pc = "awaiting"
  /\ Store(eval[e].request, verdict)
  /\ given' = given \cup {[request |-> eval[e].request, verdict |-> verdict]}
  /\ Becomes(e, [pc |-> "advised", request |-> eval[e].request, verdict |-> verdict])
  /\ UNCHANGED <<windows, version, observed>>

(* ... or it answers what is not a verdict: the adapter asks again, the    *)
(* same request, until it gives up and raises ...                          *)
Malformed(e) ==
  /\ eval[e].pc = "awaiting"
  /\ Becomes(e, IF eval[e].refused + 1 < MaxAttempts
                THEN [eval[e] EXCEPT !.refused = @ + 1] ELSE [pc |-> "unadvised"])
  /\ UNCHANGED <<windows, entries, version, observed, given>>

(* ... or the service raises, at any attempt, and nothing is cached.       *)
Fails(e) ==
  /\ eval[e].pc = "awaiting"
  /\ Becomes(e, [pc |-> "unadvised"])
  /\ UNCHANGED <<windows, entries, version, observed, given>>

(* reload swaps the policy; whether the cache is emptied is up to whoever  *)
(* reloads, and the windows and the declared sequences stay.               *)
Reload ==
  /\ version' \in Versions \ {version}
  /\ UNCHANGED <<windows, entries, eval, observed, given>>

EmptyCache ==
  /\ entries # <<>>
  /\ Invalidate
  /\ UNCHANGED <<windows, eval, version, observed, given>>

Next ==
  \/ \E e \in Evaluations, key \in Conversations, class \in Classes \cup {Untagged} :
       Decide(e, key, class) \/ AskInterpreter(e, key, class)
  \/ \E e \in Evaluations, verdict \in Verdicts : Answers(e, verdict)
  \/ \E e \in Evaluations : Malformed(e) \/ Fails(e)
  \/ Reload
  \/ EmptyCache

Spec == Init /\ [][Next]_vars

-----------------------------------------------------------------------------
RequestType == [shape : Classes \cup {Untagged}, version : Versions]
State ==
  [pc : {"new", "unadvised"}]
    \cup [pc : {"awaiting"}, request : RequestType, refused : 0..(MaxAttempts - 1)]
    \cup [pc : {"advised"}, request : RequestType, verdict : Verdicts]

(* The memory is bounded whatever arrives, and holds each key once.        *)
MemoryTypeOK ==
  /\ \A i \in DOMAIN windows :
       /\ windows[i].key \in Conversations
       /\ windows[i].seen \in Seq(Classes) /\ Len(windows[i].seen) \in 1..Window
       /\ Positions(windows[i].key) = {i}
  /\ Len(windows) <= MaxConversations
  /\ \A i \in DOMAIN entries :
       /\ entries[i].verdict \in Verdicts
       /\ \A j \in DOMAIN entries : entries[j].key = entries[i].key => i = j
  /\ Len(entries) <= MaxEntries
  /\ eval \in [Evaluations -> State]
  /\ version \in Versions

(* The actions before the i-th one in its conversation, and the last Window *)
(* of them.  (Earlier answers were checked when they were the latest.)     *)
Latest == {Len(observed)} \ {0}
Earlier(i) == {j \in 1..(i - 1) : observed[j].key = observed[i].key}
Recent(i) == {j \in Earlier(i) : Cardinality({k \in Earlier(i) : k >= j}) <= Window}

(* The steps of r happened in order at positions of P, the last one at i.  *)
Happened(r, i, P) ==
  LET steps == Forbidden[r]
      n == Len(steps)
  IN /\ observed[i].class = steps[n]
     /\ \E at \in [1..(n - 1) -> P] :
          /\ \A k \in 1..(n - 1) : observed[at[k]].class = steps[k]
          /\ \A k, l \in 1..(n - 1) : k < l => at[k] < at[l]

(* A principle fires on a sequence only when its steps really happened, in *)
(* that order and in that conversation (sequence.py, "Matching semantics").*)
MatchesHappened ==
  \A i \in Latest : \A r \in observed[i].refs : Happened(r, i, Earlier(i))

(* Conversations seen since the first tagged action of the i-th one's.     *)
Rivals(i) ==
  {observed[j].key : j \in {k \in 1..i : \E f \in Earlier(i) : f <= k}}

(* Within the documented bounds no forbidden sequence is missed: its steps *)
(* are in the last Window of the conversation, and at most MaxConversations*)
(* were active since it began ("Detection bounds").                        *)
SequencesCaught ==
  \A i \in Latest : \A r \in DOMAIN Forbidden :
    (Happened(r, i, Recent(i)) /\ Cardinality(Rivals(i)) <= MaxConversations)
      => r \in observed[i].refs

(* An evaluation is advised only by a verdict the interpreter gave on the  *)
(* same shape under the same versions: none survives a reload, not even    *)
(* one that was under way (cache.py, module docstring).                    *)
AdvisedByItsOwnVersion ==
  \A e \in Evaluations : eval[e].pc = "advised" =>
    [request |-> eval[e].request, verdict |-> eval[e].verdict] \in given
=============================================================================
