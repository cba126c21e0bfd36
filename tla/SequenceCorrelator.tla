------------------------- MODULE SequenceCorrelator -------------------------
(***************************************************************************)
(* SequenceCorrelator (pipeline/sequence.py): a bounded window of the      *)
(* intent classes of each conversation, matched against the forbidden      *)
(* sequences of the constitution.                                          *)
(***************************************************************************)
EXTENDS Naturals, Sequences

CONSTANTS
  Conversations,    \* the keys of the windows
  Forbidden,        \* Forbidden[r]: the intent classes of sequence principle r
  Window,           \* classes kept of one conversation
  MaxConversations  \* conversations kept

Untagged == "untagged"

ASSUME CorrelatorAssumption ==
  /\ Window \in Nat \ {0} /\ MaxConversations \in Nat \ {0}
  /\ \A r \in DOMAIN Forbidden : Forbidden[r] \in Seq(STRING) /\ Forbidden[r] # <<>>

VARIABLE windows   \* the conversations kept, oldest first, with what was seen of each

LastN(s, n) == IF Len(s) <= n THEN s ELSE SubSeq(s, Len(s) - n + 1, Len(s))
FirstOf(S) == CHOOSE i \in S : \A j \in S : i <= j

(* One iterator over the haystack serves every class of the needle:        *)
(* reach[n] is where it stands once the first n classes were found.        *)
MutantOrderedSubsequence(needle, haystack) ==
  \A n \in 1..Len(needle) : \E i \in 1..Len(haystack) : haystack[i] = needle[n]
OrderedSubsequence(needle, haystack) ==
  LET reach[n \in 0..Len(needle)] ==
        IF n = 0 THEN 0
        ELSE LET later == {i \in (reach[n - 1] + 1)..Len(haystack) : haystack[i] = needle[n]}
             IN IF later = {} THEN Len(haystack) + 1 ELSE FirstOf(later)
  IN reach[Len(needle)] <= Len(haystack)

Positions(key) == {i \in DOMAIN windows : windows[i].key = key}
Seen(key) == IF Positions(key) = {} THEN <<>> ELSE windows[FirstOf(Positions(key))].seen

(* The principles whose sequence ends at this action.                      *)
MatchedRefs(key, class) ==
  {r \in DOMAIN Forbidden :
     LET steps == Forbidden[r] IN
     /\ steps[Len(steps)] = class
     /\ OrderedSubsequence(SubSeq(steps, 1, Len(steps) - 1), Seen(key))}

(* A new conversation pushes out the one that was opened first.            *)
MutantOpened(key) ==
  IF Positions(key) # {} THEN windows
  ELSE LastN(Append(windows, [key |-> key, seen |-> <<>>]), MaxConversations - 1)
Opened(key) ==
  IF Positions(key) # {} THEN windows
  ELSE LastN(Append(windows, [key |-> key, seen |-> <<>>]), MaxConversations)

(* observe: the answer is MatchedRefs, before the class is recorded.       *)
Recorded(key, class) ==
  [i \in DOMAIN Opened(key) |->
     IF Opened(key)[i].key = key
     THEN [key |-> key, seen |-> LastN(Append(Seen(key), class), Window)]
     ELSE Opened(key)[i]]

Observe(key, class) ==
  windows' = IF class = Untagged THEN windows ELSE Recorded(key, class)

Matches(key, class) == IF class = Untagged THEN {} ELSE MatchedRefs(key, class)

CorrelatorInit == windows = <<>>
=============================================================================
