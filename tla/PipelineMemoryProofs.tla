------------------------ MODULE PipelineMemoryProofs ------------------------
(***************************************************************************)
(* For any actions, conversations, sequences and bounds: what the          *)
(* correlator remembers of a conversation is the end of what happened in   *)
(* it, a principle fires only on what happened, within the documented      *)
(* bounds no sequence is missed, and no verdict crosses a reload.          *)
(***************************************************************************)
EXTENDS PipelineMemory, FiniteSetTheorems, WellFoundedInduction, TLAPS

WindowRecords == [key : Conversations, seen : Seq(Classes)]
Tagged == [key : Conversations, class : Classes, refs : SUBSET DOMAIN Forbidden]
Verdict == [key : RequestType, verdict : Verdicts]

WindowsInv ==
  /\ windows \in Seq(WindowRecords) /\ Len(windows) <= MaxConversations
  /\ \A i \in 1..Len(windows) : Len(windows[i].seen) \in 1..Window
  /\ \A i, j \in 1..Len(windows) : windows[i].key = windows[j].key => i = j
  /\ observed \in Seq(Tagged)

(* Every cached verdict was given on the request it is cached under.       *)
VerdictsInv ==
  /\ entries \in Seq(Verdict) /\ Len(entries) <= MaxEntries
  /\ \A i, j \in 1..Len(entries) : entries[i].key = entries[j].key => i = j
  /\ \A i \in 1..Len(entries) :
       [request |-> entries[i].key, verdict |-> entries[i].verdict] \in given

EvaluationsInv ==
  /\ eval \in [Evaluations -> State]
  /\ version \in Versions

ActionsOf(key, obs) == {j \in 1..Len(obs) : obs[j].key = key}

(* seen is the end of the conversation in obs: at places its classes, and  *)
(* no action of the conversation after the first of them is left out.      *)
Follows(seen, key, obs, at) ==
  /\ at \in [1..Len(seen) -> ActionsOf(key, obs)]
  /\ \A k, l \in 1..Len(seen) : k < l => at[k] < at[l]
  /\ \A k \in 1..Len(seen) : obs[at[k]].class = seen[k]
  /\ \A j \in ActionsOf(key, obs), k \in 1..Len(seen) :
       at[k] <= j => \E l \in 1..Len(seen) : at[l] = j

EndsOfConversations ==
  \A i \in 1..Len(windows) : \E at : Follows(windows[i].seen, windows[i].key, observed, at)

(* A conversation that began at f and since when few others were active    *)
(* still has its window, which reaches back to f unless it is full; those  *)
(* opened later belong to actions since f.                                 *)
Since(f, obs) == {obs[j].key : j \in f..Len(obs)}
Began(f, obs) == \A j \in ActionsOf(obs[f].key, obs) : f <= j
Remembered(f) ==
  \E p \in 1..Len(windows) : \E at :
    /\ windows[p].key = observed[f].key
    /\ \A q \in p..Len(windows) : windows[q].key \in Since(f, observed)
    /\ Follows(windows[p].seen, windows[p].key, observed, at)
    /\ Len(windows[p].seen) = Window \/ at[1] = f
NothingLost ==
  \A f \in 1..Len(observed) :
    Began(f, observed) /\ Cardinality(Since(f, observed)) <= MaxConversations => Remembered(f)

IInv == WindowsInv /\ VerdictsInv /\ EvaluationsInv
CorrelatorInv == EndsOfConversations /\ NothingLost

-----------------------------------------------------------------------------
(* Induction, as the least counterexample of a set of numbers.             *)
LEMMA HasLeast ==
  ASSUME NEW S \in SUBSET Nat, S # {}
  PROVE  \E e \in S : \A f \in S : e <= f
<1> DEFINE R == OpToRel(<, Nat)
<1>1. IsWellFoundedOn(R, Nat)
  BY NatLessThanWellFounded
<1>2. PICK e \in S : \A f \in S : <<f, e>> \notin R
  <2> HIDE DEF R
  <2> QED
    BY <1>1, WFMin
<1>3. \A f \in S : f < e => <<f, e>> \in R
  <2> TAKE f \in S
  <2> HAVE f < e
  <2>1. <<f, e>> \in Nat \X Nat /\ <<f, e>>[1] < <<f, e>>[2]
    OBVIOUS
  <2> QED
    BY <2>1 DEF OpToRel
<1>4. \A f \in S : e <= f
  <2> HIDE DEF R
  <2> TAKE f \in S
  <2>1. e \in Nat /\ f \in Nat /\ ~ (f < e)
    BY <1>2, <1>3
  <2> QED
    BY <2>1
<1> QED
  BY <1>4

(* A set that holds 0, and n + 1 with every n below m, holds all up to m.  *)
LEMMA UpTo ==
  ASSUME NEW m \in Nat, NEW S, 0 \in S, \A n \in 0..(m - 1) : n \in S => n + 1 \in S
  PROVE  0..m \subseteq S
<1> DEFINE Missed == (0..m) \ S
<1> SUFFICES ASSUME Missed # {} PROVE FALSE
  OBVIOUS
<1>1. PICK e \in Missed : \A f \in Missed : e <= f
  <2>1. Missed \in SUBSET Nat
    OBVIOUS
  <2> QED
    BY <2>1, HasLeast
<1>2. e # 0 /\ e - 1 \in 0..(m - 1) /\ e - 1 \in S
  BY <1>1
<1> QED
  BY <1>1, <1>2

(* The least place of a set that has one.                                  *)
LEMMA FirstOfHolds ==
  ASSUME NEW S \in SUBSET Nat, S # {}
  PROVE  FirstOf(S) \in S /\ \A j \in S : FirstOf(S) <= j
<1>1. \E i \in S : \A j \in S : i <= j
  BY HasLeast
<1> QED
  BY <1>1 DEF FirstOf

(* A sequence one longer than n loses its first element, no other any.     *)
LEMMA LastNHolds ==
  ASSUME NEW X, NEW s \in Seq(X), NEW n \in Nat, Len(s) <= n + 1
  PROVE  /\ Len(s) <= n => LastN(s, n) = s
         /\ Len(s) = n + 1 => /\ LastN(s, n) \in Seq(X) /\ Len(LastN(s, n)) = n
                              /\ \A i \in 1..n : LastN(s, n)[i] = s[i + 1]
<1>1. Len(s) <= n => LastN(s, n) = s
  BY DEF LastN
<1>2. ASSUME Len(s) = n + 1
      PROVE  /\ LastN(s, n) \in Seq(X) /\ Len(LastN(s, n)) = n
             /\ \A i \in 1..n : LastN(s, n)[i] = s[i + 1]
  <2>1. LastN(s, n) = SubSeq(s, 2, n + 1)
    BY <1>2 DEF LastN
  <2>2. SubSeq(s, 2, n + 1) = [i \in 1..n |-> s[i + 1]]
    BY <1>2
  <2> QED
    BY <1>2, <2>1, <2>2
<1> QED
  BY <1>1, <1>2

-----------------------------------------------------------------------------
(* The entries of the interpreter's cache.                                 *)
LEMMA InitMemory == Init => IInv
BY CorrelatorAssumption, CacheAssumption
   DEF Init, CorrelatorInit, CacheInit, IInv, WindowsInv, VerdictsInv, EvaluationsInv,
       NotAsked, State

LEMMA KeyIsRequest ==
  ASSUME NEW request \in RequestType
  PROVE  Key(request) = request
BY DEF Key, RequestType

LEMMA StoreKeeps ==
  ASSUME VerdictsInv, NEW request \in RequestType, NEW verdict \in Verdicts,
         Store(request, verdict),
         given' = given \cup {[request |-> request, verdict |-> verdict]}
  PROVE  VerdictsInv'
<1> DEFINE entry == [key |-> request, verdict |-> verdict]
<1> DEFINE Given(e) == [request |-> e.key, verdict |-> e.verdict] \in given'
<1>1. entry \in Verdict /\ Given(entry)
  BY DEF Verdict
<1>2. /\ entries \in Seq(Verdict) /\ Len(entries) <= MaxEntries /\ Len(entries) \in Nat
      /\ \A i, j \in 1..Len(entries) : entries[i].key = entries[j].key => i = j
      /\ \A i \in 1..Len(entries) : Given(entries[i])
      /\ DOMAIN entries = 1..Len(entries)
      /\ MaxEntries \in Nat \ {0}
  BY CacheAssumption DEF VerdictsInv
<1>3. Key(request) = request
  BY KeyIsRequest
<1> SUFFICES /\ entries' \in Seq(Verdict) /\ Len(entries') <= MaxEntries
             /\ \A i, j \in 1..Len(entries') : entries'[i].key = entries'[j].key => i = j
             /\ \A i \in 1..Len(entries') : Given(entries'[i])
  BY DEF VerdictsInv
<1> HIDE DEF Given
<1>4. CASE Holds(request)
  <2> DEFINE c == Cached(request)
  <2>1. c \in DOMAIN entries /\ entries[c].key = request
    BY <1>4 DEF Holds, Cached
  <2>2. entries' = [entries EXCEPT ![c] = entry]
    BY <1>3, <1>4 DEF Store
  <2> HIDE DEF c
  <2>3. entries' \in Seq(Verdict) /\ Len(entries') = Len(entries)
    BY <1>1, <1>2, <2>1, <2>2
  <2>4. \A i \in 1..Len(entries) : entries'[i].key = entries[i].key
    BY <1>2, <2>1, <2>2
  <2>5. \A i \in 1..Len(entries) : Given(entries'[i])
    BY <1>1, <1>2, <2>1, <2>2
  <2> QED
    BY <1>2, <2>3, <2>4, <2>5
<1>5. CASE ~ Holds(request)
  <2> DEFINE s == Append(entries, entry)
  <2>1. /\ s \in Seq(Verdict) /\ Len(s) = Len(entries) + 1
        /\ \A i \in 1..Len(entries) : s[i] = entries[i]
        /\ s[Len(entries) + 1] = entry
    BY <1>1, <1>2
  <2>2. \A i \in 1..Len(entries) : entries[i].key # request
    BY <1>2, <1>5 DEF Holds
  <2>3. entries' = Trim(s)
    BY <1>3, <1>5 DEF Store
  <2>4. entry.key = request
    OBVIOUS
  <2> HIDE DEF s, entry
  <2>5. \A i \in 1..Len(s) : i \in 1..Len(entries) \/ i = Len(entries) + 1
    BY <1>2, <2>1
  <2>6. \A i, j \in 1..Len(s) : s[i].key = s[j].key => i = j
    BY <1>2, <2>1, <2>2, <2>4, <2>5
  <2>7. \A i \in 1..Len(s) : Given(s[i])
    BY <1>1, <1>2, <2>1, <2>5
  <2>8. CASE Len(s) > MaxEntries
    <3>1. entries' = Tail(s)
      BY <2>3, <2>8 DEF Trim
    <3>2. /\ entries' \in Seq(Verdict) /\ Len(entries') = Len(s) - 1
          /\ \A i \in 1..Len(entries') : i + 1 \in 1..Len(s) /\ entries'[i] = s[i + 1]
      BY <1>2, <2>1, <3>1
    <3>3. \A i \in 1..Len(entries') : Given(entries'[i])
      BY <2>7, <3>2
    <3>4. ASSUME NEW i \in 1..Len(entries'), NEW j \in 1..Len(entries'),
                 entries'[i].key = entries'[j].key
          PROVE  i = j
      <4>1. /\ i + 1 \in 1..Len(s) /\ entries'[i] = s[i + 1]
            /\ j + 1 \in 1..Len(s) /\ entries'[j] = s[j + 1]
        BY <3>2
      <4>2. i + 1 = j + 1
        BY <2>6, <3>4, <4>1
      <4> QED
        BY <4>2
    <3>5. Len(entries') <= MaxEntries
      BY <1>2, <2>1, <3>2
    <3> QED
      BY <3>2, <3>3, <3>4, <3>5
  <2>9. CASE ~ (Len(s) > MaxEntries)
    <3>1. entries' = s
      BY <2>3, <2>9 DEF Trim
    <3>2. Len(s) <= MaxEntries
      BY <1>2, <2>1, <2>9
    <3> QED
      BY <2>1, <2>6, <2>7, <3>1, <3>2
  <2> QED
    BY <2>8, <2>9
<1> QED
  BY <1>4, <1>5

(* A hit answers what was given on the request.                            *)
LEMMA HitWasGiven ==
  ASSUME VerdictsInv, NEW request \in RequestType, IsHit(request)
  PROVE  /\ Hit(request) \in Verdicts
         /\ [request |-> request, verdict |-> Hit(request)] \in given
<1>1. Key(request) = request
  BY KeyIsRequest
<1> DEFINE c == Cached(request)
<1>2. c \in DOMAIN entries /\ entries[c].key = request /\ Hit(request) = entries[c].verdict
  BY <1>1 DEF IsHit, Hit, Holds, Cached
<1> HIDE DEF c
<1>3. c \in 1..Len(entries) /\ entries[c] \in Verdict
  BY <1>2 DEF VerdictsInv
<1> QED
  BY <1>2, <1>3 DEF VerdictsInv, Verdict

-----------------------------------------------------------------------------
(* The windows.                                                            *)
LEMMA SeenHolds ==
  ASSUME WindowsInv, NEW key \in Conversations
  PROVE  /\ Seen(key) \in Seq(Classes) /\ Len(Seen(key)) \in 0..Window
         /\ Positions(key) = {} => Seen(key) = <<>>
         /\ Positions(key) # {} => \E i \in 1..Len(windows) :
              Positions(key) = {i} /\ windows[i].key = key /\ Seen(key) = windows[i].seen
<1>1. /\ windows \in Seq(WindowRecords) /\ DOMAIN windows = 1..Len(windows)
      /\ \A i \in 1..Len(windows) : Len(windows[i].seen) \in 1..Window
      /\ \A i, j \in 1..Len(windows) : windows[i].key = windows[j].key => i = j
      /\ Window \in Nat \ {0} /\ Len(windows) \in Nat
  BY CorrelatorAssumption DEF WindowsInv
<1>2. CASE Positions(key) = {}
  BY <1>1, <1>2 DEF Seen
<1>3. CASE Positions(key) # {}
  <2>1. PICK i \in 1..Len(windows) : windows[i].key = key
    BY <1>1, <1>3 DEF Positions
  <2>2. Positions(key) = {i}
    BY <1>1, <2>1 DEF Positions
  <2>3. FirstOf({i}) = i
    <3>1. {i} \in SUBSET Nat /\ {i} # {}
      BY <1>1
    <3> QED
      BY <3>1, FirstOfHolds
  <2>4. Seen(key) = windows[i].seen
    BY <2>2, <2>3 DEF Seen
  <2>5. windows[i].seen \in Seq(Classes)
    <3>1. windows[i] \in WindowRecords
      BY <1>1
    <3> QED
      BY <3>1 DEF WindowRecords
  <2> QED
    BY <1>1, <2>1, <2>2, <2>4, <2>5
<1> QED
  BY <1>2, <1>3

(* What the window of an action's conversation becomes.                    *)
Extended(seen, class) == LastN(Append(seen, class), Window)

LEMMA ExtendedHolds ==
  ASSUME NEW seen \in Seq(Classes), Len(seen) \in 0..Window, NEW class \in Classes
  PROVE  /\ Extended(seen, class) \in Seq(Classes)
         /\ Len(seen) < Window =>
              /\ Len(Extended(seen, class)) = Len(seen) + 1
              /\ \A i \in 1..Len(seen) : Extended(seen, class)[i] = seen[i]
              /\ Extended(seen, class)[Len(seen) + 1] = class
         /\ Len(seen) = Window =>
              /\ Len(Extended(seen, class)) = Window
              /\ \A i \in 1..(Window - 1) : Extended(seen, class)[i] = seen[i + 1]
              /\ Extended(seen, class)[Window] = class
<1> DEFINE s == Append(seen, class)
<1>1. /\ s \in Seq(Classes) /\ Len(s) = Len(seen) + 1 /\ Len(seen) \in Nat
      /\ \A i \in 1..Len(seen) : s[i] = seen[i]
      /\ s[Len(seen) + 1] = class
      /\ Window \in Nat \ {0}
  BY CorrelatorAssumption
<1>2. Extended(seen, class) = LastN(s, Window)
  BY DEF Extended
<1> HIDE DEF s
<1>3. CASE Len(seen) < Window
  <2>1. Len(s) <= Window
    BY <1>1, <1>3
  <2>2. LastN(s, Window) = s
    BY <1>1, <2>1, LastNHolds
  <2> QED
    BY <1>1, <1>2, <1>3, <2>2
<1>4. CASE Len(seen) = Window
  <2>1. Len(s) = Window + 1
    BY <1>1, <1>4
  <2> DEFINE t == LastN(s, Window)
  <2>2. t \in Seq(Classes) /\ Len(t) = Window /\ \A i \in 1..Window : t[i] = s[i + 1]
    BY <1>1, <2>1, LastNHolds
  <2> HIDE DEF t
  <2>3. \A i \in 1..(Window - 1) : t[i] = seen[i + 1]
    <3> TAKE i \in 1..(Window - 1)
    <3>1. i \in 1..Window /\ i + 1 \in 1..Len(seen)
      BY <1>1, <1>4
    <3> QED
      BY <1>1, <2>2, <3>1
  <2>4. t[Window] = class
    <3>1. Window \in 1..Window
      BY <1>1
    <3> QED
      BY <1>1, <1>4, <2>2, <3>1
  <2> QED
    BY <1>1, <1>2, <1>4, <2>2, <2>3, <2>4 DEF t
<1> QED
  BY <1>1, <1>3, <1>4

(* The windows after an action: that of its conversation is at p, the      *)
(* others have moved by d, and d = 1 only when the first one was pushed    *)
(* out by a new one.                                                       *)
Moved(key, class, w, p, d) ==
  /\ w \in Seq(WindowRecords) /\ Len(w) <= MaxConversations
  /\ p \in 1..Len(w) /\ w[p] = [key |-> key, seen |-> Extended(Seen(key), class)]
  /\ \A i \in 1..Len(w) : i # p => /\ i + d \in 1..Len(windows) /\ w[i] = windows[i + d]
                                   /\ w[i].key # key
  /\ \/ /\ d = 0 /\ Len(w) = Len(windows)
        /\ windows[p].key = key /\ Seen(key) = windows[p].seen
     \/ /\ p = Len(w) /\ Len(w) + d = Len(windows) + 1
        /\ Positions(key) = {} /\ Seen(key) = <<>>
        /\ d = 1 => Len(windows) >= MaxConversations

LEMMA RecordedMoves ==
  ASSUME WindowsInv, NEW key \in Conversations, NEW class \in Classes
  PROVE  \E p \in 1..Len(Recorded(key, class)), d \in {0, 1} :
           Moved(key, class, Recorded(key, class), p, d)
<1> DEFINE new == [key |-> key, seen |-> Extended(Seen(key), class)]
<1> DEFINE w == Recorded(key, class)
<1>1. /\ windows \in Seq(WindowRecords) /\ DOMAIN windows = 1..Len(windows)
      /\ Len(windows) \in Nat /\ Len(windows) <= MaxConversations
      /\ \A i, j \in 1..Len(windows) : windows[i].key = windows[j].key => i = j
      /\ MaxConversations \in Nat \ {0}
  BY CorrelatorAssumption DEF WindowsInv
<1>2. new \in WindowRecords
  BY SeenHolds, ExtendedHolds DEF WindowRecords
<1>3. w = [i \in DOMAIN Opened(key) |-> IF Opened(key)[i].key = key THEN new ELSE Opened(key)[i]]
  BY DEF Recorded, Extended
<1> HIDE DEF new, w
<1>4. CASE Positions(key) # {}
  <2>1. PICK p \in 1..Len(windows) :
          Positions(key) = {p} /\ windows[p].key = key /\ Seen(key) = windows[p].seen
    BY <1>4, SeenHolds
  <2>2. Opened(key) = windows
    BY <1>4 DEF Opened
  <2>3. w = [i \in 1..Len(windows) |-> IF windows[i].key = key THEN new ELSE windows[i]]
    BY <1>1, <1>3, <2>2
  <2>4. w \in Seq(WindowRecords) /\ Len(w) = Len(windows)
    BY <1>1, <1>2, <2>3
  <2>5. w[p] = new
    BY <2>1, <2>3
  <2>6. \A i \in 1..Len(w) : i # p => w[i] = windows[i] /\ windows[i].key # key
    BY <1>1, <2>1, <2>3, <2>4
  <2>7. \A i \in 1..Len(w) : i # p => /\ i + 0 \in 1..Len(windows) /\ w[i] = windows[i + 0]
                                      /\ w[i].key # key
    BY <1>1, <2>4, <2>6
  <2>8. Moved(key, class, w, p, 0)
    BY <1>1, <2>1, <2>4, <2>5, <2>7 DEF Moved, new
  <2> QED
    BY <2>1, <2>4, <2>8 DEF w
<1>5. CASE Positions(key) = {}
  <2> DEFINE fresh == [key |-> key, seen |-> <<>>]
  <2> DEFINE s == Append(windows, fresh)
  <2> DEFINE o == LastN(s, MaxConversations)
  <2>1. fresh \in WindowRecords /\ fresh.key = key
    BY DEF WindowRecords
  <2>2. /\ s \in Seq(WindowRecords) /\ Len(s) = Len(windows) + 1
        /\ \A i \in 1..Len(windows) : s[i] = windows[i]
        /\ s[Len(windows) + 1] = fresh
    BY <1>1, <2>1
  <2>3. Opened(key) = o
    BY <1>5 DEF Opened
  <2>4. \A i \in 1..Len(windows) : windows[i].key # key
    BY <1>1, <1>5 DEF Positions
  <2>5. Seen(key) = <<>>
    BY <1>5, SeenHolds
  <2> HIDE DEF fresh, s
  <2>6. PICK d \in {0, 1} :
          /\ o \in Seq(WindowRecords) /\ Len(o) <= MaxConversations
          /\ Len(o) + d = Len(windows) + 1 /\ Len(o) # 0
          /\ d = 1 => Len(windows) >= MaxConversations
          /\ \A i \in 1..Len(o) : o[i] = s[i + d]
    <3>1. CASE Len(s) <= MaxConversations
      <4>1. o = s
        BY <1>1, <2>2, <3>1, LastNHolds
      <4>2. \A i \in 1..Len(o) : o[i] = s[i + 0]
        BY <2>2, <4>1
      <4>3. Len(o) + 0 = Len(windows) + 1 /\ Len(o) # 0
        BY <1>1, <2>2, <4>1
      <4> HIDE DEF o
      <4> QED
        BY <2>2, <3>1, <4>1, <4>2, <4>3
    <3>2. CASE ~ (Len(s) <= MaxConversations)
      <4>1. Len(s) = MaxConversations + 1
        BY <1>1, <2>2, <3>2
      <4>2. /\ o \in Seq(WindowRecords) /\ Len(o) = MaxConversations
            /\ \A i \in 1..Len(o) : o[i] = s[i + 1]
        BY <1>1, <2>2, <4>1, LastNHolds
      <4> HIDE DEF o
      <4>3. Len(windows) >= MaxConversations
        BY <1>1, <2>2, <3>2
      <4>5. Len(o) + 1 = Len(windows) + 1 /\ Len(o) # 0
        BY <1>1, <2>2, <4>1, <4>2
      <4>4. Len(o) <= MaxConversations
        BY <1>1, <4>2
      <4> QED
        BY <4>2, <4>3, <4>4, <4>5
    <3> QED
      BY <3>1, <3>2
  <2> HIDE DEF o
  <2>7. Len(o) \in 1..Len(o) /\ DOMAIN o = 1..Len(o) /\ o[Len(o)] = fresh
    <3>1. Len(o) \in 1..Len(o) /\ DOMAIN o = 1..Len(o) /\ Len(o) + d = Len(windows) + 1
      BY <2>6
    <3> QED
      BY <2>2, <2>6, <3>1
  <2>8. ASSUME NEW i \in 1..Len(o), i # Len(o)
        PROVE  i + d \in 1..Len(windows) /\ o[i] = windows[i + d] /\ o[i].key # key
    <3>1. i + d \in 1..Len(windows)
      BY <1>1, <2>6, <2>8
    <3> QED
      BY <2>2, <2>4, <2>6, <3>1
  <2>9. w = [i \in 1..Len(o) |-> IF o[i].key = key THEN new ELSE o[i]]
    BY <1>3, <2>3, <2>7
  <2>10. w \in Seq(WindowRecords) /\ Len(w) = Len(o)
    BY <1>2, <2>6, <2>9
  <2>11. w[Len(o)] = new
    BY <2>1, <2>7, <2>9
  <2>12. \A i \in 1..Len(w) : i # Len(o) =>
           i + d \in 1..Len(windows) /\ w[i] = windows[i + d] /\ w[i].key # key
    BY <2>8, <2>9, <2>10
  <2>13. Moved(key, class, w, Len(o), d)
    BY <1>5, <2>5, <2>6, <2>7, <2>10, <2>11, <2>12 DEF Moved, new
  <2> QED
    BY <2>7, <2>10, <2>13 DEF w
<1> QED
  BY <1>4, <1>5

LEMMA MovedKeeps ==
  ASSUME WindowsInv, NEW key \in Conversations, NEW class \in Classes,
         NEW p, NEW d \in {0, 1}, Moved(key, class, windows', p, d), observed' \in Seq(Tagged)
  PROVE  WindowsInv'
<1> DEFINE w == windows'
<1>1. /\ windows \in Seq(WindowRecords) /\ Len(windows) \in Nat
      /\ \A i \in 1..Len(windows) : Len(windows[i].seen) \in 1..Window
      /\ \A i, j \in 1..Len(windows) : windows[i].key = windows[j].key => i = j
      /\ Window \in Nat \ {0}
  BY CorrelatorAssumption DEF WindowsInv
<1>2. /\ w \in Seq(WindowRecords) /\ Len(w) <= MaxConversations
      /\ p \in 1..Len(w) /\ w[p] = [key |-> key, seen |-> Extended(Seen(key), class)]
      /\ \A i \in 1..Len(w) : i # p => /\ i + d \in 1..Len(windows) /\ w[i] = windows[i + d]
                                       /\ w[i].key # key
  BY DEF Moved
<1> HIDE DEF w
<1>3. Len(w[p].seen) \in 1..Window /\ w[p].key = key
  <2>1. Seen(key) \in Seq(Classes) /\ Len(Seen(key)) \in 0..Window
    BY SeenHolds
  <2>2. Len(Seen(key)) < Window \/ Len(Seen(key)) = Window
    BY <1>1, <2>1
  <2>3. Len(Extended(Seen(key), class)) \in 1..Window
    BY <1>1, <2>1, <2>2, ExtendedHolds
  <2> QED
    BY <1>2, <2>3
<1>4. \A i \in 1..Len(w) : Len(w[i].seen) \in 1..Window
  BY <1>1, <1>2, <1>3
<1>5. ASSUME NEW i \in 1..Len(w), NEW j \in 1..Len(w), w[i].key = w[j].key
      PROVE  i = j
  <2>1. CASE i = p \/ j = p
    BY <1>2, <1>3, <1>5, <2>1
  <2>2. CASE i # p /\ j # p
    <3>1. /\ i + d \in 1..Len(windows) /\ w[i] = windows[i + d]
          /\ j + d \in 1..Len(windows) /\ w[j] = windows[j + d]
      BY <1>2, <2>2
    <3>2. i + d = j + d
      BY <1>1, <1>5, <3>1
    <3> QED
      BY <1>2, <3>2
  <2> QED
    BY <2>1, <2>2
<1> QED
  BY <1>2, <1>4, <1>5 DEF WindowsInv, w

(* What a tagged action does to the windows and the log of observations.   *)
LEMMA TaggedObserved ==
  ASSUME WindowsInv, NEW key \in Conversations, NEW class \in Classes,
         Observe(key, class), Note(key, class)
  PROVE  /\ \E p \in 1..Len(windows'), d \in {0, 1} : Moved(key, class, windows', p, d)
         /\ observed' = Append(observed, [key |-> key, class |-> class,
                                          refs |-> MatchedRefs(key, class)])
         /\ [key |-> key, class |-> class, refs |-> MatchedRefs(key, class)] \in Tagged
<1>1. class # Untagged
  BY MemoryAssumption
<1>2. windows' = Recorded(key, class)
  BY <1>1 DEF Observe
<1>3. MatchedRefs(key, class) \in SUBSET DOMAIN Forbidden
  BY DEF MatchedRefs
<1> QED
  BY <1>1, <1>2, <1>3, RecordedMoves DEF Note, Matches, Tagged

LEMMA ObserveKeeps ==
  ASSUME WindowsInv, NEW key \in Conversations, NEW class \in Classes \cup {Untagged},
         Observe(key, class), Note(key, class)
  PROVE  WindowsInv'
<1>1. CASE class = Untagged
  <2>1. windows' = windows /\ observed' = observed
    BY <1>1 DEF Observe, Note
  <2> QED
    BY <2>1 DEF WindowsInv
<1>2. CASE class # Untagged
  <2>1. PICK p \in 1..Len(windows'), d \in {0, 1} : Moved(key, class, windows', p, d)
    BY <1>2, TaggedObserved
  <2> DEFINE t == [key |-> key, class |-> class, refs |-> MatchedRefs(key, class)]
  <2>2. observed' = Append(observed, t) /\ t \in Tagged /\ observed \in Seq(Tagged)
    BY <1>2, TaggedObserved DEF WindowsInv
  <2> HIDE DEF t
  <2>3. observed' \in Seq(Tagged)
    BY <2>2
  <2> QED
    BY <1>2, <2>1, <2>3, MovedKeeps
<1> QED
  BY <1>1, <1>2

-----------------------------------------------------------------------------
(* The steps.  What was asked is what the evaluation waits for.            *)
LEMMA BecomesState ==
  ASSUME eval \in [Evaluations -> State], NEW e \in Evaluations, NEW s \in State, Becomes(e, s)
  PROVE  eval' \in [Evaluations -> State]
BY DEF Becomes

LEMMA AwaitingRequest ==
  ASSUME eval \in [Evaluations -> State], NEW e \in Evaluations, eval[e].pc = "awaiting"
  PROVE  /\ eval[e].request \in RequestType
         /\ eval[e].refused \in 0..(MaxAttempts - 1)
         /\ eval[e] \in [pc : {"awaiting"}, request : RequestType, refused : 0..(MaxAttempts - 1)]
<1>1. eval[e] \in State
  OBVIOUS
<1> QED
  BY <1>1 DEF State

LEMMA DecideMemory ==
  ASSUME IInv, NEW e \in Evaluations, NEW key \in Conversations,
         NEW class \in Classes \cup {Untagged}, Decide(e, key, class)
  PROVE  IInv'
<1>1. WindowsInv'
  BY ObserveKeeps DEF IInv, Decide
<1>2. VerdictsInv'
  BY DEF IInv, Decide, VerdictsInv
<1>3. [pc |-> "unadvised"] \in State
  BY DEF State
<1>4. EvaluationsInv'
  BY <1>3, BecomesState DEF IInv, Decide, EvaluationsInv
<1> QED
  BY <1>1, <1>2, <1>4 DEF IInv

LEMMA AskInterpreterMemory ==
  ASSUME IInv, NEW e \in Evaluations, NEW key \in Conversations,
         NEW class \in Classes \cup {Untagged}, AskInterpreter(e, key, class)
  PROVE  IInv'
<1>1. WindowsInv'
  BY ObserveKeeps DEF IInv, AskInterpreter
<1>2. VerdictsInv'
  BY DEF IInv, AskInterpreter, VerdictsInv
<1>3. Request(class) \in RequestType
  BY DEF IInv, EvaluationsInv, Request, RequestType
<1>4. CASE IsHit(Request(class))
  <2> DEFINE s == [pc |-> "advised", request |-> Request(class), verdict |-> Hit(Request(class))]
  <2>1. Hit(Request(class)) \in Verdicts
    BY <1>3, <1>4, HitWasGiven DEF IInv
  <2>2. s \in State
    BY <1>3, <2>1 DEF State
  <2>3. Becomes(e, s)
    BY <1>4 DEF AskInterpreter
  <2> HIDE DEF s
  <2>4. EvaluationsInv'
    BY <2>2, <2>3, BecomesState DEF IInv, AskInterpreter, EvaluationsInv
  <2> QED
    BY <1>1, <1>2, <2>4 DEF IInv
<1>5. CASE ~ IsHit(Request(class))
  <2> DEFINE s == [pc |-> "awaiting", request |-> Request(class), refused |-> 0]
  <2>1. 0 \in 0..(MaxAttempts - 1)
    BY MemoryAssumption
  <2>2. s \in State
    BY <1>3, <2>1 DEF State
  <2>3. Becomes(e, s)
    BY <1>5 DEF AskInterpreter
  <2> HIDE DEF s
  <2>4. EvaluationsInv'
    BY <2>2, <2>3, BecomesState DEF IInv, AskInterpreter, EvaluationsInv
  <2> QED
    BY <1>1, <1>2, <2>4 DEF IInv
<1> QED
  BY <1>4, <1>5

LEMMA AnswersMemory ==
  ASSUME IInv, NEW e \in Evaluations, NEW verdict \in Verdicts, Answers(e, verdict)
  PROVE  IInv'
<1> DEFINE s == [pc |-> "advised", request |-> eval[e].request, verdict |-> verdict]
<1>1. eval[e].request \in RequestType
  BY AwaitingRequest DEF Answers, IInv, EvaluationsInv
<1>2. s \in State
  BY <1>1 DEF State
<1>3. Becomes(e, s) /\ version' = version /\ windows' = windows /\ observed' = observed
  BY DEF Answers
<1> HIDE DEF s
<1>4. EvaluationsInv'
  BY <1>2, <1>3, BecomesState DEF IInv, EvaluationsInv
<1>5. VerdictsInv'
  BY <1>1, StoreKeeps DEF IInv, Answers
<1>6. WindowsInv'
  BY <1>3 DEF IInv, WindowsInv
<1> QED
  BY <1>4, <1>5, <1>6 DEF IInv

LEMMA MalformedMemory ==
  ASSUME IInv, NEW e \in Evaluations, Malformed(e)
  PROVE  IInv'
<1>1. WindowsInv' /\ VerdictsInv'
  BY DEF IInv, Malformed, WindowsInv, VerdictsInv
<1>2. /\ eval[e].refused \in 0..(MaxAttempts - 1)
      /\ eval[e] \in [pc : {"awaiting"}, request : RequestType, refused : 0..(MaxAttempts - 1)]
  BY AwaitingRequest DEF Malformed, IInv, EvaluationsInv
<1>3. CASE eval[e].refused + 1 < MaxAttempts
  <2> DEFINE s == [eval[e] EXCEPT !.refused = @ + 1]
  <2>1. eval[e].refused + 1 \in 0..(MaxAttempts - 1)
    BY <1>2, <1>3, MemoryAssumption
  <2>2. s \in State
    BY <1>2, <2>1 DEF State
  <2>3. Becomes(e, s)
    BY <1>3 DEF Malformed
  <2> HIDE DEF s
  <2>4. EvaluationsInv'
    BY <2>2, <2>3, BecomesState DEF IInv, Malformed, EvaluationsInv
  <2> QED
    BY <1>1, <2>4 DEF IInv
<1>4. CASE ~ (eval[e].refused + 1 < MaxAttempts)
  <2>1. [pc |-> "unadvised"] \in State
    BY DEF State
  <2>2. EvaluationsInv'
    BY <1>4, <2>1, BecomesState DEF IInv, Malformed, EvaluationsInv
  <2> QED
    BY <1>1, <2>2 DEF IInv
<1> QED
  BY <1>3, <1>4

LEMMA NextMemory == IInv /\ [Next]_vars => IInv'
<1> SUFFICES ASSUME IInv, [Next]_vars PROVE IInv'
  OBVIOUS
<1>1. ASSUME NEW e \in Evaluations, NEW key \in Conversations,
             NEW class \in Classes \cup {Untagged}, Decide(e, key, class)
      PROVE  IInv'
  BY <1>1, DecideMemory
<1>2. ASSUME NEW e \in Evaluations, NEW key \in Conversations,
             NEW class \in Classes \cup {Untagged}, AskInterpreter(e, key, class)
      PROVE  IInv'
  BY <1>2, AskInterpreterMemory
<1>3. ASSUME NEW e \in Evaluations, NEW verdict \in Verdicts, Answers(e, verdict)
      PROVE  IInv'
  BY <1>3, AnswersMemory
<1>4. ASSUME NEW e \in Evaluations, Malformed(e) PROVE IInv'
  BY <1>4, MalformedMemory
<1>5. ASSUME NEW e \in Evaluations, Fails(e) PROVE IInv'
  <2>1. [pc |-> "unadvised"] \in State
    BY DEF State
  <2>2. EvaluationsInv'
    BY <1>5, <2>1, BecomesState DEF IInv, Fails, EvaluationsInv
  <2> QED
    BY <1>5, <2>2 DEF IInv, Fails, WindowsInv, VerdictsInv
<1>6. CASE Reload
  BY <1>6 DEF IInv, Reload, WindowsInv, VerdictsInv, EvaluationsInv
<1>7. CASE EmptyCache
  BY <1>7, CacheAssumption
     DEF IInv, EmptyCache, Invalidate, WindowsInv, VerdictsInv, EvaluationsInv
<1>8. CASE UNCHANGED vars
  BY <1>8 DEF vars, IInv, WindowsInv, VerdictsInv, EvaluationsInv
<1> QED
  BY <1>1, <1>2, <1>3, <1>4, <1>5, <1>6, <1>7, <1>8 DEF Next

LEMMA AlwaysMemory == Spec => []IInv
BY InitMemory, NextMemory, PTL DEF Spec

(* The windows and the cache stay within their bounds, hold each key once, *)
(* and a verdict is a verdict, whatever arrives (sequence.py, observe;     *)
(* cache.py, interpret).                                                   *)
THEOREM MemoryTypeCorrect == Spec => []MemoryTypeOK
<1>1. IInv => MemoryTypeOK
  <2> SUFFICES ASSUME IInv PROVE MemoryTypeOK
    OBVIOUS
  <2>1. ASSUME NEW i \in DOMAIN windows
        PROVE  /\ windows[i].key \in Conversations
               /\ windows[i].seen \in Seq(Classes) /\ Len(windows[i].seen) \in 1..Window
               /\ Positions(windows[i].key) = {i}
    <3>1. i \in 1..Len(windows) /\ windows[i] \in WindowRecords
      BY DEF IInv, WindowsInv
    <3> QED
      BY <3>1 DEF IInv, WindowsInv, WindowRecords, Positions
  <2>2. ASSUME NEW i \in DOMAIN entries
        PROVE  /\ entries[i].verdict \in Verdicts
               /\ \A j \in DOMAIN entries : entries[j].key = entries[i].key => i = j
    <3>1. i \in 1..Len(entries) /\ entries[i] \in Verdict
      BY DEF IInv, VerdictsInv
    <3> QED
      BY <3>1 DEF IInv, VerdictsInv, Verdict
  <2> QED
    BY <2>1, <2>2 DEF IInv, WindowsInv, VerdictsInv, EvaluationsInv, MemoryTypeOK
<1> QED
  BY <1>1, AlwaysMemory, PTL

-----------------------------------------------------------------------------
(* No verdict crosses a reload.                                            *)
LEMMA NextAdvised == IInv /\ AdvisedByItsOwnVersion /\ [Next]_vars => AdvisedByItsOwnVersion'
<1> SUFFICES ASSUME IInv, AdvisedByItsOwnVersion, [Next]_vars,
                    NEW e \in Evaluations, eval'[e].pc = "advised"
             PROVE  [request |-> eval'[e].request, verdict |-> eval'[e].verdict] \in given'
  BY DEF AdvisedByItsOwnVersion
<1>1. eval \in [Evaluations -> State] /\ VerdictsInv
  BY DEF IInv, EvaluationsInv
<1>2. given \subseteq given'
  BY DEF Next, vars, Decide, AskInterpreter, Answers, Malformed, Fails, Reload, EmptyCache
<1>3. CASE eval'[e] = eval[e]
  BY <1>2, <1>3 DEF AdvisedByItsOwnVersion
<1>4. CASE eval'[e] # eval[e]
  <2>1. \A f \in Evaluations : \A s : Becomes(f, s) => f = e /\ eval'[e] = s
    BY <1>1, <1>4 DEF Becomes
  <2>2. ASSUME NEW f \in Evaluations, NEW key \in Conversations,
               NEW class \in Classes \cup {Untagged}, AskInterpreter(f, key, class)
        PROVE  [request |-> eval'[e].request, verdict |-> eval'[e].verdict] \in given'
    <3> DEFINE r == Request(class)
    <3>1. r \in RequestType
      BY DEF IInv, EvaluationsInv, Request, RequestType
    <3>2. CASE IsHit(r)
      <4>1. Becomes(f, [pc |-> "advised", request |-> r, verdict |-> Hit(r)])
        BY <2>2, <3>2 DEF AskInterpreter
      <4> HIDE DEF r
      <4>2. eval'[e] = [pc |-> "advised", request |-> r, verdict |-> Hit(r)]
        BY <2>1, <4>1
      <4> QED
        BY <1>1, <1>2, <3>1, <3>2, <4>2, HitWasGiven
    <3>3. CASE ~ IsHit(r)
      <4>1. Becomes(f, [pc |-> "awaiting", request |-> r, refused |-> 0])
        BY <2>2, <3>3 DEF AskInterpreter
      <4> HIDE DEF r
      <4>2. eval'[e] = [pc |-> "awaiting", request |-> r, refused |-> 0]
        BY <2>1, <4>1
      <4> QED
        BY <4>2
    <3> QED
      BY <3>2, <3>3
  <2>3. ASSUME NEW f \in Evaluations, NEW verdict \in Verdicts, Answers(f, verdict)
        PROVE  [request |-> eval'[e].request, verdict |-> eval'[e].verdict] \in given'
    <3>1. Becomes(f, [pc |-> "advised", request |-> eval[f].request, verdict |-> verdict])
      BY <2>3 DEF Answers
    <3>2. eval'[e] = [pc |-> "advised", request |-> eval[f].request, verdict |-> verdict]
      BY <2>1, <3>1
    <3> QED
      BY <2>3, <3>2 DEF Answers
  <2>4. ASSUME NEW f \in Evaluations, Malformed(f) PROVE FALSE
    <3>1. eval[f].pc = "awaiting" /\ eval[f] \in
            [pc : {"awaiting"}, request : RequestType, refused : 0..(MaxAttempts - 1)]
      BY <1>1, <2>4, AwaitingRequest DEF Malformed
    <3>2. CASE eval[f].refused + 1 < MaxAttempts
      <4>1. eval'[e] = [eval[f] EXCEPT !.refused = @ + 1]
        BY <2>1, <2>4, <3>2 DEF Malformed
      <4>2. eval'[e].pc = "awaiting"
        BY <3>1, <4>1
      <4> QED
        BY <4>2
    <3>3. CASE ~ (eval[f].refused + 1 < MaxAttempts)
      <4>1. eval'[e] = [pc |-> "unadvised"]
        BY <2>1, <2>4, <3>3 DEF Malformed
      <4> QED
        BY <4>1
    <3> QED
      BY <3>2, <3>3
  <2>5. ASSUME NEW f \in Evaluations, Fails(f) PROVE FALSE
    <3>1. eval'[e] = [pc |-> "unadvised"]
      BY <2>1, <2>5 DEF Fails
    <3> QED
      BY <3>1
  <2>6. ASSUME NEW f \in Evaluations, NEW key \in Conversations,
               NEW class \in Classes \cup {Untagged}, Decide(f, key, class)
        PROVE  FALSE
    <3>1. eval'[e] = [pc |-> "unadvised"]
      BY <2>1, <2>6 DEF Decide
    <3> QED
      BY <3>1
  <2>7. ~ Reload /\ ~ EmptyCache /\ ~ (UNCHANGED vars)
    BY <1>4 DEF Reload, EmptyCache, vars
  <2> QED
    BY <2>2, <2>3, <2>4, <2>5, <2>6, <2>7 DEF Next
<1> QED
  BY <1>3, <1>4

(* An evaluation is advised only by a verdict that the interpreter gave on *)
(* the same shape under the same versions, however reloads, malformed      *)
(* answers and other evaluations interleave with its await (cache.py,      *)
(* _key; runner.py, evaluate).                                             *)
THEOREM AlwaysAdvisedByItsOwnVersion == Spec => []AdvisedByItsOwnVersion
<1>1. Init => AdvisedByItsOwnVersion
  BY DEF Init, AdvisedByItsOwnVersion, NotAsked
<1> QED
  BY <1>1, NextAdvised, AlwaysMemory, PTL DEF Spec

-----------------------------------------------------------------------------
(* Matching in order with one iterator is exact: it succeeds just when the *)
(* needle can be laid over the haystack in order.                          *)
Later(needle, haystack, reach, n) ==
  {i \in (reach[n - 1] + 1)..Len(haystack) : haystack[i] = needle[n]}
Step(needle, haystack, reach, n) ==
  IF n = 0 THEN 0
  ELSE LET later == Later(needle, haystack, reach, n)
       IN IF later = {} THEN Len(haystack) + 1 ELSE FirstOf(later)

LEMMA ReachExists ==
  ASSUME NEW needle, NEW haystack, Len(needle) \in Nat
  PROVE  \E reach : reach = [n \in 0..Len(needle) |-> Step(needle, haystack, reach, n)]
<1> DEFINE m == Len(needle)
<1> DEFINE S == {k \in 0..m : \E g : g = [i \in 0..k |-> Step(needle, haystack, g, i)]}
<1>1. 0 \in S
  <2> DEFINE g == [i \in 0..0 |-> 0]
  <2>1. g = [i \in 0..0 |-> Step(needle, haystack, g, i)]
    BY DEF Step
  <2> QED
    BY <2>1
<1>2. ASSUME NEW n \in 0..(m - 1), n \in S PROVE n + 1 \in S
  <2>1. PICK g : g = [i \in 0..n |-> Step(needle, haystack, g, i)]
    BY <1>2
  <2> DEFINE h == [i \in 0..(n + 1) |-> IF i = n + 1 THEN Step(needle, haystack, g, n + 1) ELSE g[i]]
  <2>2. \A i \in 0..n : h[i] = g[i]
    OBVIOUS
  <2>3. ASSUME NEW i \in 0..(n + 1) PROVE h[i] = Step(needle, haystack, h, i)
    <3>1. i = 0 \/ h[i - 1] = g[i - 1]
      BY <2>2
    <3>2. i = 0 \/ Later(needle, haystack, h, i) = Later(needle, haystack, g, i)
      BY <3>1 DEF Later
    <3>4. Step(needle, haystack, h, i) = Step(needle, haystack, g, i)
      BY <3>2 DEF Step
    <3>3. i # n + 1 => g[i] = Step(needle, haystack, g, i)
      BY <2>1
    <3> QED
      BY <3>3, <3>4
  <2>4. h = [i \in 0..(n + 1) |-> h[i]]
    OBVIOUS
  <2> HIDE DEF h
  <2>5. h = [i \in 0..(n + 1) |-> Step(needle, haystack, h, i)]
    BY <2>3, <2>4
  <2> QED
    BY <2>5
<1>3. m \in S
  <2> HIDE DEF S
  <2>1. m \in Nat
    OBVIOUS
  <2> HIDE DEF m
  <2>2. 0..m \subseteq S
    BY <1>1, <1>2, <2>1, UpTo
  <2> QED
    BY <2>1, <2>2
<1> QED
  BY <1>3

LEMMA ReachHolds ==
  ASSUME NEW X, NEW needle \in Seq(X), NEW haystack \in Seq(X)
  PROVE  \E reach :
           /\ OrderedSubsequence(needle, haystack) <=> reach[Len(needle)] <= Len(haystack)
           /\ reach[0] = 0
           /\ \A n \in 0..Len(needle) : reach[n] \in 0..(Len(haystack) + 1)
           /\ \A n \in 1..Len(needle) : LET later == Later(needle, haystack, reach, n) IN
                \/ later = {} /\ reach[n] = Len(haystack) + 1
                \/ reach[n] \in later /\ \A i \in later : reach[n] <= i
<1> DEFINE m == Len(needle)
<1>1. m \in Nat /\ Len(haystack) \in Nat
  OBVIOUS
<1>11. \E g : g = [n \in 0..m |-> Step(needle, haystack, g, n)]
  BY <1>1, ReachExists, Zenon
<1> DEFINE Def(g) == g = [n \in 0..m |-> Step(needle, haystack, g, n)]
<1> DEFINE reach == CHOOSE g : Def(g)
<1>2. Def(reach)
  <2>1. \E g : Def(g)
    BY <1>11
  <2> QED
    BY <2>1
<1>3. OrderedSubsequence(needle, haystack) <=> reach[m] <= Len(haystack)
  BY DEF OrderedSubsequence, Step, Later
<1> HIDE DEF reach
<1>4. reach[0] = 0
  BY <1>1, <1>2 DEF Step
<1>5. \A n \in 1..m : LET later == Later(needle, haystack, reach, n) IN
        reach[n] = IF later = {} THEN Len(haystack) + 1 ELSE FirstOf(later)
  <2> TAKE n \in 1..m
  <2>1. n \in 0..m /\ n # 0
    BY <1>1
  <2>2. reach[n] = Step(needle, haystack, reach, n)
    BY <1>2, <2>1
  <2> QED
    BY <2>1, <2>2 DEF Step
<1> DEFINE S == {n \in 0..m : reach[n] \in 0..(Len(haystack) + 1)}
<1>6. 0 \in S
  BY <1>1, <1>4
<1>7. ASSUME NEW n \in 0..(m - 1), reach[n] \in 0..(Len(haystack) + 1)
      PROVE  LET later == Later(needle, haystack, reach, n + 1) IN
               /\ reach[n + 1] \in 0..(Len(haystack) + 1)
               /\ \/ later = {} /\ reach[n + 1] = Len(haystack) + 1
                  \/ reach[n + 1] \in later /\ \A i \in later : reach[n + 1] <= i
  <2> DEFINE later == Later(needle, haystack, reach, n + 1)
  <2>1. n + 1 \in 1..m /\ (n + 1) - 1 = n
    BY <1>1
  <2>2. reach[n + 1] = IF later = {} THEN Len(haystack) + 1 ELSE FirstOf(later)
    BY <1>5, <2>1
  <2>3. \A i \in later : i \in (reach[n] + 1)..Len(haystack)
    BY <2>1 DEF Later
  <2>4. later \in SUBSET Nat
    BY <1>1, <1>7, <2>3
  <2> HIDE DEF later
  <2>5. ASSUME later # {} PROVE reach[n + 1] \in later /\ \A i \in later : reach[n + 1] <= i
    <3>1. FirstOf(later) \in later /\ \A i \in later : FirstOf(later) <= i
      BY <2>4, <2>5, FirstOfHolds
    <3> QED
      BY <2>2, <2>5, <3>1
  <2>6. CASE later = {}
    BY <1>1, <2>2, <2>6 DEF later
  <2>7. CASE later # {}
    <3>1. reach[n + 1] \in (reach[n] + 1)..Len(haystack)
      BY <2>3, <2>5, <2>7
    <3>2. reach[n + 1] \in 0..(Len(haystack) + 1)
      BY <1>1, <1>7, <3>1
    <3> QED
      BY <2>5, <2>7, <3>2 DEF later
  <2> QED
    BY <2>6, <2>7
<1>8. \A n \in 0..(m - 1) : n \in S => n + 1 \in S
  <2> TAKE n \in 0..(m - 1)
  <2> HAVE n \in S
  <2>1. n + 1 \in 0..m
    BY <1>1
  <2> QED
    BY <1>7, <2>1
<1>9. \A n \in 0..m : reach[n] \in 0..(Len(haystack) + 1)
  <2> HIDE DEF S
  <2>1. 0..m \subseteq S
    BY <1>1, <1>6, <1>8, UpTo
  <2> QED
    BY <2>1 DEF S
<1>10. ASSUME NEW n \in 1..m
       PROVE  LET later == Later(needle, haystack, reach, n) IN
                \/ later = {} /\ reach[n] = Len(haystack) + 1
                \/ reach[n] \in later /\ \A i \in later : reach[n] <= i
  <2>1. n - 1 \in 0..(m - 1) /\ n - 1 \in 0..m /\ (n - 1) + 1 = n
    BY <1>1
  <2>2. reach[n - 1] \in 0..(Len(haystack) + 1)
    BY <1>9, <2>1
  <2> QED
    BY <1>7, <2>1, <2>2
<1> QED
  BY <1>3, <1>4, <1>9, <1>10

(* p lays the needle over the haystack, in order.                          *)
Laid(needle, haystack, p) ==
  /\ p \in [1..Len(needle) -> 1..Len(haystack)]
  /\ \A k, l \in 1..Len(needle) : k < l => p[k] < p[l]
  /\ \A k \in 1..Len(needle) : haystack[p[k]] = needle[k]

LEMMA FoundIsLaid ==
  ASSUME NEW X, NEW needle \in Seq(X), NEW haystack \in Seq(X),
         OrderedSubsequence(needle, haystack)
  PROVE  \E p : Laid(needle, haystack, p)
<1> DEFINE m == Len(needle)
<1>1. PICK reach :
        /\ reach[m] <= Len(haystack)
        /\ \A n \in 0..m : reach[n] \in 0..(Len(haystack) + 1)
        /\ \A n \in 1..m : LET later == Later(needle, haystack, reach, n) IN
             \/ later = {} /\ reach[n] = Len(haystack) + 1
             \/ reach[n] \in later /\ \A i \in later : reach[n] <= i
  BY ReachHolds
<1>2. m \in Nat /\ Len(haystack) \in Nat
  OBVIOUS
<1>3. \A n \in 0..m : reach[m - n] <= Len(haystack)
  <2> DEFINE S == {n \in 0..m : reach[m - n] <= Len(haystack)}
  <2>1. 0 \in S
    BY <1>1, <1>2
  <2>2. ASSUME NEW n \in 0..(m - 1), n \in S PROVE n + 1 \in S
    <3>1. /\ m - n \in 1..m /\ m - (n + 1) \in 0..m /\ (m - n) - 1 = m - (n + 1)
          /\ n + 1 \in 0..m
      BY <1>2
    <3>2. reach[m - n] <= Len(haystack) /\ reach[m - n] \in 0..(Len(haystack) + 1)
      BY <1>1, <2>2, <3>1
    <3>3. reach[m - n] \in Later(needle, haystack, reach, m - n)
      BY <1>1, <1>2, <3>1, <3>2
    <3>4. reach[m - n] \in (reach[m - (n + 1)] + 1)..Len(haystack)
      BY <3>1, <3>3 DEF Later
    <3>5. reach[m - (n + 1)] \in 0..(Len(haystack) + 1)
      BY <1>1, <3>1
    <3>6. reach[m - (n + 1)] <= Len(haystack)
      BY <1>2, <3>4, <3>5
    <3> QED
      BY <3>1, <3>6
  <2>3. 0..m \subseteq S
    <3> HIDE DEF S
    <3> QED
      BY <1>2, <2>1, <2>2, UpTo
  <2> QED
    BY <2>3
<1>4. ASSUME NEW n \in 1..m
      PROVE  /\ reach[n] \in 1..Len(haystack) /\ haystack[reach[n]] = needle[n]
             /\ reach[n - 1] < reach[n] /\ reach[n - 1] \in Nat
  <2>1. m - n \in 0..m /\ m - (m - n) = n /\ n \in 0..m /\ n - 1 \in 0..m
    BY <1>2
  <2>2. reach[n] <= Len(haystack) /\ reach[n - 1] \in 0..(Len(haystack) + 1)
    BY <1>1, <1>3, <2>1
  <2>3. reach[n] \in Later(needle, haystack, reach, n)
    BY <1>1, <1>2, <2>2
  <2> QED
    BY <1>2, <2>2, <2>3 DEF Later
<1>5. \A l \in 0..m : \A k \in 0..m : k < l => reach[k] < reach[l]
  <2> DEFINE S == {l \in 0..m : \A k \in 0..m : k < l => reach[k] < reach[l]}
  <2>1. 0 \in S
    BY <1>2
  <2>2. ASSUME NEW n \in 0..(m - 1), n \in S PROVE n + 1 \in S
    <3>1. n + 1 \in 1..m /\ (n + 1) - 1 = n /\ n \in 0..m /\ n + 1 \in 0..m
      BY <1>2
    <3>2. reach[n] < reach[n + 1] /\ reach[n] \in Nat /\ reach[n + 1] \in Nat
      BY <1>4, <3>1
    <3>3. ASSUME NEW k \in 0..m, k < n + 1 PROVE reach[k] < reach[n + 1]
      <4>1. reach[k] \in Nat
        BY <1>1, <1>2
      <4>2. k = n \/ k < n
        BY <1>2, <3>1, <3>3
      <4>3. k < n => reach[k] < reach[n]
        BY <2>2
      <4> QED
        BY <3>2, <4>1, <4>2, <4>3
    <3> QED
      BY <3>1, <3>3
  <2>3. 0..m \subseteq S
    <3> HIDE DEF S
    <3> QED
      BY <1>2, <2>1, <2>2, UpTo
  <2> QED
    BY <2>3
<1> DEFINE p == [n \in 1..m |-> reach[n]]
<1>6. p \in [1..m -> 1..Len(haystack)]
  BY <1>4
<1>7. \A k, l \in 1..m : k < l => p[k] < p[l]
  <2> TAKE k, l \in 1..m
  <2>1. k \in 0..m /\ l \in 0..m
    BY <1>2
  <2> QED
    BY <1>5, <2>1
<1>8. \A k \in 1..m : haystack[p[k]] = needle[k]
  BY <1>4
<1> HIDE DEF p
<1>9. Laid(needle, haystack, p)
  BY <1>6, <1>7, <1>8 DEF Laid
<1> QED
  BY <1>9

LEMMA LaidIsFound ==
  ASSUME NEW X, NEW needle \in Seq(X), NEW haystack \in Seq(X),
         NEW p, Laid(needle, haystack, p)
  PROVE  OrderedSubsequence(needle, haystack)
<1> DEFINE m == Len(needle)
<1>1. PICK reach :
        /\ OrderedSubsequence(needle, haystack) <=> reach[m] <= Len(haystack)
        /\ reach[0] = 0
        /\ \A n \in 0..m : reach[n] \in 0..(Len(haystack) + 1)
        /\ \A n \in 1..m : LET later == Later(needle, haystack, reach, n) IN
             \/ later = {} /\ reach[n] = Len(haystack) + 1
             \/ reach[n] \in later /\ \A i \in later : reach[n] <= i
  BY ReachHolds
<1>2. m \in Nat /\ Len(haystack) \in Nat
  OBVIOUS
<1>3. /\ \A k \in 1..m : p[k] \in 1..Len(haystack) /\ haystack[p[k]] = needle[k]
      /\ \A k, l \in 1..m : k < l => p[k] < p[l]
  BY DEF Laid
<1> DEFINE S == {n \in 0..m : n = 0 \/ reach[n] <= p[n]}
<1>4. 0 \in S
  BY <1>2
<1>5. ASSUME NEW n \in 0..(m - 1), n \in S PROVE n + 1 \in S
  <2>1. n + 1 \in 1..m /\ (n + 1) - 1 = n /\ n \in 0..m /\ n + 1 \in 0..m
    BY <1>2
  <2>2. p[n + 1] \in 1..Len(haystack) /\ haystack[p[n + 1]] = needle[n + 1]
    BY <1>3, <2>1
  <2>3. reach[n] \in Nat /\ reach[n] < p[n + 1]
    <3>1. reach[n] \in Nat
      BY <1>1, <1>2, <2>1
    <3>2. CASE n = 0
      BY <1>1, <2>2, <3>2
    <3>3. CASE n # 0
      <4>1. n \in 1..m /\ n < n + 1
        BY <1>2, <3>3
      <4>2. p[n] < p[n + 1] /\ p[n] \in 1..Len(haystack)
        BY <1>3, <2>1, <4>1
      <4>3. reach[n] <= p[n]
        BY <1>5, <3>3
      <4> QED
        BY <1>2, <2>2, <3>1, <4>2, <4>3
    <3> QED
      BY <3>1, <3>2, <3>3
  <2>4. p[n + 1] \in Later(needle, haystack, reach, n + 1)
    BY <1>2, <2>1, <2>2, <2>3 DEF Later
  <2>5. reach[n + 1] <= p[n + 1]
    BY <1>1, <2>1, <2>4
  <2> QED
    BY <2>1, <2>5
<1>6. 0..m \subseteq S
  <2> HIDE DEF S
  <2> QED
    BY <1>2, <1>4, <1>5, UpTo
<1>7. m = 0 \/ reach[m] <= p[m]
  BY <1>2, <1>6
<1>8. CASE m = 0
  BY <1>1, <1>2, <1>8
<1>9. CASE m # 0
  <2>1. m \in 1..m /\ m \in 0..m
    BY <1>2, <1>9
  <2>2. p[m] \in 1..Len(haystack) /\ reach[m] \in 0..(Len(haystack) + 1)
    BY <1>1, <1>3, <2>1
  <2> QED
    BY <1>1, <1>2, <1>7, <1>9, <2>2
<1> QED
  BY <1>8, <1>9

-----------------------------------------------------------------------------
(* Conversations and the ends of them that the windows hold.               *)
LEMMA AppendedActions ==
  ASSUME NEW obs \in Seq(Tagged), NEW t \in Tagged, NEW key
  PROVE  /\ Len(Append(obs, t)) = Len(obs) + 1 /\ Len(obs) \in Nat
         /\ Append(obs, t)[Len(obs) + 1] = t
         /\ \A j \in 1..Len(obs) : Append(obs, t)[j] = obs[j]
         /\ t.key # key => ActionsOf(key, Append(obs, t)) = ActionsOf(key, obs)
         /\ t.key = key => ActionsOf(key, Append(obs, t)) = ActionsOf(key, obs) \cup {Len(obs) + 1}
<1> DEFINE s == Append(obs, t)
<1>1. /\ Len(s) = Len(obs) + 1 /\ Len(obs) \in Nat /\ s[Len(obs) + 1] = t
      /\ \A j \in 1..Len(obs) : s[j] = obs[j]
  OBVIOUS
<1> HIDE DEF s
<1>2. \A j : j \in 1..Len(s) <=> j \in 1..Len(obs) \/ j = Len(obs) + 1
  BY <1>1
<1>3. t.key # key => ActionsOf(key, s) = ActionsOf(key, obs)
  BY <1>1, <1>2 DEF ActionsOf
<1>4. t.key = key => ActionsOf(key, s) = ActionsOf(key, obs) \cup {Len(obs) + 1}
  BY <1>1, <1>2 DEF ActionsOf
<1> QED
  BY <1>1, <1>3, <1>4 DEF s

LEMMA FollowsOther ==
  ASSUME NEW obs \in Seq(Tagged), NEW t \in Tagged, NEW key, t.key # key,
         NEW seen, NEW at, Follows(seen, key, obs, at)
  PROVE  Follows(seen, key, Append(obs, t), at)
<1>1. ActionsOf(key, Append(obs, t)) = ActionsOf(key, obs)
  BY AppendedActions
<1>2. \A j \in ActionsOf(key, obs) : Append(obs, t)[j] = obs[j]
  BY AppendedActions DEF ActionsOf
<1> QED
  BY <1>1, <1>2 DEF Follows

(* The places at2 of a conversation's end once t was added to it.          *)
Grown(seen, t, obs, at, at2) ==
  /\ Follows(Extended(seen, t.class), t.key, Append(obs, t), at2)
  /\ \/ Len(Extended(seen, t.class)) = Window
     \/ at2[1] = IF Len(seen) = 0 THEN Len(obs) + 1 ELSE at[1]

LEMMA FollowsExtended ==
  ASSUME NEW obs \in Seq(Tagged), NEW t \in Tagged,
         NEW seen \in Seq(Classes), Len(seen) \in 0..Window,
         NEW at, Follows(seen, t.key, obs, at)
  PROVE  \E at2 : Grown(seen, t, obs, at, at2)
<1> DEFINE n == Len(obs) + 1
<1> DEFINE m == Len(seen)
<1> DEFINE obs2 == Append(obs, t)
<1> DEFINE more == Extended(seen, t.class)
<1> DEFINE A == ActionsOf(t.key, obs)
<1> DEFINE B == ActionsOf(t.key, obs2)
<1>1. /\ n \in Nat /\ m \in Nat /\ Window \in Nat \ {0} /\ m <= Window
      /\ B = A \cup {n} /\ obs2[n] = t
      /\ \A j \in A : j \in Nat /\ j < n /\ obs2[j] = obs[j]
  BY AppendedActions, CorrelatorAssumption DEF ActionsOf
<1>2. /\ at \in [1..m -> A]
      /\ \A k, l \in 1..m : k < l => at[k] < at[l]
      /\ \A k \in 1..m : obs[at[k]].class = seen[k]
      /\ \A j \in A, k \in 1..m : at[k] <= j => \E l \in 1..m : at[l] = j
  BY DEF Follows
<1>3. t.class \in Classes
  BY DEF Tagged
<1> HIDE DEF n, obs2, A, B
<1>4. CASE m < Window
  <2> DEFINE at2 == [k \in 1..(m + 1) |-> IF k = m + 1 THEN n ELSE at[k]]
  <2>1. /\ Len(more) = m + 1 /\ more[m + 1] = t.class
        /\ \A k \in 1..m : more[k] = seen[k]
    BY <1>3, <1>4, ExtendedHolds
  <2>2. \A k \in 1..(m + 1) : k \in 1..m \/ k = m + 1
    BY <1>1
  <2>3. at2[m + 1] = n /\ \A k \in 1..m : at2[k] = at[k]
    BY <1>1
  <2>4. at2 \in [1..(m + 1) -> B]
    BY <1>1, <1>2, <2>2
  <2> HIDE DEF at2, m, more
  <2>5. \A k, l \in 1..(m + 1) : k < l => at2[k] < at2[l]
    <3> TAKE k, l \in 1..(m + 1)
    <3> HAVE k < l
    <3>1. k \in 1..m
      BY <1>1
    <3>2. at[k] \in A /\ at2[k] = at[k]
      BY <1>2, <2>3, <3>1
    <3>3. CASE l = m + 1
      BY <1>1, <2>3, <3>2, <3>3
    <3>4. CASE l \in 1..m
      BY <1>2, <2>3, <3>1, <3>4
    <3> QED
      BY <2>2, <3>3, <3>4
  <2>6. \A k \in 1..(m + 1) : obs2[at2[k]].class = more[k]
    <3> TAKE k \in 1..(m + 1)
    <3>1. CASE k = m + 1
      BY <1>1, <2>1, <2>3, <3>1
    <3>2. CASE k \in 1..m
      BY <1>1, <1>2, <2>1, <2>3, <3>2
    <3> QED
      BY <2>2, <3>1, <3>2
  <2>7. ASSUME NEW j \in B, NEW k \in 1..(m + 1), at2[k] <= j
        PROVE  \E l \in 1..(m + 1) : at2[l] = j
    <3>1. CASE j = n
      <4>1. m + 1 \in 1..(m + 1)
        BY <1>1
      <4> QED
        BY <2>3, <3>1, <4>1
    <3>2. CASE j \in A
      <4>1. k \in 1..m
        BY <1>1, <2>2, <2>3, <2>7, <3>2
      <4>2. at[k] <= j
        BY <2>3, <2>7, <4>1
      <4>3. PICK l \in 1..m : at[l] = j
        BY <1>2, <3>2, <4>1, <4>2
      <4>4. l \in 1..(m + 1) /\ at2[l] = j
        BY <1>1, <2>3, <4>3
      <4> QED
        BY <4>4
    <3> QED
      BY <1>1, <2>7, <3>1, <3>2
  <2>8. Follows(more, t.key, obs2, at2)
    BY <2>1, <2>4, <2>5, <2>6, <2>7 DEF Follows, B
  <2>9. at2[1] = IF m = 0 THEN n ELSE at[1]
    <3>1. m = 0 \/ 1 \in 1..m
      BY <1>1
    <3> QED
      BY <2>3, <3>1
  <2> QED
    BY <2>8, <2>9 DEF Grown, more, obs2, n, m
<1>5. CASE m = Window
  <2> DEFINE at2 == [k \in 1..m |-> IF k = m THEN n ELSE at[k + 1]]
  <2>1. /\ Len(more) = m /\ more[m] = t.class
        /\ \A k \in 1..(m - 1) : more[k] = seen[k + 1]
    BY <1>3, <1>5, ExtendedHolds
  <2>2. \A k \in 1..m : k = m \/ (k \in 1..(m - 1) /\ k + 1 \in 1..m)
    BY <1>1
  <2>3. m \in 1..m /\ at2[m] = n /\ \A k \in 1..(m - 1) : at2[k] = at[k + 1] /\ k + 1 \in 1..m
    BY <1>1, <1>5
  <2>4. at2 \in [1..m -> B]
    BY <1>1, <1>2, <2>2
  <2> HIDE DEF at2, m, more
  <2>5. \A k, l \in 1..m : k < l => at2[k] < at2[l]
    <3> TAKE k, l \in 1..m
    <3> HAVE k < l
    <3>1. k \in 1..(m - 1)
      BY <1>1
    <3>2. at[k + 1] \in A /\ at2[k] = at[k + 1] /\ k + 1 \in 1..m
      BY <1>2, <2>3, <3>1
    <3>3. CASE l = m
      BY <1>1, <2>3, <3>2, <3>3
    <3>4. CASE l \in 1..(m - 1)
      <4>1. at2[l] = at[l + 1] /\ l + 1 \in 1..m /\ k + 1 < l + 1
        BY <1>1, <2>3, <3>4
      <4> QED
        BY <1>2, <3>2, <4>1
    <3> QED
      BY <2>2, <3>3, <3>4
  <2>6. \A k \in 1..m : obs2[at2[k]].class = more[k]
    <3> TAKE k \in 1..m
    <3>1. CASE k = m
      BY <1>1, <2>1, <2>3, <3>1
    <3>2. CASE k \in 1..(m - 1)
      <4>1. at2[k] = at[k + 1] /\ k + 1 \in 1..m /\ more[k] = seen[k + 1]
        BY <2>1, <2>3, <3>2
      <4>2. at[k + 1] \in A /\ obs[at[k + 1]].class = seen[k + 1]
        BY <1>2, <4>1
      <4> QED
        BY <1>1, <4>1, <4>2
    <3> QED
      BY <2>2, <3>1, <3>2
  <2>7. ASSUME NEW j \in B, NEW k \in 1..m, at2[k] <= j
        PROVE  \E l \in 1..m : at2[l] = j
    <3>1. CASE j = n
      BY <2>3, <3>1
    <3>2. CASE j \in A
      <4>1. k \in 1..(m - 1)
        BY <1>1, <2>2, <2>3, <2>7, <3>2
      <4>2. at[k + 1] <= j /\ k + 1 \in 1..m
        BY <2>3, <2>7, <4>1
      <4>3. PICK l \in 1..m : at[l] = j
        BY <1>2, <3>2, <4>2
      <4>4. l # 1
        <5>1. 1 < k + 1 /\ 1 \in 1..m
          BY <1>1, <4>1
        <5>2. at[1] < at[k + 1] /\ at[1] \in A /\ at[k + 1] \in A
          BY <1>2, <4>2, <5>1
        <5> QED
          BY <1>1, <3>2, <4>2, <4>3, <5>2
      <4>5. l - 1 \in 1..(m - 1) /\ (l - 1) + 1 = l /\ l - 1 \in 1..m
        BY <1>1, <4>3, <4>4
      <4>6. at2[l - 1] = j
        BY <2>3, <4>3, <4>5
      <4> QED
        BY <4>5, <4>6
    <3> QED
      BY <1>1, <2>7, <3>1, <3>2
  <2>8. Follows(more, t.key, obs2, at2)
    BY <2>1, <2>4, <2>5, <2>6, <2>7 DEF Follows, B
  <2> QED
    BY <1>5, <2>1, <2>8 DEF Grown, more, obs2, m
<1> QED
  BY <1>1, <1>4, <1>5

LEMMA SeenFollows ==
  ASSUME WindowsInv, EndsOfConversations, NEW key \in Conversations
  PROVE  \E at : Follows(Seen(key), key, observed, at)
<1>1. CASE Positions(key) = {}
  <2> DEFINE at == [k \in {} |-> 0]
  <2>1. Seen(key) = <<>> /\ 1..0 = {}
    BY <1>1, SeenHolds
  <2>2. Len(Seen(key)) = 0
    BY <2>1
  <2>3. Follows(Seen(key), key, observed, at)
    BY <2>1, <2>2 DEF Follows
  <2> QED
    BY <2>3
<1>2. CASE Positions(key) # {}
  BY <1>2, SeenHolds DEF EndsOfConversations
<1> QED
  BY <1>1, <1>2

LEMMA SeenExtended ==
  ASSUME WindowsInv, NEW t \in Tagged, NEW at, Follows(Seen(t.key), t.key, observed, at)
  PROVE  \E at2 : Grown(Seen(t.key), t, observed, at, at2)
<1> DEFINE seen == Seen(t.key)
<1>1. seen \in Seq(Classes) /\ Len(seen) \in 0..Window /\ observed \in Seq(Tagged)
  <2>1. t.key \in Conversations
    BY DEF Tagged
  <2> QED
    BY <2>1, SeenHolds DEF WindowsInv
<1>2. Follows(seen, t.key, observed, at)
  OBVIOUS
<1> HIDE DEF seen
<1>3. \E at2 : Grown(seen, t, observed, at, at2)
  BY <1>1, <1>2, FollowsExtended
<1> QED
  BY <1>3 DEF seen

(* The numbers up to m do not fit into a smaller set.                      *)
LEMMA FitsInto ==
  ASSUME NEW m \in Nat, NEW T, IsFiniteSet(T), NEW g \in [1..m -> T],
         \A k, l \in 1..m : g[k] = g[l] => k = l
  PROVE  m <= Cardinality(T)
<1>1. IsFiniteSet(1..m) /\ Cardinality(1..m) = m
  <2>1. 1 \in Int /\ m \in Int
    OBVIOUS
  <2>2. IsFiniteSet(1..m) /\ Cardinality(1..m) = IF 1 > m THEN 0 ELSE m - 1 + 1
    BY <2>1, FS_Interval
  <2> QED
    BY <2>2
<1>2. Cardinality(T) \in Nat
  BY FS_CardinalityType
<1> SUFFICES ASSUME Cardinality(T) < m PROVE FALSE
  BY <1>2
<1>3. \E k, l \in 1..m : k # l /\ g[k] = g[l]
  BY <1>1, FS_PigeonHole
<1> QED
  BY <1>3

LEMMA SinceHolds ==
  ASSUME NEW obs \in Seq(Tagged), NEW t \in Tagged, NEW f \in 1..Len(obs)
  PROVE  /\ Since(f, Append(obs, t)) = Since(f, obs) \cup {t.key}
         /\ IsFiniteSet(Since(f, Append(obs, t)))
         /\ Cardinality(Since(f, obs)) <= Cardinality(Since(f, Append(obs, t)))
         /\ Began(f, Append(obs, t)) => Began(f, obs)
         /\ Append(obs, t)[f].key = obs[f].key
<1> DEFINE s == Append(obs, t)
<1>1. /\ Len(s) = Len(obs) + 1 /\ Len(obs) \in Nat /\ s[Len(obs) + 1] = t
      /\ \A j \in 1..Len(obs) : s[j] = obs[j]
  BY AppendedActions
<1>2. ActionsOf(obs[f].key, obs) \subseteq ActionsOf(obs[f].key, s)
  BY AppendedActions
<1> HIDE DEF s
<1>3. \A j : j \in f..Len(s) <=> j \in f..Len(obs) \/ j = Len(obs) + 1
  BY <1>1
<1>4. \A j \in f..Len(obs) : s[j] = obs[j]
  BY <1>1
<1>5. Since(f, s) = Since(f, obs) \cup {t.key}
  BY <1>1, <1>3, <1>4 DEF Since
<1>6. IsFiniteSet(Since(f, s))
  <2> DEFINE g == [j \in f..Len(s) |-> s[j].key]
  <2>1. IsFiniteSet(f..Len(s))
    <3>1. f \in Int /\ Len(s) \in Int
      BY <1>1
    <3> QED
      BY <3>1, FS_Interval
  <2>2. g \in Surjection(f..Len(s), Since(f, s))
    BY DEF Surjection, Since
  <2> HIDE DEF g
  <2> QED
    BY <2>1, <2>2, FS_Surjection
<1>7. Cardinality(Since(f, obs)) <= Cardinality(Since(f, s))
  BY <1>5, <1>6, FS_Subset
<1>8. s[f].key = obs[f].key
  BY <1>1
<1>9. Began(f, s) => Began(f, obs)
  BY <1>2, <1>8 DEF Began
<1> QED
  BY <1>5, <1>6, <1>7, <1>8, <1>9 DEF s

(* A new window pushes out the first one only when more conversations were *)
(* active than are kept.                                                   *)
LEMMA NotPushedOut ==
  ASSUME WindowsInv, NEW T, IsFiniteSet(T), Cardinality(T) <= MaxConversations,
         \A q \in 1..Len(windows) : windows[q].key \in T,
         NEW key \in T, Positions(key) = {}, Len(windows) >= MaxConversations
  PROVE  FALSE
<1> DEFINE n == Len(windows)
<1> DEFINE g == [q \in 1..(n + 1) |-> IF q = n + 1 THEN key ELSE windows[q].key]
<1>1. /\ n \in Nat /\ DOMAIN windows = 1..n
      /\ \A i, j \in 1..n : windows[i].key = windows[j].key => i = j
      /\ \A q \in 1..n : windows[q].key # key
  BY DEF WindowsInv, Positions
<1>2. \A q \in 1..(n + 1) : q \in 1..n \/ q = n + 1
  BY <1>1
<1>3. g[n + 1] = key /\ \A q \in 1..n : g[q] = windows[q].key
  BY <1>1
<1>4. g \in [1..(n + 1) -> T]
  BY <1>2
<1> HIDE DEF n, g
<1>5. \A k, l \in 1..(n + 1) : g[k] = g[l] => k = l
  BY <1>1, <1>2, <1>3
<1>6. n + 1 <= Cardinality(T)
  <2>1. n + 1 \in Nat
    BY <1>1
  <2> QED
    BY <1>4, <1>5, <2>1, FitsInto
<1>7. Cardinality(T) \in Nat /\ MaxConversations \in Nat /\ n >= MaxConversations
  BY FS_CardinalityType, CorrelatorAssumption DEF n
<1> QED
  BY <1>1, <1>6, <1>7

(* An action leaves every window the end of its conversation.              *)
LEMMA MovedFollow ==
  ASSUME WindowsInv, EndsOfConversations, NEW t \in Tagged,
         NEW p, NEW d \in {0, 1}, Moved(t.key, t.class, windows', p, d),
         observed' = Append(observed, t)
  PROVE  EndsOfConversations'
<1> DEFINE w == windows'
<1> DEFINE obs2 == Append(observed, t)
<1> SUFFICES ASSUME NEW i \in 1..Len(w)
             PROVE  \E at : Follows(w[i].seen, w[i].key, obs2, at)
  BY DEF EndsOfConversations
<1>1. observed \in Seq(Tagged) /\ t.key \in Conversations /\ t.class \in Classes
  BY DEF WindowsInv, Tagged
<1>2. /\ w[p] = [key |-> t.key, seen |-> Extended(Seen(t.key), t.class)]
      /\ i # p => i + d \in 1..Len(windows) /\ w[i] = windows[i + d] /\ w[i].key # t.key
  BY DEF Moved
<1> HIDE DEF w, obs2
<1>3. CASE i = p
  <2>1. PICK at : Follows(Seen(t.key), t.key, observed, at)
    BY <1>1, SeenFollows
  <2>2. \E at2 : Grown(Seen(t.key), t, observed, at, at2)
    BY <2>1, SeenExtended
  <2> QED
    BY <1>2, <1>3, <2>2 DEF Grown, obs2
<1>4. CASE i # p
  <2>1. PICK at : Follows(windows[i + d].seen, windows[i + d].key, observed, at)
    BY <1>2, <1>4 DEF EndsOfConversations
  <2>2. Follows(w[i].seen, w[i].key, observed, at) /\ w[i].key # t.key
    BY <1>2, <1>4, <2>1
  <2>3. Follows(w[i].seen, w[i].key, obs2, at)
    BY <1>1, <2>2, FollowsOther DEF obs2
  <2> QED
    BY <2>3
<1> QED
  BY <1>3, <1>4

(* Nor is a conversation forgotten while few are active: one that begins   *)
(* is given the last window, ...                                           *)
LEMMA BeginsRemembered ==
  ASSUME WindowsInv, EndsOfConversations, NEW t \in Tagged,
         NEW p, NEW d \in {0, 1}, Moved(t.key, t.class, windows', p, d),
         observed' = Append(observed, t),
         NEW n, n = Len(observed) + 1, Began(n, observed')
  PROVE  Remembered(n)'
<1> DEFINE w == windows'
<1> DEFINE obs2 == observed'
<1>1. /\ observed \in Seq(Tagged) /\ t.key \in Conversations /\ t.class \in Classes
      /\ windows \in Seq(WindowRecords) /\ DOMAIN windows = 1..Len(windows)
  BY DEF WindowsInv, Tagged
<1>2. /\ Len(obs2) = n /\ n \in Nat /\ obs2[n] = t
      /\ ActionsOf(t.key, obs2) = ActionsOf(t.key, observed) \cup {n}
      /\ \A j \in ActionsOf(t.key, observed) : j < n /\ j \in Nat
  BY <1>1, AppendedActions DEF ActionsOf
<1>3. ActionsOf(t.key, observed) = {}
  BY <1>2 DEF Began
<1>4. Positions(t.key) = {}
  <2> SUFFICES ASSUME NEW i \in 1..Len(windows), windows[i].key = t.key PROVE FALSE
    BY <1>1 DEF Positions
  <2>1. PICK at : Follows(windows[i].seen, t.key, observed, at)
    BY DEF EndsOfConversations
  <2>2. Len(windows[i].seen) \in 1..Window
    BY DEF WindowsInv
  <2>3. 1 \in 1..Len(windows[i].seen)
    BY <2>2, CorrelatorAssumption
  <2>4. at[1] \in ActionsOf(t.key, observed)
    BY <2>1, <2>3 DEF Follows
  <2> QED
    BY <1>3, <2>4
<1>5. Seen(t.key) = <<>> /\ Seen(t.key) \in Seq(Classes) /\ Len(Seen(t.key)) = 0
  BY <1>1, <1>4, SeenHolds
<1>6. PICK at : Follows(Seen(t.key), t.key, observed, at)
  BY <1>1, SeenFollows
<1>7. 0 \in 0..Window
  BY CorrelatorAssumption
<1>8. PICK at2 : /\ Follows(Extended(Seen(t.key), t.class), t.key, obs2, at2)
                 /\ Len(Extended(Seen(t.key), t.class)) = Window \/ at2[1] = n
  <2>1. PICK at2 : Grown(Seen(t.key), t, observed, at, at2)
    BY <1>6, SeenExtended
  <2> QED
    BY <1>5, <2>1 DEF Grown
<1>9. /\ p \in 1..Len(w) /\ w[p] = [key |-> t.key, seen |-> Extended(Seen(t.key), t.class)]
      /\ p = Len(w) /\ Len(w) \in Nat
  <2>1. /\ p \in 1..Len(w) /\ w[p] = [key |-> t.key, seen |-> Extended(Seen(t.key), t.class)]
        /\ w \in Seq(WindowRecords)
    BY DEF Moved
  <2>2. p = Len(w)
    <3>1. CASE d = 0 /\ Len(w) = Len(windows) /\ windows[p].key = t.key
      BY <1>1, <1>4, <2>1, <3>1 DEF Positions
    <3> QED
      BY <3>1 DEF Moved
  <2> QED
    BY <2>1, <2>2
<1>10. \A q \in p..Len(w) : w[q].key \in Since(n, obs2)
  <2>1. \A q \in p..Len(w) : q = p
    BY <1>9
  <2>2. n \in n..Len(obs2)
    BY <1>2
  <2>3. t.key \in Since(n, obs2)
    BY <1>2, <2>2 DEF Since
  <2> QED
    BY <1>9, <2>1, <2>3
<1>11. /\ w[p].key = obs2[n].key /\ Follows(w[p].seen, w[p].key, obs2, at2)
       /\ Len(w[p].seen) = Window \/ at2[1] = n
  BY <1>2, <1>8, <1>9
<1> SUFFICES \E q \in 1..Len(w) : \E at3 :
               /\ w[q].key = obs2[n].key
               /\ \A r \in q..Len(w) : w[r].key \in Since(n, obs2)
               /\ Follows(w[q].seen, w[q].key, obs2, at3)
               /\ Len(w[q].seen) = Window \/ at3[1] = n
  BY DEF Remembered
<1> HIDE DEF w, obs2
<1> QED
  BY <1>9, <1>10, <1>11

(* ... and one whose window is there keeps it.                             *)
LEMMA StaysRemembered ==
  ASSUME WindowsInv, NEW t \in Tagged,
         NEW p, NEW d \in {0, 1}, Moved(t.key, t.class, windows', p, d),
         observed' = Append(observed, t),
         NEW f \in 1..Len(observed), Remembered(f),
         Cardinality(Since(f, observed')) <= MaxConversations
  PROVE  Remembered(f)'
<1> DEFINE w == windows'
<1> DEFINE obs2 == observed'
<1>1. /\ observed \in Seq(Tagged) /\ t.key \in Conversations /\ t.class \in Classes
      /\ windows \in Seq(WindowRecords) /\ DOMAIN windows = 1..Len(windows)
      /\ Len(windows) \in Nat
      /\ \A i, j \in 1..Len(windows) : windows[i].key = windows[j].key => i = j
      /\ obs2 = Append(observed, t)
  BY DEF WindowsInv, Tagged
<1>2. /\ Since(f, obs2) = Since(f, observed) \cup {t.key}
      /\ IsFiniteSet(Since(f, obs2)) /\ obs2[f].key = observed[f].key
  BY <1>1, SinceHolds
<1> DEFINE Keeps(q, at) ==
      /\ windows[q].key = observed[f].key
      /\ \A r \in q..Len(windows) : windows[r].key \in Since(f, observed)
      /\ Follows(windows[q].seen, windows[q].key, observed, at)
      /\ Len(windows[q].seen) = Window \/ at[1] = f
<1>7. PICK p0 \in 1..Len(windows) : \E at : Keeps(p0, at)
  BY DEF Remembered
<1>3. PICK at : Keeps(p0, at)
  BY <1>7
<1>4. /\ p \in 1..Len(w) /\ w[p] = [key |-> t.key, seen |-> Extended(Seen(t.key), t.class)]
      /\ \A i \in 1..Len(w) : i # p => i + d \in 1..Len(windows) /\ w[i] = windows[i + d]
      /\ Len(w) \in Nat
      /\ \/ d = 0 /\ Len(w) = Len(windows) /\ windows[p].key = t.key /\ Seen(t.key) = windows[p].seen
         \/ /\ p = Len(w) /\ Len(w) + d = Len(windows) + 1 /\ Positions(t.key) = {}
            /\ d = 1 => Len(windows) >= MaxConversations
  <2>1. w \in Seq(WindowRecords)
    BY DEF Moved
  <2>2. Len(w) \in Nat
    BY <2>1
  <2> QED
    BY <2>2 DEF Moved
<1> SUFFICES \E q \in 1..Len(w) : \E at2 :
               /\ w[q].key = obs2[f].key
               /\ \A r \in q..Len(w) : w[r].key \in Since(f, obs2)
               /\ Follows(w[q].seen, w[q].key, obs2, at2)
               /\ Len(w[q].seen) = Window \/ at2[1] = f
  BY DEF Remembered
<1> HIDE DEF w, obs2
<1>5. CASE windows[p0].key = t.key
  <2>1. /\ d = 0 /\ Len(w) = Len(windows) /\ windows[p].key = t.key
        /\ Seen(t.key) = windows[p].seen
    BY <1>1, <1>4, <1>5 DEF Positions
  <2>2. p = p0 /\ Seen(t.key) = windows[p0].seen
    BY <1>1, <1>4, <1>5, <2>1
  <2>3. /\ Len(windows[p0].seen) \in 1..Window /\ Len(windows[p0].seen) \in 0..Window
        /\ Seen(t.key) \in Seq(Classes) /\ Len(windows[p0].seen) # 0
    <3>1. Len(windows[p0].seen) \in 1..Window
      BY DEF WindowsInv
    <3> QED
      BY <1>1, <3>1, SeenHolds, CorrelatorAssumption
  <2>4. PICK at2 : /\ Follows(w[p].seen, t.key, obs2, at2)
                   /\ Len(w[p].seen) = Window \/ at2[1] = at[1]
    <3>1. Follows(Seen(t.key), t.key, observed, at)
      BY <1>3, <1>5, <2>2
    <3>2. \E at2 : /\ Follows(Extended(Seen(t.key), t.class), t.key, obs2, at2)
                   /\ Len(Extended(Seen(t.key), t.class)) = Window \/ at2[1] = at[1]
      <4>1. Len(Seen(t.key)) \in 0..Window /\ Len(Seen(t.key)) # 0
        BY <2>2, <2>3
      <4>2. PICK at2 : Grown(Seen(t.key), t, observed, at, at2)
        BY <3>1, SeenExtended
      <4> QED
        BY <1>1, <4>1, <4>2 DEF Grown
    <3> QED
      BY <1>4, <3>2
  <2>5. Len(w[p].seen) = Window \/ at2[1] = f
    <3>1. CASE Len(windows[p0].seen) = Window
      <4>1. Len(Seen(t.key)) = Window /\ Len(Seen(t.key)) \in 0..Window
        BY <2>2, <2>3, <3>1
      <4>2. Len(Extended(Seen(t.key), t.class)) = Window
        BY <1>1, <2>3, <4>1, ExtendedHolds
      <4> QED
        BY <1>4, <4>2
    <3> QED
      BY <1>3, <2>4, <3>1
  <2>6. \A r \in p..Len(w) : w[r].key \in Since(f, obs2)
    <3> TAKE r \in p..Len(w)
    <3>1. CASE r = p
      BY <1>2, <1>4, <3>1
    <3>2. CASE r # p
      <4>1. r \in 1..Len(w) /\ r + 0 = r /\ r \in p0..Len(windows)
        BY <1>4, <2>1, <2>2
      <4>2. w[r] = windows[r]
        BY <1>4, <2>1, <3>2, <4>1
      <4> QED
        BY <1>2, <1>3, <4>1, <4>2
    <3> QED
      BY <3>1, <3>2
  <2>7. w[p].key = t.key /\ w[p].key = obs2[f].key
    BY <1>2, <1>3, <1>4, <1>5
  <2> QED
    BY <1>4, <2>4, <2>5, <2>6, <2>7
<1>6. CASE windows[p0].key # t.key
  <2>1. ~ (d = 1 /\ p0 = 1)
    <3> SUFFICES ASSUME d = 1, p0 = 1 PROVE FALSE
      OBVIOUS
    <3>1. Positions(t.key) = {} /\ Len(windows) >= MaxConversations
      BY <1>4
    <3>2. \A q \in 1..Len(windows) : windows[q].key \in Since(f, obs2)
      BY <1>2, <1>3
    <3>3. Cardinality(Since(f, obs2)) <= MaxConversations /\ t.key \in Since(f, obs2)
      BY <1>2 DEF obs2
    <3> QED
      BY <1>2, <3>1, <3>2, <3>3, NotPushedOut
  <2> DEFINE q == p0 - d
  <2>2. q \in 1..Len(w) /\ q + d = p0
    <3>1. CASE d = 0
      BY <1>1, <1>4, <3>1
    <3>2. CASE d = 1
      BY <1>1, <1>4, <2>1, <3>2
    <3> QED
      BY <3>1, <3>2
  <2>3. q # p
    BY <1>1, <1>4, <1>6, <2>2
  <2> HIDE DEF q
  <2>4. w[q] = windows[p0]
    BY <1>4, <2>2, <2>3
  <2>5. \A r \in q..Len(w) : w[r].key \in Since(f, obs2)
    <3> TAKE r \in q..Len(w)
    <3>1. CASE r = p
      BY <1>2, <1>4, <3>1
    <3>2. CASE r # p
      <4>1. r \in 1..Len(w) /\ r + d >= p0
        BY <1>4, <2>2
      <4>2. r + d \in 1..Len(windows) /\ w[r] = windows[r + d]
        BY <1>4, <3>2, <4>1
      <4>3. r + d \in p0..Len(windows)
        BY <1>1, <4>1, <4>2
      <4> QED
        BY <1>2, <1>3, <4>2, <4>3
    <3> QED
      BY <3>1, <3>2
  <2>6. Follows(w[q].seen, w[q].key, obs2, at)
    BY <1>1, <1>3, <1>6, <2>4, FollowsOther
  <2> QED
    BY <1>2, <1>3, <2>2, <2>4, <2>5, <2>6
<1> QED
  BY <1>5, <1>6

LEMMA ObserveRemembers ==
  ASSUME WindowsInv, CorrelatorInv,
         NEW key \in Conversations, NEW class \in Classes \cup {Untagged},
         Observe(key, class), Note(key, class)
  PROVE  CorrelatorInv'
<1>1. CASE class = Untagged
  <2>1. windows' = windows /\ observed' = observed
    BY <1>1 DEF Observe, Note
  <2> QED
    BY <2>1 DEF CorrelatorInv, EndsOfConversations, NothingLost, Remembered
<1>2. CASE class # Untagged
  <2> DEFINE t == [key |-> key, class |-> class, refs |-> MatchedRefs(key, class)]
  <2>1. /\ t \in Tagged /\ observed' = Append(observed, t) /\ t.key = key /\ t.class = class
        /\ observed \in Seq(Tagged)
    BY <1>2, TaggedObserved DEF WindowsInv
  <2>2. PICK p \in 1..Len(windows'), d \in {0, 1} : Moved(key, class, windows', p, d)
    BY <1>2, TaggedObserved
  <2> HIDE DEF t
  <2>3. EndsOfConversations'
    BY <2>1, <2>2, MovedFollow DEF CorrelatorInv
  <2>4. ASSUME NEW f \in 1..Len(observed'), Began(f, observed'),
               Cardinality(Since(f, observed')) <= MaxConversations
        PROVE  Remembered(f)'
    <3>1. f \in 1..Len(observed) \/ f = Len(observed) + 1
      BY <2>1, AppendedActions
    <3>2. CASE f = Len(observed) + 1
      BY <2>1, <2>2, <2>4, <3>2, BeginsRemembered DEF CorrelatorInv
    <3>3. CASE f \in 1..Len(observed)
      <4>1. Began(f, observed) /\ Cardinality(Since(f, observed)) <= Cardinality(Since(f, observed'))
        BY <2>1, <2>4, <3>3, SinceHolds
      <4>2. Cardinality(Since(f, observed)) <= MaxConversations
        BY <2>1, <2>4, <3>3, <4>1, SinceHolds, FS_Subset, FS_CardinalityType, CorrelatorAssumption
      <4>3. Remembered(f)
        BY <3>3, <4>1, <4>2 DEF CorrelatorInv, NothingLost
      <4> QED
        BY <2>1, <2>2, <2>4, <3>3, <4>3, StaysRemembered
    <3> QED
      BY <3>1, <3>2, <3>3
  <2> QED
    BY <2>3, <2>4 DEF CorrelatorInv, NothingLost
<1> QED
  BY <1>1, <1>2

-----------------------------------------------------------------------------
(* What the latest action's answer says of the log.                        *)
Needle(r) == SubSeq(Forbidden[r], 1, Len(Forbidden[r]) - 1)

LEMMA NeedleHolds ==
  ASSUME NEW r \in DOMAIN Forbidden
  PROVE  /\ Forbidden[r] \in Seq(STRING) /\ Len(Forbidden[r]) \in Nat \ {0}
         /\ Needle(r) \in Seq(STRING) /\ Len(Needle(r)) = Len(Forbidden[r]) - 1
         /\ \A k \in 1..(Len(Forbidden[r]) - 1) : Needle(r)[k] = Forbidden[r][k]
<1> DEFINE s == Forbidden[r]
<1>1. s \in Seq(STRING) /\ s # <<>>
  BY CorrelatorAssumption
<1> HIDE DEF s
<1>2. Len(s) \in Nat \ {0}
  BY <1>1
<1>3. SubSeq(s, 1, Len(s) - 1) = [k \in 1..(Len(s) - 1) |-> s[k]]
  BY <1>1, <1>2
<1>4. [k \in 1..(Len(s) - 1) |-> s[k]] \in Seq(STRING)
  BY <1>1, <1>2
<1> DEFINE needle == [k \in 1..(Len(s) - 1) |-> s[k]]
<1>5. Needle(r) = needle
  BY <1>3 DEF Needle, s
<1>6. Len(needle) = Len(s) - 1
  BY <1>2
<1>7. \A k \in 1..(Len(s) - 1) : needle[k] = s[k]
  OBVIOUS
<1> HIDE DEF needle
<1>8. /\ s \in Seq(STRING) /\ Len(s) \in Nat \ {0}
      /\ Needle(r) \in Seq(STRING) /\ Len(Needle(r)) = Len(s) - 1
      /\ \A k \in 1..(Len(s) - 1) : Needle(r)[k] = s[k]
  BY <1>1, <1>2, <1>4, <1>5, <1>6, <1>7 DEF needle
<1> QED
  BY <1>8 DEF s

LEMMA ClassesAreStrings ==
  ASSUME NEW s \in Seq(Classes)
  PROVE  s \in Seq(STRING) /\ Len(s) \in Nat
<1>1. /\ Len(s) \in Nat /\ DOMAIN s = 1..Len(s)
      /\ \A k \in 1..Len(s) : s[k] \in Classes
      /\ s = [k \in 1..Len(s) |-> s[k]]
  OBVIOUS
<1>2. \A k \in 1..Len(s) : s[k] \in STRING
  BY <1>1, MemoryAssumption
<1>3. [k \in 1..Len(s) |-> s[k]] \in Seq(STRING)
  BY <1>1, <1>2
<1> QED
  BY <1>1, <1>3

(* The log as it stands after the action n.                                *)
Logged(n, obs2, key, class) ==
  /\ n = Len(observed) + 1 /\ Len(observed) \in Nat /\ Len(obs2) = n
  /\ obs2[n] = [key |-> key, class |-> class, refs |-> MatchedRefs(key, class)]
  /\ \A j \in 1..Len(observed) : obs2[j] = observed[j]

LEMMA LatestHolds ==
  ASSUME WindowsInv, NEW key \in Conversations, NEW class \in Classes,
         Observe(key, class), Note(key, class)
  PROVE  /\ \E n : Logged(n, observed', key, class)
         /\ \A n : Logged(n, observed', key, class) =>
              /\ Latest' = {n} /\ Earlier(n)' = ActionsOf(key, observed)
<1> DEFINE t == [key |-> key, class |-> class, refs |-> MatchedRefs(key, class)]
<1>1. observed' = Append(observed, t) /\ t \in Tagged /\ observed \in Seq(Tagged)
  BY TaggedObserved DEF WindowsInv
<1>2. Logged(Len(observed) + 1, observed', key, class)
  <2> HIDE DEF t
  <2> QED
    BY <1>1, AppendedActions DEF Logged, t
<1>3. ASSUME NEW n, Logged(n, observed', key, class)
      PROVE  Latest' = {n} /\ Earlier(n)' = ActionsOf(key, observed)
  <2>1. n # 0 /\ n - 1 = Len(observed) /\ Len(observed') = n /\ observed'[n].key = key
    BY <1>3 DEF Logged
  <2>2. Latest' = {n}
    BY <2>1 DEF Latest
  <2>3. Earlier(n)' = {j \in 1..Len(observed) : observed'[j].key = key}
    BY <2>1 DEF Earlier
  <2>4. {j \in 1..Len(observed) : observed'[j].key = key} = ActionsOf(key, observed)
    BY <1>3 DEF Logged, ActionsOf
  <2> QED
    BY <2>2, <2>3, <2>4
<1> QED
  BY <1>2, <1>3

(* Happened, in the log obs.                                               *)
Took(r, i, P, obs) ==
  /\ obs[i].class = Forbidden[r][Len(Forbidden[r])]
  /\ \E at \in [1..(Len(Forbidden[r]) - 1) -> P] :
       /\ \A k \in 1..(Len(Forbidden[r]) - 1) : obs[at[k]].class = Forbidden[r][k]
       /\ \A k, l \in 1..(Len(Forbidden[r]) - 1) : k < l => at[k] < at[l]

LEMMA ObserveMatches ==
  ASSUME WindowsInv, CorrelatorInv, NEW key \in Conversations, NEW class \in Classes,
         Observe(key, class), Note(key, class)
  PROVE  MatchesHappened'
<1> DEFINE obs2 == observed'
<1>1. PICK n : /\ Logged(n, obs2, key, class) /\ Latest' = {n}
               /\ Earlier(n)' = ActionsOf(key, observed)
  BY LatestHolds
<1>2. obs2[n].refs = MatchedRefs(key, class) /\ obs2[n].class = class
      /\ \A j \in 1..Len(observed) : obs2[j] = observed[j]
  BY <1>1 DEF Logged
<1> SUFFICES ASSUME NEW r \in MatchedRefs(key, class)
             PROVE  Took(r, n, Earlier(n)', obs2)
  BY <1>1, <1>2 DEF MatchesHappened, Happened, Took
<1> DEFINE s == Forbidden[r]
<1> DEFINE m == Len(s) - 1
<1> DEFINE seen == Seen(key)
<1> DEFINE A == ActionsOf(key, observed)
<1>3. /\ r \in DOMAIN Forbidden /\ s[Len(s)] = class
      /\ OrderedSubsequence(Needle(r), seen)
  BY DEF MatchedRefs, Needle
<1>4. /\ Needle(r) \in Seq(STRING) /\ Len(Needle(r)) = m /\ m \in Nat
      /\ \A k \in 1..m : Needle(r)[k] = s[k]
  BY <1>3, NeedleHolds
<1>5. seen \in Seq(STRING) /\ Len(seen) \in Nat
  <2>1. seen \in Seq(Classes)
    BY SeenHolds
  <2> HIDE DEF seen
  <2> QED
    BY <2>1, ClassesAreStrings
<1>6. PICK at : Follows(seen, key, observed, at)
  BY SeenFollows DEF CorrelatorInv
<1>7. PICK p : Laid(Needle(r), seen, p)
  BY <1>3, <1>4, <1>5, FoundIsLaid
<1> HIDE DEF s, m, seen, A, obs2
<1>8. /\ \A k \in 1..m : p[k] \in 1..Len(seen) /\ seen[p[k]] = s[k]
      /\ \A k, l \in 1..m : k < l => p[k] < p[l]
  BY <1>4, <1>7 DEF Laid
<1>9. /\ \A k \in 1..Len(seen) : at[k] \in A /\ observed[at[k]].class = seen[k]
      /\ \A k, l \in 1..Len(seen) : k < l => at[k] < at[l]
      /\ \A j \in A : j \in 1..Len(observed)
  BY <1>6 DEF Follows, A, ActionsOf
<1> DEFINE steps == [k \in 1..m |-> at[p[k]]]
<1>10. steps \in [1..m -> A]
  BY <1>8, <1>9
<1>11. \A k \in 1..m : obs2[steps[k]].class = s[k]
  <2> TAKE k \in 1..m
  <2>1. p[k] \in 1..Len(seen) /\ seen[p[k]] = s[k]
    BY <1>8
  <2>2. at[p[k]] \in 1..Len(observed) /\ observed[at[p[k]]].class = s[k]
    BY <1>9, <2>1
  <2> QED
    BY <1>2, <2>2
<1>12. \A k, l \in 1..m : k < l => steps[k] < steps[l]
  BY <1>8, <1>9
<1> HIDE DEF steps
<1> QED
  BY <1>1, <1>2, <1>3, <1>10, <1>11, <1>12 DEF Took, s, m, A

(* The last Window of the actions A.                                       *)
LastOf(A) == {j \in A : Cardinality({k \in A : k >= j}) <= Window}

(* A conversation that was not pushed out has its last Window actions in   *)
(* the window.                                                             *)
LEMMA RecentAreSeen ==
  ASSUME WindowsInv, CorrelatorInv, NEW key \in Conversations, NEW class \in Classes,
         Observe(key, class), Note(key, class),
         NEW n, Logged(n, observed', key, class),
         Cardinality(Rivals(n)') <= MaxConversations
  PROVE  \E at : /\ Follows(Seen(key), key, observed, at)
                 /\ \A j \in LastOf(ActionsOf(key, observed)) :
                      \E l \in 1..Len(Seen(key)) : at[l] = j
<1> DEFINE A == ActionsOf(key, observed)
<1> DEFINE seen == Seen(key)
<1> DEFINE t == [key |-> key, class |-> class, refs |-> MatchedRefs(key, class)]
<1>1. /\ observed' = Append(observed, t) /\ t \in Tagged /\ observed \in Seq(Tagged)
      /\ t.key = key
  BY TaggedObserved DEF WindowsInv
<1>2. n = Len(observed) + 1 /\ Len(observed) \in Nat /\ Len(observed') = n
  BY DEF Logged
<1> HIDE DEF t
<1>3. \A j \in A : j \in 1..Len(observed) /\ observed[j].key = key
  BY DEF ActionsOf
<1>4. CASE A = {}
  <2>1. \E at : Follows(seen, key, observed, at)
    BY SeenFollows DEF CorrelatorInv
  <2> QED
    BY <1>4, <2>1 DEF LastOf
<1>5. CASE A # {}
  <2>1. PICK f \in A : \A j \in A : f <= j
    <3>1. A \in SUBSET Nat
      BY <1>3
    <3> HIDE DEF A
    <3> QED
      BY <1>5, <3>1, HasLeast
  <2>2. f \in 1..Len(observed) /\ observed[f].key = key
    BY <1>3, <2>1
  <2>3. Began(f, observed)
    BY <2>1, <2>2 DEF Began
  <2>4. Rivals(n)' = Since(f, observed')
    <3>1. Earlier(n)' = A
      BY LatestHolds
    <3> HIDE DEF A
    <3>2. {k \in 1..n : \E e \in A : e <= k} = f..Len(observed')
      <4>1. ASSUME NEW k \in 1..n, NEW e \in A, e <= k PROVE k \in f..n
        <5>1. f <= e /\ f \in Nat /\ e \in Nat /\ k \in Nat
          BY <1>2, <1>3, <2>1, <2>2
        <5> QED
          BY <4>1, <5>1
      <4>2. ASSUME NEW k \in f..n PROVE k \in 1..n /\ f <= k
        BY <1>2, <2>2
      <4> QED
        BY <1>2, <2>1, <4>1, <4>2
    <3> QED
      BY <3>1, <3>2 DEF Rivals, Since
  <2>5. /\ IsFiniteSet(Since(f, observed'))
        /\ Cardinality(Since(f, observed)) <= Cardinality(Since(f, observed'))
        /\ Since(f, observed) \subseteq Since(f, observed')
    BY <1>1, <2>2, SinceHolds
  <2>6. Cardinality(Since(f, observed)) <= MaxConversations
    <3>1. /\ Cardinality(Since(f, observed)) \in Nat /\ Cardinality(Since(f, observed')) \in Nat
          /\ MaxConversations \in Nat
      BY <2>5, FS_Subset, FS_CardinalityType, CorrelatorAssumption
    <3> QED
      BY <2>4, <2>5, <3>1
  <2>12. PICK p0 \in 1..Len(windows) : \E at :
           /\ windows[p0].key = key
           /\ Follows(windows[p0].seen, key, observed, at)
           /\ Len(windows[p0].seen) = Window \/ at[1] = f
    BY <2>2, <2>3, <2>6 DEF CorrelatorInv, NothingLost, Remembered
  <2>7. PICK at : /\ windows[p0].key = key
                  /\ Follows(windows[p0].seen, key, observed, at)
                  /\ Len(windows[p0].seen) = Window \/ at[1] = f
    BY <2>12
  <2>8. seen = windows[p0].seen /\ Len(seen) \in 1..Window
    <3>1. p0 \in Positions(key)
      BY <2>7 DEF Positions, WindowsInv
    <3>2. seen = windows[p0].seen
      BY <3>1, SeenHolds
    <3> QED
      BY <3>2 DEF WindowsInv
  <2> HIDE DEF A, seen
  <2>9. /\ at \in [1..Len(seen) -> A]
        /\ \A k, l \in 1..Len(seen) : k < l => at[k] < at[l]
        /\ \A j \in A, k \in 1..Len(seen) : at[k] <= j => \E l \in 1..Len(seen) : at[l] = j
    BY <2>7, <2>8 DEF Follows, A
  <2>10. ASSUME NEW j \in LastOf(A), \A l \in 1..Len(seen) : at[l] # j
         PROVE  FALSE
    <3>1. j \in A /\ Cardinality({k \in A : k >= j}) <= Window
      BY DEF LastOf
    <3>2. \A l \in 1..Len(seen) : at[l] \in A /\ at[l] > j
      <4> TAKE l \in 1..Len(seen)
      <4>1. at[l] \in A /\ ~ (at[l] <= j)
        BY <2>9, <2>10, <3>1
      <4> QED
        BY <1>3, <3>1, <4>1
    <3>3. Window \in Nat \ {0} /\ 1 \in 1..Len(seen)
      BY <2>8, CorrelatorAssumption
    <3>4. at[1] # f
      <4>1. at[1] > j /\ at[1] \in Nat /\ j \in Nat /\ f <= j /\ f \in Nat
        BY <1>3, <2>1, <3>1, <3>2, <3>3
      <4> QED
        BY <4>1
    <3>5. Len(seen) = Window
      BY <2>7, <2>8, <3>4
    <3> DEFINE T == {k \in A : k >= j}
    <3> DEFINE g == [k \in 1..(Window + 1) |-> IF k = Window + 1 THEN j ELSE at[k]]
    <3>6. IsFiniteSet(T)
      <4>1. T \subseteq 1..Len(observed)
        BY <1>3
      <4>2. IsFiniteSet(1..Len(observed))
        BY <1>2, FS_Interval
      <4> HIDE DEF T
      <4> QED
        BY <4>1, <4>2, FS_Subset
    <3>7. \A k \in 1..(Window + 1) : k \in 1..Window \/ k = Window + 1
      BY <3>3
    <3>8. g[Window + 1] = j /\ \A k \in 1..Window : g[k] = at[k]
      BY <3>3
    <3>9. g \in [1..(Window + 1) -> T]
      <4>1. j \in T
        BY <1>3, <3>1
      <4>2. \A k \in 1..Window : at[k] \in T
        <5> TAKE k \in 1..Window
        <5>1. at[k] \in A /\ at[k] > j
          BY <3>2, <3>5
        <5> QED
          BY <1>3, <3>1, <5>1
      <4> HIDE DEF T
      <4> QED
        BY <3>7, <4>1, <4>2
    <3> HIDE DEF g
    <3>10. \A k, l \in 1..Window : at[k] = at[l] => k = l
      <4> TAKE k, l \in 1..Window
      <4> HAVE at[k] = at[l]
      <4>1. at[k] \in Nat /\ at[l] \in Nat
        BY <1>3, <3>2, <3>5
      <4>2. ~ (k < l) /\ ~ (l < k)
        BY <2>9, <3>5, <4>1
      <4> QED
        BY <3>3, <4>2
    <3>11. \A k, l \in 1..(Window + 1) : g[k] = g[l] => k = l
      BY <2>10, <3>5, <3>7, <3>8, <3>10
    <3> HIDE DEF T
    <3>12. Window + 1 <= Cardinality(T)
      <4>1. Window + 1 \in Nat
        BY <3>3
      <4> QED
        BY <3>6, <3>9, <3>11, <4>1, FitsInto
    <3>13. Cardinality(T) \in Nat /\ Cardinality(T) <= Window
      BY <3>1, <3>6, FS_CardinalityType DEF T
    <3> QED
      BY <3>3, <3>12, <3>13
  <2>11. \A j \in LastOf(A) : \E l \in 1..Len(seen) : at[l] = j
    BY <2>10
  <2> QED
    BY <2>7, <2>8, <2>11 DEF A, seen
<1> QED
  BY <1>4, <1>5

LEMMA ObserveCatches ==
  ASSUME WindowsInv, CorrelatorInv, NEW key \in Conversations, NEW class \in Classes,
         Observe(key, class), Note(key, class)
  PROVE  SequencesCaught'
<1> DEFINE obs2 == observed'
<1> DEFINE A == ActionsOf(key, observed)
<1>1. PICK n : Logged(n, obs2, key, class) /\ Latest' = {n} /\ Earlier(n)' = A
  BY LatestHolds
<1>2. obs2[n].refs = MatchedRefs(key, class) /\ obs2[n].class = class
      /\ \A j \in 1..Len(observed) : obs2[j] = observed[j]
  BY <1>1 DEF Logged
<1>3. Recent(n)' = LastOf(A)
  BY <1>1 DEF Recent, LastOf
<1> SUFFICES ASSUME NEW r \in DOMAIN Forbidden, Took(r, n, Recent(n)', obs2),
                    Cardinality(Rivals(n)') <= MaxConversations
             PROVE  r \in MatchedRefs(key, class)
  BY <1>1, <1>2 DEF SequencesCaught, Happened, Took
<1> DEFINE s == Forbidden[r]
<1> DEFINE m == Len(s) - 1
<1> DEFINE seen == Seen(key)
<1>4. /\ Needle(r) \in Seq(STRING) /\ Len(Needle(r)) = m /\ m \in Nat
      /\ \A k \in 1..m : Needle(r)[k] = s[k]
  BY NeedleHolds
<1>5. seen \in Seq(STRING) /\ Len(seen) \in Nat
  BY SeenHolds, ClassesAreStrings
<1>6. PICK at : /\ Follows(seen, key, observed, at)
                /\ \A j \in LastOf(A) : \E l \in 1..Len(seen) : at[l] = j
  BY <1>1, RecentAreSeen
<1>7. PICK steps \in [1..m -> LastOf(A)] :
        /\ \A k \in 1..m : obs2[steps[k]].class = s[k]
        /\ \A k, l \in 1..m : k < l => steps[k] < steps[l]
  BY <1>3 DEF Took
<1>8. s[Len(s)] = class
  BY <1>2 DEF Took
<1> HIDE DEF s, m, seen, A, obs2
<1>9. /\ \A k \in 1..Len(seen) : at[k] \in A /\ observed[at[k]].class = seen[k]
      /\ \A k, l \in 1..Len(seen) : k < l => at[k] < at[l]
      /\ \A j \in A : j \in 1..Len(observed) /\ j \in Nat
  BY <1>6 DEF Follows, A, ActionsOf
<1> DEFINE p == [k \in 1..m |-> CHOOSE l \in 1..Len(seen) : at[l] = steps[k]]
<1>10. \A k \in 1..m : p[k] \in 1..Len(seen) /\ at[p[k]] = steps[k]
  <2> TAKE k \in 1..m
  <2>1. \E l \in 1..Len(seen) : at[l] = steps[k]
    BY <1>6, <1>7
  <2> QED
    BY <2>1
<1>11. p \in [1..m -> 1..Len(seen)]
  BY <1>10
<1> HIDE DEF p
<1>12. \A k \in 1..m : seen[p[k]] = s[k]
  <2> TAKE k \in 1..m
  <2>1. p[k] \in 1..Len(seen) /\ at[p[k]] = steps[k] /\ obs2[steps[k]].class = s[k]
    BY <1>7, <1>10
  <2>2. steps[k] \in 1..Len(observed) /\ observed[steps[k]].class = seen[p[k]]
    BY <1>9, <2>1
  <2> QED
    BY <1>2, <2>1, <2>2 DEF obs2
<1>13. \A k, l \in 1..m : k < l => p[k] < p[l]
  <2> TAKE k, l \in 1..m
  <2> HAVE k < l
  <2>1. /\ p[k] \in 1..Len(seen) /\ p[l] \in 1..Len(seen)
        /\ at[p[k]] < at[p[l]]
    BY <1>7, <1>10
  <2>2. at[p[k]] \in Nat /\ at[p[l]] \in Nat
    BY <1>9, <2>1
  <2>3. p[k] # p[l] /\ ~ (p[l] < p[k])
    BY <1>9, <2>1, <2>2
  <2> QED
    BY <1>5, <2>1, <2>3
<1>14. Laid(Needle(r), seen, p)
  BY <1>4, <1>11, <1>12, <1>13 DEF Laid
<1>15. OrderedSubsequence(Needle(r), seen)
  BY <1>4, <1>5, <1>14, LaidIsFound
<1> QED
  BY <1>8, <1>15 DEF MatchedRefs, Needle, s, seen

-----------------------------------------------------------------------------
HistoryInv == CorrelatorInv /\ MatchesHappened /\ SequencesCaught

LEMMA LogUnchanged ==
  ASSUME MatchesHappened, SequencesCaught, observed' = observed
  PROVE  MatchesHappened' /\ SequencesCaught'
<1>1. Latest' = Latest
  BY DEF Latest
<1>2. \A i : Earlier(i)' = Earlier(i)
  BY DEF Earlier
<1>3. \A i : Recent(i)' = Recent(i)
  BY <1>2 DEF Recent
<1>4. \A i : Rivals(i)' = Rivals(i)
  BY <1>2 DEF Rivals
<1>5. \A i \in Latest : \A r \in observed[i].refs : Took(r, i, Earlier(i), observed)
  BY DEF MatchesHappened, Happened, Took
<1>6. \A i \in Latest' : \A r \in observed'[i].refs : Took(r, i, Earlier(i)', observed')
  BY <1>1, <1>2, <1>5
<1>7. MatchesHappened'
  BY <1>6 DEF MatchesHappened, Happened, Took
<1>8. \A i \in Latest : \A r \in DOMAIN Forbidden :
        Took(r, i, Recent(i), observed) /\ Cardinality(Rivals(i)) <= MaxConversations
          => r \in observed[i].refs
  BY DEF SequencesCaught, Happened, Took
<1>9. \A i \in Latest' : \A r \in DOMAIN Forbidden :
        Took(r, i, Recent(i)', observed') /\ Cardinality(Rivals(i)') <= MaxConversations
          => r \in observed'[i].refs
  BY <1>1, <1>3, <1>4, <1>8
<1>10. SequencesCaught'
  BY <1>9 DEF SequencesCaught, Happened, Took
<1> QED
  BY <1>7, <1>10

LEMMA ObserveHistory ==
  ASSUME IInv, HistoryInv, NEW key \in Conversations, NEW class \in Classes \cup {Untagged},
         Observe(key, class), Note(key, class)
  PROVE  HistoryInv'
<1>1. WindowsInv /\ CorrelatorInv
  BY DEF IInv, HistoryInv
<1>2. CorrelatorInv'
  BY <1>1, ObserveRemembers
<1>3. CASE class = Untagged
  <2>1. observed' = observed
    BY <1>3 DEF Note
  <2> QED
    BY <1>2, <2>1, LogUnchanged DEF HistoryInv
<1>4. CASE class # Untagged
  <2>1. class \in Classes
    BY <1>4
  <2> QED
    BY <1>1, <1>2, <2>1, ObserveMatches, ObserveCatches DEF HistoryInv
<1> QED
  BY <1>3, <1>4

LEMMA UnobservedHistory ==
  ASSUME HistoryInv, UNCHANGED <<windows, observed>>
  PROVE  HistoryInv'
<1>1. CorrelatorInv'
  BY DEF HistoryInv, CorrelatorInv, EndsOfConversations, NothingLost, Remembered
<1> QED
  BY <1>1, LogUnchanged DEF HistoryInv

LEMMA NextHistory == IInv /\ HistoryInv /\ [Next]_vars => HistoryInv'
<1> SUFFICES ASSUME IInv, HistoryInv, [Next]_vars PROVE HistoryInv'
  OBVIOUS
<1>1. ASSUME NEW e \in Evaluations, NEW key \in Conversations,
             NEW class \in Classes \cup {Untagged},
             Decide(e, key, class) \/ AskInterpreter(e, key, class)
      PROVE  HistoryInv'
  BY <1>1, ObserveHistory DEF Decide, AskInterpreter
<1>2. ASSUME NEW e \in Evaluations, NEW verdict \in Verdicts, Answers(e, verdict)
      PROVE  HistoryInv'
  BY <1>2, UnobservedHistory DEF Answers
<1>3. ASSUME NEW e \in Evaluations, Malformed(e) \/ Fails(e) PROVE HistoryInv'
  BY <1>3, UnobservedHistory DEF Malformed, Fails
<1>4. CASE Reload \/ EmptyCache \/ UNCHANGED vars
  BY <1>4, UnobservedHistory DEF Reload, EmptyCache, vars
<1> QED
  BY <1>1, <1>2, <1>3, <1>4 DEF Next

LEMMA AlwaysHistory == Spec => []HistoryInv
<1>1. Init => HistoryInv
  <2> SUFFICES ASSUME Init PROVE HistoryInv
    OBVIOUS
  <2>1. windows = <<>> /\ observed = <<>>
    BY DEF Init, CorrelatorInit
  <2>2. Latest = {} /\ 1..Len(windows) = {} /\ 1..Len(observed) = {}
    BY <2>1 DEF Latest
  <2> QED
    BY <2>2 DEF HistoryInv, CorrelatorInv, EndsOfConversations, NothingLost,
                MatchesHappened, SequencesCaught
<1> QED
  BY <1>1, NextHistory, AlwaysMemory, PTL DEF Spec

(* A principle fires on a sequence only when its steps happened, in that   *)
(* order and in that conversation, whatever else was seen meanwhile        *)
(* (sequence.py, observe and _ordered_subsequence).                        *)
THEOREM AlwaysMatchesHappened == Spec => []MatchesHappened
<1>1. HistoryInv => MatchesHappened
  BY DEF HistoryInv
<1> QED
  BY <1>1, AlwaysHistory, PTL

(* A forbidden sequence is never missed within the documented bounds: its  *)
(* steps are in the last Window of the conversation and no more than       *)
(* MaxConversations were active since it began (sequence.py, observe and   *)
(* the eviction in it).                                                    *)
THEOREM AlwaysSequencesCaught == Spec => []SequencesCaught
<1>1. HistoryInv => SequencesCaught
  BY DEF HistoryInv
<1> QED
  BY <1>1, AlwaysHistory, PTL
=============================================================================
