---------------------------- MODULE ResourceStore ----------------------------
(***************************************************************************)
(* ResourceStore (controlplane/resources.py): the declarative resources of *)
(* the control plane.  A put reads the row and commits in one session, an  *)
(* apply_constitution reads, inserts two rows and may read again; other    *)
(* sessions, of this process or another, commit between any two of those   *)
(* statements.                                                             *)
(***************************************************************************)
EXTENDS Naturals

CONSTANTS
  Sessions,    \* sessions over the store, each with one operation at a time
  Agents,      \* keys of a versioned resource (trust_profile, abom)
  Contents,    \* what such a row may hold
  Documents,   \* authored constitutions that validate and compile
  VersionOf,   \* VersionOf[d]: the content hash of the canonical form of d
  Names,       \* the names they are applied under
  MaxVersion   \* bound on the versions of a row, for model checking

ASSUME ResourceAssumption == MaxVersion \in Nat \ {0}

Versions == {VersionOf[d] : d \in Documents}

VARIABLES
  row,           \* row[a]: the versioned row of agent a, or NoRow
  constitution,  \* the constitution rows
  policy,        \* the policy rows
  session,       \* session[s]: the operation in progress
  answered,      \* what puts and gets answered, per agent
  applied        \* what apply_constitution answered, per version

puts == <<row, answered>>
applies == <<constitution, policy, applied>>
vars == <<puts, applies, session>>

NoRow == [version |-> 0]
Row(v, c) == [version |-> v, content |-> c]
Idle == [pc |-> "idle"]
Nothing == "nothing"
Answer(a, r) == [agent |-> a, row |-> r]

Init ==
  /\ row = [a \in Agents |-> NoRow]
  /\ constitution = {}
  /\ policy = {}
  /\ session = [s \in Sessions |-> Idle]
  /\ answered = {}
  /\ applied = {}

Goes(s, to) == session' = [session EXCEPT ![s] = to]

-----------------------------------------------------------------------------
(* put_trust_profile and put_abom.  A version other than the row's is a    *)
(* VersionConflict at once; an absent row is created whatever it is.       *)
PutReads(s, a, content, expected) ==
  /\ session[s] = Idle
  /\ row[a] # NoRow => expected = row[a].version
  /\ Goes(s, [pc |-> "put", agent |-> a, seen |-> row[a], content |-> content])
  /\ UNCHANGED <<puts, applies>>

(* What the commit writes: nothing, when the content is the one read, else *)
(* the next version.                                                       *)
Unchanged(p) == p.seen # NoRow /\ p.seen.content = p.content
MutantWritten(p) == Row(p.seen.version, p.content)
Written(p) == IF Unchanged(p) THEN p.seen ELSE Row(p.seen.version + 1, p.content)

(* The primary key refuses a second INSERT, the version_id_col an UPDATE   *)
(* of a row that moved.                                                    *)
MutantGuarded(p) == p.seen = NoRow => row[p.agent] = NoRow
Guarded(p) == row[p.agent].version = p.seen.version

PutCommits(s) ==
  LET p == session[s] IN
  /\ p.pc = "put"
  /\ Unchanged(p) \/ Guarded(p)
  /\ Written(p).version <= MaxVersion
  /\ row' = [row EXCEPT ![p.agent] = IF Unchanged(p) THEN @ ELSE Written(p)]
  /\ answered' = answered \cup {Answer(p.agent, Written(p))}
  /\ Goes(s, Idle)
  /\ UNCHANGED applies

Get(a) ==
  /\ row[a] # NoRow
  /\ answered' = answered \cup {Answer(a, row[a])}
  /\ UNCHANGED <<row, applies, session>>

-----------------------------------------------------------------------------
(* apply_constitution, validated and compiled: _fetch_version looks for    *)
(* the constitution row first ...                                          *)
Holding(v) == {c \in constitution : c.version = v}
Found(v, name, pc) ==
  IF Holding(v) = {} THEN {[pc |-> pc, version |-> v, name |-> name]}
  ELSE {[pc |-> "fetched", version |-> v, con |-> c] : c \in Holding(v)}

ApplyReads(s, d, name) ==
  /\ session[s] = Idle
  /\ \E to \in Found(VersionOf[d], name, "insert") : Goes(s, to)
  /\ UNCHANGED <<puts, applies>>

(* ... and then for its policy row.                                        *)
ApplyAnswersFetched(s) ==
  LET f == session[s] IN
  /\ f.pc = "fetched"
  /\ \E p \in {q \in policy : q.version = f.version} :
       applied' = applied \cup {[version |-> f.version, con |-> f.con, pol |-> p]}
  /\ Goes(s, Idle)
  /\ UNCHANGED <<puts, constitution, policy>>

(* Both rows in one transaction, unless UNIQUE(version) refuses them.      *)
MutantUnique(v) == TRUE
Unique(v) == \A r \in constitution \cup policy : r.version # v

Stamped(i, s) == [version |-> i.version, name |-> i.name, by |-> s]

MutantPolicyAfter(s) == policy
PolicyAfter(s) == policy \cup {Stamped(session[s], s)}

ApplyInserts(s) ==
  LET i == session[s] IN
  /\ i.pc = "insert"
  /\ Unique(i.version)
  /\ constitution' = constitution \cup {Stamped(i, s)}
  /\ policy' = PolicyAfter(s)
  /\ applied' = applied \cup
       {[version |-> i.version, con |-> Stamped(i, s), pol |-> Stamped(i, s)]}
  /\ Goes(s, Idle)
  /\ UNCHANGED puts

(* IntegrityError: roll back, and answer what the winner committed.        *)
ApplyLoses(s) ==
  /\ session[s].pc = "insert"
  /\ ~ Unique(session[s].version)
  /\ Goes(s, [session[s] EXCEPT !.pc = "refetch"])
  /\ UNCHANGED <<puts, applies>>

ApplyRefetches(s) ==
  LET r == session[s] IN
  /\ r.pc = "refetch"
  /\ \E to \in Found(r.version, r.name, Nothing) : Goes(s, to)
  /\ UNCHANGED <<puts, applies>>

-----------------------------------------------------------------------------
(* A conflict, a commit that raises, or a process that stops.              *)
Fails(s) ==
  /\ session[s] # Idle
  /\ Goes(s, Idle)
  /\ UNCHANGED <<puts, applies>>

Next ==
  \/ \E s \in Sessions :
       \/ \E a \in Agents, c \in Contents, v \in 0..MaxVersion : PutReads(s, a, c, v)
       \/ PutCommits(s)
       \/ \E d \in Documents, name \in Names : ApplyReads(s, d, name)
       \/ ApplyAnswersFetched(s)
       \/ ApplyInserts(s)
       \/ ApplyLoses(s)
       \/ ApplyRefetches(s)
       \/ Fails(s)
  \/ \E a \in Agents : Get(a)

Spec == Init /\ [][Next]_vars

-----------------------------------------------------------------------------
RowOK(r) == r = NoRow \/ r \in [version : 1..MaxVersion, content : Contents]
Stored == [version : Versions, name : Names, by : Sessions]
SessionOK(x) ==
  \/ x = Idle
  \/ x.pc = "put" /\ x.agent \in Agents /\ RowOK(x.seen) /\ x.content \in Contents
  \/ x \in [pc : {"insert", "refetch", Nothing}, version : Versions, name : Names]
  \/ x \in [pc : {"fetched"}, version : Versions, con : Stored]
TypeOK ==
  /\ DOMAIN row = Agents /\ \A a \in Agents : RowOK(row[a])
  /\ constitution \subseteq Stored /\ policy \subseteq Stored
  /\ DOMAIN session = Sessions /\ \A s \in Sessions : SessionOK(session[s])
  /\ answered \subseteq [agent : Agents, row : [version : 1..MaxVersion, content : Contents]]
  /\ applied \subseteq [version : Versions, con : Stored, pol : Stored]

(* Optimistic concurrency: whatever puts race, no two clients are ever     *)
(* given one version of a resource with two contents, so an accepted       *)
(* version names the very row it replaces (resources.py, module docstring).*)
VersionNamesContent ==
  \A x, y \in answered :
    x.agent = y.agent /\ x.row.version = y.row.version => x = y

(* Every apply of a version, the first, a repeated or a racing one,        *)
(* answers the same two rows (resources.py, apply_constitution).           *)
ApplyIsIdempotent ==
  \A x, y \in applied : x.version = y.version => x = y

(* An apply that found a constitution row, or lost the race for it, finds  *)
(* the rows it must answer with: the two are never apart                   *)
(* (resources.py, _fetch_version).                                         *)
FetchFindsBoth ==
  \A s \in Sessions :
    /\ session[s].pc # Nothing
    /\ session[s].pc = "fetched" => session[s].con \in policy
=============================================================================
