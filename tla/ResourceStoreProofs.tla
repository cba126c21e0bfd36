------------------------- MODULE ResourceStoreProofs -------------------------
(***************************************************************************)
(* For any number of sessions, agents and documents: a version names one   *)
(* content, and every apply of a version answers the same two rows.        *)
(***************************************************************************)
EXTENDS ResourceStore, TLAPS

Putting(s) == session[s].pc = "put"
Fetched(s) == session[s].pc = "fetched"

(* Any row a client or a session ever saw is the current one, or older.    *)
NotAfter(r, a) == r.version <= row[a].version /\ (r.version = row[a].version => r = row[a])

AnsweredNotAfter == \A x \in answered : NotAfter(x.row, x.agent)
SeenNotAfter == \A s \in Sessions : Putting(s) => NotAfter(session[s].seen, session[s].agent)

(* A session about to answer with what it read agrees with every answer    *)
(* given, and with every other session.                                    *)
SeenAgrees ==
  /\ \A s \in Sessions, x \in answered :
       Putting(s) /\ x.agent = session[s].agent /\ x.row.version = session[s].seen.version
         => x.row = session[s].seen
  /\ \A s, t \in Sessions :
       Putting(s) /\ Putting(t) /\ session[s].agent = session[t].agent
         /\ session[s].seen.version = session[t].seen.version
         => session[s].seen = session[t].seen

PutInv == AnsweredNotAfter /\ SeenNotAfter /\ SeenAgrees /\ VersionNamesContent

(* The two tables hold the same rows, one for each version; what was       *)
(* answered or fetched is one of them, and a loser has a winner.           *)
ApplyInv ==
  /\ policy = constitution
  /\ \A c, d \in constitution : c.version = d.version => c = d
  /\ \A x \in applied : x.con \in constitution /\ x.pol = x.con /\ x.con.version = x.version
  /\ \A s \in Sessions :
       /\ session[s].pc # Nothing
       /\ Fetched(s) => session[s].con \in constitution
                        /\ session[s].con.version = session[s].version
       /\ session[s].pc = "refetch" => \E c \in constitution : c.version = session[s].version

IInv == TypeOK /\ PutInv /\ ApplyInv

LEMMA InitInv == Init => IInv
<1> SUFFICES ASSUME Init PROVE IInv
  OBVIOUS
<1>1. Idle.pc = "idle"
  BY DEF Idle
<1>2. TypeOK
  BY DEF Init, TypeOK, RowOK, SessionOK
<1>3. PutInv
  BY <1>1 DEF Init, PutInv, AnsweredNotAfter, SeenNotAfter, SeenAgrees, VersionNamesContent, Putting
<1>4. ApplyInv
  BY <1>1 DEF Init, ApplyInv, Fetched, Nothing
<1> QED
  BY <1>2, <1>3, <1>4 DEF IInv

(* What a step of the other family of operations leaves alone.             *)
LEMMA PutStepKeepsApplies ==
  ASSUME IInv, NEW s \in Sessions, NEW to, Goes(s, to), to.pc \in {"idle", "put"},
         UNCHANGED applies
  PROVE  ApplyInv'
<1>1. \A t \in Sessions : t # s => session'[t] = session[t]
  BY DEF Goes, IInv, TypeOK
<1>2. session'[s] = to
  BY DEF Goes, IInv, TypeOK
<1> QED
  BY <1>1, <1>2 DEF IInv, ApplyInv, Fetched, Nothing, applies

LEMMA ApplyStepKeepsPuts ==
  ASSUME IInv, NEW s \in Sessions, NEW to, Goes(s, to), to.pc # "put", UNCHANGED puts
  PROVE  PutInv'
<1>1. \A t \in Sessions : t # s => session'[t] = session[t]
  BY DEF Goes, IInv, TypeOK
<1>2. session'[s] = to
  BY DEF Goes, IInv, TypeOK
<1> QED
  BY <1>1, <1>2 DEF IInv, PutInv, AnsweredNotAfter, SeenNotAfter, SeenAgrees,
     VersionNamesContent, NotAfter, Putting, puts

-----------------------------------------------------------------------------
(* Type correctness, one step for each kind of assignment.                 *)
LEMMA GoesTypes ==
  ASSUME TypeOK, NEW s \in Sessions, NEW to, SessionOK(to), Goes(s, to)
  PROVE  DOMAIN session' = Sessions /\ \A t \in Sessions : SessionOK(session'[t])
BY DEF TypeOK, Goes

LEMMA FoundTypes ==
  ASSUME TypeOK, NEW v \in Versions, NEW name \in Names, NEW pc \in {"insert", Nothing},
         NEW to \in Found(v, name, pc)
  PROVE  /\ SessionOK(to)
         /\ to.pc # "put"
         /\ to.pc = "fetched" => to.con \in constitution /\ to.con.version = to.version
         /\ to.pc = Nothing => pc = Nothing /\ \A c \in constitution : c.version # v
         /\ to.pc # "refetch"
<1>1. CASE Holding(v) = {}
  <2>1. to = [pc |-> pc, version |-> v, name |-> name]
    BY <1>1 DEF Found
  <2>2. to \in [pc : {"insert", "refetch", Nothing}, version : Versions, name : Names]
    BY <2>1
  <2> QED
    BY <1>1, <2>1, <2>2 DEF SessionOK, Holding, Nothing
<1>2. CASE Holding(v) # {}
  <2>1. PICK c \in Holding(v) : to = [pc |-> "fetched", version |-> v, con |-> c]
    BY <1>2 DEF Found
  <2>2. c \in Stored /\ c \in constitution /\ c.version = v
    BY <2>1 DEF Holding, TypeOK
  <2>3. to \in [pc : {"fetched"}, version : Versions, con : Stored]
    BY <2>1, <2>2
  <2> QED
    BY <2>1, <2>2, <2>3 DEF SessionOK, Nothing
<1> QED
  BY <1>1, <1>2

LEMMA IdleTypes == SessionOK(Idle) /\ Idle.pc = "idle"
BY DEF SessionOK, Idle

(* What is known of a put in progress.                                     *)
LEMMA PutTypes ==
  ASSUME TypeOK, NEW s \in Sessions, Putting(s)
  PROVE  /\ session[s].agent \in Agents /\ RowOK(session[s].seen)
         /\ session[s].content \in Contents
<1>1. session[s] \notin [pc : {"insert", "refetch", Nothing}, version : Versions, name : Names]
  BY DEF Putting, Nothing
<1>2. session[s] \notin [pc : {"fetched"}, version : Versions, con : Stored]
  BY DEF Putting
<1>3. session[s] # Idle
  BY DEF Putting, Idle
<1> QED
  BY <1>1, <1>2, <1>3 DEF TypeOK, SessionOK

LEMMA InsertTypes ==
  ASSUME TypeOK, NEW s \in Sessions, session[s].pc \in {"insert", "refetch"}
  PROVE  session[s].version \in Versions /\ session[s].name \in Names
<1>1. session[s] # Idle /\ session[s].pc # "put"
      /\ session[s] \notin [pc : {"fetched"}, version : Versions, con : Stored]
  BY DEF Idle
<1> QED
  BY <1>1 DEF TypeOK, SessionOK

LEMMA FetchedTypes ==
  ASSUME TypeOK, NEW s \in Sessions, Fetched(s)
  PROVE  session[s].version \in Versions /\ session[s].con \in Stored
<1>1. session[s] # Idle /\ session[s].pc # "put"
      /\ session[s] \notin [pc : {"insert", "refetch", Nothing}, version : Versions, name : Names]
  BY DEF Idle, Fetched, Nothing
<1> QED
  BY <1>1 DEF TypeOK, SessionOK

-----------------------------------------------------------------------------
(* One lemma for each action.                                              *)
LEMMA PutReadsInv ==
  ASSUME IInv, NEW s \in Sessions, NEW a \in Agents, NEW c \in Contents, NEW v,
         PutReads(s, a, c, v)
  PROVE  IInv'
<1> DEFINE to == [pc |-> "put", agent |-> a, seen |-> row[a], content |-> c]
<1>1. Goes(s, to) /\ UNCHANGED puts /\ UNCHANGED applies
  BY DEF PutReads
<1>2. RowOK(row[a])
  BY DEF IInv, TypeOK
<1>3. SessionOK(to)
  BY <1>2 DEF SessionOK
<1>4. TypeOK'
  BY <1>1, <1>3, GoesTypes DEF IInv, TypeOK, puts, applies
<1>5. ApplyInv'
  BY <1>1, PutStepKeepsApplies
<1>6. \A t \in Sessions : t # s => session'[t] = session[t]
  BY <1>1 DEF Goes, IInv, TypeOK
<1>7. session'[s] = to /\ row' = row /\ answered' = answered
  BY <1>1 DEF Goes, IInv, TypeOK, puts
<1>8. AnsweredNotAfter' /\ VersionNamesContent'
  BY <1>7 DEF IInv, PutInv, AnsweredNotAfter, NotAfter, VersionNamesContent
<1>9. SeenNotAfter'
  <2>1. row[a].version <= row[a].version
    BY <1>2 DEF RowOK, NoRow
  <2> QED
    BY <1>6, <1>7, <2>1 DEF IInv, PutInv, SeenNotAfter, NotAfter, Putting
<1>10. SeenAgrees'
  BY <1>6, <1>7 DEF IInv, PutInv, AnsweredNotAfter, SeenNotAfter, SeenAgrees, NotAfter, Putting
<1> QED
  BY <1>4, <1>5, <1>8, <1>9, <1>10 DEF IInv, PutInv

LEMMA PutCommitsInv ==
  ASSUME IInv, NEW s \in Sessions, PutCommits(s)
  PROVE  IInv'
<1> DEFINE p == session[s]
           a == p.agent
           w == Written(p)
<1>1. /\ Putting(s) /\ (Unchanged(p) \/ Guarded(p)) /\ w.version <= MaxVersion
      /\ row' = [row EXCEPT ![a] = IF Unchanged(p) THEN row[a] ELSE w]
      /\ answered' = answered \cup {Answer(a, w)}
      /\ Goes(s, Idle) /\ UNCHANGED applies
  BY DEF PutCommits, Putting
<1>2. a \in Agents /\ RowOK(p.seen) /\ p.content \in Contents
  BY <1>1, PutTypes DEF IInv
<1>3. w \in [version : 1..MaxVersion, content : Contents]
  BY <1>1, <1>2, ResourceAssumption DEF Written, Unchanged, RowOK, NoRow, Row
<1>4. Answer(a, w).agent = a /\ Answer(a, w).row = w
  BY DEF Answer
<1>5. TypeOK'
  <2>1. row'[a] \in {row[a], w} /\ \A b \in Agents : b # a => row'[b] = row[b]
    BY <1>1, <1>2 DEF IInv, TypeOK
  <2>2. DOMAIN row' = Agents /\ \A b \in Agents : RowOK(row'[b])
    BY <1>1, <1>2, <1>3, <2>1 DEF IInv, TypeOK, RowOK
  <2>3. Answer(a, w) \in [agent : Agents, row : [version : 1..MaxVersion, content : Contents]]
    BY <1>2, <1>3 DEF Answer
  <2>4. DOMAIN session' = Sessions /\ \A t \in Sessions : SessionOK(session'[t])
    BY <1>1, GoesTypes, IdleTypes DEF IInv
  <2> QED
    BY <1>1, <2>2, <2>3, <2>4 DEF IInv, TypeOK, applies
<1>6. ApplyInv'
  BY <1>1, PutStepKeepsApplies, IdleTypes
<1>7. /\ session'[s] = Idle
      /\ \A t \in Sessions : Putting(t)' => t # s /\ Putting(t) /\ session'[t] = session[t]
  BY <1>1, IdleTypes DEF Goes, IInv, TypeOK, Putting
<1>8. CASE Unchanged(p)
  <2>1. w = p.seen
    BY <1>8 DEF Written
  <2>2. \A b \in Agents : row'[b] = row[b]
    BY <1>1, <1>8, <1>2 DEF IInv, TypeOK
  <2>3. \A x \in answered : x.agent \in Agents
    BY DEF IInv, TypeOK
  <2>4. \A t \in Sessions : Putting(t) => session[t].agent \in Agents
    BY PutTypes DEF IInv
  <2> QED
    <3>1. AnsweredNotAfter'
      BY <1>1, <1>2, <1>4, <2>1, <2>2, <2>3 DEF IInv, PutInv, AnsweredNotAfter, SeenNotAfter, NotAfter
    <3>2. SeenNotAfter'
      BY <1>7, <2>2, <2>4 DEF IInv, PutInv, SeenNotAfter, NotAfter, Putting
    <3>3. SeenAgrees'
      BY <1>1, <1>4, <1>7, <2>1 DEF IInv, PutInv, SeenAgrees, Putting
    <3>4. VersionNamesContent'
      <4> SUFFICES ASSUME NEW x \in answered', NEW y \in answered',
                          x.agent = y.agent, x.row.version = y.row.version
                   PROVE  x = y
        BY DEF VersionNamesContent
      <4>1. \A z \in answered : z.agent = a /\ z.row.version = w.version => z = Answer(a, w)
        <5> SUFFICES ASSUME NEW z \in answered, z.agent = a, z.row.version = w.version
                     PROVE  z = Answer(a, w)
          OBVIOUS
        <5>1. z.row = w
          BY <1>1, <2>1 DEF IInv, PutInv, SeenAgrees
        <5>2. z \in [agent : Agents, row : [version : 1..MaxVersion, content : Contents]]
          BY DEF IInv, TypeOK
        <5>3. z = [agent |-> z.agent, row |-> z.row]
          BY <5>2
        <5> QED
          BY <5>1, <5>3 DEF Answer
      <4> QED
        BY <1>1, <1>4, <4>1 DEF IInv, PutInv, VersionNamesContent
    <3> QED
      BY <1>5, <1>6, <3>1, <3>2, <3>3, <3>4 DEF IInv, PutInv
<1>9. CASE ~ Unchanged(p)
  <2>1. /\ row'[a] = w
        /\ \A b \in Agents : b # a => row'[b] = row[b]
    BY <1>1, <1>2, <1>9 DEF IInv, TypeOK
  <2>2. w.version = row[a].version + 1 /\ row[a].version \in Nat
    BY <1>1, <1>2, <1>9 DEF Written, Guarded, Row, IInv, TypeOK, RowOK, NoRow
  <2>3. \A x \in answered : x.agent = a => x.row.version < w.version
    <3> SUFFICES ASSUME NEW x \in answered, x.agent = a PROVE x.row.version < w.version
      OBVIOUS
    <3>1. x.row.version <= row[a].version /\ x.row.version \in Nat
      BY DEF IInv, TypeOK, PutInv, AnsweredNotAfter, NotAfter
    <3> QED
      BY <2>2, <3>1
  <2>4. \A t \in Sessions : Putting(t) /\ session[t].agent = a
                          => session[t].seen.version < w.version
    <3> SUFFICES ASSUME NEW t \in Sessions, Putting(t), session[t].agent = a
                 PROVE  session[t].seen.version < w.version
      OBVIOUS
    <3>1. session[t].seen.version <= row[a].version
      BY DEF IInv, PutInv, SeenNotAfter, NotAfter
    <3>2. session[t].seen.version \in Nat
      BY PutTypes DEF IInv, RowOK, NoRow
    <3> QED
      BY <2>2, <3>1, <3>2
  <2>5. w.version \in Nat
    BY <2>2
  <2>6. \A x \in answered : x.agent \in Agents /\ x.row.version \in Nat
    BY DEF IInv, TypeOK
  <2>7. \A t \in Sessions : Putting(t) =>
          session[t].agent \in Agents /\ session[t].seen.version \in Nat
    BY PutTypes DEF IInv, RowOK, NoRow
  <2> QED
    <3>1. AnsweredNotAfter'
      BY <1>1, <1>4, <2>1, <2>3, <2>5, <2>6 DEF IInv, PutInv, AnsweredNotAfter, NotAfter
    <3>2. SeenNotAfter'
      <4> SUFFICES ASSUME NEW t \in Sessions, Putting(t)'
                   PROVE  NotAfter(session[t].seen, session[t].agent)'
        BY DEF SeenNotAfter
      <4>1. Putting(t) /\ session'[t] = session[t]
        BY <1>7
      <4> QED
        BY <2>1, <2>4, <2>5, <2>7, <4>1 DEF IInv, PutInv, SeenNotAfter, NotAfter
    <3>3. SeenAgrees'
      <4>1. \A t \in Sessions, x \in answered' :
              Putting(t)' /\ x.agent = session'[t].agent
                /\ x.row.version = session'[t].seen.version => x.row = session'[t].seen
        BY <1>1, <1>4, <1>7, <2>4, <2>5, <2>7 DEF IInv, PutInv, SeenAgrees
      <4>2. \A t, u \in Sessions :
              Putting(t)' /\ Putting(u)' /\ session'[t].agent = session'[u].agent
                /\ session'[t].seen.version = session'[u].seen.version
                => session'[t].seen = session'[u].seen
        BY <1>7 DEF IInv, PutInv, SeenAgrees
      <4> QED
        BY <4>1, <4>2 DEF SeenAgrees
    <3>4. VersionNamesContent'
      BY <1>1, <1>4, <2>3, <2>5, <2>6 DEF IInv, PutInv, VersionNamesContent
    <3> QED
      BY <1>5, <1>6, <3>1, <3>2, <3>3, <3>4 DEF IInv, PutInv
<1> QED
  BY <1>8, <1>9

LEMMA GetInv ==
  ASSUME IInv, NEW a \in Agents, Get(a)
  PROVE  IInv'
<1>1. /\ row[a] \in [version : 1..MaxVersion, content : Contents]
      /\ row' = row /\ session' = session /\ UNCHANGED applies
      /\ answered' = answered \cup {Answer(a, row[a])}
  BY DEF Get, IInv, TypeOK, RowOK
<1>2. Answer(a, row[a]).agent = a /\ Answer(a, row[a]).row = row[a]
      /\ Answer(a, row[a]) \in [agent : Agents, row : [version : 1..MaxVersion, content : Contents]]
  BY <1>1 DEF Answer
<1>3. TypeOK'
  BY <1>1, <1>2 DEF IInv, TypeOK, applies
<1>4. ApplyInv'
  BY <1>1 DEF IInv, ApplyInv, Fetched, applies
<1>5. row[a].version <= row[a].version
  BY <1>1
<1>6. AnsweredNotAfter' /\ SeenNotAfter' /\ SeenAgrees'
  BY <1>1, <1>2, <1>5 DEF IInv, PutInv, AnsweredNotAfter, SeenNotAfter, SeenAgrees, NotAfter, Putting
<1>7. \A z \in answered : z.agent = a /\ z.row.version = row[a].version => z = Answer(a, row[a])
  <2> SUFFICES ASSUME NEW z \in answered, z.agent = a, z.row.version = row[a].version
               PROVE  z = Answer(a, row[a])
    OBVIOUS
  <2>1. z.row = row[a]
    BY DEF IInv, PutInv, AnsweredNotAfter, NotAfter
  <2>2. z \in [agent : Agents, row : [version : 1..MaxVersion, content : Contents]]
    BY DEF IInv, TypeOK
  <2>3. z = [agent |-> z.agent, row |-> z.row]
    BY <2>2
  <2> QED
    BY <2>1, <2>3 DEF Answer
<1>8. VersionNamesContent'
  BY <1>1, <1>2, <1>7 DEF IInv, PutInv, VersionNamesContent
<1> QED
  BY <1>3, <1>4, <1>6, <1>8 DEF IInv, PutInv

LEMMA ApplyReadsInv ==
  ASSUME IInv, NEW s \in Sessions, NEW d \in Documents, NEW name \in Names,
         ApplyReads(s, d, name)
  PROVE  IInv'
<1>1. PICK to \in Found(VersionOf[d], name, "insert") : Goes(s, to)
  BY DEF ApplyReads
<1>2. UNCHANGED puts /\ UNCHANGED applies
  BY DEF ApplyReads
<1>3. VersionOf[d] \in Versions
  BY DEF Versions
<1>4. /\ SessionOK(to) /\ to.pc # "put" /\ to.pc # "refetch" /\ to.pc # Nothing
      /\ to.pc = "fetched" => to.con \in constitution /\ to.con.version = to.version
  BY <1>3, FoundTypes DEF IInv, Nothing
<1>5. TypeOK'
  BY <1>1, <1>2, <1>4, GoesTypes DEF IInv, TypeOK, puts, applies
<1>6. PutInv'
  BY <1>1, <1>2, <1>4, ApplyStepKeepsPuts
<1>7. session'[s] = to /\ \A t \in Sessions : t # s => session'[t] = session[t]
  BY <1>1 DEF Goes, IInv, TypeOK
<1>8. ApplyInv'
  BY <1>2, <1>4, <1>7 DEF IInv, ApplyInv, Fetched, applies
<1> QED
  BY <1>5, <1>6, <1>8 DEF IInv

LEMMA ApplyAnswersFetchedInv ==
  ASSUME IInv, NEW s \in Sessions, ApplyAnswersFetched(s)
  PROVE  IInv'
<1> DEFINE f == session[s]
<1>1. PICK q \in policy : /\ q.version = f.version
                          /\ applied' = applied \cup {[version |-> f.version, con |-> f.con, pol |-> q]}
  BY DEF ApplyAnswersFetched
<1>2. Fetched(s) /\ Goes(s, Idle) /\ UNCHANGED puts
      /\ constitution' = constitution /\ policy' = policy
  BY DEF ApplyAnswersFetched, Fetched
<1>3. f.version \in Versions /\ f.con \in Stored /\ q \in Stored
  BY <1>1, <1>2, FetchedTypes DEF IInv, TypeOK
<1>4. f.con \in constitution /\ f.con.version = f.version /\ q = f.con
  BY <1>1, <1>2 DEF IInv, ApplyInv
<1>5. TypeOK'
  <2>1. [version |-> f.version, con |-> f.con, pol |-> q]
          \in [version : Versions, con : Stored, pol : Stored]
    BY <1>3
  <2> QED
    BY <1>1, <1>2, <2>1, GoesTypes, IdleTypes DEF IInv, TypeOK, puts
<1>6. PutInv'
  BY <1>2, ApplyStepKeepsPuts, IdleTypes
<1>7. session'[s] = Idle /\ \A t \in Sessions : t # s => session'[t] = session[t]
  BY <1>2 DEF Goes, IInv, TypeOK
<1>8. ApplyInv'
  BY <1>1, <1>2, <1>4, <1>7, IdleTypes DEF IInv, ApplyInv, Fetched, Nothing
<1> QED
  BY <1>5, <1>6, <1>8 DEF IInv

LEMMA ApplyInsertsInv ==
  ASSUME IInv, NEW s \in Sessions, ApplyInserts(s)
  PROVE  IInv'
<1> DEFINE i == session[s]
           r == Stamped(i, s)
<1>1. /\ i.pc = "insert" /\ Unique(i.version)
      /\ constitution' = constitution \cup {r} /\ policy' = policy \cup {r}
      /\ applied' = applied \cup {[version |-> i.version, con |-> r, pol |-> r]}
      /\ Goes(s, Idle) /\ UNCHANGED puts
  BY DEF ApplyInserts, PolicyAfter
<1>2. i.version \in Versions /\ i.name \in Names
  BY <1>1, InsertTypes DEF IInv
<1>3. r \in Stored /\ r.version = i.version
  BY <1>2 DEF Stamped, Stored
<1>4. TypeOK'
  <2>1. [version |-> i.version, con |-> r, pol |-> r]
          \in [version : Versions, con : Stored, pol : Stored]
    BY <1>2, <1>3
  <2> QED
    BY <1>1, <1>3, <2>1, GoesTypes, IdleTypes DEF IInv, TypeOK, puts
<1>5. PutInv'
  BY <1>1, ApplyStepKeepsPuts, IdleTypes
<1>6. session'[s] = Idle /\ \A t \in Sessions : t # s => session'[t] = session[t]
  BY <1>1 DEF Goes, IInv, TypeOK
<1>7. \A c \in constitution : c.version # r.version
  BY <1>1, <1>3 DEF Unique
<1>8. ApplyInv'
  BY <1>1, <1>3, <1>6, <1>7, IdleTypes DEF IInv, ApplyInv, Fetched, Nothing
<1> QED
  BY <1>4, <1>5, <1>8 DEF IInv

LEMMA ApplyLosesInv ==
  ASSUME IInv, NEW s \in Sessions, ApplyLoses(s)
  PROVE  IInv'
<1> DEFINE to == [session[s] EXCEPT !.pc = "refetch"]
<1>1. session[s].pc = "insert" /\ ~ Unique(session[s].version) /\ Goes(s, to)
      /\ UNCHANGED puts /\ UNCHANGED applies
  BY DEF ApplyLoses
<1>2. session[s] \in [pc : {"insert", "refetch", Nothing}, version : Versions, name : Names]
  <2>1. session[s] # Idle /\ session[s].pc # "put"
        /\ session[s] \notin [pc : {"fetched"}, version : Versions, con : Stored]
    BY <1>1 DEF Idle
  <2> QED
    BY <2>1 DEF IInv, TypeOK, SessionOK
<1>3. to \in [pc : {"insert", "refetch", Nothing}, version : Versions, name : Names]
      /\ to.pc = "refetch" /\ to.version = session[s].version
  BY <1>2
<1>4. TypeOK'
  BY <1>1, <1>3, GoesTypes DEF SessionOK, IInv, TypeOK, puts, applies
<1>5. PutInv'
  BY <1>1, <1>3, ApplyStepKeepsPuts
<1>6. session'[s] = to /\ \A t \in Sessions : t # s => session'[t] = session[t]
  BY <1>1 DEF Goes, IInv, TypeOK
<1>7. \E c \in constitution : c.version = to.version
  BY <1>1, <1>3 DEF Unique, IInv, ApplyInv
<1>8. ApplyInv'
  BY <1>1, <1>3, <1>6, <1>7 DEF IInv, ApplyInv, Fetched, Nothing, applies
<1> QED
  BY <1>4, <1>5, <1>8 DEF IInv

LEMMA ApplyRefetchesInv ==
  ASSUME IInv, NEW s \in Sessions, ApplyRefetches(s)
  PROVE  IInv'
<1> DEFINE r == session[s]
<1>1. r.pc = "refetch" /\ UNCHANGED puts /\ UNCHANGED applies
  BY DEF ApplyRefetches
<1>2. PICK to \in Found(r.version, r.name, Nothing) : Goes(s, to)
  BY DEF ApplyRefetches
<1>3. r.version \in Versions /\ r.name \in Names
  BY <1>1, InsertTypes DEF IInv
<1>4. /\ SessionOK(to) /\ to.pc # "put" /\ to.pc # "refetch"
      /\ to.pc = "fetched" => to.con \in constitution /\ to.con.version = to.version
      /\ to.pc = Nothing => \A c \in constitution : c.version # r.version
  BY <1>2, <1>3, FoundTypes DEF IInv
<1>5. to.pc # Nothing
  BY <1>1, <1>4 DEF IInv, ApplyInv
<1>6. TypeOK'
  BY <1>1, <1>2, <1>4, GoesTypes DEF IInv, TypeOK, puts, applies
<1>7. PutInv'
  BY <1>1, <1>2, <1>4, ApplyStepKeepsPuts
<1>8. session'[s] = to /\ \A t \in Sessions : t # s => session'[t] = session[t]
  BY <1>2 DEF Goes, IInv, TypeOK
<1>9. ApplyInv'
  BY <1>1, <1>4, <1>5, <1>8 DEF IInv, ApplyInv, Fetched, applies
<1> QED
  BY <1>6, <1>7, <1>9 DEF IInv

LEMMA FailsInv ==
  ASSUME IInv, NEW s \in Sessions, Fails(s)
  PROVE  IInv'
<1>1. Goes(s, Idle) /\ UNCHANGED puts /\ UNCHANGED applies
  BY DEF Fails
<1>2. TypeOK'
  BY <1>1, GoesTypes, IdleTypes DEF IInv, TypeOK, puts, applies
<1>3. PutInv' /\ ApplyInv'
  BY <1>1, ApplyStepKeepsPuts, PutStepKeepsApplies, IdleTypes
<1> QED
  BY <1>2, <1>3 DEF IInv

LEMMA NextInv == IInv /\ [Next]_vars => IInv'
<1> SUFFICES ASSUME IInv, [Next]_vars PROVE IInv'
  OBVIOUS
<1>1. CASE UNCHANGED vars
  <2>1. UNCHANGED puts /\ UNCHANGED applies /\ session' = session
    BY <1>1 DEF vars
  <2>2. TypeOK'
    BY <2>1 DEF IInv, TypeOK, puts, applies
  <2>3. PutInv'
    BY <2>1 DEF IInv, PutInv, AnsweredNotAfter, SeenNotAfter, SeenAgrees,
       VersionNamesContent, NotAfter, Putting, puts
  <2>4. ApplyInv'
    BY <2>1 DEF IInv, ApplyInv, Fetched, applies
  <2> QED
    BY <2>2, <2>3, <2>4 DEF IInv
<1>2. CASE Next
  BY <1>2, PutReadsInv, PutCommitsInv, GetInv, ApplyReadsInv, ApplyAnswersFetchedInv,
     ApplyInsertsInv, ApplyLosesInv, ApplyRefetchesInv, FailsInv DEF Next
<1> QED
  BY <1>1, <1>2

LEMMA AlwaysInv == Spec => []IInv
BY InitInv, NextInv, PTL DEF Spec

-----------------------------------------------------------------------------
(* Rows, answers and operations in progress are well typed in every        *)
(* reachable state (resources.py, models.py).                              *)
THEOREM TypeCorrect == Spec => []TypeOK
<1>1. IInv => TypeOK
  BY DEF IInv
<1> QED
  BY <1>1, AlwaysInv, PTL

(* A version of a resource names one content, for any number of sessions   *)
(* that race (resources.py, put_trust_profile and put_abom).               *)
THEOREM VersionsNameContents == Spec => []VersionNamesContent
<1>1. IInv => VersionNamesContent
  BY DEF IInv, PutInv
<1> QED
  BY <1>1, AlwaysInv, PTL

(* Every apply of a version answers the same two rows, for any number of   *)
(* sessions and documents (resources.py, apply_constitution).              *)
THEOREM ApplyAlwaysIdempotent == Spec => []ApplyIsIdempotent
<1>1. IInv => ApplyIsIdempotent
  <2> SUFFICES ASSUME IInv, NEW x \in applied, NEW y \in applied, x.version = y.version
               PROVE  x = y
    BY DEF ApplyIsIdempotent
  <2>1. x.con = y.con /\ x.pol = y.pol
    BY DEF IInv, ApplyInv
  <2>2. x \in [version : Versions, con : Stored, pol : Stored]
        /\ y \in [version : Versions, con : Stored, pol : Stored]
    BY DEF IInv, TypeOK
  <2> QED
    BY <2>1, <2>2
<1> QED
  BY <1>1, AlwaysInv, PTL

(* No apply misses the rows it must answer with (resources.py,             *)
(* _fetch_version).                                                        *)
THEOREM FetchAlwaysFindsBoth == Spec => []FetchFindsBoth
<1>1. IInv => FetchFindsBoth
  BY DEF IInv, ApplyInv, Fetched, FetchFindsBoth
<1> QED
  BY <1>1, AlwaysInv, PTL
=============================================================================
