------------------------- MODULE IdentityCacheProofs ------------------------
(***************************************************************************)
(* For any sessions, agents and components: an answered enrolment stands,  *)
(* declared wins, and the trust of a known agent moves only to a grade     *)
(* that a registration supplies.  For any cache, over any registry: it     *)
(* keeps its bound and each key once, and a hit is never staler than TTL.  *)
(***************************************************************************)
EXTENDS IdentityCache, TLAPS, WellFoundedInduction

(* A row is never deleted: one that a session read, or got past writing,   *)
(* is there.                                                               *)
HasRow(o) ==
  \/ o.pc = "registering" /\ o.read # Absent
  \/ o.pc = "issuing"
  \/ o.pc = "upserting" /\ o.source = "declared"
EnrollingHaveRows == \A t \in Threads : HasRow(op[t]) => trust[op[t].agent] # Absent

IInv == RegistryTypeOK /\ EnrollingHaveRows /\ EnrolledStands

LEMMA InitInv == Init => IInv
BY DEF Init, RegistryInit, IInv, RegistryTypeOK, EnrollingHaveRows, HasRow,
       EnrolledStands, Idle

(* The program counter of a session tells what its operation holds.        *)
LEMMA OperationAt ==
  ASSUME RegistryTypeOK, NEW t \in Threads
  PROVE  /\ Idle.pc = "idle"
         /\ op[t].pc = "registering" => op[t] \in Registering
         /\ op[t].pc = "issuing" => op[t] \in Issuing
         /\ op[t].pc = "upserting" => op[t] \in Upserting
BY DEF RegistryTypeOK, Registering, Issuing, Upserting, Idle

(* A commit of the agent row leaves every known agent a trust score.       *)
LEMMA WrittenRows ==
  ASSUME RegistryTypeOK, NEW t \in Threads, op[t].pc = "registering"
  PROVE  /\ Written(t) \in [Agents -> Scores \cup {Absent}]
         /\ ~ Found(t) => Written(t)[op[t].agent] # Absent
         /\ \A a \in Agents : trust[a] # Absent => Written(t)[a] # Absent
         /\ \A a \in Agents \ {op[t].agent} : Written(t)[a] = trust[a]
<1>1. op[t] \in Registering
  BY OperationAt
<1>2. op[t].agent \in Agents /\ op[t].grade \in Grades \cup {NoGrade}
  BY <1>1 DEF Registering
<1>3. trust \in [Agents -> Scores \cup {Absent}]
  BY DEF RegistryTypeOK
<1>4. Seed(op[t].grade) \in Scores /\ Absent \notin Scores
  BY <1>2, RegistryAssumption DEF Seed, Scores
<1>5. op[t].grade # NoGrade => op[t].grade \in Scores
  BY <1>2 DEF Scores
<1> QED
  BY <1>2, <1>3, <1>4, <1>5 DEF Written

(* A commit of components takes none of them back, and declares those of a *)
(* manifest.                                                               *)
LEMMA CommittedRows ==
  ASSUME RegistryTypeOK, NEW t \in Threads, CommitComponents(t)
  PROVE  /\ inventory' \in [Agents -> [Components -> {Absent, "declared", "observed"}]]
         /\ \A a \in Agents : \A k \in Components :
              /\ inventory[a][k] = "declared" => inventory'[a][k] = "declared"
              /\ inventory[a][k] # Absent => inventory'[a][k] # Absent
         /\ op[t].source = "declared" =>
              \A k \in op[t].new \cup op[t].known : inventory'[op[t].agent][k] = "declared"
<1> DEFINE own == op[t].agent
<1>1. op[t] \in Upserting /\ RowsStillNew(t)
  BY OperationAt DEF CommitComponents
<1>2. /\ own \in Agents /\ op[t].source \in {"declared", "observed"}
      /\ op[t].new \cup op[t].known \subseteq Components
  BY <1>1 DEF Upserting
<1>3. inventory' = [inventory EXCEPT ![own] =
                      [k \in Components |-> Source(t, k, inventory[own][k])]]
  BY DEF CommitComponents
<1>4. inventory \in [Agents -> [Components -> {Absent, "declared", "observed"}]]
  BY DEF RegistryTypeOK
<1> HIDE DEF own
<1>5. ASSUME NEW k \in Components
      PROVE  /\ Source(t, k, inventory[own][k]) \in {Absent, "declared", "observed"}
             /\ inventory[own][k] # Absent => Source(t, k, inventory[own][k]) # Absent
             /\ inventory[own][k] = "declared" => Source(t, k, inventory[own][k]) = "declared"
             /\ (op[t].source = "declared" /\ k \in op[t].new \cup op[t].known)
                  => Source(t, k, inventory[own][k]) = "declared"
  BY <1>1, <1>2, <1>4, <1>5 DEF Source, RowsStillNew, Absent, own
<1>6. \A k \in Components : inventory'[own][k] = Source(t, k, inventory[own][k])
  BY <1>2, <1>3, <1>4
<1>7. \A a \in Agents \ {own} : inventory'[a] = inventory[a]
  BY <1>3, <1>4
<1>8. inventory' \in [Agents -> [Components -> {Absent, "declared", "observed"}]]
  BY <1>2, <1>3, <1>4, <1>5
<1>9. ASSUME NEW a \in Agents, NEW k \in Components
      PROVE  /\ inventory[a][k] = "declared" => inventory'[a][k] = "declared"
             /\ inventory[a][k] # Absent => inventory'[a][k] # Absent
  BY <1>5, <1>6, <1>7
<1> QED
  BY <1>2, <1>5, <1>6, <1>8, <1>9 DEF own

(* Verifications, invalidations and the clock leave the registry alone.    *)
LEMMA CacheLeavesRegistry ==
  ASSUME \/ \E key \in Keys : Miss(key)
         \/ Succeed
         \/ Refuse
         \/ \E A \in SUBSET Agents : Invalidate(A)
         \/ Tick
  PROVE  UNCHANGED registryVars
BY DEF Miss, Succeed, Refuse, Invalidate, Tick

LEMMA NextInv == IInv /\ [Next]_vars => IInv'
<1> SUFFICES ASSUME IInv, [Next]_vars PROVE IInv'
  OBVIOUS
<1> USE DEF IInv
<1>t. RegistryTypeOK
  OBVIOUS
<1>r. /\ trust \in [Agents -> Scores \cup {Absent}]
      /\ inventory \in [Agents -> [Components -> {Absent, "declared", "observed"}]]
      /\ op \in [Threads -> {Idle} \cup Registering \cup Issuing \cup Upserting]
      /\ enrolled \subseteq [agent : Agents, manifest : SUBSET Components]
  BY DEF RegistryTypeOK
<1>i. /\ Idle \in {Idle} \cup Registering \cup Issuing \cup Upserting
      /\ ~ HasRow(Idle)
  BY DEF Idle, HasRow
<1>1. ASSUME NEW t \in Threads, NEW a \in Agents, NEW grade \in Grades \cup {NoGrade},
             NEW manifest \in SUBSET Components, Register(t, a, grade, manifest)
      PROVE  IInv'
  <2> DEFINE o == [pc |-> "registering", agent |-> a, grade |-> grade,
                   manifest |-> manifest, read |-> trust[a]]
  <2>1. op' = [op EXCEPT ![t] = o] /\ UNCHANGED <<trust, inventory, enrolled>>
    BY <1>1 DEF Register, Does
  <2>2. o \in Registering /\ (HasRow(o) => trust[o.agent] # Absent)
    BY <1>r DEF Registering, HasRow
  <2> HIDE DEF o
  <2>3. RegistryTypeOK'
    BY <1>r, <2>1, <2>2 DEF RegistryTypeOK
  <2>4. EnrollingHaveRows' /\ EnrolledStands'
    BY <1>r, <2>1, <2>2 DEF EnrollingHaveRows, EnrolledStands
  <2> QED
    BY <2>3, <2>4
<1>2. ASSUME NEW t \in Threads, CommitAgent(t) PROVE IInv'
  <2> DEFINE o == [pc |-> "issuing", agent |-> op[t].agent, manifest |-> op[t].manifest]
  <2>1. /\ op[t].pc = "registering"
        /\ trust' = Written(t) /\ op' = [op EXCEPT ![t] = o]
        /\ UNCHANGED <<inventory, enrolled>>
    BY <1>2 DEF CommitAgent, Does
  <2>2. op[t] \in Registering
    BY <1>t, <2>1, OperationAt
  <2>3. o \in Issuing /\ o.agent \in Agents
    BY <2>2 DEF Registering, Issuing
  <2>4. /\ trust' \in [Agents -> Scores \cup {Absent}]
        /\ \A a \in Agents : trust[a] # Absent => trust'[a] # Absent
    BY <1>t, <2>1, WrittenRows
  <2>5. trust'[o.agent] # Absent
    <3>1. CASE Found(t)
      BY <2>1, <2>3, <2>4, <3>1 DEF EnrollingHaveRows, HasRow, Found
    <3>2. CASE ~ Found(t)
      BY <1>t, <2>1, <3>2, WrittenRows
    <3> QED
      BY <3>1, <3>2
  <2>6. \A u \in Threads : HasRow(op[u]) => op[u].agent \in Agents
    BY <1>t, OperationAt DEF HasRow, Registering, Issuing, Upserting
  <2> HIDE DEF o
  <2>7. RegistryTypeOK'
    BY <1>r, <2>1, <2>3, <2>4 DEF RegistryTypeOK
  <2>8. EnrollingHaveRows' /\ EnrolledStands'
    BY <1>r, <2>1, <2>3, <2>4, <2>5, <2>6 DEF EnrollingHaveRows, EnrolledStands
  <2> QED
    BY <2>7, <2>8
<1>3. ASSUME NEW t \in Threads, IssueToken(t) PROVE IInv'
  <2> DEFINE o == [pc |-> "upserting", agent |-> op[t].agent, source |-> "declared",
                   todo |-> op[t].manifest, new |-> {}, known |-> {}]
  <2>1. op[t].pc = "issuing" /\ UNCHANGED <<trust, inventory>>
    BY <1>3 DEF IssueToken
  <2>2. op[t] \in Issuing /\ trust[op[t].agent] # Absent
    BY <1>t, <2>1, OperationAt DEF EnrollingHaveRows, HasRow
  <2>3. op[t].agent \in Agents /\ o \in Upserting /\ o.agent = op[t].agent
    BY <2>2 DEF Issuing, Upserting
  <2>4. \/ /\ op' = [op EXCEPT ![t] = Idle]
           /\ enrolled' = enrolled \cup {[agent |-> op[t].agent, manifest |-> {}]}
        \/ op' = [op EXCEPT ![t] = o] /\ enrolled' = enrolled
    BY <1>3 DEF IssueToken, Does
  <2> HIDE DEF o
  <2>5. RegistryTypeOK'
    BY <1>r, <2>1, <2>3, <2>4 DEF RegistryTypeOK
  <2>6. EnrollingHaveRows' /\ EnrolledStands'
    BY <1>r, <1>i, <2>1, <2>2, <2>3, <2>4 DEF EnrollingHaveRows, EnrolledStands
  <2> QED
    BY <2>5, <2>6
<1>4. ASSUME NEW t \in Threads, NEW a \in Agents, NEW k \in Components, Observe(t, a, k)
      PROVE  IInv'
  <2> DEFINE o == [pc |-> "upserting", agent |-> a, source |-> "observed",
                   todo |-> {k}, new |-> {}, known |-> {}]
  <2>1. op' = [op EXCEPT ![t] = o] /\ UNCHANGED <<trust, inventory, enrolled>>
    BY <1>4 DEF Observe, Does
  <2>2. o \in Upserting /\ ~ HasRow(o)
    BY DEF Upserting, HasRow
  <2> HIDE DEF o
  <2>3. RegistryTypeOK'
    BY <1>r, <2>1, <2>2 DEF RegistryTypeOK
  <2>4. EnrollingHaveRows' /\ EnrolledStands'
    BY <1>r, <2>1, <2>2 DEF EnrollingHaveRows, EnrolledStands
  <2> QED
    BY <2>3, <2>4
<1>5. ASSUME NEW t \in Threads, Upsert(t) PROVE IInv'
  <2>1. op[t] \in Upserting /\ UNCHANGED <<trust, inventory, enrolled>>
    BY <1>t, <1>5, OperationAt DEF Upsert
  <2>2. PICK o \in Upserting :
          /\ op' = [op EXCEPT ![t] = o]
          /\ o.agent = op[t].agent /\ o.source = op[t].source
    <3>1. PICK k \in op[t].todo :
            \/ op' = [op EXCEPT ![t] = [op[t] EXCEPT !.todo = op[t].todo \ {k},
                                                     !.new = op[t].new \cup {k}]]
            \/ op' = [op EXCEPT ![t] = [op[t] EXCEPT !.todo = op[t].todo \ {k},
                                                     !.known = op[t].known \cup {k}]]
      BY <1>5 DEF Upsert, Does
    <3>2. k \in Components
      BY <2>1, <3>1 DEF Upserting
    <3>3. /\ [op[t] EXCEPT !.todo = op[t].todo \ {k}, !.new = op[t].new \cup {k}] \in Upserting
          /\ [op[t] EXCEPT !.todo = op[t].todo \ {k}, !.known = op[t].known \cup {k}]
               \in Upserting
      BY <2>1, <3>2 DEF Upserting
    <3> QED
      BY <2>1, <3>1, <3>3 DEF Upserting
  <2>a. HasRow(o) <=> HasRow(op[t])
    BY <2>1, <2>2 DEF Upserting, HasRow
  <2>3. RegistryTypeOK'
    BY <1>r, <2>1, <2>2 DEF RegistryTypeOK
  <2>4. EnrollingHaveRows' /\ EnrolledStands'
    BY <1>r, <2>1, <2>2, <2>a DEF EnrollingHaveRows, EnrolledStands
  <2> QED
    BY <2>3, <2>4
<1>6. ASSUME NEW t \in Threads, CommitComponents(t) PROVE IInv'
  <2>1. /\ op[t] \in Upserting /\ op[t].pc = "upserting"
        /\ op' = [op EXCEPT ![t] = Idle] /\ trust' = trust
        /\ inventory' \in [Agents -> [Components -> {Absent, "declared", "observed"}]]
    BY <1>t, <1>6, CommittedRows, OperationAt DEF CommitComponents, Does
  <2>2. \A a \in Agents : \A k \in Components :
          inventory[a][k] = "declared" => inventory'[a][k] = "declared"
    BY <1>t, <1>6, CommittedRows
  <2>3. op[t].source = "declared" =>
          /\ \A k \in op[t].new \cup op[t].known : inventory'[op[t].agent][k] = "declared"
          /\ trust[op[t].agent] # Absent
    BY <1>t, <1>6, <2>1, CommittedRows DEF EnrollingHaveRows, HasRow
  <2>4. enrolled' = IF op[t].source = "declared"
                    THEN enrolled \cup {[agent |-> op[t].agent,
                                         manifest |-> op[t].new \cup op[t].known]}
                    ELSE enrolled
    BY <1>6 DEF CommitComponents
  <2>5. op[t].agent \in Agents /\ op[t].new \cup op[t].known \subseteq Components
    BY <2>1 DEF Upserting
  <2>6. RegistryTypeOK'
    BY <1>r, <2>1, <2>4, <2>5 DEF RegistryTypeOK
  <2>7. EnrollingHaveRows'
    BY <1>r, <1>i, <2>1 DEF EnrollingHaveRows
  <2>8. EnrolledStands'
    BY <1>r, <2>1, <2>2, <2>3, <2>4, <2>5 DEF EnrolledStands
  <2> QED
    BY <2>6, <2>7, <2>8
<1>7. ASSUME NEW t \in Threads, Fails(t) PROVE IInv'
  <2>1. op' = [op EXCEPT ![t] = Idle] /\ UNCHANGED <<trust, inventory, enrolled>>
    BY <1>7 DEF Fails, Does
  <2>2. RegistryTypeOK'
    BY <1>r, <2>1 DEF RegistryTypeOK
  <2>3. EnrollingHaveRows' /\ EnrolledStands'
    BY <1>r, <1>i, <2>1 DEF EnrollingHaveRows, EnrolledStands
  <2> QED
    BY <2>2, <2>3
<1>8. CASE UNCHANGED registryVars
  BY <1>8 DEF registryVars, RegistryTypeOK, EnrollingHaveRows, EnrolledStands
<1> QED
  BY <1>1, <1>2, <1>3, <1>4, <1>5, <1>6, <1>7, <1>8, CacheLeavesRegistry DEF Next, vars


(* The tables and the sessions keep their types.                           *)
THEOREM RegistryTypeCorrect == Spec => []RegistryTypeOK
<1>1. IInv => RegistryTypeOK
  BY DEF IInv
<1> QED
  BY InitInv, NextInv, <1>1, PTL DEF Spec

(* A registration that was answered stands, however many sessions race.    *)
THEOREM EnrolledAlwaysStands == Spec => []EnrolledStands
<1>1. IInv => EnrolledStands
  BY DEF IInv
<1> QED
  BY InitInv, NextInv, <1>1, PTL DEF Spec

(* No step takes a declared component back, nor a row out of the inventory.*)
THEOREM DeclaredAlwaysWins == Spec => DeclaredWins
<1>1. ASSUME IInv, [Next]_vars
      PROVE  [\A a \in Agents : \A k \in Components :
                /\ inventory[a][k] = "declared" => inventory'[a][k] = "declared"
                /\ inventory[a][k] # Absent => inventory'[a][k] # Absent]_vars
  <2>1. CASE \E t \in Threads : CommitComponents(t)
    BY <1>1, <2>1, CommittedRows DEF IInv
  <2>2. CASE ~ \E t \in Threads : CommitComponents(t)
    <3>1. inventory' = inventory
      BY <1>1, <2>2, CacheLeavesRegistry
      DEF Next, vars, registryVars, Register, CommitAgent, IssueToken, Observe, Upsert, Fails
    <3> QED
      BY <3>1
  <2> QED
    BY <2>1, <2>2
<1> QED
  BY InitInv, NextInv, <1>1, PTL DEF Spec, DeclaredWins

(* Re-enrolling does not move a known agent's trust: only a supplied grade *)
(* does, also when two first registrations of the agent race.              *)
THEOREM TrustAlwaysMovesByGrade == Spec => TrustMovesByGrade
<1>1. ASSUME IInv, [Next]_vars
      PROVE  [\A a \in Agents : (trust[a] # Absent /\ trust'[a] # trust[a]) =>
                \E t \in Threads : /\ op[t].pc = "registering" /\ op[t].agent = a
                                   /\ trust'[a] = op[t].grade]_vars
  <2> SUFFICES ASSUME NEW a \in Agents, trust[a] # Absent, trust'[a] # trust[a]
               PROVE  \E t \in Threads : /\ op[t].pc = "registering" /\ op[t].agent = a
                                         /\ trust'[a] = op[t].grade
    OBVIOUS
  <2>1. PICK t \in Threads : CommitAgent(t)
    BY <1>1, CacheLeavesRegistry
    DEF Next, vars, registryVars, Register, CommitComponents, IssueToken, Observe, Upsert, Fails
  <2>2. op[t].pc = "registering" /\ MayInsert(t) /\ trust' = Written(t)
    BY <2>1 DEF CommitAgent
  <2>3. op[t].agent = a
    BY <1>1, <2>2, WrittenRows DEF IInv
  <2>4. Found(t)
    BY <2>2, <2>3 DEF MayInsert
  <2>5. trust \in [Agents -> Scores \cup {Absent}]
    BY <1>1 DEF IInv, RegistryTypeOK
  <2>6. trust'[a] = op[t].grade
    BY <2>2, <2>3, <2>4, <2>5 DEF Written
  <2> QED
    BY <2>2, <2>3, <2>6
<1> QED
  BY InitInv, NextInv, <1>1, PTL DEF Spec, TrustMovesByGrade

-----------------------------------------------------------------------------
(* The cache.  What is left of it is found entry by entry; what holds of   *)
(* each step of that holds at the end, for there is no least step at which *)
(* it would first fail.                                                    *)
LEMMA HasLeast ==
  ASSUME NEW S \in SUBSET Nat, S # {}
  PROVE  \E e \in S : \A f \in S : e <= f
<1> DEFINE R == OpToRel(<, Nat)
<1>1. IsWellFoundedOn(R, Nat)
  BY NatLessThanWellFounded
<1>2. PICK e \in S : \A f \in S : <<f, e>> \notin R
  <2> HIDE DEF R
  <2> QED
    BY <1>1, WFMin
<1>3. \A f \in S : f < e => <<f, e>> \in R
  <2> TAKE f \in S
  <2> HAVE f < e
  <2>1. <<f, e>> \in Nat \X Nat /\ <<f, e>>[1] < <<f, e>>[2]
    OBVIOUS
  <2> QED
    BY <2>1 DEF OpToRel
<1>4. \A f \in S : ~ (f < e)
  <2> HIDE DEF R
  <2> QED
    BY <1>2, <1>3
<1> QED
  BY <1>4

(* A set that holds 0, and n + 1 with every n below m, holds all up to m.  *)
LEMMA UpTo ==
  ASSUME NEW m \in Nat, NEW S, 0 \in S, \A n \in 0..(m - 1) : n \in S => n + 1 \in S
  PROVE  0..m \subseteq S
<1> DEFINE Missed == (0..m) \ S
<1> SUFFICES ASSUME Missed # {} PROVE FALSE
  OBVIOUS
<1>1. PICK e \in Missed : \A f \in Missed : e <= f
  <2>1. Missed \in SUBSET Nat
    OBVIOUS
  <2> QED
    BY <2>1, HasLeast
<1>2. e # 0 /\ e - 1 \in 0..(m - 1) /\ e - 1 \in S
  BY <1>1
<1> QED
  BY <1>1, <1>2

(* The function by which Only picks the entries exists.                    *)
Pick(s, P, kept, i) ==
  IF i = 0 THEN <<>>
  ELSE IF i \in P THEN Append(kept[i - 1], s[i]) ELSE kept[i - 1]

LEMMA PickExists ==
  ASSUME NEW m \in Nat, NEW s, NEW P
  PROVE  \E kept : kept = [i \in 0..m |-> Pick(s, P, kept, i)]
<1> DEFINE S == {k \in 0..m : \E g : g = [i \in 0..k |-> Pick(s, P, g, i)]}
<1>1. 0 \in S
  <2> DEFINE g == [i \in 0..0 |-> <<>>]
  <2>1. g = [i \in 0..0 |-> Pick(s, P, g, i)]
    BY DEF Pick
  <2> QED
    BY <2>1
<1>2. ASSUME NEW n \in 0..(m - 1), n \in S PROVE n + 1 \in S
  <2>1. PICK g : g = [i \in 0..n |-> Pick(s, P, g, i)]
    BY <1>2
  <2> DEFINE h == [i \in 0..(n + 1) |-> IF i = n + 1 THEN Pick(s, P, g, n + 1) ELSE g[i]]
  <2>2. \A i \in 0..n : h[i] = g[i]
    OBVIOUS
  <2>3. ASSUME NEW i \in 0..(n + 1) PROVE h[i] = Pick(s, P, h, i)
    <3>1. i = 0 \/ h[i - 1] = g[i - 1]
      BY <2>2
    <3>2. Pick(s, P, h, i) = Pick(s, P, g, i)
      BY <3>1 DEF Pick
    <3>3. i # n + 1 => g[i] = Pick(s, P, g, i)
      BY <2>1
    <3> QED
      BY <3>2, <3>3
  <2>4. h = [i \in 0..(n + 1) |-> h[i]]
    OBVIOUS
  <2> HIDE DEF h
  <2>5. h = [i \in 0..(n + 1) |-> Pick(s, P, h, i)]
    BY <2>3, <2>4
  <2> QED
    BY <2>5
<1>3. m \in S
  <2> HIDE DEF S
  <2> QED
    BY <1>1, <1>2, UpTo
<1> QED
  BY <1>3

(* Only keeps a part of the cache, and no place of it twice.               *)
LEMMA OnlyHolds ==
  ASSUME NEW X, cache \in Seq(X), NEW P
  PROVE  /\ Only(P) \in Seq(X) /\ Len(Only(P)) <= Len(cache)
         /\ \A j \in 1..Len(Only(P)) : \E i \in P \cap (1..Len(cache)) : Only(P)[j] = cache[i]
         /\ (\A i, k \in 1..Len(cache) : cache[i].key = cache[k].key => i = k)
              => \A i, k \in 1..Len(Only(P)) : Only(P)[i].key = Only(P)[k].key => i = k
<1> DEFINE m == Len(cache)
<1> DEFINE Def(g) == g = [i \in 0..m |-> Pick(cache, P, g, i)]
<1> DEFINE kept == CHOOSE g : Def(g)
<1>1. m \in Nat
  OBVIOUS
<1>2. Def(kept)
  <2>1. \E g : Def(g)
    BY <1>1, PickExists
  <2> QED
    BY <2>1
<1>3. Only(P) = kept[m]
  BY DEF Only, Pick
<1> DEFINE Unique == \A i, k \in 1..m : cache[i].key = cache[k].key => i = k
<1> DEFINE Part(s, n) ==
      /\ s \in Seq(X) /\ Len(s) <= n
      /\ \A j \in 1..Len(s) : \E i \in P \cap (1..n) : s[j] = cache[i]
      /\ Unique => \A i, k \in 1..Len(s) : s[i].key = s[k].key => i = k
<1> HIDE DEF kept
<1>4. kept[0] = <<>>
  BY <1>1, <1>2 DEF Pick
<1>5. \A i \in 1..m : kept[i] = IF i \in P THEN Append(kept[i - 1], cache[i]) ELSE kept[i - 1]
  <2> TAKE i \in 1..m
  <2>1. i \in 0..m /\ i # 0
    BY <1>1
  <2>2. kept[i] = Pick(cache, P, kept, i)
    BY <1>2, <2>1
  <2> QED
    BY <2>1, <2>2 DEF Pick
<1>6. Part(kept[0], 0)
  BY <1>4
<1>7. ASSUME NEW n \in 0..(m - 1), Part(kept[n], n) PROVE Part(kept[n + 1], n + 1)
  <2>1. n + 1 \in 1..m /\ cache[n + 1] \in X /\ (n + 1) - 1 = n
    BY <1>1
  <2>a. kept[n + 1] = IF n + 1 \in P THEN Append(kept[n], cache[n + 1]) ELSE kept[n]
    BY <1>5, <2>1
  <2>b. \A i : i \in 1..n => i \in 1..(n + 1)
    BY <1>1
  <2>2. CASE n + 1 \notin P
    <3> DEFINE s == kept[n]
    <3>1. kept[n + 1] = s
      BY <2>a, <2>2
    <3>2. Part(s, n) /\ Len(s) \in Nat
      BY <1>7
    <3> HIDE DEF s
    <3>3. Part(s, n + 1)
      BY <1>1, <2>b, <3>2
    <3> QED
      BY <3>1, <3>3
  <2>3. CASE n + 1 \in P
    <3> DEFINE s == kept[n]
    <3> DEFINE t == Append(s, cache[n + 1])
    <3>1. kept[n + 1] = t
      BY <2>a, <2>3
    <3> HIDE DEF s
    <3>2. s \in Seq(X) /\ Len(s) <= n
      BY <1>7 DEF s
    <3>3. /\ t \in Seq(X) /\ Len(t) = Len(s) + 1
          /\ \A j \in 1..Len(s) : t[j] = s[j]
          /\ t[Len(s) + 1] = cache[n + 1]
      BY <2>1, <3>2
    <3> HIDE DEF t
    <3>4. \A j \in 1..Len(s) : \E i \in P \cap (1..n) : t[j] = cache[i]
      BY <1>7, <3>3 DEF s
    <3>5. \A j \in 1..Len(t) : \E i \in P \cap (1..(n + 1)) : t[j] = cache[i]
      <4> TAKE j \in 1..Len(t)
      <4>1. j \in 1..Len(s) \/ j = Len(s) + 1
        BY <3>2, <3>3
      <4> QED
        BY <2>1, <2>3, <2>b, <3>3, <3>4, <4>1
    <3>6. ASSUME Unique PROVE \A i, k \in 1..Len(t) : t[i].key = t[k].key => i = k
      <4>1. \A j \in 1..Len(s) : t[j].key # cache[n + 1].key
        <5> TAKE j \in 1..Len(s)
        <5>1. PICK i \in 1..n : t[j] = cache[i]
          BY <3>4
        <5>2. i \in 1..m /\ i # n + 1
          BY <1>1
        <5> QED
          BY <2>1, <3>6, <5>1, <5>2
      <4>2. \A i, k \in 1..Len(s) : t[i].key = t[k].key => i = k
        BY <1>7, <3>3, <3>6 DEF s
      <4> QED
        BY <3>2, <3>3, <4>1, <4>2
    <3> QED
      BY <3>1, <3>2, <3>3, <3>5, <3>6
  <2> QED
    BY <2>2, <2>3
<1>8. Part(kept[m], m)
  <2> DEFINE S == {n \in 0..m : Part(kept[n], n)}
  <2>1. 0 \in S /\ \A n \in 0..(m - 1) : n \in S => n + 1 \in S
    BY <1>1, <1>6, <1>7
  <2> HIDE DEF S
  <2>2. m \in S
    <3>1. m \in 0..m
      BY <1>1
    <3> HIDE DEF m
    <3> QED
      BY <1>1, <2>1, <3>1, UpTo
  <2> QED
    BY <2>2 DEF S
<1> QED
  BY <1>3, <1>8

(* What the clock and the witnesses hold: a trust score that is in force   *)
(* is witnessed now, and every other one was witnessed before.             *)
ClockInv ==
  /\ clock \in 1..MaxTime
  /\ inForce \in [Agents -> [Scores -> Nat]]
  /\ \A a \in Agents : \A x \in Scores :
       inForce[a][x] <= clock /\ (trust[a] = x => inForce[a][x] = clock)
  /\ since \in [Agents -> SUBSET Scores]
  /\ \A a \in Agents : trust[a] # Absent => trust[a] \in since[a]

CheckInv ==
  /\ check \in {NoCheck} \cup [pc : {"verifying"}, key : Keys, now : 1..MaxTime]
  /\ check # NoCheck => check.now <= clock

(* An entry expires within TTL of the last moment its trust was in force   *)
(* and of the expiry of its token.                                         *)
Entries == [key : Keys, trust : Scores, until : 1..(MaxTime + TTL)]
Fresh(entry) ==
  LET agent == entry.key.claimed IN
  /\ entry.trust \in since[agent]
  /\ entry.until <= inForce[agent][entry.trust] + TTL
  /\ entry.until <= entry.key.exp + TTL

CacheInv ==
  /\ cache \in Seq(Entries) /\ Len(cache) <= MaxEntries
  /\ \A i, k \in 1..Len(cache) : cache[i].key = cache[k].key => i = k
  /\ \A i \in 1..Len(cache) : Fresh(cache[i])

StaleInv == IInv /\ ClockInv /\ CheckInv /\ CacheInv

LEMMA InitStale == Init => StaleInv
<1> SUFFICES ASSUME Init PROVE StaleInv
  OBVIOUS
<1>1. IInv
  BY InitInv
<1>2. ClockInv
  BY RegistryAssumption, IdentityAssumption DEF Init, RegistryInit, ClockInv, Scores
<1>3. CheckInv /\ CacheInv
  BY IdentityAssumption DEF Init, CheckInv, CacheInv
<1> QED
  BY <1>1, <1>2, <1>3 DEF StaleInv

(* A fresh entry stays fresh while the witnesses only move forward.        *)
LEMMA StaysFresh ==
  ASSUME NEW entry \in Entries, Fresh(entry), ClockInv, ClockInv',
         \A a \in Agents : \A x \in Scores : inForce[a][x] <= inForce'[a][x],
         since[entry.key.claimed] \subseteq since'[entry.key.claimed]
  PROVE  Fresh(entry)'
<1>1. entry.key.claimed \in Agents /\ entry.trust \in Scores /\ entry.until \in Nat
  BY DEF Entries, Keys
<1>2. /\ inForce[entry.key.claimed][entry.trust] \in Nat
      /\ inForce'[entry.key.claimed][entry.trust] \in Nat
      /\ inForce[entry.key.claimed][entry.trust] <= inForce'[entry.key.claimed][entry.trust]
  BY <1>1 DEF ClockInv
<1>3. entry.until <= inForce'[entry.key.claimed][entry.trust] + TTL
  BY <1>1, <1>2, IdentityAssumption DEF Fresh
<1> QED
  BY <1>3 DEF Fresh

LEMMA CacheStays ==
  ASSUME StaleInv, ClockInv', cache' = cache,
         \A a \in Agents : \A x \in Scores : inForce[a][x] <= inForce'[a][x],
         \A a \in Agents : since[a] \subseteq since'[a]
  PROVE  CacheInv'
<1>1. \A i \in 1..Len(cache) : cache[i] \in Entries /\ Fresh(cache[i])
  BY DEF StaleInv, CacheInv
<1>2. \A i \in 1..Len(cache) : cache[i].key.claimed \in Agents
  BY <1>1 DEF Entries, Keys
<1>3. \A i \in 1..Len(cache) : Fresh(cache[i])'
  <2> TAKE i \in 1..Len(cache)
  <2>1. Fresh(cache[i]) /\ cache[i] \in Entries /\ cache[i].key.claimed \in Agents
    BY <1>1, <1>2
  <2>2. PICK e \in Entries : e = cache[i]
    BY <2>1
  <2>3. Fresh(e)'
    BY <2>1, <2>2, StaysFresh DEF StaleInv
  <2> QED
    BY <2>2, <2>3
<1> QED
  BY <1>3 DEF StaleInv, CacheInv

(* A step of the registry, a tick of the clock.                            *)
LEMMA WitnessedStale ==
  ASSUME StaleInv, IInv', Witnessed
  PROVE  StaleInv'
<1>1. /\ inForce' = [a \in Agents |-> [x \in Scores |->
                       IF trust'[a] = x THEN clock ELSE inForce[a][x]]]
      /\ since' = [a \in Agents |-> since[a] \cup ({trust'[a]} \cap Scores)]
      /\ UNCHANGED <<clock, cache, check>>
  BY DEF Witnessed
<1>2. trust' \in [Agents -> Scores \cup {Absent}]
  BY DEF IInv, RegistryTypeOK
<1>3. ClockInv'
  BY <1>1, <1>2, IdentityAssumption DEF StaleInv, ClockInv
<1>4. \A a \in Agents : \A x \in Scores : inForce[a][x] <= inForce'[a][x]
  BY <1>1, IdentityAssumption DEF StaleInv, ClockInv
<1>5. \A a \in Agents : since[a] \subseteq since'[a]
  BY <1>1
<1>6. CacheInv'
  BY <1>1, <1>3, <1>4, <1>5, CacheStays
<1>7. CheckInv'
  BY <1>1 DEF StaleInv, CheckInv
<1> QED
  BY <1>3, <1>6, <1>7 DEF StaleInv

LEMMA TickStale ==
  ASSUME StaleInv, IInv', Tick
  PROVE  StaleInv'
<1>1. /\ clock < MaxTime /\ clock' = clock + 1
      /\ inForce' = [a \in Agents |-> [x \in Scores |->
                       IF trust[a] = x THEN clock' ELSE inForce[a][x]]]
      /\ trust' = trust /\ UNCHANGED <<cache, check, since>>
  BY DEF Tick, registryVars
<1>2. clock \in Nat /\ clock' \in 1..MaxTime
  BY <1>1, IdentityAssumption DEF StaleInv, ClockInv
<1>3. ClockInv'
  BY <1>1, <1>2 DEF StaleInv, ClockInv
<1>4. \A a \in Agents : \A x \in Scores : inForce[a][x] <= inForce'[a][x]
  BY <1>1, <1>2 DEF StaleInv, ClockInv
<1>5. CacheInv'
  BY <1>1, <1>3, <1>4, CacheStays
<1>6. CheckInv'
  BY <1>1, <1>2, IdentityAssumption DEF StaleInv, CheckInv
<1> QED
  BY <1>3, <1>5, <1>6 DEF StaleInv

(* What is left of the cache when entries are dropped, and their agents'   *)
(* witnesses with them.                                                    *)
LEMMA OnlyStale ==
  ASSUME StaleInv, ClockInv', NEW P, cache' = Only(P), inForce' = inForce,
         \A i \in P \cap (1..Len(cache)) :
           since[cache[i].key.claimed] \subseteq since'[cache[i].key.claimed]
  PROVE  CacheInv'
<1>1. cache \in Seq(Entries) /\ Len(cache) <= MaxEntries /\ Len(cache) \in Nat
  BY DEF StaleInv, CacheInv
<1>2. \A i, k \in 1..Len(cache) : cache[i].key = cache[k].key => i = k
  BY DEF StaleInv, CacheInv
<1>3. /\ cache' \in Seq(Entries) /\ Len(cache') <= Len(cache)
      /\ \A j \in 1..Len(cache') : \E i \in P \cap (1..Len(cache)) : cache'[j] = cache[i]
      /\ \A i, k \in 1..Len(cache') : cache'[i].key = cache'[k].key => i = k
  BY <1>1, <1>2, OnlyHolds
<1>4. ASSUME NEW j \in 1..Len(cache') PROVE Fresh(cache[j])'
  <2>1. PICK i \in P \cap (1..Len(cache)) : cache'[j] = cache[i]
    BY <1>3
  <2>2. PICK e \in Entries : e = cache[i]
    BY <1>1
  <2>3. Fresh(e) /\ e.key.claimed \in Agents /\ since[e.key.claimed] \subseteq since'[e.key.claimed]
    BY <2>1, <2>2 DEF StaleInv, CacheInv, Entries, Keys
  <2>4. \A a \in Agents : \A x \in Scores : inForce[a][x] <= inForce'[a][x]
    BY DEF StaleInv, ClockInv
  <2>5. Fresh(e)'
    BY <2>3, <2>4, StaysFresh DEF StaleInv
  <2> QED
    BY <2>1, <2>2, <2>5
<1>5. Len(cache') <= MaxEntries
  BY <1>1, <1>3, IdentityAssumption
<1> QED
  BY <1>3, <1>4, <1>5 DEF CacheInv

LEMMA RefuseStale ==
  ASSUME StaleInv, IInv', Refuse
  PROVE  StaleInv'
<1>1. /\ cache' = Only(DOMAIN cache \ Place(check.key)) /\ check' = NoCheck
      /\ trust' = trust /\ UNCHANGED <<clock, inForce, since>>
  BY DEF Refuse, OtherKeys, registryVars
<1>2. ClockInv' /\ CheckInv'
  BY <1>1 DEF StaleInv, ClockInv, CheckInv
<1>3. CacheInv'
  BY <1>1, <1>2, OnlyStale
<1> QED
  BY <1>2, <1>3 DEF StaleInv

LEMMA InvalidateStale ==
  ASSUME StaleInv, IInv', NEW A \in SUBSET Agents, Invalidate(A)
  PROVE  StaleInv'
<1> DEFINE P == {i \in DOMAIN cache : cache[i].key.claimed \notin A}
<1>1. /\ cache' = Only(P)
      /\ since' = [a \in Agents |-> IF a \in A THEN {trust[a]} \cap Scores ELSE since[a]]
      /\ trust' = trust /\ UNCHANGED <<clock, check, inForce>>
  BY DEF Invalidate, Dropped, registryVars
<1>2. trust \in [Agents -> Scores \cup {Absent}]
  BY DEF StaleInv, IInv, RegistryTypeOK
<1>3. ClockInv'
  BY <1>1, <1>2 DEF StaleInv, ClockInv
<1>4. CheckInv'
  BY <1>1 DEF StaleInv, CheckInv
<1>5. \A i \in P \cap (1..Len(cache)) :
        since[cache[i].key.claimed] \subseteq since'[cache[i].key.claimed]
  <2> TAKE i \in P \cap (1..Len(cache))
  <2>1. cache[i] \in Entries /\ cache[i].key.claimed \notin A
    BY DEF StaleInv, CacheInv
  <2>2. cache[i].key.claimed \in Agents
    BY <2>1 DEF Entries, Keys
  <2> QED
    BY <1>1, <2>1, <2>2
<1> HIDE DEF P
<1>6. CacheInv'
  BY <1>1, <1>3, <1>5, OnlyStale
<1> QED
  BY <1>3, <1>4, <1>6 DEF StaleInv

LEMMA MissStale ==
  ASSUME StaleInv, IInv', NEW key \in Keys, Miss(key)
  PROVE  StaleInv'
<1>1. /\ check' = [pc |-> "verifying", key |-> key, now |-> clock]
      /\ trust' = trust /\ UNCHANGED <<clock, cache, inForce, since>>
  BY DEF Miss, registryVars
<1>2. ClockInv' /\ clock \in 1..MaxTime
  BY <1>1 DEF StaleInv, ClockInv
<1>3. CheckInv'
  BY <1>1, <1>2, IdentityAssumption DEF CheckInv
<1>4. CacheInv'
  BY <1>1 DEF StaleInv, CacheInv, Fresh
<1> QED
  BY <1>2, <1>3, <1>4 DEF StaleInv

(* A success is kept: what it answers is in force now.                     *)
LEMMA KeptHolds ==
  ASSUME NEW entry \in Entries, cache \in Seq(Entries), Len(cache) <= MaxEntries,
         \A i, k \in 1..Len(cache) : cache[i].key = cache[k].key => i = k
  PROVE  /\ Kept(entry) \in Seq(Entries) /\ Len(Kept(entry)) <= MaxEntries
         /\ \A i, k \in 1..Len(Kept(entry)) : Kept(entry)[i].key = Kept(entry)[k].key => i = k
         /\ \A i \in 1..Len(Kept(entry)) :
              Kept(entry)[i] = entry \/ \E k \in 1..Len(cache) : Kept(entry)[i] = cache[k]
<1>1. Len(cache) \in Nat /\ MaxEntries \in Nat \ {0} /\ DOMAIN cache = 1..Len(cache)
  BY IdentityAssumption
<1>2. CASE Place(entry.key) = {}
  <2> DEFINE room == RoomMade
  <2>1. /\ room \in Seq(Entries) /\ Len(room) < MaxEntries
        /\ \E d \in {0, 1} : \A i \in 1..Len(room) :
             i + d \in 1..Len(cache) /\ room[i] = cache[i + d]
    <3>1. CASE Len(cache) >= MaxEntries
      <4>1. room = Tail(cache)
        BY <3>1, Zenon DEF RoomMade
      <4>5. MaxEntries \in Nat \ {0} /\ Len(cache) \in Nat /\ Len(cache) <= MaxEntries
        BY <1>1
      <4>2. room \in Seq(Entries) /\ Len(room) = Len(cache) - 1
        BY <1>1, <3>1, <4>1
      <4>3. \A i \in 1..Len(room) : i + 1 \in 1..Len(cache) /\ room[i] = cache[i + 1]
        BY <1>1, <3>1, <4>1, <4>2
      <4>4. Len(room) < MaxEntries
        BY <1>1, <4>5, <4>2
      <4> HIDE DEF room
      <4> QED
        BY <4>2, <4>3, <4>4
    <3>2. CASE ~ (Len(cache) >= MaxEntries)
      <4>1. room = cache
        BY <3>2 DEF RoomMade
      <4>2. \A i \in 1..Len(room) : i + 0 \in 1..Len(cache) /\ room[i] = cache[i + 0]
        BY <1>1, <4>1
      <4>3. room \in Seq(Entries) /\ Len(room) < MaxEntries
        BY <1>1, <3>2, <4>1
      <4> HIDE DEF room
      <4> QED
        BY <4>2, <4>3
    <3> QED
      BY <3>1, <3>2
  <2>2. PICK d \in {0, 1} : \A i \in 1..Len(room) :
          i + d \in 1..Len(cache) /\ room[i] = cache[i + d]
    BY <2>1
  <2>3. Kept(entry) = Append(room, entry)
    BY <1>2 DEF Kept
  <2> HIDE DEF room
  <2>4. \A i \in 1..Len(cache) : cache[i].key # entry.key
    BY <1>1, <1>2 DEF Place
  <2> DEFINE s == Append(room, entry)
  <2>5. /\ s \in Seq(Entries) /\ Len(s) = Len(room) + 1 /\ Len(room) \in Nat
        /\ \A i \in 1..Len(room) : s[i] = room[i]
        /\ s[Len(room) + 1] = entry
    BY <2>1
  <2> HIDE DEF s
  <2>6. \A i \in 1..Len(s) : i \in 1..Len(room) \/ i = Len(room) + 1
    BY <2>5
  <2>7. \A i \in 1..Len(room) : s[i].key # entry.key
    BY <2>2, <2>4, <2>5
  <2>8. \A i, k \in 1..Len(room) : s[i].key = s[k].key => i = k
    <3> TAKE i, k \in 1..Len(room)
    <3> HAVE s[i].key = s[k].key
    <3>1. /\ i + d \in 1..Len(cache) /\ s[i] = cache[i + d]
          /\ k + d \in 1..Len(cache) /\ s[k] = cache[k + d]
      BY <2>2, <2>5
    <3>2. cache[i + d].key = cache[k + d].key
      BY <3>1
    <3>3. i + d = k + d
      BY <3>1, <3>2
    <3> QED
      BY <2>5, <3>3
  <2>9. \A i, k \in 1..Len(s) : s[i].key = s[k].key => i = k
    BY <2>5, <2>6, <2>7, <2>8
  <2>10. \A i \in 1..Len(s) : s[i] = entry \/ \E k \in 1..Len(cache) : s[i] = cache[k]
    <3> TAKE i \in 1..Len(s)
    <3>1. CASE i = Len(room) + 1
      BY <2>5, <3>1
    <3>2. CASE i \in 1..Len(room)
      <4>1. i + d \in 1..Len(cache) /\ s[i] = cache[i + d]
        BY <2>2, <2>5, <3>2
      <4> QED
        BY <4>1
    <3> QED
      BY <2>6, <3>1, <3>2
  <2>11. Len(s) <= MaxEntries
    BY <1>1, <2>1, <2>5
  <2> QED
    BY <2>3, <2>5, <2>9, <2>10, <2>11 DEF s
<1>3. CASE Place(entry.key) # {}
  <2> DEFINE s == [i \in 1..Len(cache) |-> IF i \in Place(entry.key) THEN entry ELSE cache[i]]
  <2>1. Kept(entry) = s
    BY <1>1, <1>3 DEF Kept
  <2>2. s \in Seq(Entries) /\ Len(s) = Len(cache)
    BY <1>1
  <2>3. \A i \in 1..Len(cache) : s[i].key = cache[i].key
    BY <1>1 DEF Place
  <2>4. \A i \in 1..Len(cache) : s[i] = entry \/ s[i] = cache[i]
    OBVIOUS
  <2> HIDE DEF s
  <2> QED
    BY <2>1, <2>2, <2>3, <2>4
<1> QED
  BY <1>2, <1>3

LEMMA SucceedStale ==
  ASSUME StaleInv, IInv', Succeed
  PROVE  StaleInv'
<1> DEFINE e == [key |-> check.key, trust |-> trust[check.key.sub], until |-> check.now + TTL]
<1>1. /\ check # NoCheck /\ Verified(check.key)
      /\ cache' = Kept(e) /\ check' = NoCheck
      /\ trust' = trust /\ UNCHANGED <<clock, inForce, since>>
  BY DEF Succeed, registryVars
<1>2. ClockInv' /\ CheckInv'
  BY <1>1 DEF StaleInv, ClockInv, CheckInv
<1>3. /\ check.key \in Keys /\ check.now \in 1..MaxTime /\ check.now <= clock
      /\ check.key.exp > clock /\ check.key.sub = check.key.claimed
      /\ trust[check.key.sub] # Absent
  BY <1>1 DEF StaleInv, CheckInv, Verified
<1>4. /\ check.key.claimed \in Agents /\ check.key.exp \in Nat /\ clock \in Nat
      /\ trust[check.key.claimed] \in Scores
  BY <1>3, IdentityAssumption DEF Keys, StaleInv, ClockInv, IInv, RegistryTypeOK
<1>5. e \in Entries /\ Fresh(e)
  <2>1. check.now + TTL \in 1..(MaxTime + TTL)
    BY <1>3, IdentityAssumption
  <2>2. e \in Entries
    BY <1>3, <1>4, <2>1 DEF Entries
  <2>3. inForce[check.key.claimed][trust[check.key.claimed]] = clock
        /\ trust[check.key.claimed] \in since[check.key.claimed]
    BY <1>3, <1>4 DEF StaleInv, ClockInv
  <2>4. check.now + TTL <= clock + TTL /\ check.now + TTL <= check.key.exp + TTL
    BY <1>3, <1>4, IdentityAssumption
  <2> QED
    BY <1>3, <2>2, <2>3, <2>4 DEF Fresh
<1> HIDE DEF e
<1>6. cache \in Seq(Entries) /\ Len(cache) <= MaxEntries
      /\ \A i, k \in 1..Len(cache) : cache[i].key = cache[k].key => i = k
  BY DEF StaleInv, CacheInv
<1>7. /\ cache' \in Seq(Entries) /\ Len(cache') <= MaxEntries
      /\ \A i, k \in 1..Len(cache') : cache'[i].key = cache'[k].key => i = k
      /\ \A i \in 1..Len(cache') :
           cache'[i] = e \/ \E k \in 1..Len(cache) : cache'[i] = cache[k]
  BY <1>1, <1>5, <1>6, KeptHolds
<1>8. \A i \in 1..Len(cache') : Fresh(cache'[i])
  BY <1>5, <1>7 DEF StaleInv, CacheInv
<1>9. CacheInv'
  BY <1>1, <1>7, <1>8 DEF CacheInv, Fresh
<1> QED
  BY <1>2, <1>9 DEF StaleInv

LEMMA NextStale == StaleInv /\ [Next]_vars => StaleInv'
<1> SUFFICES ASSUME StaleInv, [Next]_vars PROVE StaleInv'
  OBVIOUS
<1>1. IInv'
  BY NextInv DEF StaleInv
<1>2. CASE Witnessed
  BY <1>1, <1>2, WitnessedStale
<1>3. CASE Succeed
  BY <1>1, <1>3, SucceedStale
<1>4. CASE Refuse
  BY <1>1, <1>4, RefuseStale
<1>5. CASE Tick
  BY <1>1, <1>5, TickStale
<1>6. ASSUME NEW key \in Keys, Miss(key) PROVE StaleInv'
  BY <1>1, <1>6, MissStale
<1>7. ASSUME NEW A \in SUBSET Agents, Invalidate(A) PROVE StaleInv'
  BY <1>1, <1>7, InvalidateStale
<1>8. CASE UNCHANGED vars
  <2>1. ClockInv' /\ CheckInv'
    BY <1>8 DEF vars, registryVars, cacheVars, StaleInv, ClockInv, CheckInv
  <2>2. CacheInv'
    BY <1>8 DEF vars, registryVars, cacheVars, StaleInv, CacheInv, Fresh
  <2> QED
    BY <1>1, <2>1, <2>2 DEF StaleInv
<1>9. \A a \in Agents : {a} \in SUBSET Agents
  OBVIOUS
<1> QED
  BY <1>2, <1>3, <1>4, <1>5, <1>6, <1>7, <1>8, <1>9 DEF Next

(* The tables and the sessions keep their types; the cache is bounded, and *)
(* holds each key once, whatever is verified, refused or invalidated.      *)
THEOREM TypeCorrect == Spec => []TypeOK
<1>1. ASSUME StaleInv PROVE TypeOK
  <2>1. RegistryTypeOK /\ clock \in 1..MaxTime
        /\ check \in {NoCheck} \cup [pc : {"verifying"}, key : Keys, now : 1..MaxTime]
    BY <1>1 DEF StaleInv, IInv, ClockInv, CheckInv
  <2>2. /\ cache \in Seq(Entries) /\ Len(cache) <= MaxEntries
        /\ \A i, k \in 1..Len(cache) : cache[i].key = cache[k].key => i = k
    BY <1>1 DEF StaleInv, CacheInv
  <2>3. \A i \in DOMAIN cache : cache[i] \in Entries /\ Place(cache[i].key) = {i}
    BY <2>2 DEF Place
  <2> QED
    BY <2>1, <2>2, <2>3 DEF TypeOK, Entries
<1> QED
  BY InitStale, NextStale, <1>1, PTL DEF Spec

(* What a hit would answer now was the trust of the agent less than TTL    *)
(* ago, and since its last invalidation, and its token was valid less than *)
(* TTL ago, however long the verification behind it took.                  *)
THEOREM AlwaysStaleWithinTTL == Spec => []StaleWithinTTL
<1>1. ASSUME StaleInv PROVE StaleWithinTTL
  <2> SUFFICES ASSUME NEW i \in DOMAIN cache
               PROVE  LET agent == cache[i].key.claimed IN
                      /\ cache[i].trust \in since[agent]
                      /\ Live(cache[i]) => /\ clock < inForce[agent][cache[i].trust] + TTL
                                          /\ clock < cache[i].key.exp + TTL
    BY DEF StaleWithinTTL
  <2>1. cache[i] \in Entries /\ Fresh(cache[i])
    BY <1>1 DEF StaleInv, CacheInv
  <2>2. /\ cache[i].until \in Nat /\ cache[i].key.exp \in Nat /\ clock \in Nat
        /\ inForce[cache[i].key.claimed][cache[i].trust] \in Nat
    BY <1>1, <2>1, IdentityAssumption DEF Entries, Keys, StaleInv, ClockInv
  <2> QED
    BY <2>1, <2>2, IdentityAssumption DEF Fresh, Live
<1> QED
  BY InitStale, NextStale, <1>1, PTL DEF Spec
=============================================================================
