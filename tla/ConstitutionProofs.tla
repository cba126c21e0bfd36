-------------------------- MODULE ConstitutionProofs --------------------------
(***************************************************************************)
(* For any constitution, however deep its conditions nest, and any         *)
(* operation: the rules the compiler makes fire exactly where the written  *)
(* conditions hold; the order of authoring changes no bundle; and the      *)
(* evidence shows what the rules judged.                                   *)
(***************************************************************************)
EXTENDS ConstitutionCompiler, FiniteSetTheorems, SequenceTheorems, WellFoundedInduction, TLAPS

(* A set of numbers has a least one; so a set that holds 0, and n + 1 with *)
(* every n below m, holds all up to m.                                     *)
LEMMA HasLeast ==
  ASSUME NEW S \in SUBSET Nat, S # {}
  PROVE  \E e \in S : \A f \in S : e <= f
<1> DEFINE R == OpToRel(<, Nat)
<1>1. IsWellFoundedOn(R, Nat)
  BY NatLessThanWellFounded
<1>2. PICK e \in S : \A f \in S : <<f, e>> \notin R
  <2> HIDE DEF R
  <2> QED
    BY <1>1, WFMin
<1>3. \A f \in S : f < e => <<f, e>> \in R
  <2> TAKE f \in S
  <2> HAVE f < e
  <2>1. <<f, e>> \in Nat \X Nat /\ <<f, e>>[1] < <<f, e>>[2]
    OBVIOUS
  <2> QED
    BY <2>1 DEF OpToRel
<1>4. \A f \in S : ~ (f < e)
  <2> HIDE DEF R
  <2> QED
    BY <1>2, <1>3
<1> QED
  BY <1>4

LEMMA UpTo ==
  ASSUME NEW m \in Nat, NEW S, 0 \in S, \A n \in 0..(m - 1) : n \in S => n + 1 \in S
  PROVE  0..m \subseteq S
<1> DEFINE Missed == (0..m) \ S
<1> SUFFICES ASSUME Missed # {} PROVE FALSE
  OBVIOUS
<1>1. PICK e \in Missed : \A f \in Missed : e <= f
  <2>1. Missed \in SUBSET Nat
    OBVIOUS
  <2> QED
    BY <2>1, HasLeast
<1>2. e # 0 /\ e - 1 \in 0..(m - 1) /\ e - 1 \in S
  BY <1>1
<1> QED
  BY <1>1, <1>2

-----------------------------------------------------------------------------
(* The conditions, level by level.                                         *)
Level(T, k) ==
  IF k = 0 THEN LeafType
  ELSE LeafType \cup [node : {"not"}, of : [1..1 -> T[k - 1]]]
                \cup [node : {"all", "any"}, of : Seq(T[k - 1]) \ {<<>>}]

LEMMA TreeExists ==
  ASSUME NEW m \in Nat
  PROVE  \E T : T = [k \in 0..m |-> Level(T, k)]
<1> DEFINE S == {k \in 0..m : \E T : T = [i \in 0..k |-> Level(T, i)]}
<1>1. 0 \in S
  <2> DEFINE T == [i \in 0..0 |-> LeafType]
  <2>1. T = [i \in 0..0 |-> Level(T, i)]
    BY DEF Level
  <2> QED
    BY <2>1
<1>2. ASSUME NEW n \in 0..(m - 1), n \in S PROVE n + 1 \in S
  <2>1. PICK T : T = [i \in 0..n |-> Level(T, i)]
    BY <1>2
  <2> DEFINE U == [i \in 0..(n + 1) |-> IF i = n + 1 THEN Level(T, n + 1) ELSE T[i]]
  <2>2. \A i \in 0..n : U[i] = T[i]
    OBVIOUS
  <2>3. ASSUME NEW i \in 0..(n + 1) PROVE U[i] = Level(U, i)
    <3>1. i = 0 \/ U[i - 1] = T[i - 1]
      BY <2>2
    <3>2. Level(U, i) = Level(T, i)
      BY <3>1 DEF Level
    <3>3. i # n + 1 => T[i] = Level(T, i)
      BY <2>1
    <3> QED
      BY <3>2, <3>3
  <2>4. U = [i \in 0..(n + 1) |-> U[i]]
    OBVIOUS
  <2> HIDE DEF U
  <2>5. U = [i \in 0..(n + 1) |-> Level(U, i)]
    BY <2>3, <2>4
  <2> QED
    BY <2>5
<1>3. m \in S
  <2> HIDE DEF S
  <2> QED
    BY <1>1, <1>2, UpTo
<1> QED
  BY <1>3

LEMMA TreeLevels == Tree = [k \in 0..Nesting |-> Level(Tree, k)]
<1>1. \E T : T = [k \in 0..Nesting |-> Level(T, k)]
  BY ConstitutionAssumption, TreeExists
<1> QED
  BY <1>1 DEF Tree, Level

(* What a condition is made of: a leaf, or a node over conditions one      *)
(* level down, where there are no others than at this level.               *)
LEMMA LevelNodes ==
  /\ Tree[0] = LeafType
  /\ \A k \in 0..(Nesting - 1) : \A n \in Tree[k + 1] :
       \/ n \in LeafType
       \/ /\ n.node \in {"not", "all", "any"}
          /\ n.of \in Seq(Tree[k]) /\ n.of # <<>>
          /\ n.node = "not" => n.of \in [1..1 -> Tree[k]]
  /\ \A k \in 0..(Nesting - 1) : LeafType \subseteq Tree[k + 1]
<1>n. Nesting \in Nat
  BY ConstitutionAssumption
<1>1. Tree[0] = LeafType
  BY <1>n, TreeLevels DEF Level
<1>2. ASSUME NEW k \in 0..(Nesting - 1)
      PROVE  Tree[k + 1] = LeafType \cup [node : {"not"}, of : [1..1 -> Tree[k]]]
                             \cup [node : {"all", "any"}, of : Seq(Tree[k]) \ {<<>>}]
  <2>1. k + 1 \in 0..Nesting /\ k + 1 # 0 /\ (k + 1) - 1 = k
    BY <1>n
  <2>2. Tree[k + 1] = Level(Tree, k + 1)
    BY <2>1, TreeLevels
  <2> QED
    BY <2>1, <2>2 DEF Level
<1>3. ASSUME NEW k \in 0..(Nesting - 1), NEW n \in Tree[k + 1], n \notin LeafType
      PROVE  /\ n.node \in {"not", "all", "any"}
             /\ n.of \in Seq(Tree[k]) /\ n.of # <<>>
             /\ n.node = "not" => n.of \in [1..1 -> Tree[k]]
  <2>1. CASE n \in [node : {"not"}, of : [1..1 -> Tree[k]]]
    <3>1. n.node = "not" /\ n.of \in [1..1 -> Tree[k]]
      BY <2>1
    <3>2. n.of \in Seq(Tree[k]) /\ Len(n.of) = 1
      <4> DEFINE s == n.of
      <4>1. s \in [1..1 -> Tree[k]]
        BY <3>1
      <4> HIDE DEF s
      <4>2. s \in Seq(Tree[k])
        BY <4>1, SeqDef
      <4>3. Len(s) = 1
        BY <4>1, <4>2, LenProperties
      <4> QED
        BY <4>2, <4>3 DEF s
    <3>3. n.of # <<>>
      <4> SUFFICES ASSUME n.of = <<>> PROVE FALSE
        OBVIOUS
      <4>1. Len(n.of) = Len(<<>>)
        BY Zenon
      <4>2. Len(<<>>) = 0
        OBVIOUS
      <4> QED
        BY <3>2, <4>1, <4>2
    <3> QED
      BY <3>1, <3>2, <3>3
  <2>2. CASE n \in [node : {"all", "any"}, of : Seq(Tree[k]) \ {<<>>}]
    BY <2>2
  <2> QED
    BY <1>2, <1>3, <2>1, <2>2
<1>4. \A k \in 0..(Nesting - 1) : LeafType \subseteq Tree[k + 1]
  BY <1>2
<1> QED
  BY <1>1, <1>3, <1>4

LEMMA LeafNode == \A n \in LeafType : n.node = "leaf" /\ Children(n) = {}
BY DEF LeafType, Children

LEMMA LevelChildren ==
  ASSUME NEW k \in 0..Nesting, NEW n \in Tree[k]
  PROVE  /\ k = 0 => n \in LeafType
         /\ n.node = "leaf" <=> n \in LeafType
         /\ k # 0 => Children(n) \subseteq Tree[k - 1]
         /\ n.node # "leaf" => k # 0 /\ n.of \in Seq(Tree[k - 1]) /\ n.of # <<>>
<1>n. Nesting \in Nat
  BY ConstitutionAssumption
<1>1. CASE k = 0
  BY <1>1, LevelNodes, LeafNode
<1>2. CASE k # 0
  <2>1. k - 1 \in 0..(Nesting - 1) /\ (k - 1) + 1 = k
    BY <1>2, <1>n
  <2>2. CASE n \in LeafType
    BY <1>2, <2>2, LeafNode
  <2>3. CASE n \notin LeafType
    <3>1. /\ n.node \in {"not", "all", "any"}
          /\ n.of \in Seq(Tree[k - 1]) /\ n.of # <<>>
      BY <2>1, <2>3, LevelNodes
    <3>2. Children(n) = ToSet(n.of)
      BY <3>1 DEF Children
    <3>3. \A s \in Seq(Tree[k - 1]) : ToSet(s) \subseteq Tree[k - 1]
      BY DEF ToSet
    <3> QED
      BY <1>2, <2>3, <3>1, <3>2, <3>3
  <2> QED
    BY <2>2, <2>3
<1> QED
  BY <1>1, <1>2

LEMMA LevelsGrow == \A k \in 0..(Nesting - 1) : Tree[k] \subseteq Tree[k + 1]
<1>n. Nesting \in Nat
  BY ConstitutionAssumption
<1> DEFINE S == {k \in 0..Nesting : k < Nesting => Tree[k] \subseteq Tree[k + 1]}
<1>1. 0 \in S
  BY <1>n, LevelNodes
<1>2. ASSUME NEW k \in 0..(Nesting - 1), k \in S PROVE k + 1 \in S
  <2> SUFFICES ASSUME k + 1 < Nesting, NEW n \in Tree[k + 1], n \notin LeafType
               PROVE  n \in Tree[(k + 1) + 1]
    BY <1>n, LevelNodes
  <2>1. Tree[k] \subseteq Tree[k + 1] /\ k + 1 \in 0..(Nesting - 1)
    BY <1>2, <1>n
  <2>2. k + 1 \in 0..Nesting /\ k + 1 # 0 /\ (k + 1) - 1 = k
        /\ (k + 1) + 1 \in 0..Nesting /\ (k + 1) + 1 # 0 /\ ((k + 1) + 1) - 1 = k + 1
    BY <1>n, <2>1
  <2>3. n \in [node : {"not"}, of : [1..1 -> Tree[k]]]
             \cup [node : {"all", "any"}, of : Seq(Tree[k]) \ {<<>>}]
    BY <2>2, TreeLevels DEF Level
  <2>4. /\ [1..1 -> Tree[k]] \subseteq [1..1 -> Tree[k + 1]]
        /\ Seq(Tree[k]) \subseteq Seq(Tree[k + 1])
    BY <2>1
  <2>5. n \in [node : {"not"}, of : [1..1 -> Tree[k + 1]]]
             \cup [node : {"all", "any"}, of : Seq(Tree[k + 1]) \ {<<>>}]
    BY <2>3, <2>4
  <2>6. Tree[(k + 1) + 1] = Level(Tree, (k + 1) + 1)
    BY <2>2, TreeLevels
  <2> QED
    BY <2>2, <2>5, <2>6 DEF Level
<1>3. 0..Nesting \subseteq S
  <2> HIDE DEF S
  <2> QED
    BY <1>n, <1>1, <1>2, UpTo
<1> QED
  BY <1>n, <1>3

LEMMA ChildrenOfConditions ==
  ASSUME NEW n \in Conditions
  PROVE  /\ Children(n) \subseteq Conditions
         /\ n.node = "leaf" <=> n \in LeafType
         /\ n.node \in {"leaf", "not", "all", "any"}
         /\ n.node # "leaf" =>
              /\ n.of \in Seq(Conditions) /\ n.of # <<>> /\ Children(n) = ToSet(n.of)
              /\ n.of[1] \in Children(n)
         /\ n.node = "not" => Children(n) = {n.of[1]}
<1>n. Nesting \in Nat /\ Nesting \in 0..Nesting
  BY ConstitutionAssumption
<1>1. n \in Tree[Nesting]
  BY DEF Conditions
<1>2. CASE n.node = "leaf"
  <2>1. n \in LeafType
    BY <1>1, <1>2, <1>n, LevelChildren
  <2> QED
    BY <1>2, <2>1, LeafNode
<1>3. CASE n.node # "leaf"
  <2>1. n \notin LeafType /\ Nesting # 0
    BY <1>1, <1>3, <1>n, LevelChildren
  <2>2. Nesting - 1 \in 0..(Nesting - 1) /\ (Nesting - 1) + 1 = Nesting
    BY <1>n, <2>1
  <2>3. /\ n.node \in {"not", "all", "any"}
        /\ n.of \in Seq(Tree[Nesting - 1]) /\ n.of # <<>>
        /\ n.node = "not" => n.of \in [1..1 -> Tree[Nesting - 1]]
    BY <1>1, <2>1, <2>2, LevelNodes
  <2>4. Tree[Nesting - 1] \subseteq Conditions
    BY <2>2, LevelsGrow DEF Conditions
  <2>5. n.of \in Seq(Conditions)
    BY <2>3, <2>4, SeqMonotonic
  <2>6. Children(n) = ToSet(n.of)
    BY <1>3 DEF Children
  <2>7. \A s \in Seq(Conditions) : s # <<>> => ToSet(s) \subseteq Conditions /\ s[1] \in ToSet(s)
    BY DEF ToSet
  <2>8. n.node = "not" => ToSet(n.of) = {n.of[1]}
    BY <2>3 DEF ToSet
  <2> QED
    BY <1>3, <2>1, <2>3, <2>5, <2>6, <2>7, <2>8
<1> QED
  BY <1>2, <1>3

(* What holds of a condition whenever it holds of its parts holds of all.  *)
LEMMA TreeInduction ==
  ASSUME NEW P, \A n \in Conditions : Children(n) \subseteq P => n \in P
  PROVE  Conditions \subseteq P
<1>n. Nesting \in Nat /\ Nesting \in 0..Nesting
  BY ConstitutionAssumption
<1> DEFINE S == {k \in 0..Nesting : Tree[k] \subseteq Conditions => Tree[k] \subseteq P}
<1>1. 0 \in S
  <2>1. \A n \in Tree[0] : Children(n) = {}
    BY LevelNodes, LeafNode
  <2> QED
    BY <1>n, <2>1
<1>2. ASSUME NEW k \in 0..(Nesting - 1), k \in S PROVE k + 1 \in S
  <2>1. Tree[k] \subseteq Tree[k + 1]
    BY LevelsGrow
  <2>2. k + 1 \in 0..Nesting /\ k + 1 # 0 /\ (k + 1) - 1 = k
    BY <1>n
  <2>3. \A n \in Tree[k + 1] : Children(n) \subseteq Tree[k]
    BY <2>2, LevelChildren
  <2> QED
    BY <1>2, <2>1, <2>2, <2>3
<1>3. Nesting \in S
  <2> HIDE DEF S
  <2> QED
    BY <1>n, <1>1, <1>2, UpTo
<1> QED
  BY <1>3 DEF Conditions

(* A function of conditions may be defined by what it is of their parts.   *)
TreeSteps(V, step) == \A n \in Conditions : \A g \in [Children(n) -> V] : step[n][g] \in V
TreeFollows(f, V, step) ==
  /\ f \in [Conditions -> V]
  /\ \A n \in Conditions : f[n] = step[n][[c \in Children(n) |-> f[c]]]

LEMMA TreeRecursion ==
  ASSUME NEW V, NEW step, TreeSteps(V, step)
  PROVE  \E f : TreeFollows(f, V, step)
<1>s. \A n \in Conditions : \A g \in [Children(n) -> V] : step[n][g] \in V
  BY DEF TreeSteps
<1>n. Nesting \in Nat /\ Nesting \in 0..Nesting
  BY ConstitutionAssumption
<1> DEFINE Fits(f, C) == \A n \in C : f[n] = step[n][[c \in Children(n) |-> f[c]]]
<1> DEFINE S == {k \in 0..Nesting :
                   Tree[k] \subseteq Conditions => \E f \in [Tree[k] -> V] : Fits(f, Tree[k])}
<1>1. 0 \in S
  <2> SUFFICES ASSUME Tree[0] \subseteq Conditions
               PROVE  \E f \in [Tree[0] -> V] : Fits(f, Tree[0])
    BY <1>n
  <2> DEFINE none == [c \in {} |-> c]
  <2> DEFINE f == [n \in Tree[0] |-> step[n][none]]
  <2>1. \A n \in Tree[0] : Children(n) = {}
    BY LevelNodes, LeafNode
  <2>2. none \in [{} -> V]
    OBVIOUS
  <2>3. \A n \in Tree[0] : f[n] \in V
    BY <1>s, <2>1, <2>2
  <2>4. \A n \in Tree[0] : [c \in Children(n) |-> f[c]] = none
    <3> HIDE DEF f
    <3> QED
      BY <2>1
  <2>5. f \in [Tree[0] -> V]
    BY <2>3
  <2>6. \A n \in Tree[0] : f[n] = step[n][none]
    OBVIOUS
  <2> HIDE DEF f, none
  <2>7. Fits(f, Tree[0])
    BY <2>4, <2>6
  <2> QED
    BY <2>5, <2>7
<1>2. ASSUME NEW k \in 0..(Nesting - 1), k \in S PROVE k + 1 \in S
  <2>2. k + 1 \in 0..Nesting /\ k + 1 # 0 /\ (k + 1) - 1 = k
    BY <1>n
  <2> SUFFICES ASSUME Tree[k + 1] \subseteq Conditions
               PROVE  \E f \in [Tree[k + 1] -> V] : Fits(f, Tree[k + 1])
    BY <2>2
  <2>1. Tree[k] \subseteq Tree[k + 1]
    BY LevelsGrow
  <2>3. \A n \in Tree[k + 1] : Children(n) \subseteq Tree[k]
    BY <2>2, LevelChildren
  <2>4. PICK f \in [Tree[k] -> V] : Fits(f, Tree[k])
    BY <1>2, <2>1
  <2> DEFINE part(n) == [c \in Children(n) |-> f[c]]
  <2> DEFINE h == [n \in Tree[k + 1] |-> step[n][part(n)]]
  <2>5. \A n \in Tree[k + 1] : part(n) \in [Children(n) -> V]
    BY <2>3
  <2>6. \A n \in Tree[k + 1] : h[n] = step[n][part(n)] /\ h[n] \in V
    <3> HIDE DEF part
    <3> QED
      BY <1>s, <2>5
  <2>7. h \in [Tree[k + 1] -> V]
    <3>1. h = [n \in Tree[k + 1] |-> h[n]]
      OBVIOUS
    <3> HIDE DEF h
    <3> QED
      BY <2>6, <3>1
  <2> HIDE DEF h
  <2>8. \A n \in Tree[k] : h[n] = f[n]
    BY <2>1, <2>4, <2>6
  <2>9. \A n \in Tree[k + 1] : [c \in Children(n) |-> h[c]] = part(n)
    BY <2>3, <2>8
  <2>10. Fits(h, Tree[k + 1])
    <3> HIDE DEF part
    <3> QED
      BY <2>6, <2>9
  <2> QED
    BY <2>7, <2>10
<1>3. Nesting \in S
  <2> HIDE DEF S
  <2> QED
    BY <1>n, <1>1, <1>2, UpTo
<1>4. PICK f \in [Conditions -> V] : Fits(f, Conditions)
  BY <1>3 DEF Conditions
<1> QED
  BY <1>4 DEF TreeFollows

-----------------------------------------------------------------------------
(* Sequences of sequences.                                                 *)

(* A function of the numbers up to m may be defined one by one.            *)
CountSteps(m, V, step) == \A i \in 1..m : \A v \in V : step[i][v] \in V
CountFollows(f, m, V, base, step) ==
  f \in [0..m -> V] /\ f[0] = base /\ \A i \in 1..m : f[i] = step[i][f[i - 1]]

LEMMA CountRecursion ==
  ASSUME NEW m \in Nat, NEW V, NEW base \in V, NEW step, CountSteps(m, V, step)
  PROVE  \E f : CountFollows(f, m, V, base, step)
<1>s. \A i \in 1..m : \A v \in V : step[i][v] \in V
  BY DEF CountSteps
<1> DEFINE Fits(f, k) == f[0] = base /\ \A i \in 1..k : f[i] = step[i][f[i - 1]]
<1> DEFINE S == {k \in 0..m : \E f \in [0..k -> V] : Fits(f, k)}
<1>1. 0 \in S
  <2> DEFINE f == [i \in 0..0 |-> base]
  <2>1. f \in [0..0 -> V] /\ Fits(f, 0)
    OBVIOUS
  <2> HIDE DEF f
  <2>2. \E g \in [0..0 -> V] : Fits(g, 0)
    BY <2>1
  <2> QED
    BY <2>2
<1>2. ASSUME NEW k \in 0..(m - 1), k \in S PROVE k + 1 \in S
  <2>1. PICK f \in [0..k -> V] : Fits(f, k)
    BY <1>2
  <2> DEFINE last == step[k + 1][f[k]]
  <2> DEFINE h == [i \in 0..(k + 1) |-> IF i = k + 1 THEN last ELSE f[i]]
  <2>2. last \in V
    BY <1>s, <2>1
  <2> HIDE DEF last
  <2>3. h \in [0..(k + 1) -> V]
    BY <2>1, <2>2
  <2>4. \A i \in 0..k : h[i] = f[i]
    OBVIOUS
  <2>5. h[k + 1] = last
    OBVIOUS
  <2> HIDE DEF h
  <2>6. h[0] = base
    BY <2>1, <2>4
  <2>7. ASSUME NEW i \in 1..(k + 1) PROVE h[i] = step[i][h[i - 1]]
    <3>1. CASE i = k + 1
      <4>1. h[i - 1] = f[k]
        BY <2>4, <3>1
      <4> QED
        BY <2>5, <3>1, <4>1 DEF last
    <3>2. CASE i # k + 1
      <4>1. i \in 1..k /\ i \in 0..k /\ i - 1 \in 0..k
        BY <3>2
      <4> QED
        BY <2>1, <2>4, <4>1
    <3> QED
      BY <3>1, <3>2
  <2> QED
    BY <2>3, <2>6, <2>7
<1>3. m \in S
  <2> HIDE DEF S
  <2> QED
    BY <1>1, <1>2, UpTo
<1> QED
  BY <1>3 DEF CountFollows

LEMMA AppendedElements ==
  ASSUME NEW X, NEW s \in Seq(X), NEW t \in Seq(X)
  PROVE  s \o t \in Seq(X) /\ ToSet(s \o t) = ToSet(s) \cup ToSet(t)
<1>1. /\ s \o t \in Seq(X) /\ DOMAIN (s \o t) = 1..(Len(s) + Len(t))
      /\ \A i \in 1..(Len(s) + Len(t)) :
           (s \o t)[i] = IF i <= Len(s) THEN s[i] ELSE t[i - Len(s)]
  OBVIOUS
<1>2. /\ Len(s) \in Nat /\ Len(t) \in Nat
      /\ DOMAIN s = 1..Len(s) /\ DOMAIN t = 1..Len(t)
  OBVIOUS
<1> DEFINE u == s \o t
<1> HIDE DEF u
<1>3. ASSUME NEW x \in ToSet(u) PROVE x \in ToSet(s) \cup ToSet(t)
  <2>1. PICK i \in DOMAIN u : x = u[i]
    BY <1>3 DEF ToSet
  <2>2. CASE i <= Len(s)
    BY <1>1, <1>2, <2>1, <2>2 DEF ToSet, u
  <2>3. CASE ~ (i <= Len(s))
    <3>1. i - Len(s) \in DOMAIN t /\ x = t[i - Len(s)]
      BY <1>1, <1>2, <2>1, <2>3 DEF u
    <3> QED
      BY <3>1 DEF ToSet
  <2> QED
    BY <2>2, <2>3
<1>4. ASSUME NEW x \in ToSet(s) PROVE x \in ToSet(u)
  <2>1. PICK i \in DOMAIN s : x = s[i]
    BY DEF ToSet
  <2>2. i \in DOMAIN u /\ u[i] = x
    BY <1>1, <1>2, <2>1 DEF u
  <2> QED
    BY <2>2 DEF ToSet
<1>5. ASSUME NEW x \in ToSet(t) PROVE x \in ToSet(u)
  <2>1. PICK i \in DOMAIN t : x = t[i]
    BY DEF ToSet
  <2>2. i + Len(s) \in DOMAIN u /\ u[i + Len(s)] = x
    BY <1>1, <1>2, <2>1 DEF u
  <2> QED
    BY <2>2 DEF ToSet
<1> QED
  BY <1>1, <1>3, <1>4, <1>5 DEF u

(* A flattened sequence holds what its sequences hold.                     *)
LEMMA FlattenHolds ==
  ASSUME NEW X, NEW seqs \in Seq(Seq(X))
  PROVE  /\ FlattenSeq(seqs) \in Seq(X)
         /\ ToSet(FlattenSeq(seqs)) = UNION {ToSet(seqs[i]) : i \in DOMAIN seqs}
<1> DEFINE m == Len(seqs)
<1>m. m \in Nat /\ DOMAIN seqs = 1..m /\ \A i \in 1..m : seqs[i] \in Seq(X)
  OBVIOUS
<1>1. CASE m = 0
  <2>1. FlattenSeq(seqs) = seqs /\ seqs = <<>>
    BY <1>1 DEF FlattenSeq
  <2>2. ToSet(seqs) = {} /\ DOMAIN seqs = {}
    BY <1>1 DEF ToSet
  <2> QED
    BY <2>1, <2>2
<1>2. CASE m # 0
  <2> DEFINE Def(g) == g = [i \in 1..m |-> IF i = 1 THEN seqs[i] ELSE g[i - 1] \o seqs[i]]
  <2> DEFINE flatten == CHOOSE g : Def(g)
  <2>1. \E g : Def(g)
    <3> DEFINE step == [i \in 1..m |-> [v \in Seq(X) |-> v \o seqs[i]]]
    <3>1. \A i \in 1..m : \A v \in Seq(X) : step[i][v] = v \o seqs[i] /\ step[i][v] \in Seq(X)
      BY <1>m
    <3> HIDE DEF step
    <3>2. <<>> \in Seq(X)
      OBVIOUS
    <3>3. PICK f \in [0..m -> Seq(X)] : f[0] = <<>> /\ \A i \in 1..m : f[i] = step[i][f[i - 1]]
      <4> DEFINE V == Seq(X)
      <4> DEFINE none == <<>>
      <4>1. m \in Nat /\ none \in V
        BY <1>m, <3>2
      <4>2. CountSteps(m, V, step)
        BY <3>1 DEF CountSteps
      <4> HIDE DEF m, V, none
      <4>3. PICK f : CountFollows(f, m, V, none, step)
        BY <4>1, <4>2, CountRecursion
      <4> QED
        BY <4>3 DEF V, none, CountFollows
    <3> DEFINE g == [i \in 1..m |-> f[i]]
    <3>4. \A i \in 1..m : i - 1 \in 0..m /\ f[i - 1] \in Seq(X) /\ f[i] = f[i - 1] \o seqs[i]
      <4> TAKE i \in 1..m
      <4>1. i - 1 \in 0..m
        BY <1>m
      <4>2. f[i - 1] \in Seq(X)
        BY <3>3, <4>1
      <4>3. f[i] = step[i][f[i - 1]]
        BY <3>3
      <4>4. step[i][f[i - 1]] = f[i - 1] \o seqs[i]
        BY <3>1, <4>2
      <4> QED
        BY <4>1, <4>2, <4>3, <4>4
    <3>5. ASSUME NEW i \in 1..m
          PROVE  g[i] = IF i = 1 THEN seqs[i] ELSE g[i - 1] \o seqs[i]
      <4>1. CASE i = 1
        <5>0. f[i] = f[i - 1] \o seqs[i]
          BY <3>4, Zenon
        <5>1. i - 1 = 0 /\ f[i] = f[i - 1] \o seqs[i]
          BY <4>1, <5>0
        <5>2. f[i] = <<>> \o seqs[i]
          BY <3>3, <5>1
        <5>3. <<>> \o seqs[i] = seqs[i]
          BY <1>m
        <5> QED
          BY <4>1, <5>2, <5>3
      <4>2. CASE i # 1
        BY <1>m, <3>4, <4>2
      <4> QED
        BY <4>1, <4>2
    <3>6. g = [i \in 1..m |-> g[i]]
      OBVIOUS
    <3> HIDE DEF g
    <3>7. Def(g)
      BY <3>5, <3>6
    <3> QED
      BY <3>7
  <2>2. Def(flatten)
    BY <2>1
  <2>3. FlattenSeq(seqs) = flatten[m]
    BY <1>2 DEF FlattenSeq
  <2> HIDE DEF flatten
  <2> DEFINE Held(i) == /\ flatten[i] \in Seq(X)
                        /\ ToSet(flatten[i]) = UNION {ToSet(seqs[j]) : j \in 1..i}
  <2>4. flatten[1] = seqs[1] /\ \A i \in 2..m : flatten[i] = flatten[i - 1] \o seqs[i]
    <3>1. \A i \in 1..m : flatten[i] = IF i = 1 THEN seqs[i] ELSE flatten[i - 1] \o seqs[i]
      <4> HIDE DEF m
      <4> QED
        BY <2>2
    <3>2. 1 \in 1..m /\ \A i \in 2..m : i \in 1..m /\ i # 1
      BY <1>m, <1>2
    <3> HIDE DEF m
    <3> QED
      BY <3>1, <3>2
  <2> DEFINE S == {i \in 0..(m - 1) : Held(i + 1)}
  <2>5. 0 \in S
    <3>1. Held(1)
      <4>1. {ToSet(seqs[j]) : j \in 1..1} = {ToSet(seqs[1])}
        OBVIOUS
      <4>2. seqs[1] \in Seq(X)
        BY <1>m, <1>2
      <4> QED
        BY <2>4, <4>1, <4>2
    <3> QED
      BY <1>m, <1>2, <3>1
  <2>6. ASSUME NEW i \in 0..((m - 1) - 1), i \in S PROVE i + 1 \in S
    <3>1. i + 2 \in 2..m /\ i + 2 \in 1..m /\ (i + 2) - 1 = i + 1
      BY <1>m
    <3>2. flatten[i + 2] = flatten[i + 1] \o seqs[i + 2] /\ seqs[i + 2] \in Seq(X)
      BY <1>m, <2>4, <3>1
    <3>3. Held(i + 1)
      BY <2>6
    <3>4. /\ flatten[i + 2] \in Seq(X)
          /\ ToSet(flatten[i + 2]) = ToSet(flatten[i + 1]) \cup ToSet(seqs[i + 2])
      BY <3>2, <3>3, AppendedElements
    <3>5. 1..(i + 2) = (1..(i + 1)) \cup {i + 2}
      BY <1>m
    <3>6. {ToSet(seqs[j]) : j \in 1..(i + 2)} = {ToSet(seqs[j]) : j \in 1..(i + 1)} \cup {ToSet(seqs[i + 2])}
      BY <3>5
    <3>7. Held(i + 2)
      BY <3>3, <3>4, <3>6
    <3>8. i + 1 \in 0..(m - 1) /\ (i + 1) + 1 = i + 2
      BY <1>m
    <3> QED
      BY <3>7, <3>8
  <2>7. m - 1 \in S
    <3>1. m - 1 \in Nat /\ m - 1 \in 0..(m - 1)
      BY <1>m, <1>2
    <3> HIDE DEF S, m
    <3> QED
      BY <3>1, <2>5, <2>6, UpTo
  <2>8. Held(m)
    BY <1>m, <1>2, <2>7
  <2> QED
    BY <1>m, <2>3, <2>8
<1> QED
  BY <1>m, <1>1, <1>2

-----------------------------------------------------------------------------
(* Disjunctions.  One whose true literals are T holds when some disjunct   *)
(* has no other; one is made of T when no disjunct has another.            *)
Literals == [leaf : LeafType, negated : BOOLEAN]
Disjunctions == Seq(Seq(Literals))
SomeTrue(D, T) == \E d \in ToSet(D) : ToSet(d) \subseteq T
MadeOf(D, T) == \A d \in ToSet(D) : ToSet(d) \subseteq T

LEMMA FunctionIsSeq ==
  ASSUME NEW n \in Nat, NEW X, NEW r \in [1..n -> X]
  PROVE  r \in Seq(X)
BY SeqDef

LEMMA CrossHolds ==
  ASSUME NEW D \in Disjunctions, NEW E \in Disjunctions
  PROVE  /\ Cross(D, E) \in Disjunctions
         /\ \A T : SomeTrue(Cross(D, E), T) <=> SomeTrue(D, T) /\ SomeTrue(E, T)
         /\ \A T : MadeOf(D, T) /\ MadeOf(E, T) => MadeOf(Cross(D, E), T)
<1> DEFINE X == Seq(Literals)
<1>x. /\ D \in Seq(X) /\ E \in Seq(X)
      /\ Len(D) \in Nat /\ DOMAIN D = 1..Len(D) /\ Len(E) \in Nat /\ DOMAIN E = 1..Len(E)
      /\ \A i \in DOMAIN D : D[i] \in X
      /\ \A i \in DOMAIN E : E[i] \in X
  BY DEF Disjunctions
<1> DEFINE row(i) == [j \in DOMAIN E |-> D[i] \o E[j]]
<1> DEFINE rows == [i \in DOMAIN D |-> row(i)]
<1>1. ASSUME NEW i \in DOMAIN D, NEW j \in DOMAIN E
      PROVE  D[i] \o E[j] \in X /\ ToSet(D[i] \o E[j]) = ToSet(D[i]) \cup ToSet(E[j])
  <2> DEFINE d == D[i]
  <2> DEFINE e == E[j]
  <2>1. d \in Seq(Literals) /\ e \in Seq(Literals)
    BY <1>x
  <2> HIDE DEF d, e
  <2>2. d \o e \in Seq(Literals) /\ ToSet(d \o e) = ToSet(d) \cup ToSet(e)
    BY <2>1, AppendedElements
  <2> QED
    BY <2>2 DEF d, e
<1>2. \A i \in DOMAIN D : row(i) \in Seq(X)
  <2> TAKE i \in DOMAIN D
  <2> DEFINE r == row(i)
  <2>1. r \in [1..Len(E) -> X]
    BY <1>x, <1>1
  <2> HIDE DEF r
  <2>2. r \in Seq(X)
    BY <1>x, <2>1, FunctionIsSeq
  <2> QED
    BY <2>2 DEF r
<1>3. rows \in Seq(Seq(X)) /\ DOMAIN rows = DOMAIN D /\ \A i \in DOMAIN D : rows[i] = row(i)
  <2>1. \A i \in DOMAIN D : rows[i] = row(i)
    OBVIOUS
  <2>2. rows \in [1..Len(D) -> Seq(X)]
    <3> HIDE DEF row
    <3> QED
      BY <1>x, <1>2
  <2>3. rows \in Seq(Seq(X))
    <3> HIDE DEF rows
    <3> QED
      BY <1>x, <2>2, FunctionIsSeq
  <2> QED
    BY <2>1, <2>3
<1>4. Cross(D, E) = FlattenSeq(rows)
  BY DEF Cross
<1> HIDE DEF rows, X
<1>5. Cross(D, E) \in Seq(X) /\ ToSet(Cross(D, E)) = UNION {ToSet(rows[i]) : i \in DOMAIN rows}
  BY <1>3, <1>4, FlattenHolds
<1>6. \A c : c \in ToSet(Cross(D, E)) <=> \E i \in DOMAIN D : \E j \in DOMAIN E : c = D[i] \o E[j]
  <2>1. \A i \in DOMAIN D :
          DOMAIN row(i) = DOMAIN E /\ \A j \in DOMAIN E : row(i)[j] = D[i] \o E[j]
    OBVIOUS
  <2> HIDE DEF row
  <2>2. ASSUME NEW i \in DOMAIN D, NEW c
        PROVE  c \in ToSet(rows[i]) <=> \E j \in DOMAIN E : c = D[i] \o E[j]
    <3>1. c \in ToSet(rows[i]) <=> \E j \in DOMAIN E : c = row(i)[j]
      BY <1>3, <2>1 DEF ToSet
    <3> QED
      BY <2>1, <3>1, Zenon
  <2>3. \A c : c \in ToSet(Cross(D, E)) <=> \E i \in DOMAIN D : c \in ToSet(rows[i])
    BY <1>3, <1>5
  <2>4. ASSUME NEW c \in ToSet(Cross(D, E))
        PROVE  \E i \in DOMAIN D : \E j \in DOMAIN E : c = D[i] \o E[j]
    <3>1. PICK i \in DOMAIN D : c \in ToSet(rows[i])
      BY <2>3, Zenon
    <3> QED
      BY <2>2, <3>1, Zenon
  <2>5. ASSUME NEW i \in DOMAIN D, NEW j \in DOMAIN E PROVE D[i] \o E[j] \in ToSet(Cross(D, E))
    BY <2>2, <2>3, Zenon
  <2> QED
    BY <2>4, <2>5, Zenon
<1>7. ASSUME NEW T PROVE SomeTrue(Cross(D, E), T) <=> SomeTrue(D, T) /\ SomeTrue(E, T)
  <2>1. SomeTrue(D, T) <=> \E i \in DOMAIN D : ToSet(D[i]) \subseteq T
    BY DEF SomeTrue, ToSet
  <2>2. SomeTrue(E, T) <=> \E j \in DOMAIN E : ToSet(E[j]) \subseteq T
    BY DEF SomeTrue, ToSet
  <2>3. SomeTrue(Cross(D, E), T) <=>
          \E i \in DOMAIN D : \E j \in DOMAIN E : ToSet(D[i] \o E[j]) \subseteq T
    BY <1>6 DEF SomeTrue
  <2>4. \A i \in DOMAIN D : \A j \in DOMAIN E :
          ToSet(D[i] \o E[j]) \subseteq T <=> ToSet(D[i]) \subseteq T /\ ToSet(E[j]) \subseteq T
    BY <1>1
  <2> QED
    BY <2>1, <2>2, <2>3, <2>4
<1>8. ASSUME NEW T, MadeOf(D, T), MadeOf(E, T) PROVE MadeOf(Cross(D, E), T)
  <2>1. \A i \in DOMAIN D : ToSet(D[i]) \subseteq T
    BY <1>8 DEF MadeOf, ToSet
  <2>2. \A j \in DOMAIN E : ToSet(E[j]) \subseteq T
    BY <1>8 DEF MadeOf, ToSet
  <2>3. \A i \in DOMAIN D : \A j \in DOMAIN E : ToSet(D[i] \o E[j]) \subseteq T
    BY <1>1, <2>1, <2>2
  <2> QED
    BY <1>6, <2>3 DEF MadeOf
<1> QED
  BY <1>5, <1>7, <1>8 DEF X, Disjunctions

LEMMA CrossedHolds ==
  ASSUME NEW parts \in Seq(Disjunctions)
  PROVE  /\ Crossed(parts) \in Disjunctions
         /\ \A T : SomeTrue(Crossed(parts), T) <=> \A i \in DOMAIN parts : SomeTrue(parts[i], T)
         /\ \A T : (\A i \in DOMAIN parts : MadeOf(parts[i], T)) => MadeOf(Crossed(parts), T)
<1> DEFINE m == Len(parts)
<1> DEFINE one == << <<>> >>
<1>m. m \in Nat /\ DOMAIN parts = 1..m /\ \A i \in 1..m : parts[i] \in Disjunctions
  OBVIOUS
<1> DEFINE Def(g) == g = [i \in 0..m |-> IF i = 0 THEN one ELSE Cross(g[i - 1], parts[i])]
<1> DEFINE crossed == CHOOSE g : Def(g)
<1>0. /\ one \in Disjunctions
      /\ \A T : SomeTrue(one, T) /\ MadeOf(one, T)
  <2>1. one \in Disjunctions
    BY DEF Disjunctions
  <2>2. DOMAIN one = {1} /\ one[1] = <<>>
    OBVIOUS
  <2>3. \A d \in ToSet(one) : d = <<>>
    BY <2>2 DEF ToSet
  <2>4. <<>> \in ToSet(one)
    BY <2>2 DEF ToSet
  <2>5. ToSet(<<>>) = {}
    BY DEF ToSet
  <2> HIDE DEF one
  <2> QED
    BY <2>1, <2>3, <2>4, <2>5 DEF SomeTrue, MadeOf
<1>1. \E g : Def(g)
  <2> DEFINE step == [i \in 1..m |-> [v \in Disjunctions |-> Cross(v, parts[i])]]
  <2>1. \A i \in 1..m : \A v \in Disjunctions :
          step[i][v] = Cross(v, parts[i]) /\ step[i][v] \in Disjunctions
    BY <1>m, CrossHolds
  <2> HIDE DEF step, one
  <2>2. CountSteps(m, Disjunctions, step)
    BY <2>1 DEF CountSteps
  <2>3. PICK f : CountFollows(f, m, Disjunctions, one, step)
    <3> HIDE DEF m
    <3> QED
      BY <1>m, <1>0, <2>2, CountRecursion
  <2>4. ASSUME NEW i \in 0..m PROVE f[i] = IF i = 0 THEN one ELSE Cross(f[i - 1], parts[i])
    <3>1. CASE i = 0
      BY <2>3, <3>1 DEF CountFollows
    <3>2. CASE i # 0
      <4>1. i \in 1..m /\ i - 1 \in 0..m
        BY <1>m, <3>2
      <4>2. f[i] = step[i][f[i - 1]] /\ f[i - 1] \in Disjunctions
        BY <2>3, <4>1 DEF CountFollows
      <4> QED
        BY <2>1, <3>2, <4>1, <4>2
    <3> QED
      BY <3>1, <3>2
  <2>5. f = [i \in 0..m |-> f[i]]
    BY <2>3 DEF CountFollows
  <2>6. Def(f)
    <3> HIDE DEF m
    <3> QED
      BY <2>4, <2>5
  <2> QED
    BY <2>6
<1>2. Def(crossed)
  BY <1>1
<1>3. Crossed(parts) = crossed[m]
  BY DEF Crossed
<1> HIDE DEF crossed, one
<1>4. crossed[0] = one
  <2>1. 0 \in 0..m
    BY <1>m
  <2> HIDE DEF m
  <2> QED
    BY <1>2, <2>1
<1>5. \A i \in 1..m : crossed[i] = Cross(crossed[i - 1], parts[i])
  <2>1. \A i \in 1..m : i \in 0..m /\ i # 0
    BY <1>m
  <2> HIDE DEF m
  <2> QED
    BY <1>2, <2>1
<1> DEFINE Held(n) ==
      /\ crossed[n] \in Disjunctions
      /\ \A T : SomeTrue(crossed[n], T) <=> \A i \in 1..n : SomeTrue(parts[i], T)
      /\ \A T : (\A i \in 1..n : MadeOf(parts[i], T)) => MadeOf(crossed[n], T)
<1> DEFINE S == {n \in 0..m : Held(n)}
<1>6. 0 \in S
  <2>1. Held(0)
    <3>1. \A i \in 1..0 : FALSE
      OBVIOUS
    <3> QED
      BY <1>0, <1>4, <3>1
  <2> QED
    BY <1>m, <2>1
<1>7. ASSUME NEW n \in 0..(m - 1), n \in S PROVE n + 1 \in S
  <2>1. n + 1 \in 1..m /\ n + 1 \in 0..m /\ (n + 1) - 1 = n
    BY <1>m
  <2>2. crossed[n + 1] = Cross(crossed[n], parts[n + 1]) /\ parts[n + 1] \in Disjunctions
    BY <1>5, <1>m, <2>1
  <2>3. Held(n)
    BY <1>7
  <2>4. \A i : i \in 1..(n + 1) <=> i \in 1..n \/ i = n + 1
    BY <1>m
  <2> DEFINE c == crossed[n]
  <2> DEFINE p == parts[n + 1]
  <2>5. c \in Disjunctions /\ p \in Disjunctions
    BY <2>2, <2>3
  <2> HIDE DEF c, p
  <2>6. /\ Cross(c, p) \in Disjunctions
        /\ \A T : SomeTrue(Cross(c, p), T) <=> SomeTrue(c, T) /\ SomeTrue(p, T)
        /\ \A T : MadeOf(c, T) /\ MadeOf(p, T) => MadeOf(Cross(c, p), T)
    BY <2>5, CrossHolds
  <2>7. /\ \A T : SomeTrue(c, T) <=> \A i \in 1..n : SomeTrue(parts[i], T)
        /\ \A T : (\A i \in 1..n : MadeOf(parts[i], T)) => MadeOf(c, T)
    BY <2>3 DEF c
  <2>8. crossed[n + 1] = Cross(c, p)
    BY <2>2 DEF c, p
  <2>9. \A T : SomeTrue(crossed[n + 1], T) <=> \A i \in 1..(n + 1) : SomeTrue(parts[i], T)
    BY <2>4, <2>6, <2>7, <2>8 DEF p
  <2>10. \A T : (\A i \in 1..(n + 1) : MadeOf(parts[i], T)) => MadeOf(crossed[n + 1], T)
    BY <2>4, <2>6, <2>7, <2>8 DEF p
  <2> QED
    BY <2>1, <2>6, <2>8, <2>9, <2>10
<1>8. Held(m)
  <2>1. m \in S
    <3>1. m \in 0..m
      BY <1>m
    <3> HIDE DEF S, m
    <3> QED
      BY <1>m, <1>6, <1>7, <3>1, UpTo
  <2> QED
    BY <2>1
<1> QED
  <2> HIDE DEF m
  <2> QED
    BY <1>m, <1>3, <1>8

-----------------------------------------------------------------------------
(* What the recursive functions of conditions are of each condition.       *)
LeavesAt(n, f) == IF n.node = "leaf" THEN {n} ELSE UNION {f[k] : k \in Children(n)}

LEMMA LeavesHold ==
  ASSUME NEW n \in Conditions
  PROVE  Leaves[n] = LeavesAt(n, Leaves)
<1> DEFINE V == SUBSET LeafType
<1> DEFINE step == [c \in Conditions |-> [g \in [Children(c) -> V] |-> LeavesAt(c, g)]]
<1>1. TreeSteps(V, step)
  <2>1. ASSUME NEW c \in Conditions, NEW g \in [Children(c) -> V]
        PROVE  step[c][g] = LeavesAt(c, g) /\ LeavesAt(c, g) \in V
    <3>1. step[c][g] = LeavesAt(c, g)
      OBVIOUS
    <3>2. LeavesAt(c, g) \in V
      BY ChildrenOfConditions DEF LeavesAt
    <3> QED
      BY <3>1, <3>2
  <2> HIDE DEF step, V
  <2> QED
    BY <2>1 DEF TreeSteps
<1>2. \A c \in Conditions : \A g \in [Children(c) -> V] : step[c][g] = LeavesAt(c, g)
  OBVIOUS
<1> HIDE DEF step, V
<1>3. PICK f : TreeFollows(f, V, step)
  BY <1>1, TreeRecursion
<1>4. ASSUME NEW c \in Conditions PROVE f[c] = LeavesAt(c, f)
  <2> DEFINE part == [k \in Children(c) |-> f[k]]
  <2>1. part \in [Children(c) -> V]
    BY <1>3, ChildrenOfConditions DEF TreeFollows
  <2>2. f[c] = step[c][part]
    BY <1>3 DEF TreeFollows
  <2>3. LeavesAt(c, part) = LeavesAt(c, f)
    BY DEF LeavesAt
  <2> QED
    BY <1>2, <2>1, <2>2, <2>3
<1>5. f = [c \in Conditions |-> LeavesAt(c, f)]
  <2>1. f = [c \in Conditions |-> f[c]]
    BY <1>3 DEF TreeFollows
  <2> QED
    BY <1>4, <2>1
<1>6. Leaves = [c \in Conditions |-> LeavesAt(c, Leaves)]
  <2>1. \E g : g = [c \in Conditions |-> LeavesAt(c, g)]
    BY <1>5
  <2> QED
    BY <2>1 DEF Leaves, LeavesAt
<1> QED
  BY <1>6

DnfAt(n, negated, f) ==
  IF n.node = "leaf" THEN << <<[leaf |-> n, negated |-> negated]>> >>
  ELSE IF n.node = "not" THEN f[n.of[1]][~ negated]
  ELSE LET parts == [i \in DOMAIN n.of |-> f[n.of[i]][negated]] IN
       IF Conjunctive(n, negated) THEN Crossed(parts) ELSE FlattenSeq(parts)

LEMMA FlattenDisjunctions ==
  ASSUME NEW parts \in Seq(Disjunctions)
  PROVE  /\ FlattenSeq(parts) \in Disjunctions
         /\ \A T : SomeTrue(FlattenSeq(parts), T) <=> \E i \in DOMAIN parts : SomeTrue(parts[i], T)
         /\ \A T : (\A i \in DOMAIN parts : MadeOf(parts[i], T)) => MadeOf(FlattenSeq(parts), T)
<1> DEFINE X == Seq(Literals)
<1> HIDE DEF X
<1>1. parts \in Seq(Seq(X))
  BY DEF X, Disjunctions
<1>2. /\ FlattenSeq(parts) \in Seq(X)
      /\ ToSet(FlattenSeq(parts)) = UNION {ToSet(parts[i]) : i \in DOMAIN parts}
  BY <1>1, FlattenHolds
<1>3. \A d : d \in ToSet(FlattenSeq(parts)) <=> \E i \in DOMAIN parts : d \in ToSet(parts[i])
  BY <1>2
<1> QED
  BY <1>2, <1>3 DEF SomeTrue, MadeOf, X, Disjunctions

LEMMA DnfAtType ==
  ASSUME NEW n \in Conditions, NEW f \in [Children(n) -> [BOOLEAN -> Disjunctions]],
         NEW negated \in BOOLEAN
  PROVE  /\ DnfAt(n, negated, f) \in Disjunctions
         /\ n.node \in {"all", "any"} =>
              [i \in DOMAIN n.of |-> f[n.of[i]][negated]] \in Seq(Disjunctions)
<1>1. CASE n.node = "leaf"
  <2>1. [leaf |-> n, negated |-> negated] \in Literals
    BY <1>1, ChildrenOfConditions DEF Literals
  <2> DEFINE l == [leaf |-> n, negated |-> negated]
  <2>2. << <<l>> >> \in Seq(Seq(Literals))
    <3> HIDE DEF l
    <3>1. l \in Literals
      BY <2>1 DEF l
    <3> QED
      BY <3>1
  <2> QED
    BY <1>1, <2>2 DEF DnfAt, Disjunctions
<1>2. CASE n.node = "not"
  <2>1. n.of[1] \in Children(n) /\ (~ negated) \in BOOLEAN
    BY <1>2, ChildrenOfConditions
  <2>2. f[n.of[1]][~ negated] \in Disjunctions
    BY <2>1
  <2> QED
    BY <1>2, <2>2 DEF DnfAt
<1>3. CASE n.node \in {"all", "any"}
  <2> DEFINE parts == [i \in DOMAIN n.of |-> f[n.of[i]][negated]]
  <2>1. n.of \in Seq(Conditions) /\ Children(n) = ToSet(n.of)
    BY <1>3, ChildrenOfConditions
  <2>2. Len(n.of) \in Nat /\ DOMAIN n.of = 1..Len(n.of)
    BY <2>1
  <2>3. \A i \in DOMAIN n.of : n.of[i] \in Children(n)
    BY <2>1 DEF ToSet
  <2>4. \A i \in DOMAIN n.of : parts[i] \in Disjunctions
    BY <2>3
  <2>5. parts \in [1..Len(n.of) -> Disjunctions]
    BY <2>2, <2>4
  <2> HIDE DEF parts
  <2>6. parts \in Seq(Disjunctions)
    BY <2>2, <2>5, FunctionIsSeq
  <2>7. Crossed(parts) \in Disjunctions /\ FlattenSeq(parts) \in Disjunctions
    BY <2>6, CrossedHolds, FlattenDisjunctions
  <2>8. DnfAt(n, negated, f) = IF Conjunctive(n, negated) THEN Crossed(parts) ELSE FlattenSeq(parts)
    BY <1>3 DEF DnfAt, parts
  <2> QED
    BY <2>6, <2>7, <2>8 DEF parts
<1> QED
  BY <1>1, <1>2, <1>3, ChildrenOfConditions

LEMMA DnfAtParts ==
  ASSUME NEW c \in Conditions, NEW f, NEW g, \A k \in Children(c) : f[k] = g[k],
         NEW negated \in BOOLEAN
  PROVE  DnfAt(c, negated, f) = DnfAt(c, negated, g)
<1>1. CASE c.node = "leaf"
  BY <1>1 DEF DnfAt
<1>2. CASE c.node = "not"
  <2>1. c.of[1] \in Children(c)
    BY <1>2, ChildrenOfConditions
  <2> QED
    BY <1>2, <2>1 DEF DnfAt
<1>3. CASE c.node \in {"all", "any"}
  <2>1. c.of \in Seq(Conditions) /\ Children(c) = ToSet(c.of)
    BY <1>3, ChildrenOfConditions
  <2>2. \A i \in DOMAIN c.of : c.of[i] \in Children(c)
    BY <2>1 DEF ToSet
  <2>3. [i \in DOMAIN c.of |-> f[c.of[i]][negated]] = [i \in DOMAIN c.of |-> g[c.of[i]][negated]]
    BY <2>2
  <2> QED
    BY <1>3, <2>3 DEF DnfAt
<1> QED
  BY <1>1, <1>2, <1>3, ChildrenOfConditions

LEMMA DnfHolds ==
  /\ Dnf \in [Conditions -> [BOOLEAN -> Disjunctions]]
  /\ \A n \in Conditions : \A negated \in BOOLEAN : Dnf[n][negated] = DnfAt(n, negated, Dnf)
<1> DEFINE V == [BOOLEAN -> Disjunctions]
<1> DEFINE at(c, g) == [negated \in BOOLEAN |-> DnfAt(c, negated, g)]
<1> DEFINE step == [c \in Conditions |-> [g \in [Children(c) -> V] |-> at(c, g)]]
<1>1. ASSUME NEW c \in Conditions, NEW g \in [Children(c) -> V]
      PROVE  step[c][g] = at(c, g) /\ at(c, g) \in V
  <2>1. step[c][g] = at(c, g)
    OBVIOUS
  <2>2. at(c, g) \in V
    BY DnfAtType
  <2> QED
    BY <2>1, <2>2
<1>2. TreeSteps(V, step)
  <2> HIDE DEF step, V, at
  <2> QED
    BY <1>1 DEF TreeSteps
<1>3. PICK f : TreeFollows(f, V, step)
  <2> HIDE DEF step, V
  <2> QED
    BY <1>2, TreeRecursion
<1>4. ASSUME NEW c \in Conditions PROVE f[c] = at(c, f)
  <2> DEFINE part == [k \in Children(c) |-> f[k]]
  <2>1. part \in [Children(c) -> V]
    <3> HIDE DEF V
    <3> QED
      BY <1>3, ChildrenOfConditions DEF TreeFollows
  <2>2. f[c] = step[c][part]
    <3> HIDE DEF V, step
    <3> QED
      BY <1>3 DEF TreeFollows
  <2>3. \A negated \in BOOLEAN : DnfAt(c, negated, part) = DnfAt(c, negated, f)
    <3>1. \A k \in Children(c) : part[k] = f[k]
      OBVIOUS
    <3> HIDE DEF part
    <3> QED
      BY <3>1, DnfAtParts
  <2>4. at(c, part) = at(c, f)
    BY <2>3
  <2> HIDE DEF at, step, part, V
  <2> QED
    BY <1>1, <2>1, <2>2, <2>4
<1>5. f = [c \in Conditions |-> at(c, f)]
  <2>1. f = [c \in Conditions |-> f[c]]
    BY <1>3 DEF TreeFollows
  <2> HIDE DEF at
  <2> QED
    BY <1>4, <2>1
<1>6. Dnf = [c \in Conditions |-> at(c, Dnf)]
  <2>1. \E g : g = [c \in Conditions |-> at(c, g)]
    <3> HIDE DEF at
    <3> QED
      BY <1>5
  <2> QED
    BY <2>1 DEF Dnf, DnfAt
<1>7. \A c \in Conditions : Dnf[c] = at(c, Dnf)
  <2> HIDE DEF at
  <2> QED
    BY <1>6
<1>8. Conditions \subseteq {c \in Conditions : Dnf[c] \in V}
  <2> DEFINE P == {c \in Conditions : Dnf[c] \in V}
  <2>1. ASSUME NEW c \in Conditions, Children(c) \subseteq P PROVE c \in P
    <3> DEFINE part == [k \in Children(c) |-> Dnf[k]]
    <3>1. part \in [Children(c) -> V]
      <4> HIDE DEF V
      <4> QED
        BY <2>1
    <3>2. \A k \in Children(c) : part[k] = Dnf[k]
      OBVIOUS
    <3> HIDE DEF part
    <3>3. \A negated \in BOOLEAN :
            DnfAt(c, negated, part) = DnfAt(c, negated, Dnf) /\ DnfAt(c, negated, part) \in Disjunctions
      BY <3>1, <3>2, DnfAtParts, DnfAtType
    <3>4. at(c, Dnf) \in V
      BY <3>3
    <3> HIDE DEF at, V
    <3> QED
      BY <1>7, <3>4
  <2> HIDE DEF P
  <2>2. Conditions \subseteq P
    BY <2>1, TreeInduction
  <2> QED
    BY <2>2 DEF P
<1>9. Dnf = [c \in Conditions |-> Dnf[c]]
  <2> HIDE DEF at
  <2>1. DOMAIN Dnf = Conditions
    BY <1>6
  <2> QED
    BY <1>6
<1>10. Dnf \in [Conditions -> V]
  <2> HIDE DEF V
  <2> QED
    BY <1>8, <1>9
<1> QED
  BY <1>7, <1>10

-----------------------------------------------------------------------------
(* The normal form is faithful: it holds where the condition does, and it  *)
(* is made of the leaves of the condition.                                 *)
HoldsAt(n, input, f) ==
  IF n.node = "leaf" THEN LeafHolds(n, input)
  ELSE IF n.node = "not" THEN ~ f[n.of[1]]
  ELSE IF n.node = "all" THEN \A k \in Children(n) : f[k]
  ELSE \E k \in Children(n) : f[k]

LEMMA HoldsIsRead ==
  ASSUME NEW input
  PROVE  \E h : \A n \in Conditions :
           h[n] \in BOOLEAN /\ h[n] = HoldsAt(n, input, h) /\ Holds(n, input) = h[n]
<1> DEFINE step == [c \in Conditions |-> [g \in [Children(c) -> BOOLEAN] |-> HoldsAt(c, input, g)]]
<1>0. \A c \in Conditions : \A g : HoldsAt(c, input, g) \in BOOLEAN
  BY DEF HoldsAt, LeafHolds
<1>1. \A c \in Conditions : \A g \in [Children(c) -> BOOLEAN] : step[c][g] = HoldsAt(c, input, g)
  OBVIOUS
<1> HIDE DEF step
<1>2. TreeSteps(BOOLEAN, step)
  BY <1>0, <1>1 DEF TreeSteps
<1>3. PICK f : TreeFollows(f, BOOLEAN, step)
  BY <1>2, TreeRecursion
<1>4. ASSUME NEW c \in Conditions PROVE f[c] = HoldsAt(c, input, f)
  <2> DEFINE part == [k \in Children(c) |-> f[k]]
  <2>1. part \in [Children(c) -> BOOLEAN] /\ \A k \in Children(c) : part[k] = f[k]
    BY <1>3, ChildrenOfConditions DEF TreeFollows
  <2>2. f[c] = step[c][part]
    BY <1>3 DEF TreeFollows
  <2> HIDE DEF part
  <2>3. HoldsAt(c, input, part) = HoldsAt(c, input, f)
    <3>1. CASE c.node \in {"leaf", "not"}
      BY <2>1, <3>1, ChildrenOfConditions DEF HoldsAt
    <3>2. CASE c.node \notin {"leaf", "not"}
      BY <2>1, <3>2, ChildrenOfConditions DEF HoldsAt
    <3> QED
      BY <3>1, <3>2
  <2> QED
    BY <1>1, <2>1, <2>2, <2>3
<1>5. f = [c \in Conditions |-> HoldsAt(c, input, f)]
  <2>1. f = [c \in Conditions |-> f[c]]
    BY <1>3 DEF TreeFollows
  <2> QED
    BY <1>4, <2>1
<1> DEFINE Def(g) == g = [c \in Conditions |-> HoldsAt(c, input, g)]
<1> DEFINE h == CHOOSE g : Def(g)
<1>6. Def(h)
  <2>1. \E g : Def(g)
    BY <1>5
  <2> QED
    BY <2>1
<1>7. \A n \in Conditions : Holds(n, input) = h[n]
  BY DEF Holds, HoldsAt
<1> HIDE DEF h
<1>8. \A n \in Conditions : h[n] = HoldsAt(n, input, h)
  BY <1>6
<1> QED
  BY <1>0, <1>7, <1>8

TrueLiterals(h) == {l \in Literals : l.leaf \in Conditions /\ h[l.leaf] # l.negated}

LEMMA DnfFaithful ==
  ASSUME NEW input, NEW h,
         \A n \in Conditions : h[n] \in BOOLEAN /\ h[n] = HoldsAt(n, input, h),
         NEW when \in Conditions, NEW negated \in BOOLEAN
  PROVE  SomeTrue(Dnf[when][negated], TrueLiterals(h)) <=> (h[when] # negated)
<1> DEFINE T == TrueLiterals(h)
<1> DEFINE Faithful(n) == \A neg \in BOOLEAN : SomeTrue(Dnf[n][neg], T) <=> (h[n] # neg)
<1> DEFINE P == {n \in Conditions : Faithful(n)}
<1>1. ASSUME NEW n \in Conditions, Children(n) \subseteq P, NEW neg \in BOOLEAN
      PROVE  SomeTrue(Dnf[n][neg], T) <=> (h[n] # neg)
  <2>d. Dnf[n][neg] = DnfAt(n, neg, Dnf)
    BY DnfHolds
  <2>c. \A k \in Children(n) : k \in Conditions /\ Faithful(k)
    BY <1>1
  <2>h. h[n] = HoldsAt(n, input, h) /\ h[n] \in BOOLEAN
    OBVIOUS
  <2>k. \A k \in Children(n) : h[k] \in BOOLEAN
    BY <2>c
  <2>1. CASE n.node = "leaf"
    <3> DEFINE l == [leaf |-> n, negated |-> neg]
    <3> DEFINE D == << <<l>> >>
    <3>1. Dnf[n][neg] = D
      BY <2>d, <2>1 DEF DnfAt
    <3>2. n \in LeafType /\ l \in Literals /\ l.leaf = n /\ l.negated = neg
      BY <2>1, ChildrenOfConditions DEF Literals
    <3> HIDE DEF l
    <3>3. DOMAIN D = {1} /\ D[1] = <<l>>
      OBVIOUS
    <3>4. ToSet(<<l>>) = {l}
      BY DEF ToSet
    <3> HIDE DEF D
    <3>5. ToSet(D) = {<<l>>}
      BY <3>3 DEF ToSet
    <3>6. SomeTrue(D, T) <=> l \in T
      BY <3>4, <3>5 DEF SomeTrue
    <3>7. l \in T <=> h[n] # neg
      BY <3>2 DEF TrueLiterals
    <3> QED
      BY <3>1, <3>6, <3>7
  <2>2. CASE n.node = "not"
    <3>1. n.of[1] \in Children(n)
      BY <2>2, ChildrenOfConditions
    <3>2. Dnf[n][neg] = Dnf[n.of[1]][~ neg]
      BY <2>d, <2>2 DEF DnfAt
    <3>3. h[n] = ~ h[n.of[1]]
      BY <2>h, <2>2 DEF HoldsAt
    <3>4. SomeTrue(Dnf[n.of[1]][~ neg], T) <=> (h[n.of[1]] # ~ neg)
      <4>1. (~ neg) \in BOOLEAN
        OBVIOUS
      <4> HIDE DEF T
      <4> QED
        BY <2>c, <3>1, <4>1
    <3>5. h[n.of[1]] \in BOOLEAN
      BY <2>k, <3>1
    <3> QED
      BY <2>h, <3>2, <3>3, <3>4, <3>5
  <2>3. CASE n.node \in {"all", "any"}
    <3> DEFINE parts == [i \in DOMAIN n.of |-> Dnf[n.of[i]][neg]]
    <3>1. n.of \in Seq(Conditions) /\ Children(n) = ToSet(n.of)
      BY <2>3, ChildrenOfConditions
    <3>2. parts \in Seq(Disjunctions)
      <4> DEFINE part == [k \in Children(n) |-> Dnf[k]]
      <4>1. part \in [Children(n) -> [BOOLEAN -> Disjunctions]]
        BY ChildrenOfConditions, DnfHolds
      <4>2. \A i \in DOMAIN n.of : n.of[i] \in Children(n)
        BY <3>1 DEF ToSet
      <4>3. parts = [i \in DOMAIN n.of |-> part[n.of[i]][neg]]
        BY <4>2
      <4> HIDE DEF part, parts
      <4> QED
        BY <2>3, <4>1, <4>3, DnfAtType
    <3>3. Dnf[n][neg] = IF Conjunctive(n, neg) THEN Crossed(parts) ELSE FlattenSeq(parts)
      BY <2>d, <2>3 DEF DnfAt
    <3>4. DOMAIN parts = DOMAIN n.of /\ \A i \in DOMAIN n.of : parts[i] = Dnf[n.of[i]][neg]
      OBVIOUS
    <3> HIDE DEF parts, T
    <3>5. \A i \in DOMAIN n.of : SomeTrue(parts[i], T) <=> (h[n.of[i]] # neg)
      BY <2>c, <3>1, <3>4 DEF ToSet
    <3>6. \A i \in DOMAIN n.of : h[n.of[i]] \in BOOLEAN
      BY <2>k, <3>1 DEF ToSet
    <3>a. (\A k \in Children(n) : h[k]) <=> \A i \in DOMAIN n.of : h[n.of[i]]
      BY <3>1 DEF ToSet
    <3>e. (\E k \in Children(n) : h[k]) <=> \E i \in DOMAIN n.of : h[n.of[i]]
      BY <3>1 DEF ToSet
    <3>7. SomeTrue(Crossed(parts), T) <=> \A i \in DOMAIN n.of : SomeTrue(parts[i], T)
      BY <3>2, <3>4, CrossedHolds
    <3>8. SomeTrue(FlattenSeq(parts), T) <=> \E i \in DOMAIN n.of : SomeTrue(parts[i], T)
      BY <3>2, <3>4, FlattenDisjunctions
    <3>9. CASE n.node = "all"
      <4>1. h[n] <=> \A i \in DOMAIN n.of : h[n.of[i]]
        BY <2>h, <3>9, <3>a DEF HoldsAt
      <4>2. Conjunctive(n, neg) <=> ~ neg
        BY <3>9 DEF Conjunctive
      <4>3. CASE neg
        BY <2>h, <3>3, <3>5, <3>6, <3>8, <4>1, <4>2, <4>3
      <4>4. CASE ~ neg
        BY <2>h, <3>3, <3>5, <3>6, <3>7, <4>1, <4>2, <4>4
      <4> QED
        BY <4>3, <4>4
    <3>10. CASE n.node = "any"
      <4>1. h[n] <=> \E i \in DOMAIN n.of : h[n.of[i]]
        BY <2>h, <3>10, <3>e DEF HoldsAt
      <4>2. Conjunctive(n, neg) <=> neg
        BY <3>10 DEF Conjunctive
      <4>3. CASE neg
        BY <2>h, <3>3, <3>5, <3>6, <3>7, <4>1, <4>2, <4>3
      <4>4. CASE ~ neg
        BY <2>h, <3>3, <3>5, <3>6, <3>8, <4>1, <4>2, <4>4
      <4> QED
        BY <4>3, <4>4
    <3> QED
      BY <2>3, <3>9, <3>10
  <2> QED
    BY <2>1, <2>2, <2>3, ChildrenOfConditions
<1>2. \A n \in Conditions : Children(n) \subseteq P => n \in P
  <2> HIDE DEF T
  <2> QED
    BY <1>1
<1>3. Conditions \subseteq P
  <2> HIDE DEF P
  <2> QED
    BY <1>2, TreeInduction
<1>4. Faithful(when)
  <2> HIDE DEF T
  <2> QED
    BY <1>3
<1> QED
  BY <1>4

LEMMA DnfOfLeaves ==
  ASSUME NEW when \in Conditions, NEW negated \in BOOLEAN
  PROVE  MadeOf(Dnf[when][negated], {l \in Literals : l.leaf \in Leaves[when]})
<1> DEFINE Own(n) == {l \in Literals : l.leaf \in Leaves[n]}
<1> DEFINE Made(n) == \A neg \in BOOLEAN : MadeOf(Dnf[n][neg], Own(n))
<1> DEFINE P == {n \in Conditions : Made(n)}
<1>1. ASSUME NEW n \in Conditions, Children(n) \subseteq P, NEW neg \in BOOLEAN
      PROVE  MadeOf(Dnf[n][neg], Own(n))
  <2>d. Dnf[n][neg] = DnfAt(n, neg, Dnf)
    BY DnfHolds
  <2>c. \A k \in Children(n) : Made(k)
    BY <1>1
  <2>l. n.node # "leaf" => \A k \in Children(n) : Own(k) \subseteq Own(n)
    BY LeavesHold DEF LeavesAt
  <2>1. CASE n.node = "leaf"
    <3> DEFINE l == [leaf |-> n, negated |-> neg]
    <3> DEFINE D == << <<l>> >>
    <3>1. Dnf[n][neg] = D
      BY <2>d, <2>1 DEF DnfAt
    <3>2. l \in Own(n)
      BY <2>1, LeavesHold, ChildrenOfConditions DEF LeavesAt, Literals
    <3> HIDE DEF l
    <3>3. DOMAIN D = {1} /\ D[1] = <<l>>
      OBVIOUS
    <3>4. ToSet(<<l>>) = {l}
      BY DEF ToSet
    <3> HIDE DEF D, Own
    <3>5. ToSet(D) = {<<l>>}
      BY <3>3 DEF ToSet
    <3>6. MadeOf(D, Own(n))
      BY <3>2, <3>4, <3>5 DEF MadeOf
    <3> QED
      BY <3>1, <3>6
  <2>2. CASE n.node = "not"
    <3>1. n.of[1] \in Children(n)
      BY <2>2, ChildrenOfConditions
    <3>2. Dnf[n][neg] = Dnf[n.of[1]][~ neg] /\ (~ neg) \in BOOLEAN
      BY <2>d, <2>2 DEF DnfAt
    <3> HIDE DEF Own
    <3>3. MadeOf(Dnf[n.of[1]][~ neg], Own(n.of[1]))
      BY <2>c, <3>1, <3>2
    <3>4. Own(n.of[1]) \subseteq Own(n)
      BY <2>l, <2>2, <3>1
    <3> QED
      BY <3>2, <3>3, <3>4 DEF MadeOf
  <2>3. CASE n.node \in {"all", "any"}
    <3> DEFINE parts == [i \in DOMAIN n.of |-> Dnf[n.of[i]][neg]]
    <3>1. n.of \in Seq(Conditions) /\ Children(n) = ToSet(n.of)
      BY <2>3, ChildrenOfConditions
    <3>2. parts \in Seq(Disjunctions)
      <4> DEFINE part == [k \in Children(n) |-> Dnf[k]]
      <4>1. part \in [Children(n) -> [BOOLEAN -> Disjunctions]]
        BY ChildrenOfConditions, DnfHolds
      <4>2. \A i \in DOMAIN n.of : n.of[i] \in Children(n)
        BY <3>1 DEF ToSet
      <4>3. parts = [i \in DOMAIN n.of |-> part[n.of[i]][neg]]
        BY <4>2
      <4> HIDE DEF part, parts
      <4> QED
        BY <2>3, <4>1, <4>3, DnfAtType
    <3>3. Dnf[n][neg] = IF Conjunctive(n, neg) THEN Crossed(parts) ELSE FlattenSeq(parts)
      BY <2>d, <2>3 DEF DnfAt
    <3>4. DOMAIN parts = DOMAIN n.of /\ \A i \in DOMAIN n.of : parts[i] = Dnf[n.of[i]][neg]
      OBVIOUS
    <3> HIDE DEF parts, Own
    <3>5. \A i \in DOMAIN n.of : n.of[i] \in Children(n)
      BY <3>1 DEF ToSet
    <3>6. \A i \in DOMAIN parts : MadeOf(parts[i], Own(n))
      <4> TAKE i \in DOMAIN parts
      <4>1. MadeOf(parts[i], Own(n.of[i])) /\ Own(n.of[i]) \subseteq Own(n)
        BY <2>c, <2>l, <2>3, <3>4, <3>5
      <4> QED
        BY <4>1 DEF MadeOf
    <3>7. MadeOf(Crossed(parts), Own(n)) /\ MadeOf(FlattenSeq(parts), Own(n))
      BY <3>2, <3>6, CrossedHolds, FlattenDisjunctions
    <3> QED
      BY <3>3, <3>7
  <2> QED
    BY <2>1, <2>2, <2>3, ChildrenOfConditions
<1>2. \A n \in Conditions : Children(n) \subseteq P => n \in P
  <2> HIDE DEF Own
  <2> QED
    BY <1>1
<1>3. Conditions \subseteq P
  <2> HIDE DEF P
  <2> QED
    BY <1>2, TreeInduction
<1> QED
  BY <1>3

-----------------------------------------------------------------------------
(* Every field a condition may read, in an action that has it, is in the   *)
(* document the action is judged by, with a value of its type.             *)
HasType(v, type) == \E x : v = Value(type, x) /\ (type = "str" => \E y : x = {y})

LEMMA FieldTypes ==
  \A f \in FieldNames : PolicyInputFields[f].type \in {"str", "bool", "list"}
<1> SUFFICES ASSUME NEW f \in FieldNames
             PROVE  PolicyInputFields[f].type \in {"str", "bool", "list"}
  OBVIOUS
<1>1. \A t, s : Field(t, s).type = t /\ Field(t, s).scope = s
  BY DEF Field
<1>2. CASE f \in CommonFields
  BY <1>1, <1>2 DEF PolicyInputFields, CommonFields, FieldNames
<1>3. CASE f \notin CommonFields
  BY <1>1, <1>3 DEF PolicyInputFields, CommonFields, FieldNames
<1> QED
  BY <1>2, <1>3

LEMMA InputFields ==
  ASSUME NEW a, a.type \in ActionType, NEW enrichment, NEW refs,
         NEW f \in FieldNames, a.type \in PolicyInputFields[f].scope
  PROVE  LET input == BuildPolicyInput(a, enrichment, refs) IN
         f \in DOMAIN input /\ HasType(input[f], PolicyInputFields[f].type)
<1> DEFINE input == BuildPolicyInput(a, enrichment, refs)
<1>t. \A t, s : Field(t, s).type = t /\ Field(t, s).scope = s
  BY DEF Field
<1>s. \A x : HasType(Str(x), "str")
  BY DEF HasType, Str
<1>b. \A b : HasType(Truth(b), "bool")
  BY DEF HasType, Truth
<1>l. HasType(Value("list", refs), "list")
  BY DEF HasType
<1>0. DOMAIN input = CommonFields \cup PayloadFields(a.type)
  BY DEF BuildPolicyInput
<1>1. CASE f \in {"type", "target", "intent.class"}
  <2>1. PolicyInputFields[f].type = "str" /\ f \in CommonFields
    BY <1>1, <1>t DEF PolicyInputFields, CommonFields
  <2>2. input[f] \in {Str(a.type), Str(a.target), Str(enrichment.intent)}
    BY <1>1, <2>1 DEF BuildPolicyInput
  <2> QED
    BY <1>0, <1>s, <2>1, <2>2
<1>2. CASE f \in {"guardrails.pii", "guardrails.unsafe", "guardrails.format"}
  <2>1. PolicyInputFields[f].type = "bool" /\ f \in CommonFields
    BY <1>2, <1>t DEF PolicyInputFields, CommonFields
  <2>2. \E b : input[f] = Truth(b)
    BY <1>2, <2>1 DEF BuildPolicyInput
  <2> QED
    BY <1>0, <1>b, <2>1, <2>2
<1>3. CASE f = "sequence.matched_refs"
  <2>1. PolicyInputFields[f].type = "list" /\ f \in CommonFields
    BY <1>3, <1>t DEF PolicyInputFields, CommonFields
  <2>2. input[f] = Value("list", refs)
    BY <1>3, <2>1 DEF BuildPolicyInput
  <2> QED
    BY <1>0, <1>l, <2>1, <2>2
<1>4. CASE f \in FieldNames \ CommonFields
  <2>1. PolicyInputFields[f].type = "str"
    BY <1>4, <1>t DEF PolicyInputFields, CommonFields, FieldNames
  <2>2. f \in PayloadFields(a.type)
    <3>1. CASE f = "egress.host"
      BY <3>1, <1>t DEF PolicyInputFields, PayloadFields
    <3>2. CASE f \in {"memory.operation", "memory.key"}
      BY <3>2, <1>t DEF PolicyInputFields, PayloadFields
    <3>3. CASE f \in {"mcp.server", "mcp.tool"}
      BY <3>3, <1>t DEF PolicyInputFields, PayloadFields
    <3>4. CASE f = "delegation.to_agent"
      BY <3>4, <1>t DEF PolicyInputFields, PayloadFields
    <3>5. CASE f = "model.name"
      BY <3>5, <1>t DEF PolicyInputFields, PayloadFields
    <3> QED
      BY <1>4, <3>1, <3>2, <3>3, <3>4, <3>5 DEF FieldNames, CommonFields
  <2>3. input[f] \in {Str(Host(Url(a))), Str(Says(a, KeyOf(f)))}
    BY <1>4, <2>2 DEF BuildPolicyInput, CommonFields
  <2> QED
    BY <1>0, <1>s, <2>1, <2>2, <2>3
<1> QED
  BY <1>1, <1>2, <1>3, <1>4 DEF FieldNames, CommonFields

LEMMA InputOfAction ==
  ASSUME NEW a, NEW enrichment, NEW refs
  PROVE  LET input == BuildPolicyInput(a, enrichment, refs) IN
         /\ input["type"] = Str(a.type)
         /\ input["intent.class"] = Str(enrichment.intent)
         /\ input["sequence.matched_refs"] = Value("list", refs)
BY DEF BuildPolicyInput, CommonFields

(* One line of a rule holds where the leaf it was lowered from does.       *)
ListsOf(c) == [name \in DOMAIN c.lists |-> ToSet(c.lists[name])]

LEMMA LineIsLeaf ==
  ASSUME NEW leaf \in LeafType, LeafOK(leaf), NEW input,
         leaf.field \in DOMAIN input,
         HasType(input[leaf.field], PolicyInputFields[leaf.field].type),
         leaf.list \in DOMAIN document.lists \cup {NoList},
         NEW negated \in BOOLEAN
  PROVE  LineHolds(Lower([leaf |-> leaf, negated |-> negated]), input, ListsOf(document))
           <=> (LeafHolds(leaf, input) # negated)
<1> DEFINE x == input[leaf.field]
<1> DEFINE type == PolicyInputFields[leaf.field].type
<1> DEFINE v == IF leaf.list = NoList THEN leaf.value
                ELSE Value("list", ToSet(document.lists[leaf.list]))
<1> DEFINE literal == [leaf |-> leaf, negated |-> negated]
<1> DEFINE line == Lower(literal)
<1>1. PICK of : x = Value(type, of) /\ (type = "str" => \E y : of = {y})
  BY DEF HasType
<1>2. /\ x.type = type /\ x.of = of
      /\ leaf.value.type \in STRING /\ leaf.value = Value(leaf.value.type, leaf.value.of)
  BY <1>1 DEF Value, LeafType
<1>3. leaf.field \in FieldNames /\ type \in {"str", "bool", "list"}
  BY FieldTypes DEF LeafOK, PolicyInputFields
<1>4. line.field = leaf.field /\ line.value = leaf.value /\ line.list = leaf.list
  BY DEF Lower
<1>5. v = IF line.list = NoList THEN line.value ELSE Value("list", ListsOf(document)[line.list])
  BY <1>4 DEF ListsOf
<1> HIDE DEF v, x, type
<1>h. LeafHolds(leaf, input) \in BOOLEAN
  BY DEF LeafHolds
<1>n. /\ literal.leaf = leaf /\ literal.negated = negated
      /\ DOMAIN NegatedOp = {"eq", "ne", "in", "not_in", "gte", "lte"}
      /\ NegatedOp["eq"] = "ne" /\ NegatedOp["ne"] = "eq"
      /\ NegatedOp["in"] = "not_in" /\ NegatedOp["not_in"] = "in"
  BY DEF NegatedOp
<1> HIDE DEF literal
<1>o. /\ line.op = IF negated /\ leaf.op \in DOMAIN NegatedOp THEN NegatedOp[leaf.op] ELSE leaf.op
      /\ line.not = (line.op = "not_in" \/ (negated /\ line.op = leaf.op))
      /\ line.not \in BOOLEAN
  BY <1>n DEF Lower
<1> HIDE DEF line
<1>6. LineHolds(line, input, ListsOf(document)) <=>
        IF line.not THEN ~ Compares(line.op, x, v) ELSE Compares(line.op, x, v)
  <2> DEFINE test == line.field \in DOMAIN input /\ Compares(line.op, x, v)
  <2>1. LineHolds(line, input, ListsOf(document)) <=> (test # line.not)
    BY <1>4, <1>5 DEF LineHolds, x
  <2>2. test \in BOOLEAN /\ (test <=> Compares(line.op, x, v))
    BY <1>4
  <2> HIDE DEF test
  <2> QED
    BY <1>o, <2>1, <2>2
<1>7. /\ leaf.op = "eq" => (LeafHolds(leaf, input) <=> x.of = v.of)
      /\ leaf.op = "ne" => (LeafHolds(leaf, input) <=> x.of # v.of)
      /\ leaf.op = "in" => (LeafHolds(leaf, input) <=> x.of \subseteq v.of)
      /\ leaf.op = "not_in" => (LeafHolds(leaf, input) <=> x.of \cap v.of = {})
      /\ leaf.op \in {"prefix", "glob"} =>
           (LeafHolds(leaf, input) <=> <<leaf.op, v.of, x.of>> \in Matching)
  BY DEF LeafHolds, x, v
<1>8. TypesFit(leaf, type) /\ (leaf.list # NoList => leaf.op \in {"in", "not_in"})
  BY DEF LeafOK, type
<1> SUFFICES LineHolds(line, input, ListsOf(document)) <=>
               IF negated THEN ~ LeafHolds(leaf, input) ELSE LeafHolds(leaf, input)
  <2>1. line = Lower([leaf |-> leaf, negated |-> negated])
    BY DEF line, literal
  <2> QED
    BY <1>h, <2>1
<1>9. CASE leaf.op \in {"eq", "ne"}
  <2>1. v = leaf.value /\ leaf.value.type = type
    BY <1>8, <1>9 DEF TypesFit, v
  <2>2. x = v <=> x.of = v.of
    BY <1>1, <1>2, <2>1 DEF Value
  <2>3. line.not = FALSE /\ line.op \in {"eq", "ne"} /\ (line.op = leaf.op <=> ~ negated)
    BY <1>9, <1>n, <1>o
  <2>4. Compares(line.op, x, v) <=> IF line.op = "eq" THEN x = v ELSE x # v
    BY <2>3 DEF Compares
  <2> QED
    BY <1>6, <1>7, <1>9, <2>2, <2>3, <2>4
<1>10. CASE leaf.op \in {"in", "not_in"}
  <2>1. type = "str"
    BY <1>8, <1>10, <1>3 DEF TypesFit
  <2>2. x.of \subseteq v.of <=> ~ (x.of \cap v.of = {})
    BY <1>1, <1>2, <2>1
  <2>3. /\ line.op \in {"in", "not_in"} /\ (line.op = leaf.op <=> ~ negated)
        /\ line.not = (line.op = "not_in")
    BY <1>10, <1>n, <1>o
  <2>4. Compares(line.op, x, v) <=> x.of \subseteq v.of
    BY <2>3 DEF Compares
  <2> QED
    BY <1>6, <1>7, <1>10, <2>2, <2>3, <2>4
<1>11. CASE leaf.op \in {"prefix", "glob"}
  <2>1. line.op = leaf.op /\ line.not = negated
    BY <1>11, <1>n, <1>o
  <2>2. Compares(line.op, x, v) <=> <<leaf.op, v.of, x.of>> \in Matching
    BY <1>11, <2>1 DEF Compares
  <2> QED
    BY <1>6, <1>7, <1>11, <2>1, <2>2
<1>12. leaf.op \notin {"gte", "lte"}
  BY <1>3, <1>8 DEF TypesFit
<1> QED
  BY <1>8, <1>9, <1>10, <1>11, <1>12 DEF TypesFit

-----------------------------------------------------------------------------
(* Sorting: every principle has a place of its own, and every place is     *)
(* taken.                                                                  *)
LEMMA Places ==
  ASSUME NEW ps \in Seq(PrincipleType)
  PROVE  /\ \A j \in DOMAIN ps : PlaceOf(ps, j) \in 0..(Len(ps) - 1)
         /\ \A j, k \in DOMAIN ps : PlaceOf(ps, j) = PlaceOf(ps, k) => j = k
         /\ \A n \in DOMAIN ps : \E j \in DOMAIN ps : PlaceOf(ps, j) = n - 1
<1> DEFINE D == DOMAIN ps
<1> DEFINE Key(i) == IdKey[ps[i].id]
<1> DEFINE Lesser(j) == {i \in D : Before(ps, i, j)}
<1>1. D = 1..Len(ps) /\ Len(ps) \in Nat
  OBVIOUS
<1>2. \A i \in D : Key(i) \in Nat
  <2>1. \A i \in D : ps[i] \in PrincipleType
    OBVIOUS
  <2> QED
    BY <2>1, ConstitutionAssumption DEF PrincipleType
<1>3. \A i, j : Before(ps, i, j) <=> Key(i) < Key(j) \/ (Key(i) = Key(j) /\ i < j)
  BY DEF Before
<1> HIDE DEF Key
<1>4. \A j \in D : ~ Before(ps, j, j)
  BY <1>1, <1>2, <1>3
<1>5. \A i, j, k \in D : Before(ps, i, j) /\ Before(ps, j, k) => Before(ps, i, k)
  BY <1>1, <1>2, <1>3
<1>6. \A j, k \in D : j # k => Before(ps, j, k) \/ Before(ps, k, j)
  BY <1>1, <1>2, <1>3
<1>7. IsFiniteSet(D) /\ Cardinality(D) = Len(ps)
  <2>1. 1 \in Int /\ Len(ps) \in Int
    BY <1>1
  <2>2. IsFiniteSet(1..Len(ps)) /\ Cardinality(1..Len(ps)) = IF 1 > Len(ps) THEN 0 ELSE Len(ps) - 1 + 1
    BY <2>1, FS_Interval
  <2> QED
    BY <1>1, <2>2
<1>8. \A j \in D : PlaceOf(ps, j) = Cardinality(Lesser(j))
  BY DEF PlaceOf
<1>9. \A j \in D : Lesser(j) \in SUBSET D /\ Lesser(j) \in SUBSET (D \ {j}) /\ j \notin Lesser(j)
  BY <1>4
<1>10. \A j, k \in D : Before(ps, j, k) => Lesser(j) \in SUBSET Lesser(k) /\ j \in Lesser(k)
  BY <1>5
<1> HIDE DEF D, Lesser
<1>11. \A j \in D : IsFiniteSet(Lesser(j)) /\ Cardinality(Lesser(j)) \in Nat
  BY <1>7, <1>9, FS_Subset, FS_CardinalityType
<1>12. ASSUME NEW j \in D PROVE PlaceOf(ps, j) \in 0..(Len(ps) - 1)
  <2>1. IsFiniteSet(D \ {j}) /\ Cardinality(D \ {j}) = Len(ps) - 1
    BY <1>7, FS_RemoveElement
  <2>2. Cardinality(Lesser(j)) <= Len(ps) - 1
    BY <1>9, <2>1, FS_Subset
  <2> QED
    BY <1>1, <1>8, <1>11, <2>2
<1>13. ASSUME NEW j \in D, NEW k \in D, Before(ps, j, k) PROVE PlaceOf(ps, j) # PlaceOf(ps, k)
  <2>1. Lesser(j) \in SUBSET Lesser(k) /\ Lesser(j) # Lesser(k)
    BY <1>9, <1>10, <1>13
  <2>2. Cardinality(Lesser(j)) # Cardinality(Lesser(k))
    BY <1>11, <2>1, FS_Subset
  <2> QED
    BY <1>8, <2>2
<1>14. \A j, k \in D : PlaceOf(ps, j) = PlaceOf(ps, k) => j = k
  BY <1>6, <1>13
<1>15. \A n \in D : \E j \in D : PlaceOf(ps, j) = n - 1
  <2> DEFINE places == [j \in D |-> PlaceOf(ps, j)]
  <2> DEFINE T == 0..(Len(ps) - 1)
  <2>1. places \in Injection(D, T)
    BY <1>12, <1>14 DEF Injection, IsInjective
  <2>2. IsFiniteSet(T) /\ Cardinality(T) = Len(ps)
    <3>1. 0 \in Int /\ Len(ps) - 1 \in Int
      BY <1>1
    <3>2. IsFiniteSet(T) /\ Cardinality(T) = IF 0 > Len(ps) - 1 THEN 0 ELSE (Len(ps) - 1) - 0 + 1
      BY <3>1, FS_Interval
    <3> QED
      BY <1>1, <3>2
  <2>3. places \in Surjection(D, T)
    <3> HIDE DEF places, T
    <3> QED
      BY <1>7, <2>1, <2>2, FS_Injection
  <2>4. \A t \in T : \E j \in D : places[j] = t
    <3> HIDE DEF places, T
    <3> QED
      BY <2>3 DEF Surjection
  <2>5. \A n \in D : n - 1 \in T
    BY <1>1 DEF D
  <2> QED
    BY <2>4, <2>5
<1> QED
  BY <1>12, <1>14, <1>15 DEF D

LEMMA SortedHolds ==
  ASSUME NEW ps \in Seq(PrincipleType)
  PROVE  /\ Sorted(ps) \in Seq(PrincipleType) /\ DOMAIN Sorted(ps) = DOMAIN ps
         /\ ToSet(Sorted(ps)) = ToSet(ps)
         /\ \A n, j \in DOMAIN ps : PlaceOf(ps, j) = n - 1 => Sorted(ps)[n] = ps[j]
<1> DEFINE at(n) == CHOOSE j \in DOMAIN ps : PlaceOf(ps, j) = n - 1
<1>1. DOMAIN ps = 1..Len(ps) /\ Len(ps) \in Nat /\ \A j \in DOMAIN ps : ps[j] \in PrincipleType
  OBVIOUS
<1>2. \A n \in DOMAIN ps : at(n) \in DOMAIN ps /\ PlaceOf(ps, at(n)) = n - 1
  BY Places
<1>3. DOMAIN Sorted(ps) = DOMAIN ps /\ \A n \in DOMAIN ps : Sorted(ps)[n] = ps[at(n)]
  BY DEF Sorted
<1> HIDE DEF at
<1>4. Sorted(ps) \in [1..Len(ps) -> PrincipleType]
  <2>1. \A n \in DOMAIN ps : Sorted(ps)[n] \in PrincipleType
    BY <1>1, <1>2, <1>3
  <2>2. Sorted(ps) = [n \in DOMAIN ps |-> Sorted(ps)[n]]
    BY DEF Sorted
  <2> DEFINE sorted == Sorted(ps)
  <2>3. sorted = [n \in 1..Len(ps) |-> sorted[n]] /\ \A n \in 1..Len(ps) : sorted[n] \in PrincipleType
    BY <1>1, <2>1, <2>2
  <2> HIDE DEF sorted
  <2>4. sorted \in [1..Len(ps) -> PrincipleType]
    BY <2>3
  <2> QED
    BY <2>4 DEF sorted
<1>5. Sorted(ps) \in Seq(PrincipleType)
  BY <1>1, <1>4, FunctionIsSeq
<1>6. \A n, j \in DOMAIN ps : PlaceOf(ps, j) = n - 1 => at(n) = j
  BY <1>2, Places
<1>7. ToSet(Sorted(ps)) \subseteq ToSet(ps)
  BY <1>2, <1>3 DEF ToSet
<1>8. \A j \in DOMAIN ps : \E n \in DOMAIN ps : at(n) = j
  <2> TAKE j \in DOMAIN ps
  <2>1. PlaceOf(ps, j) \in 0..(Len(ps) - 1)
    BY Places
  <2>2. PlaceOf(ps, j) + 1 \in DOMAIN ps /\ PlaceOf(ps, j) = (PlaceOf(ps, j) + 1) - 1
    BY <1>1, <2>1
  <2> QED
    BY <1>6, <2>2
<1>9. ToSet(ps) \subseteq ToSet(Sorted(ps))
  BY <1>3, <1>8 DEF ToSet
<1> QED
  BY <1>3, <1>5, <1>6, <1>7, <1>9

(* Written backwards, principles of distinct keys are sorted alike.        *)
Keyed(ps) == \A i, j \in DOMAIN ps : IdKey[ps[i].id] = IdKey[ps[j].id] => i = j

LEMMA SortedBackwards ==
  ASSUME NEW ps \in Seq(PrincipleType), Keyed(ps)
  PROVE  Reverse(ps) \in Seq(PrincipleType) /\ Sorted(Reverse(ps)) = Sorted(ps)
<1> DEFINE D == DOMAIN ps
<1> DEFINE m == Len(ps)
<1> DEFINE qs == Reverse(ps)
<1> DEFINE back(i) == (m - i) + 1
<1>1. D = 1..m /\ m \in Nat /\ \A j \in D : ps[j] \in PrincipleType
  OBVIOUS
<1>2. DOMAIN qs = D /\ \A i \in D : qs[i] = ps[back(i)]
  BY <1>1 DEF Reverse
<1>3. \A i \in D : back(i) \in D /\ back(back(i)) = i
  BY <1>1
<1>4. qs \in Seq(PrincipleType)
  <2>1. qs = [i \in 1..m |-> qs[i]] /\ \A i \in 1..m : qs[i] \in PrincipleType
    BY <1>1, <1>2, <1>3 DEF Reverse
  <2> HIDE DEF qs
  <2>2. qs \in [1..m -> PrincipleType]
    BY <2>1
  <2> QED
    BY <1>1, <2>2, FunctionIsSeq
<1> HIDE DEF qs
<1>5. \A i, j \in D : Before(qs, i, j) <=> Before(ps, back(i), back(j))
  <2>1. \A i, j \in D : IdKey[ps[i].id] = IdKey[ps[j].id] => i = j
    BY DEF Keyed
  <2>2. \A i, j \in D : back(i) = back(j) => i = j
    BY <1>1
  <2>3. \A i \in D : ~ (i < i)
    BY <1>1
  <2> HIDE DEF back, D, m
  <2>4. \A i, j \in D : Before(ps, i, j) <=> IdKey[ps[i].id] < IdKey[ps[j].id]
    BY <2>1, <2>3 DEF Before
  <2>5. \A i, j \in D : Before(qs, i, j) <=> IdKey[qs[i].id] < IdKey[qs[j].id]
    BY <1>2, <1>3, <2>1, <2>2, <2>3 DEF Before
  <2> QED
    BY <1>2, <1>3, <2>4, <2>5
<1>6. \A j \in D : PlaceOf(qs, j) = PlaceOf(ps, back(j))
  <2> TAKE j \in D
  <2> DEFINE S == {i \in D : Before(ps, i, back(j))}
  <2> DEFINE T == {i \in D : Before(qs, i, j)}
  <2> DEFINE f == [i \in S |-> back(i)]
  <2>1. \A i \in S : back(i) \in T
    BY <1>3, <1>5
  <2>2. \A i \in T : back(i) \in S /\ back(back(i)) = i
    BY <1>3, <1>5
  <2>3. \A i, k \in S : back(i) = back(k) => i = k
    BY <1>1
  <2>4. PlaceOf(ps, back(j)) = Cardinality(S) /\ PlaceOf(qs, j) = Cardinality(T)
    BY <1>2 DEF PlaceOf
  <2>5. IsFiniteSet(S)
    <3>1. 1 \in Int /\ m \in Int
      BY <1>1
    <3>2. IsFiniteSet(D)
      BY <1>1, <3>1, FS_Interval
    <3>3. S \in SUBSET D
      OBVIOUS
    <3> HIDE DEF S, D
    <3> QED
      BY <3>2, <3>3, FS_Subset
  <2> HIDE DEF S, T, back
  <2>6. f \in [S -> T] /\ \A i \in S : f[i] = back(i)
    BY <2>1
  <2> HIDE DEF f
  <2>7. f \in Injection(S, T)
    BY <2>3, <2>6 DEF Injection, IsInjective
  <2>8. f \in Surjection(S, T)
    BY <2>2, <2>6 DEF Surjection
  <2>9. ExistsBijection(S, T)
    BY <2>7, <2>8 DEF ExistsBijection, Bijection
  <2> QED
    BY <2>4, <2>5, <2>9, FS_Bijection
<1>7. ASSUME NEW n \in D PROVE Sorted(qs)[n] = Sorted(ps)[n]
  <2>1. PICK j \in D : PlaceOf(ps, j) = n - 1
    BY Places
  <2>2. Sorted(ps)[n] = ps[j]
    BY <2>1, SortedHolds
  <2>3. back(j) \in DOMAIN qs /\ n \in DOMAIN qs /\ PlaceOf(qs, back(j)) = n - 1
    BY <1>2, <1>3, <1>6, <2>1
  <2>4. Sorted(qs)[n] = qs[back(j)]
    <3> HIDE DEF back
    <3> QED
      BY <1>4, <2>3, SortedHolds
  <2>5. qs[back(j)] = ps[j]
    BY <1>2, <1>3
  <2> QED
    BY <2>2, <2>4, <2>5
<1>8. Sorted(qs) = Sorted(ps)
  <2>1. Sorted(qs) = [n \in DOMAIN qs |-> Sorted(qs)[n]] /\ Sorted(ps) = [n \in D |-> Sorted(ps)[n]]
    BY DEF Sorted
  <2> QED
    BY <1>2, <1>7, <2>1
<1> QED
  BY <1>4, <1>8 DEF qs

-----------------------------------------------------------------------------
(* The rules of a principle fire where what it says holds.                 *)
Disjuncts(p) == IF p.when = NoCondition THEN << <<>> >> ELSE Dnf[p.when][FALSE]

LEMMA DisjunctsType ==
  ASSUME NEW p \in PrincipleType
  PROVE  Disjuncts(p) \in Disjunctions
<1>1. CASE p.when = NoCondition
  BY <1>1 DEF Disjuncts, Disjunctions
<1>2. CASE p.when # NoCondition
  <2>1. p.when \in Conditions
    BY <1>2 DEF PrincipleType
  <2> QED
    BY <1>2, <2>1, DnfHolds DEF Disjuncts
<1> QED
  BY <1>1, <1>2

LEMMA RulesOf ==
  ASSUME NEW p \in PrincipleType
  PROVE  /\ \A rule \in ToSet(Rules(p)) : rule.principle_ref = p.id /\ rule.effect = p.effect
         /\ Rules(p) \in Seq(ToSet(Rules(p)))
         /\ p.kind = "sequence" => ToSet(Rules(p)) = {Rule(p, <<>>)}
         /\ p.kind # "sequence" => ToSet(Rules(p)) = {Rule(p, Lowered(d)) : d \in ToSet(Disjuncts(p))}
<1>1. \A body : Rule(p, body).principle_ref = p.id /\ Rule(p, body).effect = p.effect
  BY DEF Rule
<1>2. CASE p.kind = "sequence"
  <2> DEFINE r == Rule(p, <<>>)
  <2>1. Rules(p) = <<r>>
    BY <1>2 DEF Rules
  <2> HIDE DEF r
  <2>2. ToSet(<<r>>) = {r} /\ <<r>> \in Seq({r})
    BY DEF ToSet
  <2> QED
    BY <1>1, <1>2, <2>1, <2>2 DEF r
<1>3. CASE p.kind # "sequence"
  <2> DEFINE D == Disjuncts(p)
  <2> DEFINE rules == [i \in DOMAIN D |-> Rule(p, Lowered(D[i]))]
  <2>1. Rules(p) = rules
    BY <1>3 DEF Rules, Disjuncts
  <2>2. Len(D) \in Nat /\ DOMAIN D = 1..Len(D)
    BY DisjunctsType DEF Disjunctions
  <2>3. DOMAIN rules = DOMAIN D /\ \A i \in DOMAIN D : rules[i] = Rule(p, Lowered(D[i]))
    OBVIOUS
  <2>4. rules = [i \in DOMAIN D |-> rules[i]]
    OBVIOUS
  <2> HIDE DEF D, rules
  <2>5. ToSet(rules) = {Rule(p, Lowered(d)) : d \in ToSet(D)}
    BY <2>3 DEF ToSet
  <2>6. rules \in Seq(ToSet(rules))
    <3>1. \A i \in DOMAIN D : rules[i] \in ToSet(rules)
      BY <2>3 DEF ToSet
    <3>2. rules \in [1..Len(D) -> ToSet(rules)]
      BY <2>2, <2>4, <3>1
    <3> QED
      BY <2>2, <3>2, FunctionIsSeq
  <2> QED
    BY <1>1, <1>3, <2>1, <2>5, <2>6 DEF D
<1> QED
  BY <1>2, <1>3

LEMMA LeafTypeIsCondition == LeafType \subseteq Conditions
<1>1. Nesting \in Nat /\ Nesting \in 0..Nesting
  BY ConstitutionAssumption
<1>2. CASE Nesting = 0
  BY <1>2, LevelNodes DEF Conditions
<1>3. CASE Nesting # 0
  <2>1. Nesting - 1 \in 0..(Nesting - 1) /\ (Nesting - 1) + 1 = Nesting
    BY <1>1, <1>3
  <2> QED
    BY <2>1, LevelNodes DEF Conditions
<1> QED
  BY <1>2, <1>3

(* The disjuncts of an accepted principle, line by line, in the document   *)
(* of an action that it applies to.                                        *)
CondOK(p) ==
  \A leaf \in Leaves[p.when] :
    LeafOK(leaf) /\ InScope(p, leaf) /\ leaf.list \in DOMAIN document.lists \cup {NoList}

LinesHold(d, input) == \A i \in DOMAIN d : LineHolds(Lower(d[i]), input, ListsOf(document))

LEMMA DisjunctsHold ==
  ASSUME NEW p \in PrincipleType, p.when # NoCondition => CondOK(p),
         NEW a, a.type \in ActionType, a.type \in p.applies, NEW enrichment, NEW refs
  PROVE  LET input == BuildPolicyInput(a, enrichment, refs) IN
         (\E d \in ToSet(Disjuncts(p)) : LinesHold(d, input))
           <=> (p.when # NoCondition => Holds(p.when, input))
<1> DEFINE input == BuildPolicyInput(a, enrichment, refs)
<1> DEFINE D == Disjuncts(p)
<1>1. CASE p.when = NoCondition
  <2>1. D = << <<>> >>
    BY <1>1 DEF Disjuncts
  <2>2. ToSet(<< <<>> >>) = {<<>>}
    BY DEF ToSet
  <2>3. DOMAIN <<>> = {}
    OBVIOUS
  <2> HIDE DEF D, input
  <2>4. LinesHold(<<>>, input)
    BY <2>3 DEF LinesHold
  <2> QED
    BY <1>1, <2>1, <2>2, <2>4 DEF D, input
<1>2. CASE p.when # NoCondition
  <2>1. p.when \in Conditions
    BY <1>2 DEF PrincipleType
  <2>2. PICK h : \A n \in Conditions :
           h[n] \in BOOLEAN /\ h[n] = HoldsAt(n, input, h) /\ Holds(n, input) = h[n]
    <3> HIDE DEF input
    <3> QED
      BY HoldsIsRead
  <2> DEFINE Own == {l \in Literals : l.leaf \in Leaves[p.when]}
  <2> DEFINE T == TrueLiterals(h)
  <2>3. ASSUME NEW l \in Own
        PROVE  LineHolds(Lower(l), input, ListsOf(document)) <=> l \in T
    <3> DEFINE leaf == l.leaf
    <3> DEFINE negated == l.negated
    <3>1. leaf \in LeafType /\ negated \in BOOLEAN /\ l = [leaf |-> leaf, negated |-> negated]
          /\ l \in Literals
      BY DEF Literals
    <3>2. /\ LeafOK(leaf) /\ leaf.list \in DOMAIN document.lists \cup {NoList}
          /\ a.type \in PolicyInputFields[leaf.field].scope
      BY <1>2 DEF CondOK, InScope
    <3>3. leaf.field \in FieldNames
      BY <3>2 DEF LeafOK, PolicyInputFields
    <3>4. leaf \in Conditions /\ leaf.node = "leaf"
      BY <3>1, LeafTypeIsCondition, LeafNode
    <3> HIDE DEF leaf, negated
    <3>5. leaf.field \in DOMAIN input /\ HasType(input[leaf.field], PolicyInputFields[leaf.field].type)
      BY <3>2, <3>3, InputFields
    <3> HIDE DEF input
    <3>6. LineHolds(Lower([leaf |-> leaf, negated |-> negated]), input, ListsOf(document))
            <=> (LeafHolds(leaf, input) # negated)
      BY <3>1, <3>2, <3>5, LineIsLeaf
    <3>7. h[leaf] = LeafHolds(leaf, input)
      BY <2>2, <3>4 DEF HoldsAt
    <3>8. l \in T <=> h[leaf] # negated
      BY <3>1, <3>4 DEF TrueLiterals, leaf, negated
    <3> QED
      BY <3>1, <3>6, <3>7, <3>8
  <2>4. D \in Disjunctions /\ D = Dnf[p.when][FALSE]
    BY <1>2, DisjunctsType DEF Disjuncts
  <2>5. MadeOf(D, Own)
    BY <2>1, <2>4, DnfOfLeaves
  <2>6. SomeTrue(D, T) <=> h[p.when] # FALSE
    <3>1. \A n \in Conditions : h[n] \in BOOLEAN /\ h[n] = HoldsAt(n, input, h)
      BY <2>2
    <3> HIDE DEF input, D
    <3> QED
      BY <2>1, <2>4, <3>1, DnfFaithful
  <2> HIDE DEF D, Own, T, input
  <2>7. ASSUME NEW d \in ToSet(D) PROVE LinesHold(d, input) <=> ToSet(d) \subseteq T
    <3>1. ToSet(d) \subseteq Own
      BY <2>5 DEF MadeOf
    <3>2. \A i \in DOMAIN d : d[i] \in ToSet(d)
      BY DEF ToSet
    <3>3. \A i \in DOMAIN d : LineHolds(Lower(d[i]), input, ListsOf(document)) <=> d[i] \in T
      BY <2>3, <3>1, <3>2
    <3>4. ToSet(d) \subseteq T <=> \A i \in DOMAIN d : d[i] \in T
      BY DEF ToSet
    <3> QED
      BY <3>3, <3>4 DEF LinesHold
  <2>8. (\E d \in ToSet(D) : LinesHold(d, input)) <=> SomeTrue(D, T)
    BY <2>7 DEF SomeTrue
  <2>9. Holds(p.when, input) = h[p.when] /\ h[p.when] \in BOOLEAN
    BY <2>1, <2>2
  <2> QED
    BY <1>2, <2>6, <2>8, <2>9 DEF D, input
<1> QED
  BY <1>1, <1>2

LEMMA RulesMeant ==
  ASSUME NEW p \in PrincipleType, p.when # NoCondition => CondOK(p),
         action.type \in ActionType, NEW enrichment, NEW refs
  PROVE  LET input == BuildPolicyInput(action, enrichment, refs) IN
         (\E rule \in ToSet(Rules(p)) : Fires(rule, input, ListsOf(document))) <=> Meant(p, input)
<1> DEFINE input == BuildPolicyInput(action, enrichment, refs)
<1>1. input["type"] = Str(action.type)
  BY InputOfAction
<1>2. input["type"].of = {action.type}
  BY <1>1 DEF Str, Value
<1> HIDE DEF input
<1>3. \A body :
        Fires(Rule(p, body), input, ListsOf(document)) <=>
          /\ action.type \in p.applies
          /\ p.kind = "sequence" => p.id \in input["sequence.matched_refs"].of
          /\ \A i \in DOMAIN body : LineHolds(body[i], input, ListsOf(document))
  <2> TAKE body
  <2> DEFINE rule == Rule(p, body)
  <2>1. /\ rule.types = p.applies /\ rule.kind = p.kind /\ rule.principle_ref = p.id
        /\ rule.body = body
    BY DEF Rule
  <2> HIDE DEF rule
  <2>2. Fires(rule, input, ListsOf(document)) <=>
          /\ action.type \in p.applies
          /\ p.kind = "sequence" => p.id \in input["sequence.matched_refs"].of
          /\ \A i \in DOMAIN body : LineHolds(body[i], input, ListsOf(document))
    BY <1>2, <2>1 DEF Fires
  <2> QED
    BY <2>2 DEF rule
<1>4. CASE p.kind = "sequence"
  <2>1. ToSet(Rules(p)) = {Rule(p, <<>>)}
    BY <1>4, RulesOf
  <2>2. DOMAIN <<>> = {}
    OBVIOUS
  <2>3. Fires(Rule(p, <<>>), input, ListsOf(document)) <=> Meant(p, input)
    BY <1>3, <1>4, <2>2 DEF Meant
  <2> QED
    BY <2>1, <2>3 DEF input
<1>5. CASE p.kind # "sequence"
  <2>1. ToSet(Rules(p)) = {Rule(p, Lowered(d)) : d \in ToSet(Disjuncts(p))}
    BY <1>5, RulesOf
  <2>2. \A d : DOMAIN Lowered(d) = DOMAIN d /\ \A i \in DOMAIN d : Lowered(d)[i] = Lower(d[i])
    BY DEF Lowered
  <2>3. \A d : Fires(Rule(p, Lowered(d)), input, ListsOf(document))
                 <=> action.type \in p.applies /\ LinesHold(d, input)
    BY <1>3, <1>5, <2>2 DEF LinesHold
  <2>4. (\E rule \in ToSet(Rules(p)) : Fires(rule, input, ListsOf(document)))
          <=> \E d \in ToSet(Disjuncts(p)) : action.type \in p.applies /\ LinesHold(d, input)
    BY <2>1, <2>3
  <2>5. CASE action.type \in p.applies
    <3>1. (\E d \in ToSet(Disjuncts(p)) : LinesHold(d, input))
            <=> (p.when # NoCondition => Holds(p.when, input))
      BY <2>5, DisjunctsHold DEF input
    <3> QED
      BY <1>5, <2>4, <2>5, <3>1 DEF Meant, input
  <2>6. CASE action.type \notin p.applies
    BY <2>4, <2>6 DEF Meant, input
  <2> QED
    BY <2>5, <2>6
<1> QED
  BY <1>4, <1>5

(* What the bundle of an accepted document matches is what it means.       *)
Accepted(c) == c \in Documents /\ ConstitutionOK(c)

LEMMA BundleRules ==
  ASSUME NEW c \in Documents
  PROVE  ToSet(CompiledBundle(c).rules) = UNION {ToSet(Rules(p)) : p \in ToSet(c.principles)}
<1> DEFINE ps == c.principles
<1> DEFINE sorted == Sorted(ps)
<1> DEFINE seqs == [i \in DOMAIN sorted |-> Rules(sorted[i])]
<1> DEFINE X == UNION {ToSet(Rules(p)) : p \in ToSet(ps)}
<1>1. ps \in Seq(PrincipleType)
  BY CompilerAssumption
<1> HIDE DEF ps
<1>2. sorted \in Seq(PrincipleType) /\ ToSet(sorted) = ToSet(ps)
  BY <1>1, SortedHolds
<1> HIDE DEF sorted
<1>3. /\ Len(sorted) \in Nat /\ DOMAIN sorted = 1..Len(sorted)
      /\ \A i \in DOMAIN sorted : sorted[i] \in PrincipleType /\ sorted[i] \in ToSet(ps)
  BY <1>2 DEF ToSet
<1>4. ASSUME NEW i \in DOMAIN sorted PROVE Rules(sorted[i]) \in Seq(X)
  <2> DEFINE p == sorted[i]
  <2> DEFINE rules == Rules(p)
  <2>1. rules \in Seq(ToSet(rules))
    BY <1>3, RulesOf
  <2>2. ToSet(rules) \subseteq X
    BY <1>3
  <2> HIDE DEF rules, X
  <2>3. rules \in Seq(X)
    BY <2>1, <2>2, SeqMonotonic
  <2> QED
    BY <2>3 DEF rules
<1>5. seqs \in Seq(Seq(X)) /\ DOMAIN seqs = DOMAIN sorted
      /\ \A i \in DOMAIN sorted : seqs[i] = Rules(sorted[i])
  <2>1. DOMAIN seqs = DOMAIN sorted /\ \A i \in DOMAIN sorted : seqs[i] = Rules(sorted[i])
    OBVIOUS
  <2> HIDE DEF X
  <2>2. seqs \in [1..Len(sorted) -> Seq(X)]
    BY <1>3, <1>4
  <2> HIDE DEF seqs
  <2> QED
    BY <1>3, <2>1, <2>2, FunctionIsSeq
<1>6. CompiledBundle(c).rules = FlattenSeq(seqs)
  BY DEF CompiledBundle, ps, sorted
<1> HIDE DEF seqs, X
<1>7. ToSet(FlattenSeq(seqs)) = UNION {ToSet(seqs[i]) : i \in DOMAIN seqs}
  BY <1>5, FlattenHolds
<1>8. ASSUME NEW r PROVE r \in ToSet(FlattenSeq(seqs)) <=> \E p \in ToSet(ps) : r \in ToSet(Rules(p))
  <2>1. r \in ToSet(FlattenSeq(seqs)) <=> \E i \in DOMAIN sorted : r \in ToSet(Rules(sorted[i]))
    BY <1>5, <1>7
  <2>2. \A p : p \in ToSet(ps) <=> \E i \in DOMAIN sorted : p = sorted[i]
    BY <1>2 DEF ToSet
  <2> QED
    BY <2>1, <2>2, Zenon
<1>9. ToSet(FlattenSeq(seqs)) = UNION {ToSet(Rules(p)) : p \in ToSet(ps)}
  BY <1>8
<1> QED
  BY <1>6, <1>9 DEF ps

LEMMA MatchedIsMeant ==
  ASSUME Accepted(document), bundle = CompiledBundle(document), action.type \in ActionType,
         NEW enrichment, NEW refs
  PROVE  LET input == BuildPolicyInput(action, enrichment, refs) IN
         Matched(input) = {[principle_ref |-> p.id, effect |-> p.effect] :
                             p \in {q \in ToSet(document.principles) : Meant(q, input)}}
<1> DEFINE input == BuildPolicyInput(action, enrichment, refs)
<1> DEFINE P == ToSet(document.principles)
<1>1. bundle.lists = ListsOf(document)
  BY DEF CompiledBundle, CanonicalForm, ListsOf
<1>2. ToSet(bundle.rules) = UNION {ToSet(Rules(p)) : p \in P}
  BY BundleRules DEF Accepted
<1>3. ASSUME NEW p \in P
      PROVE  /\ p \in PrincipleType
             /\ p.when # NoCondition => CondOK(p)
  <2>1. document.principles \in Seq(PrincipleType)
    BY CompilerAssumption DEF Accepted
  <2>2. PICK i \in DOMAIN document.principles : p = document.principles[i]
    BY DEF ToSet
  <2>3. p \in PrincipleType
    BY <2>1, <2>2
  <2>4. PrincipleOK(p) /\ (p.when # NoCondition =>
          \A leaf \in Leaves[p.when] : leaf.list \in DOMAIN document.lists \cup {NoList})
    BY <2>2 DEF Accepted, ConstitutionOK
  <2> QED
    BY <2>3, <2>4 DEF PrincipleOK, CondOK
<1>4. ASSUME NEW p \in P
      PROVE  (\E rule \in ToSet(Rules(p)) : Fires(rule, input, bundle.lists)) <=> Meant(p, input)
  BY <1>1, <1>3, RulesMeant
<1>5. \A p \in P : \A rule \in ToSet(Rules(p)) : rule.principle_ref = p.id /\ rule.effect = p.effect
  BY <1>3, RulesOf
<1> HIDE DEF P, input
<1>6. ASSUME NEW m \in Matched(input)
      PROVE  \E p \in P : Meant(p, input) /\ m = [principle_ref |-> p.id, effect |-> p.effect]
  <2>1. PICK rule \in ToSet(bundle.rules) :
          Fires(rule, input, bundle.lists)
            /\ m = [principle_ref |-> rule.principle_ref, effect |-> rule.effect]
    BY <1>6 DEF Matched
  <2>2. PICK p \in P : rule \in ToSet(Rules(p))
    BY <1>2
  <2> QED
    BY <1>4, <1>5, <2>1, <2>2
<1>7. ASSUME NEW p \in P, Meant(p, input)
      PROVE  [principle_ref |-> p.id, effect |-> p.effect] \in Matched(input)
  <2>1. PICK rule \in ToSet(Rules(p)) : Fires(rule, input, bundle.lists)
    BY <1>4, <1>7
  <2>2. rule \in ToSet(bundle.rules)
    BY <1>2
  <2> QED
    BY <1>5, <2>1, <2>2 DEF Matched
<1>8. Matched(input) = {[principle_ref |-> p.id, effect |-> p.effect] :
                          p \in {q \in P : Meant(q, input)}}
  BY <1>6, <1>7
<1> QED
  BY <1>8 DEF input, P

-----------------------------------------------------------------------------
(* What every reachable state has, stage by stage: a document that was     *)
(* validated, the bundle compiled of it, the input of a real operation,    *)
(* and evidence of that operation.                                         *)
ActionOf(q) == Normalize(q)
InputOf(a, refs) == BuildPolicyInput(a, Enrich(a), refs)

DocumentInv ==
  /\ document \in Documents
  /\ stage \notin {"written", "rejected"} => ConstitutionOK(document)
BundleInv ==
  stage \in {"compiled", "evaluated", "recorded", "stripped"} => bundle = CompiledBundle(document)
ActionInv ==
  stage \in {"evaluated", "recorded", "stripped"} =>
    /\ \E q \in Operations : action = ActionOf(q)
    /\ \E refs \in MatchedRefs : judged = InputOf(action, refs)
MatchedInv == stage = "evaluated" => matched = Matched(judged)
EvidenceInv ==
  /\ stage = "recorded" =>
       Redacts(action.payload)
         /\ evidence = Evidence(action, TagIntent(action), Redacted(action.payload))
  /\ stage = "stripped" => ~ Redacts(action.payload)
IInv == DocumentInv /\ BundleInv /\ ActionInv /\ MatchedInv /\ EvidenceInv

LEMMA InvInit == Init => IInv
BY DEF Init, IInv, DocumentInv, BundleInv, ActionInv, MatchedInv, EvidenceInv

LEMMA InvNext == IInv /\ [Next]_vars => IInv'
<1> SUFFICES ASSUME IInv, [Next]_vars PROVE IInv'
  OBVIOUS
<1> USE DEF DocumentInv, BundleInv, ActionInv, MatchedInv, EvidenceInv
<1>1. CASE Accept
  BY <1>1 DEF Accept, IInv
<1>2. CASE Reject
  BY <1>2 DEF Reject, IInv
<1>3. CASE Compile
  <2>1. CompiledBundle(document)' = CompiledBundle(document)
    BY <1>3 DEF Compile, CompiledBundle, CanonicalForm
  <2> QED
    BY <1>3, <2>1 DEF Compile, IInv
<1>4. CASE TooManyDisjuncts
  BY <1>4 DEF TooManyDisjuncts, IInv
<1>5. ASSUME NEW q \in Operations, NEW refs \in MatchedRefs, Evaluate(q, refs) PROVE IInv'
  <2> DEFINE a == Normalize(q)
  <2> DEFINE input == BuildPolicyInput(a, Enrich(a), refs)
  <2>1. /\ stage = "compiled" /\ stage' = "evaluated" /\ action' = a /\ judged' = input
        /\ matched' = Matched(input)
        /\ UNCHANGED <<document, bundle, evidence>>
    BY <1>5 DEF Evaluate
  <2> HIDE DEF a, input
  <2>2. (Matched(judged))' = Matched(input)
    BY <2>1 DEF Matched
  <2>3. action' = ActionOf(q)
    BY <2>1 DEF ActionOf, a
  <2>4. judged' = InputOf(action', refs)
    BY <2>1 DEF InputOf, input
  <2>5. DocumentInv' /\ BundleInv' /\ EvidenceInv'
    BY <2>1 DEF IInv
  <2>6. ActionInv'
    BY <2>3, <2>4
  <2>7. MatchedInv'
    BY <2>1, <2>2
  <2> QED
    BY <2>5, <2>6, <2>7 DEF IInv
<1>6. ASSUME NEW q \in Operations, CannotJudge(q) PROVE IInv'
  BY <1>6 DEF CannotJudge, IInv
<1>7. CASE Record
  BY <1>7 DEF Record, IInv
<1>8. CASE RecordStripped
  BY <1>8 DEF RecordStripped, IInv
<1>9. CASE RedactionRaises
  BY <1>9 DEF RedactionRaises, IInv
<1>10. CASE RecordFailSafe
  BY <1>10 DEF RecordFailSafe, IInv
<1>11. CASE UNCHANGED vars
  <2>1. Matched(judged)' = Matched(judged)
    BY <1>11 DEF vars, Matched
  <2> QED
    BY <1>11, <2>1 DEF vars, IInv
<1> QED
  BY <1>1, <1>2, <1>3, <1>4, <1>5, <1>6, <1>7, <1>8, <1>9, <1>10, <1>11 DEF Next

(* What each stage of a document and of its evaluation holds is what the   *)
(* stage before made of it.                                                *)
THEOREM InvHolds == Spec => []IInv
BY InvInit, InvNext, PTL DEF Spec

(* Whatever constitution is written, and whatever operation is governed:   *)
(* the floor is that of the principles whose conditions hold as they are   *)
(* written; the compiler's rules decide neither more nor less.             *)
THEOREM AlwaysAsWritten == Spec => []FloorIsAsWritten
<1>1. IInv => FloorIsAsWritten
  <2> SUFFICES ASSUME IInv, stage = "evaluated"
               PROVE  LET meant == {p \in ToSet(document.principles) : Meant(p, judged)} IN
                      /\ {m.principle_ref : m \in matched} = {p.id : p \in meant}
                      /\ SelectFloor({m.effect : m \in matched}) = SelectFloor({p.effect : p \in meant})
    BY DEF FloorIsAsWritten
  <2> DEFINE meant == {p \in ToSet(document.principles) : Meant(p, judged)}
  <2>1. Accepted(document) /\ bundle = CompiledBundle(document)
    BY DEF IInv, DocumentInv, BundleInv, Accepted
  <2>2. PICK q \in Operations : action = Normalize(q)
    BY DEF IInv, ActionInv, ActionOf
  <2>3. PICK refs \in MatchedRefs : judged = BuildPolicyInput(action, Enrich(action), refs)
    BY DEF IInv, ActionInv, InputOf
  <2>4. action.type \in ActionType
    BY <2>2, CompilerAssumption DEF Normalize
  <2>5. Matched(judged) = {[principle_ref |-> p.id, effect |-> p.effect] : p \in meant}
    BY <2>1, <2>3, <2>4, MatchedIsMeant
  <2>6. matched = {[principle_ref |-> p.id, effect |-> p.effect] : p \in meant}
    BY <2>5 DEF IInv, MatchedInv
  <2> HIDE DEF meant
  <2> DEFINE fired(p) == [principle_ref |-> p.id, effect |-> p.effect]
  <2>7. \A p : fired(p).principle_ref = p.id /\ fired(p).effect = p.effect
    OBVIOUS
  <2>8. \A m : m \in matched <=> \E p \in meant : m = fired(p)
    BY <2>6
  <2> HIDE DEF fired
  <2>9. ASSUME NEW m \in matched PROVE \E p \in meant : m.principle_ref = p.id /\ m.effect = p.effect
    BY <2>7, <2>8
  <2>10. ASSUME NEW p \in meant PROVE \E m \in matched : m.principle_ref = p.id /\ m.effect = p.effect
    BY <2>7, <2>8
  <2>11. {m.principle_ref : m \in matched} = {p.id : p \in meant}
    <3>1. \A m \in matched : m.principle_ref \in {p.id : p \in meant}
      BY <2>9
    <3>2. \A p \in meant : p.id \in {m.principle_ref : m \in matched}
      BY <2>10
    <3> QED
      BY <3>1, <3>2
  <2>12. {m.effect : m \in matched} = {p.effect : p \in meant}
    <3>1. \A m \in matched : m.effect \in {p.effect : p \in meant}
      BY <2>9
    <3>2. \A p \in meant : p.effect \in {m.effect : m \in matched}
      BY <2>10
    <3> QED
      BY <3>1, <3>2
  <2> QED
    BY <2>11, <2>12 DEF meant
<1> QED
  BY <1>1, InvHolds, PTL

(* One content in the opposite order compiles to the same bundle, version  *)
(* and rules alike (version.py, canonical_form).                           *)
LEMMA ReversedElements ==
  ASSUME NEW X, NEW s \in Seq(X)
  PROVE  ToSet(Reverse(s)) = ToSet(s)
<1>1. Len(s) \in Nat /\ DOMAIN s = 1..Len(s)
  OBVIOUS
<1>2. DOMAIN Reverse(s) = 1..Len(s) /\ \A i \in 1..Len(s) : Reverse(s)[i] = s[(Len(s) - i) + 1]
  BY DEF Reverse
<1>3. \A i \in 1..Len(s) : (Len(s) - i) + 1 \in 1..Len(s) /\ (Len(s) - ((Len(s) - i) + 1)) + 1 = i
  BY <1>1
<1>4. \A x : x \in ToSet(Reverse(s)) <=> \E i \in 1..Len(s) : x = Reverse(s)[i]
  BY <1>2 DEF ToSet
<1>5. \A x : x \in ToSet(s) <=> \E i \in 1..Len(s) : x = s[i]
  BY <1>1 DEF ToSet
<1>6. ASSUME NEW x \in ToSet(Reverse(s)) PROVE x \in ToSet(s)
  BY <1>2, <1>3, <1>4, <1>5
<1>7. ASSUME NEW x \in ToSet(s) PROVE x \in ToSet(Reverse(s))
  <2>1. PICK i \in 1..Len(s) : x = s[i]
    BY <1>5
  <2>2. (Len(s) - i) + 1 \in 1..Len(s) /\ Reverse(s)[(Len(s) - i) + 1] = x
    BY <1>2, <1>3, <2>1
  <2> QED
    BY <1>4, <2>2
<1> QED
  BY <1>6, <1>7

LEMMA BackwardsIsTheSame ==
  ASSUME NEW c \in Documents, DistinctKeys(c)
  PROVE  CompiledBundle(Backwards(c)) = CompiledBundle(c)
<1> DEFINE b == Backwards(c)
<1>1. b.principles = Reverse(c.principles) /\ b.lists = [name \in DOMAIN c.lists |-> Reverse(c.lists[name])]
  BY DEF Backwards
<1>2. Sorted(b.principles) = Sorted(c.principles)
  <2>1. c.principles \in Seq(PrincipleType) /\ Keyed(c.principles)
    BY CompilerAssumption DEF DistinctKeys, Keyed
  <2> QED
    BY <1>1, <2>1, SortedBackwards
<1>3. [name \in DOMAIN b.lists |-> ToSet(b.lists[name])] = [name \in DOMAIN c.lists |-> ToSet(c.lists[name])]
  <2>1. \A name \in DOMAIN c.lists : c.lists[name] \in Seq(STRING)
    BY CompilerAssumption
  <2>2. \A name \in DOMAIN c.lists : ToSet(Reverse(c.lists[name])) = ToSet(c.lists[name])
    BY <2>1, ReversedElements
  <2>3. DOMAIN b.lists = DOMAIN c.lists /\ \A name \in DOMAIN c.lists : b.lists[name] = Reverse(c.lists[name])
    BY <1>1
  <2> QED
    BY <2>2, <2>3
<1> HIDE DEF b
<1>4. CanonicalForm(b) = CanonicalForm(c)
  BY <1>2, <1>3 DEF CanonicalForm
<1>5. CompiledBundle(b) = CompiledBundle(c)
  BY <1>2, <1>4 DEF CompiledBundle
<1> QED
  BY <1>5 DEF b

(* A document and its reverse compile to one version and one bundle,       *)
(* whatever its keys, if they differ.                                      *)
THEOREM AlwaysTheSameInAnyOrder == Spec => []OrderDoesNotMatter
<1>1. IInv => OrderDoesNotMatter
  BY BackwardsIsTheSame DEF IInv, DocumentInv, BundleInv, OrderDoesNotMatter
<1> QED
  BY <1>1, InvHolds, PTL

LEMMA OneThenAnother ==
  ASSUME NEW x, NEW y
  PROVE  /\ Append(<<x>>, y)[1] = x
         /\ Len(Append(<<x>>, y)) = 2
         /\ Append(<<x>>, y)[Len(Append(<<x>>, y))] = y
<1>1. <<x>> \in Seq({x, y}) /\ y \in {x, y} /\ Len(<<x>>) = 1 /\ <<x>>[1] = x
  OBVIOUS
<1>2. Len(Append(<<x>>, y)) = Len(<<x>>) + 1
  BY <1>1, AppendProperties
<1>3. \A i \in 1..Len(<<x>>) : Append(<<x>>, y)[i] = <<x>>[i]
  BY <1>1, AppendProperties
<1>4. Append(<<x>>, y)[Len(<<x>>) + 1] = y
  BY <1>1, AppendProperties
<1>5. Append(<<x>>, y)[Len(Append(<<x>>, y))] = y
  BY <1>2, <1>4
<1> QED
  BY <1>1, <1>2, <1>3, <1>5

(* Of the host of a url, the authority written for it may be read as that  *)
(* host, and in no other way unless it is an address.                      *)
LEMMA HostIsAReading ==
  ASSUME NEW host, NEW port
  PROVE  /\ host \in Readings(Authority(host, port))
         /\ host \notin DOMAIN Groups => Readings(Authority(host, port)) = {host}
<1> DEFINE authority == Authority(host, port)
<1>1. CASE host \in DOMAIN Groups
  <2>1. Groups[host] \in Seq(STRING) /\ Len(Groups[host]) > 2
    BY <1>1, GroupsAssumption
  <2>2. Pieces(host) = Groups[host]
    BY <1>1 DEF Pieces
  <2>3. port # "" => authority = Append(Groups[host], port)
    BY <2>2 DEF Authority
  <2>4. port # "" => authority[Len(authority)] = port
    <3> DEFINE g == Groups[host]
    <3>1. g \in Seq(STRING \cup {port})
      BY <2>1
    <3> HIDE DEF g
    <3>2. Append(g, port)[Len(Append(g, port))] = port
      BY <3>1
    <3> QED
      BY <2>3, <3>2 DEF g
  <2>5. \E p \in {"", authority[Len(authority)]} : Authority(host, p) = authority
    BY <2>4
  <2> QED
    BY <1>1, <2>5 DEF Readings
<1>2. CASE host \notin DOMAIN Groups
  <2>1. /\ authority[1] = host
        /\ port # "" => authority[Len(authority)] = port
        /\ Len(authority) \in 1..2
    <3>1. authority = IF port = "" THEN <<host>> ELSE Append(<<host>>, port)
      BY <1>2 DEF Authority, Pieces
    <3> HIDE DEF authority
    <3>2. CASE port = ""
      <4>1. authority = <<host>>
        BY <3>1, <3>2
      <4>2. Len(<<host>>) = 1 /\ <<host>>[1] = host
        OBVIOUS
      <4>3. Len(authority) \in 1..2
        BY <4>1, <4>2
      <4> QED
        BY <3>2, <4>1, <4>2, <4>3
    <3>3. CASE port # ""
      <4>1. authority = Append(<<host>>, port)
        BY <3>1, <3>3
      <4> QED
        BY <4>1, OneThenAnother
    <3> QED
      BY <3>2, <3>3
  <2>2. Len(authority) <= 2
    <3> HIDE DEF authority
    <3>1. Len(authority) \in 1..2
      BY <2>1
    <3> QED
      BY <3>1
  <2>3. host \in Readings(authority)
    <3>1. \E p \in {"", authority[Len(authority)]} : Authority(host, p) = authority
      BY <2>1
    <3> QED
      BY <2>1, <3>1 DEF Readings
  <2>4. ASSUME NEW x \in DOMAIN Groups, NEW p PROVE Authority(x, p) # authority
    <3>1. Groups[x] \in Seq(STRING) /\ Len(Groups[x]) > 2
      BY GroupsAssumption
    <3>2. Pieces(x) = Groups[x]
      BY DEF Pieces
    <3>3. Len(Authority(x, p)) > 2
      <4> DEFINE g == Groups[x]
      <4>1. g \in Seq(STRING \cup {p}) /\ Len(g) > 2
        BY <3>1
      <4> HIDE DEF g
      <4>2. Len(Append(g, p)) > 2
        BY <4>1
      <4> QED
        BY <3>1, <3>2, <4>2 DEF Authority, g
    <3> HIDE DEF authority
    <3> QED
      BY <2>2, <3>3
  <2>5. Readings(authority) \subseteq {host}
    BY <2>1, <2>4 DEF Readings
  <2> QED
    BY <2>3, <2>5
<1> QED
  BY <1>1, <1>2

(* The evidence of an operation shows what its rules could read of its     *)
(* payload; and only a tool's arguments can keep an action from having it. *)
Shows(input, f, payload) ==
  LET readings == ReadBack(payload, f) IN
  \E x \in readings :
    input[f] = Str(x) /\ (readings = {x} \/ (f = "egress.host" /\ x \in DOMAIN Groups))

LEMMA RedactedShows ==
  ASSUME NEW a, Redacts(a.payload), NEW f \in PayloadFields(a.type), NEW enrichment, NEW refs
  PROVE  Shows(BuildPolicyInput(a, enrichment, refs), f, Redacted(a.payload))
<1> DEFINE r == Redacted(a.payload)
<1> DEFINE input == BuildPolicyInput(a, enrichment, refs)
<1>1. f \in {"egress.host", "memory.operation", "memory.key", "mcp.server", "mcp.tool",
             "delegation.to_agent", "model.name"}
  BY DEF PayloadFields
<1>2. /\ DOMAIN r = DOMAIN a.payload
      /\ \A key \in DOMAIN a.payload :
           /\ key = "url" => r[key] = RedactUrl(Split[Text(a.payload[key])])
           /\ key \in VerbatimKeys => r[key] = a.payload[key]
  BY DEF Redacted, DigestKeys, VerbatimKeys
<1> HIDE DEF r
<1>3. CASE f = "egress.host"
  <2>1. input[f] = Str(Host(Url(a)))
    BY <1>3 DEF BuildPolicyInput, CommonFields
  <2> HIDE DEF input
  <2>2. CASE "url" \in DOMAIN a.payload
    <3> DEFINE s == Split[Text(a.payload["url"])]
    <3>1. Classified("url", a.payload["url"])
      BY <2>2 DEF Redacts
    <3>2. a.payload["url"].type = "str"
      BY <3>1 DEF Classified, UrlClassified, DigestKeys, VerbatimKeys
    <3>3. Host(Url(a)) = s.host
      BY <2>2, <3>2 DEF Host, Url
    <3>4. r["url"].authority = Authority(s.host, s.port)
      <4>1. r["url"] = RedactUrl(s)
        BY <1>2, <2>2
      <4> HIDE DEF s
      <4> QED
        BY <4>1 DEF RedactUrl
    <3>5. ReadBack(r, f) = Readings(Authority(s.host, s.port))
      BY <1>2, <1>3, <2>2, <3>4 DEF ReadBack
    <3> QED
      BY <1>3, <2>1, <3>3, <3>5, HostIsAReading DEF Shows, r, input
  <2>3. CASE "url" \notin DOMAIN a.payload
    <3>1. ReadBack(r, f) = {""} /\ Host(Url(a)) = ""
      BY <1>2, <1>3, <2>3 DEF Host, Url, ReadBack, NoValue, Value
    <3> QED
      BY <2>1, <3>1 DEF Shows, r, input
  <2> QED
    BY <2>2, <2>3
<1>4. CASE f # "egress.host"
  <2>1. input[f] = Str(Says(a, KeyOf(f)))
    BY <1>1, <1>4 DEF BuildPolicyInput, CommonFields
  <2>2. KeyOf(f) \in VerbatimKeys
    BY <1>1, <1>4 DEF KeyOf, VerbatimKeys
  <2> DEFINE key == KeyOf(f)
  <2> HIDE DEF key, input
  <2>3. ReadBack(r, f) = {Says(a, key)}
    BY <1>2, <1>4, <2>2 DEF Says, ReadBack, key
  <2> QED
    BY <2>1, <2>3 DEF Shows, r, key, input
<1> QED
  BY <1>3, <1>4

LEMMA WrappersAreClassified ==
  ASSUME NEW q, q.type \in ActionType \ {"tool_call"}
  PROVE  Redacts(Payload(q))
<1>1. \A x : Str(x).type = "str"
  BY DEF Str, Value
<1>2. CASE q.type = "model_invocation"
  <2> DEFINE p == [model |-> Str(ModelName(q.model)), messages |-> Str(q.messages)]
  <2>1. Payload(q) = p
    BY <1>2 DEF Payload
  <2>2. \A key \in DOMAIN p : key \in VerbatimKeys \cup DigestKeys /\ p[key].type = "str"
    BY <1>1 DEF VerbatimKeys, DigestKeys
  <2> HIDE DEF p
  <2> QED
    BY <2>1, <2>2 DEF Redacts, Classified
<1>3. CASE q.type = "memory_access"
  <2> DEFINE p == [operation |-> Str(q.operation), key |-> Str(q.key), value |-> Str(q.value)]
  <2>1. Payload(q) = p
    BY <1>3 DEF Payload
  <2>2. \A key \in DOMAIN p : key \in VerbatimKeys \cup DigestKeys /\ p[key].type = "str"
    BY <1>1 DEF VerbatimKeys, DigestKeys
  <2> HIDE DEF p
  <2> QED
    BY <2>1, <2>2 DEF Redacts, Classified
<1>4. CASE q.type = "mcp_call"
  <2> DEFINE p == [server |-> Str(q.server), tool |-> Str(q.tool), args |-> Str(q.args)]
  <2>1. Payload(q) = p
    BY <1>4 DEF Payload
  <2>2. \A key \in DOMAIN p : key \in VerbatimKeys \cup DigestKeys /\ p[key].type = "str"
    BY <1>1 DEF VerbatimKeys, DigestKeys
  <2> HIDE DEF p
  <2> QED
    BY <2>1, <2>2 DEF Redacts, Classified
<1>5. CASE q.type = "delegation"
  <2> DEFINE p == [to_agent |-> Str(q.to_agent), task |-> Str(q.task)]
  <2>1. Payload(q) = p
    BY <1>5 DEF Payload
  <2>2. \A key \in DOMAIN p : key \in VerbatimKeys \cup DigestKeys /\ p[key].type = "str"
    BY <1>1 DEF VerbatimKeys, DigestKeys
  <2> HIDE DEF p
  <2> QED
    BY <2>1, <2>2 DEF Redacts, Classified
<1> QED
  BY <1>2, <1>3, <1>4, <1>5 DEF ActionType

(* Every field read by its key from the payload can be read back from the  *)
(* evidence, in one way only unless the host is an IPv6 address, whatever  *)
(* the operations, urls and addresses are.                                 *)
THEOREM AlwaysShowsWhatWasJudged == Spec => []EvidenceShowsWhatWasJudged
<1>1. IInv => EvidenceShowsWhatWasJudged
  <2> SUFFICES ASSUME IInv PROVE EvidenceShowsWhatWasJudged
    OBVIOUS
  <2>1. ASSUME stage = "recorded"
        PROVE  /\ \A f \in PayloadFields(action.type) :
                    Shows(judged, f, evidence.redacted_payload)
               /\ judged["intent.class"] = Str(evidence.inferred_intent)
               /\ judged["type"] = Str(evidence.action_type)
    <3>1. PICK refs \in MatchedRefs : judged = BuildPolicyInput(action, Enrich(action), refs)
      BY <2>1 DEF IInv, ActionInv, InputOf
    <3>2. /\ Redacts(action.payload)
          /\ evidence.redacted_payload = Redacted(action.payload)
          /\ evidence.inferred_intent = TagIntent(action)
          /\ evidence.action_type = action.type
      BY <2>1 DEF IInv, EvidenceInv, Evidence
    <3>3. Enrich(action).intent = TagIntent(action)
      BY DEF Enrich
    <3>4. judged["intent.class"] = Str(TagIntent(action)) /\ judged["type"] = Str(action.type)
      BY <3>1, <3>3, InputOfAction
    <3>5. \A f \in PayloadFields(action.type) : Shows(judged, f, Redacted(action.payload))
      BY <3>1, <3>2, RedactedShows
    <3> QED
      BY <3>2, <3>4, <3>5
  <2>2. ASSUME stage = "stripped" PROVE action.type = "tool_call"
    <3>1. PICK q \in Operations : action = Normalize(q)
      BY <2>2 DEF IInv, ActionInv, ActionOf
    <3>2. action.type = q.type /\ action.payload = Payload(q) /\ q.type \in ActionType
      BY <3>1, CompilerAssumption DEF Normalize
    <3>3. ~ Redacts(Payload(q))
      BY <2>2, <3>2 DEF IInv, EvidenceInv
    <3> QED
      BY <3>2, <3>3, WrappersAreClassified
  <2> QED
    BY <2>1, <2>2 DEF EvidenceShowsWhatWasJudged, Shows
<1> QED
  BY <1>1, InvHolds, PTL
=============================================================================
