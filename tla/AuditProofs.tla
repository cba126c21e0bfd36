---------------------------- MODULE AuditProofs -----------------------------
(***************************************************************************)
(* For any set of writers, any bodies, keys and bounds, the audit chain is *)
(* well typed, linked without a gap, never forks, and implements one       *)
(* append-only log; and a verification of it that reports OK vouches for   *)
(* every anchored head, while its false alarms are the two that are known. *)
(***************************************************************************)
EXTENDS AuditVerify, Sequences, FiniteSetTheorems, TLAPS

(* What an append in progress relies on: the head it read is on the chain, *)
(* and once inserted its own row is in the table.                          *)
CallsOnChain ==
  \A w \in Writers :
    /\ call[w].pc # "idle" => OnChain(call[w])
    /\ call[w].pc = "inserted" => RowOf(call[w]) \in rows

RowsHashed == \A r \in rows : r.hash = Digest(r.seq, r.prev, r.body)

SeqIsKey == \A r, s \in rows : r.seq = s.seq => r = s

IInv ==
  /\ TypeOK
  /\ RowsHashed
  /\ SeqIsKey
  /\ ChainLinked
  /\ HeadCommitted
  /\ CallsOnChain

(* The digest of a row is never the NULL prev_hash, and equal digests come *)
(* from equal contents.                                                    *)
LEMMA DigestInjective ==
  ASSUME NEW s1, NEW p1, NEW b1, NEW s2, NEW p2, NEW b2,
         Digest(s1, p1, b1) = Digest(s2, p2, b2)
  PROVE  s1 = s2 /\ p1 = p2 /\ b1 = b2
BY DEF Digest

LEMMA DigestNotNoPrev ==
  ASSUME NEW s, NEW p, NEW b
  PROVE  Digest(s, p, b) # NoPrev
BY DEF Digest, NoPrev

(* The table, the caches and the calls keep their types, whatever the      *)
(* table holds.                                                            *)
LEMMA ChainHeadType ==
  ASSUME TypeOK, NEW w \in Writers, NEW h \in ChainHead(w)
  PROVE  h.seq \in Nat
BY DEF ChainHead, TypeOK, Genesis, After, Last

LEMMA NextType == TypeOK /\ [Next]_vars => TypeOK'
<1> SUFFICES ASSUME TypeOK, [Next]_vars PROVE TypeOK'
  OBVIOUS
<1>1. ASSUME NEW w \in Writers, NEW b \in Bodies, Begin(w, b) PROVE TypeOK'
  <2>1. PICK h \in ChainHead(w) : call' = [call EXCEPT ![w] = Call("building", h, b)]
    BY <1>1 DEF Begin
  <2> QED
    BY <1>1, <2>1, ChainHeadType DEF Begin, TypeOK, CallOK, Call
<1>2. ASSUME NEW w \in Writers, Insert(w) PROVE TypeOK'
  <2>1. /\ rows' = rows \cup {RowOf(call[w])}
        /\ call' = [call EXCEPT ![w] = Call("inserted", call[w], call[w].body)]
        /\ head' = head
    BY <1>2 DEF Insert, TableAfterInsert
  <2>2. call[w].seq \in Nat /\ call[w].body \in Bodies
    BY <1>2 DEF Insert, TypeOK, CallOK, Idle
  <2> QED
    BY <2>1, <2>2 DEF TypeOK, CallOK, Call, RowOf
<1>3. ASSUME NEW w \in Writers, Fail(w) PROVE TypeOK'
  BY <1>3 DEF Fail, HeadAfterFailure, TypeOK, CallOK
<1>4. ASSUME NEW w \in Writers, Return(w) PROVE TypeOK'
  <2>1. call[w].seq \in Nat
    BY <1>4 DEF Return, TypeOK, CallOK, Idle
  <2> QED
    BY <1>4, <2>1 DEF Return, HeadAfterCommit, After, RowOf, TypeOK, CallOK
<1>5. ASSUME NEW w \in Writers, Restart(w) PROVE TypeOK'
  BY <1>5 DEF Restart, TypeOK, CallOK
<1>6. CASE UNCHANGED vars
  BY <1>6 DEF vars, TypeOK
<1> QED
  BY <1>1, <1>2, <1>3, <1>4, <1>5, <1>6 DEF Next

(* The initial state satisfies the invariant: there is nothing yet.        *)
LEMMA InitInv == Init => IInv
BY DEF Init, IInv, TypeOK, RowsHashed, SeqIsKey, ChainLinked, HeadCommitted,
       CallsOnChain, CallOK, NoHead, Idle

(* A begun append holds a head that is on the chain, cached or read.       *)
LEMMA ChainHeadOnChain ==
  ASSUME IInv, NEW w \in Writers, NEW h \in ChainHead(w)
  PROVE  OnChain(h) /\ h.seq \in Nat
<1>1. CASE head[w] # NoHead
  BY <1>1 DEF ChainHead, IInv, HeadCommitted, TypeOK
<1>2. CASE head[w] = NoHead /\ rows = {}
  BY <1>2 DEF ChainHead, OnChain, Genesis
<1>3. CASE head[w] = NoHead /\ rows # {}
  <2>1. PICK r \in Last : h = After(r)
    BY <1>3 DEF ChainHead
  <2>2. r \in rows /\ r.seq \in Nat
    BY <2>1 DEF Last, IInv, TypeOK
  <2>3. h.seq = r.seq + 1 /\ h.prev = r.hash
    BY <2>1 DEF After
  <2> QED
    BY <2>2, <2>3 DEF OnChain
<1> QED
  BY <1>1, <1>2, <1>3

LEMMA BeginInv ==
  ASSUME IInv, NEW w \in Writers, NEW b \in Bodies, Begin(w, b)
  PROVE  IInv'
<1>1. PICK h \in ChainHead(w) : call' = [call EXCEPT ![w] = Call("building", h, b)]
  BY DEF Begin
<1>2. rows' = rows /\ head' = head
  BY DEF Begin
<1>3. OnChain(h) /\ h.seq \in Nat
  BY ChainHeadOnChain
<1>4. TypeOK'
  BY NextType DEF IInv, Next
<1>5. RowsHashed' /\ SeqIsKey' /\ ChainLinked' /\ HeadCommitted'
  BY <1>2 DEF IInv, RowsHashed, SeqIsKey, ChainLinked, HeadCommitted, OnChain
<1>6. CallsOnChain'
  BY <1>1, <1>2, <1>3 DEF IInv, TypeOK, CallsOnChain, Call, OnChain, RowOf
<1> QED
  BY <1>4, <1>5, <1>6 DEF IInv

LEMMA InsertInv ==
  ASSUME IInv, NEW w \in Writers, Insert(w)
  PROVE  IInv'
<1> DEFINE c == call[w]
<1> DEFINE r == RowOf(c)
<1>1. /\ c.pc = "building"
      /\ rows' = rows \cup {r}
      /\ ~ SeqTaken(c.seq)
      /\ call' = [call EXCEPT ![w] = Call("inserted", c, c.body)]
      /\ head' = head
  BY DEF Insert, TableAfterInsert, RowOf
<1>2. c.seq \in Nat /\ c.body \in Bodies /\ OnChain(c)
  BY <1>1 DEF IInv, TypeOK, CallOK, CallsOnChain, Idle
<1>3. r.seq = c.seq /\ r.prev = c.prev /\ r.body = c.body
      /\ r.hash = Digest(r.seq, r.prev, r.body)
  BY DEF RowOf
<1>4. \A h : OnChain(h) => OnChain(h)'
  BY <1>1 DEF OnChain
<1>5. TypeOK'
  BY NextType DEF IInv, Next
<1>6. RowsHashed'
  BY <1>1, <1>3 DEF IInv, RowsHashed
<1>7. SeqIsKey'
  BY <1>1, <1>3 DEF IInv, SeqIsKey, SeqTaken
<1>8. ChainLinked'
  BY <1>1, <1>2, <1>3 DEF IInv, ChainLinked, OnChain
<1>9. HeadCommitted'
  BY <1>1 DEF IInv, HeadCommitted, OnChain
<1>10. CallsOnChain'
  <2>1. call'[w] = Call("inserted", c, c.body)
    BY <1>1 DEF IInv, TypeOK
  <2>2. OnChain(call[w])' /\ RowOf(call[w])' \in rows'
    BY <1>1, <1>2, <2>1 DEF Call, OnChain, RowOf
  <2>3. ASSUME NEW v \in Writers, v # w
        PROVE  /\ call'[v].pc # "idle" => OnChain(call[v])'
               /\ call'[v].pc = "inserted" => RowOf(call[v])' \in rows'
    <3>1. call'[v] = call[v]
      BY <1>1, <2>3 DEF IInv, TypeOK
    <3> QED
      BY <1>1, <2>3, <3>1 DEF IInv, CallsOnChain, OnChain, RowOf
  <2> QED
    BY <2>2, <2>3 DEF CallsOnChain
<1> QED
  BY <1>5, <1>6, <1>7, <1>8, <1>9, <1>10 DEF IInv

LEMMA FailInv ==
  ASSUME IInv, NEW w \in Writers, Fail(w)
  PROVE  IInv'
<1>1. /\ rows' = rows
      /\ call' = [call EXCEPT ![w] = Idle]
      /\ head' = [head EXCEPT ![w] = head[w]]
  BY DEF Fail, HeadAfterFailure
<1>2. DOMAIN head' = Writers /\ \A v \in Writers : head'[v] = head[v]
  BY <1>1 DEF IInv, TypeOK
<1>3. TypeOK'
  BY NextType DEF IInv, Next
<1>4. RowsHashed' /\ SeqIsKey' /\ ChainLinked' /\ HeadCommitted'
  BY <1>1, <1>2 DEF IInv, RowsHashed, SeqIsKey, ChainLinked, HeadCommitted, OnChain
<1>5. CallsOnChain'
  BY <1>1 DEF IInv, TypeOK, CallsOnChain, Idle, OnChain, RowOf
<1> QED
  BY <1>3, <1>4, <1>5 DEF IInv

LEMMA ReturnInv ==
  ASSUME IInv, NEW w \in Writers, Return(w)
  PROVE  IInv'
<1> DEFINE c == call[w]
<1>1. /\ c.pc = "inserted"
      /\ rows' = rows
      /\ call' = [call EXCEPT ![w] = Idle]
      /\ head' = [head EXCEPT ![w] = After(RowOf(c))]
  BY DEF Return, HeadAfterCommit
<1>2. RowOf(c) \in rows /\ c.seq \in Nat
  BY <1>1 DEF IInv, CallsOnChain, TypeOK, CallOK, Idle
<1>3. After(RowOf(c)).seq = c.seq + 1 /\ OnChain(After(RowOf(c)))
  BY <1>2 DEF After, RowOf, OnChain
<1>4. TypeOK'
  BY NextType DEF IInv, Next
<1>5. RowsHashed' /\ SeqIsKey' /\ ChainLinked'
  BY <1>1 DEF IInv, RowsHashed, SeqIsKey, ChainLinked, OnChain
<1>6. HeadCommitted'
  BY <1>1, <1>3 DEF IInv, TypeOK, HeadCommitted, OnChain
<1>7. CallsOnChain'
  BY <1>1 DEF IInv, TypeOK, CallsOnChain, Idle, OnChain, RowOf
<1> QED
  BY <1>4, <1>5, <1>6, <1>7 DEF IInv

LEMMA RestartInv ==
  ASSUME IInv, NEW w \in Writers, Restart(w)
  PROVE  IInv'
<1>1. /\ rows' = rows
      /\ call' = [call EXCEPT ![w] = Idle]
      /\ head' = [head EXCEPT ![w] = NoHead]
  BY DEF Restart
<1>2. TypeOK'
  BY NextType DEF IInv, Next
<1>3. RowsHashed' /\ SeqIsKey' /\ ChainLinked'
  BY <1>1 DEF IInv, RowsHashed, SeqIsKey, ChainLinked, OnChain
<1>4. HeadCommitted'
  BY <1>1 DEF IInv, TypeOK, HeadCommitted, OnChain
<1>5. CallsOnChain'
  BY <1>1 DEF IInv, TypeOK, CallsOnChain, Idle, OnChain, RowOf
<1> QED
  BY <1>2, <1>3, <1>4, <1>5 DEF IInv

LEMMA NextInv == IInv /\ [Next]_vars => IInv'
<1> SUFFICES ASSUME IInv, [Next]_vars PROVE IInv'
  OBVIOUS
<1>1. ASSUME NEW w \in Writers, NEW b \in Bodies, Begin(w, b) PROVE IInv'
  BY <1>1, BeginInv
<1>2. ASSUME NEW w \in Writers, Insert(w) PROVE IInv'
  BY <1>2, InsertInv
<1>3. ASSUME NEW w \in Writers, Fail(w) PROVE IInv'
  BY <1>3, FailInv
<1>4. ASSUME NEW w \in Writers, Return(w) PROVE IInv'
  BY <1>4, ReturnInv
<1>5. ASSUME NEW w \in Writers, Restart(w) PROVE IInv'
  BY <1>5, RestartInv
<1>6. CASE UNCHANGED vars
  BY <1>6 DEF vars, IInv, TypeOK, RowsHashed, SeqIsKey, ChainLinked,
              HeadCommitted, CallsOnChain, OnChain, RowOf
<1> QED
  BY <1>1, <1>2, <1>3, <1>4, <1>5, <1>6 DEF Next

(* A begun append carries its writer's cached head, when there is one.     *)
CallUsesHead ==
  \A w \in Writers :
    call[w].pc = "building" /\ head[w] # NoHead => call[w].seq = head[w].seq

(* A writer alone over its store is always ahead of the whole table.       *)
SoleWriterAhead ==
  \A w \in Writers : Writers = {w} =>
    /\ call[w].pc = "building" => \A r \in rows : r.seq < call[w].seq
    /\ call[w].pc = "inserted" => \A r \in rows : r.seq <= call[w].seq
    /\ call[w].pc # "inserted" /\ head[w] # NoHead =>
         \A r \in rows : r.seq < head[w].seq

AheadInv == TypeOK /\ CallUsesHead /\ SoleWriterAhead

LEMMA InitAhead == Init => AheadInv
<1> SUFFICES ASSUME Init PROVE AheadInv
  OBVIOUS
<1>1. TypeOK
  BY DEF Init, TypeOK, CallOK, NoHead, Idle
<1>2. CallUsesHead /\ SoleWriterAhead
  BY DEF Init, CallUsesHead, SoleWriterAhead, Idle, NoHead
<1> QED
  BY <1>1, <1>2 DEF AheadInv

LEMMA NextAhead == AheadInv /\ [Next]_vars => AheadInv'
<1> SUFFICES ASSUME AheadInv, [Next]_vars PROVE AheadInv'
  OBVIOUS
<1> USE DEF AheadInv
<1>1. TypeOK'
  BY NextType
<1>2. ASSUME NEW w \in Writers, NEW b \in Bodies, Begin(w, b)
      PROVE  (CallUsesHead /\ SoleWriterAhead)'
  <2>1. PICK h \in ChainHead(w) : call' = [call EXCEPT ![w] = Call("building", h, b)]
    BY <1>2 DEF Begin
  <2>2. rows' = rows /\ head' = head /\ call[w] = Idle
    BY <1>2 DEF Begin
  <2>3. call'[w].pc = "building" /\ call'[w].seq = h.seq
    BY <2>1 DEF TypeOK, Call
  <2>4. head[w] # NoHead => h.seq = head[w].seq
    BY DEF ChainHead
  <2>5. Writers = {w} => \A r \in rows : r.seq < h.seq
    <3>1. CASE head[w] # NoHead
      BY <3>1, <2>2, <2>4 DEF SoleWriterAhead, Idle
    <3>2. CASE head[w] = NoHead /\ rows # {}
      BY <3>2 DEF ChainHead, Last, After, TypeOK
    <3> QED
      BY <3>1, <3>2
  <2> QED
    BY <2>1, <2>2, <2>3, <2>4, <2>5 DEF CallUsesHead, SoleWriterAhead, Idle, TypeOK
<1>3. ASSUME NEW w \in Writers, Insert(w)
      PROVE  (CallUsesHead /\ SoleWriterAhead)'
  <2>1. /\ call[w].pc = "building"
        /\ rows' = rows \cup {RowOf(call[w])}
        /\ call' = [call EXCEPT ![w] = Call("inserted", call[w], call[w].body)]
        /\ head' = head
    BY <1>3 DEF Insert, TableAfterInsert, RowOf
  <2>2. call'[w].pc = "inserted" /\ call'[w].seq = call[w].seq
    BY <2>1 DEF TypeOK, Call
  <2>3. RowOf(call[w]).seq = call[w].seq /\ call[w].seq \in Nat
    BY <2>1 DEF RowOf, TypeOK, CallOK, Idle
  <2>4. \A r \in rows : r.seq \in Nat
    BY DEF TypeOK
  <2>5. CallUsesHead'
    BY <2>1, <2>2 DEF CallUsesHead, TypeOK
  <2>6. SoleWriterAhead'
    BY <2>1, <2>2, <2>3, <2>4 DEF SoleWriterAhead
  <2> QED
    BY <2>5, <2>6
<1>4. ASSUME NEW w \in Writers, Fail(w)
      PROVE  (CallUsesHead /\ SoleWriterAhead)'
  <2>1. /\ rows' = rows
        /\ call' = [call EXCEPT ![w] = Idle]
        /\ \A v \in Writers : head'[v] = head[v]
    BY <1>4 DEF Fail, HeadAfterFailure, TypeOK
  <2>2. call[w].pc = "building"
    BY <1>4 DEF Fail
  <2> QED
    BY <2>1, <2>2 DEF CallUsesHead, SoleWriterAhead, Idle, TypeOK
<1>5. ASSUME NEW w \in Writers, Return(w)
      PROVE  (CallUsesHead /\ SoleWriterAhead)'
  <2>1. /\ call[w].pc = "inserted"
        /\ rows' = rows
        /\ call' = [call EXCEPT ![w] = Idle]
        /\ head' = [head EXCEPT ![w] = After(RowOf(call[w]))]
    BY <1>5 DEF Return, HeadAfterCommit
  <2>2. After(RowOf(call[w])).seq = call[w].seq + 1 /\ call[w].seq \in Nat
    BY <2>1 DEF After, RowOf, TypeOK, CallOK, Idle
  <2>3. \A r \in rows : r.seq \in Nat
    BY DEF TypeOK
  <2> QED
    BY <2>1, <2>2, <2>3 DEF CallUsesHead, SoleWriterAhead, Idle, TypeOK
<1>6. ASSUME NEW w \in Writers, Restart(w)
      PROVE  (CallUsesHead /\ SoleWriterAhead)'
  BY <1>6 DEF Restart, CallUsesHead, SoleWriterAhead, Idle, NoHead, TypeOK
<1>7. CASE UNCHANGED vars
  BY <1>1, <1>7 DEF vars, CallUsesHead, SoleWriterAhead
<1> QED
  BY <1>1, <1>2, <1>3, <1>4, <1>5, <1>6, <1>7 DEF Next

(* Type correctness of the audit chain, for every set of writers.          *)
THEOREM TypeCorrect == Spec => []TypeOK
<1>1. IInv => TypeOK
  BY DEF IInv
<1> QED
  BY InitInv, NextInv, <1>1, PTL DEF Spec

(* The chain is linked with no gap, whatever failed, raced or restarted.   *)
THEOREM ChainAlwaysLinked == Spec => []ChainLinked
<1>1. IInv => ChainLinked
  BY DEF IInv
<1> QED
  BY InitInv, NextInv, <1>1, PTL DEF Spec

(* No two rows share a seq or name the same predecessor: concurrent        *)
(* writers with stale caches never fork the chain.                         *)
THEOREM ChainNeverForks == Spec => []NoFork
<1>1. ASSUME IInv PROVE NoFork
  <2> SUFFICES ASSUME NEW r \in rows, NEW s \in rows, r.prev = s.prev
               PROVE  r.seq = s.seq
    BY <1>1 DEF NoFork, IInv, SeqIsKey
  <2>1. r.seq \in Nat /\ s.seq \in Nat /\ OnChain(r) /\ OnChain(s)
    BY <1>1 DEF IInv, TypeOK, ChainLinked
  <2>2. \A t \in rows : t.hash = Digest(t.seq, t.prev, t.body) /\ t.seq \in Nat
    BY <1>1 DEF IInv, RowsHashed, TypeOK
  <2>3. \A t \in rows : t.hash # NoPrev
    BY <2>2, DigestNotNoPrev
  <2>4. \A t, u \in rows : t.hash = u.hash => t.seq = u.seq
    BY <2>2, DigestInjective
  <2> QED
    BY <2>1, <2>2, <2>3, <2>4 DEF OnChain
<1> QED
  BY InitInv, NextInv, <1>1, PTL DEF Spec

LEMMA AheadIsSafe == AheadInv => SoleWriterNeverCollides
<1> SUFFICES ASSUME AheadInv PROVE SoleWriterNeverCollides
  OBVIOUS
<1>1. \A w \in Writers : call[w].pc = "building" => call[w].seq \in Nat
  BY DEF AheadInv, TypeOK, CallOK, Idle
<1>2. \A r \in rows : r.seq \in Nat
  BY DEF AheadInv, TypeOK
<1> QED
  BY <1>1, <1>2 DEF AheadInv, SoleWriterAhead, SoleWriterNeverCollides, SeqTaken

(* A writer that is alone over its store never collides with a taken seq,  *)
(* however often it failed or restarted.                                   *)
THEOREM SoleWriterSafe == Spec => []SoleWriterNeverCollides
BY InitAhead, NextAhead, AheadIsSafe, PTL DEF Spec

(* A writer whose cached head names a seq that another writer has taken    *)
(* inserts nothing until it restarts.                                      *)
THEOREM StaleWriterFailsClosed == Spec => StaleWriterWritesNothing
<1>1. ASSUME AheadInv, [Next]_vars
      PROVE  [\A w \in Writers : Stale(w) => call'[w].pc # "inserted"]_vars
  <2> SUFFICES ASSUME Next, NEW v \in Writers, Stale(v)
               PROVE  call'[v].pc # "inserted"
    BY <1>1
  <2>1. ASSUME NEW w \in Writers, NEW b \in Bodies, Begin(w, b)
        PROVE  call'[v].pc # "inserted"
    BY <1>1, <2>1 DEF Begin, Call, Stale, AheadInv, TypeOK
  <2>2. ASSUME NEW w \in Writers, Insert(w) PROVE call'[v].pc # "inserted"
    <3>1. call[w].pc = "building" /\ ~ SeqTaken(call[w].seq)
      BY <2>2 DEF Insert, TableAfterInsert, RowOf
    <3>2. v # w
      BY <1>1, <3>1 DEF Stale, AheadInv, CallUsesHead
    <3> QED
      BY <1>1, <2>2, <3>2 DEF Insert, Stale, AheadInv, TypeOK
  <2>3. ASSUME NEW w \in Writers, Fail(w) \/ Return(w) \/ Restart(w)
        PROVE  call'[v].pc # "inserted"
    BY <1>1, <2>3 DEF Fail, Return, Restart, Idle, Stale, AheadInv, TypeOK
  <2> QED
    BY <2>1, <2>2, <2>3 DEF Next
<1> QED
  BY InitAhead, NextAhead, <1>1, PTL DEF Spec, StaleWriterWritesNothing
-----------------------------------------------------------------------------
(* The refinement.  The seqs of the table are 0 .. Cardinality(rows) - 1:  *)
(* an insert takes the next one, for the row before it is on the chain and *)
(* a taken seq is refused.                                                 *)
Contiguous ==
  /\ IsFiniteSet(rows)
  /\ \A r \in rows : r.seq < Cardinality(rows)
  /\ \A i \in 0..(Cardinality(rows) - 1) : SeqTaken(i)

LogInv == IInv /\ Contiguous

LEMMA InsertAppends ==
  ASSUME LogInv, NEW w \in Writers, Insert(w)
  PROVE  /\ call[w].seq = Cardinality(rows) /\ Cardinality(rows) \in Nat
         /\ rows' = rows \cup {RowOf(call[w])} /\ RowOf(call[w]).seq = Cardinality(rows)
         /\ call[w].body \in Bodies
         /\ IsFiniteSet(rows') /\ Cardinality(rows') = Cardinality(rows) + 1
<1>1. /\ call[w].pc = "building"
      /\ rows' = rows \cup {RowOf(call[w])}
      /\ ~ SeqTaken(call[w].seq)
      /\ RowOf(call[w]).seq = call[w].seq
  BY DEF Insert, TableAfterInsert, RowOf
<1>2. call[w].seq \in Nat /\ call[w].body \in Bodies /\ OnChain(call[w])
  BY <1>1 DEF LogInv, IInv, TypeOK, CallOK, CallsOnChain, Idle
<1>3. Cardinality(rows) \in Nat /\ IsFiniteSet(rows)
  BY FS_CardinalityType DEF LogInv, Contiguous
<1>4. call[w].seq <= Cardinality(rows)
  <2>1. CASE call[w].seq = 0
    BY <1>3, <2>1
  <2>2. CASE \E s \in rows : s.seq = call[w].seq - 1
    BY <1>2, <1>3, <2>2 DEF LogInv, Contiguous
  <2> QED
    BY <1>2, <2>1, <2>2 DEF OnChain
<1>5. ~ (call[w].seq < Cardinality(rows))
  BY <1>1, <1>2, <1>3 DEF LogInv, Contiguous
<1>6. RowOf(call[w]) \notin rows
  BY <1>1 DEF SeqTaken
<1>7. IsFiniteSet(rows') /\ Cardinality(rows') = Cardinality(rows) + 1
  BY <1>1, <1>3, <1>6, FS_AddElement
<1> QED
  BY <1>1, <1>2, <1>3, <1>4, <1>5, <1>7

(* Only an insert touches the table.                                       *)
LEMMA OnlyInsertsWrite ==
  ASSUME [Next]_vars
  PROVE  rows' = rows \/ \E w \in Writers : Insert(w)
BY DEF Next, vars, Begin, Fail, Return, Restart

LEMMA InitLog == Init => LogInv
<1> SUFFICES ASSUME Init PROVE Contiguous
  BY InitInv DEF LogInv
<1>1. rows = {} /\ IsFiniteSet(rows) /\ Cardinality(rows) = 0
  BY FS_EmptySet DEF Init
<1> QED
  BY <1>1 DEF Contiguous

LEMMA NextLog == LogInv /\ [Next]_vars => LogInv'
<1> SUFFICES ASSUME LogInv, [Next]_vars PROVE Contiguous'
  BY NextInv DEF LogInv
<1>1. CASE rows' = rows
  BY <1>1 DEF LogInv, Contiguous, SeqTaken
<1>2. ASSUME NEW w \in Writers, Insert(w) PROVE Contiguous'
  <2>1. /\ Cardinality(rows) \in Nat
        /\ rows' = rows \cup {RowOf(call[w])} /\ RowOf(call[w]).seq = Cardinality(rows)
        /\ IsFiniteSet(rows') /\ Cardinality(rows') = Cardinality(rows) + 1
    BY <1>2, InsertAppends
  <2>2. \A r \in rows : r.seq \in Nat
    BY DEF LogInv, IInv, TypeOK
  <2>3. \A r \in rows' : r.seq < Cardinality(rows')
    BY <2>1, <2>2 DEF LogInv, Contiguous
  <2>4. \A i \in 0..(Cardinality(rows') - 1) : SeqTaken(i)'
    BY <2>1 DEF LogInv, Contiguous, SeqTaken
  <2> QED
    BY <2>1, <2>3, <2>4 DEF Contiguous
<1> QED
  BY <1>1, <1>2, OnlyInsertsWrite

(* The row that stands for an entry of the log.                            *)
LEMMA EntryHolds ==
  ASSUME LogInv, NEW i \in 1..Cardinality(rows)
  PROVE  Entry(i) \in rows /\ Entry(i).seq = i - 1
<1>1. Cardinality(rows) \in Nat
  BY FS_CardinalityType DEF LogInv, Contiguous
<1>2. \E r \in rows : r.seq = i - 1
  BY <1>1 DEF LogInv, Contiguous, SeqTaken
<1> QED
  BY <1>2 DEF Entry

LEMMA InsertCommits ==
  ASSUME LogInv, NEW w \in Writers, Insert(w)
  PROVE  Log!Commit(call[w].body) /\ call[w].body \in Bodies
<1>1. PICK n \in Nat :
        /\ n = Cardinality(rows) /\ Cardinality(rows') = n + 1
        /\ rows' = rows \cup {RowOf(call[w])} /\ RowOf(call[w]).seq = n
        /\ call[w].body \in Bodies
  BY InsertAppends
<1> DEFINE log == [i \in 1..n |-> Entry(i).body]
<1> DEFINE grown == [i \in 1..(n + 1) |-> Entry(i)'.body]
<1>2. LogInv'
  BY NextLog DEF Next
<1>3. \A i \in 1..(n + 1) : Entry(i)' \in rows' /\ Entry(i)'.seq = i - 1
  <2> SUFFICES ASSUME NEW i \in 1..(n + 1)
               PROVE  Entry(i)' \in rows' /\ Entry(i)'.seq = i - 1
    OBVIOUS
  <2>1. \E r \in rows' : r.seq = i - 1
    BY <1>1, <1>2 DEF LogInv, Contiguous, SeqTaken
  <2> QED
    BY <2>1 DEF Entry
<1>4. \A r, s \in rows' : r.seq = s.seq => r = s
  BY <1>2 DEF LogInv, IInv, SeqIsKey
<1>5. \A i \in 1..n : Entry(i) \in rows /\ Entry(i).seq = i - 1
  BY <1>1, EntryHolds
<1>6. \A i \in 1..n : Entry(i)' = Entry(i)
  BY <1>1, <1>3, <1>4, <1>5
<1>7. Entry(n + 1)' = RowOf(call[w])
  BY <1>1, <1>3, <1>4
<1>8. RowOf(call[w]).body = call[w].body
  BY DEF RowOf
<1>9. \A r \in rows : r.body \in Bodies
  BY DEF LogInv, IInv, TypeOK
<1>10. log \in Seq(Bodies) /\ Len(log) = n /\ \A i \in 1..n : log[i] = Entry(i).body
  BY <1>5, <1>9
<1>11. grown = Append(log, call[w].body)
  BY <1>6, <1>7, <1>8, <1>10
<1>12. [i \in 1..Cardinality(rows) |-> Entry(i).body]' = grown
  BY <1>1
<1> QED
  BY <1>1, <1>11, <1>12 DEF Log!Commit

(* The audit chain implements the append-only log: the bodies in seq order *)
(* only grow, by one record at the end, whatever raced, failed or crashed. *)
THEOREM ChainImplementsLog == Spec => ImplementsLog
<1>1. Init => Log!Init
  <2> SUFFICES ASSUME Init PROVE Log!Init
    OBVIOUS
  <2>1. Cardinality(rows) = 0
    BY FS_EmptySet DEF Init
  <2> QED
    BY <2>1 DEF Log!Init
<1>2. ASSUME LogInv, [Next]_vars
      PROVE  [Log!Next]_([i \in 1..Cardinality(rows) |-> Entry(i).body])
  <2>1. CASE rows' = rows
    BY <2>1 DEF Entry
  <2>2. ASSUME NEW w \in Writers, Insert(w) PROVE Log!Next
    BY <2>2, <1>2, InsertCommits DEF Log!Next
  <2> QED
    BY <1>2, <2>1, <2>2, OnlyInsertsWrite
<1> QED
  BY InitLog, NextLog, <1>1, <1>2, PTL DEF Spec, ImplementsLog, Log!Spec

-----------------------------------------------------------------------------
(* The audit chain under a verifier, a checkpoint service and a storage    *)
(* that fails: the seqs stay a key of the table, and a writer that is      *)
(* alone stays ahead of it, for storage only takes rows away.              *)
Sequenced(R) ==
  /\ \A r \in R : r.seq \in Nat
  /\ \A r, s \in R : r.seq = s.seq => r = s

LEMMA WritersStepOrNot ==
  ASSUME [VerifyNext]_auditVars
  PROVE  \/ ChainStep
         \/ UNCHANGED vars
         \/ LoseTail \/ LoseRow \/ ChangeBody
BY DEF VerifyNext, auditVars, tableVars, vars, ReadRows, ReadCheckpoints, ReadHead,
       StoreCheckpoint, AnchorFails, GarbleSignature, GarbleProof

LEMMA ChainStepIsNext ==
  ASSUME ChainStep
  PROVE  Next
BY DEF ChainStep, WriterStep, Next

(* What a damaged table still holds: rows it held, or one of them with     *)
(* another body.                                                           *)
Record(s, p, b, h) == [seq |-> s, prev |-> p, body |-> b, hash |-> h]
Shaped(R) == \A r \in R : r = Record(r.seq, r.prev, r.body, r.hash)

LEMMA DamageKeeps ==
  ASSUME LoseTail \/ LoseRow \/ ChangeBody, Shaped(rows)
  PROVE  /\ head' = head /\ call' = call
         /\ faults' = faults + 1
         /\ UNCHANGED <<key, checkpoints, anchoring, verifying, report, anchored>>
         /\ Shaped(rows')
         /\ \A r \in rows' : \E s \in rows : r.seq = s.seq
         /\ Sequenced(rows) => Sequenced(rows')
         /\ (\A r \in rows : r.body \in Bodies) => \A r \in rows' : r.body \in Bodies
<1>1. \E R : /\ Damage(R)
             /\ \/ R \subseteq rows
                \/ \E r \in rows, b \in Bodies :
                     R = (rows \ {r}) \cup {Record(r.seq, r.prev, b, r.hash)}
  <2>1. CASE LoseTail
    BY <2>1 DEF LoseTail, Preceding
  <2>2. CASE LoseRow
    BY <2>2 DEF LoseRow
  <2>3. CASE ChangeBody
    <3>1. PICK r \in rows, b \in Bodies : Damage((rows \ {r}) \cup {[r EXCEPT !.body = b]})
      BY <2>3 DEF ChangeBody
    <3>2. r = Record(r.seq, r.prev, r.body, r.hash)
      BY DEF Shaped
    <3>3. [r EXCEPT !.body = b] = Record(r.seq, r.prev, b, r.hash)
      BY <3>2 DEF Record
    <3> QED
      BY <3>1, <3>3
  <2> QED
    BY <2>1, <2>2, <2>3
<1>2. PICK R : /\ Damage(R)
               /\ \/ R \subseteq rows
                  \/ \E r \in rows, b \in Bodies :
                       R = (rows \ {r}) \cup {Record(r.seq, r.prev, b, r.hash)}
  BY <1>1
<1>3. /\ rows' = R /\ head' = head /\ call' = call
      /\ faults' = faults + 1
      /\ UNCHANGED <<key, checkpoints, anchoring, verifying, report, anchored>>
  BY <1>2 DEF Damage, Fault
<1>4. CASE R \subseteq rows
  BY <1>3, <1>4 DEF Shaped, Sequenced
<1>5. ASSUME NEW r \in rows, NEW b \in Bodies,
             R = (rows \ {r}) \cup {Record(r.seq, r.prev, b, r.hash)}
      PROVE  /\ Shaped(R)
             /\ \A q \in R : \E s \in rows : q.seq = s.seq
             /\ Sequenced(rows) => Sequenced(R)
             /\ (\A q \in rows : q.body \in Bodies) => \A q \in R : q.body \in Bodies
  <2> DEFINE q == Record(r.seq, r.prev, b, r.hash)
  <2>1. q.seq = r.seq /\ q.body = b /\ q = Record(q.seq, q.prev, q.body, q.hash)
    BY DEF Record
  <2>2. \A p \in R : p = q \/ (p \in rows /\ p # r)
    BY <1>5
  <2> HIDE DEF q
  <2>3. Shaped(R)
    BY <2>1, <2>2 DEF Shaped
  <2>4. Sequenced(rows) => Sequenced(R)
    BY <2>1, <2>2 DEF Sequenced
  <2> QED
    BY <2>1, <2>2, <2>3, <2>4
<1> QED
  BY <1>2, <1>3, <1>4, <1>5

TableInv == AheadInv /\ Shaped(rows) /\ Sequenced(rows)

LEMMA InitTable == Init => TableInv
<1> SUFFICES ASSUME Init PROVE TableInv
  OBVIOUS
<1>1. rows = {}
  BY DEF Init
<1> QED
  BY <1>1, InitAhead DEF TableInv, Shaped, Sequenced

LEMMA NextTable == TableInv /\ [Next]_vars => TableInv'
<1> SUFFICES ASSUME TableInv, [Next]_vars PROVE TableInv'
  OBVIOUS
<1>1. AheadInv'
  BY NextAhead DEF TableInv
<1>2. CASE rows' = rows
  BY <1>1, <1>2 DEF TableInv
<1>3. ASSUME NEW w \in Writers, Insert(w) PROVE TableInv'
  <2> DEFINE r == RowOf(call[w])
  <2>1. rows' = rows \cup {r} /\ ~ SeqTaken(r.seq)
    BY <1>3 DEF Insert, TableAfterInsert
  <2>2. r = Record(r.seq, r.prev, r.body, r.hash) /\ r.seq = call[w].seq
    BY DEF RowOf, Record
  <2>3. r.seq \in Nat
    BY <1>3, <2>2 DEF Insert, TableInv, AheadInv, TypeOK, CallOK, Idle
  <2> HIDE DEF r
  <2>4. Shaped(rows')
    BY <2>1, <2>2 DEF TableInv, Shaped
  <2>5. Sequenced(rows')
    BY <2>1, <2>3 DEF TableInv, Sequenced, SeqTaken
  <2> QED
    BY <1>1, <2>4, <2>5 DEF TableInv
<1> QED
  BY <1>2, <1>3, OnlyInsertsWrite

LEMMA VerifyNextTable == TableInv /\ [VerifyNext]_auditVars => TableInv'
<1> SUFFICES ASSUME TableInv, [VerifyNext]_auditVars PROVE TableInv'
  OBVIOUS
<1>1. CASE ChainStep \/ UNCHANGED vars
  BY <1>1, NextTable, ChainStepIsNext
<1>2. CASE LoseTail \/ LoseRow \/ ChangeBody
  <2>1. /\ head' = head /\ call' = call
        /\ Shaped(rows') /\ Sequenced(rows')
        /\ \A r \in rows' : \E s \in rows : r.seq = s.seq
        /\ \A r \in rows' : r.body \in Bodies
    BY <1>2, DamageKeeps DEF TableInv, AheadInv, TypeOK
  <2>2. TypeOK'
    BY <2>1 DEF TableInv, AheadInv, TypeOK
  <2>3. CallUsesHead'
    BY <2>1 DEF TableInv, AheadInv, CallUsesHead
  <2>4. SoleWriterAhead'
    BY <2>1 DEF TableInv, AheadInv, SoleWriterAhead
  <2> QED
    BY <2>1, <2>2, <2>3, <2>4 DEF TableInv, AheadInv
<1> QED
  BY <1>1, <1>2, WritersStepOrNot

LEMMA VerifyInitTable == VerifyInit => TableInv
BY InitTable DEF VerifyInit

(* Even over a storage that loses rows, a writer that is alone over it     *)
(* never collides with a taken seq.                                        *)
THEOREM SoleWriterSafeOverFaults == VerifySpec => []SoleWriterNeverCollides
<1>1. TableInv => SoleWriterNeverCollides
  BY AheadIsSafe DEF TableInv
<1> QED
  BY VerifyInitTable, VerifyNextTable, <1>1, PTL DEF VerifySpec

-----------------------------------------------------------------------------
(* Accepted histories.  Two intact tables that hold the same hash at a seq *)
(* hold the same history up to it: the links lead down both, hash by hash. *)
LEMMA HasLeast ==
  ASSUME NEW S \in SUBSET Nat, S # {}
  PROVE  \E e \in S : \A f \in S : e <= f
<1> DEFINE R == OpToRel(<, Nat)
<1>1. IsWellFoundedOn(R, Nat)
  BY NatLessThanWellFounded
<1>2. PICK e \in S : \A f \in S : <<f, e>> \notin R
  <2> HIDE DEF R
  <2> QED
    BY <1>1, WFMin
<1>3. \A f \in S : f < e => <<f, e>> \in R
  <2> TAKE f \in S
  <2> HAVE f < e
  <2>1. <<f, e>> \in Nat \X Nat /\ <<f, e>>[1] < <<f, e>>[2]
    OBVIOUS
  <2> QED
    BY <2>1 DEF OpToRel
<1>4. \A f \in S : ~ (f < e)
  <2> HIDE DEF R
  <2> QED
    BY <1>2, <1>3
<1> QED
  BY <1>4

LEMMA FirstBySeq ==
  ASSUME NEW F, F # {}, \A r \in F : r.seq \in Nat
  PROVE  \E f \in F : \A q \in F : f.seq <= q.seq
<1> DEFINE S == {r.seq : r \in F}
<1>1. S \in SUBSET Nat /\ S # {}
  OBVIOUS
<1>2. PICK e \in S : \A f \in S : e <= f
  BY <1>1, HasLeast
<1> QED
  BY <1>2

Chained(R) == Sequenced(R) /\ RowsIntact(R)

LEMMA ChainsAgree ==
  ASSUME NEW R, Chained(R), NEW r \in R,
         NEW S, Chained(S), NEW s \in S, Recomputed(r) = Recomputed(s)
  PROVE  \A q \in R : q.seq <= r.seq => \E p \in S : p.seq = q.seq /\ p.body = q.body
<1> DEFINE Agree(i) == \E q \in R, p \in S :
                         q.seq = r.seq - i /\ Recomputed(q) = Recomputed(p)
<1> DEFINE Apart == {i \in 0..r.seq : ~ Agree(i)}
<1>1. r.seq \in Nat /\ (\A q \in R : q.seq \in Nat) /\ (\A p \in S : p.seq \in Nat)
  BY DEF Chained, Sequenced
<1>2. \A q \in R, p \in S : Recomputed(q) = Recomputed(p) =>
        q.seq = p.seq /\ q.prev = p.prev /\ q.body = p.body
  BY DigestInjective DEF Recomputed
<1>3. Apart = {}
  <2> SUFFICES ASSUME Apart # {} PROVE FALSE
    OBVIOUS
  <2>1. PICK i \in Apart : \A j \in Apart : i <= j
    <3>1. Apart \in SUBSET Nat
      BY <1>1
    <3> QED
      BY <3>1, HasLeast
  <2>2. Agree(0)
    BY <1>1
  <2>3. i \in 1..r.seq /\ i - 1 \in 0..r.seq /\ i - 1 \notin Apart
    BY <1>1, <2>1, <2>2
  <2>4. PICK q \in R, p \in S : q.seq = r.seq - (i - 1) /\ Recomputed(q) = Recomputed(p)
    BY <2>3
  <2>5. q.seq # 0 /\ p.seq = q.seq /\ p.prev = q.prev
    BY <1>1, <1>2, <2>3, <2>4
  <2>6. PICK q2 \in R : q2.seq = q.seq - 1 /\ q.prev = Recomputed(q2)
    BY <2>5 DEF Chained, RowsIntact, RowIntact
  <2>7. PICK p2 \in S : p2.seq = p.seq - 1 /\ p.prev = Recomputed(p2)
    BY <2>5 DEF Chained, RowsIntact, RowIntact
  <2>8. Agree(i)
    BY <1>1, <2>3, <2>4, <2>5, <2>6, <2>7
  <2> QED
    BY <2>1, <2>8
<1>4. SUFFICES ASSUME NEW q \in R, q.seq <= r.seq
               PROVE  \E p \in S : p.seq = q.seq /\ p.body = q.body
  OBVIOUS
<1>5. r.seq - q.seq \in 0..r.seq
  BY <1>1, <1>4
<1>6. Agree(r.seq - q.seq)
  BY <1>3, <1>5
<1>7. PICK q2 \in R, p \in S : q2.seq = r.seq - (r.seq - q.seq) /\ Recomputed(q2) = Recomputed(p)
  BY <1>6
<1>8. q2 = q
  BY <1>1, <1>7 DEF Chained, Sequenced
<1> QED
  BY <1>2, <1>7, <1>8

LEMMA SameHistory ==
  ASSUME NEW R, Chained(R), NEW r \in R,
         NEW S, Chained(S), NEW s \in S, Recomputed(r) = Recomputed(s)
  PROVE  History(R, r.seq) = History(S, s.seq)
<1>1. r.seq = s.seq
  BY DigestInjective DEF Recomputed
<1>2. \A q \in R : q.seq <= r.seq => \E p \in S : p.seq = q.seq /\ p.body = q.body
  BY ChainsAgree
<1>3. \A p \in S : p.seq <= s.seq => \E q \in R : q.seq = p.seq /\ q.body = p.body
  BY ChainsAgree
<1> QED
  BY <1>1, <1>2, <1>3 DEF History

(* What the two loops of verify_chain conclude from an OK.                 *)
LEMMA AcceptedRows ==
  ASSUME NEW R, Sequenced(R), NEW S, NEW pem, RowsVerdict(R, S, pem) = "ok"
  PROVE  Chained(R)
<1> DEFINE failing == {r \in R : RowCheck(R, S, pem, r) # "ok"}
<1>1. failing = {}
  <2> SUFFICES ASSUME failing # {} PROVE FALSE
    OBVIOUS
  <2>1. \E f \in failing : \A q \in failing : f.seq <= q.seq
    BY FirstBySeq DEF Sequenced
  <2> DEFINE first == CHOOSE f \in failing : \A q \in failing : f.seq <= q.seq
  <2>2. first \in failing
    BY <2>1
  <2>3. RowsVerdict(R, S, pem) = RowCheck(R, S, pem, first)
    BY DEF RowsVerdict
  <2> QED
    BY <2>2, <2>3
<1> QED
  BY <1>1 DEF RowCheck, RowsIntact, Chained

LEMMA AcceptedCheckpoints ==
  ASSUME NEW R, NEW C, NEW trusted, "ok" \in CheckpointVerdicts(R, C, trusted)
  PROVE  \A c \in C : \E r \in R : Binds(r, c)
<1>1. Failing(R, C, trusted) = {}
  BY DEF CheckpointVerdicts, Failing
<1> QED
  BY <1>1 DEF Failing, CheckpointCheck

(* The history was that of an intact table with the hash at the seq.       *)
Vouched(seq, hash, history) ==
  \E R : /\ Chained(R)
         /\ \E r \in R : r.seq = seq /\ r.hash = hash
         /\ history = History(R, seq)

(* An intact table that binds a checkpoint holds the history it vouches for.*)
LEMMA BoundHistory ==
  ASSUME NEW R, Chained(R), NEW c, NEW r \in R, Binds(r, c),
         NEW history, Vouched(c.seq, c.hash, history)
  PROVE  History(R, c.seq) = history
<1>1. PICK S : /\ Chained(S)
               /\ \E s \in S : s.seq = c.seq /\ s.hash = c.hash
               /\ history = History(S, c.seq)
  BY DEF Vouched
<1>2. PICK s \in S : s.seq = c.seq /\ s.hash = c.hash
  BY <1>1
<1>3. Recomputed(s) = c.hash
  BY <1>1, <1>2 DEF Chained, RowsIntact, RowIntact, HashMatches
<1>4. r.seq = c.seq /\ Recomputed(r) = c.hash
  BY DEF Binds
<1> QED
  BY <1>1, <1>2, <1>3, <1>4, SameHistory

AcceptInv ==
  /\ TableInv
  /\ verifying # Nothing => Chained(verifying.rows)
  /\ anchoring # Nothing /\ anchoring.intact =>
       Vouched(anchoring.seq, anchoring.hash, anchoring.history)
  /\ \A a \in anchored : Vouched(a.checkpoint.seq, a.checkpoint.hash, a.history)
  /\ AcceptedHistoryIsAnchored

LEMMA InitAccept == VerifyInit => AcceptInv
<1> SUFFICES ASSUME VerifyInit PROVE AcceptInv
  OBVIOUS
<1> QED
  BY VerifyInitTable DEF VerifyInit, AcceptInv, AcceptedHistoryIsAnchored, NoReport, Report

LEMMA NextAccept == AcceptInv /\ [VerifyNext]_auditVars => AcceptInv'
<1> SUFFICES ASSUME AcceptInv, [VerifyNext]_auditVars PROVE AcceptInv'
  OBVIOUS
<1>1. TableInv'
  BY VerifyNextTable DEF AcceptInv
<1>2. CASE UNCHANGED <<anchoring, verifying, report, anchored>>
  BY <1>1, <1>2 DEF AcceptInv, AcceptedHistoryIsAnchored
<1>3. CASE ReadRows
  <2>1. PICK pem \in Keys \cup {NoKey} :
          LET verdict == RowsVerdict(rows, signed, pem) IN
          IF verdict = "ok"
          THEN /\ verifying' = [pc |-> "rows", rows |-> rows, pem |-> pem, quiet |-> TRUE]
               /\ report' = NoReport
          ELSE /\ report' = Report(verdict, TRUE, TRUE, Foreign(RowSigners, pem))
               /\ UNCHANGED verifying
    BY <1>3 DEF ReadRows
  <2>2. UNCHANGED <<anchoring, anchored>> /\ verifying = Nothing
    BY <1>3 DEF ReadRows
  <2>3. verifying' # Nothing => Chained(verifying'.rows)
    <3>1. CASE RowsVerdict(rows, signed, pem) = "ok"
      <4>1. verifying'.rows = rows
        BY <2>1, <3>1
      <4> QED
        BY <3>1, <4>1, AcceptedRows DEF AcceptInv, TableInv
    <3>2. CASE RowsVerdict(rows, signed, pem) # "ok"
      BY <2>1, <2>2, <3>2
    <3> QED
      BY <3>1, <3>2
  <2>4. AcceptedHistoryIsAnchored'
    BY <2>1 DEF AcceptedHistoryIsAnchored, NoReport, Report
  <2> QED
    BY <1>1, <2>2, <2>3, <2>4 DEF AcceptInv
<1>4. CASE ReadCheckpoints
  <2>1. PICK root \in BOOLEAN :
          \E check \in CheckpointVerdicts(verifying.rows, checkpoints, Trusted(verifying.pem, root)) :
            report' = Report(check, verifying.quiet, Faithful(verifying.rows, checkpoints),
                             Foreign(ProofSigners, Trusted(verifying.pem, root)))
    BY <1>4 DEF ReadCheckpoints
  <2>2. PICK check \in CheckpointVerdicts(verifying.rows, checkpoints, Trusted(verifying.pem, root)) :
          report' = Report(check, verifying.quiet, Faithful(verifying.rows, checkpoints),
                           Foreign(ProofSigners, Trusted(verifying.pem, root)))
    BY <2>1
  <2>3. verifying' = Nothing /\ UNCHANGED <<anchoring, anchored>> /\ verifying # Nothing
    BY <1>4 DEF ReadCheckpoints, Nothing
  <2>4. ASSUME check = "ok" PROVE Faithful(verifying.rows, checkpoints)
    <3> SUFFICES ASSUME NEW a \in anchored, a.checkpoint \in checkpoints
                 PROVE  History(verifying.rows, a.checkpoint.seq) = a.history
      BY DEF Faithful
    <3>1. PICK r \in verifying.rows : Binds(r, a.checkpoint)
      BY <2>2, <2>4, AcceptedCheckpoints
    <3> QED
      BY <2>3, <3>1, BoundHistory DEF AcceptInv
  <2>5. AcceptedHistoryIsAnchored'
    BY <2>2, <2>4 DEF AcceptedHistoryIsAnchored, Report
  <2> QED
    BY <1>1, <2>3, <2>5 DEF AcceptInv
<1>5. CASE ReadHead
  <2>1. PICK r \in Heads :
          anchoring' = [pc |-> "anchoring", seq |-> r.seq, hash |-> r.hash,
                        intact |-> RowsIntact(rows), history |-> History(rows, r.seq)]
    BY <1>5 DEF ReadHead
  <2>2. UNCHANGED <<verifying, report, anchored>>
    BY <1>5 DEF ReadHead
  <2>3. r \in rows
    BY DEF Heads, Last
  <2>4. anchoring'.intact => Vouched(anchoring'.seq, anchoring'.hash, anchoring'.history)
    BY <2>1, <2>3 DEF Vouched, Chained, AcceptInv, TableInv
  <2> QED
    BY <1>1, <2>2, <2>4 DEF AcceptInv, AcceptedHistoryIsAnchored
<1>6. CASE StoreCheckpoint
  <2>1. PICK by \in Anchors :
          LET c == Checkpoint(anchoring.seq, anchoring.hash,
                              Signature(by, Message(anchoring.seq, anchoring.hash))) IN
          anchored' = IF anchoring.intact
                      THEN anchored \cup {[checkpoint |-> c, history |-> anchoring.history]}
                      ELSE anchored
    BY <1>6 DEF StoreCheckpoint
  <2>2. /\ anchoring # Nothing /\ anchoring' = Nothing
        /\ verifying' = IF verifying = Nothing THEN Nothing ELSE [verifying EXCEPT !.quiet = FALSE]
        /\ report' = report
    BY <1>6 DEF StoreCheckpoint, Nothing
  <2>3. \A a \in anchored' : Vouched(a.checkpoint.seq, a.checkpoint.hash, a.history)
    BY <2>1, <2>2 DEF AcceptInv, Checkpoint
  <2>4. verifying' # Nothing => verifying # Nothing /\ verifying'.rows = verifying.rows
    BY <2>2
  <2> QED
    BY <1>1, <2>2, <2>3, <2>4 DEF AcceptInv, AcceptedHistoryIsAnchored
<1>7. CASE AnchorFails
  BY <1>1, <1>7 DEF AnchorFails, AcceptInv, AcceptedHistoryIsAnchored
<1>8. CASE ChainStep \/ LoseTail \/ LoseRow \/ ChangeBody \/ GarbleSignature \/ GarbleProof
  <2>1. UNCHANGED <<anchoring, verifying, report, anchored>>
    BY <1>8 DEF ChainStep, LoseTail, LoseRow, ChangeBody, Damage, GarbleSignature, GarbleProof
  <2> QED
    BY <1>2, <2>1
<1>9. CASE UNCHANGED auditVars
  BY <1>2, <1>9 DEF auditVars
<1> QED
  BY <1>3, <1>4, <1>5, <1>6, <1>7, <1>8, <1>9 DEF VerifyNext

(* An OK of the verifier vouches for every anchored head: the table holds, *)
(* up to its seq, what it held when the head was anchored, whatever storage*)
(* lost or changed since and whatever was written again over it.           *)
THEOREM AcceptedAlwaysAnchored == VerifySpec => []AcceptedHistoryIsAnchored
<1>1. AcceptInv => AcceptedHistoryIsAnchored
  BY DEF AcceptInv
<1> QED
  BY InitAccept, NextAccept, <1>1, PTL DEF VerifySpec

-----------------------------------------------------------------------------
(* False alarms.  While storage has not failed, the table is intact and its*)
(* signatures are its writers'; every checkpoint binds one of its rows, and*)
(* the rows that a verifier read are the first ones of it.                 *)
InPlace == \A r \in rows : r.seq = Cardinality(Preceding(rows, r))

SignedByWriters ==
  \A r \in rows : /\ r.seq \in DOMAIN signed
                  /\ signed[r.seq] = Signature(signed[r.seq].by, Recomputed(r))

Proven(c) ==
  /\ c.proof = Signature(c.proof.by, Message(c.seq, c.hash))
  /\ IF Anchor = Local THEN c.proof.by # NoKey ELSE c.proof.by = Authority

HeadsBind ==
  /\ anchoring # Nothing => \E r \in rows : Binds(r, anchoring)
  /\ \A c \in checkpoints : (\E r \in rows : Binds(r, c)) /\ Proven(c)

ReadsPrefix ==
  verifying # Nothing =>
    /\ verifying.rows \subseteq rows
    /\ \A r \in rows, s \in verifying.rows : r.seq <= s.seq => r \in verifying.rows
    /\ verifying.quiet => \A c \in checkpoints : \E r \in verifying.rows : Binds(r, c)

Undamaged ==
  /\ LogInv /\ InPlace
  /\ SignedByWriters
  /\ HeadsBind
  /\ ReadsPrefix
  /\ FalseAlarmsAreKnown

CleanInv == faults \in Nat /\ (faults = 0 => Undamaged)

LEMMA InitClean == VerifyInit => CleanInv
<1> SUFFICES ASSUME VerifyInit PROVE CleanInv
  OBVIOUS
<1>1. /\ rows = {} /\ checkpoints = {} /\ anchoring = Nothing /\ verifying = Nothing
      /\ report = NoReport /\ faults = 0
  BY DEF VerifyInit, Init
<1>2. LogInv
  BY InitLog DEF VerifyInit
<1>3. FalseAlarmsAreKnown
  BY <1>1 DEF FalseAlarmsAreKnown, NoReport, Report, Checks
<1> QED
  BY <1>1, <1>2, <1>3 DEF CleanInv, Undamaged, InPlace, SignedByWriters, HeadsBind, ReadsPrefix

(* An undamaged table passes every step of the verifier but the signatures.*)
LEMMA UndamagedIsIntact ==
  ASSUME LogInv, InPlace
  PROVE  RowsIntact(rows)
<1> SUFFICES ASSUME NEW r \in rows PROVE RowIntact(rows, r)
  BY DEF RowsIntact
<1>1. HashMatches(r) /\ r.seq = Cardinality(Preceding(rows, r))
  BY DEF LogInv, IInv, RowsHashed, InPlace, HashMatches, Recomputed
<1>2. OnChain(r) /\ \A s \in rows : s.seq \in Nat /\ s.hash = Recomputed(s)
  BY DEF LogInv, IInv, ChainLinked, TypeOK, RowsHashed, Recomputed
<1>3. IF r.seq = 0 THEN r.prev = NoPrev
      ELSE \E s \in rows : s.seq = r.seq - 1 /\ r.prev = Recomputed(s)
  BY <1>2 DEF OnChain
<1> QED
  BY <1>1, <1>3 DEF RowIntact

(* The only alarm of the rows is a signature of another key.               *)
LEMMA RowsAlarm ==
  ASSUME LogInv, InPlace, SignedByWriters, NEW pem, RowsVerdict(rows, signed, pem) # "ok"
  PROVE  RowsVerdict(rows, signed, pem) = "signature" /\ Foreign(RowSigners, pem)
<1> DEFINE failing == {r \in rows : RowCheck(rows, signed, pem, r) # "ok"}
<1> DEFINE first == CHOOSE f \in failing : \A q \in failing : f.seq <= q.seq
<1>1. failing # {} /\ RowsVerdict(rows, signed, pem) = RowCheck(rows, signed, pem, first)
  BY DEF RowsVerdict
<1>2. first \in failing
  <2>1. \A r \in failing : r.seq \in Nat
    BY DEF LogInv, IInv, TypeOK
  <2>2. \E f \in failing : \A q \in failing : f.seq <= q.seq
    BY <1>1, <2>1, FirstBySeq
  <2> QED
    BY <2>2
<1>3. first \in rows /\ RowIntact(rows, first) /\ RowCheck(rows, signed, pem, first) # "ok"
  BY <1>2, UndamagedIsIntact DEF RowsIntact
<1> HIDE DEF first, failing
<1>4. RowCheck(rows, signed, pem, first) = "signature"
      /\ ~ SignatureHolds(first, signed[first.seq], pem)
  BY <1>3 DEF RowCheck
<1>5. signed[first.seq] = Signature(signed[first.seq].by, Recomputed(first))
  BY <1>3 DEF SignedByWriters
<1>6. pem # NoKey /\ signed[first.seq].by \notin {NoKey, pem}
  BY <1>4, <1>5 DEF SignatureHolds
<1>7. signed[first.seq].by \in RowSigners
  BY <1>3 DEF RowSigners
<1> QED
  BY <1>1, <1>4, <1>6, <1>7 DEF Foreign

(* The only alarms of the checkpoints are one that was stored after the    *)
(* rows were read, and a proof under another key.                          *)
LEMMA CheckpointsAlarm ==
  ASSUME LogInv, HeadsBind, ReadsPrefix, verifying # Nothing, NEW pem, NEW root \in BOOLEAN,
         NEW check \in CheckpointVerdicts(verifying.rows, checkpoints, Trusted(pem, root)),
         check # "ok"
  PROVE  \/ check = "truncation" /\ ~ verifying.quiet
         \/ check = "proof" /\ Foreign(ProofSigners, Trusted(pem, root))
<1> DEFINE R == verifying.rows
<1> DEFINE trusted == Trusted(pem, root)
<1>1. PICK c \in checkpoints : check = CheckpointCheck(R, c, trusted)
  BY DEF CheckpointVerdicts, Failing
<1>2. PICK r \in rows : Binds(r, c)
  BY DEF HeadsBind
<1>3. Proven(c) /\ r.seq = c.seq /\ \A s \in rows : s.seq \in Nat
  BY <1>2 DEF HeadsBind, Binds, LogInv, IInv, TypeOK
<1>4. R \subseteq rows /\ \A s \in R : r.seq <= s.seq => r \in R
  BY DEF ReadsPrefix
<1>5. CASE \A s \in R : s.seq < c.seq
  <2>1. check = "truncation"
    BY <1>1, <1>5 DEF CheckpointCheck
  <2>2. \A s \in R : ~ Binds(s, c)
    BY <1>3, <1>4, <1>5 DEF Binds
  <2> QED
    BY <2>1, <2>2 DEF ReadsPrefix
<1>6. CASE \E s \in R : ~ (s.seq < c.seq)
  <2>1. r \in R
    BY <1>3, <1>4, <1>6
  <2>2. trusted # NoKey /\ c.proof # Signature(trusted, Message(c.seq, c.hash))
        /\ check = "proof"
    BY <1>1, <1>2, <1>6, <2>1 DEF CheckpointCheck
  <2>3. c.proof.by # trusted
    BY <1>3, <2>2 DEF Proven
  <2>4. c.proof.by # NoKey
    BY <1>3, <2>2, <2>3 DEF Proven, Trusted, Authority, NoKey
  <2>5. c.proof.by \in ProofSigners
    BY DEF ProofSigners
  <2> QED
    BY <2>2, <2>3, <2>4, <2>5 DEF Foreign
<1> QED
  BY <1>5, <1>6

(* An append to an undamaged table leaves it undamaged.                    *)
LEMMA AppendUndamaged ==
  ASSUME Undamaged, ChainStep
  PROVE  Undamaged'
<1>1. LogInv'
  BY ChainStepIsNext, NextLog DEF Undamaged
<1>2. UNCHANGED <<checkpoints, anchoring, verifying, report, faults>>
  BY DEF ChainStep
<1>3. FalseAlarmsAreKnown'
  BY <1>2 DEF Undamaged, FalseAlarmsAreKnown
<1>4. CASE rows' = rows /\ signed' = signed
  BY <1>1, <1>2, <1>3, <1>4
    DEF Undamaged, InPlace, SignedByWriters, HeadsBind, ReadsPrefix
<1>5. ASSUME NEW w \in Writers, Insert(w),
             signed' = [seq \in DOMAIN signed \cup {call[w].seq} |->
                          IF seq = call[w].seq
                          THEN Signature(key[w], Digest(call[w].seq, call[w].prev, call[w].body))
                          ELSE signed[seq]]
      PROVE  Undamaged'
  <2> DEFINE r == RowOf(call[w])
  <2>1. /\ rows' = rows \cup {r} /\ r.seq = Cardinality(rows) /\ r.seq \in Nat
        /\ r.seq = call[w].seq
    BY <1>5, InsertAppends DEF Undamaged, LogInv
  <2>2. Recomputed(r) = Digest(call[w].seq, call[w].prev, call[w].body)
    BY DEF Recomputed, RowOf
  <2>3. \A q \in rows : q.seq \in Nat /\ q.seq < r.seq
    BY <2>1 DEF Undamaged, LogInv, IInv, TypeOK, Contiguous
  <2> HIDE DEF r
  <2>4. InPlace'
    <3>1. Preceding(rows', r) = rows
      BY <2>1, <2>3 DEF Preceding
    <3>2. \A q \in rows : Preceding(rows', q) = Preceding(rows, q)
      BY <2>1, <2>3 DEF Preceding
    <3> QED
      BY <2>1, <3>1, <3>2 DEF InPlace, Undamaged
  <2>5. SignedByWriters'
    <3>1. /\ r.seq \in DOMAIN signed' /\ signed'[r.seq] = Signature(key[w], Recomputed(r))
          /\ \A q \in rows : /\ q.seq \in DOMAIN signed /\ q.seq \in DOMAIN signed'
                            /\ signed'[q.seq] = signed[q.seq]
      BY <1>5, <2>1, <2>2, <2>3 DEF SignedByWriters, Undamaged
    <3>2. signed'[r.seq].by = key[w]
      BY <3>1 DEF Signature
    <3> QED
      BY <2>1, <3>1, <3>2 DEF SignedByWriters, Undamaged
  <2>6. HeadsBind'
    BY <1>2, <2>1 DEF HeadsBind, Undamaged
  <2>7. ReadsPrefix'
    <3> SUFFICES ASSUME verifying # Nothing PROVE ReadsPrefix'
      BY <1>2 DEF ReadsPrefix
    <3>1. verifying.rows \subseteq rows
      BY DEF ReadsPrefix, Undamaged
    <3>2. \A s \in verifying.rows : ~ (r.seq <= s.seq)
      BY <2>1, <2>3, <3>1
    <3> QED
      BY <1>2, <2>1, <3>1, <3>2 DEF ReadsPrefix, Undamaged
  <2> QED
    BY <1>1, <1>3, <2>4, <2>5, <2>6, <2>7 DEF Undamaged
<1>6. \/ rows' = rows /\ signed' = signed
      \/ \E w \in Writers :
           /\ Insert(w)
           /\ signed' = [seq \in DOMAIN signed \cup {call[w].seq} |->
                           IF seq = call[w].seq
                           THEN Signature(key[w], Digest(call[w].seq, call[w].prev, call[w].body))
                           ELSE signed[seq]]
  BY DEF ChainStep, WriterStep, Begin, Fail, Return, Restart
<1> QED
  BY <1>4, <1>5, <1>6

LEMMA NextClean == CleanInv /\ [VerifyNext]_auditVars => CleanInv'
<1> SUFFICES ASSUME CleanInv, [VerifyNext]_auditVars PROVE CleanInv'
  OBVIOUS
<1>1. CASE LoseTail \/ LoseRow \/ ChangeBody \/ GarbleSignature \/ GarbleProof
  <2>1. faults' = faults + 1 /\ faults \in Nat
    BY <1>1 DEF LoseTail, LoseRow, ChangeBody, Damage, GarbleSignature, GarbleProof, Fault, CleanInv
  <2> QED
    BY <2>1 DEF CleanInv
<1>2. CASE ~ (LoseTail \/ LoseRow \/ ChangeBody \/ GarbleSignature \/ GarbleProof)
  <2>1. faults' = faults
    BY <1>2 DEF VerifyNext, auditVars, ChainStep, ReadRows, ReadCheckpoints, ReadHead,
                StoreCheckpoint, AnchorFails
  <2> SUFFICES ASSUME Undamaged, faults = 0 PROVE Undamaged'
    BY <2>1 DEF CleanInv
  <2>2. CASE ChainStep
    BY <2>2, AppendUndamaged
  <2>3. ASSUME UNCHANGED tableVars
        PROVE  LogInv' /\ InPlace' /\ SignedByWriters'
    BY <2>3, NextLog DEF tableVars, vars, Undamaged, InPlace, SignedByWriters
  <2>4. CASE ReadRows
    <3>1. UNCHANGED <<tableVars, checkpoints, anchoring>> /\ verifying = Nothing
      BY <2>4 DEF ReadRows
    <3>2. PICK pem \in Keys \cup {NoKey} :
            LET verdict == RowsVerdict(rows, signed, pem) IN
            IF verdict = "ok"
            THEN /\ verifying' = [pc |-> "rows", rows |-> rows, pem |-> pem, quiet |-> TRUE]
                 /\ report' = NoReport
            ELSE /\ report' = Report(verdict, TRUE, TRUE, Foreign(RowSigners, pem))
                 /\ UNCHANGED verifying
      BY <2>4 DEF ReadRows
    <3>3. HeadsBind'
      BY <3>1 DEF tableVars, Undamaged, HeadsBind
    <3>4. CASE RowsVerdict(rows, signed, pem) = "ok"
      <4>1. verifying'.rows = rows /\ report' = NoReport
        BY <3>2, <3>4
      <4>2. ReadsPrefix'
        BY <3>1, <3>3, <4>1 DEF tableVars, ReadsPrefix, HeadsBind
      <4>3. FalseAlarmsAreKnown'
        BY <4>1 DEF FalseAlarmsAreKnown, NoReport, Report, Checks
      <4> QED
        BY <2>3, <3>1, <3>3, <4>2, <4>3 DEF Undamaged
    <3>5. CASE RowsVerdict(rows, signed, pem) # "ok"
      <4>1. verifying' = Nothing
            /\ report' = Report(RowsVerdict(rows, signed, pem), TRUE, TRUE, Foreign(RowSigners, pem))
        BY <3>1, <3>2, <3>5
      <4>2. FalseAlarmsAreKnown'
        BY <3>5, <4>1, RowsAlarm DEF Undamaged, FalseAlarmsAreKnown, Report
      <4>3. ReadsPrefix'
        BY <4>1 DEF ReadsPrefix
      <4> QED
        BY <2>3, <3>1, <3>3, <4>2, <4>3 DEF Undamaged
    <3> QED
      BY <3>4, <3>5
  <2>5. CASE ReadCheckpoints
    <3>1. /\ UNCHANGED <<tableVars, checkpoints, anchoring>>
          /\ verifying' = Nothing /\ verifying # Nothing
      BY <2>5 DEF ReadCheckpoints, Nothing
    <3>2. PICK root \in BOOLEAN :
            \E check \in CheckpointVerdicts(verifying.rows, checkpoints, Trusted(verifying.pem, root)) :
              report' = Report(check, verifying.quiet, Faithful(verifying.rows, checkpoints),
                               Foreign(ProofSigners, Trusted(verifying.pem, root)))
      BY <2>5 DEF ReadCheckpoints
    <3>3. PICK check \in CheckpointVerdicts(verifying.rows, checkpoints, Trusted(verifying.pem, root)) :
            report' = Report(check, verifying.quiet, Faithful(verifying.rows, checkpoints),
                             Foreign(ProofSigners, Trusted(verifying.pem, root)))
      BY <3>2
    <3>4. FalseAlarmsAreKnown'
      BY <3>1, <3>3, CheckpointsAlarm DEF Undamaged, FalseAlarmsAreKnown, Report, Checks
    <3>5. HeadsBind' /\ ReadsPrefix'
      BY <3>1 DEF tableVars, Undamaged, HeadsBind, ReadsPrefix
    <3> QED
      BY <2>3, <3>1, <3>4, <3>5 DEF Undamaged
  <2>6. CASE ReadHead
    <3>1. UNCHANGED <<tableVars, checkpoints, verifying, report, faults>>
      BY <2>6 DEF ReadHead
    <3>2. PICK r \in Heads : anchoring'.seq = r.seq /\ anchoring'.hash = r.hash
      BY <2>6 DEF ReadHead
    <3>3. r \in rows /\ Binds(r, anchoring')
      BY <3>2 DEF Heads, Last, Binds, Undamaged, LogInv, IInv, RowsHashed, Recomputed
    <3>4. HeadsBind'
      BY <3>1, <3>3 DEF tableVars, Undamaged, HeadsBind
    <3>5. ReadsPrefix' /\ FalseAlarmsAreKnown'
      BY <3>1 DEF tableVars, Undamaged, ReadsPrefix, FalseAlarmsAreKnown
    <3> QED
      BY <2>3, <3>1, <3>4, <3>5 DEF Undamaged
  <2>7. CASE StoreCheckpoint
    <3>1. PICK by \in Anchors :
            checkpoints' = checkpoints \cup
              {Checkpoint(anchoring.seq, anchoring.hash,
                          Signature(by, Message(anchoring.seq, anchoring.hash)))}
      BY <2>7 DEF StoreCheckpoint
    <3>2. /\ UNCHANGED <<tableVars, report, faults>>
          /\ anchoring # Nothing /\ anchoring' = Nothing
          /\ verifying' = IF verifying = Nothing THEN Nothing ELSE [verifying EXCEPT !.quiet = FALSE]
      BY <2>7 DEF StoreCheckpoint, Nothing
    <3> DEFINE c == Checkpoint(anchoring.seq, anchoring.hash,
                               Signature(by, Message(anchoring.seq, anchoring.hash)))
    <3>3. Proven(c)
      BY AuditVerifyAssumption
        DEF Proven, Checkpoint, Signature, Anchors, Authority, NoKey, Local, Rfc3161
    <3>4. \E r \in rows : Binds(r, c)
      BY <3>2 DEF Undamaged, HeadsBind, Binds, Checkpoint
    <3> HIDE DEF c
    <3>5. HeadsBind'
      BY <3>1, <3>2, <3>3, <3>4 DEF tableVars, Undamaged, HeadsBind, c
    <3>6. ReadsPrefix'
      <4>1. verifying' # Nothing =>
              verifying # Nothing /\ verifying'.rows = verifying.rows /\ verifying'.quiet = FALSE
        BY <3>2 DEF Undamaged
      <4> QED
        BY <3>2, <4>1 DEF tableVars, Undamaged, ReadsPrefix
    <3>7. FalseAlarmsAreKnown'
      BY <3>2 DEF Undamaged, FalseAlarmsAreKnown
    <3> QED
      BY <2>3, <3>2, <3>5, <3>6, <3>7 DEF Undamaged
  <2>8. CASE AnchorFails
    <3>1. UNCHANGED <<tableVars, checkpoints, verifying, report, faults>> /\ anchoring' = Nothing
      BY <2>8 DEF AnchorFails
    <3>2. HeadsBind' /\ ReadsPrefix' /\ FalseAlarmsAreKnown'
      BY <3>1 DEF tableVars, Undamaged, HeadsBind, ReadsPrefix, FalseAlarmsAreKnown
    <3> QED
      BY <2>3, <3>1, <3>2 DEF Undamaged
  <2>9. CASE UNCHANGED auditVars
    <3>1. UNCHANGED <<tableVars, checkpoints, anchoring, verifying, report, faults>>
      BY <2>9 DEF auditVars
    <3>2. HeadsBind' /\ ReadsPrefix' /\ FalseAlarmsAreKnown'
      BY <3>1 DEF tableVars, Undamaged, HeadsBind, ReadsPrefix, FalseAlarmsAreKnown
    <3> QED
      BY <2>3, <3>1, <3>2 DEF Undamaged
  <2> QED
    BY <1>2, <2>2, <2>4, <2>5, <2>6, <2>7, <2>8, <2>9 DEF VerifyNext
<1> QED
  BY <1>1, <1>2

(* A table nobody damaged verifies, but for a checkpoint stored between the*)
(* two reads and for rows or proofs under another key of the control plane.*)
THEOREM FalseAlarmsAlwaysKnown == VerifySpec => []FalseAlarmsAreKnown
<1>1. CleanInv => FalseAlarmsAreKnown
  BY DEF CleanInv, Undamaged, FalseAlarmsAreKnown
<1> QED
  BY InitClean, NextClean, <1>1, PTL DEF VerifySpec
=============================================================================
