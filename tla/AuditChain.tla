----------------------------- MODULE AuditChain -----------------------------
(***************************************************************************)
(* AuditWriter (controlplane/audit.py): the append-only, hash-chained      *)
(* evidence log.  A writer holds its asyncio lock for a whole append, so   *)
(* the appends of one writer never overlap; writers of several processes   *)
(* share only the table, and meet between reading the head and inserting.  *)
(***************************************************************************)
EXTENDS Integers, FiniteSets

CONSTANTS
  Writers,        \* AuditWriter instances over the one store
  Bodies,         \* decision and event bodies handed to append/append_event
  Unclassified,   \* bodies the redactor or the event-kind check refuses
  Leaky,          \* bodies the secret scan refuses once assembled
  MaxRows         \* bound on the table, for model checking

ASSUME BodiesAssumption == Unclassified \subseteq Bodies /\ Leaky \subseteq Bodies
ASSUME MaxRowsAssumption == MaxRows \in Nat

VARIABLES
  rows,   \* the audit_records table, a set of rows
  head,   \* head[w]: the head cached by w, or NoHead
  call    \* call[w]: the append in progress under the lock of w

vars == <<rows, head, call>>

(* The digest of a body: the hash covers seq, prev_hash and the content,   *)
(* and two different contents never share a digest.                        *)
Digest(seq, prev, body) == <<seq, prev, body>>

NoPrev == <<>>                            \* the NULL prev_hash of the genesis row
MutantGenesis == [prev |-> NoPrev, seq |-> -1]
Genesis == [prev |-> NoPrev, seq |-> 0]
NoHead == [prev |-> NoPrev, seq |-> -1]   \* nothing cached yet
Idle == [pc |-> "idle"]
Call(pc, h, b) == [pc |-> pc, prev |-> h.prev, seq |-> h.seq, body |-> b]

After(r) == [prev |-> r.hash, seq |-> r.seq + 1]

(* The rows with the highest seq: what ORDER BY seq DESC LIMIT 1 returns.  *)
Last == {r \in rows : \A s \in rows : s.seq <= r.seq}

SeqTaken(seq) == \E r \in rows : r.seq = seq

(* _chain_head: the cache when there is one, else the table's last row.    *)
ChainHead(w) ==
  IF head[w] # NoHead THEN {head[w]}
  ELSE IF rows = {} THEN {Genesis}
  ELSE {After(r) : r \in Last}

RowOf(c) == [seq |-> c.seq, prev |-> c.prev, body |-> c.body,
             hash |-> Digest(c.seq, c.prev, c.body)]

(* UNIQUE(seq): the table after an INSERT of r, or none when it is refused.*)
MutantNoUniqueSeq(r) == {rows \cup {r}}
MutantUpsert(r) == {{s \in rows : s.seq # r.seq} \cup {r}}
TableAfterInsert(r) == IF SeqTaken(r.seq) THEN {} ELSE {rows \cup {r}}

(* The cache of w once its call c has committed, or has failed.            *)
MutantHeadNotAdvanced(w, c) == [After(RowOf(c)) EXCEPT !.seq = c.seq]
HeadAfterCommit(w, c) == After(RowOf(c))

MutantHeadAdvanced(w, c) == After(RowOf(c))
HeadAfterFailure(w, c) == head[w]

(***************************************************************************)
(* The steps of append and append_event.  A body refused before the lock   *)
(* (RedactionError, ValueError) never becomes a call.                      *)
(***************************************************************************)
Init ==
  /\ rows = {}
  /\ head = [w \in Writers |-> NoHead]
  /\ call = [w \in Writers |-> Idle]

(* Redaction passed, the lock is held and the head is read.                *)
Begin(w, b) ==
  /\ call[w] = Idle
  /\ b \notin Unclassified
  /\ \E h \in ChainHead(w) :
       call' = [call EXCEPT ![w] = Call("building", h, b)]
  /\ UNCHANGED <<rows, head>>

(* The secret scan passed and the INSERT commits.                          *)
Insert(w) ==
  LET c == call[w] IN
  /\ c.pc = "building"
  /\ c.body \notin Leaky
  /\ c.seq < MaxRows
  /\ rows' \in TableAfterInsert(RowOf(c))
  /\ call' = [call EXCEPT ![w] = Call("inserted", c, c.body)]
  /\ UNCHANGED head

(* SecretLeakError, IntegrityError on a taken seq, or a backend that is    *)
(* down: the append raises and nothing is written.                         *)
Fail(w) ==
  /\ call[w].pc = "building"
  /\ call' = [call EXCEPT ![w] = Idle]
  /\ head' = [head EXCEPT ![w] = HeadAfterFailure(w, call[w])]
  /\ UNCHANGED rows

(* The cache advances only after the commit; the record id is returned.    *)
Return(w) ==
  /\ call[w].pc = "inserted"
  /\ head' = [head EXCEPT ![w] = HeadAfterCommit(w, call[w])]
  /\ call' = [call EXCEPT ![w] = Idle]
  /\ UNCHANGED rows

(* The process of w stops at any point and comes back with a new writer.   *)
Restart(w) ==
  /\ head' = [head EXCEPT ![w] = NoHead]
  /\ call' = [call EXCEPT ![w] = Idle]
  /\ UNCHANGED rows

Next ==
  \E w \in Writers :
    \/ \E b \in Bodies : Begin(w, b)
    \/ Insert(w)
    \/ Fail(w)
    \/ Return(w)
    \/ Restart(w)

Spec == Init /\ [][Next]_vars

-----------------------------------------------------------------------------
(* Type correctness of the table, the caches and the calls in progress.    *)
CallOK(c) ==
  \/ c = Idle
  \/ /\ c.pc \in {"building", "inserted"}
     /\ c.seq \in Nat
     /\ c.body \in Bodies
TypeOK ==
  /\ \A r \in rows : r.seq \in Nat /\ r.body \in Bodies
  /\ DOMAIN head = Writers /\ DOMAIN call = Writers
  /\ \A w \in Writers : head[w] = NoHead \/ head[w].seq \in Nat
  /\ \A w \in Writers : CallOK(call[w])

(* The chain never forks: no two rows share a seq, and no two rows name    *)
(* the same predecessor (audit.py: a second writer "cannot fork the        *)
(* chain silently").                                                       *)
NoFork ==
  \A r, s \in rows : (r.seq = s.seq \/ r.prev = s.prev) => r = s

(* Every row but the genesis names the digest of the row with the seq      *)
(* before it, so the seqs have no gap, whatever failed, crashed or raced.  *)
OnChain(h) ==
  \/ h.seq = 0 /\ h.prev = NoPrev
  \/ \E s \in rows : s.seq = h.seq - 1 /\ s.hash = h.prev
ChainLinked == \A r \in rows : OnChain(r)

(* A cached head always sits on a committed row: a failed insert leaves    *)
(* no cache that points at a record nobody wrote.                          *)
HeadCommitted == \A w \in Writers : head[w] # NoHead => OnChain(head[w])

(* A writer that is alone over its store never meets a taken seq, however  *)
(* often it failed or restarted: the collision of _chain_head's docstring  *)
(* needs a second writer.                                                  *)
SoleWriterNeverCollides ==
  \A w \in Writers :
    Writers = {w} /\ call[w].pc = "building" => ~ SeqTaken(call[w].seq)

(* A stale cache fails closed: once another writer has taken the seq a     *)
(* cached head names, its owner inserts nothing more until it restarts.    *)
Stale(w) == head[w] # NoHead /\ SeqTaken(head[w].seq) /\ call[w].pc # "inserted"
StaleWriterWritesNothing ==
  [][\A w \in Writers : Stale(w) => call'[w].pc # "inserted"]_vars

(* The table implements the abstract log: the row with seq i is entry i+1. *)
Entry(i) == CHOOSE r \in rows : r.seq = i - 1
Log == INSTANCE AppendOnlyLog WITH
         log <- [i \in 1..Cardinality(rows) |-> Entry(i).body]
ImplementsLog == Log!Spec
=============================================================================
