----------------------------- MODULE AuditVerify ----------------------------
(***************************************************************************)
(* The audit chain with the two programs that read it back: the checkpoint *)
(* service (controlplane/checkpoint.py), which anchors the head of the     *)
(* chain, and the verifier (controlplane/audit_verify.py).  Each reads in  *)
(* one session and goes on in another, with writers beside it.  Rows, and  *)
(* the proofs of a local anchor, are signed with the key of the process    *)
(* that writes them.  Storage may lose rows or change what they hold.      *)
(***************************************************************************)
EXTENDS AuditChain

CONSTANTS
  Keys,            \* the keys a process may start with; one may be NoKey
  Anchor,          \* the kind of anchor: local, or a time stamping authority
  MaxCheckpoints,  \* bounds on the checkpoints and on the storage faults,
  MaxFaults        \* for model checking

NoKey == "none"     \* a writer without a signer, or a verifier without a key
Local == "local_ed25519_v1"
Rfc3161 == "rfc3161_v1"

ASSUME AuditVerifyAssumption ==
  /\ Keys # {} /\ Anchor \in {Local, Rfc3161}
  /\ MaxCheckpoints \in Nat /\ MaxFaults \in Nat

VARIABLES
  key,          \* key[w]: the key of the process that w lives in, or NoKey
  signed,       \* signed[seq]: the key and digest of a row's signature
  checkpoints,  \* the chain_checkpoints rows
  anchoring,    \* the checkpoint in progress, or Nothing
  verifying,    \* the verification in progress, or Nothing
  report,       \* the result of the last verification
  faults,       \* how often storage changed behind the programs' backs
  anchored      \* for each checkpoint of an intact table, its history

tableVars == <<rows, head, call, key, signed>>
auditVars == <<tableVars, checkpoints, anchoring, verifying, report, faults, anchored>>

Nothing == [pc |-> "idle"]
Report(check, quiet, faithful, foreign) ==
  [check |-> check, quiet |-> quiet, faithful |-> faithful, foreign |-> foreign]
NoReport == Report("none", TRUE, TRUE, FALSE)

VerifyInit ==
  /\ Init
  /\ key \in [Writers -> Keys]
  /\ signed = [seq \in {} |-> <<>>]
  /\ checkpoints = {}
  /\ anchoring = Nothing
  /\ verifying = Nothing
  /\ report = NoReport
  /\ faults = 0
  /\ anchored = {}

-----------------------------------------------------------------------------
(* verify_chain, steps 1 to 5.  A row's body holds its seq and prev_hash,  *)
(* so the recomputed hash covers all three.                                *)
Recomputed(r) == Digest(r.seq, r.prev, r.body)
Preceding(R, r) == {s \in R : s.seq < r.seq}

HashMatches(r) == r.hash = Recomputed(r)

RowIntact(R, r) ==
  /\ r.seq = Cardinality(Preceding(R, r))
  /\ HashMatches(r)
  /\ IF r.seq = 0 THEN r.prev = NoPrev
     ELSE \E s \in R : s.seq = r.seq - 1 /\ r.prev = Recomputed(s)

RowsIntact(R) == \A r \in R : RowIntact(R, r)

(* Step 6: a signed row, when the verifier was given a key.                *)
Signature(k, digest) == [by |-> k, over |-> digest]
SignatureHolds(r, sig, pem) ==
  pem = NoKey \/ sig.by = NoKey \/ sig = Signature(pem, Recomputed(r))

(* The first row that fails a step, if one does, decides.                  *)
RowCheck(R, S, pem, r) ==
  IF ~ RowIntact(R, r) THEN "row"
  ELSE IF ~ SignatureHolds(r, S[r.seq], pem) THEN "signature" ELSE "ok"
RowsVerdict(R, S, pem) ==
  LET failing == {r \in R : RowCheck(R, S, pem, r) # "ok"} IN
  IF failing = {} THEN "ok"
  ELSE LET first == CHOOSE r \in failing : \A q \in failing : r.seq <= q.seq
       IN RowCheck(R, S, pem, first)

(* Step 7, for one checkpoint.  Without the key or the certificate that    *)
(* its kind asks for, its proof is skipped.                                *)
Authority == "tsa"
Trusted(pem, root) == IF Anchor = Local THEN pem ELSE IF root THEN Authority ELSE NoKey

Message(seq, hash) == <<seq, hash>>
MutantBinds(r, c) == r.seq = c.seq
Binds(r, c) == r.seq = c.seq /\ Recomputed(r) = c.hash

CheckpointCheck(R, c, trusted) ==
  IF \A r \in R : r.seq < c.seq THEN "truncation"
  ELSE IF ~ \E r \in R : Binds(r, c) THEN "mismatch"
  ELSE IF trusted # NoKey /\ c.proof # Signature(trusted, Message(c.seq, c.hash)) THEN "proof"
  ELSE "ok"

(* The results the loop over the checkpoints, in seq order, may stop with. *)
Failing(R, C, trusted) == {c \in C : CheckpointCheck(R, c, trusted) # "ok"}
CheckpointVerdicts(R, C, trusted) ==
  LET failing == Failing(R, C, trusted) IN
  IF failing = {} THEN {"ok"}
  ELSE {CheckpointCheck(R, c, trusted) : c \in {f \in failing : \A e \in failing : f.seq <= e.seq}}

(* What an anchored head stood for, and whether R still holds it.          *)
History(R, seq) == {<<r.seq, r.body>> : r \in {s \in R : s.seq <= seq}}
Faithful(R, C) ==
  \A a \in anchored : a.checkpoint \in C => History(R, a.checkpoint.seq) = a.history

(* Something was signed with another key than the one to verify with.      *)
Foreign(signers, k) == k # NoKey /\ \E by \in signers : by \notin {NoKey, k}
RowSigners == {signed[r.seq].by : r \in rows}
ProofSigners == {c.proof.by : c \in checkpoints}

ReadRows ==
  /\ verifying = Nothing
  /\ \E pem \in Keys \cup {NoKey} :
       LET verdict == RowsVerdict(rows, signed, pem) IN
       IF verdict = "ok"
       THEN /\ verifying' = [pc |-> "rows", rows |-> rows, pem |-> pem, quiet |-> TRUE]
            /\ report' = NoReport
       ELSE /\ report' = Report(verdict, TRUE, TRUE, Foreign(RowSigners, pem))
            /\ UNCHANGED verifying
  /\ UNCHANGED <<tableVars, checkpoints, anchoring, faults, anchored>>

ReadCheckpoints ==
  /\ verifying.pc = "rows"
  /\ \E root \in BOOLEAN :
       LET trusted == Trusted(verifying.pem, root) IN
       \E check \in CheckpointVerdicts(verifying.rows, checkpoints, trusted) :
         report' = Report(check, verifying.quiet, Faithful(verifying.rows, checkpoints),
                          Foreign(ProofSigners, trusted))
  /\ verifying' = Nothing
  /\ UNCHANGED <<tableVars, checkpoints, anchoring, faults, anchored>>

-----------------------------------------------------------------------------
(* checkpoint: the head is read, a remote authority anchors it or the key  *)
(* of this process signs it, and the row is stored in another session.     *)
Heads == Last

Checkpoint(seq, hash, proof) == [seq |-> seq, hash |-> hash, proof |-> proof]

ReadHead ==
  /\ anchoring = Nothing
  /\ Cardinality(checkpoints) < MaxCheckpoints
  /\ \E r \in Heads :
       anchoring' = [pc |-> "anchoring", seq |-> r.seq, hash |-> r.hash,
                     intact |-> RowsIntact(rows), history |-> History(rows, r.seq)]
  /\ UNCHANGED <<tableVars, checkpoints, verifying, report, faults, anchored>>

Anchors == IF Anchor = Local THEN {key[w] : w \in Writers} \ {NoKey} ELSE {Authority}

StoreCheckpoint ==
  /\ anchoring.pc = "anchoring"
  /\ \E by \in Anchors :
       LET c == Checkpoint(anchoring.seq, anchoring.hash,
                           Signature(by, Message(anchoring.seq, anchoring.hash))) IN
       /\ checkpoints' = checkpoints \cup {c}
       /\ anchored' = IF anchoring.intact
                      THEN anchored \cup {[checkpoint |-> c, history |-> anchoring.history]}
                      ELSE anchored
  /\ anchoring' = Nothing
  /\ verifying' = IF verifying = Nothing THEN Nothing ELSE [verifying EXCEPT !.quiet = FALSE]
  /\ UNCHANGED <<tableVars, report, faults>>

AnchorFails ==
  /\ anchoring # Nothing
  /\ anchoring' = Nothing
  /\ UNCHANGED <<tableVars, checkpoints, verifying, report, faults, anchored>>

-----------------------------------------------------------------------------
(* Storage: the tail is lost (an older backup is restored), a row is lost, *)
(* the content or the signature of a row changes, or a checkpoint's proof. *)
Fault == faults < MaxFaults /\ faults' = faults + 1

Garbled == Signature("?", NoPrev)

Damage(R) ==
  /\ Fault
  /\ rows' = R
  /\ signed' = [seq \in {r.seq : r \in R} |-> signed[seq]]
  /\ UNCHANGED <<head, call, key, checkpoints, anchoring, verifying, report, anchored>>

LoseTail == \E t \in rows : Damage(Preceding(rows, t))
LoseRow == \E r \in rows : Damage(rows \ {r})
ChangeBody == \E r \in rows, b \in Bodies :
  b # r.body /\ Damage((rows \ {r}) \cup {[r EXCEPT !.body = b]})

GarbleSignature ==
  /\ \E r \in rows : signed' = [signed EXCEPT ![r.seq] = Garbled]
  /\ Fault
  /\ UNCHANGED <<rows, head, call, key, checkpoints, anchoring, verifying, report, anchored>>

GarbleProof ==
  /\ \E c \in checkpoints :
       checkpoints' = (checkpoints \ {c}) \cup {[c EXCEPT !.proof = Garbled]}
  /\ Fault
  /\ UNCHANGED <<tableVars, anchoring, verifying, report, anchored>>

-----------------------------------------------------------------------------
(* A row is signed with the key of its writer's process.  Unless one is    *)
(* supplied, a process generates its key when it starts.                   *)
WriterStep(w) ==
  \/ /\ (\E b \in Bodies : Begin(w, b)) \/ Fail(w) \/ Return(w)
     /\ UNCHANGED <<key, signed>>
  \/ /\ Insert(w)
     /\ LET c == call[w] IN
          signed' = [seq \in DOMAIN signed \cup {c.seq} |->
                       IF seq = c.seq THEN Signature(key[w], Digest(c.seq, c.prev, c.body))
                       ELSE signed[seq]]
     /\ UNCHANGED key
  \/ /\ Restart(w)
     /\ \E k \in Keys : key' = [key EXCEPT ![w] = k]
     /\ UNCHANGED signed

ChainStep ==
  /\ \E w \in Writers : WriterStep(w)
  /\ UNCHANGED <<checkpoints, anchoring, verifying, report, faults, anchored>>

VerifyNext ==
  \/ ChainStep
  \/ ReadRows
  \/ ReadCheckpoints
  \/ ReadHead
  \/ StoreCheckpoint
  \/ AnchorFails
  \/ LoseTail
  \/ LoseRow
  \/ ChangeBody
  \/ GarbleSignature
  \/ GarbleProof

VerifySpec == VerifyInit /\ [][VerifyNext]_auditVars

-----------------------------------------------------------------------------
Checks == {"row", "signature", "truncation", "mismatch", "proof"}

(* A verification that reports OK vouches for every anchored head: up to   *)
(* its seq the table holds what it held when the head was anchored, through*)
(* restored backups and chains grown again over them (audit_verify.py,     *)
(* the guarantee of the module docstring).                                 *)
AcceptedHistoryIsAnchored == report.check = "ok" => report.faithful

(* A table nobody damaged verifies, beside any append, failure or restart, *)
(* but for two false alarms: a checkpoint stored between the verifier's two*)
(* reads, taken for a truncated chain (audit_verify.py, step 7), and a row *)
(* or proof signed under the key of another life of the control plane,     *)
(* taken for a forged one (step 6; identity_engine.py, __init__).          *)
FalseAlarmsAreKnown ==
  faults = 0 /\ report.check \in Checks =>
    \/ report.check = "truncation" /\ ~ report.quiet
    \/ report.check \in {"signature", "proof"} /\ report.foreign

(* The id that is stored with each signature lets a verifier pick the      *)
(* right historical key (identity_engine.py, public_key_id).  verify_chain *)
(* takes one key: no key is right for a table that outlived a re-key.      *)
SomeKeyVerifies ==
  faults = 0 => \E pem \in Keys \ {NoKey} : RowsVerdict(rows, signed, pem) = "ok"
=============================================================================
