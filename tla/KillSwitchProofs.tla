-------------------------- MODULE KillSwitchProofs --------------------------
(***************************************************************************)
(* For any set of agents: an acknowledged kill holds through failures and  *)
(* restarts, and the table never runs ahead of the memory it backs.        *)
(***************************************************************************)
EXTENDS KillSwitch, TLAPS

(* Why restarts are safe: an acknowledged kill has its row on, which only  *)
(* a clear turns off, and a clear in progress has revoked the              *)
(* acknowledgement first.                                                  *)
AckedOnDisk == \A t \in acked : table[t] = "active"

OpConsistent ==
  /\ op.kind = "kill" => op.target \in memory
  /\ op.kind = "kill" /\ op.pc = "audit" => table[op.target] = "active"
  /\ op.kind = "clear" => op.target \notin acked
  /\ op.kind = "clear" /\ op.pc = "audit" => table[op.target] # "active"

IInv == TypeOK /\ AckedOnDisk /\ DurableKillEnforced /\ OpConsistent

LEMMA InitInv == Init => IInv
BY DEF Init, IInv, TypeOK, AckedOnDisk, DurableKillEnforced, OpConsistent, NoOp,
       Ended, Ops, Targets

LEMMA NextInv == IInv /\ [Next]_vars => IInv'
<1> SUFFICES ASSUME IInv, [Next]_vars PROVE IInv'
  OBVIOUS
<1> USE DEF IInv, TypeOK, AckedOnDisk, DurableKillEnforced, OpConsistent
<1>1. op # NoOp => op \in [kind : Ops, target : Targets, pc : {"table", "audit"}]
  OBVIOUS
<1>2. NoOp.kind = "none" /\ NoOp.pc = "done"
  BY DEF NoOp
<1>3. ASSUME NEW t \in Targets, Kill(t) PROVE IInv'
  BY <1>3 DEF Kill, Doing, Ops
<1>4. ASSUME NEW t \in Targets, Clear(t) PROVE IInv'
  BY <1>4 DEF Clear, Doing, Ops
<1>5. CASE CommitRow
  <2>1. /\ op \in [kind : Ops, target : Targets, pc : {"table", "audit"}]
        /\ op' \in [kind : Ops, target : Targets, pc : {"table", "audit"}]
        /\ op'.kind = op.kind /\ op'.target = op.target /\ op'.pc = "audit"
    BY <1>1, <1>2, <1>5 DEF CommitRow
  <2>2. table' = [table EXCEPT ![op.target] = RowAfter(op)]
        /\ UNCHANGED <<memory, audited, result, acked>>
    BY <1>5 DEF CommitRow
  <2>3. RowAfter(op) \in {"absent", "active", "inactive"}
        /\ (op.kind = "kill" => RowAfter(op) = "active")
        /\ (op.kind = "clear" => RowAfter(op) # "active")
    BY <2>1 DEF RowAfter, Ops
  <2>4. TypeOK'
    BY <2>1, <2>2, <2>3
  <2>5. AckedOnDisk' /\ DurableKillEnforced' /\ OpConsistent'
    BY <2>1, <2>2, <2>3 DEF Ops
  <2> QED
    BY <2>4, <2>5
<1>6. CASE AuditKill
  <2>1. op.target \in Targets /\ op.kind = "kill"
    BY <1>1, <1>2, <1>6 DEF AuditKill
  <2> QED
    BY <1>2, <1>6, <2>1 DEF AuditKill, Ended, Ops
<1>7. CASE AuditClearAndUnkill
  <2>1. op.target \in Targets /\ op.kind = "clear"
    BY <1>1, <1>2, <1>7 DEF AuditClearAndUnkill
  <2> QED
    BY <1>2, <1>7, <2>1 DEF AuditClearAndUnkill, Ended, Ops
<1>8. CASE Raise
  <2>1. op \in [kind : Ops, target : Targets, pc : {"table", "audit"}]
    BY <1>1, <1>8 DEF Raise
  <2> QED
    BY <1>2, <1>8, <2>1 DEF Raise, Ended
<1>9. CASE Restart
  BY <1>2, <1>9 DEF Restart, Loaded
<1>10. CASE UNCHANGED vars
  BY <1>10 DEF vars
<1> QED
  BY <1>3, <1>4, <1>5, <1>6, <1>7, <1>8, <1>9, <1>10 DEF Next

(* Type correctness of the kill switch.                                    *)
THEOREM TypeCorrect == Spec => []TypeOK
<1>1. IInv => TypeOK
  BY DEF IInv
<1> QED
  BY InitInv, NextInv, <1>1, PTL DEF Spec

(* A row that says active is enforced in memory at every moment.           *)
THEOREM DurableKillIsEnforced == Spec => []DurableKillEnforced
<1>1. IInv => DurableKillEnforced
  BY DEF IInv
<1> QED
  BY InitInv, NextInv, <1>1, PTL DEF Spec

(* An acknowledged kill denies until its target's clear is tried, through  *)
(* every failure of a write and every restart.                             *)
THEOREM AcknowledgedKillAlwaysHolds == Spec => []AcknowledgedKillHolds
<1>1. ASSUME IInv PROVE AcknowledgedKillHolds
  <2> SUFFICES ASSUME NEW a \in Agents, a \in acked \/ Fleet \in acked
               PROVE  Status(a) # "none"
    BY DEF AcknowledgedKillHolds
  <2>1. a \in memory \/ Fleet \in memory
    BY <1>1 DEF IInv, TypeOK, AckedOnDisk, DurableKillEnforced
  <2> QED
    BY <2>1 DEF Status
<1> QED
  BY InitInv, NextInv, <1>1, PTL DEF Spec

(* A target leaves memory only by a restart or by a clear that is durable  *)
(* and on the audit chain.                                                 *)
THEOREM UnkillAlwaysAudited == Spec => UnkillIsDurableAndAudited
<1>1. ASSUME IInv, [Next]_vars
      PROVE  [\A t \in memory \ memory' :
                \/ Restart
                \/ table[t] # "active" /\ audited'[t] = "kill_switch_cleared"]_vars
  <2> SUFFICES ASSUME Next, NEW t \in memory, t \notin memory', ~ Restart
               PROVE  table[t] # "active" /\ audited'[t] = "kill_switch_cleared"
    BY <1>1
  <2>1. AuditClearAndUnkill
    BY DEF Next, Kill, Clear, CommitRow, AuditKill, Raise
  <2>2. t = op.target /\ op.kind = "clear" /\ op.pc = "audit"
    BY <2>1 DEF AuditClearAndUnkill
  <2> QED
    BY <1>1, <2>1, <2>2 DEF AuditClearAndUnkill, IInv, TypeOK, OpConsistent
<1> QED
  BY InitInv, NextInv, <1>1, PTL DEF Spec, UnkillIsDurableAndAudited
=============================================================================
