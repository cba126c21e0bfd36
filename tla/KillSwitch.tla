----------------------------- MODULE KillSwitch -----------------------------
(***************************************************************************)
(* KillSwitchStore (controlplane/killswitch.py): kills are held in memory  *)
(* for the hot path, in a table for durability and as events on the audit  *)
(* chain.  An operation never gives up the event loop, so one runs at a    *)
(* time; any of its writes may raise, and the process may stop between     *)
(* two of them.                                                            *)
(***************************************************************************)
EXTENDS Naturals

CONSTANT Agents

Fleet == "*"
Targets == Agents \cup {Fleet}

ASSUME FleetAssumption == Fleet \notin Agents

VARIABLES
  memory,   \* _killed: the targets the hot path denies
  table,    \* the kill_switch rows: "absent", "active" or "inactive"
  audited,  \* the last event on the chain for each target
  op,       \* the operation in progress, or NoOp
  result,   \* what the last operation to end told its operator
  acked     \* targets whose kill succeeded, with no clear tried since

vars == <<memory, table, audited, op, result, acked>>

NoOp == [kind |-> "none", target |-> Fleet, pc |-> "done"]
Doing(kind, t, pc) == [kind |-> kind, target |-> t, pc |-> pc]
Ended(o, ok) == [kind |-> o.kind, target |-> o.target, ok |-> ok]

Init ==
  /\ memory = {}
  /\ table = [t \in Targets |-> "absent"]
  /\ audited = [t \in Targets |-> "nothing"]
  /\ op = NoOp
  /\ result = Ended(NoOp, TRUE)
  /\ acked = {}

(* status: the fleet kill shadows every agent.                             *)
Status(a) ==
  CASE Fleet \in memory -> "fleet"
    [] Fleet \notin memory /\ a \in memory -> "agent"
    [] OTHER -> "none"

(* _load: what a new process reads back.                                   *)
MutantLoaded == {t \in Agents : table[t] = "active"}
Loaded == {t \in Targets : table[t] = "active"}

(* _set: memory, then the row, then the event.                             *)
MutantKill(t) ==
  /\ op = NoOp
  /\ op' = Doing("kill", t, "table")
  /\ UNCHANGED <<memory, table, audited, result, acked>>
Kill(t) ==
  /\ op = NoOp
  /\ memory' = memory \cup {t}
  /\ op' = Doing("kill", t, "table")
  /\ UNCHANGED <<table, audited, result, acked>>

(* _clear: the row, then the event, then memory.                           *)
MutantClear(t) ==
  /\ op = NoOp
  /\ memory' = memory \ {t}
  /\ op' = Doing("clear", t, "table")
  /\ acked' = acked \ {t}
  /\ UNCHANGED <<table, audited, result>>
Clear(t) ==
  /\ op = NoOp
  /\ op' = Doing("clear", t, "table")
  /\ acked' = acked \ {t}
  /\ UNCHANGED <<memory, table, audited, result>>

(* The upsert of a kill, or the update of a clear whose row exists.        *)
MutantRowAfter(o) ==
  CASE table[o.target] # "absent" -> table[o.target]
    [] table[o.target] = "absent" /\ o.kind = "kill" -> "active"
    [] OTHER -> "absent"
MutantRowStatus(o) == IF o.kind = "kill" THEN "active" ELSE "cleared"
RowAfter(o) ==
  CASE o.kind = "kill" -> "active"
    [] o.kind = "clear" /\ table[o.target] # "absent" -> "inactive"
    [] OTHER -> "absent"

CommitRow ==
  /\ op.pc = "table"
  /\ table' = [table EXCEPT ![op.target] = RowAfter(op)]
  /\ op' = [op EXCEPT !.pc = "audit"]
  /\ UNCHANGED <<memory, audited, result, acked>>

AuditKill ==
  /\ op.pc = "audit" /\ op.kind = "kill"
  /\ audited' = [audited EXCEPT ![op.target] = "kill_switch_set"]
  /\ acked' = acked \cup {op.target}
  /\ result' = Ended(op, TRUE)
  /\ op' = NoOp
  /\ UNCHANGED <<memory, table>>

AuditClearAndUnkill ==
  /\ op.pc = "audit" /\ op.kind = "clear"
  /\ audited' = [audited EXCEPT ![op.target] = "kill_switch_cleared"]
  /\ memory' = memory \ {op.target}
  /\ result' = Ended(op, TRUE)
  /\ op' = NoOp
  /\ UNCHANGED <<table, acked>>

(* The commit or the append raises out of the operation.                   *)
Raise ==
  /\ op # NoOp
  /\ result' = Ended(op, FALSE)
  /\ op' = NoOp
  /\ UNCHANGED <<memory, table, audited, acked>>

Restart ==
  /\ memory' = Loaded
  /\ op' = NoOp
  /\ UNCHANGED <<table, audited, result, acked>>

Next ==
  \/ \E t \in Targets : Kill(t) \/ Clear(t)
  \/ CommitRow
  \/ AuditKill
  \/ AuditClearAndUnkill
  \/ Raise
  \/ Restart

Spec == Init /\ [][Next]_vars

-----------------------------------------------------------------------------
Ops == {"kill", "clear"}
TypeOK ==
  /\ memory \subseteq Targets /\ acked \subseteq Targets
  /\ table \in [Targets -> {"absent", "active", "inactive"}]
  /\ audited \in [Targets -> {"nothing", "kill_switch_set", "kill_switch_cleared"}]
  /\ op = NoOp \/ op \in [kind : Ops, target : Targets, pc : {"table", "audit"}]
  /\ result \in [kind : Ops \cup {"none"}, target : Targets, ok : BOOLEAN]

(* RUN-01/02: once a kill has been acknowledged, and until a clear of that *)
(* target is tried, the hot path denies the agent (everyone, for the       *)
(* fleet), through failed operations on other targets and restarts.        *)
AcknowledgedKillHolds ==
  \A a \in Agents : (a \in acked \/ Fleet \in acked) => Status(a) # "none"

(* Durability never runs ahead of enforcement: a row that says active is   *)
(* enforced in memory at every moment, also half-way through an operation. *)
DurableKillEnforced == \A t \in Targets : table[t] = "active" => t \in memory

(* Nobody is un-killed quietly: short of a restart, a target leaves memory *)
(* only with its row already off and its kill_switch_cleared event on the  *)
(* chain.                                                                  *)
UnkillIsDurableAndAudited ==
  [][\A t \in memory \ memory' :
       \/ Restart
       \/ table[t] # "active" /\ audited'[t] = "kill_switch_cleared"]_vars

(* _clear's comment: "A failed clear then leaves the agent killed in BOTH  *)
(* memory and table".                                                      *)
FailedClearLeavesBothKilled ==
  \A t \in Targets :
    op = NoOp /\ result = [kind |-> "clear", target |-> t, ok |-> FALSE]
      /\ t \in memory => table[t] # "inactive"
=============================================================================
