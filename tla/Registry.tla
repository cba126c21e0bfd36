------------------------------ MODULE Registry ------------------------------
(***************************************************************************)
(* Registry.register (controlplane/registry.py) and InventoryStore         *)
(* (controlplane/inventory.py), statement by statement: registrations run  *)
(* in the threads of the API, and activity is observed beside them.  Every *)
(* session reads, then commits; what another commits in between it learns  *)
(* only from the keys of the tables.                                       *)
(***************************************************************************)
EXTENDS Naturals, FiniteSets

CONSTANTS
  Threads,      \* the sessions, each with at most one operation in progress
  Agents,
  Components,   \* the (kind, name) pairs
  Grades,       \* the trust scores a caller of register may supply
  DefaultTrust

Absent == "absent"
NoGrade == "no grade"

ASSUME RegistryAssumption == {Absent, NoGrade} \cap (Grades \cup {DefaultTrust}) = {}

VARIABLES
  trust,      \* trust[a]: trust_score of the agent row of a, or Absent
  inventory,  \* inventory[a][k]: source of the component's row, or Absent
  op,         \* op[t]: the operation in progress of session t
  enrolled    \* the registrations answered, with their manifests

registryVars == <<trust, inventory, op, enrolled>>

Idle == [pc |-> "idle"]

RegistryInit ==
  /\ trust = [a \in Agents |-> Absent]
  /\ inventory = [a \in Agents |-> [k \in Components |-> Absent]]
  /\ op = [t \in Threads |-> Idle]
  /\ enrolled = {}

Does(t, o) == op' = [op EXCEPT ![t] = o]

-----------------------------------------------------------------------------
(* register.  The row is read ...                                          *)
Register(t, a, grade, manifest) ==
  /\ op[t] = Idle
  /\ Does(t, [pc |-> "registering", agent |-> a, grade |-> grade, manifest |-> manifest,
              read |-> trust[a]])
  /\ UNCHANGED <<trust, inventory, enrolled>>

(* ... and written: a new one with the grade or the default, a known one   *)
(* only with a grade that differs from what was read.                      *)
Found(t) == op[t].read # Absent
Seed(grade) == IF grade = NoGrade THEN DefaultTrust ELSE grade
Written(t) ==
  IF ~ Found(t)
  THEN [trust EXCEPT ![op[t].agent] = Seed(op[t].grade)]
  ELSE IF op[t].grade \in {NoGrade, op[t].read} THEN trust
  ELSE [trust EXCEPT ![op[t].agent] = op[t].grade]

(* agent_id is the primary key: whoever lost the race fails.               *)
MutantMayInsert(t) == TRUE
MayInsert(t) == ~ Found(t) => trust[op[t].agent] = Absent

CommitAgent(t) ==
  /\ op[t].pc = "registering" /\ MayInsert(t)
  /\ trust' = Written(t)
  /\ Does(t, [pc |-> "issuing", agent |-> op[t].agent, manifest |-> op[t].manifest])
  /\ UNCHANGED <<inventory, enrolled>>

(* The token is issued; a manifest, if any, is declared before the answer. *)
(* A registry without an inventory declares none: it is one that is given  *)
(* no manifests.                                                           *)
IssueToken(t) ==
  /\ op[t].pc = "issuing"
  /\ IF op[t].manifest = {}
     THEN /\ enrolled' = enrolled \cup {[agent |-> op[t].agent, manifest |-> {}]}
          /\ Does(t, Idle)
     ELSE /\ Does(t, [pc |-> "upserting", agent |-> op[t].agent, source |-> "declared",
                      todo |-> op[t].manifest, new |-> {}, known |-> {}])
          /\ UNCHANGED enrolled
  /\ UNCHANGED <<trust, inventory>>

-----------------------------------------------------------------------------
(* observe, of one component; enrich_from_audit is a run of these.         *)
Observe(t, a, k) ==
  /\ op[t] = Idle
  /\ Does(t, [pc |-> "upserting", agent |-> a, source |-> "observed",
              todo |-> {k}, new |-> {}, known |-> {}])
  /\ UNCHANGED <<trust, inventory, enrolled>>

(* _upsert reads the row of a component and adds it, or marks it known.    *)
Upsert(t) ==
  /\ op[t].pc = "upserting"
  /\ \E k \in op[t].todo :
       LET rest == op[t].todo \ {k} IN
       IF inventory[op[t].agent][k] = Absent
       THEN Does(t, [op[t] EXCEPT !.todo = rest, !.new = op[t].new \cup {k}])
       ELSE Does(t, [op[t] EXCEPT !.todo = rest, !.known = op[t].known \cup {k}])
  /\ UNCHANGED <<trust, inventory, enrolled>>

(* One commit for all of them: a row that exists becomes declared, never   *)
(* observed; a new one must still be new.                                  *)
MutantSource(t, k, old) ==
  IF k \in op[t].new \cup op[t].known THEN op[t].source ELSE old
Source(t, k, old) ==
  IF k \in op[t].new \/ (k \in op[t].known /\ op[t].source = "declared")
  THEN op[t].source ELSE old

MutantRowsStillNew(t) == TRUE
RowsStillNew(t) == \A k \in op[t].new : inventory[op[t].agent][k] = Absent

CommitComponents(t) ==
  /\ op[t].pc = "upserting" /\ op[t].todo = {}
  /\ RowsStillNew(t)
  /\ LET a == op[t].agent
         old == inventory[a]
     IN inventory' = [inventory EXCEPT ![a] = [k \in Components |-> Source(t, k, old[k])]]
  /\ enrolled' = IF op[t].source = "declared"
                 THEN enrolled \cup {[agent |-> op[t].agent,
                                      manifest |-> op[t].new \cup op[t].known]}
                 ELSE enrolled
  /\ Does(t, Idle)
  /\ UNCHANGED trust

(* A key that lost a race, or a store that fails, ends the operation; what *)
(* an earlier session of it committed stays.                               *)
Fails(t) ==
  /\ op[t] # Idle
  /\ Does(t, Idle)
  /\ UNCHANGED <<trust, inventory, enrolled>>
=============================================================================
