---------------------------- MODULE IdentityCache ---------------------------
(***************************************************************************)
(* CachingIdentityStage (pipeline/identity.py) over IdentityEngine.verify  *)
(* (controlplane/identity_engine.py), composed with the registry whose     *)
(* rows it reads.  A verification runs on the event loop, one at a time;   *)
(* registrations and the clock move on beside it.                          *)
(***************************************************************************)
EXTENDS Registry, Sequences

CONSTANTS
  TTL,         \* ttl_seconds of the cache
  TokenTTL,    \* validity of an issued token
  MaxEntries,  \* bound of the cache
  MaxTime      \* bound on the clock, for model checking

ASSUME IdentityAssumption ==
  /\ TTL \in Nat \ {0} /\ TokenTTL \in Nat \ {0}
  /\ MaxEntries \in Nat \ {0} /\ MaxTime \in Nat \ {0}

VARIABLES
  clock,
  cache,   \* the cached verdicts, in the order their keys were inserted
  check,   \* the verification in progress that missed, or NoCheck
  inForce, \* inForce[a][x]: when x was last the trust of a; 0 for never
  since    \* since[a]: the trust scores of a since its entries were last dropped

cacheVars == <<clock, cache, check, inForce, since>>
vars == <<registryVars, cacheVars>>

NoCheck == [pc |-> "none"]
Scores == Grades \cup {DefaultTrust}

(* A key is a token, here its subject and expiry, with the agent claimed.  *)
Keys == [sub : Agents, exp : 1..(MaxTime + TokenTTL), claimed : Agents]

Init ==
  /\ RegistryInit
  /\ clock = 1
  /\ cache = <<>>
  /\ check = NoCheck
  /\ inForce = [a \in Agents |-> [x \in Scores |-> 0]]
  /\ since = [a \in Agents |-> {}]

-----------------------------------------------------------------------------
MutantLive(entry) == entry.until >= clock
Live(entry) == entry.until > clock
Place(key) == {i \in DOMAIN cache : cache[i].key = key}

(* A live entry answers at once; otherwise the engine verifies.  (A hit    *)
(* changes nothing and so is no step.)                                     *)
Miss(key) ==
  /\ check = NoCheck
  /\ key.exp \in (TokenTTL + 1)..(clock + TokenTTL)
  /\ \A i \in Place(key) : ~ Live(cache[i])
  /\ check' = [pc |-> "verifying", key |-> key, now |-> clock]
  /\ UNCHANGED <<registryVars, clock, cache, inForce, since>>

(* verify: the token has not expired, names the agent claimed, and the     *)
(* agent is registered.                                                    *)
Verified(key) ==
  /\ key.exp > clock
  /\ key.sub = key.claimed
  /\ trust[key.sub] # Absent

(* Only a success is kept, for TTL from when the check began; a known key  *)
(* keeps its place, a new one may push out the oldest.                     *)
MutantRoomMade == cache
RoomMade == IF Len(cache) >= MaxEntries THEN Tail(cache) ELSE cache
Kept(entry) ==
  IF Place(entry.key) = {}
  THEN Append(RoomMade, entry)
  ELSE [i \in DOMAIN cache |-> IF i \in Place(entry.key) THEN entry ELSE cache[i]]

(* The entries at the places P, in their order.                            *)
Only(P) ==
  LET kept[i \in 0..Len(cache)] ==
        IF i = 0 THEN <<>>
        ELSE IF i \in P THEN Append(kept[i - 1], cache[i]) ELSE kept[i - 1]
  IN kept[Len(cache)]

OtherKeys(key) == Only(DOMAIN cache \ Place(key))

Succeed ==
  /\ check # NoCheck /\ Verified(check.key)
  /\ cache' = Kept([key |-> check.key, trust |-> trust[check.key.sub], until |-> check.now + TTL])
  /\ check' = NoCheck
  /\ UNCHANGED <<registryVars, clock, inForce, since>>

Refuse ==
  /\ check # NoCheck /\ ~ Verified(check.key)
  /\ cache' = OtherKeys(check.key)
  /\ check' = NoCheck
  /\ UNCHANGED <<registryVars, clock, inForce, since>>

(* invalidate, of one agent or of all.  It is called on the event loop,    *)
(* where no verification is half-way: verify and invalidate take no lock.  *)
Dropped(A) == Only({i \in DOMAIN cache : cache[i].key.claimed \notin A})

Invalidate(A) ==
  /\ check = NoCheck
  /\ cache' = Dropped(A)
  /\ since' = [a \in Agents |-> IF a \in A THEN {trust[a]} \cap Scores ELSE since[a]]
  /\ UNCHANGED <<registryVars, clock, check, inForce>>

Tick ==
  /\ clock < MaxTime
  /\ clock' = clock + 1
  /\ inForce' = [a \in Agents |-> [x \in Scores |->
                   IF trust[a] = x THEN clock' ELSE inForce[a][x]]]
  /\ UNCHANGED <<registryVars, cache, check, since>>

(* A step of the registry, with what it does to the trust in force.        *)
Witnessed ==
  /\ inForce' = [a \in Agents |-> [x \in Scores |->
                   IF trust'[a] = x THEN clock ELSE inForce[a][x]]]
  /\ since' = [a \in Agents |-> since[a] \cup ({trust'[a]} \cap Scores)]
  /\ UNCHANGED <<clock, cache, check>>

Next ==
  \/ \E t \in Threads, a \in Agents, grade \in Grades \cup {NoGrade},
        manifest \in SUBSET Components :
       Register(t, a, grade, manifest) /\ Witnessed
  \/ \E t \in Threads, a \in Agents, k \in Components : Observe(t, a, k) /\ Witnessed
  \/ \E t \in Threads : CommitAgent(t) /\ Witnessed
  \/ \E t \in Threads : IssueToken(t) /\ Witnessed
  \/ \E t \in Threads : Upsert(t) /\ Witnessed
  \/ \E t \in Threads : CommitComponents(t) /\ Witnessed
  \/ \E t \in Threads : Fails(t) /\ Witnessed
  \/ \E key \in Keys : Miss(key)
  \/ Succeed
  \/ Refuse
  \/ \E a \in Agents : Invalidate({a})
  \/ Invalidate(Agents)
  \/ Tick

Spec == Init /\ [][Next]_vars

-----------------------------------------------------------------------------
Registering ==
  [pc : {"registering"}, agent : Agents, grade : Grades \cup {NoGrade},
   manifest : SUBSET Components, read : Scores \cup {Absent}]
Issuing == [pc : {"issuing"}, agent : Agents, manifest : SUBSET Components]
Upserting ==
  [pc : {"upserting"}, agent : Agents, source : {"declared", "observed"},
   todo : SUBSET Components, new : SUBSET Components, known : SUBSET Components]

RegistryTypeOK ==
  /\ trust \in [Agents -> Scores \cup {Absent}]
  /\ inventory \in [Agents -> [Components -> {Absent, "declared", "observed"}]]
  /\ op \in [Threads -> {Idle} \cup Registering \cup Issuing \cup Upserting]
  /\ enrolled \subseteq [agent : Agents, manifest : SUBSET Components]

(* The tables keep their types; the cache is bounded and keeps a key once. *)
TypeOK ==
  /\ RegistryTypeOK
  /\ clock \in 1..MaxTime
  /\ Len(cache) <= MaxEntries
  /\ \A i \in DOMAIN cache :
       /\ cache[i] \in [key : Keys, trust : Scores, until : 1..(MaxTime + TTL)]
       /\ Place(cache[i].key) = {i}
  /\ check \in {NoCheck} \cup [pc : {"verifying"}, key : Keys, now : 1..MaxTime]

(* A registration that was answered stands: its agent has a row, and every *)
(* component of its manifest is declared, whoever observed or registered   *)
(* the same ones meanwhile (registry.py, register; inventory.py, declare). *)
EnrolledStands ==
  \A r \in enrolled :
    /\ trust[r.agent] # Absent
    /\ \A k \in r.manifest : inventory[r.agent][k] = "declared"

(* "Declared wins": no step takes a component back to observed, nor a row  *)
(* out of the inventory (inventory.py, _upsert).                           *)
DeclaredWins ==
  [][\A a \in Agents : \A k \in Components :
       /\ inventory[a][k] = "declared" => inventory'[a][k] = "declared"
       /\ inventory[a][k] # Absent => inventory'[a][k] # Absent]_vars

(* "Re-registering does NOT reset the row's trust_score": a known agent's  *)
(* trust moves only to a grade that a registration in progress supplies,   *)
(* even when two first registrations race (registry.py, register).         *)
TrustMovesByGrade ==
  [][\A a \in Agents : (trust[a] # Absent /\ trust'[a] # trust[a]) =>
       \E t \in Threads : /\ op[t].pc = "registering" /\ op[t].agent = a
                          /\ trust'[a] = op[t].grade]_vars

(* The staleness window: what a hit would answer now was the agent's trust *)
(* less than TTL ago and not only before its last invalidation, and its    *)
(* token was valid less than TTL ago, however long the verification took   *)
(* (identity.py, "STALENESS WINDOW" and invalidate).                       *)
StaleWithinTTL ==
  \A i \in DOMAIN cache : LET agent == cache[i].key.claimed IN
    /\ cache[i].trust \in since[agent]
    /\ Live(cache[i]) => /\ clock < inForce[agent][cache[i].trust] + TTL
                        /\ clock < cache[i].key.exp + TTL
=============================================================================
