--------------------------- MODULE MCEnforcement ----------------------------
(* An instance of Enforcement for TLC: a call that may owe a side effect   *)
(* and be parked, or a request filed by hand in its place, and a call with *)
(* no coordinator and no dispatcher.                                       *)
EXTENDS Enforcement

NoneFire == [r \in Requests |-> {}]
OneNotifies == [r \in Requests |-> IF r \in Dispatching THEN {"notify"} ELSE {}]
=============================================================================
