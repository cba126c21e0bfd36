--------------------------- MODULE MCResourceStore ---------------------------
(* An instance of ResourceStore for TLC: two of the three documents have   *)
(* one canonical form.                                                     *)
EXTENDS ResourceStore

CanonicalForm == [d \in Documents |-> IF d = "d3" THEN "v2" ELSE "v1"]
=============================================================================
