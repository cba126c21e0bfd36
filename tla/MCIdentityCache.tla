--------------------------- MODULE MCIdentityCache --------------------------
(* An instance of IdentityCache for TLC.                                   *)
EXTENDS IdentityCache
=============================================================================
