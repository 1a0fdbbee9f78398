----------------------------- MODULE MCUpdates -----------------------------
(* One request of the owner and one of the administrator.                 *)
EXTENDS Updates
CONSTANTS a, b
=============================================================================
