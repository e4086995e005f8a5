----------------------------- MODULE MCApiClient -----------------------------
(* Two concurrent calls, as of the five that fetchUsersByID may run.         *)
EXTENDS ApiClient

CONSTANTS r1, r2, old, new, bare
=============================================================================
