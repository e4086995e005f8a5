--------------------------- MODULE MCCredentialStore ---------------------------
(***************************************************************************)
(* Small instances of CredentialStore for TLC.                             *)
(***************************************************************************)
EXTENDS CredentialStore

CONSTANTS p1, p2, work, home, acme, beta, ann, bob

OneUrl == [a \in LegacyAliases |-> acme]
=============================================================================
