----------------------------- MODULE SlackErrors -----------------------------
(***************************************************************************)
(* The error contract of the client: which failure carries which code, and *)
(* who can fix it (errors.go).  Hints and messages are left out.           *)
(***************************************************************************)
EXTENDS Naturals

Fixables == {"agent", "human", "retry"}

Err(code, fixable) == [code |-> code, fixable |-> fixable]
NoErr == Err("", "")

(* A rejected credential: retrying with the same token is pointless.        *)
AuthErrorCodes ==
  {"invalid_auth", "not_authed", "token_expired", "token_revoked", "account_inactive"}

ErrorCode(err) == err.code
IsAuthError(err) == ErrorCode(err) \in AuthErrorCodes

FixableForCode(code) ==
  CASE code \in AuthErrorCodes \cup {"missing_scope"} -> "human"
    [] code = "ratelimited" -> "retry"
    [] OTHER -> "agent"

(* An answer 200 {ok: false}.                                               *)
MapSlackError(code) ==
  LET known == IF code = "" THEN "unknown_error" ELSE code
  IN Err(known, FixableForCode(known))

(* Any other status.  Its code is no auth code, so a 401 is never refreshed.*)
MapHTTPError(status) ==
  Err("HTTP", CASE status = 429 \/ status >= 500 -> "retry"
                [] status \in {401, 403} -> "human"
                [] OTHER -> "agent")

(* No answer was read: it carries no code.                                  *)
MapNetworkError == Err("", "retry")

ErrBrowserNeedsWorkspace == Err("", "human")
=============================================================================
