------------------------------ MODULE ApiClient ------------------------------
(***************************************************************************)
(* One Client shared by concurrent calls (client.go): a call is a loop of  *)
(* HTTP requests, bounded by the 429 budget, and is repeated once if the   *)
(* client's only refresh brings other credentials.  The calls, the network *)
(* and Slack are the actors.                                               *)
(***************************************************************************)
EXTENDS SlackErrors, FiniteSets

CONSTANTS
  Calls,              \* concurrent calls of one client
  Tokens,             \* credentials that may exist
  NoURL,              \* those that are browser credentials without a workspace URL
  HasHook,            \* whether a refresh hook is installed
  MaxRateLimitRetry,  \* maxRateLimitRetry
  MaxRetryDelay,      \* maxRetryDelay, in seconds
  Headers             \* Retry-After values Slack sends, 0 for none that parses

ASSUME ClientAssumption ==
  /\ NoURL \subseteq Tokens /\ HasHook \in BOOLEAN /\ Headers \subseteq Nat
  /\ MaxRateLimitRetry \in Nat /\ MaxRetryDelay \in Nat \ {0}

VARIABLES
  auth,       \* c.auth
  refreshed,  \* c.refreshed
  pc,         \* where each call is
  sentWith,   \* the credentials its last request was built with
  attempt,    \* the attempt of the current loop
  second,     \* whether it is the loop after the refresh
  result,     \* its error, NoErr on success
  waited,     \* history: seconds slept for 429s
  promised,   \* the last notice of the current 429 said a retry follows
  sends,      \* history: requests sent
  effects,    \* how often Slack carried the call out
  hooks,      \* history: runs of the hook
  valid,      \* the credentials Slack accepts now
  cancelled   \* the caller's context is over

clientVars == <<auth, refreshed, hooks>>
callVars == <<pc, sentWith, attempt, second, result, waited, promised, sends>>
worldVars == <<effects, valid, cancelled>>
vars == <<clientVars, callVars, worldVars>>

Places == {"idle", "build", "wire", "sleep", "failed", "hook", "swap", "done"}

Init ==
  /\ auth \in Tokens /\ refreshed = FALSE /\ hooks = 0
  /\ pc = [r \in Calls |-> "idle"] /\ sentWith = [r \in Calls |-> auth]
  /\ attempt = [r \in Calls |-> 0] /\ second = [r \in Calls |-> FALSE]
  /\ result = [r \in Calls |-> NoErr] /\ waited = [r \in Calls |-> 0]
  /\ promised = [r \in Calls |-> FALSE] /\ sends = [r \in Calls |-> 0]
  /\ effects = [r \in Calls |-> 0] /\ valid \in SUBSET Tokens /\ cancelled = FALSE

Goto(r, place) == pc' = [pc EXCEPT ![r] = place]

(* Seeded fault: any failure of the first loop is worth the refresh.        *)
EndLoopRetrying(r, err) ==
  /\ result' = [result EXCEPT ![r] = err]
  /\ Goto(r, IF err # NoErr /\ ~second[r] THEN "failed" ELSE "done")

(* The loop ended with err: only an auth error of the first loop goes on.   *)
EndLoop(r, err) ==
  /\ result' = [result EXCEPT ![r] = err]
  /\ Goto(r, IF IsAuthError(err) /\ ~second[r] THEN "failed" ELSE "done")

Start(r) ==
  /\ pc[r] = "idle" /\ Goto(r, "build")
  /\ UNCHANGED <<clientVars, worldVars, sentWith, attempt, second, result, waited,
                 promised, sends>>

(* currentAuth is read once: the token and the cookie are of one pair.      *)
BuildRequest(r) ==
  /\ pc[r] = "build"
  /\ IF auth \in NoURL
     THEN /\ EndLoop(r, ErrBrowserNeedsWorkspace)
          /\ UNCHANGED <<sentWith, sends, promised>>
     ELSE /\ Goto(r, "wire")
          /\ sentWith' = [sentWith EXCEPT ![r] = auth]
          /\ sends' = [sends EXCEPT ![r] = @ + 1]
          /\ promised' = [promised EXCEPT ![r] = FALSE]
          /\ UNCHANGED result
  /\ UNCHANGED <<clientVars, worldVars, attempt, second, waited>>

-----------------------------------------------------------------------------
(* What may come back.  A lost answer, or a 5xx, may follow the effect.     *)
Answered(r, err, took) ==
  /\ pc[r] = "wire" /\ EndLoop(r, err)
  /\ effects' = IF took THEN [effects EXCEPT ![r] = @ + 1] ELSE effects
  /\ UNCHANGED <<clientVars, valid, cancelled, sentWith, attempt, second, waited,
                 promised, sends>>

Succeeds(r) == sentWith[r] \in valid /\ Answered(r, NoErr, TRUE)

Rejected(r) ==
  sentWith[r] \notin valid /\ Answered(r, MapSlackError("invalid_auth"), FALSE)

Refused(r) ==
  \E err \in {MapSlackError("missing_scope"), MapSlackError(""), MapHTTPError(403)} :
    Answered(r, err, FALSE)

ServerFails(r) ==
  \E took \in BOOLEAN : (took => sentWith[r] \in valid)
    /\ Answered(r, MapHTTPError(500), took)

AnswerLost(r) ==
  \E took \in BOOLEAN : (took => sentWith[r] \in valid)
    /\ Answered(r, MapNetworkError, took)

RetryAfterDuration(header) == IF header <= 0 THEN 5 ELSE header

(* Seeded fault: the header is honoured whatever it says.                   *)
UncappedDelay(retryAfter) == IF retryAfter < 1 THEN 1 ELSE retryAfter

Delay(retryAfter) ==
  LET atLeast == IF retryAfter < 1 THEN 1 ELSE retryAfter
  IN IF atLeast > MaxRetryDelay THEN MaxRetryDelay ELSE atLeast

WillRetry(r) == attempt[r] < MaxRateLimitRetry

(* Seeded fault: a retry is announced on the last attempt as well.          *)
NotifyHopefully(r, willRetry) == promised' = [promised EXCEPT ![r] = TRUE]

NotifyRateLimit(r, willRetry) == promised' = [promised EXCEPT ![r] = willRetry]

(* A 429 is announced, then slept through or returned.                      *)
Throttled(r) ==
  /\ pc[r] = "wire"
  /\ \E header \in Headers :
       IF WillRetry(r)
       THEN /\ waited' = [waited EXCEPT ![r] = @ + Delay(RetryAfterDuration(header))]
            /\ Goto(r, "sleep") /\ UNCHANGED result
       ELSE EndLoop(r, MapHTTPError(429)) /\ UNCHANGED waited
  /\ NotifyRateLimit(r, WillRetry(r))
  /\ UNCHANGED <<clientVars, worldVars, sentWith, attempt, second, sends>>

Wake(r) ==
  /\ pc[r] = "sleep"
  /\ IF cancelled
     THEN EndLoop(r, MapNetworkError) /\ UNCHANGED attempt
     ELSE /\ attempt' = [attempt EXCEPT ![r] = @ + 1]
          /\ Goto(r, "build") /\ UNCHANGED result
  /\ UNCHANGED <<clientVars, worldVars, sentWith, second, waited, promised, sends>>

-----------------------------------------------------------------------------
(* Seeded fault: a call waits for the refresh another one has taken.        *)
TakeRefreshOrWait(r) ==
  /\ pc[r] = "failed" /\ ~refreshed
  /\ refreshed' = TRUE
  /\ Goto(r, IF ~HasHook THEN "done" ELSE "hook")
  /\ UNCHANGED <<auth, hooks, worldVars, sentWith, attempt, second, result, waited,
                 promised, sends>>

(* takeRefresh gives the hook away once, whether or not it is installed.    *)
TakeRefresh(r) ==
  /\ pc[r] = "failed"
  /\ refreshed' = TRUE
  /\ Goto(r, IF refreshed \/ ~HasHook THEN "done" ELSE "hook")
  /\ UNCHANGED <<auth, hooks, worldVars, sentWith, attempt, second, result, waited,
                 promised, sends>>

(* The hook answers with credentials, good or bad, or with none.  The call  *)
(* that ran it swaps them in later, under the lock, and starts over.        *)
HookFails(r) ==
  /\ pc[r] = "hook" /\ hooks' = hooks + 1 /\ Goto(r, "done")
  /\ UNCHANGED <<auth, refreshed, worldVars, sentWith, attempt, second, result, waited,
                 promised, sends>>

HookAnswers(r) ==
  /\ pc[r] = "hook" /\ hooks' = hooks + 1 /\ Goto(r, "swap")
  /\ UNCHANGED <<auth, refreshed, worldVars, sentWith, attempt, second, result, waited,
                 promised, sends>>

SetAuth(r) ==
  /\ pc[r] = "swap" /\ \E a \in Tokens : auth' = a
  /\ second' = [second EXCEPT ![r] = TRUE]
  /\ attempt' = [attempt EXCEPT ![r] = 0]
  /\ Goto(r, "build")
  /\ UNCHANGED <<refreshed, hooks, worldVars, sentWith, result, waited, promised, sends>>

-----------------------------------------------------------------------------
Revoke == \E a \in valid : valid' = valid \ {a}
          /\ UNCHANGED <<clientVars, callVars, effects, cancelled>>

CallerCancels ==
  /\ ~cancelled /\ cancelled' = TRUE
  /\ UNCHANGED <<clientVars, callVars, effects, valid>>

Step(r) ==
  \/ Start(r) \/ BuildRequest(r)
  \/ Succeeds(r) \/ Rejected(r) \/ Refused(r) \/ ServerFails(r) \/ AnswerLost(r)
  \/ Throttled(r) \/ Wake(r)
  \/ TakeRefresh(r) \/ HookFails(r) \/ HookAnswers(r) \/ SetAuth(r)

AllDone == (\A r \in Calls : pc[r] = "done") /\ UNCHANGED vars

Next == Revoke \/ CallerCancels \/ AllDone \/ \E r \in Calls : Step(r)

(* Each goroutine is scheduled; a request ends (the HTTP client times out), *)
(* and so does a sleep.                                                     *)
Spec == Init /\ [][Next]_vars /\ \A r \in Calls : WF_vars(Step(r))

-----------------------------------------------------------------------------
TypeOK ==
  /\ auth \in Tokens /\ refreshed \in BOOLEAN /\ hooks \in Nat
  /\ pc \in [Calls -> Places] /\ sentWith \in [Calls -> Tokens]
  /\ attempt \in [Calls -> Nat] /\ second \in [Calls -> BOOLEAN]
  /\ result \in [Calls -> [code : STRING, fixable : Fixables \cup {""}]]
  /\ waited \in [Calls -> Nat] /\ promised \in [Calls -> BOOLEAN]
  /\ sends \in [Calls -> Nat] /\ effects \in [Calls -> Nat]
  /\ valid \in SUBSET Tokens /\ cancelled \in BOOLEAN

(* A call is never carried out twice, whatever was throttled, refused or    *)
(* refreshed on the way, and a call that succeeded was carried out: 429s    *)
(* and auth errors are answers of a Slack that did nothing, and nothing     *)
(* else is retried (apiWithRefresh, call).                                  *)
AtMostOnce ==
  \A r \in Calls :
    /\ effects[r] <= 1
    /\ pc[r] = "done" /\ result[r] = NoErr => effects[r] = 1

(* The hook runs at most once for all calls together, and no call sends or  *)
(* sleeps more than two loops' worth: a pathological Retry-After, or fresh  *)
(* credentials that are still bad, cannot hang the program.                 *)
BoundedEffort ==
  /\ hooks <= 1
  /\ \A r \in Calls :
       /\ sends[r] <= 2 * (MaxRateLimitRetry + 1)
       /\ waited[r] <= 2 * MaxRateLimitRetry * MaxRetryDelay
       /\ second[r] \/ ( /\ sends[r] <= MaxRateLimitRetry + 1
                         /\ waited[r] <= MaxRateLimitRetry * MaxRetryDelay )

(* A notice that announces a retry is followed by one, unless the caller    *)
(* gave up while it slept or the refresh of another call brought            *)
(* credentials no request can be built with (call, notifyRateLimit).        *)
NoticesAreTrue ==
  \A r \in Calls :
    pc[r] = "done" /\ promised[r]
      => \/ cancelled /\ result[r] = MapNetworkError
         \/ auth \in NoURL /\ result[r] = ErrBrowserNeedsWorkspace

(* What fixable_by promises of "retry": wait and run the command again.     *)
(* That is safe when the failed call did nothing.                           *)
RetryIsSafe ==
  \A r \in Calls :
    pc[r] = "done" /\ result[r].fixable = "retry" => effects[r] = 0

(* Every call ends, whatever Slack answers and for however long.            *)
CallsEnd == \A r \in Calls : pc[r] = "build" ~> pc[r] = "done"
=============================================================================
