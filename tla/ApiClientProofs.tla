--------------------------- MODULE ApiClientProofs ---------------------------
(***************************************************************************)
(* No call is carried out twice, none outlives its budget and no notice    *)
(* lies, for any number of concurrent calls of one client, any retry       *)
(* budget and whatever Slack answers.                                      *)
(***************************************************************************)
EXTENDS ApiClient, TLAPS

Results == [code : STRING, fixable : Fixables \cup {""}]
Shapes ==
  /\ auth \in Tokens /\ refreshed \in BOOLEAN /\ hooks \in Nat
  /\ pc \in [Calls -> Places] /\ sentWith \in [Calls -> Tokens]
  /\ attempt \in [Calls -> Nat] /\ second \in [Calls -> BOOLEAN]
  /\ DOMAIN result = Calls
  /\ waited \in [Calls -> Nat] /\ promised \in [Calls -> BOOLEAN]
  /\ sends \in [Calls -> Nat] /\ effects \in [Calls -> Nat]

(* Nothing was carried out as long as the call goes on: only an answer that *)
(* names an auth error makes it go on, and such an answer did nothing.      *)
EffectInv ==
  \A r \in Calls :
    /\ pc[r] # "done" => effects[r] = 0
    /\ effects[r] <= 1
    /\ pc[r] = "done" /\ result[r] = NoErr => effects[r] = 1
    /\ pc[r] \in {"failed", "hook", "swap"} => result[r] # NoErr

(* The refresh is one: who runs the hook, or swaps its answer in, has taken *)
(* it, and a second loop is behind it.                                      *)
HookInv ==
  /\ hooks <= 1 /\ (~refreshed => hooks = 0)
  /\ \A r \in Calls : pc[r] \in {"hook", "swap"} \/ second[r] => refreshed
  /\ \A r \in Calls : pc[r] = "hook" => hooks = 0
  /\ \A r, q \in Calls :
       pc[r] \in {"hook", "swap"} => (pc[q] \in {"hook", "swap"} => q = r) /\ ~second[q]

(* The seconds of n full delays.                                            *)
Slept(n) == n * MaxRetryDelay

(* What the current loop may have sent and slept through by now.            *)
LoopSends(r) ==
  CASE pc[r] \in {"idle", "build"} -> attempt[r]
    [] pc[r] \in {"wire", "sleep"} -> attempt[r] + 1
    [] OTHER -> MaxRateLimitRetry + 1
LoopWaited(r) ==
  CASE pc[r] \in {"idle", "build", "wire"} -> Slept(attempt[r])
    [] pc[r] = "sleep" -> Slept(attempt[r] + 1)
    [] OTHER -> Slept(MaxRateLimitRetry)

Effort(r) ==
  /\ attempt[r] <= MaxRateLimitRetry
  /\ pc[r] = "sleep" => attempt[r] < MaxRateLimitRetry
  /\ pc[r] \in {"failed", "hook", "swap"} => ~second[r]
  /\ sends[r] <= (IF second[r] THEN MaxRateLimitRetry + 1 ELSE 0) + LoopSends(r)
  /\ waited[r] <= (IF second[r] THEN Slept(MaxRateLimitRetry) ELSE 0) + LoopWaited(r)

EffortInv == \A r \in Calls : Effort(r)

(* Credentials no request can be built with come after those of a request   *)
(* that was, with the only swap there is.                                   *)
NoticeInv ==
  \A r \in Calls :
    /\ promised[r] => pc[r] \in {"sleep", "build", "done"}
    /\ pc[r] = "wire" \/ promised[r] => (auth \in NoURL => \E q \in Calls : second[q])
    /\ pc[r] = "done" /\ promised[r] =>
         \/ cancelled /\ result[r] = MapNetworkError
         \/ auth \in NoURL /\ result[r] = ErrBrowserNeedsWorkspace

IInv == Shapes /\ EffectInv /\ HookInv /\ EffortInv /\ NoticeInv

(* The errors that may come back, and which of them go on.                  *)
LEMMA Errors ==
  /\ ~IsAuthError(NoErr) /\ ~IsAuthError(MapNetworkError)
  /\ ~IsAuthError(ErrBrowserNeedsWorkspace)
  /\ ~IsAuthError(MapHTTPError(429)) /\ ~IsAuthError(MapHTTPError(500))
  /\ MapNetworkError # NoErr /\ ErrBrowserNeedsWorkspace # NoErr
  /\ MapHTTPError(403) # NoErr /\ MapHTTPError(429) # NoErr /\ MapHTTPError(500) # NoErr
  /\ MapSlackError("invalid_auth") # NoErr /\ MapSlackError("missing_scope") # NoErr
  /\ MapSlackError("") # NoErr
BY DEF IsAuthError, NoErr, MapNetworkError, ErrBrowserNeedsWorkspace, MapHTTPError, MapSlackError,
       Err, ErrorCode, AuthErrorCodes

(* A loop that ends with an error which is no auth error ends the call.     *)
LEMMA AnswerPreserves ==
  ASSUME Shapes, EffectInv, NEW r \in Calls, NEW err, NEW took \in BOOLEAN,
         pc[r] # "done", took => ~IsAuthError(err), ~took => err # NoErr,
         result' = [result EXCEPT ![r] = err],
         pc' = [pc EXCEPT ![r] = IF IsAuthError(err) /\ ~second[r] THEN "failed" ELSE "done"],
         effects' = IF took THEN [effects EXCEPT ![r] = @ + 1] ELSE effects
  PROVE  EffectInv'
<1> USE DEF Shapes, EffectInv
<1>1. pc'[r] \in {"failed", "done"} /\ (took => pc'[r] = "done") /\ result'[r] = err
  OBVIOUS
<1>2. effects'[r] = IF took THEN 1 ELSE 0
  OBVIOUS
<1>3. \A q \in Calls \ {r} : pc'[q] = pc[q] /\ result'[q] = result[q] /\ effects'[q] = effects[q]
  OBVIOUS
<1>4. ASSUME NEW q \in Calls
      PROVE  /\ pc'[q] # "done" => effects'[q] = 0
             /\ effects'[q] <= 1
             /\ pc'[q] = "done" /\ result'[q] = NoErr => effects'[q] = 1
             /\ pc'[q] \in {"failed", "hook", "swap"} => result'[q] # NoErr
  <2>1. CASE q = r
    BY <1>1, <1>2, <2>1
  <2>2. CASE q # r
    BY <1>3, <2>2
  <2> QED
    BY <2>1, <2>2
<1> QED
  BY <1>4

LEMMA EffectNext ==
  ASSUME Shapes, EffectInv, NEW r \in Calls, Step(r)
  PROVE  EffectInv'
<1> USE DEF Shapes, EffectInv, Goto, Places
<1>1. CASE Start(r)
  BY <1>1 DEF Start, worldVars
<1>2. CASE BuildRequest(r)
  <2>1. CASE auth \in NoURL
    <3>1. /\ pc[r] = "build" /\ effects' = effects
          /\ result' = [result EXCEPT ![r] = ErrBrowserNeedsWorkspace]
          /\ pc' = [pc EXCEPT ![r] = IF IsAuthError(ErrBrowserNeedsWorkspace) /\ ~second[r]
                                     THEN "failed" ELSE "done"]
      BY <1>2, <2>1 DEF BuildRequest, EndLoop, worldVars
    <3> HIDE DEF EffectInv, Shapes
    <3> QED
      BY <3>1, Errors, AnswerPreserves
  <2>2. CASE auth \notin NoURL
    BY <1>2, <2>2 DEF BuildRequest, worldVars
  <2> QED
    BY <2>1, <2>2
<1>3. CASE Succeeds(r)
  <2> HIDE DEF EffectInv, Shapes
  <2>1. Answered(r, NoErr, TRUE)
    BY <1>3 DEF Succeeds
  <2> QED
    BY <2>1, Errors, AnswerPreserves DEF Answered, EndLoop
<1>4. CASE Rejected(r)
  <2> HIDE DEF EffectInv, Shapes
  <2>1. Answered(r, MapSlackError("invalid_auth"), FALSE)
    BY <1>4 DEF Rejected
  <2> QED
    BY <2>1, Errors, AnswerPreserves DEF Answered, EndLoop
<1>5. CASE Refused(r)
  <2> PICK err \in {MapSlackError("missing_scope"), MapSlackError(""), MapHTTPError(403)} :
         Answered(r, err, FALSE)
    BY <1>5 DEF Refused
  <2>1. err # NoErr
    BY Errors
  <2> QED
    BY <2>1, AnswerPreserves DEF Answered, EndLoop
<1>6. CASE ServerFails(r)
  <2> PICK took \in BOOLEAN : Answered(r, MapHTTPError(500), took)
    BY <1>6 DEF ServerFails
  <2>1. ~IsAuthError(MapHTTPError(500)) /\ MapHTTPError(500) # NoErr
    BY Errors
  <2> QED
    BY <2>1, AnswerPreserves DEF Answered, EndLoop
<1>7. CASE AnswerLost(r)
  <2> PICK took \in BOOLEAN : Answered(r, MapNetworkError, took)
    BY <1>7 DEF AnswerLost
  <2> HIDE DEF EffectInv, Shapes
  <2> QED
    BY Errors, AnswerPreserves DEF Answered, EndLoop
<1>8. CASE Throttled(r)
  <2>1. CASE WillRetry(r)
    BY <1>8, <2>1 DEF Throttled, worldVars
  <2>2. CASE ~WillRetry(r)
    <3>1. ~IsAuthError(MapHTTPError(429)) /\ MapHTTPError(429) # NoErr
      BY Errors
    <3>2. /\ pc[r] = "wire" /\ effects' = effects
          /\ result' = [result EXCEPT ![r] = MapHTTPError(429)]
          /\ pc' = [pc EXCEPT ![r] = IF IsAuthError(MapHTTPError(429)) /\ ~second[r]
                                     THEN "failed" ELSE "done"]
      BY <1>8, <2>2 DEF Throttled, EndLoop, worldVars
    <3> HIDE DEF EffectInv, Shapes
    <3> QED
      BY <3>1, <3>2, AnswerPreserves
  <2> QED
    BY <2>1, <2>2
<1>9. CASE Wake(r)
  <2>1. CASE cancelled
    <3>1. /\ pc[r] = "sleep" /\ effects' = effects
          /\ result' = [result EXCEPT ![r] = MapNetworkError]
          /\ pc' = [pc EXCEPT ![r] = IF IsAuthError(MapNetworkError) /\ ~second[r]
                                     THEN "failed" ELSE "done"]
      BY <1>9, <2>1 DEF Wake, EndLoop, worldVars
    <3> HIDE DEF EffectInv, Shapes
    <3> QED
      BY <3>1, Errors, AnswerPreserves
  <2>2. CASE ~cancelled
    BY <1>9, <2>2 DEF Wake, worldVars
  <2> QED
    BY <2>1, <2>2
<1>10. CASE TakeRefresh(r)
  BY <1>10 DEF TakeRefresh, worldVars
<1>11. CASE HookFails(r)
  BY <1>11 DEF HookFails, worldVars
<1>12. CASE HookAnswers(r)
  BY <1>12 DEF HookAnswers, worldVars
<1>13. CASE SetAuth(r)
  BY <1>13 DEF SetAuth, worldVars
<1> QED
  BY <1>1, <1>2, <1>3, <1>4, <1>5, <1>6, <1>7, <1>8, <1>9, <1>10, <1>11, <1>12, <1>13 DEF Step

(* A delay is at most the cap, whatever the header says.                    *)
LEMMA DelayBound ==
  ASSUME NEW h \in Headers
  PROVE  Delay(RetryAfterDuration(h)) \in Nat /\ Delay(RetryAfterDuration(h)) <= MaxRetryDelay
BY ClientAssumption DEF Delay, RetryAfterDuration

LEMMA ShapesNext ==
  ASSUME Shapes, NEW r \in Calls, Step(r)
  PROVE  Shapes'
<1> USE DEF Shapes, Goto, Places, clientVars, worldVars
<1>1. CASE Start(r)
  BY <1>1 DEF Start
<1>2. CASE BuildRequest(r)
  <2>1. CASE auth \in NoURL
    <3>1. PICK place \in {"failed", "done"} : pc' = [pc EXCEPT ![r] = place]
      BY <1>2, <2>1 DEF BuildRequest, EndLoop
    <3>2. DOMAIN result' = Calls
      BY <1>2, <2>1 DEF BuildRequest, EndLoop
    <3> QED
      BY <1>2, <2>1, <3>1, <3>2 DEF BuildRequest
  <2>2. CASE auth \notin NoURL
    <3>1. /\ pc' = [pc EXCEPT ![r] = "wire"] /\ sentWith' = [sentWith EXCEPT ![r] = auth]
          /\ sends' = [sends EXCEPT ![r] = @ + 1] /\ promised' = [promised EXCEPT ![r] = FALSE]
          /\ UNCHANGED <<auth, refreshed, hooks, attempt, second, result, waited, effects,
                         valid, cancelled>>
      BY <1>2, <2>2 DEF BuildRequest
    <3> QED
      BY <3>1
  <2> QED
    BY <2>1, <2>2
<1>3. ASSUME NEW err, NEW took \in BOOLEAN, Answered(r, err, took)
      PROVE  Shapes'
  BY <1>3 DEF Answered, EndLoop
<1>4. CASE Throttled(r)
  <2>1. CASE WillRetry(r)
    BY <1>4, <2>1, DelayBound DEF Throttled, NotifyRateLimit, WillRetry
  <2>2. CASE ~WillRetry(r)
    BY <1>4, <2>2 DEF Throttled, NotifyRateLimit, WillRetry, EndLoop
  <2> QED
    BY <2>1, <2>2
<1>5. CASE Wake(r)
  BY <1>5 DEF Wake, EndLoop
<1>6. CASE TakeRefresh(r)
  BY <1>6 DEF TakeRefresh
<1>7. CASE HookFails(r) \/ HookAnswers(r)
  BY <1>7 DEF HookFails, HookAnswers
<1>8. CASE SetAuth(r)
  BY <1>8 DEF SetAuth
<1> QED
  BY <1>1, <1>2, <1>3, <1>4, <1>5, <1>6, <1>7, <1>8
     DEF Step, Succeeds, Rejected, Refused, ServerFails, AnswerLost

(* A step leaves the hook alone when it neither takes the refresh nor is    *)
(* behind it.                                                               *)
LEMMA HookUntouched ==
  ASSUME Shapes, HookInv, NEW r \in Calls, NEW place \in Places \ {"hook", "swap"},
         pc' = [pc EXCEPT ![r] = place],
         UNCHANGED <<refreshed, hooks, second>>
  PROVE  HookInv'
BY DEF Shapes, HookInv

LEMMA HookNext ==
  ASSUME Shapes, HookInv, NEW r \in Calls, Step(r)
  PROVE  HookInv'
<1>1. ASSUME NEW place \in Places \ {"hook", "swap"}, pc' = [pc EXCEPT ![r] = place],
             UNCHANGED <<refreshed, hooks, second>>
      PROVE  HookInv'
  BY <1>1, HookUntouched
<1> USE DEF Goto, clientVars
<1>2. CASE Start(r)
  BY <1>1, <1>2 DEF Start, Places
<1>3. CASE BuildRequest(r)
  BY <1>1, <1>3 DEF BuildRequest, EndLoop, Places
<1>4. ASSUME NEW err, NEW took \in BOOLEAN, Answered(r, err, took)
      PROVE  HookInv'
  BY <1>1, <1>4 DEF Answered, EndLoop, Places
<1>5. CASE Throttled(r)
  BY <1>1, <1>5 DEF Throttled, EndLoop, Places
<1>6. CASE Wake(r)
  BY <1>1, <1>6 DEF Wake, EndLoop, Places
<1>7. CASE TakeRefresh(r)
  BY <1>7 DEF TakeRefresh, Shapes, HookInv
<1>8. CASE HookFails(r)
  BY <1>8 DEF HookFails, Shapes, HookInv
<1>9. CASE HookAnswers(r)
  BY <1>9 DEF HookAnswers, Shapes, HookInv
<1>10. CASE SetAuth(r)
  BY <1>10 DEF SetAuth, Shapes, HookInv
<1> QED
  BY <1>2, <1>3, <1>4, <1>5, <1>6, <1>7, <1>8, <1>9, <1>10
     DEF Step, Succeeds, Rejected, Refused, ServerFails, AnswerLost

(* The loop counts and its products.                                        *)
LEMMA SleptFacts ==
  /\ Slept(0) = 0
  /\ \A n \in Nat : Slept(n) \in Nat /\ Slept(n + 1) = Slept(n) + MaxRetryDelay
  /\ \A n \in 0..MaxRateLimitRetry : Slept(n) <= Slept(MaxRateLimitRetry)
<1> USE ClientAssumption DEF Slept
<1>1. ASSUME NEW n \in Nat PROVE Slept(n) \in Nat /\ Slept(n + 1) = Slept(n) + MaxRetryDelay
  OBVIOUS
<1>2. ASSUME NEW n \in 0..MaxRateLimitRetry PROVE Slept(n) <= Slept(MaxRateLimitRetry)
  OBVIOUS
<1> QED
  BY <1>1, <1>2

(* What one call may still send and sleep is its own affair.                *)
LEMMA EffortOfOthers ==
  ASSUME Shapes, EffortInv, NEW r \in Calls, Effort(r)',
         \A q \in Calls \ {r} :
           /\ pc'[q] = pc[q] /\ attempt'[q] = attempt[q] /\ second'[q] = second[q]
           /\ sends'[q] = sends[q] /\ waited'[q] = waited[q]
  PROVE  EffortInv'
<1>1. ASSUME NEW q \in Calls, q # r PROVE Effort(q)'
  BY <1>1 DEF EffortInv, Effort, LoopSends, LoopWaited
<1> QED
  BY <1>1 DEF EffortInv

(* A loop that ends at any point of it keeps to its count.                  *)
LEMMA EffortOfEnd ==
  ASSUME Shapes, EffortInv, NEW r \in Calls, NEW place \in {"failed", "done"},
         place = "failed" => ~second[r],
         pc' = [pc EXCEPT ![r] = place], UNCHANGED <<attempt, second, sends, waited>>
  PROVE  EffortInv'
<1> USE ClientAssumption
<1>1. Effort(r) /\ Slept(attempt[r]) <= Slept(MaxRateLimitRetry)
      /\ (pc[r] = "sleep" => Slept(attempt[r] + 1) <= Slept(MaxRateLimitRetry))
  BY SleptFacts DEF EffortInv, Effort, Shapes
<1>2. /\ LoopSends(r) <= MaxRateLimitRetry + 1 /\ LoopSends(r)' = MaxRateLimitRetry + 1
      /\ LoopWaited(r) <= Slept(MaxRateLimitRetry)
      /\ LoopWaited(r)' = Slept(MaxRateLimitRetry)
      /\ LoopSends(r) \in Nat /\ LoopWaited(r) \in Nat
  BY <1>1, SleptFacts DEF LoopSends, LoopWaited, Effort, Shapes
<1>3. Slept(MaxRateLimitRetry) \in Nat
  BY SleptFacts
<1>4. Effort(r)'
  BY <1>1, <1>2, <1>3 DEF Effort, Shapes
<1> QED
  BY <1>4, EffortOfOthers DEF Shapes

LEMMA EffortNext ==
  ASSUME Shapes, EffortInv, NEW r \in Calls, Step(r)
  PROVE  EffortInv'
<1> USE ClientAssumption DEF Goto, clientVars
<1>0. Effort(r) /\ Slept(0) = 0 /\ Slept(MaxRateLimitRetry) \in Nat
  BY SleptFacts DEF EffortInv
<1>1. CASE Start(r)
  <2>1. Effort(r)'
    BY <1>0, <1>1 DEF Start, Shapes, Effort, LoopSends, LoopWaited
  <2> QED
    BY <1>1, <2>1, EffortOfOthers DEF Start, Shapes
<1>2. CASE BuildRequest(r)
  <2>1. CASE auth \in NoURL
    BY <1>2, <2>1, EffortOfEnd DEF BuildRequest, EndLoop
  <2>2. CASE auth \notin NoURL
    <3>1. Effort(r)'
      BY <1>0, <1>2, <2>2 DEF BuildRequest, Shapes, Effort, LoopSends, LoopWaited
    <3> QED
      BY <1>2, <2>2, <3>1, EffortOfOthers DEF BuildRequest, Shapes
  <2> QED
    BY <2>1, <2>2
<1>3. ASSUME NEW err, NEW took \in BOOLEAN, Answered(r, err, took)
      PROVE  EffortInv'
  BY <1>3, EffortOfEnd DEF Answered, EndLoop
<1>4. CASE Throttled(r)
  <2>1. CASE WillRetry(r)
    <3> PICK h \in Headers : waited' = [waited EXCEPT ![r] = @ + Delay(RetryAfterDuration(h))]
      BY <1>4, <2>1 DEF Throttled
    <3>1. Slept(attempt[r]) \in Nat /\ Slept(attempt[r] + 1) = Slept(attempt[r]) + MaxRetryDelay
      BY SleptFacts DEF Shapes
    <3>2. Effort(r)'
      BY <1>0, <1>4, <2>1, <3>1, DelayBound
         DEF Throttled, WillRetry, Shapes, Effort, LoopSends, LoopWaited
    <3> QED
      BY <1>4, <2>1, <3>2, EffortOfOthers DEF Throttled, Shapes
  <2>2. CASE ~WillRetry(r)
    BY <1>4, <2>2, EffortOfEnd DEF Throttled, EndLoop
  <2> QED
    BY <2>1, <2>2
<1>5. CASE Wake(r)
  <2>1. CASE cancelled
    BY <1>5, <2>1, EffortOfEnd DEF Wake, EndLoop
  <2>2. CASE ~cancelled
    <3>1. Effort(r)'
      BY <1>0, <1>5, <2>2 DEF Wake, Shapes, Effort, LoopSends, LoopWaited
    <3> QED
      BY <1>5, <2>2, <3>1, EffortOfOthers DEF Wake, Shapes
  <2> QED
    BY <2>1, <2>2
<1>6. ASSUME pc[r] \in {"failed", "hook"}, NEW place \in {"hook", "swap", "done"},
             pc' = [pc EXCEPT ![r] = place], UNCHANGED <<attempt, second, sends, waited>>
      PROVE  EffortInv'
  <2>1. Effort(r)'
    BY <1>0, <1>6 DEF Shapes, Effort, LoopSends, LoopWaited
  <2> QED
    BY <1>6, <2>1, EffortOfOthers DEF Shapes
<1>7. CASE TakeRefresh(r)
  BY <1>6, <1>7 DEF TakeRefresh
<1>8. CASE HookFails(r) \/ HookAnswers(r)
  BY <1>6, <1>8 DEF HookFails, HookAnswers
<1>9. CASE SetAuth(r)
  <2>1. Effort(r)'
    BY <1>0, <1>9 DEF SetAuth, Shapes, Effort, LoopSends, LoopWaited
  <2> QED
    BY <1>9, <2>1, EffortOfOthers DEF SetAuth, Shapes
<1> QED
  BY <1>1, <1>2, <1>3, <1>4, <1>5, <1>7, <1>8, <1>9
     DEF Step, Succeeds, Rejected, Refused, ServerFails, AnswerLost

(* Nothing but a swap changes the credentials, and there is none after a    *)
(* second loop has begun.                                                   *)
LEMMA NoticeOfOne ==
  ASSUME Shapes, HookInv, NoticeInv, NEW r \in Calls,
         UNCHANGED auth, UNCHANGED second, cancelled => cancelled',
         \A q \in Calls \ {r} :
           pc'[q] = pc[q] /\ promised'[q] = promised[q] /\ result'[q] = result[q],
         promised'[r] => pc'[r] \in {"sleep", "build", "done"},
         pc'[r] = "wire" \/ promised'[r] => (auth \in NoURL => \E q \in Calls : second[q]),
         pc'[r] = "done" /\ promised'[r] =>
           \/ cancelled' /\ result'[r] = MapNetworkError
           \/ auth \in NoURL /\ result'[r] = ErrBrowserNeedsWorkspace
  PROVE  NoticeInv'
BY DEF NoticeInv

LEMMA NoticeNext ==
  ASSUME Shapes, HookInv, NoticeInv, NEW r \in Calls, Step(r)
  PROVE  NoticeInv'
<1> USE DEF Goto, clientVars, worldVars
<1>0. /\ promised[r] => pc[r] \in {"sleep", "build", "done"}
      /\ pc[r] = "wire" \/ promised[r] => (auth \in NoURL => \E q \in Calls : second[q])
  BY DEF NoticeInv
<1>1. CASE Start(r)
  BY <1>0, <1>1, NoticeOfOne DEF Start, Shapes
<1>2. CASE BuildRequest(r)
  <2>1. CASE auth \in NoURL
    <3>1. pc' = [pc EXCEPT ![r] = "done"] /\ result' = [result EXCEPT ![r] = ErrBrowserNeedsWorkspace]
      BY <1>2, <2>1, Errors DEF BuildRequest, EndLoop
    <3> QED
      BY <1>0, <1>2, <2>1, <3>1, NoticeOfOne DEF BuildRequest, Shapes
  <2>2. CASE auth \notin NoURL
    BY <1>0, <1>2, <2>2, NoticeOfOne DEF BuildRequest, Shapes
  <2> QED
    BY <2>1, <2>2
<1>3. ASSUME NEW err, NEW took \in BOOLEAN, Answered(r, err, took)
      PROVE  NoticeInv'
  <2>1. PICK place \in {"failed", "done"} : pc' = [pc EXCEPT ![r] = place]
    BY <1>3 DEF Answered, EndLoop
  <2>2. pc[r] = "wire" /\ result' = [result EXCEPT ![r] = err]
        /\ UNCHANGED <<auth, second, promised, cancelled>>
    BY <1>3 DEF Answered, EndLoop
  <2>3. pc'[r] \in {"failed", "done"} /\ ~promised'[r]
    BY <1>0, <2>1, <2>2 DEF Shapes
  <2>4. \A q \in Calls \ {r} :
          pc'[q] = pc[q] /\ promised'[q] = promised[q] /\ result'[q] = result[q]
    BY <2>1, <2>2 DEF Shapes
  <2>5. /\ promised'[r] => pc'[r] \in {"sleep", "build", "done"}
        /\ pc'[r] = "wire" \/ promised'[r] => (auth \in NoURL => \E q \in Calls : second[q])
        /\ pc'[r] = "done" /\ promised'[r] =>
             \/ cancelled' /\ result'[r] = MapNetworkError
             \/ auth \in NoURL /\ result'[r] = ErrBrowserNeedsWorkspace
    BY <2>3
  <2> QED
    BY <2>2, <2>4, <2>5 DEF NoticeInv
<1>4. CASE Throttled(r)
  <2>1. CASE WillRetry(r)
    <3>1. pc[r] = "wire" /\ pc' = [pc EXCEPT ![r] = "sleep"]
          /\ UNCHANGED <<auth, second, result, cancelled>>
      BY <1>4, <2>1 DEF Throttled
    <3>2. \A q \in Calls \ {r} : promised'[q] = promised[q]
      BY <1>4 DEF Throttled, NotifyRateLimit, Shapes
    <3> QED
      BY <1>0, <3>1, <3>2, NoticeOfOne DEF Shapes
  <2>2. CASE ~WillRetry(r)
    BY <1>0, <1>4, <2>2, NoticeOfOne DEF Throttled, NotifyRateLimit, EndLoop, Shapes
  <2> QED
    BY <2>1, <2>2
<1>5. CASE Wake(r)
  <2>1. CASE cancelled
    <3>1. pc' = [pc EXCEPT ![r] = "done"] /\ result' = [result EXCEPT ![r] = MapNetworkError]
      BY <1>5, <2>1, Errors DEF Wake, EndLoop
    <3> QED
      BY <1>0, <1>5, <2>1, <3>1, NoticeOfOne DEF Wake, Shapes
  <2>2. CASE ~cancelled
    BY <1>0, <1>5, <2>2, NoticeOfOne DEF Wake, Shapes
  <2> QED
    BY <2>1, <2>2
<1>6. CASE TakeRefresh(r)
  BY <1>0, <1>6, NoticeOfOne DEF TakeRefresh, Shapes
<1>7. CASE HookFails(r) \/ HookAnswers(r)
  BY <1>0, <1>7, NoticeOfOne DEF HookFails, HookAnswers, Shapes
<1>8. CASE SetAuth(r)
  (* It is the first second loop: no other call may have promised anything  *)
  (* that the old credentials could not be used for.                        *)
  <2>1. \A q \in Calls : ~second[q]
    BY <1>8 DEF SetAuth, HookInv
  <2>2. second'[r] = TRUE
    BY <1>8 DEF SetAuth, Shapes
  <2>3. \A q \in Calls : pc'[q] = IF q = r THEN "build" ELSE pc[q]
    BY <1>8 DEF SetAuth, Shapes
  <2>4. promised' = promised /\ result' = result /\ cancelled' = cancelled
    BY <1>8 DEF SetAuth
  <2> QED
    BY <1>0, <2>1, <2>2, <2>3, <2>4, <1>8 DEF SetAuth, NoticeInv
<1> QED
  BY <1>1, <1>2, <1>3, <1>4, <1>5, <1>6, <1>7, <1>8
     DEF Step, Succeeds, Rejected, Refused, ServerFails, AnswerLost

LEMMA InitIInv == Init => IInv
<1> SUFFICES ASSUME Init PROVE IInv
  OBVIOUS
<1> USE ClientAssumption DEF Init
<1>1. Shapes
  BY DEF Shapes, Places
<1>2. EffectInv /\ HookInv /\ NoticeInv
  BY DEF EffectInv, HookInv, NoticeInv
<1>3. EffortInv
  BY SleptFacts DEF EffortInv, Effort, LoopSends, LoopWaited
<1> QED
  BY <1>1, <1>2, <1>3 DEF IInv

LEMMA NextIInv == IInv /\ [Next]_vars => IInv'
<1> SUFFICES ASSUME IInv, [Next]_vars PROVE IInv'
  OBVIOUS
<1> USE DEF IInv
<1>1. ASSUME NEW r \in Calls, Step(r) PROVE IInv'
  BY <1>1, ShapesNext, EffectNext, HookNext, EffortNext, NoticeNext
<1>2. CASE Revoke \/ CallerCancels \/ UNCHANGED vars
  <2>1. UNCHANGED <<clientVars, callVars, effects>> /\ (cancelled => cancelled')
    BY <1>2 DEF Revoke, CallerCancels, vars, worldVars
  <2>2. Shapes' /\ EffectInv' /\ HookInv' /\ NoticeInv'
    BY <2>1 DEF Shapes, EffectInv, HookInv, NoticeInv, clientVars, callVars
  <2>3. EffortInv'
    BY <2>1 DEF EffortInv, Effort, LoopSends, LoopWaited, callVars
  <2> QED
    BY <2>2, <2>3
<1> QED
  BY <1>1, <1>2 DEF Next, AllDone

(* A call is carried out once at most, and a call that succeeded once: a    *)
(* loop is repeated, or goes on, only after an answer of a Slack that did   *)
(* nothing (apiWithRefresh, call).                                          *)
THEOREM CarriedOutOnce == Spec => []AtMostOnce
<1>1. IInv => AtMostOnce
  BY DEF IInv, EffectInv, AtMostOnce
<1> QED
  BY InitIInv, NextIInv, <1>1, PTL DEF Spec

(* However many calls meet an auth error at once, the hook runs once, and   *)
(* no call sends or sleeps more than two loops' worth.                      *)
THEOREM EffortIsBounded == Spec => []BoundedEffort
<1>1. IInv => BoundedEffort
  <2> SUFFICES ASSUME IInv PROVE BoundedEffort
    OBVIOUS
  <2> USE ClientAssumption
  <2>1. hooks <= 1
    BY DEF IInv, HookInv
  <2>2. ASSUME NEW r \in Calls
        PROVE  /\ sends[r] <= (IF second[r] THEN MaxRateLimitRetry + 1 ELSE 0) + MaxRateLimitRetry + 1
               /\ waited[r] <= (IF second[r] THEN Slept(MaxRateLimitRetry) ELSE 0)
                                 + Slept(MaxRateLimitRetry)
    <3>1. Effort(r) /\ attempt[r] \in 0..MaxRateLimitRetry
      BY DEF IInv, EffortInv, Effort, Shapes
    <3>2. LoopSends(r) \in Nat /\ LoopSends(r) <= MaxRateLimitRetry + 1
      BY <3>1 DEF Effort, LoopSends
    <3>3. LoopWaited(r) \in Nat /\ LoopWaited(r) <= Slept(MaxRateLimitRetry)
      BY <3>1, SleptFacts DEF Effort, LoopWaited
    <3> QED
      BY <3>1, <3>2, <3>3, SleptFacts DEF IInv, Effort, Shapes
  <2>3. Slept(MaxRateLimitRetry) = MaxRateLimitRetry * MaxRetryDelay
    BY DEF Slept
  <2>4. 2 * MaxRateLimitRetry * MaxRetryDelay = Slept(MaxRateLimitRetry) + Slept(MaxRateLimitRetry)
    BY DEF Slept
  <2>5. Slept(MaxRateLimitRetry) \in Nat
    BY SleptFacts
  <2> QED
    BY <2>1, <2>2, <2>3, <2>4, <2>5 DEF BoundedEffort, IInv, Shapes
<1> QED
  BY InitIInv, NextIInv, <1>1, PTL DEF Spec

(* A notice that announces a retry is kept, unless the caller gives up or   *)
(* the one swap brings credentials no request can be built with (call,      *)
(* notifyRateLimit): the swap comes before such an end and never again.     *)
THEOREM NoticesAreKept == Spec => []NoticesAreTrue
<1>1. IInv => NoticesAreTrue
  BY DEF IInv, NoticeInv, NoticesAreTrue
<1> QED
  BY InitIInv, NextIInv, <1>1, PTL DEF Spec
=============================================================================
