\* concurrent calls over one client: throttled, rejected, refreshed, lost
CONSTANTS
  r1 = r1  r2 = r2  old = old  new = new  bare = bare
  Calls = {r1, r2}
  Tokens = {old, new, bare}
  NoURL = {bare}
  HasHook = TRUE
  MaxRateLimitRetry = 1
  MaxRetryDelay = 6
  Headers = {0, 9}
SPECIFICATION Spec
INVARIANTS AtMostOnce BoundedEffort NoticesAreTrue
PROPERTIES CallsEnd
