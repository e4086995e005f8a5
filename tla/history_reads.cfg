CONSTANTS
  Requests <- MCRequests
  Start <- MCStart
  Arrivals <- MCArrivals
  NamedUsers <- MCNamedUsers
  PageLimit = 2
  MaxRequests = 9
  MaxChanges = 1
SPECIFICATION Spec
INVARIANTS PrintedOnce NothingStableIsMissed
PROPERTIES ReadingEnds
