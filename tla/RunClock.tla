-------------------------------- MODULE RunClock --------------------------------
(***************************************************************************)
(* The two contexts of a watch run (Watch of eventwatch.go): the caller's, *)
(* which may be cancelled, and the run's own inside it, which also ends at *)
(* the run's duration.                                                     *)
(***************************************************************************)
CONSTANTS
  HasDuration,   \* WatchOptions.Duration > 0
  HasIdle,       \* WatchOptions.IdleTimeout > 0
  Cancellable    \* whether the caller may cancel the run

ASSUME ClockAssumption ==
  HasDuration \in BOOLEAN /\ HasIdle \in BOOLEAN /\ Cancellable \in BOOLEAN

VARIABLES expired, cancelled

clockVars == <<expired, cancelled>>

ClockInit == expired = FALSE /\ cancelled = FALSE

RunOver == expired \/ cancelled

DurationEnds ==
  /\ HasDuration /\ ~expired
  /\ expired' = TRUE /\ UNCHANGED cancelled

CallerCancels ==
  /\ Cancellable /\ ~cancelled
  /\ cancelled' = TRUE /\ UNCHANGED expired

(* The deadline cases are the only ones the run cannot name itself.        *)
DeadlineStopReason ==
  IF ~cancelled /\ expired /\ HasDuration THEN "duration" ELSE "cancelled"
=============================================================================
