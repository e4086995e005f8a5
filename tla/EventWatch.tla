----------------------------- MODULE EventWatch -----------------------------
(***************************************************************************)
(* The live path of `message await` and `message stream`: runSocket,       *)
(* reconnect and consume of eventwatch.go with the catch-up reads of       *)
(* eventbackfill.go.  One goroutine runs the session; the socket pump, the *)
(* gateway, the workspace and the clock run beside it.                     *)
(*                                                                         *)
(* `wire` is every classified frame sent on the current connection and not *)
(* yet consumed: the kernel's buffers, the pump and its channel of 64.     *)
(* Frames that classify to nothing, and the reconnect_url frames, leave no *)
(* trace: which URL a redial used does not change what the run does next.  *)
(* Time is counted in backoffs of 2s: `age` is how long ago the pump of    *)
(* the last connection started, up to HealthyAfter of them.                *)
(***************************************************************************)
EXTENDS CatchUp, RunClock

CONSTANTS
  NetworkFaults, \* whether a request or a dial may fail while the run lasts
  MaxAttempts,   \* maxReconnectAttempts
  HealthyAfter,  \* healthyConnection, in backoffs
  MaxDrops       \* bound: connections lost

ASSUME WatchAssumption ==
  /\ NetworkFaults \in BOOLEAN
  /\ MaxAttempts \in Nat \ {0} /\ HealthyAfter \in Nat \ {0} /\ MaxDrops \in Nat

VARIABLES
  pc,          \* where runSocket is
  filling,     \* which catch-up runs: "start" (backfill) or "gap" (reconnect)
  todo,        \* channels that catch-up has still to read
  open, wire,  \* the current connection
  age,         \* backoffs since connectedAt
  attempt,
  reconnects,
  filled,      \* what the last OnReconnect was told
  runErr,      \* runSocket returned an error
  drops,       \* history: connections lost
  refused,     \* history: redials refused in a row, up to MaxAttempts + 1
  attachedAt   \* history: Len(log) when the socket first came up

runVars == <<pc, filling, todo, reading, batch, age, attempt, reconnects, filled, runErr, refused, attachedAt>>
vars == <<log, sessionVars, runVars, clockVars, open, wire, drops>>

Places == {"connect", "fetch", "threads", "replay", "consume", "backoff", "redial", "return", "returned"}

(* A request made under the run's context fails once that is over.         *)
CanFail == NetworkFaults \/ RunOver

Init ==
  /\ WorkspaceInit /\ SessionInit /\ CatchUpInit /\ ClockInit
  /\ pc = "connect" /\ filling = "start"
  /\ todo = {}
  /\ open = FALSE /\ wire = << >>
  /\ age = 0 /\ attempt = 0 /\ reconnects = 0
  /\ filled = FALSE /\ runErr = FALSE
  /\ drops = 0 /\ refused = 0 /\ attachedAt = 0

-----------------------------------------------------------------------------
(* Attaching: the socket is up before anything is read over HTTP.           *)
ConnectSucceeds ==
  /\ pc = "connect" /\ ~RunOver
  /\ open' = TRUE /\ wire' = << >>
  /\ age' = 0
  /\ attachedAt' = Len(log)
  /\ todo' = IF TargetChannel = None \/ Since = NoTS THEN {} ELSE {TargetChannel}
  /\ pc' = "fetch"
  /\ UNCHANGED <<log, sessionVars, clockVars, drops, filling, batch, attempt,
                 reconnects, filled, runErr, refused, reading>>

ConnectFails ==
  /\ pc = "connect" /\ CanFail
  /\ pc' = "return" /\ runErr' = TRUE
  /\ UNCHANGED <<log, sessionVars, clockVars, open, wire, drops, filling, todo,
                 batch, age, attempt, reconnects, filled, refused, attachedAt, reading>>

-----------------------------------------------------------------------------
(* A catch-up: backfill at the start, the channels of the filter after a    *)
(* reconnect.                                                               *)
FillFrom(c) == IF filling = "start" THEN Since ELSE MaxTS(watermark[c], Since)

(* An error ends the run at the start and is a gap after a reconnect.       *)
CatchUpFails ==
  /\ batch' = {}
  /\ IF filling = "start"
     THEN pc' = "return" /\ runErr' = TRUE /\ UNCHANGED <<gaps, filled>>
     ELSE pc' = "fetch" /\ gaps' = gaps + 1 /\ filled' = FALSE /\ UNCHANGED runErr

ReadChannel(c) ==
  /\ pc = "fetch" /\ c \in todo /\ FillFrom(c) # NoTS /\ ~RunOver
  /\ todo' = todo \ {c}
  /\ BeginRead(c, FillFrom(c))
  /\ pc' = "threads"
  /\ UNCHANGED <<log, deliveryVars, clockVars, open, wire, drops, filling, batch,
                 age, attempt, reconnects, filled, runErr, refused, attachedAt>>

ReadThread(root) ==
  /\ pc = "threads" /\ NextRoot(root)
  /\ ReadRoot(root, RunOver)
  /\ UNCHANGED <<log, sessionVars, clockVars, open, wire, drops, pc, filling, todo,
                 batch, age, attempt, reconnects, filled, runErr, refused, attachedAt>>

ReadDone ==
  /\ pc = "threads"
  /\ FinishRead(FillFrom(reading.ch))
  /\ pc' = IF batch' = {} THEN "fetch" ELSE "replay"
  /\ UNCHANGED <<log, seen, pending, watermark, cursors, emitted, reported,
                 truncated, stoppedBy, emitFailed, gaps, clockVars, open, wire,
                 drops, filling, todo, age, attempt, reconnects, filled, runErr,
                 refused, attachedAt>>

ReadChannelFails(c) ==
  /\ pc = "fetch" /\ c \in todo /\ FillFrom(c) # NoTS /\ CanFail
  /\ todo' = todo \ {c}
  /\ CatchUpFails
  /\ UNCHANGED <<log, deliveryVars, clockVars, open, wire, drops, filling, age,
                 attempt, reconnects, refused, attachedAt, reading>>

(* Seeded fault: an empty cursor reads nothing and no gap is recorded.      *)
SilentlyNothingToReadFrom(c) ==
  /\ pc = "fetch" /\ c \in todo /\ FillFrom(c) = NoTS
  /\ todo' = todo \ {c}
  /\ UNCHANGED <<log, sessionVars, clockVars, open, wire, drops, pc, filling, filled,
                 batch, age, attempt, reconnects, runErr, refused, attachedAt, reading>>

(* A channel nothing was ever read from, without --since, has no floor.     *)
NothingToReadFrom(c) ==
  /\ pc = "fetch" /\ c \in todo /\ FillFrom(c) = NoTS
  /\ todo' = todo \ {c}
  /\ gaps' = gaps + 1 /\ filled' = FALSE
  /\ UNCHANGED <<log, deliveryVars, clockVars, open, wire, drops, pc, filling,
                 batch, age, attempt, reconnects, runErr, refused, attachedAt, reading>>

Replay(e) ==
  /\ pc = "replay" /\ Earliest(e)
  /\ \/ /\ Offer(e, FALSE)
        /\ batch' = IF stoppedBy' # "" THEN {} ELSE batch \ {e}
        /\ pc' = IF batch' = {} THEN "fetch" ELSE "replay"
        /\ UNCHANGED <<gaps, filled, runErr>>
     \/ /\ Offer(e, TRUE)
        /\ CatchUpFails
  /\ UNCHANGED <<log, clockVars, open, wire, drops, filling, todo, age, attempt,
                 reconnects, refused, attachedAt, reading>>

(* The pump of a redialled connection starts only after its gap-fill.       *)
CaughtUp ==
  /\ pc = "fetch" /\ todo = {}
  /\ pc' = IF filling = "start" /\ Stopped THEN "return" ELSE "consume"
  /\ age' = IF filling = "gap" THEN 0 ELSE age
  /\ UNCHANGED <<log, sessionVars, clockVars, open, wire, drops, filling, todo,
                 batch, attempt, reconnects, filled, runErr, refused, attachedAt, reading>>

-----------------------------------------------------------------------------
(* Seeded fault: the pump starts with the redial, before the gap-fill.       *)
ConsumeFrameBeforeFill ==
  /\ pc \in {"fetch", "consume"} /\ wire # << >>
  /\ wire' = Tail(wire)
  /\ \/ Offer(Head(wire), FALSE) /\ UNCHANGED <<pc, runErr>>
     \/ Offer(Head(wire), TRUE) /\ pc' = "return" /\ runErr' = TRUE
  /\ UNCHANGED <<log, gaps, clockVars, open, drops, filling, todo, batch, age,
                 attempt, reconnects, filled, refused, attachedAt, reading>>

(* consume: a select over the run's context, the idle timer and the frames. *)
ConsumeFrame ==
  /\ pc = "consume" /\ wire # << >>
  /\ wire' = Tail(wire)
  /\ \/ /\ Offer(Head(wire), FALSE)
        /\ pc' = IF stoppedBy' # "" THEN "return" ELSE "consume"
        /\ UNCHANGED runErr
     \/ /\ Offer(Head(wire), TRUE)
        /\ pc' = "return" /\ runErr' = TRUE
  /\ UNCHANGED <<log, gaps, clockVars, open, drops, filling, todo, batch, age,
                 attempt, reconnects, filled, refused, attachedAt, reading>>

ConsumeIdle ==
  /\ pc = "consume" /\ HasIdle
  /\ Stop("idle-timeout")
  /\ pc' = "return"
  /\ UNCHANGED <<log, seen, pending, threadOf, watermark, cursors, emitted,
                 reported, truncated, emitFailed, gaps, clockVars, open, wire,
                 drops, filling, todo, batch, age, attempt, reconnects, filled,
                 runErr, refused, attachedAt, reading>>

(* Seeded fault: consume selects on frames and the idle timer only.          *)
ConsumeNeverDone == FALSE

ConsumeDone ==
  /\ pc = "consume" /\ RunOver
  /\ pc' = "return"
  /\ UNCHANGED <<log, sessionVars, clockVars, open, wire, drops, filling, todo,
                 batch, age, attempt, reconnects, filled, runErr, refused, attachedAt, reading>>

(* The frame channel is closed and drained: the socket dropped.             *)
SocketWasHealthy == age >= HealthyAfter
NextAttempt == (IF SocketWasHealthy THEN 0 ELSE attempt) + 1

(* Seeded fault: an exhausted budget ends the run without saying why.       *)
SocketDroppedUnexplained ==
  /\ pc = "consume" /\ wire = << >> /\ ~open /\ ~RunOver
  /\ attempt' = NextAttempt
  /\ pc' = IF NextAttempt > MaxAttempts THEN "return" ELSE "backoff"
  /\ UNCHANGED <<log, sessionVars, clockVars, open, wire, drops, filling, todo,
                 batch, age, reconnects, filled, runErr, refused, attachedAt, reading>>

SocketDropped ==
  /\ pc = "consume" /\ wire = << >> /\ ~open /\ ~RunOver
  /\ attempt' = NextAttempt
  /\ IF NextAttempt > MaxAttempts
     THEN Stop("reconnect-failed") /\ pc' = "return"
     ELSE pc' = "backoff" /\ UNCHANGED stoppedBy
  /\ UNCHANGED <<log, seen, pending, threadOf, watermark, cursors, emitted,
                 reported, truncated, emitFailed, gaps, clockVars, open, wire,
                 drops, filling, todo, batch, age, reconnects, filled, runErr,
                 refused, attachedAt, reading>>

Backoff ==
  /\ pc = "backoff"
  /\ IF RunOver THEN pc' = "return" /\ UNCHANGED age
     ELSE pc' = "redial" /\ age' = IF SocketWasHealthy THEN age ELSE age + 1
  /\ UNCHANGED <<log, sessionVars, clockVars, open, wire, drops, filling, todo,
                 batch, attempt, reconnects, filled, runErr, refused, attachedAt, reading>>

(* A run with no channels cannot be gap-filled: the hole is counted.        *)
RedialSucceeds ==
  /\ pc = "redial" /\ ~RunOver
  /\ open' = TRUE /\ wire' = << >>
  /\ reconnects' = reconnects + 1
  /\ refused' = 0
  /\ filling' = "gap"
  /\ todo' = Channels
  /\ filled' = (Channels # {})
  /\ gaps' = IF Channels = {} THEN gaps + 1 ELSE gaps
  /\ pc' = "fetch"
  /\ UNCHANGED <<log, deliveryVars, clockVars, drops, batch, age, attempt,
                 runErr, attachedAt, reading>>

RedialFails ==
  /\ pc = "redial" /\ CanFail
  /\ pc' = "consume"
  /\ refused' = IF refused > MaxAttempts THEN refused ELSE refused + 1
  /\ UNCHANGED <<log, sessionVars, clockVars, open, wire, drops, filling, todo,
                 batch, age, attempt, reconnects, filled, runErr, attachedAt, reading>>

(* finish.                                                                  *)
Finish ==
  /\ pc = "return"
  /\ pc' = "returned"
  /\ Stop(DeadlineStopReason)
  /\ open' = FALSE
  /\ UNCHANGED <<log, seen, pending, threadOf, watermark, cursors, emitted,
                 reported, truncated, emitFailed, gaps, clockVars, wire, drops,
                 filling, todo, batch, age, attempt, reconnects, filled, runErr,
                 refused, attachedAt, reading>>

Engine ==
  \/ ConnectSucceeds \/ ConnectFails
  \/ \E c \in todo : ReadChannel(c) \/ ReadChannelFails(c) \/ NothingToReadFrom(c)
  \/ \E root \in reading.roots : ReadThread(root)
  \/ ReadDone
  \/ \E e \in batch : Replay(e)
  \/ CaughtUp
  \/ ConsumeFrame \/ ConsumeIdle \/ ConsumeDone
  \/ SocketDropped \/ Backoff \/ RedialSucceeds \/ RedialFails
  \/ Finish

-----------------------------------------------------------------------------
(* What happens beside the engine.                                          *)
Running == pc # "returned"

Happens ==
  /\ Running /\ Len(log) < MaxLog
  /\ \E e \in NextActivity :
       /\ log' = Append(log, e)
       /\ wire' = IF open THEN Append(wire, e) ELSE wire
  /\ UNCHANGED <<sessionVars, runVars, clockVars, open, drops>>

(* A lost connection takes with it whatever the pump had not yet read.      *)
Drop ==
  /\ Running /\ open /\ drops < MaxDrops
  /\ drops' = drops + 1
  /\ open' = FALSE
  /\ \E n \in 0..Len(wire) : wire' = SubSeq(wire, 1, n)
  /\ UNCHANGED <<log, sessionVars, runVars, clockVars>>

TimePasses ==
  /\ Running /\ MaxDrops > 0 /\ ~SocketWasHealthy
  /\ age' = HealthyAfter
  /\ UNCHANGED <<log, sessionVars, clockVars, open, wire, drops, pc, filling, todo,
                 batch, attempt, reconnects, filled, runErr, refused, attachedAt, reading>>

Expire ==
  /\ Running /\ DurationEnds
  /\ UNCHANGED <<log, sessionVars, runVars, open, wire, drops>>

Cancel ==
  /\ Running /\ CallerCancels
  /\ UNCHANGED <<log, sessionVars, runVars, open, wire, drops>>

Environment == Happens \/ Drop \/ TimePasses \/ Expire \/ Cancel

(* A finished run stays finished.                                           *)
Done == ~Running /\ UNCHANGED vars

Next == Engine \/ Environment \/ Done

(* The goroutine runs when it can.                                          *)
Fairness == WF_vars(Engine)

Spec == Init /\ [][Next]_vars /\ Fairness

-----------------------------------------------------------------------------
TypeOK ==
  /\ log \in Seq(Event)
  /\ pc \in Places /\ filling \in {"start", "gap"}
  /\ todo \subseteq Channels
  /\ batch \subseteq Event
  /\ reading \in ReadingType
  /\ wire \in Seq(Event)
  /\ emitted \in Seq(Event) /\ reported \in Seq(Event)
  /\ threadOf \in [DOMAIN threadOf -> Timestamps]
  /\ watermark \in [AllChannels -> Timestamps]
  /\ cursors \in [AllChannels -> Timestamps]
  /\ gaps \in Nat /\ age \in Nat /\ attempt \in Nat /\ reconnects \in Nat
  /\ drops \in Nat /\ refused \in Nat /\ attachedAt \in Nat
  /\ open \in BOOLEAN /\ filled \in BOOLEAN /\ runErr \in BOOLEAN
  /\ expired \in BOOLEAN /\ cancelled \in BOOLEAN
  /\ truncated \in BOOLEAN /\ emitFailed \in BOOLEAN
  /\ pc = "returned" => Stopped
  /\ stoppedBy \in {"", "max-events", "idle-timeout", "reconnect-failed", "duration", "cancelled"}

KeysOf(events) == {EventKey(events[i]) : i \in DOMAIN events}

(* No event reaches the caller twice, however many copies of it the backfill, *)
(* the live socket and later gap-fills bring (offer's seen set).              *)
EmittedOnce ==
  \A i, j \in DOMAIN emitted :
    EventKey(emitted[i]) = EventKey(emitted[j]) => i = j

(* The messages the run owes its caller a decision about: readable, in scope, *)
(* and after the point the run started from.                                  *)
OwedFrom == IF TargetChannel = None \/ Since = NoTS THEN attachedAt ELSE 0

Owed ==
  {log[i] : i \in {j \in DOMAIN log : /\ j > OwedFrom
                                      /\ pc # "connect"
                                      /\ log[j].kind = "message"
                                      /\ Readable(log[j])
                                      /\ InScope(log[j])}}

(* The engine is attached and has consumed everything the socket brought.     *)
UpToDate == pc = "consume" /\ open /\ wire = << >> /\ ~Stopped /\ ~RunOver

(* Gaps "non-zero means events may be missing" (eventwatch.go, WatchResult):  *)
(* while it is zero, an attached run that has consumed its frames has handed  *)
(* over every matching message, across drops, catch-ups and duplicates.       *)
NoSilentLoss ==
  UpToDate /\ gaps = 0 => \A m \in Owed : Matches(m) => EventKey(m) \in KeysOf(emitted)

(* The resume cursor never passes a message in scope that was neither         *)
(* delivered nor reported as skipped, unless gaps or truncation say so or a   *)
(* thread read lost it (LostToThreads): a run resumed from it misses nothing  *)
(* else (AwaitResult.Cursor).                                                 *)
CursorSafe ==
  gaps = 0 /\ ~truncated =>
    \A m \in Owed : Cursor(m) <= cursors[m.ch] =>
      EventKey(m) \in KeysOf(emitted) \cup KeysOf(reported) \/ LostToThreads(m, RunOver)

(* A reaction seen live and read back from history is one reaction: a run     *)
(* emits an addition at most as often as someone made it (isDuplicateReaction,*)
(* over drops, re-adds and catch-ups in every order).                         *)
Additions(events, key) ==
  {i \in DOMAIN events : events[i].kind = "reaction_added" /\ ReactionKey(events[i]) = key}

ReactionsOnce ==
  \A i \in DOMAIN emitted : emitted[i].kind = "reaction_added" =>
    LET key == ReactionKey(emitted[i])
    IN Cardinality(Additions(emitted, key)) <= Cardinality(Additions(log, key))

(* A run that ends without an error says it was cancelled only when its       *)
(* caller cancelled it: a lost socket is never reported so (finish).          *)
CancelledIsTrue ==
  pc = "returned" /\ ~runErr /\ stoppedBy = "cancelled" => cancelled

(* A run that asks for messages implements EventDelivery: a message is        *)
(* identified by its conversation and timestamp, and the admission is a       *)
(* non-zero Gaps.                                                             *)
Identity(m) == <<m.ch, m.ts>>

Delivery ==
  INSTANCE EventDelivery WITH
    Answer    <- AllChannels \X (0..(2 * MaxLog)),
    due       <- {Identity(m) : m \in {o \in Owed : Matches(o)}},
    delivered <- [i \in DOMAIN emitted |-> Identity(emitted[i])],
    lossy     <- gaps > 0

ImplementsDelivery == Delivery!Spec

(* "returning an error from it stops the run" (Watch): nothing is handed to a  *)
(* caller that could not take an event.                                       *)
EmitErrorStopsRun == [][emitFailed => emitted' = emitted]_vars

(* Await is "Watch bounded to a single matching event" (eventawait.go), and    *)
(* --max-events stops "after this many events".                               *)
EventCapHolds == MaxEvents > 0 => Len(emitted) <= MaxEvents

(* A refused redial spends an attempt of the budget (runSocket): no run goes   *)
(* through more refusals in a row than the budget holds.                      *)
RedialBudgetHolds == refused <= MaxAttempts

(* "The cursor stops before them, so resuming re-offers them" (AwaitResult.   *)
(* SkippedTruncated): the cursor is safe to resume from when truncated too.   *)
TruncatedCursorSafe ==
  gaps = 0 =>
    \A m \in Owed : Cursor(m) <= cursors[m.ch] =>
      EventKey(m) \in KeysOf(emitted) \cup KeysOf(reported)

(* "A timeout is not an error" (Await; "every bound exits 0 with a cursor",   *)
(* message-await-stream.md).                                                  *)
TimeoutIsNotAnError == pc = "returned" /\ stoppedBy = "duration" => ~runErr

(* OnReconnect: the caller "is not told events were recovered when they were  *)
(* not" (eventwatch.go).  Stated for the first lost connection.               *)
GapNoticeIsTrue ==
  UpToDate /\ filling = "gap" /\ filled /\ drops = 1 =>
    \A m \in Owed : Matches(m) => EventKey(m) \in KeysOf(emitted)

(* A run whose deadline has passed, or whose caller has cancelled it, returns *)
(* whatever the socket, the requests and the workspace do.                    *)
RunEnds == RunOver ~> (pc = "returned")

(* Once the event cap is met the run returns, without waiting for a deadline  *)
(* (runSocket: the answer may already have been in the backfill).             *)
AnswerEndsRun == (MaxEvents > 0 /\ Len(emitted) >= MaxEvents) ~> (pc = "returned")
=============================================================================
