------------------------------- MODULE EventPoll -------------------------------
(***************************************************************************)
(* The standard-token fallback: runPoll of eventpoll.go.  There is no      *)
(* socket, only history reads after a cursor, one every PollEvery.  The    *)
(* run, the workspace and the clock are the actors; what the reads do not  *)
(* bring is never seen.                                                    *)
(***************************************************************************)
EXTENDS CatchUp, RunClock

CONSTANTS
  NetworkFaults,  \* whether a request may fail while the run lasts
  MaxGaps         \* bound: gaps counted before a round

(* runPoll refuses any other run: polling reads one conversation, and       *)
(* history holds only messages.                                             *)
Pollable == Kinds = {"message"} /\ TargetChannel # None

ASSUME PollAssumption == NetworkFaults \in BOOLEAN /\ MaxGaps \in Nat /\ Pollable

VARIABLES
  pc,       \* where runPoll is
  cursor,   \* where the next read starts
  base,     \* history: the cursor of the first read
  before,   \* deliveries when the round began
  runErr    \* Watch returns an error

pollVars == <<pc, cursor, base, before, runErr>>
vars == <<log, sessionVars, reading, batch, pollVars, clockVars>>

Places == {"start", "read", "threads", "replay", "wait", "sleep", "return", "returned"}

CanFail == NetworkFaults \/ RunOver

Init ==
  /\ WorkspaceInit /\ SessionInit /\ CatchUpInit /\ ClockInit
  /\ pc = "start" /\ cursor = NoTS /\ base = NoTS /\ before = 0
  /\ runErr = FALSE

Fail == pc' = "return" /\ runErr' = TRUE

-----------------------------------------------------------------------------
(* The newest message of the conversation or thread.                        *)
Tip == Newest(IF ThreadTS # NoTS THEN FetchThread(TargetChannel, ThreadTS)
              ELSE ChannelHistory(TargetChannel, NoTS), 1)

(* Without --since a run starts from the tip, or from the beginning of an   *)
(* empty conversation.                                                      *)
PollBaseline ==
  IF Since # NoTS THEN Since
  ELSE IF Tip = {} THEN 0 ELSE (CHOOSE m \in Tip : TRUE).ts

(* The baseline is a resume point, unless it is synthetic.                  *)
StartPolling ==
  /\ pc = "start" /\ (Since # NoTS \/ ~RunOver)
  /\ cursor' = PollBaseline /\ base' = PollBaseline
  /\ IF PollBaseline \in {NoTS, 0} THEN UNCHANGED <<cursors, watermark>>
     ELSE /\ cursors' = [cursors EXCEPT ![TargetChannel] = MaxTS(@, PollBaseline)]
          /\ watermark' = [watermark EXCEPT ![TargetChannel] = MaxTS(@, PollBaseline)]
  /\ pc' = "read"
  /\ UNCHANGED <<log, seen, pending, threadOf, emitted, reported, truncated, gaps,
                 stoppedBy, emitFailed, reading, batch, clockVars, before, runErr>>

BaselineFails ==
  /\ pc = "start" /\ Since = NoTS /\ CanFail
  /\ Fail
  /\ UNCHANGED <<log, sessionVars, reading, batch, clockVars, cursor, base, before>>

-----------------------------------------------------------------------------
(* One round: read after the cursor, then offer what came.                  *)
(* backfillChannel reads nothing without a cursor.                          *)
ReadChannel ==
  /\ pc = "read" /\ ~RunOver /\ gaps <= MaxGaps
  /\ before' = Len(emitted)
  /\ IF cursor = NoTS THEN pc' = "wait" /\ UNCHANGED <<gaps, reading>>
     ELSE pc' = "threads" /\ BeginRead(TargetChannel, cursor)
  /\ UNCHANGED <<log, deliveryVars, batch, clockVars, cursor, base, runErr>>

ReadFails ==
  /\ pc = "read" /\ cursor # NoTS /\ CanFail
  /\ before' = Len(emitted)
  /\ Fail
  /\ UNCHANGED <<log, sessionVars, reading, batch, clockVars, cursor, base>>

ReadThread(root) ==
  /\ pc = "threads" /\ NextRoot(root)
  /\ ReadRoot(root, RunOver)
  /\ UNCHANGED <<log, sessionVars, batch, clockVars, pollVars>>

ReadDone ==
  /\ pc = "threads"
  /\ FinishRead(cursor)
  /\ pc' = IF batch' = {} THEN "wait" ELSE "replay"
  /\ UNCHANGED <<log, seen, pending, watermark, cursors, emitted, reported, truncated,
                 stoppedBy, emitFailed, gaps, clockVars, cursor, base, before, runErr>>

Replay(e) ==
  /\ pc = "replay" /\ Earliest(e)
  /\ \/ /\ Offer(e, FALSE)
        /\ batch' = IF stoppedBy' # "" THEN {} ELSE batch \ {e}
        /\ pc' = IF stoppedBy' # "" THEN "return"
                 ELSE IF batch' = {} THEN "wait" ELSE "replay"
        /\ UNCHANGED runErr
     \/ /\ Offer(e, TRUE)
        /\ batch' = {}
        /\ Fail
  /\ UNCHANGED <<log, gaps, reading, clockVars, cursor, base, before>>

(* Seeded fault: the next read starts from whatever the workspace has now.  *)
NextReadFromNow ==
  /\ pc = "wait"
  /\ cursor' = MaxTS(cursor, 2 * Len(log))
  /\ pc' = "sleep"
  /\ UNCHANGED <<log, sessionVars, reading, batch, clockVars, base, before, runErr>>

NextRead ==
  /\ pc = "wait"
  /\ cursor' = MaxTS(cursor, watermark[TargetChannel])
  /\ pc' = "sleep"
  /\ UNCHANGED <<log, sessionVars, reading, batch, clockVars, base, before, runErr>>

(* The idle bound is looked at between rounds; a delivery restarts it.      *)
Idle ==
  /\ pc = "sleep" /\ HasIdle /\ Len(emitted) = before
  /\ Stop("idle-timeout")
  /\ pc' = "return"
  /\ UNCHANGED <<log, seen, pending, threadOf, watermark, cursors, emitted, reported,
                 truncated, emitFailed, gaps, reading, batch, clockVars, cursor, base,
                 before, runErr>>

(* Sleeping ends early when the run is over.                                *)
Sleep ==
  /\ pc = "sleep"
  /\ pc' = IF RunOver THEN "return" ELSE "read"
  /\ UNCHANGED <<log, sessionVars, reading, batch, clockVars, cursor, base, before, runErr>>

(* Seeded fault: any error once the deadline has passed is a timeout.       *)
ForgiveAll ==
  /\ pc = "return"
  /\ pc' = "returned"
  /\ runErr' = (runErr /\ ~RunOver)
  /\ Stop(DeadlineStopReason)
  /\ UNCHANGED <<log, seen, pending, threadOf, watermark, cursors, emitted, reported,
                 truncated, emitFailed, gaps, reading, batch, clockVars, cursor, base, before>>

(* Watch: the run's own deadline is no failure, wherever it fell, but a     *)
(* caller that could not take an event is.                                  *)
Finish ==
  /\ pc = "return"
  /\ pc' = "returned"
  /\ runErr' = (runErr /\ (~RunOver \/ emitFailed))
  /\ Stop(DeadlineStopReason)
  /\ UNCHANGED <<log, seen, pending, threadOf, watermark, cursors, emitted, reported,
                 truncated, emitFailed, gaps, reading, batch, clockVars, cursor, base, before>>

Engine ==
  \/ StartPolling \/ BaselineFails
  \/ ReadChannel \/ ReadFails
  \/ (\E root \in reading.roots : ReadThread(root))
  \/ ReadDone
  \/ (\E e \in batch : Replay(e))
  \/ NextRead \/ Idle \/ Sleep
  \/ Finish

-----------------------------------------------------------------------------
Running == pc # "returned"

Happens ==
  /\ Running /\ Len(log) < MaxLog
  /\ \E e \in NextActivity : log' = Append(log, e)
  /\ UNCHANGED <<sessionVars, reading, batch, pollVars, clockVars>>

Expire == Running /\ DurationEnds /\ UNCHANGED <<log, sessionVars, reading, batch, pollVars>>
Cancel == Running /\ CallerCancels /\ UNCHANGED <<log, sessionVars, reading, batch, pollVars>>

Done == ~Running /\ UNCHANGED vars

Next == Engine \/ Happens \/ Expire \/ Cancel \/ Done

(* The goroutine runs when it can; its sleep ends.                          *)
Fairness == WF_vars(Engine)

Spec == Init /\ [][Next]_vars /\ Fairness

-----------------------------------------------------------------------------
TypeOK ==
  /\ pc \in Places /\ cursor \in Timestamps /\ base \in Timestamps /\ before \in Nat
  /\ batch \subseteq Event /\ reading \in ReadingType
  /\ runErr \in BOOLEAN
  /\ pc = "returned" => Stopped
  /\ before <= Len(emitted)

KeysOf(events) == {EventKey(events[i]) : i \in DOMAIN events}

(* The messages the run owes its caller a decision about.                   *)
Owed == {m \in Occurred : /\ pc # "start" /\ m.kind = "message" /\ m.ts > base
                          /\ m.ch = TargetChannel /\ Readable(m) /\ InScope(m)}

(* While Gaps is zero ("non-zero means the answer may have arrived unseen", *)
(* AwaitResult) the run has handed over every matching message its next     *)
(* read will not bring again: its read position outruns nothing but what    *)
(* thread reads lose (LostToThreads).                                       *)
NoSilentLoss ==
  pc \in {"read", "sleep"} /\ gaps = 0 =>
    \A m \in Owed : Matches(m) /\ m.ts <= cursor =>
      EventKey(m) \in KeysOf(emitted) \/ LostToThreads(m, RunOver)

(* The cursor a caller resumes from passes nothing that was neither         *)
(* delivered nor reported (AwaitResult.Cursor).                             *)
CursorSafe ==
  gaps = 0 /\ ~truncated =>
    \A m \in Owed : Cursor(m) <= cursors[m.ch] =>
      EventKey(m) \in KeysOf(emitted) \cup KeysOf(reported)

(* "A timeout is not an error" (Await): the deadline may fall inside any    *)
(* request of the round.                                                    *)
TimeoutIsNotAnError ==
  pc = "returned" /\ stoppedBy = "duration" /\ ~emitFailed => ~runErr

(* A failure to hand over an event "must never be reported as a clean       *)
(* timeout, however the run's clock happened to fall" (watchSession).       *)
EmitFailureIsReported == pc = "returned" /\ emitFailed => runErr

(* Await is "Watch bounded to a single matching event".                     *)
EventCapHolds == MaxEvents > 0 => Len(emitted) <= MaxEvents

(* An answer is handed over in some round, also when the conversation was   *)
(* empty at the start, unless the run returns or admits a gap first.        *)
Due(i) == i \in DOMAIN log /\ log[i] \in Owed /\ Matches(log[i])
HandedOver(i) == i \in DOMAIN log /\ EventKey(log[i]) \in KeysOf(emitted)

AnswerArrives ==
  \A i \in 1..MaxLog : Due(i) ~> (HandedOver(i) \/ gaps > 0 \/ ~Running)

Identity(m) == <<m.ch, m.ts>>

(* Polling implements EventDelivery as the socket run does.                 *)
Delivery ==
  INSTANCE EventDelivery WITH
    Answer    <- AllChannels \X (0..(2 * MaxLog)),
    due       <- {Identity(m) : m \in {o \in Owed : Matches(o)}},
    delivered <- [i \in DOMAIN emitted |-> Identity(emitted[i])],
    lossy     <- gaps > 0

ImplementsDelivery == Delivery!Spec
=============================================================================
