---------------------------- MODULE EventSession ----------------------------
(***************************************************************************)
(* The state one watch run keeps about what it has examined and handed to  *)
(* its caller: watchSession and WatchResult of eventwatch.go, with the     *)
(* reaction pairing and thread index of eventconversation.go.  The socket  *)
(* run (EventWatch) and the poll run (EventPoll) both deliver through      *)
(* Offer.                                                                  *)
(***************************************************************************)
EXTENDS Workspace

CONSTANTS
  MaxEvents,    \* stop after this many deliveries, 0 for no cap
  MaxSkipped,   \* how many exclusions are reported, 0 for all of them
  EmitMayFail   \* whether handing an event to the caller can fail

ASSUME SessionAssumption ==
  MaxEvents \in Nat /\ MaxSkipped \in Nat /\ EmitMayFail \in BOOLEAN

VARIABLES
  seen,        \* event keys already offered
  pending,     \* reaction key -> was the copy waiting for its twin caught up
  threadOf,    \* <<channel, ts>> -> thread, for every message seen
  watermark,   \* the engine's read position, per channel
  cursors,     \* the caller's resume point, per channel
  emitted,     \* what emit was given, in order (Events is its length)
  reported,    \* what OnSkipped was given, in order
  truncated,   \* SkippedTruncated
  gaps,        \* how often events may have been missed
  stoppedBy,   \* why the run ended, "" while it has no reason
  emitFailed

deliveryVars == <<seen, pending, threadOf, watermark, cursors, emitted,
                  reported, truncated, stoppedBy, emitFailed>>
sessionVars == <<deliveryVars, gaps>>

SessionInit ==
  /\ seen = {}
  /\ pending = [k \in {} |-> FALSE]
  /\ threadOf = [k \in {} |-> NoTS]
  /\ watermark = [c \in AllChannels |-> NoTS]
  /\ cursors = [c \in AllChannels |-> NoTS]
  /\ emitted = << >> /\ reported = << >>
  /\ truncated = FALSE
  /\ gaps = 0
  /\ stoppedBy = ""
  /\ emitFailed = FALSE

(* The conversation every catch-up keys off, None when the run has no single *)
(* one.                                                                      *)
TargetChannel == IF Cardinality(Channels) = 1 THEN CHOOSE c \in Channels : TRUE ELSE None

Stopped == stoppedBy # ""
Stop(reason) == stoppedBy' = IF Stopped THEN stoppedBy ELSE reason

-----------------------------------------------------------------------------
(* The thread index.  Only a run scoped to a conversation or a thread keeps  *)
(* it.                                                                       *)
Override(f, g) == [x \in DOMAIN f \cup DOMAIN g |-> IF x \in DOMAIN g THEN g[x] ELSE f[x]]

ThreadsIn(messages) ==
  LET known == IF RepliesTo = NoTS /\ ThreadTS = NoTS THEN {}
               ELSE {m \in messages : m.thread # NoTS}
  IN [k \in {<<m.ch, m.ts>> : m \in known} |->
        (CHOOSE m \in known : <<m.ch, m.ts>> = k).thread]

RememberThreads(messages) == threadOf' = Override(threadOf, ThreadsIn(messages))

WithThread(e) ==
  IF IsReaction(e) /\ e.thread = NoTS /\ <<e.ch, e.ts>> \in DOMAIN threadOf
  THEN [e EXCEPT !.thread = threadOf[<<e.ch, e.ts>>]]
  ELSE e

(* Seeded fault: copies are not paired, only identical events collapse.      *)
NeverPaired(e) == FALSE

(* A caught-up reaction and its live frame are one reaction, in whichever    *)
(* order they come; a removal forgets the pairing.                           *)
IsDuplicateReaction(e) ==
  /\ e.kind = "reaction_added"
  /\ ReactionKey(e) \in DOMAIN pending
  /\ pending[ReactionKey(e)] # e.caughtUp

Forget(key) == [k \in DOMAIN pending \ {key} |-> pending[k]]

PairReaction(e) ==
  pending' = CASE IsDuplicateReaction(e) -> Forget(ReactionKey(e))
               [] e.kind = "reaction_removed" -> Forget(ReactionKey(e))
               [] e.kind = "reaction_added" /\ ~IsDuplicateReaction(e) ->
                    Override(pending, [k \in {ReactionKey(e)} |-> e.caughtUp])
               [] OTHER -> pending

-----------------------------------------------------------------------------
AdvanceWatermark(e) == watermark' = [watermark EXCEPT ![e.ch] = MaxTS(@, Cursor(e))]
AdvanceCursor(e) == /\ cursors' = [cursors EXCEPT ![e.ch] = MaxTS(@, Cursor(e))]
                    /\ AdvanceWatermark(e)

(* An event in scope that a narrowing filter excluded: reported while there  *)
(* is room, and once there is none only the read position moves.             *)
ReportSkipped(e) ==
  /\ UNCHANGED <<emitted, stoppedBy, emitFailed>>
  /\ \/ /\ MaxSkipped > 0 /\ Len(reported) >= MaxSkipped
        /\ truncated' = TRUE
        /\ AdvanceWatermark(e)
        /\ UNCHANGED <<cursors, reported>>
     \/ /\ MaxSkipped = 0 \/ Len(reported) < MaxSkipped
        /\ reported' = Append(reported, e)
        /\ AdvanceCursor(e)
        /\ UNCHANGED truncated

(* Counted and cursored only after emit succeeds.                            *)
Emit(e) ==
  /\ emitted' = Append(emitted, e)
  /\ AdvanceCursor(e)
  /\ IF MaxEvents > 0 /\ Len(emitted) + 1 >= MaxEvents
     THEN Stop("max-events") ELSE UNCHANGED stoppedBy
  /\ UNCHANGED <<reported, truncated, emitFailed>>

EmitFails ==
  /\ EmitMayFail
  /\ emitFailed' = TRUE
  /\ UNCHANGED <<watermark, cursors, emitted, reported, truncated, stoppedBy>>

NothingDelivered ==
  UNCHANGED <<watermark, cursors, emitted, reported, truncated, stoppedBy, emitFailed>>

(* Seeded fault: an event is offered again however often it comes.           *)
OfferWithoutDedup(e, fails) ==
  /\ seen' = seen \cup {EventKey(e)}
  /\ PairReaction(e)
  /\ IF IsDuplicateReaction(e)
     THEN ~fails /\ NothingDelivered /\ UNCHANGED threadOf
     ELSE /\ UNCHANGED threadOf
          /\ \/ Matches(e) /\ ~fails /\ Emit(e)
             \/ Matches(e) /\ fails /\ EmitFails
             \/ InScope(e) /\ ~Narrows(e) /\ ~fails /\ ReportSkipped(e)
             \/ ~InScope(e) /\ ~fails /\ NothingDelivered

(* offer(e) returns the error of emit: fails says whether it did.            *)
Offer(e, fails) ==
  \/ /\ EventKey(e) \in seen
     /\ ~fails
     /\ UNCHANGED deliveryVars
  \/ /\ EventKey(e) \notin seen
     /\ seen' = seen \cup {EventKey(e)}
     /\ PairReaction(e)
     /\ IF IsDuplicateReaction(e)
        THEN ~fails /\ NothingDelivered /\ UNCHANGED threadOf
        ELSE LET w == WithThread(e) IN
             /\ IF e.kind = "message" THEN RememberThreads({e}) ELSE UNCHANGED threadOf
             /\ \/ Matches(w) /\ ~fails /\ Emit(w)
                \/ Matches(w) /\ fails /\ EmitFails
                \/ InScope(w) /\ ~Narrows(w) /\ ~fails /\ ReportSkipped(w)
                \/ ~InScope(w) /\ ~fails /\ NothingDelivered
=============================================================================
