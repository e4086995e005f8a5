-------------------------- MODULE EventWatchProofs --------------------------
(***************************************************************************)
(* Theorems of the socket run, for every value of its constants.           *)
(***************************************************************************)
EXTENDS EventWatch, FiniteSetTheorems, SequenceTheorems, TLAPS

(* What was ever appended to the workspace's log is an event.              *)
LEMMA OccurredType ==
  ASSUME log \in Seq(Event)
  PROVE  Occurred \subseteq Event
BY DEF Occurred

(* The messages of a channel are events.                                   *)
LEMMA MessagesType ==
  ASSUME log \in Seq(Event), NEW c
  PROVE  Messages(c) \subseteq Event
BY OccurredType DEF Messages

(* A history read returns events, and counts a natural number of gaps.     *)
LEMMA SummaryType ==
  ASSUME NEW m \in Event
  PROVE  Summary(m) \in Event
BY DEF Summary, Event, Timestamps

(* What a history request can return are events.                           *)
LEMMA ChannelHistoryType ==
  ASSUME log \in Seq(Event), NEW c, NEW since
  PROVE  ChannelHistory(c, since) \subseteq Event
BY MessagesType, SummaryType DEF ChannelHistory

(* What a replies request returns are events.                              *)
LEMMA FetchThreadType ==
  ASSUME log \in Seq(Event), NEW c, NEW root
  PROVE  FetchThread(c, root) \subseteq Event
BY MessagesType, SummaryType DEF FetchThread

(* A capped history read returns events and a number of gaps.              *)
LEMMA HistorySinceType ==
  ASSUME log \in Seq(Event), NEW c, NEW since
  PROVE  /\ HistorySince(c, since).messages \subseteq Event
         /\ HistorySince(c, since).missed \in Nat
BY ChannelHistoryType DEF HistorySince, Newest

(* So does the first read of a catch-up, with the threads left to read.    *)
LEMMA FirstReadType ==
  ASSUME log \in Seq(Event), NEW c, NEW since
  PROVE  /\ FirstRead(c, since).messages \subseteq Event
         /\ FirstRead(c, since).missed \in Nat
         /\ FirstRead(c, since).roots \subseteq Timestamps
<1>1. CASE ThreadTS # NoTS
  BY <1>1, FetchThreadType DEF FirstRead
<1>2. CASE ThreadTS = NoTS /\ RepliesTo = NoTS
  BY <1>2, HistorySinceType DEF FirstRead
<1>3. CASE ThreadTS = NoTS /\ RepliesTo # NoTS
  <2> DEFINE history == HistorySince(c, EarlierTS(RepliesTo, since))
             later   == ThreadsWithNews(history.messages, since)
             cut     == IF Cardinality(later) >= MaxCatchUpThreads THEN 1 ELSE 0
             roots   == {RepliesTo} \cup Oldest(later, MaxCatchUpThreads - 1)
  <2>1. FirstRead(c, since) = [messages |-> history.messages,
                               missed   |-> history.missed + cut, roots |-> roots]
    BY <1>3 DEF FirstRead
  <2>2. history.messages \subseteq Event /\ history.missed \in Nat
    BY HistorySinceType
  <2>3. cut \in Nat
    OBVIOUS
  <2>4. roots \subseteq Timestamps
    <3>1. later \subseteq Nat
      BY <2>2 DEF ThreadsWithNews, Event
    <3> QED BY <3>1, FilterAssumption DEF Oldest, Timestamps
  <2> HIDE DEF history, later, cut, roots
  <2> QED BY <2>1, <2>2, <2>3, <2>4
<1> QED BY <1>1, <1>2, <1>3

(* What a catch-up read becomes are events.                                *)
LEMMA CatchUpEventsType ==
  ASSUME log \in Seq(Event), NEW messages \in SUBSET Event, NEW since
  PROVE  CatchUpEvents(messages, since) \subseteq Event
<1>1. ASSUME NEW m \in messages
      PROVE  CaughtUpReactions(m) \subseteq Event
  <2>1. m \in Event
    OBVIOUS
  <2>2. ReactionsOn(m) \subseteq Event
    BY OccurredType DEF ReactionsOn
  <2>3. ASSUME NEW a \in Event
        PROVE  [a EXCEPT !.eventTS = NoTS, !.thread = m.thread, !.caughtUp = TRUE] \in Event
    BY <2>1 DEF Event, Timestamps, NoTS
  <2> QED BY <2>2, <2>3 DEF CaughtUpReactions
<1> QED BY <1>1 DEF CatchUpEvents

-----------------------------------------------------------------------------
(* Whatever happens next is an event.                                      *)
LEMMA NextActivityType ==
  ASSUME log \in Seq(Event), NEW e \in NextActivity
  PROVE  e \in Event
<1>1. Instant \in Nat
  BY DEF Instant
<1>2. AllMessages \subseteq Event
  BY MessagesType DEF AllMessages
<1>3. ASSUME NEW p \in Posts PROVE p \in Event
  BY <1>1, WorkspaceAssumption DEF Posts, Event, EventKinds, Timestamps, NoTS
<1>4. ASSUME NEW m \in Event, NEW kind \in EventKinds, NEW u \in Users,
             NEW n \in ReactionNames
      PROVE  ReactionFrame(kind, m, u, n) \in Event
  <2>1. AuthorAsUser(m) \in Users \cup Bots \cup {None}
    BY DEF AuthorAsUser
  <2> QED BY <1>1, <2>1 DEF ReactionFrame, Event, Timestamps, NoTS
<1>5. ASSUME NEW m \in Event PROVE ReactionsAdded(m) \subseteq Event
  BY <1>4 DEF ReactionsAdded, EventKinds
<1>6. ASSUME NEW m \in Event PROVE ReactionsRemoved(m) \subseteq Event
  <2>1. ASSUME NEW a \in ReactionsOn(m)
        PROVE  ReactionFrame("reaction_removed", m, a.author, a.reaction) \in Event
    <3>1. a \in Event
      BY OccurredType DEF ReactionsOn
    <3>2. AuthorAsUser(m) \in Users \cup Bots \cup {None}
      BY DEF AuthorAsUser
    <3> QED BY <1>1, <3>1, <3>2 DEF ReactionFrame, Event, EventKinds, Timestamps, NoTS
  <2> QED BY <2>1 DEF ReactionsRemoved
<1>7. ASSUME NEW m \in Event, NEW kind \in EventKinds
      PROVE  Modified(m, kind) \in Event
  BY <1>1 DEF Modified, Event, Timestamps
<1>8. ASSUME NEW m \in Event
      PROVE  [Modified(m, "message_deleted") EXCEPT !.thread = NoTS] \in Event
  BY <1>7 DEF Event, EventKinds, Timestamps, NoTS
<1>9. PossiblePosts \subseteq Event
  BY <1>3 DEF PossiblePosts
<1>10. Reacting \subseteq Event
  BY <1>2, <1>5, <1>6 DEF Reacting
<1>11. Edits \subseteq Event
  BY <1>2, <1>7 DEF Edits, EventKinds
<1>12. Deletions \subseteq Event
  BY <1>2, <1>8 DEF Deletions
<1> QED BY <1>9, <1>10, <1>11, <1>12 DEF NextActivity

-----------------------------------------------------------------------------
(* Offer keeps the session well typed.                                     *)
SessionTypeOK ==
  /\ emitted \in Seq(Event) /\ reported \in Seq(Event)
  /\ threadOf \in [DOMAIN threadOf -> Timestamps]
  /\ watermark \in [AllChannels -> Timestamps]
  /\ cursors \in [AllChannels -> Timestamps]
  /\ truncated \in BOOLEAN /\ emitFailed \in BOOLEAN
  /\ stoppedBy \in {"", "max-events", "idle-timeout", "reconnect-failed", "duration", "cancelled"}

(* Remembering threads keeps the thread index well typed.                  *)
LEMMA RememberThreadsType ==
  ASSUME threadOf \in [DOMAIN threadOf -> Timestamps],
         NEW messages \in SUBSET Event, RememberThreads(messages)
  PROVE  threadOf' \in [DOMAIN threadOf' -> Timestamps]
<1> DEFINE known == IF RepliesTo = NoTS /\ ThreadTS = NoTS THEN {}
                    ELSE {m \in messages : m.thread # NoTS}
           keys == {<<m.ch, m.ts>> : m \in known}
           new == ThreadsIn(messages)
<1>1. new = [k \in keys |-> (CHOOSE m \in known : <<m.ch, m.ts>> = k).thread]
  BY DEF ThreadsIn
<1>2. ASSUME NEW k \in keys
      PROVE  (CHOOSE m \in known : <<m.ch, m.ts>> = k).thread \in Timestamps
  <2>1. \E m \in known : <<m.ch, m.ts>> = k
    OBVIOUS
  <2>2. (CHOOSE m \in known : <<m.ch, m.ts>> = k) \in Event
    BY <2>1
  <2> QED BY <2>2 DEF Event
<1>3. new \in [keys -> Timestamps]
  BY <1>1, <1>2
<1> HIDE DEF new, keys
<1>4. threadOf' = [x \in DOMAIN threadOf \cup keys |->
                     IF x \in keys THEN new[x] ELSE threadOf[x]]
  BY <1>3 DEF RememberThreads, Override, new
<1> QED BY <1>3, <1>4

(* Giving a reaction its thread keeps it an event, and its identity.       *)
LEMMA WithThreadType ==
  ASSUME threadOf \in [DOMAIN threadOf -> Timestamps], NEW e \in Event
  PROVE  /\ WithThread(e) \in Event
         /\ EventKey(WithThread(e)) = EventKey(e)
BY DEF WithThread, EventKey, Event

(* Advancing a timestamp to the cursor of an event gives a timestamp.      *)
LEMMA CursorType ==
  ASSUME NEW e \in Event, NEW t \in Timestamps
  PROVE  MaxTS(t, Cursor(e)) \in Timestamps
BY DEF MaxTS, Cursor, JustAfter, Event, Timestamps, NoTS

(* Offering an event, delivered or not, keeps the session well typed.      *)
LEMMA OfferType ==
  ASSUME SessionTypeOK, NEW e \in Event, NEW fails \in BOOLEAN, Offer(e, fails)
  PROVE  SessionTypeOK'
<1>1. CASE UNCHANGED deliveryVars
  BY <1>1 DEF SessionTypeOK, deliveryVars
<1>2. CASE NothingDelivered /\ UNCHANGED threadOf
  BY <1>2 DEF SessionTypeOK, NothingDelivered
<1>3. ASSUME EventKey(e) \notin seen, ~IsDuplicateReaction(e) PROVE SessionTypeOK'
  <2> DEFINE w == WithThread(e)
  <2>1. w \in Event
    BY WithThreadType DEF SessionTypeOK
  <2>2. threadOf' \in [DOMAIN threadOf' -> Timestamps]
    <3>1. CASE e.kind = "message"
      <4>1. RememberThreads({e})
        BY <1>3, <3>1 DEF Offer
      <4> QED BY <4>1, RememberThreadsType DEF SessionTypeOK
    <3>2. CASE e.kind # "message"
      <4>1. UNCHANGED threadOf
        BY <1>3, <3>2 DEF Offer
      <4> QED BY <4>1 DEF SessionTypeOK
    <3> QED BY <3>1, <3>2
  <2>3. \/ Emit(w) \/ EmitFails \/ ReportSkipped(w) \/ NothingDelivered
    BY <1>3 DEF Offer
  <2>4. ASSUME AdvanceWatermark(w) PROVE watermark' \in [AllChannels -> Timestamps]
    BY <2>1, <2>4, CursorType DEF AdvanceWatermark, SessionTypeOK, Event
  <2>5. ASSUME AdvanceCursor(w) PROVE cursors' \in [AllChannels -> Timestamps]
    BY <2>1, <2>5, CursorType DEF AdvanceCursor, SessionTypeOK, Event
  <2> HIDE DEF w
  <2>6. CASE Emit(w)
    <3>1. emitted' \in Seq(Event)
      <4>1. emitted' = Append(emitted, w) /\ emitted \in Seq(Event)
        BY <2>6 DEF Emit, SessionTypeOK
      <4> QED BY <2>1, <4>1, AppendProperties
    <3>2. AdvanceCursor(w) /\ AdvanceWatermark(w)
      BY <2>6 DEF Emit, AdvanceCursor
    <3>3. stoppedBy' \in {stoppedBy, "max-events"}
      BY <2>6 DEF Emit, Stop
    <3>4. UNCHANGED <<reported, truncated, emitFailed>>
      BY <2>6 DEF Emit
    <3> QED BY <2>2, <2>4, <2>5, <3>1, <3>2, <3>3, <3>4 DEF SessionTypeOK
  <2>7. CASE EmitFails
    BY <2>2, <2>7 DEF EmitFails, SessionTypeOK
  <2>8. CASE ReportSkipped(w)
    <3>1. reported' \in Seq(Event) /\ truncated' \in BOOLEAN
      <4>1. /\ reported' \in {reported, Append(reported, w)} /\ reported \in Seq(Event)
            /\ truncated' \in BOOLEAN
        BY <2>8 DEF ReportSkipped, SessionTypeOK
      <4> QED BY <2>1, <4>1, AppendProperties
    <3>2. AdvanceWatermark(w) /\ (AdvanceCursor(w) \/ UNCHANGED cursors)
      BY <2>8 DEF ReportSkipped, AdvanceCursor
    <3>3. UNCHANGED <<emitted, stoppedBy, emitFailed>>
      BY <2>8 DEF ReportSkipped
    <3> QED BY <2>2, <2>4, <2>5, <3>1, <3>2, <3>3 DEF SessionTypeOK
  <2>9. CASE NothingDelivered
    BY <2>2, <2>9 DEF NothingDelivered, SessionTypeOK
  <2> QED BY <2>3, <2>6, <2>7, <2>8, <2>9
<1> QED BY <1>1, <1>2, <1>3 DEF Offer

-----------------------------------------------------------------------------
(* Type correctness: the run keeps every variable in its type, and a        *)
(* returned run always has a stop reason (watchSession, WatchResult).       *)
(* The run's own control state, apart from the session and the socket.      *)
ControlTypeOK ==
  /\ pc \in Places /\ filling \in {"start", "gap"}
  /\ todo \subseteq Channels
  /\ batch \subseteq Event
  /\ reading \in ReadingType
  /\ gaps \in Nat /\ age \in Nat /\ attempt \in Nat /\ reconnects \in Nat
  /\ drops \in Nat /\ refused \in Nat /\ attachedAt \in Nat
  /\ open \in BOOLEAN /\ filled \in BOOLEAN /\ runErr \in BOOLEAN
  /\ expired \in BOOLEAN /\ cancelled \in BOOLEAN
  /\ pc = "returned" => Stopped

(* TypeOK is the types of the session, of the control state and of two logs.*)
LEMMA TypeParts ==
  TypeOK <=> SessionTypeOK /\ ControlTypeOK /\ log \in Seq(Event) /\ wire \in Seq(Event)
BY DEF TypeOK, SessionTypeOK, ControlTypeOK

(* A run starts well typed.                                                *)
LEMMA TypeInit == Init => TypeOK
<1> SUFFICES ASSUME Init PROVE TypeOK
  OBVIOUS
<1>1. << >> \in Seq(Event)
  OBVIOUS
<1>2. watermark \in [AllChannels -> Timestamps] /\ cursors \in [AllChannels -> Timestamps]
  BY DEF Init, SessionInit, Timestamps
<1>3. threadOf \in [DOMAIN threadOf -> Timestamps]
  BY DEF Init, SessionInit
<1>4. SessionTypeOK
  BY <1>1, <1>2, <1>3 DEF Init, SessionInit, SessionTypeOK
<1>5. ControlTypeOK
  <2>1. /\ pc = "connect" /\ filling = "start" /\ todo = {} /\ batch = {}
        /\ reading = [ch |-> None, messages |-> {}, roots |-> {}] /\ gaps = 0 /\ age = 0 /\ attempt = 0 /\ reconnects = 0
        /\ drops = 0 /\ refused = 0 /\ attachedAt = 0
        /\ open = FALSE /\ filled = FALSE /\ runErr = FALSE
        /\ expired = FALSE /\ cancelled = FALSE
    BY DEF Init, SessionInit, CatchUpInit, ClockInit, NotReading
  <2> QED BY <2>1 DEF ControlTypeOK, Places, ReadingType
<1>6. log \in Seq(Event) /\ wire \in Seq(Event)
  BY <1>1, WorkspaceAssumption DEF Init, WorkspaceInit
<1> QED BY <1>4, <1>5, <1>6, TypeParts

(* A step that leaves the session alone keeps it well typed.               *)
LEMMA SessionUnchanged ==
  ASSUME SessionTypeOK, UNCHANGED deliveryVars
  PROVE  SessionTypeOK'
BY DEF SessionTypeOK, deliveryVars

(* The first request of a catch-up keeps the run well typed.               *)
LEMMA ReadChannelType ==
  ASSUME SessionTypeOK, ControlTypeOK, log \in Seq(Event),
         NEW c \in todo, ReadChannel(c)
  PROVE  SessionTypeOK' /\ ControlTypeOK'
<1> DEFINE read == FirstRead(c, FillFrom(c))
<1>1. /\ gaps' = gaps + read.missed
      /\ reading' = [ch |-> c, messages |-> read.messages, roots |-> read.roots]
  BY DEF ReadChannel, BeginRead
<1>2. read.messages \subseteq Event /\ read.missed \in Nat /\ read.roots \subseteq Timestamps
  BY FirstReadType
<1> HIDE DEF read
<1>3. /\ gaps' \in Nat
      /\ reading' \in ReadingType
  BY <1>1, <1>2 DEF ControlTypeOK, ReadingType
<1>4. SessionTypeOK'
  BY SessionUnchanged DEF ReadChannel
<1>5. pc' = "threads" /\ todo' \subseteq todo
  BY DEF ReadChannel
<1> QED BY <1>3, <1>4, <1>5 DEF ReadChannel, ControlTypeOK, Places, clockVars

(* So does each thread request.                                            *)
LEMMA ReadThreadType ==
  ASSUME SessionTypeOK, ControlTypeOK, log \in Seq(Event),
         NEW root \in reading.roots, ReadThread(root)
  PROVE  SessionTypeOK' /\ ControlTypeOK'
<1>1. SessionTypeOK'
  BY SessionUnchanged DEF ReadThread, sessionVars
<1>2. FetchThread(reading.ch, root) \subseteq Event
  BY FetchThreadType
<1>3. reading' \in ReadingType
  BY <1>2 DEF ReadThread, ReadRoot, ControlTypeOK, ReadingType
<1> QED BY <1>1, <1>3 DEF ReadThread, ControlTypeOK, Places, sessionVars, clockVars

(* So does turning what was read into events.                              *)
LEMMA ReadDoneType ==
  ASSUME SessionTypeOK, ControlTypeOK, log \in Seq(Event), ReadDone
  PROVE  SessionTypeOK' /\ ControlTypeOK'
<1>1. reading.messages \in SUBSET Event
  BY DEF ControlTypeOK, ReadingType
<1>2. batch' \subseteq Event
  BY <1>1, CatchUpEventsType DEF ReadDone, FinishRead
<1>3. threadOf' \in [DOMAIN threadOf' -> Timestamps]
  BY <1>1, RememberThreadsType DEF ReadDone, FinishRead, SessionTypeOK
<1>4. SessionTypeOK'
  BY <1>3 DEF ReadDone, SessionTypeOK
<1>5. /\ pc' \in {"fetch", "replay"}
      /\ reading' \in ReadingType
  BY DEF ReadDone, FinishRead, NotReading, ReadingType
<1> QED BY <1>2, <1>4, <1>5 DEF ReadDone, ControlTypeOK, Places, clockVars

(* So does offering a caught-up event, whatever becomes of it.             *)
LEMMA ReplayType ==
  ASSUME SessionTypeOK, ControlTypeOK, NEW e \in batch, Replay(e)
  PROVE  SessionTypeOK' /\ ControlTypeOK'
<1>1. e \in Event
  BY DEF ControlTypeOK
<1>2. SessionTypeOK'
  BY <1>1, OfferType DEF Replay
<1>3. /\ pc' \in {"fetch", "replay", "return"} /\ batch' \subseteq batch
      /\ gaps' \in {gaps, gaps + 1}
  BY DEF Replay, CatchUpFails
<1>4. filled' \in BOOLEAN /\ runErr' \in BOOLEAN
  BY Zenon DEF Replay, CatchUpFails, ControlTypeOK
<1>5. UNCHANGED <<filling, todo, reading, age, attempt, reconnects, drops, refused,
                  attachedAt, open, expired, cancelled>>
  BY DEF Replay, clockVars
<1>6. ControlTypeOK'
  BY <1>3, <1>4, <1>5 DEF ControlTypeOK, Places
<1> QED BY <1>2, <1>6

(* So does consuming a frame.                                              *)
LEMMA ConsumeFrameType ==
  ASSUME SessionTypeOK, ControlTypeOK, wire \in Seq(Event), ConsumeFrame
  PROVE  SessionTypeOK' /\ ControlTypeOK' /\ wire' \in Seq(Event)
<1>1. Head(wire) \in Event /\ wire' \in Seq(Event)
  BY HeadTailProperties DEF ConsumeFrame
<1>2. SessionTypeOK'
  BY <1>1, OfferType DEF ConsumeFrame
<1>3. pc' \in {"consume", "return"} /\ runErr' \in {runErr, TRUE}
  BY DEF ConsumeFrame
<1> QED BY <1>1, <1>2, <1>3 DEF ConsumeFrame, ControlTypeOK, Places, clockVars

(* The session changes only by a stop reason.                              *)
LEMMA StopType ==
  ASSUME SessionTypeOK, NEW reason, Stop(reason),
         reason \in {"idle-timeout", "reconnect-failed", "duration", "cancelled"},
         UNCHANGED <<emitted, reported, threadOf, watermark, cursors, truncated, emitFailed>>
  PROVE  SessionTypeOK' /\ stoppedBy' # ""
BY DEF SessionTypeOK, Stop, Stopped

(* Every step of the engine keeps the run well typed.                      *)
LEMMA EngineType ==
  ASSUME SessionTypeOK, ControlTypeOK, log \in Seq(Event), wire \in Seq(Event), Engine
  PROVE  SessionTypeOK' /\ ControlTypeOK' /\ log' \in Seq(Event) /\ wire' \in Seq(Event)
<1>0. << >> \in Seq(Event) /\ Len(log) \in Nat
  BY LenProperties
<1>1. CASE ConnectSucceeds
  <2>1. SessionTypeOK'
    BY <1>1, SessionUnchanged DEF ConnectSucceeds, sessionVars
  <2>2. todo' \subseteq Channels
    BY <1>1 DEF ConnectSucceeds, TargetChannel
  <2> QED BY <1>0, <1>1, <2>1, <2>2
          DEF ConnectSucceeds, ControlTypeOK, Places, sessionVars, clockVars
<1>2. CASE ConnectFails
  BY <1>2, SessionUnchanged DEF ConnectFails, ControlTypeOK, Places, sessionVars, clockVars
<1>3. ASSUME NEW c \in todo, ReadChannel(c)
      PROVE  SessionTypeOK' /\ ControlTypeOK' /\ log' \in Seq(Event) /\ wire' \in Seq(Event)
  BY <1>3, ReadChannelType DEF ReadChannel
<1>4. ASSUME NEW root \in reading.roots, ReadThread(root)
      PROVE  SessionTypeOK' /\ ControlTypeOK' /\ log' \in Seq(Event) /\ wire' \in Seq(Event)
  BY <1>4, ReadThreadType DEF ReadThread
<1>5. CASE ReadDone
  BY <1>5, ReadDoneType DEF ReadDone
<1>6. ASSUME NEW c \in todo, ReadChannelFails(c)
      PROVE  SessionTypeOK' /\ ControlTypeOK' /\ log' \in Seq(Event) /\ wire' \in Seq(Event)
  <2>1. SessionTypeOK'
    BY <1>6, SessionUnchanged DEF ReadChannelFails
  <2>2. /\ pc' \in {"fetch", "return"} /\ batch' = {} /\ gaps' \in {gaps, gaps + 1}
    BY <1>6 DEF ReadChannelFails, CatchUpFails
  <2>3. filled' \in BOOLEAN /\ runErr' \in BOOLEAN
    BY <1>6, Zenon DEF ReadChannelFails, CatchUpFails, ControlTypeOK
  <2>4. /\ todo' \subseteq todo
        /\ UNCHANGED <<log, wire, filling, reading, age, attempt, reconnects, drops, refused,
                       attachedAt, open, expired, cancelled>>
    BY <1>6 DEF ReadChannelFails, clockVars
  <2>5. ControlTypeOK'
    BY <2>2, <2>3, <2>4 DEF ControlTypeOK, Places
  <2> QED BY <2>1, <2>4, <2>5
<1>7. ASSUME NEW c \in todo, NothingToReadFrom(c)
      PROVE  SessionTypeOK' /\ ControlTypeOK' /\ log' \in Seq(Event) /\ wire' \in Seq(Event)
  <2>1. filled' \in BOOLEAN
    BY <1>7, Zenon DEF NothingToReadFrom
  <2> QED BY <1>7, <2>1, SessionUnchanged DEF NothingToReadFrom, ControlTypeOK, Places, clockVars
<1>8. ASSUME NEW e \in batch, Replay(e)
      PROVE  SessionTypeOK' /\ ControlTypeOK' /\ log' \in Seq(Event) /\ wire' \in Seq(Event)
  BY <1>8, ReplayType DEF Replay
<1>9. CASE CaughtUp
  BY <1>9, SessionUnchanged DEF CaughtUp, ControlTypeOK, Places, sessionVars, clockVars
<1>10. CASE ConsumeFrame
  BY <1>10, ConsumeFrameType DEF ConsumeFrame
<1>11. CASE ConsumeIdle
  BY <1>11, StopType DEF ConsumeIdle, ControlTypeOK, Places, clockVars
<1>12. CASE ConsumeDone
  BY <1>12, SessionUnchanged DEF ConsumeDone, ControlTypeOK, Places, sessionVars, clockVars
<1>13. CASE SocketDropped
  <2>1. NextAttempt \in Nat
    BY DEF NextAttempt, ControlTypeOK
  <2>2. SessionTypeOK' /\ pc' \in {"return", "backoff"}
    <3>1. CASE NextAttempt > MaxAttempts
      BY <1>13, <3>1, StopType DEF SocketDropped
    <3>2. CASE ~(NextAttempt > MaxAttempts)
      BY <1>13, <3>2 DEF SocketDropped, SessionTypeOK
    <3> QED BY <3>1, <3>2
  <2> QED BY <1>13, <2>1, <2>2 DEF SocketDropped, ControlTypeOK, Places, clockVars
<1>14. CASE Backoff
  <2>1. pc' \in {"return", "redial"} /\ age' \in {age, age + 1}
    BY <1>14 DEF Backoff
  <2> QED BY <1>14, <2>1, SessionUnchanged
          DEF Backoff, ControlTypeOK, Places, sessionVars, clockVars
<1>15. CASE RedialSucceeds
  <2>1. gaps' \in {gaps, gaps + 1} /\ filled' \in BOOLEAN
    BY <1>15 DEF RedialSucceeds
  <2> QED BY <1>0, <1>15, <2>1, SessionUnchanged
          DEF RedialSucceeds, ControlTypeOK, Places, clockVars
<1>16. CASE RedialFails
  BY <1>16, SessionUnchanged DEF RedialFails, ControlTypeOK, Places, sessionVars, clockVars
<1>17. CASE Finish
  <2>1. DeadlineStopReason \in {"duration", "cancelled"}
    BY DEF DeadlineStopReason
  <2>2. SessionTypeOK' /\ Stopped'
    BY <1>17, <2>1, StopType DEF Finish, Stopped
  <2> QED BY <1>17, <2>2 DEF Finish, ControlTypeOK, Places, clockVars
<1> QED BY <1>1, <1>2, <1>3, <1>6, <1>7, <1>8, <1>9, <1>10, <1>11, <1>12, <1>13,
           <1>14, <1>15, <1>16, <1>17, <1>4, <1>5 DEF Engine

(* So does everything that happens beside it.                              *)
LEMMA EnvironmentType ==
  ASSUME SessionTypeOK, ControlTypeOK, log \in Seq(Event), wire \in Seq(Event), Environment
  PROVE  SessionTypeOK' /\ ControlTypeOK' /\ log' \in Seq(Event) /\ wire' \in Seq(Event)
<1>1. SessionTypeOK'
  BY SessionUnchanged DEF Environment, Happens, Drop, TimePasses, Expire, Cancel, sessionVars
<1>2. ControlTypeOK'
  <2>1. CASE Happens
    BY <2>1 DEF Happens, ControlTypeOK, runVars, clockVars, sessionVars, deliveryVars, Stopped
  <2>2. CASE Drop
    <3>1. open' \in BOOLEAN
      BY <2>2, Zenon DEF Drop
    <3>2. drops' \in Nat
      BY <2>2 DEF Drop, ControlTypeOK
    <3>3. UNCHANGED <<pc, filling, todo, reading, batch, gaps, age, attempt, reconnects, refused,
                      attachedAt, filled, runErr, expired, cancelled, stoppedBy>>
      BY <2>2 DEF Drop, runVars, clockVars, sessionVars, deliveryVars
    <3> QED BY <3>1, <3>2, <3>3 DEF ControlTypeOK, Stopped
  <2>3. CASE TimePasses
    <3>1. age' \in Nat
      BY <2>3, WatchAssumption DEF TimePasses
    <3> QED BY <2>3, <3>1 DEF TimePasses, ControlTypeOK, clockVars, sessionVars, deliveryVars, Stopped
  <2>4. CASE Expire
    BY <2>4 DEF Expire, DurationEnds, ControlTypeOK, runVars, sessionVars, deliveryVars, Stopped
  <2>5. CASE Cancel
    BY <2>5 DEF Cancel, CallerCancels, ControlTypeOK, runVars, sessionVars, deliveryVars, Stopped
  <2> QED BY <2>1, <2>2, <2>3, <2>4, <2>5 DEF Environment
<1>3. log' \in Seq(Event) /\ wire' \in Seq(Event)
  <2>1. CASE Happens
    <3>1. PICK e \in NextActivity :
            log' = Append(log, e) /\ wire' = IF open THEN Append(wire, e) ELSE wire
      BY <2>1 DEF Happens
    <3>2. e \in Event
      BY NextActivityType
    <3> QED BY <3>1, <3>2, AppendProperties
  <2>2. CASE Drop
    <3>1. PICK n \in 0..Len(wire) : wire' = SubSeq(wire, 1, n)
      BY <2>2 DEF Drop
    <3>2. wire' \in Seq(Event)
      BY <3>1, SubSeqProperties, LenProperties
    <3> QED BY <2>2, <3>2 DEF Drop
  <2> QED BY <2>1, <2>2 DEF Environment, TimePasses, Expire, Cancel
<1> QED BY <1>1, <1>2, <1>3

(* Type correctness is inductive.                                          *)
LEMMA TypeNext == TypeOK /\ [Next]_vars => TypeOK'
<1> SUFFICES ASSUME TypeOK, [Next]_vars
             PROVE  /\ SessionTypeOK' /\ ControlTypeOK'
                    /\ log' \in Seq(Event) /\ wire' \in Seq(Event)
  BY DEF TypeOK, SessionTypeOK, ControlTypeOK, Stopped
<1>1. /\ SessionTypeOK /\ ControlTypeOK
      /\ log \in Seq(Event) /\ wire \in Seq(Event)
  BY TypeParts
<1>2. CASE UNCHANGED vars
  BY <1>1, <1>2, SessionUnchanged
     DEF vars, sessionVars, runVars, clockVars, deliveryVars, ControlTypeOK, Stopped
<1>3. CASE Engine
  BY <1>1, <1>3, EngineType
<1>4. CASE Environment
  BY <1>1, <1>4, EnvironmentType
<1> QED BY <1>2, <1>3, <1>4 DEF Next, Done

(* Every reachable state of the socket run is well typed, and a run that has*)
(* returned says why (watchSession, WatchResult.StoppedBy), for every filter,*)
(* workspace and bound.                                                    *)
THEOREM TypeCorrect == Spec => []TypeOK
BY TypeInit, TypeNext, PTL DEF Spec

-----------------------------------------------------------------------------
(* Every emitted event's key is in the seen set, so a second copy is refused. *)
EmittedIsSeen == \A i \in DOMAIN emitted : EventKey(emitted[i]) \in seen

(* EmittedOnce, strengthened to be inductive.                              *)
OnceInv == EmittedIsSeen /\ EmittedOnce

(* A step that emits nothing and sees nothing preserves it.                *)
LEMMA OnceUnchanged ==
  ASSUME OnceInv, UNCHANGED emitted, seen \subseteq seen'
  PROVE  OnceInv'
BY DEF OnceInv, EmittedIsSeen, EmittedOnce

(* Offering an event preserves it: a key is emitted only when it is new.   *)
LEMMA OfferOnce ==
  ASSUME SessionTypeOK, OnceInv, NEW e \in Event, NEW fails \in BOOLEAN, Offer(e, fails)
  PROVE  OnceInv'
<1> DEFINE w == WithThread(e)
<1>1. w \in Event /\ EventKey(w) = EventKey(e)
  BY WithThreadType DEF SessionTypeOK
<1>2. CASE UNCHANGED emitted
  <2>1. seen \subseteq seen'
    BY DEF Offer, deliveryVars
  <2> QED BY <1>2, <2>1, OnceUnchanged
<1>3. ASSUME EventKey(e) \notin seen, emitted' = Append(emitted, w),
             seen' = seen \cup {EventKey(e)}
      PROVE  OnceInv'
  <2>1. emitted \in Seq(Event) /\ Len(emitted) \in Nat
    BY LenProperties DEF SessionTypeOK
  <2>2. /\ DOMAIN emitted' = 1..(Len(emitted) + 1)
        /\ DOMAIN emitted = 1..Len(emitted)
        /\ \A i \in 1..Len(emitted) : emitted'[i] = emitted[i]
        /\ emitted'[Len(emitted) + 1] = w
    BY <1>1, <1>3, <2>1, AppendProperties, LenProperties
  <2> HIDE DEF w
  <2>3. \A i \in 1..Len(emitted) : EventKey(emitted'[i]) \in seen
    BY <2>2 DEF OnceInv, EmittedIsSeen
  <2>4. EventKey(emitted'[Len(emitted) + 1]) = EventKey(e)
    BY <1>1, <2>2
  <2>5. \A i \in DOMAIN emitted' : i \in 1..Len(emitted) \/ i = Len(emitted) + 1
    BY <2>1, <2>2
  <2>6. EmittedIsSeen'
    BY <1>3, <2>3, <2>4, <2>5 DEF EmittedIsSeen, EventKey
  <2>7. ASSUME NEW i \in DOMAIN emitted', NEW j \in DOMAIN emitted',
               EventKey(emitted'[i]) = EventKey(emitted'[j])
        PROVE  i = j
    <3>1. CASE i \in 1..Len(emitted) /\ j \in 1..Len(emitted)
      BY <2>2, <2>7, <3>1 DEF OnceInv, EmittedOnce
    <3>2. CASE i = Len(emitted) + 1 \/ j = Len(emitted) + 1
      BY <1>3, <2>3, <2>4, <2>5, <2>7, <3>2
    <3> QED BY <2>5, <3>1, <3>2
  <2>8. EmittedOnce'
    BY <2>7 DEF EmittedOnce, EventKey
  <2> QED BY <2>6, <2>8 DEF OnceInv
<1>4. \/ UNCHANGED emitted
      \/ /\ EventKey(e) \notin seen /\ emitted' = Append(emitted, w)
         /\ seen' = seen \cup {EventKey(e)}
  BY DEF Offer, deliveryVars, Emit, EmitFails, ReportSkipped, NothingDelivered
<1> QED BY <1>2, <1>3, <1>4

(* Only a replayed or a consumed event changes what was emitted or seen.   *)
LEMMA OnceNext == TypeOK /\ OnceInv /\ [Next]_vars => OnceInv'
<1> SUFFICES ASSUME TypeOK, OnceInv, [Next]_vars PROVE OnceInv'
  OBVIOUS
<1>1. SessionTypeOK /\ ControlTypeOK /\ wire \in Seq(Event)
  BY TypeParts
<1>2. ASSUME NEW e \in batch, Replay(e) PROVE OnceInv'
  BY <1>1, <1>2, OfferOnce DEF Replay, ControlTypeOK
<1>3. CASE ConsumeFrame
  <2>1. Head(wire) \in Event
    BY <1>1, <1>3, HeadTailProperties DEF ConsumeFrame
  <2> QED BY <1>1, <1>3, <2>1, OfferOnce DEF ConsumeFrame
<1>4. CASE UNCHANGED <<seen, emitted>>
  BY <1>4, OnceUnchanged
<1>5. \/ \E e \in batch : Replay(e)
      \/ ConsumeFrame
      \/ UNCHANGED <<seen, emitted>>
  <2>1. CASE UNCHANGED vars \/ Done \/ Environment
    BY <2>1 DEF Done, vars, sessionVars, deliveryVars, Environment, Happens, Drop,
                TimePasses, Expire, Cancel
  <2>2. CASE ConnectSucceeds \/ ConnectFails
    BY <2>2 DEF ConnectSucceeds, ConnectFails, sessionVars, deliveryVars
  <2>3. CASE \/ \E c \in todo : ReadChannel(c) \/ ReadChannelFails(c) \/ NothingToReadFrom(c)
             \/ \E root \in reading.roots : ReadThread(root)
             \/ ReadDone
    BY <2>3 DEF ReadChannel, ReadChannelFails, NothingToReadFrom, ReadThread, ReadDone,
                sessionVars, deliveryVars
  <2>4. CASE CaughtUp \/ ConsumeIdle \/ ConsumeDone
    BY <2>4 DEF CaughtUp, ConsumeIdle, ConsumeDone, sessionVars, deliveryVars
  <2>5. CASE SocketDropped \/ Backoff \/ RedialSucceeds \/ RedialFails \/ Finish
    BY <2>5 DEF SocketDropped, Backoff, RedialSucceeds, RedialFails, Finish,
                sessionVars, deliveryVars
  <2> QED BY <2>1, <2>2, <2>3, <2>4, <2>5 DEF Next, Engine
<1> QED BY <1>2, <1>3, <1>4, <1>5

(* No event reaches the caller twice, whatever the backfill, the live socket  *)
(* and the gap-fills bring (offer's seen set).                                *)
THEOREM DeliveredAtMostOnce == Spec => []EmittedOnce
<1>1. Init => OnceInv
  <2>1. Init => emitted = << >>
    BY DEF Init, SessionInit
  <2>2. << >> \in Seq(Event) /\ Len(<< >>) = 0
    OBVIOUS
  <2>3. DOMAIN << >> = 1..0
    BY <2>2, LenProperties
  <2>4. \A i : i \notin 1..0
    OBVIOUS
  <2> QED BY <2>1, <2>3, <2>4 DEF Init, SessionInit, OnceInv, EmittedIsSeen, EmittedOnce
<1>2. OnceInv => EmittedOnce
  BY DEF OnceInv
<1> QED BY <1>1, <1>2, OnceNext, TypeCorrect, PTL DEF Spec

-----------------------------------------------------------------------------
(* A run on its way out without an error and without a reason of its own is  *)
(* over because its context is; only finish says "cancelled".                *)
CancelInv ==
  /\ pc # "returned" => stoppedBy # "cancelled"
  /\ pc = "return" /\ ~runErr /\ ~Stopped => RunOver
  /\ expired => HasDuration
  /\ CancelledIsTrue

(* Offering an event stops a run only by the event cap.                    *)
LEMMA CancelOffer ==
  ASSUME NEW e, NEW fails, Offer(e, fails)
  PROVE  stoppedBy' = stoppedBy \/ stoppedBy' = "max-events"
BY DEF Offer, deliveryVars, Emit, EmitFails, ReportSkipped, NothingDelivered, Stop

(* What an engine step other than Finish must show.                        *)
LEMMA CancelStep ==
  ASSUME CancelInv, UNCHANGED clockVars, pc' # "returned", stoppedBy' # "cancelled",
         pc' = "return" => runErr' \/ stoppedBy' # "" \/ RunOver
  PROVE  CancelInv'
<1>1. (expired' <=> expired) /\ (cancelled' <=> cancelled)
  BY DEF clockVars
<1>2. RunOver' <=> RunOver
  BY <1>1 DEF RunOver
<1>3. expired' => HasDuration
  BY <1>1 DEF CancelInv
<1> QED BY <1>2, <1>3 DEF CancelInv, CancelledIsTrue, Stopped

(* Every step of the engine preserves it; Finish is where it is used.      *)
LEMMA CancelEngine ==
  ASSUME CancelInv, Engine
  PROVE  CancelInv'
<1>1. ASSUME pc # "returned" PROVE stoppedBy # "cancelled"
  BY <1>1 DEF CancelInv
<1>2. CASE ConnectSucceeds \/ ConnectFails
  <2>1. UNCHANGED clockVars /\ UNCHANGED stoppedBy /\ pc = "connect"
    BY <1>2 DEF ConnectSucceeds, ConnectFails, sessionVars, deliveryVars
  <2>2. pc' = "fetch" \/ (pc' = "return" /\ runErr')
    BY <1>2 DEF ConnectSucceeds, ConnectFails
  <2> QED BY <1>1, <2>1, <2>2, CancelStep
<1>3. CASE \E c \in todo : ReadChannel(c) \/ ReadChannelFails(c) \/ NothingToReadFrom(c)
  <2>1. UNCHANGED clockVars /\ UNCHANGED stoppedBy /\ pc = "fetch"
    BY <1>3 DEF ReadChannel, ReadChannelFails, NothingToReadFrom, deliveryVars
  <2>2. pc' \in {"fetch", "threads"} \/ (pc' = "return" /\ runErr')
    BY <1>3 DEF ReadChannel, ReadChannelFails, NothingToReadFrom, CatchUpFails
  <2> QED BY <1>1, <2>1, <2>2, CancelStep
<1>4. CASE (\E root \in reading.roots : ReadThread(root)) \/ ReadDone
  <2>1. UNCHANGED clockVars /\ UNCHANGED stoppedBy /\ pc = "threads"
    BY <1>4 DEF ReadThread, ReadDone, sessionVars, deliveryVars
  <2>2. pc' \in {"threads", "fetch", "replay"}
    BY <1>4 DEF ReadThread, ReadDone
  <2> QED BY <1>1, <2>1, <2>2, CancelStep
<1>5. CASE \E e \in batch : Replay(e)
  <2>1. UNCHANGED clockVars /\ pc = "replay"
    BY <1>5 DEF Replay
  <2>2. stoppedBy' = stoppedBy \/ stoppedBy' = "max-events"
    BY <1>5, CancelOffer DEF Replay
  <2>3. pc' \in {"fetch", "replay"} \/ (pc' = "return" /\ runErr')
    BY <1>5 DEF Replay, CatchUpFails
  <2> QED BY <1>1, <2>1, <2>2, <2>3, CancelStep
<1>6. CASE CaughtUp \/ ConsumeDone
  <2>1. UNCHANGED clockVars /\ UNCHANGED stoppedBy /\ pc # "returned"
    BY <1>6 DEF CaughtUp, ConsumeDone, sessionVars, deliveryVars
  <2>2. pc' = "consume" \/ (pc' = "return" /\ (stoppedBy # "" \/ RunOver))
    BY <1>6 DEF CaughtUp, ConsumeDone, Stopped
  <2> QED BY <1>1, <2>1, <2>2, CancelStep
<1>7. CASE ConsumeFrame
  <2>1. UNCHANGED clockVars /\ pc = "consume"
    BY <1>7 DEF ConsumeFrame
  <2>2. stoppedBy' = stoppedBy \/ stoppedBy' = "max-events"
    BY <1>7, CancelOffer DEF ConsumeFrame
  <2>3. pc' = "consume" \/ (pc' = "return" /\ (runErr' \/ stoppedBy' # ""))
    BY <1>7 DEF ConsumeFrame
  <2> QED BY <1>1, <2>1, <2>2, <2>3, CancelStep
<1>8. CASE ConsumeIdle
  <2>1. /\ UNCHANGED clockVars /\ pc = "consume" /\ pc' = "return"
        /\ stoppedBy' = IF stoppedBy # "" THEN stoppedBy ELSE "idle-timeout"
    BY <1>8 DEF ConsumeIdle, Stop, Stopped
  <2> QED BY <1>1, <2>1, CancelStep
<1>9. CASE SocketDropped
  <2>1. /\ UNCHANGED clockVars /\ pc = "consume"
        /\ \/ /\ pc' = "return"
              /\ stoppedBy' = IF stoppedBy # "" THEN stoppedBy ELSE "reconnect-failed"
           \/ pc' = "backoff" /\ UNCHANGED stoppedBy
    BY <1>9 DEF SocketDropped, Stop, Stopped
  <2> QED BY <1>1, <2>1, CancelStep
<1>10. CASE Backoff \/ RedialSucceeds \/ RedialFails
  <2>1. UNCHANGED clockVars /\ UNCHANGED stoppedBy /\ pc # "returned"
    BY <1>10 DEF Backoff, RedialSucceeds, RedialFails, sessionVars, deliveryVars
  <2>2. pc' \in {"redial", "fetch", "consume"} \/ (pc' = "return" /\ RunOver)
    BY <1>10 DEF Backoff, RedialSucceeds, RedialFails
  <2> QED BY <1>1, <2>1, <2>2, CancelStep
<1>11. CASE Finish
  <2>1. /\ pc = "return" /\ pc' = "returned"
        /\ stoppedBy' = IF stoppedBy # "" THEN stoppedBy ELSE DeadlineStopReason
        /\ (runErr' <=> runErr) /\ (expired' <=> expired) /\ (cancelled' <=> cancelled)
    BY <1>11 DEF Finish, Stop, Stopped, clockVars
  <2>2. ~runErr /\ stoppedBy = "" /\ ~cancelled => expired /\ HasDuration
    BY <2>1 DEF CancelInv, RunOver, Stopped
  <2>3. pc' = "returned" /\ ~runErr' /\ stoppedBy' = "cancelled" => cancelled'
    BY <1>1, <2>1, <2>2 DEF DeadlineStopReason
  <2>4. expired' => HasDuration
    BY <2>1 DEF CancelInv
  <2> QED BY <2>1, <2>3, <2>4 DEF CancelInv, CancelledIsTrue
<1> QED BY <1>2, <1>3, <1>4, <1>5, <1>6, <1>7, <1>8, <1>9, <1>10, <1>11 DEF Engine

(* So does what happens beside the engine: contexts end, and stay ended.   *)
LEMMA CancelEnvironment ==
  ASSUME CancelInv, Environment \/ Done \/ UNCHANGED vars
  PROVE  CancelInv'
<1>1. CASE Done \/ UNCHANGED vars \/ Happens \/ Drop \/ TimePasses
  <2>1. UNCHANGED <<pc, stoppedBy>> /\ (runErr' <=> runErr)
    BY <1>1 DEF Done, Happens, Drop, TimePasses, vars, sessionVars, deliveryVars, runVars
  <2>2. (expired' <=> expired) /\ (cancelled' <=> cancelled)
    BY <1>1 DEF Done, Happens, Drop, TimePasses, vars, clockVars
  <2> QED BY <2>1, <2>2 DEF CancelInv, CancelledIsTrue, RunOver, Stopped
<1>2. CASE Expire \/ Cancel
  <2>1. pc # "returned" /\ UNCHANGED <<pc, stoppedBy>> /\ (runErr' <=> runErr)
    BY <1>2 DEF Expire, Cancel, Running, sessionVars, deliveryVars, runVars
  <2>2. RunOver' /\ (expired' => HasDuration)
    BY <1>2 DEF Expire, Cancel, DurationEnds, CallerCancels, RunOver, CancelInv
  <2> QED BY <2>1, <2>2 DEF CancelInv, CancelledIsTrue, Stopped
<1> QED BY <1>1, <1>2 DEF Environment

(* A run that ends without an error says it was cancelled only when its       *)
(* caller cancelled it (finish).                                              *)
THEOREM CancelledOnlyByCaller == Spec => []CancelledIsTrue
<1>1. Init => CancelInv
  BY DEF Init, SessionInit, ClockInit, CancelInv, CancelledIsTrue
<1>2. CancelInv /\ [Next]_vars => CancelInv'
  BY CancelEngine, CancelEnvironment DEF Next
<1>3. CancelInv => CancelledIsTrue
  BY DEF CancelInv
<1> QED BY <1>1, <1>2, <1>3, PTL DEF Spec

-----------------------------------------------------------------------------
(* A run over channels: no thread, no conversation held, replies left out.  *)
Stream == ThreadTS = NoTS /\ RepliesTo = NoTS /\ ~IncludeThreadReplies

(* Entry i of the log happened at instant 2i.                               *)
LogInv == \A i \in DOMAIN log : HappenedAt(log[i], i)

(* What happened at position i of the log.                                  *)
LEMMA OccurredAt ==
  ASSUME log \in Seq(Event), LogInv, NEW e \in Occurred
  PROVE  /\ e \in Event
         /\ \E i \in 1..Len(log) : e = log[i] /\ Cursor(e) = 2 * i
                                   /\ (e.kind = "message" => e.ts = 2 * i)
         /\ ~e.caughtUp
         /\ e.kind = "message" => /\ e.eventTS = NoTS /\ e.thread # e.ts
                                  /\ Cursor(e) = e.ts
<1>1. PICK i \in DOMAIN log : e = log[i]
  BY DEF Occurred
<1>2. e \in Event /\ DOMAIN log = 1..Len(log) /\ i \in Int
  BY <1>1, LenProperties
<1>3. HappenedAt(e, i)
  BY <1>1 DEF LogInv
<1>4. Cursor(e) = 2 * i
  BY <1>2, <1>3 DEF HappenedAt, Cursor, NoTS, Event
<1> QED BY <1>1, <1>2, <1>3, <1>4 DEF HappenedAt

(* Two entries at the same instant are one; so a message is known by its    *)
(* timestamp.                                                               *)
LEMMA SameInstant ==
  ASSUME log \in Seq(Event), LogInv, NEW a \in Occurred, NEW b \in Occurred,
         Cursor(a) = Cursor(b)
  PROVE  a = b
<1>1. PICK i \in 1..Len(log) : a = log[i] /\ Cursor(a) = 2 * i
  BY OccurredAt
<1>2. PICK j \in 1..Len(log) : b = log[j] /\ Cursor(b) = 2 * j
  BY OccurredAt
<1>3. i = j
  BY <1>1, <1>2
<1> QED BY <1>1, <1>2, <1>3

(* Everything that happened did so before the next instant.                 *)
LEMMA BeforeNow ==
  ASSUME log \in Seq(Event), LogInv, NEW e \in Occurred
  PROVE  Cursor(e) \in Nat /\ Cursor(e) + 1 < Instant
<1>1. PICK i \in 1..Len(log) : Cursor(e) = 2 * i
  BY OccurredAt
<1>2. Len(log) \in Nat
  BY LenProperties
<1> QED BY <1>1, <1>2 DEF Instant

(* Instants are even: a moment just after one precedes the next.            *)
LEMMA JustAfterIsBetween ==
  ASSUME log \in Seq(Event), LogInv, NEW a \in Occurred, NEW b \in Occurred,
         Cursor(a) < Cursor(b)
  PROVE  Cursor(a) + 1 < Cursor(b)
<1>1. PICK i \in 1..Len(log) : Cursor(a) = 2 * i
  BY OccurredAt
<1>2. PICK j \in 1..Len(log) : Cursor(b) = 2 * j
  BY OccurredAt
<1> QED BY <1>1, <1>2

(* Whatever happens next happens at the next instant.                       *)
LEMMA NextHappens ==
  ASSUME log \in Seq(Event), LogInv, NEW e \in NextActivity
  PROVE  HappenedAt(e, Len(log) + 1)
<1> DEFINE now == Len(log) + 1
<1>1. Instant = 2 * now
  BY DEF Instant
<1>2. ASSUME NEW m \in AllMessages
      PROVE  m \in Event /\ ~m.caughtUp
  <2>1. m \in Occurred
    BY DEF AllMessages, Messages
  <2> QED BY <2>1, OccurredAt
<1>3. ASSUME NEW p \in PossiblePosts PROVE HappenedAt(p, now)
  <2>1. /\ p.kind = "message" /\ p.ts = Instant /\ p.eventTS = NoTS /\ p.caughtUp = FALSE
        /\ p.thread \in {NoTS} \cup {r \in ReplyRoots : r < Instant}
    BY DEF PossiblePosts, Posts
  <2>2. p.thread # p.ts
    <3>1. Instant \in Nat
      BY LenProperties DEF Instant
    <3> QED BY <2>1, <3>1 DEF NoTS
  <2> QED BY <1>1, <2>1, <2>2 DEF HappenedAt
<1>4. ASSUME NEW f \in Reacting PROVE HappenedAt(f, now)
  <2>1. \E kind \in {"reaction_added", "reaction_removed"} : \E m, u, n : f = ReactionFrame(kind, m, u, n)
    BY DEF Reacting, ReactionsAdded, ReactionsRemoved
  <2>2. f.kind # "message" /\ f.eventTS = Instant /\ f.caughtUp = FALSE
    BY <2>1 DEF ReactionFrame
  <2> QED BY <1>1, <2>2 DEF HappenedAt
<1>5. ASSUME NEW f \in Edits \cup Deletions PROVE HappenedAt(f, now)
  <2>1. PICK m \in AllMessages : \/ f = Modified(m, "message_changed")
                                 \/ f = [Modified(m, "message_deleted") EXCEPT !.thread = NoTS]
    BY DEF Edits, Deletions
  <2>2. m \in Event /\ ~m.caughtUp
    BY <1>2
  <2>3. f.kind # "message" /\ f.eventTS = Instant /\ f.caughtUp = m.caughtUp
    BY <2>1, <2>2 DEF Modified, Event
  <2> QED BY <1>1, <2>2, <2>3 DEF HappenedAt
<1> QED BY <1>3, <1>4, <1>5 DEF NextActivity

(* A longer log is made of what it was and what is new.                     *)
LEMMA LogGrows ==
  ASSUME log \in Seq(Event), NEW e \in Event, log' = Append(log, e)
  PROVE  /\ Len(log') = Len(log) + 1 /\ Len(log) \in Nat
         /\ \A i \in 1..Len(log) : log'[i] = log[i]
         /\ log'[Len(log) + 1] = e
         /\ DOMAIN log' = 1..(Len(log) + 1) /\ DOMAIN log = 1..Len(log)
         /\ Occurred' = Occurred \cup {e}
         /\ Instant' = Instant + 2
<1>1. /\ Len(log') = Len(log) + 1 /\ Len(log) \in Nat
      /\ \A i \in 1..Len(log) : log'[i] = log[i]
      /\ log'[Len(log) + 1] = e
      /\ DOMAIN log' = 1..(Len(log) + 1) /\ DOMAIN log = 1..Len(log)
  BY AppendProperties, LenProperties
<1>2. Occurred' = Occurred \cup {e}
  BY <1>1 DEF Occurred
<1>3. Instant' = Instant + 2
  BY <1>1 DEF Instant
<1> QED BY <1>1, <1>2, <1>3

(* Every entry is where its instant says.                                   *)
LEMMA LogNext == TypeOK /\ LogInv /\ [Next]_vars => LogInv'
<1> SUFFICES ASSUME TypeOK, LogInv, [Next]_vars PROVE LogInv'
  OBVIOUS
<1>1. log \in Seq(Event)
  BY TypeParts
<1>2. CASE Happens
  <2>1. PICK e \in NextActivity : log' = Append(log, e)
    BY <1>2 DEF Happens
  <2>2. e \in Event /\ HappenedAt(e, Len(log) + 1)
    BY <1>1, NextActivityType, NextHappens
  <2> QED BY <1>1, <2>1, <2>2, LogGrows DEF LogInv
<1>3. UNCHANGED log \/ Happens
  BY DEF Next, Engine, Environment, Done, vars, ConnectSucceeds, ConnectFails, ReadChannel,
         ReadChannelFails, NothingToReadFrom, ReadThread, ReadDone, Replay, CaughtUp,
         ConsumeFrame, ConsumeIdle, ConsumeDone, SocketDropped, Backoff, RedialSucceeds,
         RedialFails, Finish, Drop, TimePasses, Expire, Cancel
<1> QED BY <1>2, <1>3 DEF LogInv

-----------------------------------------------------------------------------
(* What the session has told its caller or remembers of what it examined.   *)
Told == <<seen, watermark, cursors, emitted, reported, truncated, emitFailed>>

(* The places of a run that is on its way out.                              *)
Leaving == {"return", "returned"}

(* A step that reads, sends and tells nothing.                              *)
Quiet ==
  /\ UNCHANGED <<log, wire, reading, attachedAt>> /\ UNCHANGED Told
  /\ gaps' \in {gaps, gaps + 1}
  /\ Stopped => Stopped'
  /\ Stopped' => Stopped \/ pc' \in Leaving
  /\ pc \in Leaving => pc' \in Leaving
  /\ batch' \subseteq batch
  /\ open' = open \/ pc' \in Leaving
  /\ \/ pc' \in Leaving
     \/ gaps' = gaps + 1 /\ {pc, pc'} = {"fetch"}
     \/ UNCHANGED <<pc, todo, batch>>
     \/ pc = "fetch" /\ todo = {} /\ pc' = "consume"
     \/ {pc, pc'} \subseteq {"consume", "backoff", "redial"}

(* The steps that matter to what is told, and the others.                   *)
LEMMA StepKinds ==
  ASSUME [Next]_vars
  PROVE  \/ Happens \/ Drop
         \/ ConnectSucceeds
         \/ \E c \in todo : ReadChannel(c)
         \/ \E root \in reading.roots : ReadThread(root)
         \/ ReadDone
         \/ \E e \in batch : Replay(e)
         \/ ConsumeFrame
         \/ RedialSucceeds
         \/ Quiet
<1>1. CASE UNCHANGED vars
  BY <1>1 DEF vars, sessionVars, deliveryVars, runVars, Quiet, Told, Stopped
<1>2. CASE TimePasses \/ Expire \/ Cancel \/ Done
  BY <1>2 DEF TimePasses, Expire, Cancel, Done, vars, sessionVars, deliveryVars, runVars,
              Quiet, Told, Stopped
<1>3. CASE ConnectFails
  BY <1>3 DEF ConnectFails, sessionVars, deliveryVars, Quiet, Told, Stopped, Leaving
<1>4. CASE \E c \in todo : ReadChannelFails(c) \/ NothingToReadFrom(c)
  BY <1>4 DEF ReadChannelFails, NothingToReadFrom, CatchUpFails, deliveryVars, Quiet, Told,
              Stopped, Leaving
<1>5. CASE CaughtUp \/ ConsumeDone \/ Backoff \/ RedialFails
  BY <1>5 DEF CaughtUp, ConsumeDone, Backoff, RedialFails, sessionVars, deliveryVars, Quiet,
              Told, Stopped, Leaving
<1>6. CASE ConsumeIdle \/ SocketDropped \/ Finish
  <2>1. DeadlineStopReason # ""
    BY DEF DeadlineStopReason
  <2> QED BY <1>6, <2>1 DEF ConsumeIdle, SocketDropped, Finish, Stop, Quiet, Told, Stopped, Leaving
<1> QED BY <1>1, <1>2, <1>3, <1>4, <1>5, <1>6 DEF Next, Engine, Environment

-----------------------------------------------------------------------------
(* Appending an event adds its key.                                         *)
LEMMA AppendKeys ==
  ASSUME NEW s \in Seq(Event), NEW x \in Event
  PROVE  KeysOf(Append(s, x)) = KeysOf(s) \cup {EventKey(x)}
<1>1. /\ Len(s) \in Nat /\ DOMAIN s = 1..Len(s)
      /\ DOMAIN Append(s, x) = 1..(Len(s) + 1)
      /\ \A i \in 1..Len(s) : Append(s, x)[i] = s[i]
      /\ Append(s, x)[Len(s) + 1] = x
  BY AppendProperties, LenProperties
<1>2. 1..(Len(s) + 1) = 1..Len(s) \cup {Len(s) + 1}
  BY <1>1
<1> DEFINE t == Append(s, x)
<1>3. KeysOf(t) = {EventKey(t[i]) : i \in 1..Len(s)} \cup {EventKey(t[Len(s) + 1])}
  BY <1>1, <1>2 DEF KeysOf
<1>4. {EventKey(t[i]) : i \in 1..Len(s)} = KeysOf(s)
  BY <1>1 DEF KeysOf
<1> QED BY <1>1, <1>3, <1>4

(* A message changes by being told about only in whether its key is known.  *)
Answered(e, fails) ==
  \/ ~InScope(e)
  \/ Matches(e) /\ fails /\ emitFailed'
  \/ Matches(e) /\ ~fails /\ EventKey(e) \in KeysOf(emitted')
  \/ InScope(e) /\ ~Narrows(e) /\ (truncated' \/ EventKey(e) \in KeysOf(reported'))

(* What offering an event does to the session, in the terms of the proofs.  *)
LEMMA OfferEffect ==
  ASSUME SessionTypeOK, NEW e \in Event, NEW fails \in BOOLEAN, Offer(e, fails)
  PROVE  /\ seen' = seen \cup {EventKey(e)}
         /\ \A c \in AllChannels :
              \/ watermark'[c] = watermark[c]
              \/ c = e.ch /\ watermark'[c] = MaxTS(watermark[c], Cursor(e))
         /\ \A c \in AllChannels :
              \/ cursors'[c] = cursors[c]
              \/ c = e.ch /\ cursors'[c] = MaxTS(cursors[c], Cursor(e))
                          /\ watermark'[c] = MaxTS(watermark[c], Cursor(e))
         /\ KeysOf(emitted) \subseteq KeysOf(emitted')
         /\ KeysOf(reported) \subseteq KeysOf(reported')
         /\ truncated => truncated'
         /\ emitFailed => emitFailed'
         /\ emitFailed' => emitFailed \/ fails
         /\ fails => UNCHANGED <<watermark, emitted, reported>>
         /\ Stopped => Stopped'
         /\ MaxEvents = 0 => stoppedBy' = stoppedBy
         /\ e.kind = "message" /\ EventKey(e) \notin seen => Answered(e, fails)
<1> DEFINE w == WithThread(e)
<1>1. w \in Event /\ EventKey(w) = EventKey(e)
  BY WithThreadType DEF SessionTypeOK
<1>2. w.ch = e.ch /\ Cursor(w) = Cursor(e) /\ (e.kind = "message" => w = e)
  BY DEF WithThread, Cursor, IsReaction, Event
<1>3. CASE UNCHANGED deliveryVars /\ EventKey(e) \in seen
  BY <1>3 DEF deliveryVars, Stopped
<1>4. CASE /\ EventKey(e) \notin seen /\ seen' = seen \cup {EventKey(e)}
           /\ IsDuplicateReaction(e) /\ NothingDelivered
  BY <1>4 DEF NothingDelivered, IsDuplicateReaction, Stopped
<1>5. ASSUME EventKey(e) \notin seen, seen' = seen \cup {EventKey(e)},
             \/ Matches(w) /\ ~fails /\ Emit(w)
             \/ Matches(w) /\ fails /\ EmitFails
             \/ InScope(w) /\ ~Narrows(w) /\ ~fails /\ ReportSkipped(w)
             \/ ~InScope(w) /\ ~fails /\ NothingDelivered
      PROVE  /\ \A c \in AllChannels :
                  \/ watermark'[c] = watermark[c]
                  \/ c = e.ch /\ watermark'[c] = MaxTS(watermark[c], Cursor(e))
             /\ \A c \in AllChannels :
                  \/ cursors'[c] = cursors[c]
                  \/ c = e.ch /\ cursors'[c] = MaxTS(cursors[c], Cursor(e))
                              /\ watermark'[c] = MaxTS(watermark[c], Cursor(e))
             /\ KeysOf(emitted) \subseteq KeysOf(emitted')
             /\ KeysOf(reported) \subseteq KeysOf(reported')
             /\ truncated => truncated'
             /\ emitFailed => emitFailed'
             /\ emitFailed' => emitFailed \/ fails
             /\ fails => UNCHANGED <<watermark, emitted, reported>>
             /\ Stopped => Stopped'
             /\ MaxEvents = 0 => stoppedBy' = stoppedBy
             /\ e.kind = "message" => Answered(e, fails)
  <2> HIDE DEF w
  <2>1. /\ watermark \in [AllChannels -> Timestamps] /\ cursors \in [AllChannels -> Timestamps]
        /\ emitted \in Seq(Event) /\ reported \in Seq(Event)
    BY DEF SessionTypeOK
  <2>2. CASE Matches(w) /\ ~fails /\ Emit(w)
    <3>1. KeysOf(emitted') = KeysOf(emitted) \cup {EventKey(w)}
      BY <1>1, <2>1, <2>2, AppendKeys DEF Emit
    <3>2. /\ reported' = reported /\ truncated' = truncated /\ emitFailed' = emitFailed
          /\ watermark' = [watermark EXCEPT ![e.ch] = MaxTS(@, Cursor(e))]
          /\ cursors' = [cursors EXCEPT ![e.ch] = MaxTS(@, Cursor(e))]
      BY <1>2, <2>2 DEF Emit, AdvanceCursor, AdvanceWatermark
    <3>3. stoppedBy' \in {stoppedBy, "max-events"} /\ (MaxEvents = 0 => stoppedBy' = stoppedBy)
      BY <2>2 DEF Emit, Stop
    <3> QED BY <1>1, <1>2, <2>1, <2>2, <3>1, <3>2, <3>3 DEF Answered, Stopped
  <2>3. CASE Matches(w) /\ fails /\ EmitFails
    BY <1>2, <2>3 DEF EmitFails, Answered, Stopped
  <2>4. CASE InScope(w) /\ ~Narrows(w) /\ ~fails /\ ReportSkipped(w)
    <3>1. /\ emitted' = emitted /\ stoppedBy' = stoppedBy /\ emitFailed' = emitFailed
          /\ watermark' = [watermark EXCEPT ![e.ch] = MaxTS(@, Cursor(e))]
      BY <1>2, <2>4 DEF ReportSkipped, AdvanceCursor, AdvanceWatermark
    <3>2. \/ truncated' = TRUE /\ UNCHANGED <<cursors, reported>>
          \/ /\ KeysOf(reported') = KeysOf(reported) \cup {EventKey(w)}
             /\ cursors' = [cursors EXCEPT ![e.ch] = MaxTS(@, Cursor(e))]
             /\ truncated' = truncated
      BY <1>1, <1>2, <2>1, <2>4, AppendKeys DEF ReportSkipped, AdvanceCursor
    <3>3. truncated' \/ EventKey(w) \in KeysOf(reported')
      BY <3>2
    <3>4. ASSUME e.kind = "message" PROVE Answered(e, fails)
      <4>1. w = e
        BY <1>2, <3>4
      <4> QED BY <2>4, <3>3, <4>1, Zenon DEF Answered
    <3>5. KeysOf(emitted) \subseteq KeysOf(emitted') /\ KeysOf(reported) \subseteq KeysOf(reported')
      <4>1. reported' = reported \/ KeysOf(reported) \subseteq KeysOf(reported')
        BY <3>2
      <4> QED BY <3>1, <4>1
    <3>6. (truncated => truncated') /\ (emitFailed => emitFailed') /\ (emitFailed' => emitFailed)
      <4>1. truncated' = TRUE \/ truncated' = truncated
        BY <3>2
      <4>2. emitFailed' = emitFailed
        BY <3>1
      <4> QED BY <4>1, <4>2
    <3>7. ~fails
      BY <2>4
    <3> QED BY <1>2, <2>1, <3>1, <3>2, <3>4, <3>5, <3>6, <3>7 DEF Stopped
  <2>5. CASE ~InScope(w) /\ ~fails /\ NothingDelivered
    BY <1>2, <2>5 DEF NothingDelivered, Answered, Stopped
  <2> QED BY <1>5, <2>2, <2>3, <2>4, <2>5
<1>6. \/ UNCHANGED deliveryVars /\ EventKey(e) \in seen
      \/ /\ EventKey(e) \notin seen /\ seen' = seen \cup {EventKey(e)}
         /\ \/ IsDuplicateReaction(e) /\ NothingDelivered
            \/ Matches(w) /\ ~fails /\ Emit(w)
            \/ Matches(w) /\ fails /\ EmitFails
            \/ InScope(w) /\ ~Narrows(w) /\ ~fails /\ ReportSkipped(w)
            \/ ~InScope(w) /\ ~fails /\ NothingDelivered
  BY DEF Offer
<1> HIDE DEF w
<1>7. CASE /\ EventKey(e) \notin seen /\ seen' = seen \cup {EventKey(e)}
           /\ \/ Matches(w) /\ ~fails /\ Emit(w)
              \/ Matches(w) /\ fails /\ EmitFails
              \/ InScope(w) /\ ~Narrows(w) /\ ~fails /\ ReportSkipped(w)
              \/ ~InScope(w) /\ ~fails /\ NothingDelivered
  BY <1>5, <1>7
<1> QED BY <1>3, <1>4, <1>6, <1>7

-----------------------------------------------------------------------------
(* What history returns for a message: itself, or a root with its own       *)
(* timestamp as thread.                                                     *)
Copy(x, m) == x = m \/ (m.thread = NoTS /\ x = [m EXCEPT !.thread = m.ts])

(* What a history request can bring: a message that happened, or its copy.  *)
ReadBack(x) == \E m \in Occurred : m.kind = "message" /\ Copy(x, m)

(* A reaction read back with a message has no instant of its own.           *)
Undated(e) == /\ e.kind # "message" /\ e.caughtUp
              /\ \E m \in Occurred : m.kind = "message" /\ e.ts = m.ts

(* Everything a run is offered happened, or was read back.                  *)
Genuine(e) == e \in Occurred \/ ReadBack(e) \/ Undated(e)

(* The socket brings what happened, in the order it did.                    *)
WireInv ==
  /\ \A i \in DOMAIN wire : wire[i] \in Occurred
  /\ \A i, k \in DOMAIN wire : i < k => Cursor(wire[i]) < Cursor(wire[k])

(* Without a conversation there are no threads to read.                     *)
ReadInv ==
  /\ reading.roots = {}
  /\ \A x \in reading.messages : x.ch = reading.ch /\ ReadBack(x)
  /\ \A e \in batch : ReadBack(e) \/ Undated(e)

(* The run has told and examined nothing of the future.                     *)
MarksInv ==
  /\ pc = "connect" => /\ seen = {} /\ emitted = << >>
                       /\ \A c \in AllChannels : watermark[c] = NoTS
  /\ attachedAt <= Len(log)
  /\ \A c \in AllChannels : cursors[c] <= watermark[c] /\ watermark[c] < Instant
  /\ \A k \in seen : k[1] = "message" => k[3] \in Nat /\ k[3] < Instant

(* A message was handed to the caller, or reported as excluded.             *)
Handled(m) == EventKey(m) \in KeysOf(emitted) \cup KeysOf(reported)

(* A message in scope that was examined is an answer handed over, or an     *)
(* exclusion reported, or the report is full, or the caller could not take it.*)
SeenInv ==
  \A m \in Occurred : m.kind = "message" /\ InScope(m) /\ EventKey(m) \in seen =>
    \/ emitFailed
    \/ Matches(m) /\ EventKey(m) \in KeysOf(emitted)
    \/ ~Narrows(m) /\ (truncated \/ EventKey(m) \in KeysOf(reported))

(* A failing emit counts a gap or ends the run;                             *)
FailInv == emitFailed => gaps > 0 \/ pc \in Leaving

(* without an event cap, so does whatever sets stoppedBy.                   *)
StopInv == MaxEvents = 0 /\ Stopped => pc \in Leaving

-----------------------------------------------------------------------------
(* A copy is the message, apart from its thread.                            *)
LEMMA CopyIsMessage ==
  ASSUME log \in Seq(Event), LogInv, NEW m \in Occurred, m.kind = "message",
         NEW x, Copy(x, m)
  PROVE  /\ x \in Event /\ EventKey(x) = EventKey(m)
         /\ x.kind = "message" /\ x.ch = m.ch /\ x.ts = m.ts /\ Cursor(x) = m.ts
         /\ Narrows(x) <=> Narrows(m)
<1>1. /\ m \in Event /\ ~m.caughtUp /\ m.eventTS = NoTS
  BY OccurredAt
<1>2. /\ x \in Event /\ x.kind = m.kind /\ x.ch = m.ch /\ x.ts = m.ts /\ x.eventTS = m.eventTS
      /\ x.author = m.author /\ x.reaction = m.reaction /\ x.target = m.target
      /\ x.caughtUp = m.caughtUp
  BY <1>1 DEF Copy, Event, Timestamps
<1>3. EventKey(x) = EventKey(m)
  BY <1>2 DEF EventKey
<1>4. Cursor(x) = m.ts
  BY <1>1, <1>2 DEF Cursor
<1>5. Narrows(x) <=> Narrows(m)
  BY <1>2 DEF Narrows, MatchesAuthor, MatchesReaction, IsReaction
<1> QED BY <1>2, <1>3, <1>4, <1>5

(* Over channels it is in scope when the message is.                        *)
LEMMA CopyInScope ==
  ASSUME Stream, log \in Seq(Event), LogInv, NEW m \in Occurred, m.kind = "message",
         NEW x, Copy(x, m)
  PROVE  InScope(x) <=> InScope(m)
<1>1. /\ m \in Event /\ ~m.caughtUp /\ m.eventTS = NoTS /\ m.thread # m.ts /\ Cursor(m) = m.ts
  BY OccurredAt
<1>2. /\ x \in Event /\ x.kind = m.kind /\ x.ch = m.ch /\ x.ts = m.ts /\ x.author = m.author
      /\ x.thread = m.thread \/ (m.thread = NoTS /\ x.thread = x.ts)
  BY <1>1 DEF Copy, Event, Timestamps
<1>3. Cursor(x) = Cursor(m)
  BY <1>1, CopyIsMessage
<1>4. IsThreadReply(x) <=> IsThreadReply(m)
  BY <1>1, <1>2 DEF IsThreadReply
<1>5. MatchesThread(x) <=> MatchesThread(m)
  BY <1>2, <1>4 DEF MatchesThread, Stream, InChannelScope, IsReaction, InConversationThread
<1> QED BY <1>2, <1>3, <1>5 DEF InScope, IsSelf

(* A message in scope is not a reply.                                       *)
LEMMA InScopeIsRoot ==
  ASSUME Stream, log \in Seq(Event), LogInv, NEW m \in Occurred, m.kind = "message", InScope(m)
  PROVE  m.thread = NoTS
<1>1. m.thread # m.ts
  BY OccurredAt
<1> QED BY <1>1 DEF InScope, MatchesThread, Stream, InChannelScope, IsReaction, IsThreadReply,
                    InConversationThread

(* Whatever is offered under the key of a message is a copy of it.          *)
LEMMA GenuineKey ==
  ASSUME log \in Seq(Event), LogInv, NEW m \in Occurred, m.kind = "message",
         NEW e, Genuine(e), EventKey(e) = EventKey(m)
  PROVE  Copy(e, m)
<1>1. e.kind = "message" /\ e.ts = m.ts
  BY DEF EventKey
<1>2. PICK o \in Occurred : o.kind = "message" /\ Copy(e, o)
  BY <1>1 DEF Genuine, Undated, ReadBack, Copy
<1>3. o.ts = m.ts
  BY <1>1, <1>2, CopyIsMessage
<1>4. o = m
  BY <1>2, <1>3, OccurredAt, SameInstant
<1> QED BY <1>2, <1>4

(* Whatever is offered happened before the next instant.                    *)
LEMMA GenuineBefore ==
  ASSUME log \in Seq(Event), LogInv, NEW e \in Event, Genuine(e)
  PROVE  /\ Cursor(e) < Instant /\ Cursor(e) \in Nat
         /\ e.kind = "message" => e.ts \in Nat /\ e.ts < Instant
<1>1. CASE e \in Occurred
  BY <1>1, BeforeNow, OccurredAt DEF Instant
<1>2. CASE ReadBack(e)
  <2>1. PICK o \in Occurred : o.kind = "message" /\ Copy(e, o)
    BY <1>2 DEF ReadBack
  <2>2. Cursor(e) = o.ts /\ e.ts = o.ts /\ Cursor(o) = o.ts
    BY <2>1, CopyIsMessage, OccurredAt
  <2> QED BY <2>2, BeforeNow DEF Instant
<1>3. CASE Undated(e)
  <2>1. PICK o \in Occurred : o.kind = "message" /\ e.ts = o.ts
    BY <1>3 DEF Undated
  <2>2. Cursor(e) = o.ts + 1 /\ e.kind # "message"
    BY <1>3, <2>1 DEF Undated, Cursor, JustAfter
  <2>3. Cursor(o) = o.ts /\ Cursor(o) \in Nat /\ Cursor(o) + 1 < Instant
    BY <2>1, OccurredAt, BeforeNow
  <2> QED BY <2>2, <2>3
<1> QED BY <1>1, <1>2, <1>3 DEF Genuine

-----------------------------------------------------------------------------
(* The log only grows.                                                      *)
LEMMA LogStep ==
  ASSUME TypeOK, LogInv, [Next]_vars
  PROVE  \/ UNCHANGED log
         \/ \E e \in NextActivity :
              /\ Happens /\ log' = Append(log, e) /\ e \in Event
              /\ wire' = IF open THEN Append(wire, e) ELSE wire
              /\ Occurred' = Occurred \cup {e} /\ Instant' = Instant + 2
              /\ Len(log') = Len(log) + 1
              /\ Cursor(e) = Instant /\ (e.kind = "message" => e.ts = Instant)
<1>1. log \in Seq(Event) /\ Len(log) \in Nat
  BY TypeParts, LenProperties
<1>2. CASE Happens
  <2>1. PICK e \in NextActivity : log' = Append(log, e)
                                 /\ wire' = IF open THEN Append(wire, e) ELSE wire
    BY <1>2 DEF Happens
  <2>2. e \in Event /\ HappenedAt(e, Len(log) + 1)
    BY <1>1, NextActivityType, NextHappens
  <2>3. Cursor(e) = Instant /\ (e.kind = "message" => e.ts = Instant)
    BY <1>1, <2>2 DEF HappenedAt, Cursor, NoTS, Instant
  <2> QED BY <1>1, <1>2, <2>1, <2>2, <2>3, LogGrows
<1>3. CASE \E e \in batch : Replay(e)
  BY <1>3 DEF Replay
<1>4. CASE \E c \in todo : ReadChannel(c)
  BY <1>4 DEF ReadChannel
<1> QED BY <1>2, <1>3, <1>4, StepKinds
        DEF Drop, ConnectSucceeds, ReadThread, ReadDone, ConsumeFrame, RedialSucceeds, Quiet

(* What was read back stays so.                                             *)
LEMMA GenuineStays ==
  ASSUME TypeOK, LogInv, [Next]_vars
  PROVE  /\ Occurred \subseteq Occurred' /\ Instant <= Instant' /\ Len(log) <= Len(log')
         /\ \A x : ReadBack(x) => ReadBack(x)'
         /\ \A x : Undated(x) => Undated(x)'
<1>1. Occurred \subseteq Occurred' /\ Instant <= Instant' /\ Len(log) <= Len(log')
  <2>1. Instant \in Nat /\ Len(log) \in Nat
    BY TypeParts, LenProperties DEF Instant
  <2>2. UNCHANGED log => UNCHANGED <<Occurred, Instant>>
    BY DEF Occurred, Instant
  <2> QED BY <2>1, <2>2, LogStep
<1> QED BY <1>1 DEF ReadBack, Undated, Copy

(* The wire carries what happened, in order.                                *)
LEMMA WireNext == TypeOK /\ LogInv /\ WireInv /\ [Next]_vars => WireInv'
<1> SUFFICES ASSUME TypeOK, LogInv, WireInv, [Next]_vars PROVE WireInv'
  OBVIOUS
<1>1. /\ log \in Seq(Event) /\ wire \in Seq(Event)
      /\ Len(wire) \in Nat /\ DOMAIN wire = 1..Len(wire)
  BY TypeParts, LenProperties
<1>2. Occurred \subseteq Occurred'
  BY GenuineStays
<1>3. CASE UNCHANGED wire
  BY <1>2, <1>3 DEF WireInv
<1>4. CASE wire' = << >>
  <2>1. DOMAIN wire' = {}
    BY <1>4
  <2> QED BY <2>1 DEF WireInv
<1>5. CASE \E e \in Event : /\ wire' = Append(wire, e) /\ e \in Occurred'
                            /\ \A o \in Occurred : Cursor(o) < Cursor(e)
  <2>1. PICK e \in Event : /\ wire' = Append(wire, e) /\ e \in Occurred'
                           /\ \A o \in Occurred : Cursor(o) < Cursor(e)
    BY <1>5
  <2>2. /\ DOMAIN wire' = 1..(Len(wire) + 1)
        /\ \A i \in 1..Len(wire) : wire'[i] = wire[i]
        /\ wire'[Len(wire) + 1] = e
    BY <1>1, <2>1, AppendProperties, LenProperties
  <2> QED BY <1>1, <1>2, <2>1, <2>2 DEF WireInv
<1>6. CASE \E n \in 0..Len(wire) : wire' = SubSeq(wire, 1, n)
  <2>1. PICK n \in 0..Len(wire) : wire' = SubSeq(wire, 1, n)
    BY <1>6
  <2>2. /\ DOMAIN wire' \subseteq DOMAIN wire
        /\ \A i \in DOMAIN wire' : wire'[i] = wire[i]
    BY <1>1, <2>1, SubSeqProperties
  <2> QED BY <1>1, <1>2, <2>2 DEF WireInv
<1>7. CASE wire # << >> /\ wire' = Tail(wire)
  <2>1. /\ DOMAIN wire' = 1..(Len(wire) - 1)
        /\ \A i \in 1..(Len(wire) - 1) : wire'[i] = wire[i + 1]
    BY <1>1, <1>7, HeadTailProperties, LenProperties
  <2>2. \A i \in DOMAIN wire' : i + 1 \in DOMAIN wire /\ i \in Int
    BY <1>1, <2>1
  <2> QED BY <1>1, <1>2, <2>1, <2>2 DEF WireInv
<1>8. CASE Happens
  <2>1. PICK e \in NextActivity : /\ e \in Event /\ Cursor(e) = Instant /\ e \in Occurred'
                                  /\ wire' = IF open THEN Append(wire, e) ELSE wire
    BY <1>8, LogStep DEF Happens
  <2>2. \A o \in Occurred : Cursor(o) < Cursor(e)
    BY <1>1, <2>1, BeforeNow DEF Instant
  <2> QED BY <1>3, <1>5, <2>1, <2>2
<1>9. CASE \E e \in batch : Replay(e)
  BY <1>3, <1>9 DEF Replay
<1>10. CASE \E c \in todo : ReadChannel(c)
  BY <1>3, <1>10 DEF ReadChannel
<1> QED BY <1>10, <1>3, <1>4, <1>6, <1>7, <1>8, <1>9, StepKinds
        DEF Drop, ConnectSucceeds, ReadThread, ReadDone, ConsumeFrame, RedialSucceeds, Quiet

-----------------------------------------------------------------------------
(* What a channel read brings: root messages of the channel, or copies.     *)
LEMMA HistoryIsReadBack ==
  ASSUME log \in Seq(Event), LogInv, NEW c, NEW since, NEW x \in ChannelHistory(c, since)
  PROVE  x.ch = c /\ ReadBack(x)
<1>1. PICK m \in Messages(c) : x = Summary(m) /\ m.thread = NoTS
  BY DEF ChannelHistory
<1>2. m \in Occurred /\ m.kind = "message" /\ m.ch = c
  BY <1>1 DEF Messages
<1>3. Copy(x, m)
  BY <1>1 DEF Summary, Copy
<1> QED BY <1>2, <1>3, CopyIsMessage DEF ReadBack

(* Without a conversation the first read is the whole read.                 *)
LEMMA StreamRead ==
  ASSUME Stream, NEW c, NEW since
  PROVE  /\ FirstRead(c, since).roots = {}
         /\ FirstRead(c, since).messages = HistorySince(c, since).messages
         /\ FirstRead(c, since).missed = HistorySince(c, since).missed
BY DEF Stream, FirstRead

(* What caught-up messages become is genuine.                               *)
LEMMA CatchUpIsGenuine ==
  ASSUME log \in Seq(Event), LogInv, NEW messages, \A x \in messages : ReadBack(x),
         NEW since, NEW e \in CatchUpEvents(messages, since)
  PROVE  \/ e \in messages /\ ReadBack(e) /\ e.ts > since
         \/ Undated(e) /\ \E x \in messages : e.ch = x.ch /\ e.ts = x.ts
<1>1. CASE e \in {m \in messages : m.ts > since}
  BY <1>1
<1>2. CASE \E x \in messages : e \in CaughtUpReactions(x)
  <2>1. PICK x \in messages : e \in CaughtUpReactions(x)
    BY <1>2
  <2>2. PICK a \in ReactionsOn(x) :
          e = [a EXCEPT !.eventTS = NoTS, !.thread = x.thread, !.caughtUp = TRUE]
    BY <2>1 DEF CaughtUpReactions
  <2>3. a \in Event /\ a.kind = "reaction_added" /\ a.ch = x.ch /\ a.ts = x.ts
    BY <2>2, OccurredType DEF ReactionsOn
  <2>4. e.kind = "reaction_added" /\ e.ch = x.ch /\ e.ts = x.ts /\ e.caughtUp
    BY <2>2, <2>3 DEF Event
  <2>5. PICK m \in Occurred : m.kind = "message" /\ Copy(x, m)
    BY DEF ReadBack
  <2>6. e.ts = m.ts
    BY <2>4, <2>5, CopyIsMessage
  <2> QED BY <2>4, <2>5, <2>6 DEF Undated
<1> QED BY <1>1, <1>2 DEF CatchUpEvents

(* What was read and is to be offered was in the workspace.                 *)
LEMMA ReadNext == TypeOK /\ Stream /\ LogInv /\ ReadInv /\ [Next]_vars => ReadInv'
<1> SUFFICES ASSUME TypeOK, Stream, LogInv, ReadInv, [Next]_vars PROVE ReadInv'
  OBVIOUS
<1>1. log \in Seq(Event)
  BY TypeParts
<1>2. /\ \A x : ReadBack(x) => ReadBack(x)'
      /\ \A x : Undated(x) => Undated(x)'
  BY GenuineStays
<1>3. CASE UNCHANGED reading /\ batch' \subseteq batch
  BY <1>2, <1>3, Zenon DEF ReadInv
<1>4. CASE \E c \in todo : ReadChannel(c)
  <2>1. PICK c \in todo : ReadChannel(c)
    BY <1>4
  <2> DEFINE read == FirstRead(c, FillFrom(c))
  <2>2. reading' = [ch |-> c, messages |-> read.messages, roots |-> read.roots] /\ batch' = batch
    BY <2>1 DEF ReadChannel, BeginRead
  <2>3. read.roots = {} /\ read.messages \subseteq ChannelHistory(c, FillFrom(c))
    BY StreamRead DEF HistorySince, Newest
  <2> HIDE DEF read
  <2>4. \A x \in read.messages : x.ch = c /\ ReadBack(x)
    BY <1>1, <2>3, HistoryIsReadBack
  <2>5. reading'.roots = {} /\ reading'.ch = c /\ reading'.messages = read.messages
    BY <2>2, <2>3
  <2> QED BY <1>2, <2>2, <2>4, <2>5, Zenon DEF ReadInv
<1>5. CASE ReadDone
  <2>1. batch' = CatchUpEvents(reading.messages, FillFrom(reading.ch)) /\ reading' = NotReading
    BY <1>5 DEF ReadDone, FinishRead
  <2>2. \A e \in batch' : ReadBack(e) \/ Undated(e)
    BY <1>1, <2>1, CatchUpIsGenuine DEF ReadInv
  <2>3. reading'.roots = {} /\ reading'.messages = {}
    BY <2>1 DEF NotReading
  <2> QED BY <1>2, <2>2, <2>3, Zenon DEF ReadInv
<1>6. CASE \E e \in batch : Replay(e)
  BY <1>3, <1>6 DEF Replay, CatchUpFails
<1>7. CASE \E root \in reading.roots : ReadThread(root)
  BY <1>7 DEF ReadInv
<1> QED BY <1>3, <1>4, <1>5, <1>6, <1>7, StepKinds
        DEF Happens, Drop, ConnectSucceeds, ConsumeFrame, RedialSucceeds, Quiet, runVars

-----------------------------------------------------------------------------
(* A step tells nothing, or offers something genuine.                       *)
Offering ==
  \E e \in Event, fails \in BOOLEAN :
    /\ Genuine(e) /\ Offer(e, fails)
    /\ UNCHANGED <<log, attachedAt>> /\ gaps' \in {gaps, gaps + 1}
    /\ pc \in {"replay", "consume"} /\ pc' # "connect"
    /\ fails => gaps' = gaps + 1 \/ pc' \in Leaving
    /\ Stopped' /\ pc = "consume" => pc' \in Leaving

(* A step that tells nothing leaves what was told, and no exit is taken back. *)
NothingTold ==
  /\ UNCHANGED Told
  /\ attachedAt' \in {attachedAt, Len(log)}
  /\ pc' = "connect" => pc = "connect"
  /\ pc \in Leaving => pc' \in Leaving
  /\ gaps' >= gaps
  /\ Stopped' => Stopped \/ pc' \in Leaving

(* Every step of a run is one of the two.                                   *)
LEMMA Telling ==
  ASSUME TypeOK, WireInv, ReadInv, [Next]_vars
  PROVE  Offering \/ NothingTold
<1>1. SessionTypeOK /\ ControlTypeOK /\ wire \in Seq(Event) /\ gaps \in Nat
  BY TypeParts DEF ControlTypeOK
<1>2. ASSUME NEW e \in batch, Replay(e) PROVE Offering
  <2>1. PICK fails \in BOOLEAN : /\ Offer(e, fails)
                                 /\ fails => CatchUpFails
                                 /\ ~fails => gaps' = gaps /\ pc' \in {"fetch", "replay"}
    BY <1>2 DEF Replay
  <2>2. e \in Event /\ Genuine(e)
    BY <1>1 DEF ControlTypeOK, ReadInv, Genuine
  <2>3. UNCHANGED <<log, attachedAt>> /\ pc = "replay"
    BY <1>2 DEF Replay
  <2>4. fails => \/ gaps' = gaps + 1 /\ pc' = "fetch"
                 \/ gaps' = gaps /\ pc' = "return"
    BY <2>1 DEF CatchUpFails
  <2> QED BY <2>1, <2>2, <2>3, <2>4 DEF Offering, Leaving
<1>3. CASE ConsumeFrame
  <2>1. PICK fails \in BOOLEAN : /\ Offer(Head(wire), fails)
                                 /\ fails => pc' = "return"
                                 /\ ~fails => pc' = IF stoppedBy' # "" THEN "return" ELSE "consume"
    BY <1>3 DEF ConsumeFrame
  <2>2. Head(wire) \in Event /\ Genuine(Head(wire))
    <3>1. wire # << >>
      BY <1>3 DEF ConsumeFrame
    <3>2. Head(wire) \in Event
      BY <1>1, <3>1, HeadTailProperties
    <3>3. 1 \in DOMAIN wire
      <4>1. Len(wire) \in Nat \ {0} /\ DOMAIN wire = 1..Len(wire)
        BY <1>1, <3>1, LenProperties, EmptySeq
      <4> QED BY <4>1
    <3>4. Head(wire) = wire[1]
      BY <1>1, <3>1
    <3> QED BY <3>2, <3>3, <3>4 DEF WireInv, Genuine
  <2>3. UNCHANGED <<log, attachedAt, gaps>> /\ pc = "consume"
    BY <1>3 DEF ConsumeFrame
  <2> QED BY <2>1, <2>2, <2>3 DEF Offering, Leaving, Stopped
<1>4. CASE \E c \in todo : ReadChannel(c)
  <2>1. PICK c \in todo : ReadChannel(c)
    BY <1>4
  <2>2. gaps' = gaps + FirstRead(c, FillFrom(c)).missed /\ FirstRead(c, FillFrom(c)).missed \in Nat
    BY <2>1, TypeParts, FirstReadType DEF ReadChannel, BeginRead
  <2>3. UNCHANGED Told /\ UNCHANGED <<attachedAt, stoppedBy>> /\ pc' = "threads" /\ pc = "fetch"
    BY <2>1 DEF ReadChannel, Told, deliveryVars
  <2>4. gaps' >= gaps
    BY <1>1, <2>2
  <2>5. Stopped' => Stopped
    BY <2>3 DEF Stopped
  <2> QED BY <2>3, <2>4, <2>5 DEF NothingTold, Leaving
<1>5. CASE Happens \/ Drop \/ ConnectSucceeds \/ ReadDone \/ RedialSucceeds
  <2>1. UNCHANGED Told /\ UNCHANGED stoppedBy
    BY <1>5 DEF Happens, Drop, ConnectSucceeds, ReadDone, RedialSucceeds, Told, sessionVars,
                deliveryVars
  <2>2. /\ pc' \in {pc, "fetch", "replay"} /\ (pc \in Leaving => pc' = pc)
        /\ gaps' \in {gaps, gaps + 1} /\ attachedAt' \in {attachedAt, Len(log)}
    BY <1>5 DEF Happens, Drop, ConnectSucceeds, ReadDone, RedialSucceeds, sessionVars, runVars,
                Leaving
  <2>3. gaps' >= gaps
    BY <1>1, <2>2
  <2>4. Stopped' => Stopped
    BY <2>1 DEF Stopped
  <2> QED BY <2>1, <2>2, <2>3, <2>4 DEF NothingTold
<1>6. CASE Quiet
  <2>1. attachedAt' = attachedAt /\ UNCHANGED Told
    BY <1>6 DEF Quiet
  <2>2. pc' = "connect" => pc = "connect"
    BY <1>6 DEF Quiet, Leaving
  <2> QED BY <1>1, <1>6, <2>1, <2>2 DEF Quiet, NothingTold
<1>7. CASE \E root \in reading.roots : ReadThread(root)
  BY <1>7 DEF ReadInv
<1> QED BY <1>2, <1>3, <1>4, <1>5, <1>6, <1>7, StepKinds

-----------------------------------------------------------------------------
(* Positions stay before the next instant, and a resume point never passes  *)
(* the read position.                                                       *)
LEMMA MarksNext ==
  TypeOK /\ LogInv /\ WireInv /\ ReadInv /\ MarksInv /\ [Next]_vars => MarksInv'
<1> SUFFICES ASSUME TypeOK, LogInv, WireInv, ReadInv, MarksInv, [Next]_vars PROVE MarksInv'
  OBVIOUS
<1>1. /\ log \in Seq(Event) /\ SessionTypeOK /\ Instant \in Nat /\ Len(log) \in Nat
      /\ watermark \in [AllChannels -> Timestamps] /\ cursors \in [AllChannels -> Timestamps]
  <2>1. log \in Seq(Event) /\ SessionTypeOK
    BY TypeParts
  <2>2. Len(log) \in Nat
    BY <2>1, LenProperties
  <2>3. Instant \in Nat
    BY <2>2 DEF Instant
  <2>4. watermark \in [AllChannels -> Timestamps] /\ cursors \in [AllChannels -> Timestamps]
    BY <2>1 DEF SessionTypeOK
  <2> QED BY <2>1, <2>2, <2>3, <2>4
<1>2. /\ Instant <= Instant' /\ Len(log) <= Len(log') /\ Instant' \in Int /\ Len(log') \in Int
  <2>1. log' \in Seq(Event)
    BY TypeNext DEF TypeOK
  <2>2. Len(log') \in Nat
    BY <2>1, LenProperties
  <2> QED BY <2>2, GenuineStays DEF Instant
<1>4. CASE Offering
  <2>1. PICK e \in Event, fails \in BOOLEAN :
          /\ Genuine(e) /\ Offer(e, fails) /\ UNCHANGED <<log, attachedAt>> /\ pc' # "connect"
    BY <1>4 DEF Offering
  <2>2. Cursor(e) < Instant /\ Cursor(e) \in Nat /\ (e.kind = "message" => e.ts \in Nat /\ e.ts < Instant)
    BY <1>1, <2>1, GenuineBefore
  <2>3. Instant' = Instant /\ Len(log') = Len(log)
    BY <2>1 DEF Instant
  <2>4. ASSUME NEW c \in AllChannels
        PROVE  cursors'[c] <= watermark'[c] /\ watermark'[c] < Instant
    <3>1. /\ \/ watermark'[c] = watermark[c]
             \/ watermark'[c] = MaxTS(watermark[c], Cursor(e))
          /\ \/ cursors'[c] = cursors[c]
             \/ /\ cursors'[c] = MaxTS(cursors[c], Cursor(e))
                /\ watermark'[c] = MaxTS(watermark[c], Cursor(e))
      BY <1>1, <2>1, OfferEffect
    <3>2. cursors[c] <= watermark[c] /\ watermark[c] < Instant
      BY DEF MarksInv
    <3>3. cursors[c] \in Int /\ watermark[c] \in Int
      BY <1>1 DEF Timestamps, NoTS
    <3> QED BY <1>1, <2>2, <3>1, <3>2, <3>3 DEF MaxTS
  <2>5. ASSUME NEW k \in seen', k[1] = "message" PROVE k[3] \in Nat /\ k[3] < Instant
    <3>1. k \in seen \/ k = EventKey(e)
      BY <1>1, <2>1, OfferEffect
    <3> QED BY <2>2, <2>5, <3>1 DEF MarksInv, EventKey
  <2> QED BY <2>1, <2>3, <2>4, <2>5 DEF MarksInv
<1>5. CASE NothingTold
  <2>1. UNCHANGED <<seen, emitted, watermark, cursors>>
    BY <1>5 DEF NothingTold, Told
  <2>2. attachedAt' <= Len(log')
    BY <1>1, <1>2, <1>5, TypeParts DEF MarksInv, ControlTypeOK, NothingTold
  <2>3. ASSUME NEW c \in AllChannels PROVE cursors'[c] <= watermark'[c] /\ watermark'[c] < Instant'
    <3>1. cursors[c] \in Int /\ watermark[c] \in Int
      BY <1>1 DEF Timestamps, NoTS
    <3> QED BY <1>1, <1>2, <2>1, <3>1 DEF MarksInv
  <2>4. ASSUME NEW k \in seen', k[1] = "message" PROVE k[3] \in Nat /\ k[3] < Instant'
    BY <1>1, <1>2, <2>1, <2>4 DEF MarksInv
  <2> QED BY <1>5, <2>1, <2>2, <2>3, <2>4 DEF MarksInv, NothingTold
<1> QED BY <1>4, <1>5, Telling

(* What was examined was handed over, reported, or accounted for.           *)
LEMMA SeenNext ==
  TypeOK /\ Stream /\ LogInv /\ WireInv /\ ReadInv /\ MarksInv /\ SeenInv /\ [Next]_vars
    => SeenInv'
<1> SUFFICES ASSUME TypeOK, Stream, LogInv, WireInv, ReadInv, MarksInv, SeenInv, [Next]_vars,
                    NEW m \in Occurred', m.kind = "message", InScope(m), EventKey(m) \in seen'
             PROVE  \/ emitFailed'
                    \/ Matches(m) /\ EventKey(m) \in KeysOf(emitted')
                    \/ ~Narrows(m) /\ (truncated' \/ EventKey(m) \in KeysOf(reported'))
  BY DEF SeenInv, EventKey, KeysOf, InScope, Matches, Narrows
<1>1. log \in Seq(Event) /\ SessionTypeOK
  BY TypeParts
<1> DEFINE Settled == \/ emitFailed
                      \/ Matches(m) /\ EventKey(m) \in KeysOf(emitted)
                      \/ ~Narrows(m) /\ (truncated \/ EventKey(m) \in KeysOf(reported))
<1>2. m \in Occurred /\ EventKey(m) \in seen => Settled
  BY DEF SeenInv
<1>3. CASE NothingTold
  <2>1. UNCHANGED <<seen, emitted, reported, truncated, emitFailed>>
    BY <1>3 DEF NothingTold, Told
  <2>2. m \in Occurred
    <3>1. CASE UNCHANGED log
      BY <3>1 DEF Occurred
    <3>2. ASSUME m \notin Occurred PROVE FALSE
      <4>1. m.ts = Instant
        BY <3>1, <3>2, LogStep
      <4>2. EventKey(m)[1] = "message" /\ EventKey(m)[3] = Instant
        BY <4>1 DEF EventKey
      <4>3. EventKey(m) \in seen
        BY <2>1
      <4>4. EventKey(m)[3] < Instant /\ EventKey(m)[3] \in Nat
        BY <4>2, <4>3 DEF MarksInv
      <4> QED BY <4>2, <4>4
    <3> QED BY <3>2
  <2> QED BY <1>2, <2>1, <2>2
<1>4. CASE Offering
  <2>1. PICK e \in Event, fails \in BOOLEAN : Genuine(e) /\ Offer(e, fails) /\ UNCHANGED log
    BY <1>4 DEF Offering
  <2>2. m \in Occurred
    BY <2>1 DEF Occurred
  <2>3. /\ seen' = seen \cup {EventKey(e)}
        /\ KeysOf(emitted) \subseteq KeysOf(emitted') /\ KeysOf(reported) \subseteq KeysOf(reported')
        /\ truncated => truncated'
        /\ emitFailed => emitFailed'
        /\ e.kind = "message" /\ EventKey(e) \notin seen => Answered(e, fails)
    BY <1>1, <2>1, OfferEffect
  <2>4. CASE EventKey(m) \in seen
    <3>1. Settled
      BY <1>2, <2>2, <2>4
    <3> QED BY <2>3, <3>1, Zenon
  <2>5. CASE EventKey(m) \notin seen
    <3>1. EventKey(e) = EventKey(m)
      BY <2>3, <2>5
    <3>2. Copy(e, m)
      BY <1>1, <2>1, <2>2, <3>1, GenuineKey
    <3>3. e.kind = "message" /\ (Narrows(e) <=> Narrows(m)) /\ (InScope(e) <=> InScope(m))
      BY <1>1, <2>2, <3>2, CopyIsMessage, CopyInScope
    <3>4. Answered(e, fails)
      BY <2>3, <2>5, <3>1, <3>3
    <3> QED BY <3>1, <3>3, <3>4 DEF Answered, Matches
  <2> QED BY <2>4, <2>5
<1> QED BY <1>3, <1>4, Telling

(* A caller that could not take an event ends the run or leaves a gap.      *)
LEMMA FailNext == TypeOK /\ WireInv /\ ReadInv /\ FailInv /\ [Next]_vars => FailInv'
<1> SUFFICES ASSUME TypeOK, WireInv, ReadInv, FailInv, [Next]_vars, emitFailed'
             PROVE  gaps' > 0 \/ pc' \in Leaving
  BY DEF FailInv, Leaving
<1>1. SessionTypeOK /\ gaps \in Nat
  BY TypeParts DEF ControlTypeOK
<1>2. gaps' \in Nat
  BY TypeNext DEF TypeOK
<1>3. CASE NothingTold
  <2>1. emitFailed /\ gaps' >= gaps /\ (pc \in Leaving => pc' \in Leaving)
    BY <1>3 DEF NothingTold, Told
  <2> QED BY <1>1, <1>2, <2>1 DEF FailInv
<1>4. CASE Offering
  <2>1. PICK e \in Event, fails \in BOOLEAN :
          /\ Offer(e, fails) /\ gaps' \in {gaps, gaps + 1} /\ pc \in {"replay", "consume"}
          /\ fails => gaps' = gaps + 1 \/ pc' \in Leaving
    BY <1>4 DEF Offering
  <2>2. emitFailed \/ fails
    BY <1>1, <2>1, OfferEffect
  <2> QED BY <1>1, <2>1, <2>2 DEF FailInv, Leaving
<1> QED BY <1>3, <1>4, Telling

(* Without an event cap a run that has a reason to stop is on its way out.  *)
LEMMA StopNext == TypeOK /\ WireInv /\ ReadInv /\ StopInv /\ [Next]_vars => StopInv'
<1> SUFFICES ASSUME TypeOK, WireInv, ReadInv, StopInv, [Next]_vars, MaxEvents = 0, Stopped'
             PROVE  pc' \in Leaving
  BY DEF StopInv, Leaving
<1>1. SessionTypeOK
  BY TypeParts
<1>2. CASE NothingTold
  BY <1>2 DEF NothingTold, StopInv
<1>3. CASE Offering
  <2>1. PICK e \in Event, fails \in BOOLEAN : Offer(e, fails) /\ pc \in {"replay", "consume"}
    BY <1>3 DEF Offering
  <2>2. stoppedBy' = stoppedBy
    BY <1>1, <2>1, OfferEffect
  <2> QED BY <2>1, <2>2 DEF StopInv, Leaving, Stopped
<1> QED BY <1>2, <1>3, Telling

-----------------------------------------------------------------------------
(* The run has connected and is not on its way out.                         *)
Attached == pc # "connect" /\ pc \notin Leaving

(* The messages owed that were not examined yet.                            *)
Unseen == {m \in Owed : EventKey(m) \notin seen}

(* A read brought the message, in one form or another.                      *)
HasCopy(S, m) == \E x \in S : EventKey(x) = EventKey(m)

(* Where a message that was not examined yet will come from.                *)
Coming(m) ==
  \/ pc \in {"fetch", "threads", "replay"} /\ m.ch \in todo
  \/ pc = "threads" /\ HasCopy(reading.messages, m)
  \/ pc = "replay" /\ HasCopy(batch, m)
  \/ \E i \in DOMAIN wire : wire[i] = m
  \/ ~open /\ \A i \in DOMAIN wire : Cursor(wire[i]) < m.ts

(* What is examined before it does not lie past it.                         *)
InOrder(m) ==
  /\ pc = "threads" /\ m.ch = reading.ch =>
       HasCopy(reading.messages, m) \/ \A x \in reading.messages : x.ts < m.ts
  /\ pc = "replay" =>
       HasCopy(batch, m) \/ \A e \in batch : e.ch = m.ch => Cursor(e) < m.ts

(* Until a gap is counted, whatever was not examined yet is still to come.  *)
PlaceInv == gaps = 0 /\ ~Stopped /\ Attached => \A m \in Unseen : Coming(m) /\ InOrder(m)

(* No gap was counted, and the event cap did not stop the run.              *)
Unbroken == gaps = 0 /\ (MaxEvents = 0 \/ ~Stopped)

(* The read position lies before whatever was not examined yet,             *)
PosInv == Unbroken => \A m \in Unseen : m.ts > watermark[m.ch]

(* and before what the caller could not take.                               *)
FailSafe ==
  Unbroken /\ ~truncated /\ emitFailed =>
    \A m \in Owed : Handled(m) \/ m.ts > watermark[m.ch]

(* What holds of the log, the wire, the reads and the marks,                *)
GroundInv == /\ TypeOK /\ LogInv /\ WireInv /\ ReadInv /\ MarksInv
             /\ SeenInv /\ FailInv /\ StopInv

(* and the inductive invariant: where the unexamined is, and what lies before it. *)
LossInv == GroundInv /\ PlaceInv /\ PosInv /\ FailSafe

-----------------------------------------------------------------------------
(* What the run owes are messages in scope.                                 *)
LEMMA OwedAre ==
  ASSUME log \in Seq(Event), LogInv, NEW m \in Owed
  PROVE  /\ pc # "connect" /\ m \in Occurred /\ m \in Event /\ m.kind = "message"
         /\ Readable(m) /\ InScope(m) /\ Cursor(m) = m.ts /\ m.ts \in Nat
         /\ m.ch \in AllChannels /\ (Channels # {} => m.ch \in Channels)
         /\ Since # NoTS => m.ts > Since
<1>1. /\ pc # "connect" /\ m \in Occurred /\ m.kind = "message" /\ Readable(m) /\ InScope(m)
  BY DEF Owed, Occurred
<1>2. m \in Event /\ Cursor(m) = m.ts
  BY <1>1, OccurredAt
<1> QED BY <1>1, <1>2 DEF Event, InScope

(* A message owed was owed before the step, or was just posted.            *)
LEMMA OwedWas ==
  ASSUME GroundInv, [Next]_vars, pc # "connect", NEW m \in Owed'
  PROVE  m \in Owed \/ (Happens /\ m \notin Occurred /\ m.ts = Instant)
<1>1. log \in Seq(Event) /\ LogInv /\ WireInv /\ ReadInv /\ TypeOK /\ SessionTypeOK
      /\ attachedAt \in Nat /\ Len(log) \in Nat /\ DOMAIN log = 1..Len(log)
  BY TypeParts, LenProperties DEF GroundInv, ControlTypeOK
<1>2. attachedAt' = attachedAt
  <2>1. CASE \E e \in batch : Replay(e)
    BY <2>1 DEF Replay
  <2>2. CASE \E c \in todo : ReadChannel(c)
    BY <2>2 DEF ReadChannel
  <2> QED BY <2>1, <2>2, StepKinds
          DEF Happens, runVars, Drop, ConnectSucceeds, ReadThread, ReadDone, ConsumeFrame,
              RedialSucceeds, Quiet
<1>3. PICK j \in DOMAIN log' : /\ m = log'[j] /\ j > OwedFrom' /\ m.kind = "message"
                               /\ Readable(m)' /\ InScope(m)
  BY DEF Owed, InScope
<1>4. OwedFrom' = OwedFrom
  BY <1>2 DEF OwedFrom, TargetChannel
<1>5. Readable(m)
  BY <1>1, <1>3, GenuineStays DEF Readable
<1>6. CASE j \in DOMAIN log /\ log'[j] = log[j]
  BY <1>3, <1>4, <1>5, <1>6 DEF Owed
<1>7. CASE m \in Occurred
  <2>1. PICK i \in 1..Len(log) : m = log[i] /\ m.ts = 2 * i
    BY <1>1, <1>3, <1>7, OccurredAt
  <2>2. LogInv'
    BY <1>1, LogNext
  <2>3. m.ts = 2 * j
    BY <1>3, <2>2 DEF LogInv, HappenedAt
  <2>4. j \in Int
    <3>1. log' \in Seq(Event)
      BY <1>1, TypeNext DEF TypeOK
    <3>2. DOMAIN log' = 1..Len(log')
      BY <3>1, LenProperties
    <3> QED BY <1>3, <3>2
  <2>5. i = j
    BY <2>1, <2>3, <2>4
  <2> QED BY <1>1, <1>3, <1>6, <2>1, <2>5
<1>8. CASE m \notin Occurred
  <2>1. m \in Occurred'
    BY <1>3 DEF Occurred
  <2>2. ~UNCHANGED log
    BY <1>8, <2>1 DEF Occurred
  <2> QED BY <1>1, <1>3, <1>8, <2>1, <2>2, LogStep
<1> QED BY <1>7, <1>8

(* What was examined stays so.                                              *)
LEMMA SeenGrows ==
  ASSUME GroundInv, [Next]_vars
  PROVE  seen \subseteq seen'
<1>1. WireInv /\ ReadInv /\ TypeOK /\ SessionTypeOK
  BY TypeParts DEF GroundInv
<1>2. CASE Offering
  BY <1>1, <1>2, OfferEffect DEF Offering
<1>3. CASE NothingTold
  BY <1>3 DEF NothingTold, Told
<1> QED BY <1>1, <1>2, <1>3, Telling

(* A message not examined yet was so before the step, or was just posted.   *)
LEMMA UnseenWas ==
  ASSUME GroundInv, [Next]_vars, pc # "connect", NEW m \in Unseen'
  PROVE  m \in Unseen \/ (Happens /\ m \notin Occurred /\ m.ts = Instant)
<1>1. m \in Owed' /\ EventKey(m) \notin seen'
  BY DEF Unseen, EventKey
<1>2. EventKey(m) \notin seen
  BY <1>1, SeenGrows
<1> QED BY <1>1, <1>2, OwedWas DEF Unseen

-----------------------------------------------------------------------------
(* What a channel holds is finite.                                          *)
LEMMA HistoryIsFinite ==
  ASSUME log \in Seq(Event), NEW c, NEW since
  PROVE  IsFiniteSet(ChannelHistory(c, since))
<1>1. Len(log) \in Nat /\ DOMAIN log = 1..Len(log)
  BY LenProperties
<1> DEFINE f == [i \in 1..Len(log) |-> Summary(log[i])]
           T == {f[i] : i \in 1..Len(log)}
<1>2. f \in Surjection(1..Len(log), T)
  BY DEF Surjection
<1>3. IsFiniteSet(1..Len(log))
  BY <1>1, FS_Interval
<1>4. IsFiniteSet(T)
  BY <1>2, <1>3, FS_Surjection
<1>5. ChannelHistory(c, since) \subseteq T
  <2>1. ASSUME NEW x \in ChannelHistory(c, since) PROVE x \in T
    <3>1. PICK m \in Messages(c) : x = Summary(m)
      BY DEF ChannelHistory
    <3>2. PICK i \in 1..Len(log) : m = log[i]
      BY <1>1 DEF Messages, Occurred
    <3>3. f[i] = x
      BY <3>1, <3>2
    <3> QED BY <3>3
  <2> QED BY <2>1
<1> HIDE DEF T
<1> QED BY <1>4, <1>5, FS_Subset

(* A read that counted no gap brings every message of the channel from      *)
(* where it starts.                                                         *)
LEMMA ReadCovers ==
  ASSUME Stream, log \in Seq(Event), LogInv, NEW m \in Owed, NEW since \in Timestamps,
         since < m.ts, FirstRead(m.ch, since).missed = 0
  PROVE  HasCopy(FirstRead(m.ch, since).messages, m)
<1> DEFINE all == ChannelHistory(m.ch, since)
           x == Summary(m)
<1>1. /\ m \in Occurred /\ m \in Event /\ m.kind = "message" /\ Readable(m) /\ InScope(m)
      /\ m.ts \in Nat
  BY OwedAre
<1>2. m.thread = NoTS
  BY <1>1, InScopeIsRoot
<1>3. x \in all
  <2>1. m.ts >= since
    BY <1>1 DEF Timestamps, NoTS
  <2> QED BY <1>1, <1>2, <2>1 DEF ChannelHistory, Messages
<1>4. EventKey(x) = EventKey(m)
  BY <1>1 DEF Summary, EventKey, Event
<1>5. FirstRead(m.ch, since).messages = Newest(all, HistoryMax) /\ Cardinality(all) < HistoryMax
  <2>1. IsFiniteSet(all)
    BY HistoryIsFinite
  <2>2. Cardinality(all) \in Nat
    BY <2>1, FS_CardinalityType
  <2>3. (IF Cardinality(all) >= HistoryMax THEN 1 ELSE 0) = 0
    BY StreamRead DEF HistorySince
  <2>4. Cardinality(all) < HistoryMax
    BY <2>2, <2>3, WorkspaceAssumption
  <2> QED BY <2>4, StreamRead DEF HistorySince
<1>6. x \in Newest(all, HistoryMax)
  <2> DEFINE later == {o \in all : o.ts > x.ts}
  <2>1. IsFiniteSet(all) /\ later \in SUBSET all
    BY HistoryIsFinite
  <2> HIDE DEF later
  <2>2. IsFiniteSet(later) /\ Cardinality(later) <= Cardinality(all)
    BY <2>1, FS_Subset
  <2>3. Cardinality(later) \in Nat /\ Cardinality(all) \in Nat
    BY <2>1, <2>2, FS_CardinalityType
  <2>4. Cardinality(later) < HistoryMax
    BY <1>5, <2>2, <2>3, WorkspaceAssumption
  <2> QED BY <1>3, <2>4 DEF Newest, later
<1> QED BY <1>4, <1>5, <1>6 DEF HasCopy

-----------------------------------------------------------------------------
(* Where an unexamined message comes from, step by step.                    *)
Placed == \A m \in Unseen : Coming(m) /\ InOrder(m)

(* Nothing that was offered is past what was just posted.                   *)
LEMMA JustPosted ==
  ASSUME GroundInv, NEW m, m.ts = Instant
  PROVE  /\ \A i \in DOMAIN wire : Cursor(wire[i]) < m.ts
         /\ \A x \in reading.messages : x.ts < m.ts
         /\ \A e \in batch : Cursor(e) < m.ts
<1>1. /\ log \in Seq(Event) /\ LogInv /\ WireInv /\ ReadInv
      /\ wire \in Seq(Event) /\ batch \subseteq Event /\ reading.messages \subseteq Event
  BY TypeParts DEF GroundInv, ControlTypeOK, ReadingType
<1>2. \A i \in DOMAIN wire : Cursor(wire[i]) < m.ts
  <2>1. ASSUME NEW i \in DOMAIN wire PROVE Cursor(wire[i]) < m.ts
    <3>1. wire[i] \in Occurred
      BY <1>1 DEF WireInv
    <3>2. wire[i] \in Event
      BY <1>1, <3>1, OccurredAt
    <3> QED BY <1>1, <3>1, <3>2, GenuineBefore DEF Genuine
  <2> QED BY <2>1
<1>3. \A x \in reading.messages : x.ts < m.ts
  <2>1. ASSUME NEW x \in reading.messages PROVE x.ts < m.ts
    <3>1. x \in Event /\ Genuine(x)
      BY <1>1 DEF ReadInv, Genuine
    <3>2. x.kind = "message"
      BY <1>1, CopyIsMessage DEF ReadInv, ReadBack
    <3> QED BY <1>1, <3>1, <3>2, GenuineBefore
  <2> QED BY <2>1
<1>4. \A e \in batch : Cursor(e) < m.ts
  BY <1>1, GenuineBefore DEF ReadInv, Genuine
<1> QED BY <1>2, <1>3, <1>4

(* A step that only grows the log.                                          *)
LEMMA PlaceHappens ==
  ASSUME GroundInv, Attached, Placed, [Next]_vars, Happens
  PROVE  Placed'
<1> SUFFICES ASSUME NEW m \in Unseen' PROVE Coming(m)' /\ InOrder(m)'
  BY DEF Placed
<1>1. UNCHANGED <<pc, todo, reading, batch, open>>
  BY DEF Happens, runVars
<1>2. /\ wire \in Seq(Event) /\ TypeOK /\ LogInv
      /\ DOMAIN wire = 1..Len(wire) /\ Len(wire) \in Nat
  BY TypeParts, LenProperties DEF GroundInv
<1>3. PICK e \in Event : /\ wire' = IF open THEN Append(wire, e) ELSE wire
                         /\ Occurred' = Occurred \cup {e}
  <2>1. log' # log
    <3>1. Len(log) \in Nat /\ \E e \in NextActivity : log' = Append(log, e) /\ e \in Event
      BY <1>2, TypeParts, LenProperties, NextActivityType DEF Happens
    <3> QED BY <3>1, <1>2, TypeParts, LogGrows
  <2> QED BY <1>2, <2>1, LogStep
<1>4. /\ open => /\ DOMAIN wire' = 1..(Len(wire) + 1)
                 /\ \A i \in 1..Len(wire) : wire'[i] = wire[i]
                 /\ wire'[Len(wire) + 1] = e
      /\ ~open => wire' = wire
  <2>1. Append(wire, e) \in Seq(Event) /\ Len(Append(wire, e)) = Len(wire) + 1
        /\ \A i \in 1..Len(wire) : Append(wire, e)[i] = wire[i]
        /\ Append(wire, e)[Len(wire) + 1] = e
    BY <1>2, AppendProperties
  <2>2. DOMAIN Append(wire, e) = 1..(Len(wire) + 1)
    BY <2>1, LenProperties
  <2> QED BY <1>3, <2>1, <2>2
<1>5. CASE m \in Unseen
  <2>1. Coming(m) /\ InOrder(m)
    BY <1>5 DEF Placed
  <2>2. InOrder(m)'
    BY <1>1, <2>1 DEF InOrder, HasCopy
  <2>3. Coming(m)'
    <3>1. CASE \E i \in DOMAIN wire : wire[i] = m
      <4>1. \E i \in DOMAIN wire' : wire'[i] = m
        BY <1>2, <1>4, <3>1
      <4> QED BY <4>1 DEF Coming
    <3>2. CASE ~open /\ \A i \in DOMAIN wire : Cursor(wire[i]) < m.ts
      <4>1. ~open' /\ wire' = wire
        BY <1>1, <1>4, <3>2
      <4> QED BY <3>2, <4>1 DEF Coming
    <3> QED BY <1>1, <2>1, <3>1, <3>2 DEF Coming, HasCopy
  <2> QED BY <2>2, <2>3
<1>6. CASE m \notin Occurred /\ m.ts = Instant
  <2>1. /\ \A i \in DOMAIN wire : Cursor(wire[i]) < m.ts
        /\ \A x \in reading.messages : x.ts < m.ts
        /\ \A x \in batch : Cursor(x) < m.ts
    BY <1>6, JustPosted
  <2>2. InOrder(m)'
    BY <1>1, <2>1 DEF InOrder
  <2>3. m = e
    <3>1. m \in Occurred'
      BY DEF Unseen, Owed, Occurred
    <3> QED BY <1>3, <1>6, <3>1
  <2>4. CASE open
    <3>1. Len(wire) + 1 \in DOMAIN wire' /\ wire'[Len(wire) + 1] = m
      BY <1>2, <1>4, <2>3, <2>4
    <3> QED BY <2>2, <3>1 DEF Coming
  <2>5. CASE ~open
    <3>1. ~open' /\ wire' = wire
      BY <1>1, <1>4, <2>5
    <3> QED BY <2>1, <2>2, <3>1 DEF Coming
  <2> QED BY <2>2, <2>4, <2>5
<1> QED BY <1>5, <1>6, UnseenWas DEF Attached

(* A lost connection takes a suffix of the frames with it.                  *)
LEMMA PlaceDrop ==
  ASSUME GroundInv, Attached, Placed, [Next]_vars, Drop
  PROVE  Placed'
<1> SUFFICES ASSUME NEW m \in Unseen' PROVE Coming(m)' /\ InOrder(m)'
  BY DEF Placed
<1>1. UNCHANGED <<pc, todo, reading, batch, log>> /\ open /\ ~open'
  BY DEF Drop, runVars
<1>2. /\ wire \in Seq(Event) /\ TypeOK /\ LogInv /\ WireInv /\ log \in Seq(Event)
      /\ DOMAIN wire = 1..Len(wire) /\ Len(wire) \in Nat
  BY TypeParts, LenProperties DEF GroundInv
<1>3. m \in Unseen
  <2>1. Occurred' = Occurred
    BY <1>1 DEF Occurred
  <2>2. m \in Occurred'
    BY DEF Unseen, Owed, Occurred
  <2> QED BY <2>1, <2>2, UnseenWas DEF Attached
<1>4. Coming(m) /\ InOrder(m) /\ Cursor(m) = m.ts
  BY <1>2, <1>3, OwedAre DEF Placed, Unseen
<1>5. InOrder(m)'
  BY <1>1, <1>4 DEF InOrder, HasCopy
<1>6. PICK n \in 0..Len(wire) : wire' = SubSeq(wire, 1, n)
  BY DEF Drop
<1>7. DOMAIN wire' = 1..n /\ \A i \in 1..n : wire'[i] = wire[i]
  BY <1>2, <1>6, SubSeqProperties
<1>8. CASE \E i \in DOMAIN wire : wire[i] = m
  <2>1. PICK i \in DOMAIN wire : wire[i] = m
    BY <1>8
  <2>2. CASE i \in 1..n
    <3>1. \E k \in DOMAIN wire' : wire'[k] = m
      BY <1>7, <2>1, <2>2
    <3> QED BY <1>5, <3>1 DEF Coming
  <2>3. CASE i \notin 1..n
    <3>1. \A k \in DOMAIN wire' : k \in DOMAIN wire /\ k < i /\ wire'[k] = wire[k]
      BY <1>2, <1>7, <2>1, <2>3
    <3>2. \A k \in DOMAIN wire' : Cursor(wire'[k]) < m.ts
      BY <1>2, <1>4, <2>1, <3>1 DEF WireInv
    <3> QED BY <1>1, <1>5, <3>2 DEF Coming
  <2> QED BY <2>2, <2>3
<1> QED BY <1>1, <1>4, <1>5, <1>8 DEF Coming, HasCopy

-----------------------------------------------------------------------------
(* While nothing is posted, what is unexamined was so before.               *)
LEMMA StillUnseen ==
  ASSUME GroundInv, [Next]_vars, UNCHANGED log, pc # "connect", NEW m \in Unseen'
  PROVE  /\ m \in Unseen /\ m \in Occurred /\ m \in Event /\ m.kind = "message"
         /\ InScope(m) /\ Cursor(m) = m.ts /\ m.ts \in Nat
         /\ m.ch \in AllChannels /\ (Channels # {} => m.ch \in Channels)
         /\ Since # NoTS => m.ts > Since
         /\ EventKey(m) \notin seen'
<1>1. log \in Seq(Event) /\ LogInv
  BY TypeParts DEF GroundInv
<1>2. m \in Occurred
  <2>1. m \in Occurred'
    BY DEF Unseen, Owed, Occurred
  <2> QED BY <2>1 DEF Occurred
<1>3. m \in Unseen /\ EventKey(m) \notin seen'
  BY <1>2, UnseenWas DEF Unseen, EventKey
<1>4. m \in Owed
  BY <1>3 DEF Unseen
<1> QED BY <1>1, <1>3, <1>4, OwedAre

(* A catch-up starts before whatever it is to bring.                        *)
Ahead == \A m \in Unseen : m.ts > watermark[m.ch]

(* So it starts before a message that lies past the read position.          *)
LEMMA FillIsBefore ==
  ASSUME TypeOK, NEW m \in Event, m.ts > watermark[m.ch], Since # NoTS => m.ts > Since
  PROVE  FillFrom(m.ch) \in Timestamps /\ FillFrom(m.ch) < m.ts
<1>1. watermark[m.ch] \in Timestamps /\ m.ts \in Nat
  BY DEF TypeOK, Event
<1>2. Since \in Timestamps
  BY FilterAssumption
<1> QED BY <1>1, <1>2 DEF FillFrom, MaxTS, Timestamps, NoTS

(* A channel read brings what is unexamined in the channel.                 *)
LEMMA PlaceReadChannel ==
  ASSUME GroundInv, Stream, Placed, Ahead, [Next]_vars, NEW c \in todo, ReadChannel(c),
         gaps = 0, gaps' = 0
  PROVE  Placed'
<1> SUFFICES ASSUME NEW m \in Unseen' PROVE Coming(m)' /\ InOrder(m)'
  BY DEF Placed
<1>1. /\ UNCHANGED <<log, batch, open, wire>> /\ pc = "fetch" /\ pc' = "threads"
      /\ todo' = todo \ {c}
  BY DEF ReadChannel
<1> DEFINE read == FirstRead(c, FillFrom(c))
<1>2. gaps' = gaps + read.missed /\ reading'.messages = read.messages /\ reading'.ch = c
  BY DEF ReadChannel, BeginRead
<1>3. TypeOK /\ log \in Seq(Event) /\ LogInv
  BY TypeParts DEF GroundInv
<1>4. /\ m \in Unseen /\ m \in Event /\ m \in Owed
      /\ Since # NoTS => m.ts > Since
  BY <1>1, StillUnseen DEF Unseen
<1>5. Coming(m) /\ m.ts > watermark[m.ch]
  BY <1>4 DEF Placed, Ahead
<1>6. CASE m.ch = c
  <2>1. FillFrom(m.ch) \in Timestamps /\ FillFrom(m.ch) < m.ts
    BY <1>3, <1>4, <1>5, FillIsBefore
  <2>2. FirstRead(m.ch, FillFrom(m.ch)).missed \in Nat
    BY <1>3, FirstReadType
  <2>3. FirstRead(m.ch, FillFrom(m.ch)).missed = 0
    BY <1>2, <1>6, <2>2
  <2>4. HasCopy(FirstRead(m.ch, FillFrom(m.ch)).messages, m)
    BY <1>3, <1>4, <2>1, <2>3, ReadCovers
  <2>5. HasCopy(reading'.messages, m)
    BY <1>2, <1>6, <2>4
  <2> QED BY <1>1, <2>5 DEF Coming, InOrder, HasCopy, EventKey
<1>7. CASE m.ch # c
  <2>1. InOrder(m)'
    BY <1>1, <1>2, <1>7 DEF InOrder
  <2>2. Coming(m)'
    BY <1>1, <1>5, <1>7 DEF Coming
  <2> QED BY <2>1, <2>2
<1> QED BY <1>6, <1>7

(* What was read and is unexamined is in the batch.                         *)
LEMMA PlaceReadDone ==
  ASSUME GroundInv, Stream, Placed, Ahead, [Next]_vars, ReadDone
  PROVE  Placed'
<1> SUFFICES ASSUME NEW m \in Unseen' PROVE Coming(m)' /\ InOrder(m)'
  BY DEF Placed
<1> DEFINE from == FillFrom(reading.ch)
<1>1. /\ UNCHANGED <<log, open, wire, todo>> /\ pc = "threads"
      /\ batch' = CatchUpEvents(reading.messages, from)
      /\ pc' = IF batch' = {} THEN "fetch" ELSE "replay"
  BY DEF ReadDone, FinishRead
<1>2. TypeOK /\ log \in Seq(Event) /\ LogInv /\ ReadInv
  BY TypeParts DEF GroundInv
<1>3. /\ m \in Unseen /\ m \in Event /\ m \in Occurred /\ m.kind = "message"
      /\ Since # NoTS => m.ts > Since
      /\ Cursor(m) = m.ts /\ m.ts \in Nat
  BY <1>1, StillUnseen
<1>4. Coming(m) /\ InOrder(m) /\ m.ts > watermark[m.ch]
  BY <1>3 DEF Placed, Ahead
<1>5. ASSUME NEW x \in reading.messages, EventKey(x) = EventKey(m)
      PROVE  x \in batch' /\ pc' = "replay"
  <2>1. Genuine(x) /\ x.ch = reading.ch
    BY <1>2 DEF ReadInv, Genuine
  <2>2. Copy(x, m)
    BY <1>2, <1>3, <1>5, <2>1, GenuineKey
  <2>3. x.ch = m.ch /\ x.ts = m.ts
    BY <1>2, <1>3, <2>2, CopyIsMessage
  <2>4. from < x.ts /\ from \in Timestamps
    BY <1>2, <1>3, <1>4, <2>1, <2>3, FillIsBefore
  <2>5. x \in CatchUpEvents(reading.messages, from)
    BY <1>3, <2>3, <2>4 DEF CatchUpEvents, Timestamps, NoTS
  <2> QED BY <1>1, <2>5
<1>6. CASE HasCopy(reading.messages, m)
  <2>1. pc' = "replay" /\ \E x \in batch' : EventKey(x) = EventKey(m)
    BY <1>5, <1>6 DEF HasCopy
  <2> QED BY <2>1 DEF Coming, InOrder, HasCopy, EventKey
<1>7. CASE ~HasCopy(reading.messages, m)
  <2>1. Coming(m)'
    BY <1>1, <1>4, <1>7 DEF Coming
  <2>2. ASSUME NEW e \in batch', e.ch = m.ch PROVE Cursor(e) < m.ts
    <3>1. PICK x \in reading.messages :
            /\ e.ch = x.ch /\ e.ts = x.ts
            /\ e = x \/ Undated(e)
      BY <1>1, <1>2, CatchUpIsGenuine DEF ReadInv
    <3>2. x.ch = reading.ch /\ ReadBack(x)
      BY <1>2 DEF ReadInv
    <3>3. x.ts < m.ts
      BY <1>1, <1>4, <1>7, <2>2, <3>1, <3>2 DEF InOrder
    <3>4. PICK o \in Occurred : o.kind = "message" /\ Copy(x, o)
      BY <3>2 DEF ReadBack
    <3>5. Cursor(x) = x.ts /\ x.ts = o.ts /\ Cursor(o) = o.ts
      BY <1>2, <3>4, CopyIsMessage, OccurredAt
    <3>6. o.ts + 1 < m.ts
      BY <1>2, <1>3, <3>3, <3>5, JustAfterIsBetween
    <3>7. Undated(e) => Cursor(e) = e.ts + 1
      BY DEF Undated, Cursor, JustAfter
    <3>8. e = x => Cursor(e) = x.ts
      BY <3>5
    <3> QED BY <3>1, <3>3, <3>5, <3>6, <3>7, <3>8
  <2>3. InOrder(m)'
    BY <1>1, <2>2 DEF InOrder
  <2> QED BY <2>1, <2>3
<1> QED BY <1>6, <1>7

-----------------------------------------------------------------------------
(* Offering an event that lies before what is unexamined keeps it so.       *)
LEMMA AheadOffer ==
  ASSUME GroundInv, Ahead, [Next]_vars, UNCHANGED log, pc # "connect",
         NEW e \in Event, NEW fails \in BOOLEAN, Offer(e, fails),
         \A m \in Unseen' : m.ch = e.ch => Cursor(e) < m.ts
  PROVE  Ahead'
<1> SUFFICES ASSUME NEW m \in Unseen' PROVE m.ts > watermark'[m.ch]
  BY DEF Ahead
<1>1. SessionTypeOK
  BY TypeParts DEF GroundInv
<1>2. m \in Unseen /\ m.ch \in AllChannels
  BY StillUnseen
<1>3. \/ watermark'[m.ch] = watermark[m.ch]
      \/ m.ch = e.ch /\ watermark'[m.ch] = MaxTS(watermark[m.ch], Cursor(e))
  BY <1>1, <1>2, OfferEffect
<1> QED BY <1>2, <1>3 DEF Ahead, MaxTS

(* Replaying the earliest event of a batch passes nothing unexamined.       *)
LEMMA ReplayPassesNothing ==
  ASSUME GroundInv, Placed, [Next]_vars, NEW e \in batch, Replay(e),
         NEW m \in Unseen'
  PROVE  /\ m.ch = e.ch => Cursor(e) < m.ts
         /\ EventKey(m) # EventKey(e) /\ m \in Unseen
<1>1. TypeOK /\ log \in Seq(Event) /\ LogInv /\ ReadInv /\ SessionTypeOK /\ e \in Event
  BY TypeParts DEF GroundInv, ControlTypeOK
<1>2. UNCHANGED log /\ pc = "replay" /\ Earliest(e) /\ \E fails \in BOOLEAN : Offer(e, fails)
  BY DEF Replay
<1>3. /\ m \in Unseen /\ m \in Event /\ m \in Occurred /\ m.kind = "message"
      /\ Cursor(m) = m.ts /\ m.ts \in Nat /\ EventKey(m) \notin seen'
  BY <1>2, StillUnseen
<1>4. EventKey(m) # EventKey(e)
  BY <1>1, <1>2, <1>3, OfferEffect
<1>5. CASE HasCopy(batch, m)
  <2>1. PICK x \in batch : EventKey(x) = EventKey(m)
    BY <1>5 DEF HasCopy
  <2>2. Copy(x, m)
    BY <1>1, <1>3, <2>1, GenuineKey DEF ReadInv, Genuine
  <2>3. Cursor(x) = m.ts
    BY <1>1, <1>3, <2>2, CopyIsMessage
  <2>4. Cursor(e) <= m.ts
    BY <1>2, <2>1, <2>3 DEF Earliest
  <2>5. Cursor(e) # m.ts \/ m.ch # e.ch
    <3>1. CASE ReadBack(e)
      <4>1. PICK o \in Occurred : o.kind = "message" /\ Copy(e, o)
        BY <3>1 DEF ReadBack
      <4>2. Cursor(e) = o.ts /\ EventKey(e) = EventKey(o) /\ Cursor(o) = o.ts
        BY <1>1, <4>1, CopyIsMessage, OccurredAt
      <4>3. Cursor(o) = Cursor(m) => o = m
        BY <1>1, <1>3, <4>1, SameInstant
      <4> QED BY <1>3, <1>4, <4>2, <4>3
    <3>2. CASE Undated(e)
      <4>1. PICK o \in Occurred : o.kind = "message" /\ e.ts = o.ts
        BY <3>2 DEF Undated
      <4>2. Cursor(e) = o.ts + 1 /\ Cursor(o) = o.ts /\ o.ts \in Nat
        BY <1>1, <3>2, <4>1, OccurredAt DEF Undated, Cursor, JustAfter, Event
      <4>3. \/ o.ts < m.ts /\ o.ts + 1 < m.ts
            \/ o.ts >= m.ts
        BY <1>1, <1>3, <4>1, <4>2, JustAfterIsBetween
      <4> QED BY <1>3, <4>2, <4>3
    <3> QED BY <1>1, <3>1, <3>2 DEF ReadInv
  <2>6. Cursor(e) \in Int
    BY <1>1 DEF Cursor, JustAfter, Event, Timestamps, NoTS
  <2> QED BY <1>3, <1>4, <2>4, <2>5, <2>6
<1>6. CASE ~HasCopy(batch, m)
  BY <1>2, <1>3, <1>4, <1>6 DEF Placed, InOrder
<1> QED BY <1>5, <1>6

(* What stays in the batch is still to come.                                *)
LEMMA PlaceReplay ==
  ASSUME GroundInv, Placed, [Next]_vars, NEW e \in batch, Replay(e),
         gaps = 0, gaps' = 0, ~Stopped', Attached'
  PROVE  Placed'
<1> SUFFICES ASSUME NEW m \in Unseen' PROVE Coming(m)' /\ InOrder(m)'
  BY DEF Placed
<1>1. UNCHANGED <<log, open, wire, todo, reading>> /\ pc = "replay"
  BY DEF Replay
<1>2. batch' = batch \ {e} /\ pc' = IF batch' = {} THEN "fetch" ELSE "replay"
  <2>1. ~CatchUpFails
    BY DEF CatchUpFails, Attached, Leaving
  <2> QED BY <2>1 DEF Replay, Stopped
<1>3. EventKey(m) # EventKey(e) /\ m \in Unseen
  BY ReplayPassesNothing
<1>4. Coming(m) /\ InOrder(m)
  BY <1>3 DEF Placed
<1>5. HasCopy(batch, m) => HasCopy(batch', m) /\ pc' = "replay"
  BY <1>2, <1>3 DEF HasCopy
<1>6. InOrder(m)'
  BY <1>1, <1>2, <1>4, <1>5 DEF InOrder, HasCopy, EventKey
<1>7. Coming(m)'
  BY <1>1, <1>2, <1>4, <1>5 DEF Coming, HasCopy, EventKey
<1> QED BY <1>6, <1>7

(* Nor does consuming the next frame.                                       *)
LEMMA ConsumePassesNothing ==
  ASSUME GroundInv, Placed, [Next]_vars, ConsumeFrame, NEW m \in Unseen'
  PROVE  /\ Cursor(Head(wire)) < m.ts
         /\ Coming(m)' /\ InOrder(m)'
<1>1. /\ TypeOK /\ log \in Seq(Event) /\ LogInv /\ WireInv /\ SessionTypeOK
      /\ wire \in Seq(Event) /\ wire # << >> /\ wire' = Tail(wire)
      /\ UNCHANGED <<log, open>> /\ pc = "consume" /\ pc' \in {"return", "consume"}
  BY TypeParts DEF GroundInv, ConsumeFrame
<1>2. /\ Head(wire) \in Event /\ Head(wire) = wire[1]
      /\ Len(wire) \in Nat \ {0} /\ DOMAIN wire = 1..Len(wire)
      /\ DOMAIN wire' = 1..(Len(wire) - 1)
      /\ \A i \in 1..(Len(wire) - 1) : wire'[i] = wire[i + 1]
  <2>1. Head(wire) \in Event /\ Tail(wire) \in Seq(Event) /\ Len(Tail(wire)) = Len(wire) - 1
        /\ \A i \in 1..Len(Tail(wire)) : Tail(wire)[i] = wire[i + 1]
    BY <1>1, HeadTailProperties
  <2>2. Len(wire) \in Nat \ {0} /\ DOMAIN wire = 1..Len(wire)
    BY <1>1, LenProperties, EmptySeq
  <2>3. DOMAIN Tail(wire) = 1..(Len(wire) - 1)
    BY <2>1, LenProperties
  <2>4. Head(wire) = wire[1]
    BY <1>1
  <2> QED BY <1>1, <2>1, <2>2, <2>3, <2>4
<1>3. /\ m \in Unseen /\ EventKey(m) \notin seen' /\ Cursor(m) = m.ts /\ m.ts \in Nat
  BY <1>1, StillUnseen
<1>4. EventKey(m) # EventKey(Head(wire))
  <2>1. \E fails \in BOOLEAN : Offer(Head(wire), fails)
    BY DEF ConsumeFrame
  <2> QED BY <1>1, <1>2, <1>3, <2>1, OfferEffect
<1>5. Coming(m)
  BY <1>3 DEF Placed
<1>6. \/ \E i \in DOMAIN wire : wire[i] = m
      \/ ~open /\ \A i \in DOMAIN wire : Cursor(wire[i]) < m.ts
  BY <1>1, <1>5 DEF Coming
<1>7. CASE \E i \in DOMAIN wire : wire[i] = m
  <2>1. PICK i \in DOMAIN wire : wire[i] = m
    BY <1>7
  <2>2. i \in 2..Len(wire) /\ 1 \in DOMAIN wire
    BY <1>2, <1>4, <2>1
  <2>3. Cursor(wire[1]) < Cursor(wire[i])
    BY <1>1, <1>2, <2>2 DEF WireInv
  <2>4. i - 1 \in DOMAIN wire' /\ wire'[i - 1] = m
    BY <1>2, <2>1, <2>2
  <2>5. Coming(m)'
    BY <2>4 DEF Coming
  <2>6. InOrder(m)'
    BY <1>1 DEF InOrder
  <2> QED BY <1>2, <1>3, <2>1, <2>3, <2>5, <2>6
<1>8. CASE ~open /\ \A i \in DOMAIN wire : Cursor(wire[i]) < m.ts
  <2>1. 1 \in DOMAIN wire /\ \A i \in DOMAIN wire' : i + 1 \in DOMAIN wire /\ wire'[i] = wire[i + 1]
    BY <1>2
  <2>2. \A i \in DOMAIN wire' : Cursor(wire'[i]) < m.ts
    BY <1>8, <2>1
  <2>3. ~open'
    BY <1>1, <1>8
  <2> QED BY <1>1, <1>2, <1>8, <2>1, <2>2, <2>3 DEF Coming, InOrder
<1> QED BY <1>6, <1>7, <1>8

-----------------------------------------------------------------------------
(* Attaching owes what the backfill is to read, or nothing yet.             *)
LEMMA PlaceConnect ==
  ASSUME GroundInv, [Next]_vars, ConnectSucceeds
  PROVE  Placed'
<1> SUFFICES ASSUME NEW m \in Unseen' PROVE Coming(m)' /\ InOrder(m)'
  BY DEF Placed
<1>1. /\ UNCHANGED log /\ pc' = "fetch" /\ attachedAt' = Len(log)
      /\ todo' = IF TargetChannel = None \/ Since = NoTS THEN {} ELSE {TargetChannel}
  BY DEF ConnectSucceeds
<1>2. log \in Seq(Event) /\ Len(log) \in Nat /\ DOMAIN log = 1..Len(log)
  BY TypeParts, LenProperties DEF GroundInv
<1>3. PICK j \in DOMAIN log' : m = log'[j] /\ j > OwedFrom' /\ InScope(m)
  BY DEF Unseen, Owed, InScope
<1>4. InOrder(m)'
  BY <1>1 DEF InOrder
<1>5. TargetChannel # None /\ Since # NoTS
  <2>1. ASSUME TargetChannel = None \/ Since = NoTS PROVE FALSE
    <3>1. OwedFrom' = Len(log)
      BY <1>1, <2>1 DEF OwedFrom, TargetChannel
    <3> QED BY <1>1, <1>2, <1>3, <3>1
  <2> QED BY <2>1
<1>6. Channels = {TargetChannel}
  <2>1. Cardinality(Channels) = 1 /\ TargetChannel = CHOOSE c \in Channels : TRUE
    BY <1>5 DEF TargetChannel
  <2>2. PICK c : Channels = {c}
    BY <2>1, FS_Singleton, FilterAssumption
  <2> QED BY <2>1, <2>2
<1>7. m.ch \in todo'
  BY <1>1, <1>3, <1>5, <1>6 DEF InScope
<1> QED BY <1>1, <1>4, <1>7 DEF Coming

(* A redialled run reads its channels again.                                *)
LEMMA PlaceRedial ==
  ASSUME GroundInv, [Next]_vars, RedialSucceeds, gaps = 0, gaps' = 0
  PROVE  Placed'
<1> SUFFICES ASSUME NEW m \in Unseen' PROVE Coming(m)' /\ InOrder(m)'
  BY DEF Placed
<1>1. UNCHANGED log /\ pc = "redial" /\ pc' = "fetch" /\ todo' = Channels /\ Channels # {}
  BY DEF RedialSucceeds
<1>2. m.ch \in todo'
  BY <1>1, StillUnseen
<1> QED BY <1>1, <1>2 DEF Coming, InOrder

(* A step that tells nothing and reads nothing.                             *)
LEMMA PlaceQuiet ==
  ASSUME GroundInv, Attached, Placed, [Next]_vars, Quiet, gaps = 0, gaps' = 0, Attached'
  PROVE  Placed'
<1> SUFFICES ASSUME NEW m \in Unseen' PROVE Coming(m)' /\ InOrder(m)'
  BY DEF Placed
<1>1. UNCHANGED <<log, wire, reading, open>> /\ batch' \subseteq batch
  BY DEF Quiet, Attached
<1>2. m \in Unseen
  BY <1>1, StillUnseen DEF Attached
<1>3. Coming(m) /\ InOrder(m)
  BY <1>2 DEF Placed
<1>4. \/ UNCHANGED <<pc, todo, batch>>
      \/ pc = "fetch" /\ todo = {} /\ pc' = "consume"
      \/ {pc, pc'} \subseteq {"consume", "backoff", "redial"}
  BY DEF Quiet, Attached
<1>5. CASE UNCHANGED <<pc, todo, batch>>
  BY <1>1, <1>3, <1>5 DEF Coming, InOrder, HasCopy
<1>6. CASE pc = "fetch" /\ todo = {} /\ pc' = "consume"
  BY <1>1, <1>3, <1>6 DEF Coming, InOrder
<1>7. CASE {pc, pc'} \subseteq {"consume", "backoff", "redial"}
  <2>1. pc \in {"consume", "backoff", "redial"} /\ pc' \in {"consume", "backoff", "redial"}
    BY <1>7
  <2> QED BY <1>1, <1>3, <2>1 DEF Coming, InOrder
<1> QED BY <1>4, <1>5, <1>6, <1>7

(* Gaps are never taken back, nor is a reason to stop.                      *)
LEMMA NeverTakenBack ==
  ASSUME GroundInv, [Next]_vars
  PROVE  gaps \in Nat /\ gaps' >= gaps /\ (Stopped => Stopped')
<1>1. SessionTypeOK /\ gaps \in Nat /\ WireInv /\ ReadInv /\ TypeOK
  BY TypeParts DEF GroundInv, ControlTypeOK
<1>2. gaps' >= gaps
  BY <1>1, Telling DEF Offering, NothingTold
<1>3. Stopped => Stopped'
  <2>1. CASE Offering
    BY <1>1, <2>1, OfferEffect DEF Offering
  <2>2. CASE ~Offering
    <3>1. CASE \E c \in todo : ReadChannel(c)
      BY <3>1 DEF ReadChannel, deliveryVars, Stopped
    <3>2. CASE \E e \in batch : Replay(e)
      BY <1>1, <3>2, OfferEffect DEF Replay, ControlTypeOK, TypeOK
    <3>3. CASE ConsumeFrame
      <4>1. PICK fails \in BOOLEAN : Offer(Head(wire), fails)
        BY <3>3 DEF ConsumeFrame
      <4>2. Head(wire) \in Event
        BY <1>1, <3>3, TypeParts, HeadTailProperties DEF ConsumeFrame
      <4> QED BY <1>1, <4>1, <4>2, OfferEffect
    <3> QED BY <3>1, <3>2, <3>3, StepKinds
            DEF Happens, Drop, ConnectSucceeds, ReadThread, ReadDone, RedialSucceeds, Quiet,
                sessionVars, deliveryVars, Stopped
  <2> QED BY <2>1, <2>2
<1> QED BY <1>1, <1>2, <1>3

(* Every message owed is still to come, as long as no gap is counted.       *)
LEMMA PlaceNext == LossInv /\ Stream /\ [Next]_vars => PlaceInv'
<1> SUFFICES ASSUME LossInv, Stream, [Next]_vars, gaps' = 0, ~Stopped', Attached'
             PROVE  Placed'
  BY DEF PlaceInv, Placed
<1>1. GroundInv /\ gaps = 0 /\ ~Stopped
  BY NeverTakenBack DEF LossInv
<1>2. CASE ConnectSucceeds
  BY <1>1, <1>2, PlaceConnect
<1>3. ASSUME Attached
      PROVE  Placed /\ Ahead
  BY <1>1, <1>3 DEF LossInv, PlaceInv, PosInv, Unbroken, Placed, Ahead
<1>4. CASE Happens
  <2>1. Attached
    BY <1>4 DEF Happens, runVars, Attached, Leaving
  <2> QED BY <1>1, <1>3, <1>4, <2>1, PlaceHappens
<1>5. CASE Drop
  <2>1. Attached
    BY <1>5 DEF Drop, runVars, Attached, Leaving
  <2> QED BY <1>1, <1>3, <1>5, <2>1, PlaceDrop
<1>6. ASSUME NEW c \in todo, ReadChannel(c) PROVE Placed'
  <2>1. Attached
    BY <1>6 DEF ReadChannel, Attached, Leaving
  <2> QED BY <1>1, <1>3, <1>6, <2>1, PlaceReadChannel
<1>7. CASE \E root \in reading.roots : ReadThread(root)
  BY <1>1, <1>7 DEF GroundInv, ReadInv
<1>8. CASE ReadDone
  <2>1. Attached
    BY <1>8 DEF ReadDone, Attached, Leaving
  <2> QED BY <1>1, <1>3, <1>8, <2>1, PlaceReadDone
<1>9. ASSUME NEW e \in batch, Replay(e) PROVE Placed'
  <2>1. Attached
    BY <1>9 DEF Replay, Attached, Leaving
  <2> QED BY <1>1, <1>3, <1>9, <2>1, PlaceReplay
<1>10. CASE ConsumeFrame
  <2>1. Attached
    BY <1>10 DEF ConsumeFrame, Attached, Leaving
  <2> QED BY <1>1, <1>3, <1>10, <2>1, ConsumePassesNothing DEF Placed
<1>11. CASE RedialSucceeds
  BY <1>1, <1>11, PlaceRedial
<1>12. CASE Quiet
  <2>1. Attached
    BY <1>12 DEF Quiet, Attached, Leaving
  <2> QED BY <1>1, <1>3, <1>12, <2>1, PlaceQuiet
<1> QED BY <1>10, <1>11, <1>12, <1>2, <1>4, <1>5, <1>6, <1>7, <1>8, <1>9, StepKinds

-----------------------------------------------------------------------------
(* Before the next instant lies every position, so what is just posted is   *)
(* past them all.                                                           *)
LEMMA PositionsArePast ==
  ASSUME GroundInv, NEW c \in AllChannels
  PROVE  watermark[c] \in Int /\ watermark[c] < Instant /\ Instant \in Nat
         /\ cursors[c] \in Int /\ cursors[c] <= watermark[c]
<1>1. TypeOK /\ log \in Seq(Event) /\ MarksInv
  BY TypeParts DEF GroundInv
<1>2. Len(log) \in Nat
  BY <1>1, LenProperties
<1>3. watermark[c] \in Int /\ cursors[c] \in Int
  <2>1. watermark \in [AllChannels -> Timestamps] /\ cursors \in [AllChannels -> Timestamps]
    BY <1>1 DEF TypeOK
  <2> QED BY <2>1 DEF Timestamps, NoTS
<1> QED BY <1>1, <1>2, <1>3 DEF MarksInv, Instant

(* An offered event is never past what is unexamined.                       *)
LEMMA OfferKeepsAhead ==
  ASSUME GroundInv, Placed, Ahead, [Next]_vars,
         (\E e \in batch : Replay(e)) \/ ConsumeFrame
  PROVE  Ahead'
<1>1. TypeOK /\ wire \in Seq(Event) /\ batch \subseteq Event
  BY TypeParts DEF GroundInv, ControlTypeOK
<1>2. ASSUME NEW e \in batch, Replay(e) PROVE Ahead'
  <2>1. PICK fails \in BOOLEAN : Offer(e, fails)
    BY <1>2 DEF Replay
  <2>2. UNCHANGED log /\ pc # "connect" /\ e \in Event
    BY <1>1, <1>2 DEF Replay
  <2>3. \A m \in Unseen' : m.ch = e.ch => Cursor(e) < m.ts
    BY <1>2, ReplayPassesNothing
  <2> QED BY <2>1, <2>2, <2>3, AheadOffer
<1>3. CASE ConsumeFrame
  <2>1. PICK fails \in BOOLEAN : Offer(Head(wire), fails)
    BY <1>3 DEF ConsumeFrame
  <2>2. UNCHANGED log /\ pc # "connect" /\ Head(wire) \in Event
    BY <1>1, <1>3, HeadTailProperties DEF ConsumeFrame
  <2>3. \A m \in Unseen' : m.ch = Head(wire).ch => Cursor(Head(wire)) < m.ts
    BY <1>3, ConsumePassesNothing
  <2> QED BY <2>1, <2>2, <2>3, AheadOffer
<1> QED BY <1>2, <1>3

(* An unbroken run that is offering is attached and has no reason to stop.  *)
LEMMA UnbrokenBefore ==
  ASSUME GroundInv, [Next]_vars, Unbroken'
  PROVE  Unbroken /\ (pc \in {"replay", "consume"} => ~Stopped /\ Attached)
<1>1. gaps \in Nat /\ gaps' = 0 /\ gaps' >= gaps /\ (Stopped => Stopped')
      /\ (MaxEvents = 0 \/ ~Stopped')
  BY NeverTakenBack DEF Unbroken, Stopped
<1>2. Unbroken
  BY <1>1 DEF Unbroken
<1> QED BY <1>2 DEF GroundInv, StopInv, Unbroken, Attached, Leaving

(* The read position stays before whatever was not examined yet.            *)
LEMMA PosNext == LossInv /\ [Next]_vars => PosInv'
<1> SUFFICES ASSUME LossInv, [Next]_vars, Unbroken' PROVE Ahead'
  BY DEF PosInv, Ahead
<1>1. GroundInv /\ Unbroken /\ Ahead
  BY UnbrokenBefore DEF LossInv, PosInv, Ahead
<1>2. CASE (\E e \in batch : Replay(e)) \/ ConsumeFrame
  <2>1. pc \in {"replay", "consume"}
    BY <1>2 DEF Replay, ConsumeFrame
  <2>2. Placed
    BY <1>1, <2>1, UnbrokenBefore DEF LossInv, PlaceInv, Unbroken, Placed
  <2> QED BY <1>1, <1>2, <2>2, OfferKeepsAhead
<1>3. CASE UNCHANGED watermark
  <2> SUFFICES ASSUME NEW m \in Unseen' PROVE m.ts > watermark[m.ch]
    BY <1>3 DEF Ahead
  <2>1. m \in Event
    <3>1. TypeOK'
      BY <1>1, TypeNext DEF GroundInv
    <3>2. log' \in Seq(Event)
      BY <3>1 DEF TypeOK
    <3>3. PICK j \in DOMAIN log' : m = log'[j]
      BY DEF Unseen, Owed
    <3> QED BY <3>2, <3>3
  <2>2. m.ch \in AllChannels /\ m.ts \in Nat
    BY <2>1 DEF Event
  <2>3. CASE pc = "connect"
    <3>1. watermark[m.ch] = NoTS
      BY <1>1, <2>2, <2>3 DEF GroundInv, MarksInv
    <3> QED BY <2>2, <3>1 DEF NoTS
  <2>4. CASE pc # "connect"
    <3>1. m \in Unseen \/ m.ts = Instant
      BY <1>1, <2>4, UnseenWas
    <3> QED BY <1>1, <2>2, <3>1, PositionsArePast DEF Ahead
  <2> QED BY <2>3, <2>4
<1>4. CASE \E c \in todo : ReadChannel(c)
  BY <1>3, <1>4 DEF ReadChannel, deliveryVars
<1> QED BY <1>2, <1>3, <1>4, StepKinds
        DEF Happens, Drop, ConnectSucceeds, ReadThread, ReadDone, RedialSucceeds, Quiet,
            sessionVars, deliveryVars, Told

(* What the caller could not take lies past the read position.              *)
LEMMA FailSafeNext == LossInv /\ [Next]_vars => FailSafe'
<1> SUFFICES ASSUME LossInv, [Next]_vars, Unbroken', ~truncated', emitFailed', NEW m \in Owed'
             PROVE  EventKey(m) \in KeysOf(emitted') \cup KeysOf(reported')
                    \/ m.ts > watermark'[m.ch]
  BY DEF FailSafe, Handled, EventKey, KeysOf
<1>1. GroundInv /\ Unbroken /\ Ahead /\ gaps = 0
  BY UnbrokenBefore DEF LossInv, PosInv, Ahead, Unbroken
<1>2. TypeOK /\ WireInv /\ ReadInv /\ FailInv /\ SeenInv /\ SessionTypeOK /\ log \in Seq(Event)
      /\ LogInv
  BY <1>1, TypeParts DEF GroundInv
<1>3. CASE NothingTold
  <2>1. UNCHANGED <<emitted, reported, truncated, emitFailed, watermark>>
    BY <1>3 DEF NothingTold, Told
  <2>2. pc \in Leaving
    BY <1>1, <1>2, <2>1 DEF FailInv
  <2>3. m \in Owed \/ m.ts = Instant
    BY <1>1, <2>2, OwedWas DEF Leaving
  <2>4. CASE m \in Owed
    BY <1>1, <2>1, <2>4 DEF LossInv, FailSafe, Handled
  <2>5. CASE m.ts = Instant
    <3>1. m.ch \in AllChannels
      <4>1. log' \in Seq(Event)
        BY <1>2, TypeNext DEF TypeOK
      <4>2. PICK j \in DOMAIN log' : m = log'[j]
        BY DEF Owed
      <4>3. m \in Event
        BY <4>1, <4>2
      <4> QED BY <4>3 DEF Event
    <3> QED BY <1>1, <2>1, <2>5, <3>1, PositionsArePast
  <2> QED BY <2>3, <2>4, <2>5
<1>4. CASE Offering
  <2>1. PICK e \in Event, fails \in BOOLEAN :
          /\ Offer(e, fails) /\ UNCHANGED log /\ pc \in {"replay", "consume"}
    BY <1>4 DEF Offering
  <2>2. ~emitFailed
    BY <1>1, <1>2, <2>1 DEF FailInv, Leaving
  <2>3. UNCHANGED <<watermark, emitted, reported>> /\ (truncated => truncated')
    BY <1>2, <2>1, <2>2, OfferEffect
  <2>4. m \in Owed
    <3>1. m \in Owed \/ m \notin Occurred
      BY <1>1, <2>1, OwedWas
    <3>2. m \in Occurred'
      BY DEF Owed, Occurred
    <3> QED BY <2>1, <3>1, <3>2 DEF Occurred
  <2>5. CASE EventKey(m) \in seen
    <3>1. m \in Occurred /\ m.kind = "message" /\ InScope(m)
      BY <1>2, <2>4, OwedAre
    <3>2. \/ EventKey(m) \in KeysOf(emitted)
          \/ truncated \/ EventKey(m) \in KeysOf(reported)
      BY <1>2, <2>2, <2>5, <3>1 DEF SeenInv
    <3> QED BY <2>3, <3>2
  <2>6. CASE EventKey(m) \notin seen
    BY <1>1, <2>3, <2>4, <2>6 DEF Ahead, Unseen
  <2> QED BY <2>5, <2>6
<1> QED BY <1>2, <1>3, <1>4, Telling

-----------------------------------------------------------------------------
(* The run starts with nothing examined.                                    *)
LEMMA LossInit == Init => LossInv
<1> SUFFICES ASSUME Init PROVE LossInv
  OBVIOUS
<1>1. /\ log = StartLog /\ wire = << >> /\ reading = NotReading /\ batch = {} /\ pc = "connect"
      /\ seen = {} /\ emitted = << >> /\ reported = << >> /\ ~emitFailed /\ stoppedBy = ""
      /\ attachedAt = 0
      /\ watermark = [c \in AllChannels |-> NoTS] /\ cursors = [c \in AllChannels |-> NoTS]
  BY DEF Init, WorkspaceInit, SessionInit, CatchUpInit
<1>2. TypeOK
  BY TypeInit
<1>3. log \in Seq(Event) /\ Len(log) \in Nat /\ Instant \in Nat
  <2>1. log \in Seq(Event)
    BY <1>2, TypeParts
  <2>2. Len(log) \in Nat
    BY <2>1, LenProperties
  <2> QED BY <2>1, <2>2 DEF Instant
<1>4. LogInv
  BY <1>1, WorkspaceAssumption DEF LogInv
<1>5. WireInv
  <2>1. wire = << >>
    BY <1>1
  <2>2. DOMAIN wire = {}
    BY <2>1
  <2> QED BY <2>2 DEF WireInv
<1>6. ReadInv
  BY <1>1 DEF ReadInv, NotReading
<1>7. MarksInv
  <2>1. \A c \in AllChannels : watermark[c] = NoTS /\ cursors[c] = NoTS
    BY <1>1
  <2>2. seen = {} /\ emitted = << >> /\ attachedAt = 0
    BY <1>1
  <2> QED BY <1>3, <2>1, <2>2 DEF MarksInv, NoTS
<1>8. SeenInv /\ FailInv /\ StopInv
  BY <1>1 DEF SeenInv, FailInv, StopInv, Stopped
<1>9. Owed = {}
  BY <1>1 DEF Owed
<1>10. PlaceInv /\ PosInv /\ FailSafe
  BY <1>1, <1>9 DEF PlaceInv, PosInv, FailSafe, Attached, Unseen
<1> QED BY <1>2, <1>4, <1>5, <1>6, <1>7, <1>8, <1>10 DEF LossInv, GroundInv

(* The whole invariant is inductive for a run over channels.                *)
LEMMA LossNext == Stream /\ LossInv /\ [Next]_vars => LossInv'
<1> SUFFICES ASSUME Stream, LossInv, [Next]_vars PROVE LossInv'
  OBVIOUS
<1>1. TypeOK /\ LogInv /\ WireInv /\ ReadInv /\ MarksInv /\ SeenInv /\ FailInv /\ StopInv
  BY DEF LossInv, GroundInv
<1>2. GroundInv'
  BY <1>1, TypeNext, LogNext, WireNext, ReadNext, MarksNext, SeenNext, FailNext, StopNext
     DEF GroundInv
<1>3. PlaceInv' /\ PosInv' /\ FailSafe'
  BY PlaceNext, PosNext, FailSafeNext
<1> QED BY <1>2, <1>3 DEF LossInv

(* So it holds of every state of such a run.                                *)
LEMMA LossCorrect ==
  ASSUME Stream
  PROVE  Spec => []LossInv
<1>1. LossInv /\ [Next]_vars => LossInv'
  BY LossNext
<1> QED BY LossInit, <1>1, PTL DEF Spec

(* While no gap is counted, an attached run that has consumed its frames has  *)
(* handed over every matching message, across drops, refused redials, partial *)
(* catch-ups, duplicates and deletions, for any number of conversations and   *)
(* any history limit (NoSilentLoss, of WatchResult.Gaps).                     *)
THEOREM NothingLostSilently ==
  ASSUME Stream
  PROVE  Spec => []NoSilentLoss
<1>1. LossInv => NoSilentLoss
  <2> SUFFICES ASSUME LossInv, UpToDate, gaps = 0, NEW m \in Owed, Matches(m)
               PROVE  EventKey(m) \in KeysOf(emitted)
    BY DEF NoSilentLoss
  <2>1. /\ TypeOK /\ log \in Seq(Event) /\ LogInv /\ SeenInv /\ FailInv
        /\ pc = "consume" /\ open /\ wire = << >> /\ ~Stopped
    BY TypeParts DEF LossInv, GroundInv, UpToDate
  <2>2. EventKey(m) \in seen
    <3>1. ASSUME m \in Unseen PROVE FALSE
      <4>1. Coming(m)
        BY <2>1, <3>1 DEF LossInv, PlaceInv, Attached, Leaving
      <4>2. DOMAIN wire = {}
        BY <2>1
      <4> QED BY <2>1, <4>1, <4>2 DEF Coming
    <3> QED BY <3>1 DEF Unseen
  <2>3. ~emitFailed
    BY <2>1 DEF FailInv, Leaving
  <2>4. m \in Occurred /\ m.kind = "message" /\ InScope(m) /\ Narrows(m)
    BY <2>1, OwedAre DEF Matches
  <2> QED BY <2>1, <2>2, <2>3, <2>4 DEF SeenInv
<1> QED BY <1>1, LossCorrect, PTL

(* Without an event cap the resume cursor never passes a message in scope that*)
(* was neither handed over nor reported, unless gaps or truncation say so     *)
(* (CursorSafe, of AwaitResult.Cursor).                                       *)
THEOREM CursorNeverSkips ==
  ASSUME Stream, MaxEvents = 0
  PROVE  Spec => []CursorSafe
<1>1. LossInv => CursorSafe
  <2> SUFFICES ASSUME LossInv, gaps = 0, ~truncated, NEW m \in Owed,
                      Cursor(m) <= cursors[m.ch]
               PROVE  EventKey(m) \in KeysOf(emitted) \cup KeysOf(reported)
    BY DEF CursorSafe
  <2>1. /\ GroundInv /\ TypeOK /\ log \in Seq(Event) /\ LogInv /\ SeenInv
        /\ Unbroken
    BY TypeParts DEF LossInv, GroundInv, Unbroken
  <2>2. /\ m \in Occurred /\ m.kind = "message" /\ InScope(m) /\ Cursor(m) = m.ts
        /\ m.ch \in AllChannels /\ m.ts \in Nat
    BY <2>1, OwedAre
  <2>3. ~(m.ts > watermark[m.ch])
    BY <2>1, <2>2, PositionsArePast
  <2>4. EventKey(m) \in seen
    BY <2>1, <2>3 DEF LossInv, PosInv, Unseen
  <2>5. CASE emitFailed
    BY <2>1, <2>3, <2>5 DEF LossInv, FailSafe, Handled
  <2>6. CASE ~emitFailed
    BY <2>1, <2>2, <2>4, <2>6 DEF SeenInv
  <2> QED BY <2>5, <2>6
<1> QED BY <1>1, LossCorrect, PTL

-----------------------------------------------------------------------------
(* The refinement of EventDelivery.  The run asks for messages, without an  *)
(* event cap; a run over several channels starts live (streamConversation   *)
(* refuses --since there); and no message is deleted, for EventDelivery     *)
(* takes no answer back.                                                    *)
Plain ==
  /\ Stream /\ Kinds = {"message"} /\ MaxEvents = 0
  /\ Since # NoTS => TargetChannel # None
  /\ "message_deleted" \notin ActivityKinds
  /\ \A i \in DOMAIN StartLog : StartLog[i].kind # "message_deleted"
  /\ Len(StartLog) <= MaxLog

(* The log holds no deletion and stays within its bound.                    *)
LogFits == Len(log) <= MaxLog /\ \A o \in Occurred : o.kind # "message_deleted"

(* What lies past this instant is owed.                                     *)
Begun == 2 * OwedFrom

(* Nothing reaches an attached run, and no position is, from before that.   *)
AfterInv ==
  /\ pc = "connect" => batch = {}
  /\ \A c \in AllChannels : watermark[c] # NoTS => watermark[c] > Begun
  /\ Attached =>
       /\ \A i \in DOMAIN wire : wire[i].kind = "message" => wire[i].ts > Begun
       /\ \A e \in batch : e.kind = "message" => e.ts > Begun
       /\ pc = "threads" => FillFrom(reading.ch) # NoTS

(* What was handed over is owed, and the read position reached it.          *)
IsAnswer(e) == \E m \in Owed : Matches(m) /\ EventKey(e) = EventKey(m)

GivenInv == \A i \in DOMAIN emitted : /\ IsAnswer(emitted[i])
                                      /\ emitted[i].ts <= watermark[emitted[i].ch]

DeliveryInv == LossInv /\ OnceInv /\ LogFits /\ AfterInv /\ GivenInv

(* The bound of the log is respected, and nothing is ever deleted.          *)
LEMMA FitsNext ==
  ASSUME Plain, TypeOK, LogInv, LogFits, [Next]_vars
  PROVE  LogFits'
<1>1. CASE UNCHANGED log
  BY <1>1 DEF LogFits, Occurred
<1>2. ASSUME NEW e \in NextActivity, Happens, Occurred' = Occurred \cup {e},
             Len(log') = Len(log) + 1
      PROVE  LogFits'
  <2>1. e.kind \in ActivityKinds
    BY DEF NextActivity
  <2>2. Len(log) < MaxLog /\ MaxLog \in Nat /\ Len(log) \in Nat
    <3>1. log \in Seq(Event)
      BY TypeParts
    <3> QED BY <1>2, <3>1, LenProperties, WorkspaceAssumption DEF Happens
  <2> QED BY <1>2, <2>1, <2>2 DEF LogFits, Plain
<1> QED BY <1>1, <1>2, LogStep

(* Once connected, the point the run owes from is settled.                  *)
LEMMA BegunStays ==
  ASSUME GroundInv, [Next]_vars, pc # "connect"
  PROVE  OwedFrom' = OwedFrom /\ pc' # "connect"
<1>1. TypeOK /\ WireInv /\ ReadInv
  BY DEF GroundInv
<1>2. attachedAt' = attachedAt
  <2>1. CASE \E e \in batch : Replay(e)
    BY <2>1 DEF Replay
  <2>2. CASE \E c \in todo : ReadChannel(c)
    BY <2>2 DEF ReadChannel
  <2> QED BY <2>1, <2>2, StepKinds
          DEF Happens, runVars, Drop, ConnectSucceeds, ReadThread, ReadDone, ConsumeFrame,
              RedialSucceeds, Quiet
<1>3. pc' # "connect"
  BY <1>1, Telling DEF Offering, NothingTold
<1> QED BY <1>2, <1>3 DEF OwedFrom, TargetChannel

(* It is no later than the last instant.                                    *)
LEMMA BegunBefore ==
  ASSUME GroundInv
  PROVE  /\ OwedFrom \in Nat /\ Begun \in Nat /\ Begun < Instant
         /\ Since # NoTS /\ TargetChannel # None => Begun = 0
<1>1. attachedAt \in Nat /\ attachedAt <= Len(log) /\ Len(log) \in Nat
  <2>1. log \in Seq(Event) /\ attachedAt \in Nat
    BY TypeParts DEF GroundInv, ControlTypeOK
  <2> QED BY <2>1, LenProperties DEF GroundInv, MarksInv
<1> QED BY <1>1 DEF OwedFrom, Begun, Instant

(* A message in scope past that point is owed.                              *)
LEMMA LateIsOwed ==
  ASSUME GroundInv, LogFits, pc # "connect", NEW m \in Occurred, m.kind = "message",
         InScope(m), m.ts > Begun
  PROVE  m \in Owed
<1>1. log \in Seq(Event) /\ LogInv
  BY TypeParts DEF GroundInv
<1>2. PICK i \in 1..Len(log) : m = log[i] /\ m.ts = 2 * i
  BY <1>1, OccurredAt
<1>3. i \in DOMAIN log /\ i > OwedFrom
  <2>1. DOMAIN log = 1..Len(log)
    BY <1>1, LenProperties
  <2> QED BY <1>2, <2>1, BegunBefore DEF Begun
<1>4. Readable(m)
  BY DEF Readable, LogFits
<1> QED BY <1>2, <1>3, <1>4 DEF Owed

(* No message owed is forgotten.                                            *)
LEMMA OwedGrows ==
  ASSUME Plain, GroundInv, LogFits, [Next]_vars
  PROVE  Owed \subseteq Owed'
<1> SUFFICES ASSUME NEW m \in Owed PROVE m \in Owed'
  OBVIOUS
<1>1. TypeOK /\ log \in Seq(Event) /\ LogInv
  BY TypeParts DEF GroundInv
<1>2. PICK i \in DOMAIN log :
        /\ m = log[i] /\ i > OwedFrom /\ pc # "connect" /\ m.kind = "message" /\ InScope(m)
  BY DEF Owed
<1>3. i \in DOMAIN log' /\ log'[i] = m
  <2>1. CASE UNCHANGED log
    BY <1>2, <2>1
  <2>2. ASSUME NEW e \in Event, log' = Append(log, e) PROVE i \in DOMAIN log' /\ log'[i] = m
    BY <1>1, <1>2, <2>2, LogGrows
  <2> QED BY <1>1, <2>1, <2>2, LogStep
<1>4. OwedFrom' = OwedFrom /\ pc' # "connect"
  BY <1>2, BegunStays
<1>5. Readable(m)'
  <2>1. LogFits'
    BY <1>1, FitsNext
  <2> QED BY <2>1 DEF Readable, LogFits
<1>6. InScope(m)' 
  BY <1>2 DEF InScope
<1> QED BY <1>2, <1>3, <1>4, <1>5, <1>6 DEF Owed

-----------------------------------------------------------------------------
(* What an offer hands over.                                                *)
LEMMA OfferGives ==
  ASSUME Plain, SessionTypeOK, NEW e \in Event, NEW fails \in BOOLEAN, Offer(e, fails)
  PROVE  /\ \/ UNCHANGED emitted
            \/ /\ ~fails /\ Matches(e) /\ e.kind = "message" /\ EventKey(e) \notin seen
               /\ emitted' = Append(emitted, e)
               /\ watermark' = [watermark EXCEPT ![e.ch] = MaxTS(@, Cursor(e))]
         /\ e.kind # "message" => UNCHANGED watermark
<1> DEFINE w == WithThread(e)
<1>1. /\ w.ch = e.ch /\ w.kind = e.kind /\ Cursor(w) = Cursor(e)
      /\ e.kind = "message" => w = e
  BY DEF WithThread, Cursor, IsReaction, Event
<1>2. InScope(w) => e.kind = "message"
  BY <1>1 DEF InScope, Plain
<1>3. CASE UNCHANGED deliveryVars \/ NothingDelivered
  BY <1>3 DEF deliveryVars, NothingDelivered
<1>4. ASSUME EventKey(e) \notin seen,
             \/ Matches(w) /\ ~fails /\ Emit(w)
             \/ Matches(w) /\ fails /\ EmitFails
             \/ InScope(w) /\ ~Narrows(w) /\ ~fails /\ ReportSkipped(w)
             \/ ~InScope(w) /\ ~fails /\ NothingDelivered
      PROVE  /\ \/ UNCHANGED emitted
                \/ /\ ~fails /\ Matches(e) /\ e.kind = "message" /\ EventKey(e) \notin seen
                   /\ emitted' = Append(emitted, e)
                   /\ watermark' = [watermark EXCEPT ![e.ch] = MaxTS(@, Cursor(e))]
             /\ e.kind # "message" => UNCHANGED watermark
  <2>1. CASE Matches(w) /\ ~fails /\ Emit(w)
    <3>1. e.kind = "message" /\ w = e
      BY <1>1, <1>2, <2>1 DEF Matches
    <3> QED BY <1>4, <2>1, <3>1 DEF Emit, AdvanceCursor, AdvanceWatermark
  <2>2. CASE Matches(w) /\ fails /\ EmitFails
    BY <2>2 DEF EmitFails
  <2>3. CASE InScope(w) /\ ~Narrows(w) /\ ~fails /\ ReportSkipped(w)
    BY <1>2, <2>3 DEF ReportSkipped
  <2>4. CASE ~InScope(w) /\ ~fails /\ NothingDelivered
    BY <1>3, <2>4
  <2> QED BY <1>4, <2>1, <2>2, <2>3, <2>4
<1> QED BY <1>3, <1>4 DEF Offer

(* Which catch-up runs changes only with a redial.                          *)
LEMMA FillingStays ==
  ASSUME [Next]_vars, ~RedialSucceeds
  PROVE  filling' = filling
BY DEF Next, Engine, Environment, Done, vars, runVars, Happens, ConnectSucceeds, ConnectFails,
       ReadChannel, ReadChannelFails, NothingToReadFrom, ReadThread, ReadDone, Replay, CaughtUp,
       ConsumeFrame, ConsumeIdle, ConsumeDone, SocketDropped, Backoff, RedialFails, Finish, Drop,
       TimePasses, Expire, Cancel

(* A catch-up reads from past the point the run owes from.                  *)
LEMMA FillIsLate ==
  ASSUME Plain, GroundInv, AfterInv, NEW c \in AllChannels, FillFrom(c) # NoTS,
         NEW t \in Nat, t > FillFrom(c), t > 0
  PROVE  t > Begun
<1>1. CASE Since # NoTS
  BY <1>1, BegunBefore DEF Plain
<1>2. CASE Since = NoTS
  <2>1. watermark[c] \in Int
    BY PositionsArePast
  <2>2. FillFrom(c) \in {NoTS, watermark[c]}
    BY <1>2, <2>1 DEF FillFrom, MaxTS
  <2>3. FillFrom(c) = watermark[c] /\ watermark[c] > Begun
    BY <2>2 DEF AfterInv
  <2> QED BY <2>1, <2>3, BegunBefore
<1> QED BY <1>1, <1>2

(* What was made of a read lies past it.                                    *)
LEMMA BatchIsLate ==
  ASSUME Plain, GroundInv, AfterInv, Attached, ReadDone,
         NEW e \in batch', e.kind = "message"
  PROVE  e.ts > Begun
<1>1. /\ TypeOK /\ log \in Seq(Event) /\ LogInv /\ ReadInv /\ pc = "threads"
      /\ batch' = CatchUpEvents(reading.messages, FillFrom(reading.ch))
  BY TypeParts DEF GroundInv, ReadDone, FinishRead
<1>2. e \in reading.messages /\ e.ts > FillFrom(reading.ch) /\ ReadBack(e) /\ e.ch = reading.ch
  <2>1. \/ e \in reading.messages /\ ReadBack(e) /\ e.ts > FillFrom(reading.ch)
        \/ Undated(e)
    BY <1>1, CatchUpIsGenuine DEF ReadInv
  <2> QED BY <1>1, <2>1 DEF ReadInv, Undated
<1>3. PICK o \in Occurred : o.kind = "message" /\ Copy(e, o)
  BY <1>2 DEF ReadBack
<1>4. e \in Event /\ e.ts = o.ts /\ o.ts \in Nat /\ o.ts > 0
  BY <1>1, <1>3, CopyIsMessage, OccurredAt
<1>5. FillFrom(reading.ch) # NoTS /\ reading.ch \in AllChannels
  BY <1>1, <1>2, <1>4 DEF AfterInv, Event
<1> QED BY <1>2, <1>4, <1>5, FillIsLate

(* Positions and frames stay past it.                                       *)
LEMMA AfterNext ==
  ASSUME Plain, GroundInv, AfterInv, [Next]_vars
  PROVE  AfterInv'
<1>1. /\ TypeOK /\ log \in Seq(Event) /\ LogInv /\ ReadInv /\ WireInv /\ MarksInv /\ SessionTypeOK
      /\ wire \in Seq(Event) /\ batch \subseteq Event
      /\ watermark \in [AllChannels -> Timestamps] /\ Begun \in Nat /\ Begun < Instant
  BY TypeParts, BegunBefore DEF GroundInv, ControlTypeOK, SessionTypeOK
<1>2. ASSUME pc # "connect" PROVE Begun' = Begun /\ pc' # "connect"
  BY <1>2, BegunStays DEF Begun
<1>3. ASSUME UNCHANGED watermark
      PROVE  \A c \in AllChannels : watermark'[c] # NoTS => watermark'[c] > Begun'
  BY <1>1, <1>2, <1>3 DEF AfterInv, MarksInv
<1>4. CASE ConnectSucceeds
  <2>1. /\ UNCHANGED <<watermark, batch>> /\ pc = "connect" /\ pc' = "fetch" /\ wire' = << >>
    BY <1>4 DEF ConnectSucceeds, sessionVars, deliveryVars
  <2>2. DOMAIN wire' = {}
    BY <2>1
  <2> QED BY <1>3, <2>1, <2>2 DEF AfterInv, Attached
<1>5. CASE RedialSucceeds
  <2>1. /\ UNCHANGED <<watermark, batch>> /\ pc = "redial" /\ pc' = "fetch" /\ wire' = << >>
    BY <1>5 DEF RedialSucceeds, deliveryVars
  <2>2. DOMAIN wire' = {}
    BY <2>1
  <2> QED BY <1>2, <1>3, <2>1, <2>2 DEF AfterInv, Attached, Leaving
<1>6. CASE \E c \in todo : ReadChannel(c)
  <2>1. PICK c \in todo : ReadChannel(c)
    BY <1>6
  <2>2. /\ UNCHANGED <<watermark, batch, wire, filling>> /\ pc = "fetch" /\ pc' = "threads"
        /\ FillFrom(c) # NoTS /\ reading'.ch = c
    BY <2>1 DEF ReadChannel, BeginRead, deliveryVars
  <2>3. FillFrom(reading.ch)' # NoTS
    BY <2>2 DEF FillFrom
  <2> QED BY <1>2, <1>3, <2>2, <2>3 DEF AfterInv, Attached, Leaving
<1>7. CASE ReadDone
  <2>1. /\ UNCHANGED <<watermark, wire>> /\ pc = "threads" /\ pc' \in {"fetch", "replay"}
    BY <1>7 DEF ReadDone
  <2>2. \A e \in batch' : e.kind = "message" => e.ts > Begun
    BY <1>7, <2>1, BatchIsLate DEF Attached, Leaving
  <2> QED BY <1>2, <1>3, <2>1, <2>2 DEF AfterInv, Attached, Leaving
<1>8. CASE Happens
  <2>1. UNCHANGED <<pc, watermark, batch, filling, reading>>
    BY <1>8 DEF Happens, runVars, sessionVars, deliveryVars
  <2>2. \/ UNCHANGED wire
        \/ \E e \in Event : wire' = Append(wire, e) /\ (e.kind = "message" => e.ts = Instant)
    <3>1. \/ UNCHANGED log
          \/ \E e \in Event : /\ wire' = IF open THEN Append(wire, e) ELSE wire
                              /\ e.kind = "message" => e.ts = Instant
      BY <1>1, LogStep
    <3>2. CASE UNCHANGED log
      <4>1. \E e : log' = Append(log, e)
        BY <1>8 DEF Happens
      <4>2. FALSE
        <5>1. PICK e \in NextActivity : log' = Append(log, e)
          BY <1>8 DEF Happens
        <5>2. e \in Event
          BY <1>1, NextActivityType
        <5>3. Len(log') = Len(log) + 1 /\ Len(log) \in Nat
          BY <1>1, <5>1, <5>2, LogGrows
        <5> QED BY <3>2, <5>3
      <4> QED BY <4>2
    <3> QED BY <3>1, <3>2
  <2>3. ASSUME Attached, NEW i \in DOMAIN wire', wire'[i].kind = "message"
        PROVE  wire'[i].ts > Begun
    <3>1. CASE UNCHANGED wire
      BY <2>3, <3>1 DEF AfterInv
    <3>2. ASSUME NEW e \in Event, wire' = Append(wire, e), e.kind = "message" => e.ts = Instant
          PROVE  wire'[i].ts > Begun
      <4>1. /\ Len(wire) \in Nat /\ DOMAIN wire = 1..Len(wire)
            /\ DOMAIN wire' = 1..(Len(wire) + 1)
            /\ \A k \in 1..Len(wire) : wire'[k] = wire[k]
            /\ wire'[Len(wire) + 1] = e
        BY <1>1, <3>2, AppendProperties, LenProperties
      <4>2. CASE i \in 1..Len(wire)
        BY <2>3, <4>1, <4>2 DEF AfterInv
      <4>3. CASE i = Len(wire) + 1
        BY <1>1, <2>3, <3>2, <4>1, <4>3
      <4> QED BY <4>1, <4>2, <4>3
    <3> QED BY <2>2, <3>1, <3>2
  <2>4. (FillFrom(reading.ch) # NoTS)' <=> FillFrom(reading.ch) # NoTS
    BY <2>1 DEF FillFrom
  <2>5. Attached' <=> Attached
    BY <2>1 DEF Attached
  <2> QED BY <1>2, <1>3, <2>1, <2>3, <2>4, <2>5 DEF AfterInv, Attached
<1>9. CASE Drop
  <2>1. UNCHANGED <<pc, watermark, batch, filling, reading>>
    BY <1>9 DEF Drop, runVars, sessionVars, deliveryVars
  <2>2. \A i \in DOMAIN wire' : i \in DOMAIN wire /\ wire'[i] = wire[i]
    <3>1. PICK n \in 0..Len(wire) : wire' = SubSeq(wire, 1, n)
      BY <1>9 DEF Drop
    <3> QED BY <1>1, <3>1, LenProperties
  <2>3. (FillFrom(reading.ch) # NoTS)' <=> FillFrom(reading.ch) # NoTS
    BY <2>1 DEF FillFrom
  <2> QED BY <1>2, <1>3, <2>1, <2>2, <2>3 DEF AfterInv, Attached
<1>10. ASSUME NEW e \in Event, NEW fails \in BOOLEAN, Offer(e, fails), Attached,
              e.kind = "message" => e.ts > Begun /\ Cursor(e) = e.ts
       PROVE  \A c \in AllChannels : watermark'[c] # NoTS => watermark'[c] > Begun
  <2>1. CASE e.kind # "message"
    <3>1. UNCHANGED watermark
      BY <1>1, <1>10, <2>1, OfferGives
    <3> QED BY <3>1 DEF AfterInv
  <2>2. CASE e.kind = "message"
    <3>1. \A c \in AllChannels : \/ watermark'[c] = watermark[c]
                                 \/ watermark'[c] = MaxTS(watermark[c], e.ts)
      BY <1>1, <1>10, <2>2, OfferEffect
    <3>2. e.ts \in Nat /\ \A c \in AllChannels : watermark[c] \in Timestamps
      BY <1>1 DEF Event
    <3> QED BY <1>1, <1>10, <2>2, <3>1, <3>2 DEF AfterInv, MaxTS, Timestamps, NoTS
  <2> QED BY <2>1, <2>2
<1>11. ASSUME NEW e \in batch, Replay(e) PROVE AfterInv'
  <2>1. /\ UNCHANGED wire /\ pc = "replay" /\ pc' \in {"fetch", "replay", "return"}
        /\ batch' \subseteq batch /\ \E fails \in BOOLEAN : Offer(e, fails)
    BY <1>11 DEF Replay, CatchUpFails
  <2>2. Attached
    BY <2>1 DEF Attached, Leaving
  <2>3. e.kind = "message" => e.ts > Begun /\ Cursor(e) = e.ts
    <3>1. ASSUME e.kind = "message" PROVE Cursor(e) = e.ts
      <4>1. PICK o \in Occurred : o.kind = "message" /\ Copy(e, o)
        BY <1>1, <3>1 DEF ReadInv, ReadBack, Undated
      <4> QED BY <1>1, <4>1, CopyIsMessage
    <3> QED BY <2>2, <3>1 DEF AfterInv
  <2>4. \A c \in AllChannels : watermark'[c] # NoTS => watermark'[c] > Begun
    BY <1>1, <1>10, <2>1, <2>2, <2>3
  <2> QED BY <1>2, <2>1, <2>2, <2>4 DEF AfterInv
<1>12. CASE ConsumeFrame
  <2>1. /\ UNCHANGED batch /\ pc = "consume" /\ pc' \in {"return", "consume"}
        /\ wire # << >> /\ wire' = Tail(wire) /\ \E fails \in BOOLEAN : Offer(Head(wire), fails)
    BY <1>12 DEF ConsumeFrame
  <2>2. Attached
    BY <2>1 DEF Attached, Leaving
  <2>3. /\ Head(wire) = wire[1] /\ 1 \in DOMAIN wire /\ Head(wire) \in Event
        /\ \A i \in DOMAIN wire' : i + 1 \in DOMAIN wire /\ wire'[i] = wire[i + 1]
    <3>1. Head(wire) \in Event /\ Tail(wire) \in Seq(Event) /\ Len(Tail(wire)) = Len(wire) - 1
          /\ \A i \in 1..Len(Tail(wire)) : Tail(wire)[i] = wire[i + 1]
      BY <1>1, <2>1, HeadTailProperties
    <3>2. Len(wire) \in Nat \ {0} /\ DOMAIN wire = 1..Len(wire)
      BY <1>1, <2>1, LenProperties, EmptySeq
    <3>3. DOMAIN Tail(wire) = 1..(Len(wire) - 1)
      BY <3>1, LenProperties
    <3>4. Head(wire) = wire[1]
      BY <1>1, <2>1
    <3> QED BY <2>1, <3>1, <3>2, <3>3, <3>4
  <2>4. Head(wire).kind = "message" => Head(wire).ts > Begun /\ Cursor(Head(wire)) = Head(wire).ts
    BY <1>1, <2>2, <2>3, OccurredAt DEF AfterInv, WireInv
  <2>5. \A c \in AllChannels : watermark'[c] # NoTS => watermark'[c] > Begun
    BY <1>10, <2>1, <2>2, <2>3, <2>4
  <2> QED BY <1>2, <2>1, <2>2, <2>3, <2>5 DEF AfterInv, Attached, Leaving
<1>13. CASE Quiet
  <2>1. UNCHANGED <<watermark, wire, reading>> /\ batch' \subseteq batch
    BY <1>13 DEF Quiet, Told
  <2>2. pc = "connect" => pc' \in Leaving \/ pc' = "connect"
    BY <1>13 DEF Quiet
  <2>3. Attached' => pc # "connect" /\ Attached
    BY <1>13, <2>2 DEF Quiet, Attached, Leaving
  <2>4. pc' = "threads" => pc = "threads" \/ pc' \in Leaving
    BY <1>13 DEF Quiet
  <2>5. Attached' /\ pc' = "threads" => FillFrom(reading.ch)' # NoTS
    <3>1. ~RedialSucceeds
      BY <1>13 DEF Quiet, RedialSucceeds, Leaving
    <3>2. filling' = filling
      BY <3>1, FillingStays
    <3> QED BY <2>1, <2>3, <2>4, <3>2 DEF AfterInv, FillFrom, Attached
  <2>6. pc' = "connect" => pc = "connect"
    BY <1>2
  <2> QED BY <1>2, <1>3, <2>1, <2>3, <2>5, <2>6 DEF AfterInv
<1> QED BY <1>4, <1>5, <1>6, <1>7, <1>8, <1>9, <1>11, <1>12, <1>13, StepKinds DEF GroundInv, ReadInv

-----------------------------------------------------------------------------
(* A step that hands an event over.                                         *)
Giving(e) ==
  /\ e \in Event /\ e.kind = "message" /\ Matches(e) /\ EventKey(e) \notin seen
  /\ emitted' = Append(emitted, e)
  /\ watermark' = [watermark EXCEPT ![e.ch] = MaxTS(@, e.ts)]
  /\ UNCHANGED <<log, gaps, attachedAt>>
  /\ {pc, pc'} \cap {"connect"} = {} /\ pc \in {"replay", "consume"}
  /\ IsAnswer(e)
  /\ gaps = 0 => \A m \in Unseen : m.ch = e.ch /\ EventKey(m) # EventKey(e) => e.ts < m.ts

(* An offered message in scope is owed.                                     *)
LEMMA OfferedIsOwed ==
  ASSUME Plain, GroundInv, LogFits, pc # "connect",
         NEW e \in Event, e.kind = "message", Genuine(e), Matches(e), e.ts > Begun
  PROVE  IsAnswer(e) /\ Cursor(e) = e.ts
<1>1. log \in Seq(Event) /\ LogInv /\ Stream
  BY TypeParts DEF GroundInv, Plain
<1>2. PICK o \in Occurred : o.kind = "message" /\ Copy(e, o)
  BY DEF Genuine, ReadBack, Undated, Copy
<1>3. /\ EventKey(e) = EventKey(o) /\ e.ts = o.ts /\ Cursor(e) = o.ts
      /\ Narrows(e) <=> Narrows(o) /\ (InScope(e) <=> InScope(o))
  BY <1>1, <1>2, CopyIsMessage, CopyInScope
<1>4. Matches(o) /\ o \in Owed
  BY <1>2, <1>3, LateIsOwed DEF Matches
<1> QED BY <1>3, <1>4 DEF IsAnswer

(* What an offer hands over is such an event.                               *)
LEMMA OfferIsGiving ==
  ASSUME Plain, DeliveryInv, [Next]_vars, NEW e \in Event, Offer(e, FALSE), Genuine(e),
         e.kind = "message" => e.ts > Begun,
         UNCHANGED <<log, gaps, attachedAt>>, pc \in {"replay", "consume"}, pc' # "connect",
         gaps = 0 => \A m \in Unseen' : m.ch = e.ch => Cursor(e) < m.ts
  PROVE  Giving(e) \/ UNCHANGED emitted
<1>1. /\ GroundInv /\ SessionTypeOK /\ LogFits
  BY TypeParts DEF DeliveryInv, LossInv, GroundInv
<1> SUFFICES ASSUME emitted' # emitted PROVE Giving(e)
  OBVIOUS
<1>2. /\ Matches(e) /\ e.kind = "message" /\ EventKey(e) \notin seen
      /\ emitted' = Append(emitted, e)
      /\ watermark' = [watermark EXCEPT ![e.ch] = MaxTS(@, Cursor(e))]
  BY <1>1, OfferGives
<1>3. IsAnswer(e) /\ Cursor(e) = e.ts
  BY <1>1, <1>2, OfferedIsOwed
<1>4. seen' = seen \cup {EventKey(e)}
  BY <1>1, OfferEffect
<1>5. Owed' = Owed
  <2>1. OwedFrom' = OwedFrom
    BY <1>1, BegunStays
  <2> QED BY <2>1 DEF Owed, Readable, Occurred, InScope
<1>6. ASSUME gaps = 0, NEW m \in Unseen, m.ch = e.ch, EventKey(m) # EventKey(e)
      PROVE  e.ts < m.ts
  <2>1. m \in Unseen'
    BY <1>4, <1>5, <1>6 DEF Unseen, EventKey
  <2> QED BY <1>3, <1>6, <2>1
<1> QED BY <1>2, <1>3, <1>6 DEF Giving

(* Every step hands over one such event, or nothing.                        *)
LEMMA GivingStep ==
  ASSUME Plain, DeliveryInv, [Next]_vars
  PROVE  (\E e : Giving(e)) \/ UNCHANGED emitted
<1>1. /\ GroundInv /\ TypeOK /\ log \in Seq(Event) /\ ReadInv /\ WireInv /\ SessionTypeOK
      /\ wire \in Seq(Event) /\ batch \subseteq Event /\ AfterInv /\ PlaceInv /\ StopInv
  BY TypeParts DEF DeliveryInv, LossInv, GroundInv, ControlTypeOK
<1>2. pc \in {"replay", "consume"} => Attached /\ (gaps = 0 => Placed)
  BY <1>1 DEF StopInv, Attached, Leaving, Plain, PlaceInv, Placed
<1>3. ASSUME NEW e \in batch, Replay(e) PROVE Giving(e) \/ UNCHANGED emitted
  <2>1. /\ e \in Event /\ pc = "replay" /\ pc' # "connect" /\ UNCHANGED <<log, attachedAt>>
        /\ (Offer(e, FALSE) /\ UNCHANGED gaps) \/ Offer(e, TRUE)
    <3>1. pc = "replay" /\ log' = log /\ attachedAt' = attachedAt
      BY <1>3 DEF Replay
    <3>2. \/ Offer(e, FALSE) /\ gaps' = gaps
          \/ Offer(e, TRUE)
      BY <1>3 DEF Replay
    <3> QED BY <1>1, <1>2, <3>1, <3>2, BegunStays
  <2>2. CASE Offer(e, TRUE)
    BY <1>1, <2>1, <2>2, OfferGives
  <2>3. CASE Offer(e, FALSE) /\ UNCHANGED gaps
    <3>1. Genuine(e) /\ (e.kind = "message" => e.ts > Begun)
      BY <1>1, <1>2, <2>1 DEF ReadInv, Genuine, AfterInv
    <3>2. gaps = 0 => \A m \in Unseen' : m.ch = e.ch => Cursor(e) < m.ts
      BY <1>1, <1>2, <1>3, <2>1, ReplayPassesNothing
    <3> QED BY <2>1, <2>3, <3>1, <3>2, OfferIsGiving
  <2> QED BY <2>1, <2>2, <2>3
<1>4. CASE ConsumeFrame
  <2> DEFINE e == Head(wire)
  <2>1. /\ pc = "consume" /\ pc' # "connect" /\ UNCHANGED <<log, gaps, attachedAt>>
        /\ Offer(e, FALSE) \/ Offer(e, TRUE)
        /\ wire # << >>
    <3>1. /\ pc = "consume" /\ wire # << >>
          /\ log' = log /\ gaps' = gaps /\ attachedAt' = attachedAt
      BY <1>4 DEF ConsumeFrame
    <3>2. Offer(e, FALSE) \/ Offer(e, TRUE)
      BY <1>4 DEF ConsumeFrame
    <3> QED BY <1>1, <3>1, <3>2, BegunStays
  <2>2. e \in Event /\ 1 \in DOMAIN wire /\ e = wire[1]
    <3>1. e \in Event
      BY <1>1, <2>1, HeadTailProperties
    <3>2. Len(wire) \in Nat \ {0} /\ DOMAIN wire = 1..Len(wire)
      BY <1>1, <2>1, LenProperties, EmptySeq
    <3>3. e = wire[1]
      BY <1>1, <2>1
    <3> QED BY <3>1, <3>2, <3>3
  <2>3. CASE Offer(e, TRUE)
    BY <1>1, <2>2, <2>3, OfferGives
  <2>4. CASE Offer(e, FALSE)
    <3>1. Genuine(e) /\ (e.kind = "message" => e.ts > Begun)
      BY <1>1, <1>2, <2>1, <2>2 DEF WireInv, Genuine, AfterInv
    <3>2. gaps = 0 => \A m \in Unseen' : m.ch = e.ch => Cursor(e) < m.ts
      BY <1>1, <1>2, <1>4, <2>1, ConsumePassesNothing
    <3> HIDE DEF e
    <3> QED BY <2>1, <2>2, <2>4, <3>1, <3>2, OfferIsGiving
  <2> QED BY <2>1, <2>3, <2>4
<1>5. CASE \E c \in todo : ReadChannel(c)
  BY <1>5 DEF ReadChannel, deliveryVars
<1>6. CASE \E root \in reading.roots : ReadThread(root)
  BY <1>1, <1>6 DEF ReadInv
<1>7. CASE Happens \/ Drop \/ ConnectSucceeds \/ ReadDone \/ RedialSucceeds \/ Quiet
  BY <1>7 DEF Happens, Drop, ConnectSucceeds, ReadDone, RedialSucceeds, Quiet, Told,
              sessionVars, deliveryVars
<1> QED BY <1>3, <1>4, <1>5, <1>6, <1>7, StepKinds

-----------------------------------------------------------------------------
(* A key names a conversation and an instant.                               *)
LEMMA SameIdentity ==
  ASSUME NEW a \in Event, NEW b \in Event, EventKey(a) = EventKey(b)
  PROVE  Identity(a) = Identity(b) /\ a.kind = b.kind /\ a.ch = b.ch /\ a.ts = b.ts
BY DEF EventKey, Identity

(* No read position moves back.                                             *)
LEMMA PositionsGrow ==
  ASSUME GroundInv, [Next]_vars, NEW c \in AllChannels
  PROVE  watermark[c] <= watermark'[c]
<1>1. TypeOK /\ WireInv /\ ReadInv /\ SessionTypeOK
  BY TypeParts DEF GroundInv
<1>2. watermark[c] \in Int
  BY PositionsArePast
<1>3. CASE NothingTold
  BY <1>2, <1>3 DEF NothingTold, Told
<1>4. CASE Offering
  <2>1. PICK e \in Event : \/ watermark'[c] = watermark[c]
                           \/ watermark'[c] = MaxTS(watermark[c], Cursor(e))
    BY <1>1, <1>4, OfferEffect DEF Offering
  <2>2. Cursor(e) \in Int
    BY DEF Cursor, JustAfter, Event, Timestamps, NoTS
  <2> QED BY <1>2, <2>1, <2>2 DEF MaxTS
<1> QED BY <1>1, <1>3, <1>4, Telling

(* What was handed over stays owed, and the position stays past it.         *)
LEMMA GivenNext ==
  ASSUME Plain, DeliveryInv, [Next]_vars
  PROVE  GivenInv'
<1>1. /\ GroundInv /\ LogFits /\ GivenInv /\ emitted \in Seq(Event)
      /\ watermark \in [AllChannels -> Timestamps]
  BY TypeParts DEF DeliveryInv, LossInv, GroundInv, SessionTypeOK
<1>2. ASSUME NEW e, IsAnswer(e) PROVE IsAnswer(e)'
  BY <1>1, <1>2, OwedGrows DEF IsAnswer, Matches, InScope, Narrows, EventKey
<1>3. ASSUME NEW i \in DOMAIN emitted, emitted'[i] = emitted[i]
      PROVE  IsAnswer(emitted[i])' /\ emitted'[i].ts <= watermark'[emitted'[i].ch]
  <2>1. IsAnswer(emitted[i]) /\ emitted[i].ts <= watermark[emitted[i].ch]
    BY <1>1 DEF GivenInv
  <2>2. emitted[i] \in Event
    BY <1>1
  <2>3. emitted[i].ch \in AllChannels /\ emitted[i].ts \in Int
    BY <2>2 DEF Event, Timestamps, NoTS
  <2>4. /\ watermark[emitted[i].ch] \in Int
        /\ watermark[emitted[i].ch] <= watermark'[emitted[i].ch]
        /\ watermark'[emitted[i].ch] \in Int
    <3>1. watermark' \in [AllChannels -> Timestamps]
      BY <1>1, TypeNext DEF GroundInv, TypeOK
    <3> QED BY <1>1, <2>3, <3>1, PositionsArePast, PositionsGrow DEF Timestamps, NoTS
  <2>5. emitted[i].ts <= watermark'[emitted[i].ch]
    BY <2>1, <2>3, <2>4
  <2>6. IsAnswer(emitted[i])'
    BY <1>2, <1>3, <2>1 DEF IsAnswer, EventKey
  <2> QED BY <1>3, <2>5, <2>6
<1>4. CASE UNCHANGED emitted
  BY <1>3, <1>4 DEF GivenInv
<1>5. ASSUME NEW e, Giving(e) PROVE GivenInv'
  <2>1. /\ e \in Event /\ IsAnswer(e) /\ emitted' = Append(emitted, e)
        /\ watermark' = [watermark EXCEPT ![e.ch] = MaxTS(@, e.ts)]
    BY <1>5 DEF Giving
  <2>2. /\ Len(emitted) \in Nat /\ DOMAIN emitted = 1..Len(emitted)
        /\ DOMAIN emitted' = 1..(Len(emitted) + 1)
        /\ \A i \in 1..Len(emitted) : emitted'[i] = emitted[i]
        /\ emitted'[Len(emitted) + 1] = e
    BY <1>1, <2>1, AppendProperties, LenProperties
  <2>3. e.ts <= watermark'[e.ch]
    <3>1. e.ch \in AllChannels /\ e.ts \in Int /\ watermark[e.ch] \in Int
      BY <1>1, <2>1 DEF Event, Timestamps, NoTS
    <3> QED BY <1>1, <2>1, <3>1 DEF MaxTS
  <2>4. IsAnswer(e)'
    BY <1>2, <2>1
  <2>5. ASSUME NEW i \in DOMAIN emitted'
        PROVE  IsAnswer(emitted[i])' /\ emitted'[i].ts <= watermark'[emitted'[i].ch]
    <3>1. CASE i \in 1..Len(emitted)
      BY <1>3, <2>2, <3>1
    <3>2. CASE i = Len(emitted) + 1
      BY <2>2, <2>3, <2>4, <3>2 DEF IsAnswer, EventKey
    <3> QED BY <2>2, <2>5, <3>1, <3>2
  <2> QED BY <2>5 DEF GivenInv
<1> QED BY <1>4, <1>5, GivingStep

(* The invariant of the refinement holds at the start,                      *)
LEMMA DeliveryInit == Plain /\ Init => DeliveryInv
<1> SUFFICES ASSUME Plain, Init PROVE DeliveryInv
  OBVIOUS
<1>1. /\ log = StartLog /\ wire = << >> /\ batch = {} /\ pc = "connect" /\ seen = {}
      /\ emitted = << >>
      /\ watermark = [c \in AllChannels |-> NoTS]
  BY DEF Init, WorkspaceInit, SessionInit, CatchUpInit
<1>2. LossInv
  BY LossInit
<1>3. DOMAIN emitted = {}
  BY <1>1
<1>4. OnceInv
  BY <1>3 DEF OnceInv, EmittedIsSeen, EmittedOnce
<1>5. LogFits
  BY <1>1 DEF Plain, LogFits, Occurred
<1>6. AfterInv
  BY <1>1 DEF AfterInv, Attached
<1>7. GivenInv
  BY <1>3 DEF GivenInv
<1> QED BY <1>2, <1>4, <1>5, <1>6, <1>7 DEF DeliveryInv

(* and every step keeps it.                                                 *)
LEMMA DeliveryNext == Plain /\ DeliveryInv /\ [Next]_vars => DeliveryInv'
<1> SUFFICES ASSUME Plain, DeliveryInv, [Next]_vars PROVE DeliveryInv'
  OBVIOUS
<1>1. /\ LossInv /\ OnceInv /\ LogFits /\ AfterInv /\ GroundInv /\ TypeOK /\ LogInv
  BY DEF DeliveryInv, LossInv, GroundInv
<1>2. LossInv'
  BY <1>1, LossNext DEF Plain
<1>3. OnceInv'
  BY <1>1, OnceNext
<1>4. LogFits'
  BY <1>1, FitsNext
<1>5. AfterInv'
  BY <1>1, AfterNext
<1> QED BY <1>2, <1>3, <1>4, <1>5, GivenNext DEF DeliveryInv

-----------------------------------------------------------------------------
(* The refinement mapping: what is due, and what was delivered.             *)
Due == {Identity(m) : m \in {o \in Owed : Matches(o)}}
Handed == [i \in DOMAIN emitted |-> Identity(emitted[i])]

(* Answers are identified by a conversation and an instant of the log.      *)
LEMMA DueIsAnswer ==
  ASSUME GroundInv, LogFits
  PROVE  Due \subseteq AllChannels \X (0..(2 * MaxLog))
<1> SUFFICES ASSUME NEW m \in Owed PROVE Identity(m) \in AllChannels \X (0..(2 * MaxLog))
  BY DEF Due
<1>1. log \in Seq(Event) /\ LogInv
  BY TypeParts DEF GroundInv
<1>2. m \in Occurred /\ m.kind = "message" /\ m.ch \in AllChannels
  BY <1>1, OwedAre
<1>3. PICK i \in 1..Len(log) : m.ts = 2 * i
  BY <1>1, <1>2, OccurredAt
<1>4. Len(log) \in Nat /\ Len(log) <= MaxLog /\ MaxLog \in Nat
  BY <1>1, LenProperties, WorkspaceAssumption DEF LogFits
<1>5. m.ts \in 0..(2 * MaxLog)
  BY <1>3, <1>4
<1> QED BY <1>2, <1>5 DEF Identity

(* An answer due stays due,                                                 *)
LEMMA DueGrows ==
  ASSUME Plain, GroundInv, LogFits, [Next]_vars
  PROVE  Due \subseteq Due'
<1>1. Owed \subseteq Owed'
  BY OwedGrows
<1> QED BY <1>1 DEF Due, Identity, Matches, InScope, Narrows

(* and a step that leaves the log adds none, once the run has connected.    *)
LEMMA DueStays ==
  ASSUME GroundInv, [Next]_vars, UNCHANGED log, pc # "connect"
  PROVE  Due' = Due
<1>1. OwedFrom' = OwedFrom /\ pc' # "connect"
  BY BegunStays
<1>2. Owed' = Owed
  BY <1>1 DEF Owed, Readable, Occurred, InScope
<1> QED BY <1>2 DEF Due, Identity, Matches, InScope, Narrows

(* The mapping of an append is an append.                                   *)
LEMMA HandedAppends ==
  ASSUME emitted \in Seq(Event), NEW e \in Event, emitted' = Append(emitted, e)
  PROVE  Handed' = Append(Handed, Identity(e))
<1> DEFINE S == {Identity(x) : x \in Event}
<1>1. /\ Len(emitted) \in Nat /\ DOMAIN emitted = 1..Len(emitted)
      /\ emitted' \in Seq(Event) /\ DOMAIN emitted' = 1..(Len(emitted) + 1)
      /\ \A i \in 1..Len(emitted) : emitted[i] \in Event /\ emitted'[i] = emitted[i]
      /\ emitted'[Len(emitted) + 1] = e
  BY AppendProperties, LenProperties
<1>2. Handed \in Seq(S) /\ Len(Handed) = Len(emitted)
  BY <1>1 DEF Handed
<1>3. Handed' \in Seq(S) /\ Len(Handed') = Len(emitted) + 1
  <2>1. \A i \in 1..(Len(emitted) + 1) : emitted'[i] \in Event
    BY <1>1
  <2> QED BY <1>1, <2>1 DEF Handed
<1>4. /\ Append(Handed, Identity(e)) \in Seq(S)
      /\ Len(Append(Handed, Identity(e))) = Len(emitted) + 1
      /\ \A i \in 1..Len(emitted) : Append(Handed, Identity(e))[i] = Handed[i]
      /\ Append(Handed, Identity(e))[Len(emitted) + 1] = Identity(e)
  <2>1. Identity(e) \in S
    OBVIOUS
  <2> HIDE DEF S
  <2> QED BY <1>2, <2>1, AppendProperties
<1>5. \A i \in 1..(Len(emitted) + 1) : Handed'[i] = Append(Handed, Identity(e))[i]
  <2> TAKE i \in 1..(Len(emitted) + 1)
  <2>1. CASE i \in 1..Len(emitted)
    BY <1>1, <1>4, <2>1 DEF Handed, Identity
  <2>2. CASE i = Len(emitted) + 1
    BY <1>1, <1>4, <2>2 DEF Handed, Identity
  <2>3. i \in 1..Len(emitted) \/ i = Len(emitted) + 1
    <3> HIDE DEF S
    <3> QED BY <1>1
  <2> QED BY <2>1, <2>2, <2>3
<1> HIDE DEF S
<1> QED BY <1>3, <1>4, <1>5, SeqEqual

(* A gap is counted by an attached run, and by no step that posts.          *)
LEMMA GapsArePlain ==
  ASSUME GroundInv, [Next]_vars, gaps' # gaps
  PROVE  UNCHANGED log /\ pc # "connect"
<1>1. pc # "connect"
  BY DEF Next, Engine, Environment, Done, vars, runVars, Happens, ConnectSucceeds, ConnectFails,
         ReadChannel, ReadChannelFails, NothingToReadFrom, ReadThread, ReadDone, Replay, CaughtUp,
         ConsumeFrame, ConsumeIdle, ConsumeDone, SocketDropped, Backoff, RedialSucceeds,
         RedialFails, Finish, Drop, TimePasses, Expire, Cancel, sessionVars
<1>2. ~Happens
  BY DEF Happens, sessionVars
<1> QED BY <1>1, <1>2, LogStep DEF GroundInv

-----------------------------------------------------------------------------
(* What a step hands over is due and new; until a gap is counted it is past *)
(* what was handed over before, and nothing due is passed over.             *)
LEMMA GivingDelivers ==
  ASSUME Plain, DeliveryInv, NEW e, Giving(e)
  PROVE  /\ Identity(e) \in Due
         /\ \A i \in DOMAIN emitted : Identity(emitted[i]) # Identity(e)
         /\ gaps = 0 =>
              /\ \A i \in DOMAIN emitted :
                   emitted[i].ch = e.ch => emitted[i].ts < e.ts
              /\ \A o \in Owed : Matches(o) /\ o.ch = e.ch /\ o.ts < e.ts =>
                   \E i \in DOMAIN emitted : Identity(emitted[i]) = Identity(o)
<1>1. /\ GroundInv /\ log \in Seq(Event) /\ LogInv /\ emitted \in Seq(Event)
      /\ OnceInv /\ GivenInv /\ PosInv /\ SeenInv /\ FailInv
      /\ gaps \in Nat /\ e \in Event /\ EventKey(e) \notin seen /\ pc \in {"replay", "consume"}
  BY TypeParts DEF DeliveryInv, LossInv, GroundInv, SessionTypeOK, ControlTypeOK, Giving
<1>2. PICK m \in Owed : Matches(m) /\ EventKey(e) = EventKey(m)
  BY DEF Giving, IsAnswer
<1>3. /\ m \in Event /\ m \in Occurred /\ m.ch \in AllChannels /\ m.ts \in Nat
      /\ Identity(e) = Identity(m) /\ e.ch = m.ch /\ e.ts = m.ts
  BY <1>1, <1>2, OwedAre, SameIdentity
<1>4. Identity(e) \in Due
  BY <1>2, <1>3 DEF Due
<1>5. ASSUME NEW i \in DOMAIN emitted
      PROVE  /\ emitted[i] \in Event /\ EventKey(emitted[i]) # EventKey(e)
             /\ Identity(emitted[i]) # Identity(e)
  <2>1. emitted[i] \in Event
    BY <1>1
  <2>2. EventKey(emitted[i]) # EventKey(e)
    BY <1>1, <1>5 DEF OnceInv, EmittedIsSeen
  <2>3. PICK o \in Owed : EventKey(emitted[i]) = EventKey(o)
    BY <1>1 DEF GivenInv, IsAnswer
  <2>4. /\ o \in Occurred /\ Cursor(o) = o.ts /\ Cursor(m) = m.ts
        /\ Identity(emitted[i]) = Identity(o)
    BY <1>1, <2>1, <2>3, OwedAre, SameIdentity
  <2>5. ASSUME Identity(emitted[i]) = Identity(e) PROVE FALSE
    <3>1. o.ts = m.ts
      BY <1>3, <2>4, <2>5 DEF Identity
    <3>2. o = m
      BY <1>1, <1>3, <2>4, <3>1, SameInstant
    <3> QED BY <1>2, <2>2, <2>3, <3>2
  <2> QED BY <2>1, <2>2, <2>5
<1>6. ASSUME gaps = 0, NEW i \in DOMAIN emitted, emitted[i].ch = e.ch
      PROVE  emitted[i].ts < e.ts
  <2>1. m \in Unseen
    BY <1>1, <1>2 DEF Unseen
  <2>2. m.ts > watermark[m.ch]
    BY <1>1, <1>6, <2>1 DEF PosInv, Unbroken, Plain
  <2>3. emitted[i].ts <= watermark[m.ch]
    BY <1>1, <1>3, <1>6 DEF GivenInv
  <2>4. emitted[i].ts \in Int
    BY <1>5 DEF Event, Timestamps, NoTS
  <2> QED BY <1>1, <1>3, <2>2, <2>3, <2>4, PositionsArePast
<1>7. ASSUME gaps = 0, NEW o \in Owed, Matches(o), o.ch = e.ch, o.ts < e.ts
      PROVE  \E i \in DOMAIN emitted : Identity(emitted[i]) = Identity(o)
  <2>1. o \in Event /\ o \in Occurred /\ o.kind = "message" /\ InScope(o) /\ o.ts \in Nat
    BY <1>1, OwedAre
  <2>2. EventKey(o) \in seen
    <3>1. CASE EventKey(o) = EventKey(e)
      BY <1>1, <1>3, <1>7, <2>1, <3>1, SameIdentity
    <3>2. CASE EventKey(o) # EventKey(e) /\ o \in Unseen
      <4>1. e.ts < o.ts
        BY <1>7, <3>2 DEF Giving
      <4> QED BY <1>3, <1>7, <2>1, <4>1
    <3> QED BY <3>1, <3>2 DEF Unseen
  <2>3. ~emitFailed
    BY <1>1, <1>7 DEF FailInv, Leaving
  <2>4. EventKey(o) \in KeysOf(emitted)
    BY <1>1, <1>7, <2>1, <2>2, <2>3 DEF SeenInv, Matches
  <2>5. PICK i \in DOMAIN emitted : EventKey(emitted[i]) = EventKey(o)
    BY <2>4 DEF KeysOf
  <2> QED BY <1>1, <2>1, <2>5, SameIdentity
<1> QED BY <1>4, <1>5, <1>6, <1>7

(* What is due is among the answers the abstract specification knows.       *)
DueFits == Due \subseteq AllChannels \X (0..(2 * MaxLog))

(* Every step of a run is one of the abstract specification's, or changes   *)
(* nothing of it.                                                           *)
LEMMA DeliveryStep ==
  ASSUME Plain, DeliveryInv, DueFits', [Next]_vars
  PROVE  Delivery!Next \/ UNCHANGED <<Due, Handed, gaps > 0>>
<1>1. /\ GroundInv /\ LogFits /\ emitted \in Seq(Event) /\ gaps \in Nat
      /\ gaps' \in Nat /\ gaps' >= gaps
  <2>1. TypeOK'
    BY TypeNext DEF DeliveryInv, LossInv, GroundInv
  <2> QED BY <2>1, NeverTakenBack, TypeParts
          DEF DeliveryInv, LossInv, GroundInv, SessionTypeOK, ControlTypeOK, TypeOK
<1>2. ASSUME UNCHANGED emitted, gaps' > 0 <=> gaps > 0 PROVE Delivery!Posted
  <2>1. Due' \in SUBSET (AllChannels \X (0..(2 * MaxLog))) /\ Due \subseteq Due'
    BY <1>1, DueGrows DEF DueFits
  <2>2. Handed' = Handed /\ (gaps > 0)' = (gaps > 0)
    BY <1>2 DEF Handed, Identity
  <2> QED BY <2>1, <2>2 DEF Delivery!Posted, Due, Handed
<1>3. ASSUME UNCHANGED emitted, ~(gaps' > 0 <=> gaps > 0) PROVE Delivery!Admit
  <2>1. Due' = Due
    BY <1>1, <1>3, GapsArePlain, DueStays
  <2>2. Handed' = Handed /\ (gaps > 0)' = TRUE
    BY <1>1, <1>3 DEF Handed, Identity
  <2> QED BY <2>1, <2>2 DEF Delivery!Admit, Due, Handed
<1>4. ASSUME NEW e, Giving(e) PROVE \E a \in Due : Delivery!Deliver(a)
  <2>1. /\ e \in Event /\ emitted' = Append(emitted, e) /\ gaps' = gaps
        /\ log' = log /\ pc # "connect"
    BY <1>4 DEF Giving
  <2>2. Due' = Due /\ Handed' = Append(Handed, Identity(e)) /\ (gaps > 0)' = (gaps > 0)
    BY <1>1, <2>1, DueStays, HandedAppends
  <2>3. /\ Identity(e) \in Due
        /\ \A i \in DOMAIN emitted : Identity(emitted[i]) # Identity(e)
        /\ gaps = 0 =>
             /\ \A i \in DOMAIN emitted :
                  emitted[i].ch = e.ch => emitted[i].ts < e.ts
             /\ \A o \in Owed : Matches(o) /\ o.ch = e.ch /\ o.ts < e.ts =>
                  \E i \in DOMAIN emitted : Identity(emitted[i]) = Identity(o)
    BY <1>4, GivingDelivers
  <2>4. DOMAIN Handed = DOMAIN emitted
        /\ \A i \in DOMAIN emitted : Handed[i] = Identity(emitted[i])
    BY DEF Handed
  <2>5. Delivery!Given = {Identity(emitted[i]) : i \in DOMAIN emitted}
    BY <2>4 DEF Delivery!Given, Handed
  <2>6. Identity(e) \notin Delivery!Given
    BY <2>3, <2>5
  <2>7. ASSUME ~(gaps > 0)
        PROVE  /\ \A g \in Delivery!Given : g[1] = Identity(e)[1] => g[2] < Identity(e)[2]
               /\ \A b \in Due : b[1] = Identity(e)[1] /\ b[2] < Identity(e)[2]
                    => b \in Delivery!Given
    <3>1. gaps = 0
      BY <1>1, <2>7
    <3> QED BY <2>3, <2>5, <3>1 DEF Due, Identity
  <2>8. Delivery!Deliver(Identity(e))
    BY <2>2, <2>3, <2>6, <2>7 DEF Delivery!Deliver, Due, Handed
  <2> QED BY <2>3, <2>8
<1> QED BY <1>2, <1>3, <1>4, GivingStep DEF Delivery!Next, Due

(* The abstract specification starts where a run starts.                    *)
LEMMA DeliveryStart == Init => Delivery!Init
<1> SUFFICES ASSUME Init PROVE Delivery!Init
  OBVIOUS
<1>1. pc = "connect" /\ emitted = << >> /\ gaps = 0
  BY DEF Init, SessionInit
<1>2. Due = {}
  BY <1>1 DEF Due, Owed
<1>3. Handed = << >>
  BY <1>1 DEF Handed
<1>4. (gaps > 0) = FALSE
  BY <1>1
<1> QED BY <1>2, <1>3, <1>4 DEF Delivery!Init, Due, Handed

(* A run that asks for messages, without an event cap, hands over no answer *)
(* twice, and until it counts a gap it hands over each conversation's       *)
(* answers in the order they were posted and passes none of them over: it   *)
(* implements EventDelivery, for any number of conversations, drops, short  *)
(* histories, failed reads and copies (ImplementsDelivery, of offer, consume*)
(* and the catch-ups).                                                      *)
THEOREM StreamsDeliver ==
  ASSUME Plain
  PROVE  Spec => ImplementsDelivery
<1>1. Init => DeliveryInv /\ Delivery!Init
  BY DeliveryInit, DeliveryStart
<1>2. DeliveryInv /\ [Next]_vars => DeliveryInv'
  BY DeliveryNext
<1>3. DeliveryInv => DueFits
  BY DueIsAnswer DEF DeliveryInv, LossInv, DueFits
<1>4. DeliveryInv /\ DueFits' /\ [Next]_vars
        => [Delivery!Next]_<<Due, Handed, gaps > 0>>
  BY DeliveryStep
<1> QED BY <1>1, <1>2, <1>3, <1>4, PTL
        DEF Spec, ImplementsDelivery, Delivery!Spec, Due, Handed

-----------------------------------------------------------------------------
(* Reactions.  An addition, or a removal.                                   *)
Added(o) == o.kind = "reaction_added"
Removed(o) == o.kind = "reaction_removed"

(* The key of a reaction read back from history, which has no instant; and  *)
(* the reaction an event key is about.                                      *)
CaughtUpKey(r) == <<"reaction_added", r[1], r[2], NoTS, r[3], r[4]>>
ReactionOf(k) == <<k[2], k[3], k[5], k[6]>>

(* What the socket has sent and the run has not consumed.                   *)
OnWire == {wire[i] : i \in DOMAIN wire}

(* A reaction that was seen comes before whatever the socket still brings,  *)
(* and nothing of the future was seen.                                      *)
SeenPast ==
  /\ \A o \in Occurred : IsReaction(o) /\ EventKey(o) \in seen =>
       \A f \in OnWire : o.eventTS < Cursor(f)
  /\ \A k \in seen : k[1] \in {"reaction_added", "reaction_removed"} =>
       k[4] \in Timestamps /\ k[4] < Instant

(* A removal took back an addition that came before it, with no other       *)
(* removal of that reaction between the two.                                *)
TookBack(r) ==
  \E a \in Occurred : /\ Added(a) /\ ReactionKey(a) = ReactionKey(r) /\ a.eventTS < r.eventTS
                      /\ \A o \in Occurred : Removed(o) /\ ReactionKey(o) = ReactionKey(r) =>
                           o.eventTS < a.eventTS \/ o.eventTS >= r.eventTS

RemovalsInv == \A f \in OnWire : Removed(f) => TookBack(f)

(* No later removal of the addition was seen.                               *)
StandsSeen(a) ==
  \A r \in Occurred : Removed(r) /\ ReactionKey(r) = ReactionKey(a) /\ EventKey(r) \in seen =>
    r.eventTS < a.eventTS

(* What is read back: messages, and reactions that stand.                   *)
ReadBackReaction(e) ==
  /\ Added(e) /\ e.caughtUp /\ e.eventTS = NoTS
  /\ \E a \in Occurred : Added(a) /\ ReactionKey(a) = ReactionKey(e) /\ StandsSeen(a)

BatchInv ==
  /\ \A x \in reading.messages : x.kind = "message"
  /\ \A e \in batch : e.kind = "message" \/ ReadBackReaction(e)
  /\ batch # {} => pc = "replay"

(* Until a reaction was read back, it pends exactly while its live addition *)
(* is the last that was seen of it.                                         *)
PendingInv ==
  /\ \A r \in DOMAIN pending : CaughtUpKey(r) \notin seen => pending[r] = FALSE
  /\ \A a \in Occurred :
       /\ Added(a) /\ EventKey(a) \in seen /\ StandsSeen(a)
       /\ CaughtUpKey(ReactionKey(a)) \notin seen
       => ReactionKey(a) \in DOMAIN pending

(* An addition that is not handed over live: it was lost or paired, or it   *)
(* is the next of its reaction on the wire and will be paired.              *)
Spare(g) ==
  /\ Added(g) /\ EventKey(g) \notin KeysOf(emitted)
  /\ g \in OnWire =>
       /\ ReactionKey(g) \in DOMAIN pending /\ pending[ReactionKey(g)] = TRUE
       /\ \A f \in OnWire : IsReaction(f) /\ ReactionKey(f) = ReactionKey(g) =>
            g.eventTS <= f.eventTS

(* Every addition handed over was made, or was read back and stands for one *)
(* that is not handed over.                                                 *)
SpareInv ==
  \A k \in KeysOf(emitted) : k[1] = "reaction_added" =>
    \/ \E o \in Occurred : EventKey(o) = k
    \/ /\ k = CaughtUpKey(ReactionOf(k))
       /\ \E g \in Occurred : ReactionKey(g) = ReactionOf(k) /\ Spare(g)

(* ReactionsOnce, strengthened to be inductive.                             *)
ReactInv ==
  OnceInv /\ LogInv /\ WireInv /\ SeenPast /\ RemovalsInv /\ BatchInv /\ PendingInv /\ SpareInv

(* A nonempty set of natural numbers has a least element.                   *)
LEMMA LeastOf ==
  ASSUME NEW T \in SUBSET Nat, T # {}
  PROVE  \E x \in T : \A y \in T : x <= y
<1> DEFINE Below == {1..n : n \in T}
<1>1. \A n \in T : 1..n \in FiniteSubsetsOf(Nat)
  BY FS_Interval DEF FiniteSubsetsOf
<1>2. Below \subseteq FiniteSubsetsOf(Nat) /\ Below # {}
  BY <1>1
<1>3. PICK X \in Below : \A Y \in Below : <<Y, X>> \notin StrictSubsetOrdering(Nat)
  <2> HIDE DEF Below
  <2> QED BY <1>2, FS_StrictSubsetOrderingWellFounded, WFMin
<1>4. PICK x \in T : X = 1..x
  BY <1>3
<1>5. ASSUME NEW y \in T, ~(x <= y)
      PROVE  FALSE
  <2>1. y \in Nat /\ x \in Nat /\ y < x /\ x \in 1..x /\ x \notin 1..y
    BY <1>5
  <2>2. 1..y \in SUBSET Nat /\ 1..x \in SUBSET Nat /\ 1..y \subseteq 1..x /\ 1..y # 1..x
    BY <2>1
  <2>3. <<1..y, 1..x>> \in StrictSubsetOrdering(Nat)
    BY <2>2 DEF StrictSubsetOrdering
  <2> QED BY <1>3, <1>4, <2>3
<1> QED BY <1>5

(* A reaction that happened is dated by its instant.                        *)
LEMMA DatedAt ==
  ASSUME log \in Seq(Event), LogInv, NEW o \in Occurred, IsReaction(o)
  PROVE  o.eventTS = Cursor(o) /\ o.eventTS \in Nat /\ ~o.caughtUp /\ o.eventTS < Instant
<1>1. PICK i \in DOMAIN log : o = log[i]
  BY DEF Occurred
<1>2. o \in Event /\ i \in Nat /\ HappenedAt(o, i)
  BY <1>1, LenProperties DEF LogInv
<1>3. o.eventTS = 2 * i /\ ~o.caughtUp
  BY <1>2 DEF HappenedAt, IsReaction
<1>4. Cursor(o) = o.eventTS
  BY <1>2, <1>3 DEF Cursor, NoTS
<1> QED BY <1>2, <1>3, <1>4, BeforeNow DEF Instant

(* So its key is its own.                                                   *)
LEMMA KeyIsOwn ==
  ASSUME log \in Seq(Event), LogInv, NEW a \in Occurred, NEW b \in Occurred, IsReaction(a),
         EventKey(a) = EventKey(b)
  PROVE  a = b
<1>1. IsReaction(b) /\ a.eventTS = b.eventTS
  BY DEF EventKey, IsReaction
<1> QED BY <1>1, DatedAt, SameInstant

(* Two event keys that differ in a part differ.                             *)
LEMMA KeyParts ==
  ASSUME NEW e, NEW r
  PROVE  /\ EventKey(e)[1] = e.kind /\ EventKey(e)[4] = e.eventTS
         /\ ReactionOf(EventKey(e)) = ReactionKey(e)
         /\ CaughtUpKey(r)[1] = "reaction_added" /\ CaughtUpKey(r)[4] = NoTS
         /\ ReactionOf(CaughtUpKey(r)) = <<r[1], r[2], r[3], r[4]>>
         /\ EventKey(e) = CaughtUpKey(ReactionKey(e)) <=> Added(e) /\ e.eventTS = NoTS
BY DEF EventKey, ReactionKey, ReactionOf, CaughtUpKey, Added

(* What is on the wire happened, and what is consumed first happened first.  *)
LEMMA WireTail ==
  ASSUME wire \in Seq(Event), WireInv, wire # << >>, wire' = Tail(wire)
  PROVE  /\ Head(wire) \in OnWire /\ OnWire' \subseteq OnWire
         /\ \A f \in OnWire' : Cursor(Head(wire)) < Cursor(f)
<1>1. /\ Len(wire) \in Nat /\ DOMAIN wire = 1..Len(wire) /\ Len(wire) # 0
      /\ DOMAIN wire' = 1..(Len(wire) - 1) /\ Head(wire) = wire[1]
      /\ \A i \in 1..(Len(wire) - 1) : wire'[i] = wire[i + 1]
  BY HeadTailProperties, LenProperties, EmptySeq
<1>2. \A i \in DOMAIN wire' : i + 1 \in DOMAIN wire /\ 1 < i + 1 /\ wire'[i] = wire[i + 1]
  BY <1>1
<1>3. 1 \in DOMAIN wire
  BY <1>1
<1> QED BY <1>1, <1>2, <1>3 DEF OnWire, WireInv

(* The steps that matter to reactions, and the others: only a replayed or a *)
(* consumed event is seen, pending or handed over.                          *)
LEMMA ReactionSteps ==
  ASSUME TypeOK, LogInv, WireInv, [Next]_vars
  PROVE  \/ /\ UNCHANGED <<seen, pending, emitted, reading, batch, pc>>
            /\ \E e \in NextActivity :
                 /\ Occurred' = Occurred \cup {e} /\ Instant' = Instant + 2
                 /\ OnWire' \subseteq OnWire \cup {e}
                 /\ Cursor(e) = Instant /\ (IsReaction(e) => e.eventTS = Instant)
         \/ UNCHANGED <<log, seen, pending, emitted>> /\ OnWire' \subseteq OnWire
         \/ \E e \in batch : Replay(e)
         \/ ConsumeFrame
<1>1. /\ wire \in Seq(Event) /\ Len(wire) \in Nat /\ DOMAIN wire = 1..Len(wire)
  BY TypeParts, LenProperties
<1>2. CASE Happens
  <2>1. PICK e \in NextActivity :
          /\ Occurred' = Occurred \cup {e} /\ Instant' = Instant + 2
          /\ e \in Event /\ Cursor(e) = Instant
          /\ wire' = IF open THEN Append(wire, e) ELSE wire
    BY <1>2, LogStep DEF Happens
  <2>2. OnWire' \subseteq OnWire \cup {e}
    <3>1. CASE open
      <4>1. /\ DOMAIN wire' = 1..(Len(wire) + 1)
            /\ \A i \in 1..Len(wire) : wire'[i] = wire[i]
            /\ wire'[Len(wire) + 1] = e
        BY <1>1, <2>1, <3>1, AppendProperties, LenProperties
      <4>2. \A i \in DOMAIN wire' : i \in DOMAIN wire \/ i = Len(wire) + 1
        BY <1>1, <4>1
      <4> QED BY <1>1, <4>1, <4>2 DEF OnWire
    <3>2. CASE ~open
      BY <2>1, <3>2 DEF OnWire
    <3> QED BY <3>1, <3>2
  <2>3. IsReaction(e) => e.eventTS = Instant
    <3>1. HappenedAt(e, Len(log) + 1)
      BY <2>1, NextHappens, TypeParts
    <3> QED BY <3>1 DEF HappenedAt, IsReaction, Instant
  <2> QED BY <1>2, <2>1, <2>2, <2>3 DEF Happens, sessionVars, deliveryVars, runVars
<1>3. CASE Drop
  <2>1. PICK n \in 0..Len(wire) : wire' = SubSeq(wire, 1, n)
    BY <1>3 DEF Drop
  <2>2. /\ DOMAIN wire' \subseteq DOMAIN wire
        /\ \A i \in DOMAIN wire' : wire'[i] = wire[i]
    BY <1>1, <2>1, SubSeqProperties
  <2> QED BY <1>3, <2>2 DEF Drop, OnWire, sessionVars, deliveryVars
<1>4. CASE ConnectSucceeds \/ RedialSucceeds
  <2>1. DOMAIN wire' = {} /\ UNCHANGED <<log, seen, pending, emitted>>
    BY <1>4 DEF ConnectSucceeds, RedialSucceeds, sessionVars, deliveryVars
  <2> QED BY <2>1 DEF OnWire
<1>5. CASE UNCHANGED <<log, seen, pending, emitted, wire>>
  BY <1>5 DEF OnWire
<1>6. \/ UNCHANGED <<log, seen, pending, emitted, wire>>
      \/ Happens \/ Drop \/ ConnectSucceeds \/ RedialSucceeds \/ ConsumeFrame
      \/ \E e \in batch : Replay(e)
  <2>1. CASE UNCHANGED vars \/ Done \/ TimePasses \/ Expire \/ Cancel
    BY <2>1 DEF Done, vars, sessionVars, deliveryVars, TimePasses, Expire, Cancel
  <2>2. CASE ConnectFails \/ CaughtUp \/ ConsumeIdle \/ ConsumeDone
    BY <2>2 DEF ConnectFails, CaughtUp, ConsumeIdle, ConsumeDone, sessionVars, deliveryVars
  <2>3. CASE \/ \E c \in todo : ReadChannel(c) \/ ReadChannelFails(c) \/ NothingToReadFrom(c)
             \/ \E root \in reading.roots : ReadThread(root)
             \/ ReadDone
    BY <2>3 DEF ReadChannel, ReadChannelFails, NothingToReadFrom, ReadThread, ReadDone,
                sessionVars, deliveryVars
  <2>4. CASE SocketDropped \/ Backoff \/ RedialFails \/ Finish
    BY <2>4 DEF SocketDropped, Backoff, RedialFails, Finish, sessionVars, deliveryVars
  <2> QED BY <2>1, <2>2, <2>3, <2>4 DEF Next, Engine, Environment
<1> QED BY <1>2, <1>3, <1>4, <1>5, <1>6

(* Offering an event that was not seen pairs it, and hands it over only when *)
(* it is no duplicate.                                                      *)
LEMMA OfferPairs ==
  ASSUME SessionTypeOK, NEW e \in Event, NEW fails \in BOOLEAN, Offer(e, fails)
  PROVE  \/ EventKey(e) \in seen /\ UNCHANGED <<seen, pending, emitted>>
         \/ /\ EventKey(e) \notin seen /\ seen' = seen \cup {EventKey(e)}
            /\ PairReaction(e)
            /\ \/ UNCHANGED emitted
               \/ ~IsDuplicateReaction(e) /\ KeysOf(emitted') = KeysOf(emitted) \cup {EventKey(e)}
<1> DEFINE w == WithThread(e)
<1>1. w \in Event /\ EventKey(w) = EventKey(e) /\ emitted \in Seq(Event)
  BY WithThreadType DEF SessionTypeOK
<1>2. CASE EventKey(e) \in seen
  BY <1>2 DEF Offer, deliveryVars
<1>3. CASE EventKey(e) \notin seen
  <2>1. seen' = seen \cup {EventKey(e)} /\ PairReaction(e)
    BY <1>3 DEF Offer
  <2>2. UNCHANGED emitted \/ (~IsDuplicateReaction(e) /\ emitted' = Append(emitted, w))
    BY <1>3 DEF Offer, Emit, EmitFails, ReportSkipped, NothingDelivered
  <2> HIDE DEF w
  <2>3. emitted' = Append(emitted, w) => KeysOf(emitted') = KeysOf(emitted) \cup {EventKey(e)}
    BY <1>1, AppendKeys
  <2> QED BY <1>3, <2>1, <2>2, <2>3
<1> QED BY <1>2, <1>3

(* What pairing does: nothing to other reactions, and nothing at all for    *)
(* what is not one.                                                         *)
LEMMA PairOthers ==
  ASSUME NEW e, PairReaction(e), NEW r, r # ReactionKey(e) \/ ~IsReaction(e)
  PROVE  /\ r \in DOMAIN pending' <=> r \in DOMAIN pending
         /\ r \in DOMAIN pending => pending'[r] = pending[r]
<1>1. CASE pending' = Forget(ReactionKey(e)) /\ r # ReactionKey(e)
  BY <1>1 DEF Forget
<1>2. CASE /\ pending' = Override(pending, [k \in {ReactionKey(e)} |-> e.caughtUp])
           /\ r # ReactionKey(e)
  BY <1>2 DEF Override
<1>3. CASE pending' = pending
  BY <1>3
<1> QED BY <1>1, <1>2, <1>3 DEF PairReaction, IsDuplicateReaction, IsReaction

(* A removal forgets the reaction; an addition pends unless it is paired.   *)
LEMMA PairOwn ==
  ASSUME NEW e, PairReaction(e)
  PROVE  /\ Removed(e) => ReactionKey(e) \notin DOMAIN pending'
         /\ Added(e) /\ ~IsDuplicateReaction(e) =>
              ReactionKey(e) \in DOMAIN pending' /\ pending'[ReactionKey(e)] = e.caughtUp
         /\ Added(e) /\ ReactionKey(e) \in DOMAIN pending
              /\ pending[ReactionKey(e)] = e.caughtUp => ~IsDuplicateReaction(e)
<1>1. Removed(e) => pending' = Forget(ReactionKey(e))
  BY DEF PairReaction, IsDuplicateReaction, Removed
<1>2. Added(e) /\ ~IsDuplicateReaction(e) =>
        pending' = Override(pending, [k \in {ReactionKey(e)} |-> e.caughtUp])
  BY DEF PairReaction, Added
<1>3. ReactionKey(e) \notin DOMAIN Forget(ReactionKey(e))
  BY DEF Forget
<1>4. LET f == Override(pending, [k \in {ReactionKey(e)} |-> e.caughtUp])
      IN  ReactionKey(e) \in DOMAIN f /\ f[ReactionKey(e)] = e.caughtUp
  BY DEF Override
<1>5. Added(e) /\ ReactionKey(e) \in DOMAIN pending
        /\ pending[ReactionKey(e)] = e.caughtUp => ~IsDuplicateReaction(e)
  BY DEF IsDuplicateReaction
<1> QED BY <1>1, <1>2, <1>3, <1>4, <1>5

-----------------------------------------------------------------------------
(* A reaction is taken back only while it stands (ReactionsRemoved).        *)
LEMMA NewRemoval ==
  ASSUME log \in Seq(Event), LogInv, NEW e \in NextActivity, Removed(e),
         Occurred' = Occurred \cup {e}, e.eventTS = Instant
  PROVE  TookBack(e)'
<1>1. \E m \in AllMessages : e \in ReactionsRemoved(m)
  <2>1. e \notin PossiblePosts
    BY DEF PossiblePosts, Posts, Removed
  <2>2. e \notin Edits \cup Deletions
    <3>1. ASSUME NEW m \in AllMessages
          PROVE  /\ Modified(m, "message_changed").kind # "reaction_removed"
                 /\ [Modified(m, "message_deleted") EXCEPT !.thread = NoTS].kind
                      # "reaction_removed"
      <4>1. m \in Event
        BY MessagesType DEF AllMessages
      <4> QED BY <4>1 DEF Modified, Event
    <3> QED BY <3>1 DEF Edits, Deletions, Removed
  <2>3. \A m \in AllMessages : e \notin ReactionsAdded(m)
    BY DEF ReactionsAdded, ReactionFrame, Removed
  <2> QED BY <2>1, <2>2, <2>3 DEF NextActivity, Reacting
<1>2. PICK m \in AllMessages :
        \E a \in ReactionsOn(m) : e = ReactionFrame("reaction_removed", m, a.author, a.reaction)
  BY <1>1 DEF ReactionsRemoved
<1>3. PICK a \in ReactionsOn(m) : e = ReactionFrame("reaction_removed", m, a.author, a.reaction)
  BY <1>2
<1>4. /\ a \in Occurred /\ Added(a) /\ ReactionKey(a) = ReactionKey(e)
      /\ \A r \in Occurred : Removed(r) /\ ReactionKey(r) = ReactionKey(e) => ~(r.eventTS > a.eventTS)
  BY <1>3 DEF ReactionsOn, ReactionFrame, ReactionKey, Added, Removed
<1>5. a.eventTS < e.eventTS /\ a.eventTS \in Nat
  BY <1>4, DatedAt DEF IsReaction, Added
<1>6. ASSUME NEW o \in Occurred \cup {e}, Removed(o), ReactionKey(o) = ReactionKey(e)
      PROVE  o.eventTS < a.eventTS \/ o.eventTS >= e.eventTS
  <2>1. CASE o = e
    <3>1. e.eventTS \in Nat
      BY LenProperties DEF Instant
    <3> QED BY <2>1, <3>1
  <2>2. CASE o \in Occurred
    <3>1. IsReaction(o) /\ IsReaction(a) /\ o # a
      BY <1>4, <1>6 DEF IsReaction, Added, Removed
    <3>2. o.eventTS \in Nat /\ o.eventTS # a.eventTS
      BY <1>4, <2>2, <3>1, DatedAt, SameInstant
    <3> QED BY <1>4, <1>5, <1>6, <2>2, <3>2
  <2> QED BY <1>6, <2>1, <2>2
<1> QED BY <1>4, <1>5, <1>6 DEF TookBack

(* What was taken back stays so: what happens next comes later.             *)
LEMMA TookBackStays ==
  ASSUME log \in Seq(Event), LogInv, NEW r \in Occurred, Removed(r), TookBack(r),
         NEW e, Occurred' = Occurred \cup {e}, IsReaction(e) => e.eventTS = Instant
  PROVE  TookBack(r)'
<1>1. PICK a \in Occurred :
        /\ Added(a) /\ ReactionKey(a) = ReactionKey(r) /\ a.eventTS < r.eventTS
        /\ \A o \in Occurred : Removed(o) /\ ReactionKey(o) = ReactionKey(r) =>
             o.eventTS < a.eventTS \/ o.eventTS >= r.eventTS
  BY DEF TookBack
<1>2. r.eventTS < Instant /\ r.eventTS \in Nat /\ Instant \in Nat
  BY DatedAt, LenProperties DEF IsReaction, Removed, Instant
<1>3. Removed(e) => e.eventTS >= r.eventTS
  BY <1>2 DEF IsReaction, Removed
<1> QED BY <1>1, <1>3 DEF TookBack

(* Every removal on the wire took back an addition.                         *)
LEMMA RemovalsNext ==
  TypeOK /\ LogInv /\ WireInv /\ RemovalsInv /\ [Next]_vars => RemovalsInv'
<1> SUFFICES ASSUME TypeOK, LogInv, WireInv, RemovalsInv, [Next]_vars PROVE RemovalsInv'
  OBVIOUS
<1>1. log \in Seq(Event) /\ wire \in Seq(Event) /\ OnWire \subseteq Occurred
  BY TypeParts DEF WireInv, OnWire
<1>2. CASE UNCHANGED log /\ OnWire' \subseteq OnWire
  <2>1. UNCHANGED Occurred
    BY <1>2 DEF Occurred
  <2> QED BY <1>2, <2>1 DEF RemovalsInv, TookBack
<1>3. CASE \E e \in NextActivity :
             /\ Occurred' = Occurred \cup {e} /\ OnWire' \subseteq OnWire \cup {e}
             /\ IsReaction(e) => e.eventTS = Instant
  <2>1. PICK e \in NextActivity :
          /\ Occurred' = Occurred \cup {e} /\ OnWire' \subseteq OnWire \cup {e}
          /\ IsReaction(e) => e.eventTS = Instant
    BY <1>3
  <2>2. Removed(e) => TookBack(e)'
    BY <1>1, <2>1, NewRemoval DEF IsReaction, Removed
  <2>3. \A f \in OnWire : Removed(f) => TookBack(f)'
    BY <1>1, <2>1, TookBackStays DEF RemovalsInv
  <2> QED BY <2>1, <2>2, <2>3 DEF RemovalsInv
<1>4. CASE \E e \in batch : Replay(e)
  <2>1. UNCHANGED <<log, wire>>
    BY <1>4 DEF Replay
  <2> QED BY <1>2, <2>1 DEF OnWire
<1>5. CASE ConsumeFrame
  <2>1. UNCHANGED log /\ wire # << >> /\ wire' = Tail(wire)
    BY <1>5 DEF ConsumeFrame
  <2> QED BY <1>1, <1>2, <2>1, WireTail
<1> QED BY <1>2, <1>3, <1>4, <1>5, ReactionSteps

-----------------------------------------------------------------------------
(* The history and replies requests bring messages.                         *)
LEMMA ReadsBringMessages ==
  ASSUME NEW c, NEW t
  PROVE  /\ \A x \in FetchThread(c, t) : x.kind = "message"
         /\ \A x \in FirstRead(c, t).messages : x.kind = "message"
<1>1. ASSUME NEW m, m.kind = "message" PROVE Summary(m).kind = "message"
  BY <1>1 DEF Summary
<1>2. \A r : \A x \in FetchThread(c, r) : x.kind = "message"
  BY <1>1 DEF FetchThread, Messages
<1>3. \A s : \A x \in HistorySince(c, s).messages : x.kind = "message"
  <2>1. \A s : \A x \in ChannelHistory(c, s) : x.kind = "message"
    BY <1>1 DEF ChannelHistory, Messages
  <2> QED BY <2>1 DEF HistorySince, Newest
<1>4. FirstRead(c, t).messages \in
        {FetchThread(c, ThreadTS)} \cup {HistorySince(c, s).messages : s \in {t, EarlierTS(RepliesTo, t)}}
  BY DEF FirstRead
<1> QED BY <1>2, <1>3, <1>4

(* The reactions read back with a message are those that stand.             *)
LEMMA ReadBackStands ==
  ASSUME log \in Seq(Event), LogInv, NEW M \in SUBSET Event,
         \A x \in M : x.kind = "message", NEW t, NEW e \in CatchUpEvents(M, t)
  PROVE  e.kind = "message" \/ ReadBackReaction(e)
<1>1. CASE e \in M
  BY <1>1
<1>2. ASSUME NEW m \in M, e \in CaughtUpReactions(m)
      PROVE  ReadBackReaction(e)
  <2>1. PICK a \in ReactionsOn(m) :
          e = [a EXCEPT !.eventTS = NoTS, !.thread = m.thread, !.caughtUp = TRUE]
    BY <1>2 DEF CaughtUpReactions
  <2>2. /\ a \in Occurred /\ Added(a)
        /\ \A r \in Occurred : Removed(r) /\ ReactionKey(r) = ReactionKey(a) => ~(r.eventTS > a.eventTS)
    BY <2>1 DEF ReactionsOn, Added, Removed
  <2>3. a \in Event
    BY <2>2, OccurredType
  <2>4. Added(e) /\ e.caughtUp /\ e.eventTS = NoTS /\ ReactionKey(e) = ReactionKey(a)
    BY <2>1, <2>2, <2>3 DEF Event, Added, ReactionKey
  <2>5. ASSUME NEW r \in Occurred, Removed(r), ReactionKey(r) = ReactionKey(a)
        PROVE  r.eventTS < a.eventTS
    <3>1. IsReaction(r) /\ IsReaction(a) /\ r # a
      BY <2>2, <2>5 DEF IsReaction, Added, Removed
    <3>2. r.eventTS # a.eventTS /\ r.eventTS \in Nat /\ a.eventTS \in Nat
      BY <2>2, <3>1, DatedAt, SameInstant
    <3> QED BY <2>2, <2>5, <3>2
  <2> QED BY <2>2, <2>4, <2>5 DEF ReadBackReaction, StandsSeen
<1> QED BY <1>1, <1>2 DEF CatchUpEvents

(* What was read back stands while no removal is newly seen.                *)
LEMMA ReadBackStays ==
  ASSUME Occurred \subseteq Occurred',
         \A r \in Occurred' : Removed(r) /\ EventKey(r) \in seen' => r \in Occurred /\ EventKey(r) \in seen,
         NEW e, ReadBackReaction(e)
  PROVE  ReadBackReaction(e)'
BY DEF ReadBackReaction, StandsSeen

(* Caught-up events are offered before anything else happens to the run.    *)
LEMMA BatchPlace ==
  ASSUME BatchInv, [Next]_vars
  PROVE  batch' # {} => pc' = "replay"
<1>1. CASE UNCHANGED vars \/ Done \/ Environment
  BY <1>1 DEF BatchInv, Done, vars, runVars, Environment, Happens, Drop, TimePasses, Expire, Cancel
<1>2. CASE ConnectSucceeds \/ ConnectFails
  BY <1>2 DEF BatchInv, ConnectSucceeds, ConnectFails
<1>3. CASE \/ \E c \in todo : ReadChannel(c) \/ ReadChannelFails(c) \/ NothingToReadFrom(c)
           \/ \E root \in reading.roots : ReadThread(root)
           \/ ReadDone
  BY <1>3 DEF BatchInv, ReadChannel, ReadChannelFails, NothingToReadFrom, ReadThread, ReadDone,
              CatchUpFails
<1>4. CASE \E e \in batch : Replay(e)
  BY <1>4 DEF Replay, CatchUpFails
<1>5. CASE CaughtUp \/ ConsumeFrame \/ ConsumeIdle \/ ConsumeDone
  BY <1>5 DEF BatchInv, CaughtUp, ConsumeFrame, ConsumeIdle, ConsumeDone
<1>6. CASE SocketDropped \/ Backoff \/ RedialSucceeds \/ RedialFails \/ Finish
  BY <1>6 DEF BatchInv, SocketDropped, Backoff, RedialSucceeds, RedialFails, Finish
<1> QED BY <1>1, <1>2, <1>3, <1>4, <1>5, <1>6 DEF Next, Engine

(* What is offered was read back, or is the next frame of the socket.       *)
LEMMA OfferSteps ==
  ASSUME TypeOK, WireInv, BatchInv, (\E e \in batch : Replay(e)) \/ ConsumeFrame
  PROVE  \E e \in Event, fails \in BOOLEAN :
           /\ Offer(e, fails) /\ UNCHANGED <<log, reading>> /\ batch' \subseteq batch
           /\ \/ (e.kind = "message" \/ ReadBackReaction(e)) /\ UNCHANGED OnWire
              \/ /\ e \in Occurred /\ e \in OnWire /\ OnWire' \subseteq OnWire /\ batch' = {}
                 /\ \A f \in OnWire' : Cursor(e) < Cursor(f)
<1>1. wire \in Seq(Event) /\ batch \subseteq Event /\ OnWire \subseteq Occurred
  BY TypeParts DEF ControlTypeOK, WireInv, OnWire
<1>2. CASE \E e \in batch : Replay(e)
  <2>1. PICK e \in batch : Replay(e)
    BY <1>2
  <2>2. UNCHANGED <<log, reading, wire>> /\ batch' \subseteq batch
    BY <2>1 DEF Replay, CatchUpFails
  <2>3. \E fails \in BOOLEAN : Offer(e, fails)
    BY <2>1 DEF Replay
  <2>4. e \in Event /\ (e.kind = "message" \/ ReadBackReaction(e))
    BY <1>1 DEF BatchInv
  <2>5. UNCHANGED OnWire
    BY <2>2 DEF OnWire
  <2> QED BY <2>2, <2>3, <2>4, <2>5
<1>3. CASE ConsumeFrame
  <2>1. /\ pc = "consume" /\ wire # << >> /\ wire' = Tail(wire)
        /\ UNCHANGED <<log, reading, batch>>
    BY <1>3 DEF ConsumeFrame
  <2>2. \E fails \in BOOLEAN : Offer(Head(wire), fails)
    BY <1>3 DEF ConsumeFrame
  <2>3. batch = {} /\ batch' = {}
    BY <2>1 DEF BatchInv
  <2>4. Head(wire) \in Event
    BY <1>1, <2>1, HeadTailProperties
  <2> QED BY <1>1, <2>1, <2>2, <2>3, <2>4, WireTail
<1> QED BY <1>2, <1>3

(* Nothing of the future is seen, and nothing seen comes again.             *)
LEMMA SeenPastNext ==
  TypeOK /\ LogInv /\ WireInv /\ BatchInv /\ SeenPast /\ [Next]_vars => SeenPast'
<1> SUFFICES ASSUME TypeOK, LogInv, WireInv, BatchInv, SeenPast, [Next]_vars PROVE SeenPast'
  OBVIOUS
<1>1. log \in Seq(Event) /\ Instant \in Nat /\ SessionTypeOK
  BY TypeParts, LenProperties DEF Instant
<1>2. CASE UNCHANGED <<log, seen>> /\ OnWire' \subseteq OnWire
  <2>1. UNCHANGED <<Occurred, Instant>>
    BY <1>2 DEF Occurred, Instant
  <2> QED BY <1>2, <2>1 DEF SeenPast
<1>3. CASE \E e \in NextActivity :
             /\ UNCHANGED seen /\ Occurred' = Occurred \cup {e} /\ Instant' = Instant + 2
             /\ OnWire' \subseteq OnWire \cup {e}
             /\ Cursor(e) = Instant /\ (IsReaction(e) => e.eventTS = Instant)
  <2>1. PICK e \in NextActivity :
          /\ UNCHANGED seen /\ Occurred' = Occurred \cup {e} /\ Instant' = Instant + 2
          /\ OnWire' \subseteq OnWire \cup {e}
          /\ Cursor(e) = Instant /\ (IsReaction(e) => e.eventTS = Instant)
    BY <1>3
  <2>2. IsReaction(e) => EventKey(e) \notin seen
    BY <1>1, <2>1, KeyParts DEF SeenPast, IsReaction
  <2>3. ASSUME NEW o \in Occurred, IsReaction(o), EventKey(o) \in seen
        PROVE  \A f \in OnWire' : o.eventTS < Cursor(f)
    BY <1>1, <2>1, <2>3, DatedAt DEF SeenPast
  <2>4. \A k \in seen : k[1] \in {"reaction_added", "reaction_removed"} =>
          k[4] \in Timestamps /\ k[4] < Instant'
    BY <1>1, <2>1 DEF SeenPast, Timestamps, NoTS
  <2> QED BY <2>1, <2>2, <2>3, <2>4 DEF SeenPast
<1>4. CASE (\E e \in batch : Replay(e)) \/ ConsumeFrame
  <2>1. PICK e \in Event, fails \in BOOLEAN :
           /\ Offer(e, fails) /\ UNCHANGED <<log, reading>>
           /\ \/ (e.kind = "message" \/ ReadBackReaction(e)) /\ UNCHANGED OnWire
              \/ /\ e \in Occurred /\ e \in OnWire /\ OnWire' \subseteq OnWire
                 /\ \A f \in OnWire' : Cursor(e) < Cursor(f)
    BY <1>4, OfferSteps
  <2>2. seen' \subseteq seen \cup {EventKey(e)}
    BY <1>1, <2>1, OfferPairs
  <2>3. UNCHANGED <<Occurred, Instant>> /\ OnWire' \subseteq OnWire
    BY <2>1 DEF Occurred, Instant
  <2>4. IsReaction(e) => e.eventTS \in Timestamps /\ e.eventTS < Instant
    <3>1. CASE e \in Occurred
      BY <1>1, <3>1, DatedAt DEF Timestamps
    <3>2. CASE e.kind = "message" \/ ReadBackReaction(e)
      BY <1>1, <3>2 DEF ReadBackReaction, IsReaction, NoTS, Timestamps
    <3> QED BY <2>1, <3>1, <3>2
  <2>5. \A k \in seen' : k[1] \in {"reaction_added", "reaction_removed"} =>
          k[4] \in Timestamps /\ k[4] < Instant
    BY <2>2, <2>4, KeyParts DEF SeenPast, IsReaction
  <2>6. ASSUME NEW o \in Occurred, IsReaction(o), EventKey(o) = EventKey(e), NEW f \in OnWire'
        PROVE  o.eventTS < Cursor(f)
    <3>1. e.eventTS = o.eventTS /\ e.kind = o.kind
      BY <2>6 DEF EventKey
    <3>2. o.eventTS = Cursor(o) /\ o.eventTS \in Nat
      BY <1>1, <2>6, DatedAt
    <3>3. CASE e.kind = "message" \/ ReadBackReaction(e)
      BY <2>6, <3>1, <3>2, <3>3 DEF ReadBackReaction, IsReaction, NoTS
    <3>4. CASE e \in Occurred /\ Cursor(e) < Cursor(f)
      <4>1. e = o
        BY <1>1, <2>6, <3>4, KeyIsOwn
      <4> QED BY <3>2, <3>4, <4>1
    <3> QED BY <2>1, <3>3, <3>4
  <2>7. \A o \in Occurred : IsReaction(o) /\ EventKey(o) \in seen' =>
          \A f \in OnWire' : o.eventTS < Cursor(f)
    BY <2>2, <2>3, <2>6 DEF SeenPast
  <2> QED BY <2>3, <2>5, <2>7 DEF SeenPast
<1> QED BY <1>2, <1>3, <1>4, ReactionSteps

(* The requests of a catch-up bring messages, which become events at its end. *)
LEMMA ReadingNext ==
  ASSUME TypeOK, WireInv, BatchInv, [Next]_vars
  PROVE  /\ \A x \in reading'.messages : x.kind = "message"
         /\ \/ batch' \subseteq batch
            \/ UNCHANGED <<log, seen>> /\ \E t : batch' = CatchUpEvents(reading.messages, t)
<1>1. reading \in ReadingType
  BY TypeParts DEF ControlTypeOK
<1>2. \A x \in reading.messages : x.kind = "message"
  BY DEF BatchInv
<1>3. CASE UNCHANGED reading /\ batch' \subseteq batch
  BY <1>2, <1>3
<1>4. CASE \E c \in todo : ReadChannel(c)
  <2>1. PICK c \in todo : ReadChannel(c)
    BY <1>4
  <2>2. reading'.messages = FirstRead(c, FillFrom(c)).messages /\ UNCHANGED batch
    BY <2>1 DEF ReadChannel, BeginRead
  <2> QED BY <2>2, ReadsBringMessages
<1>5. CASE \E root \in reading.roots : ReadThread(root)
  <2>1. PICK root \in reading.roots : ReadThread(root)
    BY <1>5
  <2>2. UNCHANGED batch /\ ReadRoot(root, RunOver)
    BY <2>1 DEF ReadThread
  <2>3. reading'.messages \subseteq reading.messages \cup FetchThread(reading.ch, root)
    BY <1>1, <2>2 DEF ReadRoot, ReadingType
  <2> QED BY <1>2, <2>2, <2>3, ReadsBringMessages
<1>6. CASE ReadDone
  <2>1. batch' = CatchUpEvents(reading.messages, FillFrom(reading.ch)) /\ reading' = NotReading
    BY <1>6 DEF ReadDone, FinishRead
  <2>2. UNCHANGED <<log, seen>>
    BY <1>6 DEF ReadDone
  <2> QED BY <2>1, <2>2 DEF NotReading
<1>7. CASE (\E e \in batch : Replay(e)) \/ ConsumeFrame
  BY <1>3, <1>7, OfferSteps
<1> QED BY <1>3, <1>4, <1>5, <1>6, <1>7, StepKinds
        DEF Happens, Drop, ConnectSucceeds, RedialSucceeds, Quiet, runVars

(* What waits to be offered was read back, and still stands.                *)
LEMMA BatchNext ==
  TypeOK /\ LogInv /\ WireInv /\ SeenPast /\ BatchInv /\ [Next]_vars => BatchInv'
<1> SUFFICES ASSUME TypeOK, LogInv, WireInv, SeenPast, BatchInv, [Next]_vars PROVE BatchInv'
  OBVIOUS
<1>1. /\ log \in Seq(Event) /\ Instant \in Nat /\ SessionTypeOK
      /\ reading.messages \in SUBSET Event
  BY TypeParts, LenProperties DEF Instant, ControlTypeOK, ReadingType
<1>2. Occurred \subseteq Occurred'
  BY GenuineStays
<1>3. CASE UNCHANGED <<log, seen>> /\ \E t : batch' = CatchUpEvents(reading.messages, t)
  <2>1. \A e \in batch' : e.kind = "message" \/ ReadBackReaction(e)
    BY <1>1, <1>3, ReadBackStands DEF BatchInv
  <2>2. UNCHANGED Occurred
    BY <1>3 DEF Occurred
  <2>3. \A e : ReadBackReaction(e) => ReadBackReaction(e)'
    BY <1>3, <2>2, ReadBackStays
  <2> QED BY <2>1, <2>3, ReadingNext, BatchPlace DEF BatchInv
<1>4. CASE \A r \in Occurred' : Removed(r) /\ EventKey(r) \in seen' =>
             r \in Occurred /\ EventKey(r) \in seen
  <2>1. \A e : ReadBackReaction(e) => ReadBackReaction(e)'
    BY <1>2, <1>4, ReadBackStays
  <2>2. CASE batch' \subseteq batch
    BY <2>1, <2>2, ReadingNext, BatchPlace DEF BatchInv
  <2> QED BY <1>3, <2>2, ReadingNext
<1>5. CASE batch' = {}
  BY <1>5, ReadingNext DEF BatchInv
<1>6. CASE UNCHANGED <<log, seen>>
  <2>1. UNCHANGED Occurred
    BY <1>6 DEF Occurred
  <2> QED BY <1>4, <1>6, <2>1
<1>7. CASE \E e \in NextActivity :
             /\ UNCHANGED seen /\ Occurred' = Occurred \cup {e}
             /\ IsReaction(e) => e.eventTS = Instant
  <2>1. PICK e \in NextActivity :
          /\ UNCHANGED seen /\ Occurred' = Occurred \cup {e}
          /\ IsReaction(e) => e.eventTS = Instant
    BY <1>7
  <2>2. Removed(e) => EventKey(e) \notin seen
    BY <1>1, <2>1, KeyParts DEF SeenPast, IsReaction, Removed
  <2> QED BY <1>4, <2>1, <2>2
<1>8. CASE (\E e \in batch : Replay(e)) \/ ConsumeFrame
  <2>1. PICK e \in Event, fails \in BOOLEAN :
           /\ Offer(e, fails) /\ UNCHANGED log
           /\ e.kind = "message" \/ ReadBackReaction(e) \/ batch' = {}
    BY <1>8, OfferSteps
  <2>2. seen' \subseteq seen \cup {EventKey(e)} /\ UNCHANGED Occurred
    BY <1>1, <2>1, OfferPairs DEF Occurred
  <2>3. CASE e.kind = "message" \/ ReadBackReaction(e)
    <3>1. \A r : Removed(r) => EventKey(r) # EventKey(e)
      BY <2>3 DEF EventKey, ReadBackReaction, Added, Removed
    <3> QED BY <1>4, <2>2, <3>1
  <2> QED BY <1>5, <2>1, <2>3
<1> QED BY <1>6, <1>7, <1>8, ReactionSteps

(* What pends follows what was seen, for a reaction not read back yet.      *)
LEMMA PendingNext ==
  TypeOK /\ LogInv /\ WireInv /\ SeenPast /\ BatchInv /\ PendingInv /\ [Next]_vars => PendingInv'
<1> SUFFICES ASSUME TypeOK, LogInv, WireInv, SeenPast, BatchInv, PendingInv, [Next]_vars
             PROVE  PendingInv'
  OBVIOUS
<1>1. log \in Seq(Event) /\ Instant \in Nat /\ SessionTypeOK
  BY TypeParts, LenProperties DEF Instant
<1>2. CASE UNCHANGED <<log, seen, pending>>
  <2>1. UNCHANGED Occurred
    BY <1>2 DEF Occurred
  <2> QED BY <1>2, <2>1 DEF PendingInv, StandsSeen
<1>3. CASE \E e \in NextActivity :
             /\ UNCHANGED <<seen, pending>> /\ Occurred' = Occurred \cup {e}
             /\ IsReaction(e) => e.eventTS = Instant
  <2>1. PICK e \in NextActivity :
          /\ UNCHANGED <<seen, pending>> /\ Occurred' = Occurred \cup {e}
          /\ IsReaction(e) => e.eventTS = Instant
    BY <1>3
  <2>2. Added(e) => EventKey(e) \notin seen
    BY <1>1, <2>1, KeyParts DEF SeenPast, IsReaction, Added
  <2>3. \A a : StandsSeen(a)' => StandsSeen(a)
    BY <2>1 DEF StandsSeen
  <2> QED BY <2>1, <2>2, <2>3 DEF PendingInv
<1>4. ASSUME NEW e \in Event, NEW fails \in BOOLEAN, Offer(e, fails), UNCHANGED log,
             \/ e.kind = "message" \/ ReadBackReaction(e)
             \/ e \in Occurred /\ e \in OnWire
      PROVE  PendingInv'
  <2>1. UNCHANGED Occurred
    BY <1>4 DEF Occurred
  <2>2. CASE UNCHANGED <<seen, pending>>
    BY <1>2, <1>4, <2>2
  <2>3. CASE EventKey(e) \notin seen /\ seen' = seen \cup {EventKey(e)} /\ PairReaction(e)
    <3>1. \A a : StandsSeen(a)' => StandsSeen(a)
      BY <2>1, <2>3 DEF StandsSeen
    <3>2. ASSUME NEW r, r # ReactionKey(e) \/ ~IsReaction(e)
          PROVE  CaughtUpKey(r) \notin seen' /\ r \in DOMAIN pending' => pending'[r] = FALSE
      <4>1. CaughtUpKey(r) \notin seen' => CaughtUpKey(r) \notin seen
        BY <2>3
      <4> QED BY <2>3, <3>2, <4>1, PairOthers DEF PendingInv
    <3>3. ASSUME NEW a \in Occurred, Added(a), EventKey(a) \in seen', StandsSeen(a)',
                 CaughtUpKey(ReactionKey(a)) \notin seen',
                 ReactionKey(a) # ReactionKey(e) \/ ~IsReaction(e)
          PROVE  ReactionKey(a) \in DOMAIN pending'
      <4>1. EventKey(a) # EventKey(e)
        BY <3>3, KeyParts DEF IsReaction, Added
      <4>2. EventKey(a) \in seen /\ CaughtUpKey(ReactionKey(a)) \notin seen
        BY <2>3, <3>3, <4>1
      <4>3. ReactionKey(a) \in DOMAIN pending
        BY <3>1, <3>3, <4>2 DEF PendingInv
      <4> QED BY <2>3, <3>3, <4>3, PairOthers
    <3>4. CASE ReadBackReaction(e)
      <4>1. CaughtUpKey(ReactionKey(e)) \in seen'
        BY <2>3, <3>4, KeyParts DEF ReadBackReaction
      <4> QED BY <2>1, <3>2, <3>3, <4>1 DEF PendingInv
    <3>5. CASE e.kind = "message"
      <4>1. ~IsReaction(e)
        BY <3>5 DEF IsReaction
      <4> QED BY <2>1, <3>2, <3>3, <4>1 DEF PendingInv
    <3>6. CASE e \in Occurred /\ e \in OnWire
      <4>1. CASE ~IsReaction(e)
        BY <2>1, <3>2, <3>3, <4>1 DEF PendingInv
      <4>2. CASE Added(e)
        <5>1. e.caughtUp = FALSE
          BY <1>1, <3>6, <4>2, DatedAt DEF IsReaction, Added, Event
        <5>2. ASSUME CaughtUpKey(ReactionKey(e)) \notin seen'
              PROVE  ReactionKey(e) \in DOMAIN pending' /\ pending'[ReactionKey(e)] = FALSE
          <6>1. ReactionKey(e) \in DOMAIN pending => pending[ReactionKey(e)] = FALSE
            BY <2>3, <5>2 DEF PendingInv
          <6>2. ~IsDuplicateReaction(e)
            BY <5>1, <6>1 DEF IsDuplicateReaction
          <6> QED BY <2>3, <4>2, <5>1, <6>2, PairOwn
        <5> QED BY <2>1, <3>2, <3>3, <5>2 DEF PendingInv
      <4>3. CASE Removed(e)
        <5>1. ReactionKey(e) \notin DOMAIN pending'
          BY <2>3, <4>3, PairOwn
        <5>2. ASSUME NEW a \in Occurred, Added(a), EventKey(a) \in seen', StandsSeen(a)',
                     ReactionKey(a) = ReactionKey(e)
              PROVE  FALSE
          <6>1. EventKey(a) \in seen
            BY <2>3, <4>3, <5>2, KeyParts DEF Added, Removed
          <6>2. a.eventTS < Cursor(e)
            BY <3>6, <5>2, <6>1 DEF SeenPast, IsReaction, Added
          <6>3. e.eventTS < a.eventTS
            BY <2>1, <2>3, <3>6, <4>3, <5>2 DEF StandsSeen
          <6>4. /\ e.eventTS = Cursor(e) /\ e.eventTS \in Nat /\ a.eventTS \in Nat
            BY <1>1, <3>6, <4>3, <5>2, DatedAt DEF IsReaction, Added, Removed
          <6> QED BY <6>2, <6>3, <6>4
        <5> QED BY <2>1, <3>2, <3>3, <5>1, <5>2 DEF PendingInv
      <4> QED BY <4>1, <4>2, <4>3 DEF IsReaction, Added, Removed
    <3> QED BY <1>4, <3>4, <3>5, <3>6
  <2> QED BY <1>1, <1>4, <2>2, <2>3, OfferPairs
<1>5. CASE (\E e \in batch : Replay(e)) \/ ConsumeFrame
  BY <1>4, <1>5, OfferSteps
<1> QED BY <1>2, <1>3, <1>5, ReactionSteps

-----------------------------------------------------------------------------
(* A reaction read back and never paired stands for an addition that the    *)
(* run has not seen and will pair when the socket brings it.                *)
LEMMA SpareOf ==
  ASSUME TypeOK, ReactInv, NEW e, ReadBackReaction(e),
         ReactionKey(e) \notin DOMAIN pending, CaughtUpKey(ReactionKey(e)) \notin seen
  PROVE  \E g \in Occurred :
           /\ Added(g) /\ ReactionKey(g) = ReactionKey(e) /\ EventKey(g) \notin seen
           /\ g \in OnWire =>
                \A f \in OnWire : IsReaction(f) /\ ReactionKey(f) = ReactionKey(g) =>
                  g.eventTS <= f.eventTS
<1> DEFINE Mine == {f \in OnWire : IsReaction(f) /\ ReactionKey(f) = ReactionKey(e)}
           Dates == {f.eventTS : f \in Mine}
<1>1. log \in Seq(Event) /\ OnWire \subseteq Occurred
  BY TypeParts DEF ReactInv, WireInv, OnWire
<1>2. \A f \in Mine : f.eventTS \in Nat /\ f.eventTS = Cursor(f)
  BY <1>1, DatedAt DEF ReactInv
<1>3. ASSUME NEW a \in Occurred, Added(a), ReactionKey(a) = ReactionKey(e), StandsSeen(a)
      PROVE  EventKey(a) \notin seen
  BY <1>3 DEF ReactInv, PendingInv
<1>4. PICK a \in Occurred : Added(a) /\ ReactionKey(a) = ReactionKey(e) /\ StandsSeen(a)
  BY DEF ReadBackReaction
<1>5. CASE a \notin OnWire
  BY <1>3, <1>4, <1>5
<1>6. CASE a \in OnWire
  <2>1. a \in Mine
    BY <1>4, <1>6 DEF IsReaction, Added
  <2>2. Dates \in SUBSET Nat /\ Dates # {}
    BY <1>2, <2>1
  <2>3. PICK f \in Mine : \A h \in Mine : f.eventTS <= h.eventTS
    <3>1. PICK x \in Dates : \A y \in Dates : x <= y
      <4> HIDE DEF Dates
      <4> QED BY <2>2, LeastOf
    <3> QED BY <3>1
  <2>4. f \in OnWire /\ f \in Occurred /\ IsReaction(f) /\ ReactionKey(f) = ReactionKey(e)
    BY <1>1, <2>3
  <2>5. ASSUME NEW o \in Occurred, IsReaction(o), EventKey(o) \in seen
        PROVE  o.eventTS < f.eventTS
    BY <1>2, <2>3, <2>4, <2>5 DEF ReactInv, SeenPast
  <2>6. CASE Added(f)
    <3>1. EventKey(f) \notin seen
      BY <1>2, <2>3, <2>4, <2>5
    <3> QED BY <2>3, <2>4, <2>6, <3>1
  <2>7. CASE Removed(f)
    <3>1. PICK b \in Occurred :
            /\ Added(b) /\ ReactionKey(b) = ReactionKey(f) /\ b.eventTS < f.eventTS
            /\ \A o \in Occurred : Removed(o) /\ ReactionKey(o) = ReactionKey(f) =>
                 o.eventTS < b.eventTS \/ o.eventTS >= f.eventTS
      BY <2>4, <2>7 DEF ReactInv, RemovalsInv, TookBack
    <3>2. b \notin OnWire
      <4>1. b \in OnWire => b \in Mine
        BY <2>4, <3>1 DEF IsReaction, Added
      <4> QED BY <1>2, <2>3, <3>1, <4>1
    <3>3. StandsSeen(b)
      <4>1. ASSUME NEW r \in Occurred, Removed(r), ReactionKey(r) = ReactionKey(b),
                   EventKey(r) \in seen
            PROVE  r.eventTS < b.eventTS
        <5>1. r.eventTS < f.eventTS /\ r.eventTS \in Nat
          BY <1>1, <2>5, <4>1, DatedAt DEF ReactInv, IsReaction, Removed
        <5> QED BY <1>2, <2>3, <3>1, <4>1, <5>1
      <4> QED BY <4>1 DEF StandsSeen
    <3>4. EventKey(b) \notin seen
      BY <1>3, <2>4, <3>1, <3>3
    <3> QED BY <2>4, <3>1, <3>2, <3>4
  <2> QED BY <2>4, <2>6, <2>7 DEF IsReaction, Added, Removed
<1> QED BY <1>5, <1>6

(* Only what was seen was handed over.                                      *)
LEMMA GivenIsSeen ==
  ASSUME OnceInv
  PROVE  KeysOf(emitted) \subseteq seen
BY DEF OnceInv, EmittedIsSeen, KeysOf

(* A spare addition stays so while another event is offered.                *)
LEMMA SpareStays ==
  ASSUME TypeOK, ReactInv, NEW e \in Event, NEW fails \in BOOLEAN, Offer(e, fails), UNCHANGED log,
         OnWire' \subseteq OnWire,
         NEW g \in Occurred, Spare(g),
         CaughtUpKey(ReactionKey(g)) \in seen,
         \/ e.kind = "message" \/ (ReadBackReaction(e) /\ UNCHANGED OnWire)
         \/ /\ e \in Occurred /\ e \in OnWire
            /\ \A f \in OnWire' : Cursor(e) < Cursor(f)
  PROVE  Spare(g)'
<1>1. log \in Seq(Event) /\ SessionTypeOK /\ OnWire \subseteq Occurred
  BY TypeParts DEF ReactInv, WireInv, OnWire
<1>2. g.eventTS \in Nat /\ g.eventTS = Cursor(g) /\ ~g.caughtUp /\ IsReaction(g) /\ g \in Event
  BY <1>1, DatedAt, OccurredType DEF ReactInv, Spare, IsReaction, Added
<1>3. CASE UNCHANGED <<pending, emitted>>
  BY <1>3 DEF Spare
<1>4. CASE /\ EventKey(e) \notin seen /\ PairReaction(e)
           /\ \/ UNCHANGED emitted
              \/ ~IsDuplicateReaction(e) /\ KeysOf(emitted') = KeysOf(emitted) \cup {EventKey(e)}
  <2>1. CASE e = g /\ e \in OnWire /\ (\A f \in OnWire' : Cursor(e) < Cursor(f))
    <3>1. g \notin OnWire'
      BY <1>2, <2>1
    <3>2. IsDuplicateReaction(e)
      <4>1. ReactionKey(e) \in DOMAIN pending /\ pending[ReactionKey(e)] = TRUE
        BY <2>1 DEF Spare
      <4>2. e.caughtUp = FALSE /\ e.kind = "reaction_added"
        BY <1>2, <2>1 DEF Event, Spare, Added
      <4> QED BY <4>1, <4>2 DEF IsDuplicateReaction
    <3> QED BY <1>4, <3>1, <3>2 DEF Spare
  <2>2. CASE EventKey(e) # EventKey(g) /\ (g \in OnWire' => ReactionKey(e) # ReactionKey(g) \/ ~IsReaction(e))
    <3>1. EventKey(g) \notin KeysOf(emitted')
      BY <1>4, <2>2 DEF Spare
    <3>2. ASSUME g \in OnWire'
          PROVE  ReactionKey(g) \in DOMAIN pending' /\ pending'[ReactionKey(g)] = TRUE
      <4>1. ReactionKey(g) \in DOMAIN pending /\ pending[ReactionKey(g)] = TRUE
        BY <3>2 DEF Spare
      <4> QED BY <1>4, <2>2, <3>2, <4>1, PairOthers
    <3> QED BY <3>1, <3>2 DEF Spare
  <2>3. CASE e.kind = "message"
    BY <1>2, <2>2, <2>3, KeyParts DEF IsReaction
  <2>4. CASE ReadBackReaction(e)
    <3>1. EventKey(e) = CaughtUpKey(ReactionKey(e))
      BY <2>4, KeyParts DEF ReadBackReaction
    <3>2. ReactionKey(e) # ReactionKey(g)
      BY <1>4, <3>1
    <3>3. EventKey(e) # EventKey(g)
      BY <3>2, KeyParts
    <3> QED BY <2>2, <3>2, <3>3
  <2>5. CASE /\ e \in Occurred /\ e \in OnWire /\ e # g
             /\ \A f \in OnWire' : Cursor(e) < Cursor(f)
    <3>1. EventKey(e) # EventKey(g)
      BY <1>1, <1>2, <2>5, KeyIsOwn DEF ReactInv
    <3>2. ASSUME g \in OnWire', IsReaction(e), ReactionKey(e) = ReactionKey(g)
          PROVE  FALSE
      <4>1. g.eventTS <= e.eventTS
        BY <2>5, <3>2 DEF Spare
      <4>2. e.eventTS = Cursor(e) /\ e.eventTS \in Nat
        BY <1>1, <2>5, <3>2, DatedAt DEF ReactInv
      <4>3. Cursor(e) < Cursor(g)
        BY <2>5, <3>2
      <4> QED BY <1>2, <4>1, <4>2, <4>3
    <3> QED BY <2>2, <3>1, <3>2
  <2> QED BY <2>1, <2>3, <2>4, <2>5
<1> QED BY <1>1, <1>3, <1>4, OfferPairs

(* Every addition handed over stands for one that was made.                 *)
LEMMA SpareNext == TypeOK /\ ReactInv /\ [Next]_vars => SpareInv'
<1> SUFFICES ASSUME TypeOK, ReactInv, [Next]_vars PROVE SpareInv'
  OBVIOUS
<1>1. /\ log \in Seq(Event) /\ SessionTypeOK /\ Instant \in Nat /\ OnWire \subseteq Occurred
      /\ LogInv /\ WireInv /\ SeenPast /\ BatchInv /\ SpareInv /\ OnceInv /\ PendingInv
  BY TypeParts, LenProperties DEF ReactInv, WireInv, OnWire, Instant
<1>2. CASE /\ UNCHANGED <<seen, pending, emitted>> /\ Occurred \subseteq Occurred'
           /\ \A g \in Occurred : \A f \in OnWire' \ OnWire : g # f /\
                (IsReaction(g) /\ IsReaction(f) => g.eventTS <= f.eventTS)
  <2>1. \A g \in Occurred : Spare(g) => Spare(g)'
    BY <1>2 DEF Spare, IsReaction, Added
  <2> QED BY <1>1, <1>2, <2>1 DEF SpareInv
<1>3. CASE UNCHANGED <<log, seen, pending, emitted>> /\ OnWire' \subseteq OnWire
  <2>1. UNCHANGED Occurred
    BY <1>3 DEF Occurred
  <2> QED BY <1>2, <1>3, <2>1
<1>4. CASE \E e \in NextActivity :
             /\ UNCHANGED <<seen, pending, emitted>> /\ Occurred' = Occurred \cup {e}
             /\ OnWire' \subseteq OnWire \cup {e}
             /\ Cursor(e) = Instant /\ (IsReaction(e) => e.eventTS = Instant)
  <2>1. PICK e \in NextActivity :
          /\ UNCHANGED <<seen, pending, emitted>> /\ Occurred' = Occurred \cup {e}
          /\ OnWire' \subseteq OnWire \cup {e}
          /\ Cursor(e) = Instant /\ (IsReaction(e) => e.eventTS = Instant)
    BY <1>4
  <2>2. \A g \in Occurred : g # e
    BY <1>1, <2>1, BeforeNow
  <2>3. \A g \in Occurred : IsReaction(g) => g.eventTS <= Instant
    BY <1>1, DatedAt
  <2> QED BY <1>2, <2>1, <2>2, <2>3
<1>5. CASE (\E e \in batch : Replay(e)) \/ ConsumeFrame
  <2>1. PICK e \in Event, fails \in BOOLEAN :
           /\ Offer(e, fails) /\ UNCHANGED log
           /\ \/ (e.kind = "message" \/ ReadBackReaction(e)) /\ UNCHANGED OnWire
              \/ /\ e \in Occurred /\ e \in OnWire /\ OnWire' \subseteq OnWire
                 /\ \A f \in OnWire' : Cursor(e) < Cursor(f)
    BY <1>1, <1>5, OfferSteps
  <2>2. UNCHANGED Occurred /\ OnWire' \subseteq OnWire
    BY <2>1 DEF Occurred
  <2>3. ASSUME NEW k \in KeysOf(emitted), k[1] = "reaction_added"
        PROVE  \/ \E o \in Occurred : EventKey(o) = k
               \/ /\ k = CaughtUpKey(ReactionOf(k))
                  /\ \E g \in Occurred : ReactionKey(g) = ReactionOf(k) /\ Spare(g)'
    <3>1. CASE \E o \in Occurred : EventKey(o) = k
      BY <3>1
    <3>2. CASE /\ k = CaughtUpKey(ReactionOf(k))
               /\ \E g \in Occurred : ReactionKey(g) = ReactionOf(k) /\ Spare(g)
      <4>1. PICK g \in Occurred : ReactionKey(g) = ReactionOf(k) /\ Spare(g)
        BY <3>2
      <4>2. CaughtUpKey(ReactionKey(g)) \in seen
        BY <1>1, <3>2, <4>1, GivenIsSeen
      <4>3. Spare(g)'
        BY <2>1, <2>2, <4>1, <4>2, SpareStays
      <4> QED BY <3>2, <4>1, <4>3
    <3> QED BY <1>1, <2>3, <3>1, <3>2 DEF SpareInv
  <2>4. CASE UNCHANGED emitted
    BY <2>2, <2>3, <2>4 DEF SpareInv
  <2>5. CASE /\ EventKey(e) \notin seen /\ seen' = seen \cup {EventKey(e)} /\ PairReaction(e)
             /\ ~IsDuplicateReaction(e) /\ KeysOf(emitted') = KeysOf(emitted) \cup {EventKey(e)}
    <3>1. ASSUME EventKey(e)[1] = "reaction_added"
          PROVE  \/ \E o \in Occurred : EventKey(o) = EventKey(e)
                 \/ /\ EventKey(e) = CaughtUpKey(ReactionOf(EventKey(e)))
                    /\ \E g \in Occurred : /\ ReactionKey(g) = ReactionOf(EventKey(e))
                                           /\ Spare(g)'
      <4>1. CASE e \in Occurred
        BY <4>1
      <4>2. CASE e.kind = "message"
        BY <3>1, <4>2, KeyParts
      <4>3. CASE ReadBackReaction(e) /\ UNCHANGED OnWire
        <5>1. EventKey(e) = CaughtUpKey(ReactionKey(e)) /\ Added(e) /\ e.caughtUp = TRUE
          BY <4>3, KeyParts DEF ReadBackReaction, Event
        <5>2. ReactionKey(e) \notin DOMAIN pending
          <6>1. ReactionKey(e) \in DOMAIN pending => pending[ReactionKey(e)] = FALSE
            BY <1>1, <2>5, <5>1 DEF PendingInv
          <6>2. pending[ReactionKey(e)] = FALSE => pending[ReactionKey(e)] # e.caughtUp
            BY <5>1
          <6> QED BY <2>5, <5>1, <6>1, <6>2 DEF IsDuplicateReaction, Added
        <5>3. PICK g \in Occurred :
                /\ Added(g) /\ ReactionKey(g) = ReactionKey(e) /\ EventKey(g) \notin seen
                /\ g \in OnWire =>
                     \A f \in OnWire : IsReaction(f) /\ ReactionKey(f) = ReactionKey(g) =>
                       g.eventTS <= f.eventTS
          BY <2>5, <4>3, <5>1, <5>2, SpareOf
        <5>4. EventKey(g) \notin KeysOf(emitted')
          <6>1. EventKey(g) # EventKey(e)
            <7>1. g.eventTS \in Nat
              BY <1>1, <5>3, DatedAt DEF IsReaction, Added
            <7>2. e.eventTS = NoTS
              BY <4>3 DEF ReadBackReaction
            <7> QED BY <7>1, <7>2, KeyParts DEF NoTS
          <6> QED BY <1>1, <2>5, <5>3, <6>1, GivenIsSeen
        <5>5. ReactionKey(g) \in DOMAIN pending' /\ pending'[ReactionKey(g)] = TRUE
          BY <2>5, <5>1, <5>3, PairOwn
        <5>6. Spare(g)'
          BY <4>3, <5>3, <5>4, <5>5 DEF Spare
        <5> QED BY <5>1, <5>3, <5>6, KeyParts
      <4> QED BY <2>1, <4>1, <4>2, <4>3
    <3> QED BY <2>2, <2>3, <2>5, <3>1 DEF SpareInv
  <2> QED BY <1>1, <2>1, <2>4, <2>5, OfferPairs
<1> QED BY <1>1, <1>3, <1>4, <1>5, ReactionSteps

(* A run starts with nothing seen, sent or handed over.                     *)
LEMMA ReactInit == Init => ReactInv
<1> SUFFICES ASSUME Init PROVE ReactInv
  OBVIOUS
<1>1. /\ seen = {} /\ emitted = << >> /\ wire = << >> /\ batch = {} /\ log = StartLog
      /\ reading = NotReading /\ pending = [r \in {} |-> FALSE]
  BY DEF Init, WorkspaceInit, SessionInit, CatchUpInit
<1>2. DOMAIN wire = {} /\ DOMAIN emitted = {} /\ DOMAIN pending = {} /\ OnWire = {}
  BY <1>1 DEF OnWire
<1>3. LogInv
  BY <1>1, WorkspaceAssumption DEF LogInv
<1>4. BatchInv
  BY <1>1 DEF BatchInv, NotReading
<1>5. OnceInv /\ WireInv /\ SeenPast /\ RemovalsInv
  BY <1>1, <1>2 DEF OnceInv, EmittedIsSeen, EmittedOnce, WireInv, SeenPast, RemovalsInv
<1>6. PendingInv /\ SpareInv
  BY <1>1, <1>2 DEF PendingInv, SpareInv, KeysOf
<1> QED BY <1>3, <1>4, <1>5, <1>6 DEF ReactInv

(* The invariant of the reactions is inductive.                             *)
LEMMA ReactNext == TypeOK /\ ReactInv /\ [Next]_vars => ReactInv'
BY OnceNext, LogNext, WireNext, SeenPastNext, RemovalsNext, BatchNext, PendingNext, SpareNext
   DEF ReactInv

(* Different additions handed over stand for different additions made.      *)
LEMMA ReactCounts ==
  ASSUME TypeOK, ReactInv
  PROVE  ReactionsOnce
<1>1. /\ emitted \in Seq(Event) /\ log \in Seq(Event) /\ DOMAIN log = 1..Len(log)
      /\ Len(log) \in Nat
  BY TypeParts, LenProperties DEF SessionTypeOK
<1> SUFFICES ASSUME NEW r
             PROVE  Cardinality(Additions(emitted, r)) <= Cardinality(Additions(log, r))
  BY DEF ReactionsOnce
<1> DEFINE StandsFor(i, n) ==
             \/ EventKey(log[n]) = EventKey(emitted[i])
             \/ EventKey(emitted[i]) = CaughtUpKey(r) /\ Spare(log[n])
           Given == Additions(emitted, r)
           Made  == Additions(log, r)
<1>2. IsFiniteSet(Made)
  <2>1. Made \subseteq 1..Len(log) /\ IsFiniteSet(1..Len(log))
    BY <1>1, FS_Interval DEF Additions
  <2> QED BY <2>1, FS_Subset
<1>3. ASSUME NEW i \in Given PROVE \E n \in Made : StandsFor(i, n)
  <2>1. /\ i \in DOMAIN emitted /\ Added(emitted[i]) /\ ReactionKey(emitted[i]) = r
        /\ EventKey(emitted[i]) \in KeysOf(emitted)
    BY DEF Additions, Added, KeysOf
  <2>2. EventKey(emitted[i])[1] = "reaction_added" /\ ReactionOf(EventKey(emitted[i])) = r
    BY <2>1, KeyParts DEF Added
  <2>3. CASE \E o \in Occurred : EventKey(o) = EventKey(emitted[i])
    <3>1. PICK n \in DOMAIN log : EventKey(log[n]) = EventKey(emitted[i])
      BY <2>3 DEF Occurred
    <3>2. Added(log[n]) /\ ReactionKey(log[n]) = r
      BY <2>2, <3>1, KeyParts DEF Added
    <3> QED BY <3>1, <3>2 DEF Additions, Added
  <2>4. CASE /\ EventKey(emitted[i]) = CaughtUpKey(r)
             /\ \E g \in Occurred : ReactionKey(g) = r /\ Spare(g)
    <3>1. PICK n \in DOMAIN log : ReactionKey(log[n]) = r /\ Spare(log[n])
      BY <2>4 DEF Occurred
    <3> QED BY <2>4, <3>1 DEF Additions, Added, Spare
  <2> QED BY <2>1, <2>2, <2>3, <2>4 DEF ReactInv, SpareInv
<1>4. ASSUME NEW i \in Given, NEW j \in Given, NEW n \in Made, StandsFor(i, n), StandsFor(j, n)
      PROVE  i = j
  <2>1. /\ i \in DOMAIN emitted /\ j \in DOMAIN emitted
        /\ EventKey(emitted[i]) \in KeysOf(emitted) /\ EventKey(emitted[j]) \in KeysOf(emitted)
    BY DEF Additions, KeysOf
  <2>2. EventKey(emitted[i]) = EventKey(emitted[j])
    BY <1>4, <2>1 DEF Spare
  <2> QED BY <2>1, <2>2 DEF ReactInv, OnceInv, EmittedOnce
<1> HIDE DEF StandsFor, Given, Made
<1> DEFINE Stand == [i \in Given |-> CHOOSE n \in Made : StandsFor(i, n)]
<1>5. \A i \in Given : Stand[i] \in Made /\ StandsFor(i, Stand[i])
  BY <1>3
<1>6. Stand \in [Given -> Made]
  BY <1>5
<1>7. \A i, j \in Given : Stand[i] = Stand[j] => i = j
  BY <1>4, <1>5
<1>8. Stand \in Injection(Given, Made)
  <2> HIDE DEF Stand
  <2> QED BY <1>6, <1>7 DEF Injection, IsInjective
<1>9. Cardinality(Given) <= Cardinality(Made)
  <2> HIDE DEF Stand
  <2> QED BY <1>2, <1>8, FS_Injection
<1> QED BY <1>9 DEF Given, Made

(* A reaction seen live and read back from history is one reaction: over    *)
(* drops, re-adds, refused emits and catch-ups in every order, an addition  *)
(* is handed over at most as often as someone made it (isDuplicateReaction).*)
THEOREM ReactionsAreOnce == Spec => []ReactionsOnce
<1>1. TypeOK /\ ReactInv => ReactionsOnce
  BY ReactCounts
<1> QED BY <1>1, ReactInit, ReactNext, TypeCorrect, PTL DEF Spec
=============================================================================
