--------------------------- MODULE EventPollProofs ---------------------------
(***************************************************************************)
(* Theorems of the poll run, for every value of its constants: how it ends *)
(* is reported truly, wherever its deadline fell, and a run over a channel *)
(* or over one thread passes over nothing.                                 *)
(***************************************************************************)
EXTENDS EventPoll, FiniteSetTheorems, SequenceTheorems, TLAPS

(* A caller that failed sent the run on its way out with an error, and only *)
(* Finish, which keeps that error, names a deadline.                        *)
EndInv ==
  /\ runErr \in BOOLEAN /\ emitFailed \in BOOLEAN
  /\ emitFailed => runErr /\ pc \in {"return", "returned"}
  /\ pc # "returned" => stoppedBy # "duration"
  /\ TimeoutIsNotAnError

(* Offering an event fails with the caller or not at all, and stops a run   *)
(* only by its cap.                                                         *)
LEMMA OfferEnds ==
  ASSUME NEW e, NEW fails \in BOOLEAN, Offer(e, fails)
  PROVE  /\ emitFailed' = emitFailed \/ (fails /\ emitFailed' = TRUE)
         /\ stoppedBy' \in {stoppedBy, "max-events"}
BY DEF Offer, deliveryVars, Emit, EmitFails, ReportSkipped, NothingDelivered, Stop

(* A step that touches none of the four keeps it.                           *)
LEMMA EndUnchanged ==
  ASSUME EndInv, UNCHANGED <<pc, runErr, emitFailed, stoppedBy>>
  PROVE  EndInv'
BY DEF EndInv, TimeoutIsNotAnError

(* A step of a run in which the caller has not failed, before the run       *)
(* returns, keeps it.                                                       *)
LEMMA EndStep ==
  ASSUME EndInv, pc # "return", pc # "returned", pc' # "returned",
         runErr' \in BOOLEAN, UNCHANGED emitFailed, stoppedBy' # "duration"
  PROVE  EndInv'
BY DEF EndInv, TimeoutIsNotAnError

(* Every step of the run keeps it; Replay and Finish are where it is used.  *)
LEMMA EndEngine == ASSUME EndInv, Engine PROVE EndInv'
<1>1. ASSUME pc # "returned" PROVE stoppedBy # "duration"
  BY <1>1 DEF EndInv
<1>2. runErr \in BOOLEAN
  BY DEF EndInv
<1>3. CASE StartPolling \/ BaselineFails
  <2>1. /\ pc = "start" /\ pc' \in {"read", "return"}
        /\ runErr' \in {runErr, TRUE} /\ UNCHANGED <<emitFailed, stoppedBy>>
    BY <1>3 DEF StartPolling, BaselineFails, Fail, sessionVars, deliveryVars
  <2> QED BY <1>1, <1>2, <2>1, EndStep
<1>4. CASE ReadChannel \/ ReadFails
  <2>1. /\ pc = "read" /\ pc' \in {"wait", "threads", "return"}
        /\ runErr' \in {runErr, TRUE} /\ UNCHANGED <<emitFailed, stoppedBy>>
    BY <1>4 DEF ReadChannel, ReadFails, Fail, sessionVars, deliveryVars
  <2> QED BY <1>1, <1>2, <2>1, EndStep
<1>5. CASE (\E root \in reading.roots : ReadThread(root)) \/ ReadDone
  <2>1. /\ pc = "threads" /\ pc' \in {"threads", "wait", "replay"}
        /\ UNCHANGED <<runErr, emitFailed, stoppedBy>>
    BY <1>5 DEF ReadThread, ReadDone, pollVars, sessionVars, deliveryVars
  <2> QED BY <1>1, <1>2, <2>1, EndStep
<1>6. ASSUME NEW e \in batch, Replay(e) PROVE EndInv'
  <2>1. CASE Offer(e, FALSE) /\ UNCHANGED runErr
    <3>1. pc = "replay" /\ pc' \in {"return", "wait", "replay"}
      BY <1>6 DEF Replay, Fail
    <3>2. emitFailed' = emitFailed /\ stoppedBy' \in {stoppedBy, "max-events"}
      BY <2>1, OfferEnds
    <3> QED BY <1>1, <1>2, <2>1, <3>1, <3>2, EndStep
  <2>2. CASE Offer(e, TRUE) /\ Fail
    <3>1. emitFailed' \in {emitFailed, TRUE} /\ stoppedBy' \in {stoppedBy, "max-events"}
      BY <2>2, OfferEnds
    <3>2. pc = "replay" /\ pc' = "return" /\ runErr' = TRUE
      BY <1>6, <2>2 DEF Replay, Fail
    <3> QED BY <1>1, <3>1, <3>2 DEF EndInv, TimeoutIsNotAnError
  <2> QED BY <1>6, <2>1, <2>2 DEF Replay
<1>7. CASE NextRead \/ Sleep
  <2>1. /\ pc \in {"wait", "sleep"} /\ pc' \in {"sleep", "return", "read"}
        /\ UNCHANGED <<runErr, emitFailed, stoppedBy>>
    BY <1>7 DEF NextRead, Sleep, sessionVars, deliveryVars
  <2> QED BY <1>1, <1>2, <2>1, EndStep
<1>8. CASE Idle
  <2>1. /\ pc = "sleep" /\ pc' = "return" /\ UNCHANGED <<runErr, emitFailed>>
        /\ stoppedBy' \in {stoppedBy, "idle-timeout"}
    BY <1>8 DEF Idle, Stop
  <2> QED BY <1>1, <1>2, <2>1, EndStep
<1>9. CASE Finish
  <2>1. /\ pc = "return" /\ pc' = "returned" /\ UNCHANGED <<emitFailed, clockVars>>
        /\ runErr' = (runErr /\ (~RunOver \/ emitFailed))
    BY <1>9 DEF Finish
  <2>2. stoppedBy' = "duration" => RunOver
    <3>1. stoppedBy # "duration"
      BY <1>1, <2>1
    <3>2. DeadlineStopReason = "duration" => RunOver
      BY DEF DeadlineStopReason, RunOver
    <3> QED BY <1>9, <3>1, <3>2 DEF Finish, Stop
  <2>3. runErr' \in BOOLEAN /\ emitFailed' \in BOOLEAN
    BY <2>1, Zenon DEF EndInv
  <2>4. (emitFailed => runErr) /\ (emitFailed' <=> emitFailed)
    BY <2>1 DEF EndInv
  <2> QED BY <2>1, <2>2, <2>3, <2>4 DEF EndInv, TimeoutIsNotAnError
<1> QED BY <1>3, <1>4, <1>5, <1>6, <1>7, <1>8, <1>9 DEF Engine

(* EndInv is an invariant.                                                  *)
LEMMA EndsTruly == Spec => []EndInv
<1>1. Init => EndInv
  BY DEF Init, SessionInit, EndInv, TimeoutIsNotAnError
<1>2. EndInv /\ [Next]_vars => EndInv'
  <2> SUFFICES ASSUME EndInv, [Next]_vars PROVE EndInv'
    OBVIOUS
  <2>1. CASE Engine
    BY <2>1, EndEngine
  <2>2. CASE Happens \/ Expire \/ Cancel \/ Done \/ UNCHANGED vars
    BY <2>2, EndUnchanged
       DEF Happens, Expire, Cancel, Done, vars, pollVars, sessionVars, deliveryVars
  <2> QED BY <2>1, <2>2 DEF Next
<1> QED BY <1>1, <1>2, PTL DEF Spec

(* A caller that could not take an event hears of it, also when the         *)
(* deadline passed while the event was being handed over (watchSession).    *)
THEOREM FailuresAreReported == Spec => []EmitFailureIsReported
<1>1. EndInv => EmitFailureIsReported
  BY DEF EndInv, EmitFailureIsReported
<1> QED BY <1>1, EndsTruly, PTL

(* A poll run that its deadline ended ends without an error, whichever      *)
(* request of a round the deadline fell in (Await).                         *)
THEOREM TimeoutsAreNoErrors == Spec => []TimeoutIsNotAnError
<1>1. EndInv => TimeoutIsNotAnError
  BY DEF EndInv
<1> QED BY <1>1, EndsTruly, PTL

------------------------------------------------------------------------------
(* What was ever appended to the workspace's log is an event.              *)
LEMMA OccurredType ==
  ASSUME log \in Seq(Event)
  PROVE  Occurred \subseteq Event
BY DEF Occurred

(* The messages of a channel are events.                                   *)
LEMMA MessagesType ==
  ASSUME log \in Seq(Event), NEW c
  PROVE  Messages(c) \subseteq Event
BY OccurredType DEF Messages

(* A history read returns events, and counts a natural number of gaps.     *)
LEMMA SummaryType ==
  ASSUME NEW m \in Event
  PROVE  Summary(m) \in Event
BY DEF Summary, Event, Timestamps

(* What a history request can return are events.                           *)
LEMMA ChannelHistoryType ==
  ASSUME log \in Seq(Event), NEW c, NEW since
  PROVE  ChannelHistory(c, since) \subseteq Event
BY MessagesType, SummaryType DEF ChannelHistory

(* What a replies request returns are events.                              *)
LEMMA FetchThreadType ==
  ASSUME log \in Seq(Event), NEW c, NEW root
  PROVE  FetchThread(c, root) \subseteq Event
BY MessagesType, SummaryType DEF FetchThread

(* A capped history read returns events and a number of gaps.              *)
LEMMA HistorySinceType ==
  ASSUME log \in Seq(Event), NEW c, NEW since
  PROVE  /\ HistorySince(c, since).messages \subseteq Event
         /\ HistorySince(c, since).missed \in Nat
BY ChannelHistoryType DEF HistorySince, Newest

(* So does the first read of a catch-up, with the threads left to read.    *)
LEMMA FirstReadType ==
  ASSUME log \in Seq(Event), NEW c, NEW since
  PROVE  /\ FirstRead(c, since).messages \subseteq Event
         /\ FirstRead(c, since).missed \in Nat
         /\ FirstRead(c, since).roots \subseteq Timestamps
<1>1. CASE ThreadTS # NoTS
  BY <1>1, FetchThreadType DEF FirstRead
<1>2. CASE ThreadTS = NoTS /\ RepliesTo = NoTS
  BY <1>2, HistorySinceType DEF FirstRead
<1>3. CASE ThreadTS = NoTS /\ RepliesTo # NoTS
  <2> DEFINE history == HistorySince(c, EarlierTS(RepliesTo, since))
             later   == ThreadsWithNews(history.messages, since)
             cut     == IF Cardinality(later) >= MaxCatchUpThreads THEN 1 ELSE 0
             roots   == {RepliesTo} \cup Oldest(later, MaxCatchUpThreads - 1)
  <2>1. FirstRead(c, since) = [messages |-> history.messages,
                               missed   |-> history.missed + cut, roots |-> roots]
    BY <1>3 DEF FirstRead
  <2>2. history.messages \subseteq Event /\ history.missed \in Nat
    BY HistorySinceType
  <2>3. cut \in Nat
    OBVIOUS
  <2>4. roots \subseteq Timestamps
    <3>1. later \subseteq Nat
      BY <2>2 DEF ThreadsWithNews, Event
    <3> QED BY <3>1, FilterAssumption DEF Oldest, Timestamps
  <2> HIDE DEF history, later, cut, roots
  <2> QED BY <2>1, <2>2, <2>3, <2>4
<1> QED BY <1>1, <1>2, <1>3

(* What a catch-up read becomes are events.                                *)
LEMMA CatchUpEventsType ==
  ASSUME log \in Seq(Event), NEW messages \in SUBSET Event, NEW since
  PROVE  CatchUpEvents(messages, since) \subseteq Event
<1>1. ASSUME NEW m \in messages
      PROVE  CaughtUpReactions(m) \subseteq Event
  <2>1. m \in Event
    OBVIOUS
  <2>2. ReactionsOn(m) \subseteq Event
    BY OccurredType DEF ReactionsOn
  <2>3. ASSUME NEW a \in Event
        PROVE  [a EXCEPT !.eventTS = NoTS, !.thread = m.thread, !.caughtUp = TRUE] \in Event
    BY <2>1 DEF Event, Timestamps, NoTS
  <2> QED BY <2>2, <2>3 DEF CaughtUpReactions
<1> QED BY <1>1 DEF CatchUpEvents

------------------------------------------------------------------------------
(* Whatever happens next is an event.                                      *)
LEMMA NextActivityType ==
  ASSUME log \in Seq(Event), NEW e \in NextActivity
  PROVE  e \in Event
<1>1. Instant \in Nat
  BY DEF Instant
<1>2. AllMessages \subseteq Event
  BY MessagesType DEF AllMessages
<1>3. ASSUME NEW p \in Posts PROVE p \in Event
  BY <1>1, WorkspaceAssumption DEF Posts, Event, EventKinds, Timestamps, NoTS
<1>4. ASSUME NEW m \in Event, NEW kind \in EventKinds, NEW u \in Users,
             NEW n \in ReactionNames
      PROVE  ReactionFrame(kind, m, u, n) \in Event
  <2>1. AuthorAsUser(m) \in Users \cup Bots \cup {None}
    BY DEF AuthorAsUser
  <2> QED BY <1>1, <2>1 DEF ReactionFrame, Event, Timestamps, NoTS
<1>5. ASSUME NEW m \in Event PROVE ReactionsAdded(m) \subseteq Event
  BY <1>4 DEF ReactionsAdded, EventKinds
<1>6. ASSUME NEW m \in Event PROVE ReactionsRemoved(m) \subseteq Event
  <2>1. ASSUME NEW a \in ReactionsOn(m)
        PROVE  ReactionFrame("reaction_removed", m, a.author, a.reaction) \in Event
    <3>1. a \in Event
      BY OccurredType DEF ReactionsOn
    <3>2. AuthorAsUser(m) \in Users \cup Bots \cup {None}
      BY DEF AuthorAsUser
    <3> QED BY <1>1, <3>1, <3>2 DEF ReactionFrame, Event, EventKinds, Timestamps, NoTS
  <2> QED BY <2>1 DEF ReactionsRemoved
<1>7. ASSUME NEW m \in Event, NEW kind \in EventKinds
      PROVE  Modified(m, kind) \in Event
  BY <1>1 DEF Modified, Event, Timestamps
<1>8. ASSUME NEW m \in Event
      PROVE  [Modified(m, "message_deleted") EXCEPT !.thread = NoTS] \in Event
  BY <1>7 DEF Event, EventKinds, Timestamps, NoTS
<1>9. PossiblePosts \subseteq Event
  BY <1>3 DEF PossiblePosts
<1>10. Reacting \subseteq Event
  BY <1>2, <1>5, <1>6 DEF Reacting
<1>11. Edits \subseteq Event
  BY <1>2, <1>7 DEF Edits, EventKinds
<1>12. Deletions \subseteq Event
  BY <1>2, <1>8 DEF Deletions
<1> QED BY <1>9, <1>10, <1>11, <1>12 DEF NextActivity

------------------------------------------------------------------------------
(* Offer keeps the session well typed.                                     *)
SessionTypeOK ==
  /\ emitted \in Seq(Event) /\ reported \in Seq(Event)
  /\ threadOf \in [DOMAIN threadOf -> Timestamps]
  /\ watermark \in [AllChannels -> Timestamps]
  /\ cursors \in [AllChannels -> Timestamps]
  /\ truncated \in BOOLEAN /\ emitFailed \in BOOLEAN
  /\ stoppedBy \in {"", "max-events", "idle-timeout", "reconnect-failed", "duration", "cancelled"}

(* Remembering threads keeps the thread index well typed.                  *)
LEMMA RememberThreadsType ==
  ASSUME threadOf \in [DOMAIN threadOf -> Timestamps],
         NEW messages \in SUBSET Event, RememberThreads(messages)
  PROVE  threadOf' \in [DOMAIN threadOf' -> Timestamps]
<1> DEFINE known == IF RepliesTo = NoTS /\ ThreadTS = NoTS THEN {}
                    ELSE {m \in messages : m.thread # NoTS}
           keys == {<<m.ch, m.ts>> : m \in known}
           new == ThreadsIn(messages)
<1>1. new = [k \in keys |-> (CHOOSE m \in known : <<m.ch, m.ts>> = k).thread]
  BY DEF ThreadsIn
<1>2. ASSUME NEW k \in keys
      PROVE  (CHOOSE m \in known : <<m.ch, m.ts>> = k).thread \in Timestamps
  <2>1. \E m \in known : <<m.ch, m.ts>> = k
    OBVIOUS
  <2>2. (CHOOSE m \in known : <<m.ch, m.ts>> = k) \in Event
    BY <2>1
  <2> QED BY <2>2 DEF Event
<1>3. new \in [keys -> Timestamps]
  BY <1>1, <1>2
<1> HIDE DEF new, keys
<1>4. threadOf' = [x \in DOMAIN threadOf \cup keys |->
                     IF x \in keys THEN new[x] ELSE threadOf[x]]
  BY <1>3 DEF RememberThreads, Override, new
<1> QED BY <1>3, <1>4

(* Giving a reaction its thread keeps it an event, and its identity.       *)
LEMMA WithThreadType ==
  ASSUME threadOf \in [DOMAIN threadOf -> Timestamps], NEW e \in Event
  PROVE  /\ WithThread(e) \in Event
         /\ EventKey(WithThread(e)) = EventKey(e)
BY DEF WithThread, EventKey, Event

(* Advancing a timestamp to the cursor of an event gives a timestamp.      *)
LEMMA CursorType ==
  ASSUME NEW e \in Event, NEW t \in Timestamps
  PROVE  MaxTS(t, Cursor(e)) \in Timestamps
BY DEF MaxTS, Cursor, JustAfter, Event, Timestamps, NoTS

(* Offering an event, delivered or not, keeps the session well typed.      *)
LEMMA OfferType ==
  ASSUME SessionTypeOK, NEW e \in Event, NEW fails \in BOOLEAN, Offer(e, fails)
  PROVE  SessionTypeOK'
<1>1. CASE UNCHANGED deliveryVars
  BY <1>1 DEF SessionTypeOK, deliveryVars
<1>2. CASE NothingDelivered /\ UNCHANGED threadOf
  BY <1>2 DEF SessionTypeOK, NothingDelivered
<1>3. ASSUME EventKey(e) \notin seen, ~IsDuplicateReaction(e) PROVE SessionTypeOK'
  <2> DEFINE w == WithThread(e)
  <2>1. w \in Event
    BY WithThreadType DEF SessionTypeOK
  <2>2. threadOf' \in [DOMAIN threadOf' -> Timestamps]
    <3>1. CASE e.kind = "message"
      <4>1. RememberThreads({e})
        BY <1>3, <3>1 DEF Offer
      <4> QED BY <4>1, RememberThreadsType DEF SessionTypeOK
    <3>2. CASE e.kind # "message"
      <4>1. UNCHANGED threadOf
        BY <1>3, <3>2 DEF Offer
      <4> QED BY <4>1 DEF SessionTypeOK
    <3> QED BY <3>1, <3>2
  <2>3. \/ Emit(w) \/ EmitFails \/ ReportSkipped(w) \/ NothingDelivered
    BY <1>3 DEF Offer
  <2>4. ASSUME AdvanceWatermark(w) PROVE watermark' \in [AllChannels -> Timestamps]
    BY <2>1, <2>4, CursorType DEF AdvanceWatermark, SessionTypeOK, Event
  <2>5. ASSUME AdvanceCursor(w) PROVE cursors' \in [AllChannels -> Timestamps]
    BY <2>1, <2>5, CursorType DEF AdvanceCursor, SessionTypeOK, Event
  <2> HIDE DEF w
  <2>6. CASE Emit(w)
    <3>1. emitted' \in Seq(Event)
      <4>1. emitted' = Append(emitted, w) /\ emitted \in Seq(Event)
        BY <2>6 DEF Emit, SessionTypeOK
      <4> QED BY <2>1, <4>1, AppendProperties
    <3>2. AdvanceCursor(w) /\ AdvanceWatermark(w)
      BY <2>6 DEF Emit, AdvanceCursor
    <3>3. stoppedBy' \in {stoppedBy, "max-events"}
      BY <2>6 DEF Emit, Stop
    <3>4. UNCHANGED <<reported, truncated, emitFailed>>
      BY <2>6 DEF Emit
    <3> QED BY <2>2, <2>4, <2>5, <3>1, <3>2, <3>3, <3>4 DEF SessionTypeOK
  <2>7. CASE EmitFails
    BY <2>2, <2>7 DEF EmitFails, SessionTypeOK
  <2>8. CASE ReportSkipped(w)
    <3>1. reported' \in Seq(Event) /\ truncated' \in BOOLEAN
      <4>1. /\ reported' \in {reported, Append(reported, w)} /\ reported \in Seq(Event)
            /\ truncated' \in BOOLEAN
        BY <2>8 DEF ReportSkipped, SessionTypeOK
      <4> QED BY <2>1, <4>1, AppendProperties
    <3>2. AdvanceWatermark(w) /\ (AdvanceCursor(w) \/ UNCHANGED cursors)
      BY <2>8 DEF ReportSkipped, AdvanceCursor
    <3>3. UNCHANGED <<emitted, stoppedBy, emitFailed>>
      BY <2>8 DEF ReportSkipped
    <3> QED BY <2>2, <2>4, <2>5, <3>1, <3>2, <3>3 DEF SessionTypeOK
  <2>9. CASE NothingDelivered
    BY <2>2, <2>9 DEF NothingDelivered, SessionTypeOK
  <2> QED BY <2>3, <2>6, <2>7, <2>8, <2>9
<1> QED BY <1>1, <1>2, <1>3 DEF Offer

(* A step that leaves the session alone keeps it well typed.                *)
LEMMA SessionUnchanged ==
  ASSUME SessionTypeOK, UNCHANGED deliveryVars
  PROVE  SessionTypeOK'
BY DEF SessionTypeOK, deliveryVars

(* An offer emits one event more, or none.                                  *)
LEMMA OfferEmits ==
  ASSUME SessionTypeOK, NEW e \in Event, NEW fails \in BOOLEAN, Offer(e, fails)
  PROVE  Len(emitted) \in Nat /\ Len(emitted') >= Len(emitted)
<1>1. emitted \in Seq(Event) /\ Len(emitted) \in Nat
  BY LenProperties DEF SessionTypeOK
<1>2. emitted' = emitted \/ emitted' = Append(emitted, WithThread(e))
  BY DEF Offer, deliveryVars, Emit, EmitFails, ReportSkipped, NothingDelivered
<1>3. WithThread(e) \in Event
  BY WithThreadType DEF SessionTypeOK
<1> QED BY <1>1, <1>2, <1>3, AppendProperties

(* A poll run follows one conversation.                                     *)
LEMMA Target == TargetChannel \in AllChannels /\ Channels = {TargetChannel}
<1>1. Cardinality(Channels) = 1
  BY PollAssumption DEF Pollable, TargetChannel
<1>2. PICK c : Channels = {c}
  BY <1>1, FilterAssumption, FS_Singleton
<1>3. TargetChannel = c
  BY <1>1, <1>2 DEF TargetChannel
<1> QED BY <1>2, <1>3, FilterAssumption

(* The types of the run, of its session and of the log.                     *)
TypeInv == TypeOK /\ SessionTypeOK /\ log \in Seq(Event) /\ gaps \in Nat

(* A run starts well typed.                                                 *)
LEMMA TypeInit == Init => TypeInv
<1> SUFFICES ASSUME Init PROVE TypeInv
  OBVIOUS
<1>1. emitted = << >> /\ << >> \in Seq(Event) /\ Len(<< >>) = 0
  <2>1. << >> \in Seq(Event) /\ Len(<< >>) = 0
    OBVIOUS
  <2> QED BY <2>1 DEF Init, SessionInit
<1>2. watermark \in [AllChannels -> Timestamps] /\ cursors \in [AllChannels -> Timestamps]
  BY DEF Init, SessionInit, Timestamps
<1>3. threadOf \in [DOMAIN threadOf -> Timestamps]
  BY DEF Init, SessionInit
<1>4. SessionTypeOK
  BY <1>1, <1>2, <1>3 DEF Init, SessionInit, SessionTypeOK
<1>5. reading = [ch |-> None, messages |-> {}, roots |-> {}] /\ batch = {}
  BY DEF Init, CatchUpInit, NotReading
<1>6. TypeOK
  <2>1. reading \in ReadingType /\ batch \subseteq Event
    BY <1>5 DEF ReadingType
  <2>2. /\ pc = "start" /\ cursor = NoTS /\ base = NoTS /\ before = 0 /\ runErr = FALSE
        /\ Len(emitted) = 0
    BY <1>1 DEF Init
  <2>3. runErr \in BOOLEAN
    BY <2>2, Zenon
  <2>4. /\ pc \in Places /\ pc # "returned" /\ cursor \in Timestamps /\ base \in Timestamps
        /\ before \in Nat /\ before <= Len(emitted)
    BY <2>2 DEF Places, Timestamps
  <2> QED BY <2>1, <2>3, <2>4, Zenon DEF TypeOK
<1> QED BY <1>4, <1>6, WorkspaceAssumption DEF Init, SessionInit, WorkspaceInit, TypeInv

(* A run that follows no --since starts from a message, or from zero.       *)
LEMMA BaselineType ==
  ASSUME log \in Seq(Event)
  PROVE  PollBaseline \in Timestamps
<1>1. Tip \subseteq Event
  BY FetchThreadType, ChannelHistoryType DEF Tip, Newest
<1>2. ASSUME Tip # {} PROVE (CHOOSE m \in Tip : TRUE).ts \in Nat
  <2>1. (CHOOSE m \in Tip : TRUE) \in Event
    BY <1>1, <1>2
  <2> QED BY <2>1 DEF Event
<1> QED BY <1>2, FilterAssumption DEF PollBaseline, Timestamps

(* Starting from there keeps the run well typed.                            *)
LEMMA StartType == ASSUME TypeInv, StartPolling PROVE TypeInv'
<1>1. PollBaseline \in Timestamps
  BY BaselineType DEF TypeInv
<1>2. \A t \in Timestamps : MaxTS(t, PollBaseline) \in Timestamps
  BY <1>1 DEF MaxTS
<1>3. watermark' \in [AllChannels -> Timestamps] /\ cursors' \in [AllChannels -> Timestamps]
  BY <1>2, Target DEF StartPolling, TypeInv, SessionTypeOK
<1>4. SessionTypeOK'
  BY <1>3 DEF StartPolling, TypeInv, SessionTypeOK
<1>5. TypeOK'
  BY <1>1 DEF StartPolling, TypeInv, TypeOK, Places
<1> QED BY <1>4, <1>5 DEF StartPolling, TypeInv

(* So does the first request of a round.                                    *)
LEMMA ReadChannelType == ASSUME TypeInv, ReadChannel PROVE TypeInv'
<1> DEFINE read == FirstRead(TargetChannel, cursor)
<1>1. read.messages \subseteq Event /\ read.missed \in Nat /\ read.roots \subseteq Timestamps
  BY FirstReadType DEF TypeInv
<1>2. \/ gaps' = gaps /\ reading' = reading
      \/ /\ gaps' = gaps + read.missed
         /\ reading' = [ch |-> TargetChannel, messages |-> read.messages, roots |-> read.roots]
  BY DEF ReadChannel, BeginRead
<1> HIDE DEF read
<1>3. gaps' \in Nat /\ reading' \in ReadingType
  BY <1>1, <1>2, Target DEF TypeInv, TypeOK, ReadingType
<1>4. SessionTypeOK' /\ emitted' = emitted
  BY SessionUnchanged DEF ReadChannel, TypeInv, deliveryVars
<1>5. before' = Len(emitted) /\ Len(emitted) \in Nat
  BY LenProperties DEF ReadChannel, TypeInv, SessionTypeOK
<1>6. pc' \in {"wait", "threads"} /\ UNCHANGED <<log, batch, cursor, base, runErr>>
  BY DEF ReadChannel
<1>7. TypeOK'
  BY <1>3, <1>4, <1>5, <1>6 DEF TypeInv, TypeOK, Places
<1> QED BY <1>3, <1>4, <1>6, <1>7 DEF TypeInv

(* So do the thread requests, and turning what was read into events.        *)
LEMMA ReadDoneType ==
  ASSUME TypeInv, ReadDone \/ \E root \in reading.roots : ReadThread(root)
  PROVE  TypeInv'
<1>1. log \in Seq(Event) /\ reading \in ReadingType /\ reading.messages \in SUBSET Event
  BY DEF TypeInv, TypeOK, ReadingType
<1>2. CASE ReadDone
  <2>1. batch' \subseteq Event
    BY <1>1, <1>2, CatchUpEventsType DEF ReadDone, FinishRead
  <2>2. threadOf' \in [DOMAIN threadOf' -> Timestamps]
    BY <1>1, <1>2, RememberThreadsType DEF ReadDone, FinishRead, TypeInv, SessionTypeOK
  <2>3. SessionTypeOK'
    BY <1>2, <2>2 DEF ReadDone, TypeInv, SessionTypeOK
  <2>4. reading' \in ReadingType
    BY <1>2 DEF ReadDone, FinishRead, NotReading, ReadingType
  <2>5. TypeOK'
    BY <1>2, <2>1, <2>4 DEF ReadDone, TypeInv, TypeOK, Places
  <2> QED BY <1>2, <2>3, <2>5 DEF ReadDone, TypeInv
<1>3. ASSUME NEW root \in reading.roots, ReadThread(root) PROVE TypeInv'
  <2>1. FetchThread(reading.ch, root) \subseteq Event
    BY <1>1, FetchThreadType
  <2>2. reading' \in ReadingType
    BY <1>1, <1>3, <2>1 DEF ReadThread, ReadRoot, ReadingType
  <2>3. SessionTypeOK'
    BY <1>3, SessionUnchanged DEF ReadThread, sessionVars, TypeInv
  <2> QED BY <1>3, <2>2, <2>3 DEF ReadThread, TypeInv, TypeOK, sessionVars, deliveryVars, pollVars
<1> QED BY <1>2, <1>3

(* So does offering a caught-up event, whatever becomes of it.              *)
LEMMA ReplayType == ASSUME TypeInv, NEW e \in batch, Replay(e) PROVE TypeInv'
<1>1. PICK fails \in BOOLEAN : Offer(e, fails)
  BY DEF Replay
<1>2. e \in Event /\ SessionTypeOK
  BY DEF TypeInv, TypeOK
<1>3. SessionTypeOK' /\ Len(emitted) \in Nat /\ Len(emitted') >= Len(emitted)
  BY <1>1, <1>2, OfferType, OfferEmits
<1>4. Len(emitted') \in Nat
  BY <1>3, LenProperties DEF SessionTypeOK
<1>5. /\ pc' \in {"wait", "replay", "return"} /\ batch' \subseteq batch
      /\ UNCHANGED <<log, gaps, reading, cursor, base, before>>
  BY DEF Replay, Fail
<1>6. TypeOK'
  <2>1. runErr' \in BOOLEAN
    BY Zenon DEF Replay, Fail, TypeInv, TypeOK
  <2>2. before' \in Nat /\ before' <= Len(emitted')
    BY <1>3, <1>4, <1>5 DEF TypeInv, TypeOK
  <2> QED BY <1>5, <2>1, <2>2 DEF TypeInv, TypeOK, Places
<1> QED BY <1>3, <1>5, <1>6 DEF TypeInv

(* So does every other step.                                                *)
LEMMA TypeNext == TypeInv /\ [Next]_vars => TypeInv'
<1> SUFFICES ASSUME TypeInv, [Next]_vars PROVE TypeInv'
  OBVIOUS
<1>1. /\ log \in Seq(Event) /\ SessionTypeOK /\ TypeOK /\ gaps \in Nat /\ Len(emitted) \in Nat
  BY LenProperties DEF TypeInv, SessionTypeOK
<1>2. CASE BaselineFails \/ Sleep \/ Expire \/ Cancel \/ Done \/ UNCHANGED vars
  <2>1. SessionTypeOK'
    BY <1>1, <1>2, SessionUnchanged
       DEF BaselineFails, Sleep, Expire, Cancel, Done, vars, sessionVars
  <2> QED BY <1>1, <1>2, <2>1
          DEF BaselineFails, Fail, Sleep, Expire, Cancel, Done, vars, pollVars, sessionVars,
              deliveryVars, TypeInv, TypeOK, Places, Stopped
<1>3. CASE ReadFails
  <2>1. SessionTypeOK'
    BY <1>1, <1>3, SessionUnchanged DEF ReadFails, sessionVars
  <2> QED BY <1>1, <1>3, <2>1
          DEF ReadFails, Fail, sessionVars, deliveryVars, TypeInv, TypeOK, Places
<1>4. CASE NextRead
  <2>1. watermark[TargetChannel] \in Timestamps /\ cursor \in Timestamps
    BY <1>1, Target DEF SessionTypeOK, TypeOK
  <2>2. cursor' \in Timestamps
    BY <1>4, <2>1 DEF NextRead, MaxTS
  <2>3. SessionTypeOK'
    BY <1>1, <1>4, SessionUnchanged DEF NextRead, sessionVars
  <2> QED BY <1>1, <1>4, <2>2, <2>3
          DEF NextRead, sessionVars, deliveryVars, TypeInv, TypeOK, Places
<1>5. CASE Idle \/ Finish
  <2>1. \E reason \in {"idle-timeout", "duration", "cancelled"} : Stop(reason)
    BY <1>5 DEF Idle, Finish, DeadlineStopReason
  <2>2. stoppedBy' # "" /\ stoppedBy' \in {stoppedBy, "idle-timeout", "duration", "cancelled"}
    BY <2>1 DEF Stop, Stopped
  <2>3. SessionTypeOK'
    BY <1>1, <1>5, <2>2 DEF Idle, Finish, SessionTypeOK
  <2>4. runErr' \in BOOLEAN
    BY <1>1, <1>5, Zenon DEF Idle, Finish, TypeOK
  <2> QED BY <1>1, <1>5, <2>2, <2>3, <2>4 DEF Idle, Finish, TypeInv, TypeOK, Places, Stopped
<1>6. CASE Happens
  <2>1. PICK e \in NextActivity : log' = Append(log, e)
    BY <1>6 DEF Happens
  <2>2. log' \in Seq(Event)
    BY <1>1, <2>1, NextActivityType, AppendProperties
  <2>3. SessionTypeOK'
    BY <1>1, <1>6, SessionUnchanged DEF Happens, sessionVars
  <2> QED BY <1>1, <1>6, <2>2, <2>3
          DEF Happens, pollVars, sessionVars, deliveryVars, TypeInv, TypeOK, Stopped
<1> QED BY <1>2, <1>3, <1>4, <1>5, <1>6, StartType, ReadChannelType, ReadDoneType, ReplayType
        DEF Next, Engine

(* The poll run keeps every variable in its type, and once it has returned  *)
(* it names a reason (watchSession, WatchResult).                           *)
THEOREM TypeCorrect == Spec => []TypeOK
<1>1. TypeInv => TypeOK
  BY DEF TypeInv
<1> QED BY TypeInit, TypeNext, <1>1, PTL DEF Spec

------------------------------------------------------------------------------
(* Entry i of the log happened at instant 2i.                               *)
LogInv == \A i \in DOMAIN log : HappenedAt(log[i], i)

(* What happened at position i of the log.                                  *)
LEMMA OccurredAt ==
  ASSUME log \in Seq(Event), LogInv, NEW e \in Occurred
  PROVE  /\ e \in Event
         /\ \E i \in 1..Len(log) : e = log[i] /\ Cursor(e) = 2 * i
                                   /\ (e.kind = "message" => e.ts = 2 * i)
         /\ ~e.caughtUp
         /\ e.kind = "message" => /\ e.eventTS = NoTS /\ e.thread # e.ts
                                  /\ Cursor(e) = e.ts
<1>1. PICK i \in DOMAIN log : e = log[i]
  BY DEF Occurred
<1>2. e \in Event /\ DOMAIN log = 1..Len(log) /\ i \in Int
  BY <1>1, LenProperties
<1>3. HappenedAt(e, i)
  BY <1>1 DEF LogInv
<1>4. Cursor(e) = 2 * i
  BY <1>2, <1>3 DEF HappenedAt, Cursor, NoTS, Event
<1> QED BY <1>1, <1>2, <1>3, <1>4 DEF HappenedAt

(* Two entries at the same instant are one; so a message is known by its    *)
(* timestamp.                                                               *)
LEMMA SameInstant ==
  ASSUME log \in Seq(Event), LogInv, NEW a \in Occurred, NEW b \in Occurred,
         Cursor(a) = Cursor(b)
  PROVE  a = b
<1>1. PICK i \in 1..Len(log) : a = log[i] /\ Cursor(a) = 2 * i
  BY OccurredAt
<1>2. PICK j \in 1..Len(log) : b = log[j] /\ Cursor(b) = 2 * j
  BY OccurredAt
<1>3. i = j
  BY <1>1, <1>2
<1> QED BY <1>1, <1>2, <1>3

(* Everything that happened did so before the next instant.                 *)
LEMMA BeforeNow ==
  ASSUME log \in Seq(Event), LogInv, NEW e \in Occurred
  PROVE  Cursor(e) \in Nat /\ Cursor(e) + 1 < Instant
<1>1. PICK i \in 1..Len(log) : Cursor(e) = 2 * i
  BY OccurredAt
<1>2. Len(log) \in Nat
  BY LenProperties
<1> QED BY <1>1, <1>2 DEF Instant

(* Instants are even: a moment just after one precedes the next.            *)
LEMMA JustAfterIsBetween ==
  ASSUME log \in Seq(Event), LogInv, NEW a \in Occurred, NEW b \in Occurred,
         Cursor(a) < Cursor(b)
  PROVE  Cursor(a) + 1 < Cursor(b)
<1>1. PICK i \in 1..Len(log) : Cursor(a) = 2 * i
  BY OccurredAt
<1>2. PICK j \in 1..Len(log) : Cursor(b) = 2 * j
  BY OccurredAt
<1> QED BY <1>1, <1>2

(* Whatever happens next happens at the next instant.                       *)
LEMMA NextHappens ==
  ASSUME log \in Seq(Event), LogInv, NEW e \in NextActivity
  PROVE  HappenedAt(e, Len(log) + 1)
<1> DEFINE now == Len(log) + 1
<1>1. Instant = 2 * now
  BY DEF Instant
<1>2. ASSUME NEW m \in AllMessages
      PROVE  m \in Event /\ ~m.caughtUp
  <2>1. m \in Occurred
    BY DEF AllMessages, Messages
  <2> QED BY <2>1, OccurredAt
<1>3. ASSUME NEW p \in PossiblePosts PROVE HappenedAt(p, now)
  <2>1. /\ p.kind = "message" /\ p.ts = Instant /\ p.eventTS = NoTS /\ p.caughtUp = FALSE
        /\ p.thread \in {NoTS} \cup {r \in ReplyRoots : r < Instant}
    BY DEF PossiblePosts, Posts
  <2>2. p.thread # p.ts
    <3>1. Instant \in Nat
      BY LenProperties DEF Instant
    <3> QED BY <2>1, <3>1 DEF NoTS
  <2> QED BY <1>1, <2>1, <2>2 DEF HappenedAt
<1>4. ASSUME NEW f \in Reacting PROVE HappenedAt(f, now)
  <2>1. \E kind \in {"reaction_added", "reaction_removed"} : \E m, u, n : f = ReactionFrame(kind, m, u, n)
    BY DEF Reacting, ReactionsAdded, ReactionsRemoved
  <2>2. f.kind # "message" /\ f.eventTS = Instant /\ f.caughtUp = FALSE
    BY <2>1 DEF ReactionFrame
  <2> QED BY <1>1, <2>2 DEF HappenedAt
<1>5. ASSUME NEW f \in Edits \cup Deletions PROVE HappenedAt(f, now)
  <2>1. PICK m \in AllMessages : \/ f = Modified(m, "message_changed")
                                 \/ f = [Modified(m, "message_deleted") EXCEPT !.thread = NoTS]
    BY DEF Edits, Deletions
  <2>2. m \in Event /\ ~m.caughtUp
    BY <1>2
  <2>3. f.kind # "message" /\ f.eventTS = Instant /\ f.caughtUp = m.caughtUp
    BY <2>1, <2>2 DEF Modified, Event
  <2> QED BY <1>1, <2>2, <2>3 DEF HappenedAt
<1> QED BY <1>3, <1>4, <1>5 DEF NextActivity

(* A longer log is made of what it was and what is new.                     *)
LEMMA LogGrows ==
  ASSUME log \in Seq(Event), NEW e \in Event, log' = Append(log, e)
  PROVE  /\ Len(log') = Len(log) + 1 /\ Len(log) \in Nat
         /\ \A i \in 1..Len(log) : log'[i] = log[i]
         /\ log'[Len(log) + 1] = e
         /\ DOMAIN log' = 1..(Len(log) + 1) /\ DOMAIN log = 1..Len(log)
         /\ Occurred' = Occurred \cup {e}
         /\ Instant' = Instant + 2
<1>1. /\ Len(log') = Len(log) + 1 /\ Len(log) \in Nat
      /\ \A i \in 1..Len(log) : log'[i] = log[i]
      /\ log'[Len(log) + 1] = e
      /\ DOMAIN log' = 1..(Len(log) + 1) /\ DOMAIN log = 1..Len(log)
  BY AppendProperties, LenProperties
<1>2. Occurred' = Occurred \cup {e}
  BY <1>1 DEF Occurred
<1>3. Instant' = Instant + 2
  BY <1>1 DEF Instant
<1> QED BY <1>1, <1>2, <1>3

------------------------------------------------------------------------------
(* Appending an event adds its key.                                         *)
LEMMA AppendKeys ==
  ASSUME NEW s \in Seq(Event), NEW x \in Event
  PROVE  KeysOf(Append(s, x)) = KeysOf(s) \cup {EventKey(x)}
<1>1. /\ Len(s) \in Nat /\ DOMAIN s = 1..Len(s)
      /\ DOMAIN Append(s, x) = 1..(Len(s) + 1)
      /\ \A i \in 1..Len(s) : Append(s, x)[i] = s[i]
      /\ Append(s, x)[Len(s) + 1] = x
  BY AppendProperties, LenProperties
<1>2. 1..(Len(s) + 1) = 1..Len(s) \cup {Len(s) + 1}
  BY <1>1
<1> DEFINE t == Append(s, x)
<1>3. KeysOf(t) = {EventKey(t[i]) : i \in 1..Len(s)} \cup {EventKey(t[Len(s) + 1])}
  BY <1>1, <1>2 DEF KeysOf
<1>4. {EventKey(t[i]) : i \in 1..Len(s)} = KeysOf(s)
  BY <1>1 DEF KeysOf
<1> QED BY <1>1, <1>3, <1>4

(* A message changes by being told about only in whether its key is known.  *)
Answered(e, fails) ==
  \/ ~InScope(e)
  \/ Matches(e) /\ fails /\ emitFailed'
  \/ Matches(e) /\ ~fails /\ EventKey(e) \in KeysOf(emitted')
  \/ InScope(e) /\ ~Narrows(e) /\ (truncated' \/ EventKey(e) \in KeysOf(reported'))

(* What offering an event does to the session, in the terms of the proofs.  *)
LEMMA OfferEffect ==
  ASSUME SessionTypeOK, NEW e \in Event, NEW fails \in BOOLEAN, Offer(e, fails)
  PROVE  /\ seen' = seen \cup {EventKey(e)}
         /\ \A c \in AllChannels :
              \/ watermark'[c] = watermark[c]
              \/ c = e.ch /\ watermark'[c] = MaxTS(watermark[c], Cursor(e))
         /\ \A c \in AllChannels :
              \/ cursors'[c] = cursors[c]
              \/ c = e.ch /\ cursors'[c] = MaxTS(cursors[c], Cursor(e))
                          /\ watermark'[c] = MaxTS(watermark[c], Cursor(e))
         /\ KeysOf(emitted) \subseteq KeysOf(emitted')
         /\ KeysOf(reported) \subseteq KeysOf(reported')
         /\ truncated => truncated'
         /\ emitFailed => emitFailed'
         /\ emitFailed' => emitFailed \/ fails
         /\ fails => UNCHANGED <<watermark, emitted, reported>>
         /\ e.kind = "message" /\ EventKey(e) \notin seen => Answered(e, fails)
<1> DEFINE w == WithThread(e)
<1>1. w \in Event /\ EventKey(w) = EventKey(e)
  BY WithThreadType DEF SessionTypeOK
<1>2. w.ch = e.ch /\ Cursor(w) = Cursor(e) /\ (e.kind = "message" => w = e)
  BY DEF WithThread, Cursor, IsReaction, Event
<1>3. CASE UNCHANGED deliveryVars /\ EventKey(e) \in seen
  BY <1>3 DEF deliveryVars
<1>4. CASE /\ EventKey(e) \notin seen /\ seen' = seen \cup {EventKey(e)}
           /\ IsDuplicateReaction(e) /\ NothingDelivered
  BY <1>4 DEF NothingDelivered, IsDuplicateReaction
<1>5. ASSUME EventKey(e) \notin seen, seen' = seen \cup {EventKey(e)},
             \/ Matches(w) /\ ~fails /\ Emit(w)
             \/ Matches(w) /\ fails /\ EmitFails
             \/ InScope(w) /\ ~Narrows(w) /\ ~fails /\ ReportSkipped(w)
             \/ ~InScope(w) /\ ~fails /\ NothingDelivered
      PROVE  /\ \A c \in AllChannels :
                  \/ watermark'[c] = watermark[c]
                  \/ c = e.ch /\ watermark'[c] = MaxTS(watermark[c], Cursor(e))
             /\ \A c \in AllChannels :
                  \/ cursors'[c] = cursors[c]
                  \/ c = e.ch /\ cursors'[c] = MaxTS(cursors[c], Cursor(e))
                              /\ watermark'[c] = MaxTS(watermark[c], Cursor(e))
             /\ KeysOf(emitted) \subseteq KeysOf(emitted')
             /\ KeysOf(reported) \subseteq KeysOf(reported')
             /\ truncated => truncated'
             /\ emitFailed => emitFailed'
             /\ emitFailed' => emitFailed \/ fails
             /\ fails => UNCHANGED <<watermark, emitted, reported>>
             /\ e.kind = "message" => Answered(e, fails)
  <2> HIDE DEF w
  <2>1. /\ watermark \in [AllChannels -> Timestamps] /\ cursors \in [AllChannels -> Timestamps]
        /\ emitted \in Seq(Event) /\ reported \in Seq(Event)
    BY DEF SessionTypeOK
  <2>2. CASE Matches(w) /\ ~fails /\ Emit(w)
    <3>1. KeysOf(emitted') = KeysOf(emitted) \cup {EventKey(w)}
      BY <1>1, <2>1, <2>2, AppendKeys DEF Emit
    <3>2. /\ reported' = reported /\ truncated' = truncated /\ emitFailed' = emitFailed
          /\ watermark' = [watermark EXCEPT ![e.ch] = MaxTS(@, Cursor(e))]
          /\ cursors' = [cursors EXCEPT ![e.ch] = MaxTS(@, Cursor(e))]
      BY <1>2, <2>2 DEF Emit, AdvanceCursor, AdvanceWatermark
    <3> QED BY <1>1, <1>2, <2>1, <2>2, <3>1, <3>2 DEF Answered
  <2>3. CASE Matches(w) /\ fails /\ EmitFails
    BY <1>2, <2>3 DEF EmitFails, Answered
  <2>4. CASE InScope(w) /\ ~Narrows(w) /\ ~fails /\ ReportSkipped(w)
    <3>1. /\ emitted' = emitted /\ stoppedBy' = stoppedBy /\ emitFailed' = emitFailed
          /\ watermark' = [watermark EXCEPT ![e.ch] = MaxTS(@, Cursor(e))]
      BY <1>2, <2>4 DEF ReportSkipped, AdvanceCursor, AdvanceWatermark
    <3>2. \/ truncated' = TRUE /\ UNCHANGED <<cursors, reported>>
          \/ /\ KeysOf(reported') = KeysOf(reported) \cup {EventKey(w)}
             /\ cursors' = [cursors EXCEPT ![e.ch] = MaxTS(@, Cursor(e))]
             /\ truncated' = truncated
      BY <1>1, <1>2, <2>1, <2>4, AppendKeys DEF ReportSkipped, AdvanceCursor
    <3>3. truncated' \/ EventKey(w) \in KeysOf(reported')
      BY <3>2
    <3>4. ASSUME e.kind = "message" PROVE Answered(e, fails)
      <4>1. w = e
        BY <1>2, <3>4
      <4> QED BY <2>4, <3>3, <4>1, Zenon DEF Answered
    <3>5. KeysOf(emitted) \subseteq KeysOf(emitted') /\ KeysOf(reported) \subseteq KeysOf(reported')
      <4>1. reported' = reported \/ KeysOf(reported) \subseteq KeysOf(reported')
        BY <3>2
      <4> QED BY <3>1, <4>1
    <3>6. (truncated => truncated') /\ (emitFailed => emitFailed') /\ (emitFailed' => emitFailed)
      <4>1. truncated' = TRUE \/ truncated' = truncated
        BY <3>2
      <4>2. emitFailed' = emitFailed
        BY <3>1
      <4> QED BY <4>1, <4>2
    <3>7. ~fails
      BY <2>4
    <3> QED BY <1>2, <2>1, <3>1, <3>2, <3>4, <3>5, <3>6, <3>7
  <2>5. CASE ~InScope(w) /\ ~fails /\ NothingDelivered
    BY <1>2, <2>5 DEF NothingDelivered, Answered
  <2> QED BY <1>5, <2>2, <2>3, <2>4, <2>5
<1>6. \/ UNCHANGED deliveryVars /\ EventKey(e) \in seen
      \/ /\ EventKey(e) \notin seen /\ seen' = seen \cup {EventKey(e)}
         /\ \/ IsDuplicateReaction(e) /\ NothingDelivered
            \/ Matches(w) /\ ~fails /\ Emit(w)
            \/ Matches(w) /\ fails /\ EmitFails
            \/ InScope(w) /\ ~Narrows(w) /\ ~fails /\ ReportSkipped(w)
            \/ ~InScope(w) /\ ~fails /\ NothingDelivered
  BY DEF Offer
<1> HIDE DEF w
<1>7. CASE /\ EventKey(e) \notin seen /\ seen' = seen \cup {EventKey(e)}
           /\ \/ Matches(w) /\ ~fails /\ Emit(w)
              \/ Matches(w) /\ fails /\ EmitFails
              \/ InScope(w) /\ ~Narrows(w) /\ ~fails /\ ReportSkipped(w)
              \/ ~InScope(w) /\ ~fails /\ NothingDelivered
  BY <1>5, <1>7
<1> QED BY <1>3, <1>4, <1>6, <1>7

------------------------------------------------------------------------------
(* What history returns for a message: itself, or a root with its own       *)
(* timestamp as thread.                                                     *)
Copy(x, m) == x = m \/ (m.thread = NoTS /\ x = [m EXCEPT !.thread = m.ts])

(* What a history request can bring: a message that happened, or its copy.  *)
ReadBack(x) == \E m \in Occurred : m.kind = "message" /\ Copy(x, m)

(* A reaction read back with a message has no instant of its own.           *)
Undated(e) == /\ e.kind # "message" /\ e.caughtUp
              /\ \E m \in Occurred : m.kind = "message" /\ e.ts = m.ts

(* Everything a run is offered happened, or was read back.                  *)
Genuine(e) == e \in Occurred \/ ReadBack(e) \/ Undated(e)

-----------------------------------------------------------------------------
(* The run follows one thread, or a channel without its replies.            *)
Single == ThreadTS # NoTS \/ (RepliesTo = NoTS /\ ~IncludeThreadReplies)

(* A copy is the message, apart from its thread.                            *)
LEMMA CopyIsMessage ==
  ASSUME log \in Seq(Event), LogInv, NEW m \in Occurred, m.kind = "message",
         NEW x, Copy(x, m)
  PROVE  /\ x \in Event /\ EventKey(x) = EventKey(m)
         /\ x.kind = "message" /\ x.ch = m.ch /\ x.ts = m.ts /\ Cursor(x) = m.ts
         /\ Narrows(x) <=> Narrows(m)
<1>1. /\ m \in Event /\ ~m.caughtUp /\ m.eventTS = NoTS
  BY OccurredAt
<1>2. /\ x \in Event /\ x.kind = m.kind /\ x.ch = m.ch /\ x.ts = m.ts /\ x.eventTS = m.eventTS
      /\ x.author = m.author /\ x.reaction = m.reaction /\ x.target = m.target
      /\ x.caughtUp = m.caughtUp
  BY <1>1 DEF Copy, Event, Timestamps
<1>3. EventKey(x) = EventKey(m)
  BY <1>2 DEF EventKey
<1>4. Cursor(x) = m.ts
  BY <1>1, <1>2 DEF Cursor
<1>5. Narrows(x) <=> Narrows(m)
  BY <1>2 DEF Narrows, MatchesAuthor, MatchesReaction, IsReaction
<1> QED BY <1>2, <1>3, <1>4, <1>5

(* It is in scope when the message is.                        *)
LEMMA CopyInScope ==
  ASSUME Single, log \in Seq(Event), LogInv, NEW m \in Occurred, m.kind = "message",
         NEW x, Copy(x, m)
  PROVE  InScope(x) <=> InScope(m)
<1>1. /\ m \in Event /\ ~m.caughtUp /\ m.eventTS = NoTS /\ m.thread # m.ts /\ Cursor(m) = m.ts
  BY OccurredAt
<1>2. /\ x \in Event /\ x.kind = m.kind /\ x.ch = m.ch /\ x.ts = m.ts /\ x.author = m.author
      /\ x.thread = m.thread \/ (m.thread = NoTS /\ x.thread = x.ts)
  BY <1>1 DEF Copy, Event, Timestamps
<1>3. Cursor(x) = Cursor(m)
  BY <1>1, CopyIsMessage
<1>4. IsThreadReply(x) <=> IsThreadReply(m)
  BY <1>1, <1>2 DEF IsThreadReply
<1>5. MatchesThread(x) <=> MatchesThread(m)
  BY <1>2, <1>4 DEF MatchesThread, Single, InWatchedThread, InChannelScope, IsReaction, InConversationThread
<1> QED BY <1>2, <1>3, <1>5 DEF InScope, IsSelf

(* Whatever is offered under the key of a message is a copy of it.          *)
LEMMA GenuineKey ==
  ASSUME log \in Seq(Event), LogInv, NEW m \in Occurred, m.kind = "message",
         NEW e, Genuine(e), EventKey(e) = EventKey(m)
  PROVE  Copy(e, m)
<1>1. e.kind = "message" /\ e.ts = m.ts
  BY DEF EventKey
<1>2. PICK o \in Occurred : o.kind = "message" /\ Copy(e, o)
  BY <1>1 DEF Genuine, Undated, ReadBack, Copy
<1>3. o.ts = m.ts
  BY <1>1, <1>2, CopyIsMessage
<1>4. o = m
  BY <1>2, <1>3, OccurredAt, SameInstant
<1> QED BY <1>2, <1>4

(* Whatever is offered happened before the next instant.                    *)
LEMMA GenuineBefore ==
  ASSUME log \in Seq(Event), LogInv, NEW e \in Event, Genuine(e)
  PROVE  /\ Cursor(e) < Instant /\ Cursor(e) \in Nat
         /\ e.kind = "message" => e.ts \in Nat /\ e.ts < Instant
<1>1. CASE e \in Occurred
  BY <1>1, BeforeNow, OccurredAt DEF Instant
<1>2. CASE ReadBack(e)
  <2>1. PICK o \in Occurred : o.kind = "message" /\ Copy(e, o)
    BY <1>2 DEF ReadBack
  <2>2. Cursor(e) = o.ts /\ e.ts = o.ts /\ Cursor(o) = o.ts
    BY <2>1, CopyIsMessage, OccurredAt
  <2> QED BY <2>2, BeforeNow DEF Instant
<1>3. CASE Undated(e)
  <2>1. PICK o \in Occurred : o.kind = "message" /\ e.ts = o.ts
    BY <1>3 DEF Undated
  <2>2. Cursor(e) = o.ts + 1 /\ e.kind # "message"
    BY <1>3, <2>1 DEF Undated, Cursor, JustAfter
  <2>3. Cursor(o) = o.ts /\ Cursor(o) \in Nat /\ Cursor(o) + 1 < Instant
    BY <2>1, OccurredAt, BeforeNow
  <2> QED BY <2>2, <2>3
<1> QED BY <1>1, <1>2, <1>3 DEF Genuine

(* What caught-up messages become is genuine.                               *)
LEMMA CatchUpIsGenuine ==
  ASSUME log \in Seq(Event), LogInv, NEW messages, \A x \in messages : ReadBack(x),
         NEW since, NEW e \in CatchUpEvents(messages, since)
  PROVE  \/ e \in messages /\ ReadBack(e) /\ e.ts > since
         \/ Undated(e) /\ \E x \in messages : e.ch = x.ch /\ e.ts = x.ts
<1>1. CASE e \in {m \in messages : m.ts > since}
  BY <1>1
<1>2. CASE \E x \in messages : e \in CaughtUpReactions(x)
  <2>1. PICK x \in messages : e \in CaughtUpReactions(x)
    BY <1>2
  <2>2. PICK a \in ReactionsOn(x) :
          e = [a EXCEPT !.eventTS = NoTS, !.thread = x.thread, !.caughtUp = TRUE]
    BY <2>1 DEF CaughtUpReactions
  <2>3. a \in Event /\ a.kind = "reaction_added" /\ a.ch = x.ch /\ a.ts = x.ts
    BY <2>2, OccurredType DEF ReactionsOn
  <2>4. e.kind = "reaction_added" /\ e.ch = x.ch /\ e.ts = x.ts /\ e.caughtUp
    BY <2>2, <2>3 DEF Event
  <2>5. PICK m \in Occurred : m.kind = "message" /\ Copy(x, m)
    BY DEF ReadBack
  <2>6. e.ts = m.ts
    BY <2>4, <2>5, CopyIsMessage
  <2> QED BY <2>4, <2>5, <2>6 DEF Undated
<1> QED BY <1>1, <1>2 DEF CatchUpEvents

(* What a channel holds is finite.                                          *)
LEMMA HistoryIsFinite ==
  ASSUME log \in Seq(Event), NEW c, NEW since
  PROVE  IsFiniteSet(ChannelHistory(c, since))
<1>1. Len(log) \in Nat /\ DOMAIN log = 1..Len(log)
  BY LenProperties
<1> DEFINE f == [i \in 1..Len(log) |-> Summary(log[i])]
           T == {f[i] : i \in 1..Len(log)}
<1>2. f \in Surjection(1..Len(log), T)
  BY DEF Surjection
<1>3. IsFiniteSet(1..Len(log))
  BY <1>1, FS_Interval
<1>4. IsFiniteSet(T)
  BY <1>2, <1>3, FS_Surjection
<1>5. ChannelHistory(c, since) \subseteq T
  <2>1. ASSUME NEW x \in ChannelHistory(c, since) PROVE x \in T
    <3>1. PICK m \in Messages(c) : x = Summary(m)
      BY DEF ChannelHistory
    <3>2. PICK i \in 1..Len(log) : m = log[i]
      BY <1>1 DEF Messages, Occurred
    <3>3. f[i] = x
      BY <3>1, <3>2
    <3> QED BY <3>3
  <2> QED BY <2>1
<1> HIDE DEF T
<1> QED BY <1>4, <1>5, FS_Subset

-----------------------------------------------------------------------------
(* What is told, where it is read from, and what of it holds.               *)
Told == <<seen, watermark, cursors, emitted, reported, truncated, emitFailed>>

(* The places of a run that is on its way out.                              *)
Leaving == {"return", "returned"}

(* A step that reads and tells nothing.                                     *)
Quiet ==
  /\ UNCHANGED <<log, gaps, reading, batch, cursor, base>> /\ UNCHANGED Told
  /\ pc' \notin {"start", "threads", "replay"} \/ pc' = pc
  /\ pc \in Leaving => pc' \in Leaving

(* A step that offers an event of the batch.                                *)
Offering ==
  \E e \in batch, fails \in BOOLEAN :
    /\ Earliest(e) /\ Offer(e, fails)
    /\ UNCHANGED <<log, gaps, reading, cursor, base>>
    /\ pc = "replay" /\ pc' \in {"wait", "replay", "return"}
    /\ fails => pc' = "return"
    /\ batch' \in {{}, batch \ {e}} /\ (pc' = "replay" => batch' = batch \ {e})

(* The steps that matter to what is told, and the others.                   *)
LEMMA StepKinds ==
  ASSUME [Next]_vars
  PROVE  \/ Happens \/ StartPolling
         \/ ReadChannel /\ pc' = "threads"
         \/ \E root \in reading.roots : ReadThread(root)
         \/ ReadDone
         \/ Offering
         \/ NextRead
         \/ Quiet
<1>1. CASE BaselineFails \/ ReadFails \/ Idle \/ Sleep \/ Finish
  BY <1>1 DEF BaselineFails, ReadFails, Fail, Idle, Sleep, Finish, sessionVars, deliveryVars,
              Quiet, Told, Leaving
<1>2. CASE Expire \/ Cancel \/ Done \/ UNCHANGED vars
  BY <1>2 DEF Expire, Cancel, Done, vars, pollVars, sessionVars, deliveryVars, Quiet, Told
<1>3. CASE ReadChannel /\ pc' # "threads"
  BY <1>3 DEF ReadChannel, deliveryVars, Quiet, Told, Leaving
<1>4. ASSUME NEW e \in batch, Replay(e) PROVE Offering
  <2>1. PICK fails \in BOOLEAN :
          /\ Earliest(e) /\ Offer(e, fails) /\ (fails => pc' = "return")
          /\ UNCHANGED <<log, gaps, reading, cursor, base>> /\ pc = "replay"
          /\ pc' \in {"wait", "replay", "return"}
          /\ batch' \in {{}, batch \ {e}} /\ (pc' = "replay" => batch' = batch \ {e})
    <3>1. /\ Earliest(e) /\ pc = "replay" /\ UNCHANGED <<log, gaps, reading, cursor, base>>
      BY <1>4 DEF Replay
    <3>2. CASE /\ Offer(e, FALSE)
               /\ batch' = IF stoppedBy' # "" THEN {} ELSE batch \ {e}
               /\ pc' = IF stoppedBy' # "" THEN "return"
                        ELSE IF batch' = {} THEN "wait" ELSE "replay"
      BY <3>1, <3>2
    <3>3. CASE Offer(e, TRUE) /\ batch' = {} /\ Fail
      BY <3>1, <3>3 DEF Fail
    <3> QED BY <1>4, <3>2, <3>3 DEF Replay
  <2> QED BY <2>1 DEF Offering
<1> QED BY <1>1, <1>2, <1>3, <1>4 DEF Next, Engine

(* The log only grows, by what happens at the next instant.                 *)
LEMMA LogStep ==
  ASSUME TypeInv, LogInv, [Next]_vars
  PROVE  \/ UNCHANGED log
         \/ \E e \in NextActivity :
              /\ Happens /\ log' = Append(log, e) /\ e \in Event
              /\ Occurred' = Occurred \cup {e} /\ Instant' = Instant + 2
              /\ HappenedAt(e, Len(log) + 1)
              /\ Cursor(e) = Instant /\ (e.kind = "message" => e.ts = Instant)
<1>1. log \in Seq(Event) /\ Len(log) \in Nat
  BY LenProperties DEF TypeInv
<1>2. CASE Happens
  <2>1. PICK e \in NextActivity : log' = Append(log, e)
    BY <1>2 DEF Happens
  <2>2. e \in Event /\ HappenedAt(e, Len(log) + 1)
    BY <1>1, NextActivityType, NextHappens
  <2>3. Cursor(e) = Instant /\ (e.kind = "message" => e.ts = Instant)
    BY <1>1, <2>2 DEF HappenedAt, Cursor, NoTS, Instant
  <2> QED BY <1>1, <1>2, <2>1, <2>2, <2>3, LogGrows
<1> QED BY <1>2, StepKinds
        DEF StartPolling, ReadChannel, ReadThread, ReadDone, Offering, NextRead, Quiet

(* Every entry is where its instant says.                                   *)
LEMMA LogNext == TypeInv /\ LogInv /\ [Next]_vars => LogInv'
<1> SUFFICES ASSUME TypeInv, LogInv, [Next]_vars PROVE LogInv'
  OBVIOUS
<1>1. CASE UNCHANGED log
  BY <1>1 DEF LogInv
<1>2. ASSUME NEW e \in Event, log' = Append(log, e), HappenedAt(e, Len(log) + 1)
      PROVE  LogInv'
  BY <1>2, LogGrows DEF LogInv, TypeInv
<1> QED BY <1>1, <1>2, LogStep

(* What was read back stays so.                                             *)
LEMMA GenuineStays ==
  ASSUME TypeInv, LogInv, [Next]_vars
  PROVE  /\ Occurred \subseteq Occurred' /\ Instant <= Instant'
         /\ Instant \in Nat /\ Instant' \in Nat
         /\ \A x : ReadBack(x) => ReadBack(x)'
         /\ \A x : Undated(x) => Undated(x)'
<1>1. Instant \in Nat
  BY LenProperties DEF Instant, TypeInv
<1>2. UNCHANGED log => UNCHANGED <<Occurred, Instant>>
  BY DEF Occurred, Instant
<1>3. Occurred \subseteq Occurred' /\ Instant <= Instant' /\ Instant' \in Nat
  BY <1>1, <1>2, LogStep
<1> QED BY <1>1, <1>3 DEF ReadBack, Undated, Copy

-----------------------------------------------------------------------------
(* There are no threads to read beside the first request; what is read and  *)
(* what is offered was in the workspace.                                    *)
ReadInv ==
  /\ reading.roots = {}
  /\ \A x \in reading.messages : ReadBack(x)
  /\ \A e \in batch : ReadBack(e) \/ Undated(e)

(* A position is before the next instant, or where the run began.           *)
Past(t) == t < Instant \/ t <= base

(* The run has told and examined nothing of the future.                     *)
MarksInv ==
  /\ pc = "start" => /\ seen = {} /\ cursor = NoTS /\ base = NoTS /\ ~emitFailed
                     /\ watermark[TargetChannel] = NoTS
  /\ Past(cursor) /\ Past(watermark[TargetChannel])
  /\ cursors[TargetChannel] <= watermark[TargetChannel]
  /\ \A k \in seen : k[1] = "message" => k[3] \in Nat /\ k[3] < Instant

(* A message was handed to the caller, or reported as excluded.             *)
Handled(m) == EventKey(m) \in KeysOf(emitted) \cup KeysOf(reported)

(* A message in scope that was examined is an answer handed over, or an     *)
(* exclusion reported, or the report is full, or the caller could not take it.*)
SeenInv ==
  \A m \in Occurred : m.kind = "message" /\ InScope(m) /\ EventKey(m) \in seen =>
    \/ emitFailed
    \/ Matches(m) /\ EventKey(m) \in KeysOf(emitted)
    \/ ~Narrows(m) /\ (truncated \/ EventKey(m) \in KeysOf(reported))

(* A failing emit ends the run.                                             *)
FailInv == emitFailed => pc \in Leaving

(* What holds of the log, the reads and the marks,                          *)
GroundInv == TypeInv /\ LogInv /\ ReadInv /\ MarksInv /\ SeenInv /\ FailInv

(* The messages owed that were not examined yet.                            *)
Unseen == {m \in Owed : EventKey(m) \notin seen}

(* A read brought the message, in one form or another.                      *)
HasCopy(S, m) == \E x \in S : EventKey(x) = EventKey(m)

(* Until a gap is counted, a message that was not examined yet is in what   *)
(* was read, or newer than all of it,                                       *)
PlaceInv ==
  gaps = 0 => \A m \in Unseen :
    /\ pc = "threads" => HasCopy(reading.messages, m) \/ \A x \in reading.messages : x.ts < m.ts
    /\ pc = "replay" => HasCopy(batch, m) \/ \A e \in batch : Cursor(e) < m.ts

(* it lies past both positions,                                             *)
PosInv == gaps = 0 => \A m \in Unseen : m.ts > cursor /\ m.ts > watermark[TargetChannel]

(* and so does what the caller could not take.                              *)
FailSafe ==
  gaps = 0 /\ ~truncated /\ emitFailed =>
    \A m \in Owed : Handled(m) \/ m.ts > watermark[TargetChannel]

(* and the inductive invariant: where the unexamined is, and what lies before it. *)
LossInv == GroundInv /\ PlaceInv /\ PosInv /\ FailSafe

-----------------------------------------------------------------------------
(* The messages of a thread or a channel are read back.                     *)
LEMMA MessageIsReadBack ==
  ASSUME NEW c, NEW m \in Messages(c)
  PROVE  ReadBack(Summary(m))
BY DEF Messages, Summary, Copy, ReadBack

(* The first request of a round is the only one, and brings messages back.  *)
LEMMA SingleRead ==
  ASSUME Single, NEW c, NEW since
  PROVE  /\ FirstRead(c, since).roots = {}
         /\ \A x \in FirstRead(c, since).messages : ReadBack(x)
<1>1. CASE ThreadTS # NoTS
  <2>1. FirstRead(c, since) = [messages |-> FetchThread(c, ThreadTS), missed |-> 0, roots |-> {}]
    BY <1>1 DEF FirstRead
  <2>2. \A x \in FetchThread(c, ThreadTS) : ReadBack(x)
    BY MessageIsReadBack DEF FetchThread
  <2> QED BY <2>1, <2>2
<1>2. CASE ThreadTS = NoTS
  <2> DEFINE read == HistorySince(c, since)
  <2>1. FirstRead(c, since) = [messages |-> read.messages, missed |-> read.missed, roots |-> {}]
    BY <1>2 DEF Single, FirstRead
  <2>2. read.messages \subseteq ChannelHistory(c, since)
    BY DEF HistorySince, Newest
  <2>3. \A x \in ChannelHistory(c, since) : ReadBack(x)
    BY MessageIsReadBack DEF ChannelHistory
  <2> HIDE DEF read
  <2> QED BY <2>1, <2>2, <2>3
<1> QED BY <1>1, <1>2

(* What was read and is to be offered was in the workspace.                 *)
LEMMA ReadNext == Single /\ TypeInv /\ LogInv /\ ReadInv /\ [Next]_vars => ReadInv'
<1> SUFFICES ASSUME Single, TypeInv, LogInv, ReadInv, [Next]_vars PROVE ReadInv'
  OBVIOUS
<1>1. log \in Seq(Event)
  BY DEF TypeInv
<1>2. /\ \A x : ReadBack(x) => ReadBack(x)'
      /\ \A x : Undated(x) => Undated(x)'
  BY GenuineStays
<1>3. CASE UNCHANGED reading /\ batch' \subseteq batch
  BY <1>2, <1>3, Zenon DEF ReadInv
<1>4. CASE ReadChannel /\ pc' = "threads"
  <2> DEFINE read == FirstRead(TargetChannel, cursor)
  <2>1. reading' = [ch |-> TargetChannel, messages |-> read.messages, roots |-> read.roots]
        /\ batch' = batch
    BY <1>4 DEF ReadChannel, BeginRead
  <2>2. read.roots = {} /\ \A x \in read.messages : ReadBack(x)
    BY SingleRead
  <2> HIDE DEF read
  <2>3. reading'.roots = {} /\ reading'.messages = read.messages
    BY <2>1, <2>2
  <2> QED BY <1>2, <2>1, <2>2, <2>3, Zenon DEF ReadInv
<1>5. CASE ReadDone
  <2>1. batch' = CatchUpEvents(reading.messages, cursor) /\ reading' = NotReading
    BY <1>5 DEF ReadDone, FinishRead
  <2>2. \A e \in batch' : ReadBack(e) \/ Undated(e)
    BY <1>1, <2>1, CatchUpIsGenuine DEF ReadInv
  <2>3. reading'.roots = {} /\ reading'.messages = {}
    BY <2>1 DEF NotReading
  <2> QED BY <1>2, <2>2, <2>3, Zenon DEF ReadInv
<1>6. CASE Offering
  BY <1>3, <1>6 DEF Offering
<1>7. CASE \E root \in reading.roots : ReadThread(root)
  BY <1>7 DEF ReadInv
<1> QED BY <1>3, <1>4, <1>5, <1>6, <1>7, StepKinds
        DEF Happens, StartPolling, NextRead, Quiet

-----------------------------------------------------------------------------
(* What an offer does in the terms of the proofs.                           *)
LEMMA BatchOffer ==
  ASSUME TypeInv, LogInv, ReadInv, NEW e \in batch, NEW fails \in BOOLEAN, Offer(e, fails)
  PROVE  /\ e \in Event /\ Genuine(e) /\ Cursor(e) \in Nat /\ Cursor(e) < Instant
         /\ e.kind = "message" => e.ts \in Nat /\ e.ts < Instant
         /\ seen' = seen \cup {EventKey(e)}
         /\ watermark'[TargetChannel] \in
              {watermark[TargetChannel], MaxTS(watermark[TargetChannel], Cursor(e))}
         /\ cursors'[TargetChannel] # cursors[TargetChannel] =>
              /\ cursors'[TargetChannel] = MaxTS(cursors[TargetChannel], Cursor(e))
              /\ watermark'[TargetChannel] = MaxTS(watermark[TargetChannel], Cursor(e))
         /\ watermark[TargetChannel] \in Timestamps /\ cursors[TargetChannel] \in Timestamps
<1>1. e \in Event /\ Genuine(e) /\ SessionTypeOK
  BY DEF TypeInv, TypeOK, ReadInv, Genuine
<1>2. /\ Cursor(e) \in Nat /\ Cursor(e) < Instant
      /\ e.kind = "message" => e.ts \in Nat /\ e.ts < Instant
  BY <1>1, GenuineBefore DEF TypeInv
<1>3. /\ seen' = seen \cup {EventKey(e)}
      /\ \A c \in AllChannels :
           \/ watermark'[c] = watermark[c]
           \/ c = e.ch /\ watermark'[c] = MaxTS(watermark[c], Cursor(e))
      /\ \A c \in AllChannels :
           \/ cursors'[c] = cursors[c]
           \/ c = e.ch /\ cursors'[c] = MaxTS(cursors[c], Cursor(e))
                       /\ watermark'[c] = MaxTS(watermark[c], Cursor(e))
  BY <1>1, OfferEffect
<1> QED BY <1>1, <1>2, <1>3, Target DEF SessionTypeOK

(* Positions stay before the next instant, and a resume point never passes  *)
(* the read position.                                                       *)
LEMMA MarksNext == TypeInv /\ LogInv /\ ReadInv /\ MarksInv /\ [Next]_vars => MarksInv'
<1> SUFFICES ASSUME TypeInv, LogInv, ReadInv, MarksInv, [Next]_vars PROVE MarksInv'
  OBVIOUS
<1> DEFINE t == TargetChannel
<1>1. /\ watermark[t] \in Timestamps /\ cursors[t] \in Timestamps
      /\ cursor \in Timestamps /\ base \in Timestamps
      /\ t \in AllChannels /\ watermark \in [AllChannels -> Timestamps]
      /\ cursors \in [AllChannels -> Timestamps]
  BY Target DEF TypeInv, TypeOK, SessionTypeOK
<1>2. Instant \in Nat /\ Instant' \in Nat /\ Instant <= Instant'
  BY GenuineStays
<1>3. TargetChannel' = t
  BY DEF TargetChannel
<1> HIDE DEF t
<1>4. ASSUME NEW x \in Timestamps, Past(x), UNCHANGED base PROVE Past(x)'
  BY <1>1, <1>2, <1>4 DEF Past, Timestamps, NoTS
<1>5. \A k \in seen : k[1] = "message" => k[3] \in Nat /\ k[3] < Instant'
  BY <1>2 DEF MarksInv
<1>6. CASE StartPolling
  <2>1. /\ base' = PollBaseline /\ cursor' = PollBaseline /\ seen' = seen /\ pc' = "read"
        /\ PollBaseline \in Timestamps
    BY <1>6, BaselineType DEF StartPolling, TypeInv
  <2>2. watermark[t] = NoTS /\ cursors[t] <= NoTS
    BY <1>6 DEF MarksInv, StartPolling, t
  <2>3. \/ UNCHANGED <<cursors, watermark>>
        \/ /\ cursors'[t] = MaxTS(cursors[t], PollBaseline)
           /\ watermark'[t] = MaxTS(watermark[t], PollBaseline)
    BY <1>1, <1>6 DEF StartPolling, t
  <2>4. cursors'[t] <= watermark'[t] /\ watermark'[t] <= base'
    BY <1>1, <2>1, <2>2, <2>3 DEF MaxTS, Timestamps, NoTS
  <2> QED BY <1>3, <1>5, <2>1, <2>4 DEF MarksInv, Past, t, Timestamps, NoTS
<1>7. CASE NextRead
  <2>1. /\ cursor' \in {cursor, watermark[t]} /\ UNCHANGED <<seen, watermark, cursors, base>>
        /\ pc' = "sleep"
    BY <1>7 DEF NextRead, MaxTS, t, sessionVars, deliveryVars
  <2>2. Past(cursor) /\ Past(watermark[t]) /\ cursors[t] <= watermark[t]
    BY DEF MarksInv, t
  <2>3. Past(cursor)' /\ Past(watermark[t])'
    BY <1>1, <1>4, <2>1, <2>2 DEF Past
  <2> QED BY <1>3, <1>5, <2>1, <2>2, <2>3 DEF MarksInv, Past, t
<1>8. CASE Offering
  <2>1. PICK e \in batch, fails \in BOOLEAN :
          /\ Offer(e, fails) /\ UNCHANGED <<log, cursor, base>> /\ pc' # "start"
    BY <1>8 DEF Offering
  <2>2. /\ Cursor(e) \in Nat /\ Cursor(e) < Instant
        /\ e.kind = "message" => e.ts \in Nat /\ e.ts < Instant
        /\ seen' = seen \cup {EventKey(e)}
        /\ watermark'[t] \in {watermark[t], MaxTS(watermark[t], Cursor(e))}
        /\ cursors'[t] # cursors[t] => /\ cursors'[t] = MaxTS(cursors[t], Cursor(e))
                                       /\ watermark'[t] = MaxTS(watermark[t], Cursor(e))
    BY <2>1, BatchOffer DEF t
  <2>3. Past(cursor) /\ Past(watermark[t]) /\ cursors[t] <= watermark[t]
    BY DEF MarksInv, t
  <2>4. Instant' = Instant
    BY <2>1 DEF Instant
  <2>5. cursors'[t] <= watermark'[t]
    BY <1>1, <2>2, <2>3 DEF MaxTS, Timestamps, NoTS
  <2>6. Past(cursor)' /\ Past(watermark[t])'
    BY <1>1, <2>1, <2>2, <2>3, <2>4 DEF MaxTS, Past
  <2>7. ASSUME NEW k \in seen', k[1] = "message" PROVE k[3] \in Nat /\ k[3] < Instant'
    <3>1. CASE k = EventKey(e)
      BY <2>2, <2>4, <2>7, <3>1 DEF EventKey
    <3> QED BY <1>5, <2>2, <2>7, <3>1
  <2> QED BY <1>3, <2>1, <2>5, <2>6, <2>7 DEF MarksInv, Past, t
<1>9. CASE UNCHANGED <<seen, watermark, cursors, cursor, base, emitFailed>> /\ (pc' = "start" => pc = "start")
  <2>1. Past(cursor) /\ Past(watermark[t]) /\ cursors[t] <= watermark[t]
    BY DEF MarksInv, t
  <2>2. Past(cursor)' /\ Past(watermark[t])'
    BY <1>1, <1>4, <1>9, <2>1 DEF Past
  <2> QED BY <1>3, <1>5, <1>9, <2>1, <2>2 DEF MarksInv, Past, t
<1>10. CASE Happens \/ ReadChannel \/ ReadDone \/ \E root \in reading.roots : ReadThread(root)
  BY <1>9, <1>10 DEF Happens, ReadChannel, ReadDone, ReadThread, pollVars, sessionVars, deliveryVars
<1>11. CASE Quiet
  BY <1>9, <1>11 DEF Quiet, Told
<1> QED BY <1>6, <1>7, <1>8, <1>10, <1>11, StepKinds

-----------------------------------------------------------------------------
(* A step that offers nothing tells nothing.                                *)
LEMMA TellsNothing ==
  ASSUME [Next]_vars, ReadInv, ~Offering
  PROVE  /\ UNCHANGED <<seen, emitted, reported, truncated, emitFailed>>
         /\ (watermark' = watermark /\ cursors' = cursors) \/ StartPolling
         /\ pc \in Leaving => pc' \in Leaving
<1>1. CASE \E root \in reading.roots : ReadThread(root)
  BY <1>1 DEF ReadInv
<1> QED BY <1>1, StepKinds
        DEF Happens, StartPolling, ReadChannel, ReadDone, NextRead, Quiet, Told, Leaving,
            pollVars, sessionVars, deliveryVars

(* What was examined was handed over, reported, or accounted for.           *)
LEMMA SeenNext ==
  Single /\ TypeInv /\ LogInv /\ ReadInv /\ MarksInv /\ SeenInv /\ [Next]_vars => SeenInv'
<1> SUFFICES ASSUME Single, TypeInv, LogInv, ReadInv, MarksInv, SeenInv, [Next]_vars,
                    NEW m \in Occurred', m.kind = "message", InScope(m), EventKey(m) \in seen'
             PROVE  \/ emitFailed'
                    \/ Matches(m) /\ EventKey(m) \in KeysOf(emitted')
                    \/ ~Narrows(m) /\ (truncated' \/ EventKey(m) \in KeysOf(reported'))
  BY DEF SeenInv, EventKey, KeysOf, InScope, Matches, Narrows
<1>1. log \in Seq(Event) /\ SessionTypeOK
  BY DEF TypeInv
<1> DEFINE Settled == \/ emitFailed
                      \/ Matches(m) /\ EventKey(m) \in KeysOf(emitted)
                      \/ ~Narrows(m) /\ (truncated \/ EventKey(m) \in KeysOf(reported))
<1>2. m \in Occurred /\ EventKey(m) \in seen => Settled
  BY DEF SeenInv
<1>3. CASE ~Offering
  <2>1. UNCHANGED <<seen, emitted, reported, truncated, emitFailed>>
    BY <1>3, TellsNothing
  <2>2. m \in Occurred
    <3>1. CASE UNCHANGED log
      BY <3>1 DEF Occurred
    <3>2. ASSUME m \notin Occurred PROVE FALSE
      <4>1. m.ts = Instant
        BY <3>1, <3>2, LogStep
      <4>2. EventKey(m)[1] = "message" /\ EventKey(m)[3] = Instant
        BY <4>1 DEF EventKey
      <4>3. EventKey(m) \in seen
        BY <2>1
      <4>4. EventKey(m)[3] < Instant /\ EventKey(m)[3] \in Nat
        BY <4>2, <4>3 DEF MarksInv
      <4> QED BY <4>2, <4>4
    <3> QED BY <3>2
  <2> QED BY <1>2, <2>1, <2>2
<1>4. CASE Offering
  <2>1. PICK e \in batch, fails \in BOOLEAN : Offer(e, fails) /\ UNCHANGED log
    BY <1>4 DEF Offering
  <2>2. m \in Occurred /\ e \in Event /\ Genuine(e)
    BY <2>1, BatchOffer DEF Occurred
  <2>3. /\ seen' = seen \cup {EventKey(e)}
        /\ KeysOf(emitted) \subseteq KeysOf(emitted') /\ KeysOf(reported) \subseteq KeysOf(reported')
        /\ truncated => truncated'
        /\ emitFailed => emitFailed'
        /\ e.kind = "message" /\ EventKey(e) \notin seen => Answered(e, fails)
    BY <1>1, <2>1, <2>2, OfferEffect
  <2>4. CASE EventKey(m) \in seen
    <3>1. Settled
      BY <1>2, <2>2, <2>4
    <3> QED BY <2>3, <3>1, Zenon
  <2>5. CASE EventKey(m) \notin seen
    <3>1. EventKey(e) = EventKey(m)
      BY <2>3, <2>5
    <3>2. Copy(e, m)
      BY <1>1, <2>2, <3>1, GenuineKey
    <3>3. e.kind = "message" /\ (Narrows(e) <=> Narrows(m)) /\ (InScope(e) <=> InScope(m))
      BY <1>1, <2>2, <3>2, CopyIsMessage, CopyInScope
    <3>4. Answered(e, fails)
      BY <2>3, <2>5, <3>1, <3>3
    <3> QED BY <3>1, <3>3, <3>4 DEF Answered, Matches
  <2> QED BY <2>4, <2>5
<1> QED BY <1>3, <1>4

(* A caller that could not take an event ends the run.                      *)
LEMMA FailNext == TypeInv /\ ReadInv /\ LogInv /\ FailInv /\ [Next]_vars => FailInv'
<1> SUFFICES ASSUME TypeInv, ReadInv, LogInv, FailInv, [Next]_vars, emitFailed'
             PROVE  pc' \in Leaving
  BY DEF FailInv, Leaving
<1>1. CASE Offering
  <2>1. PICK e \in batch, fails \in BOOLEAN :
          Offer(e, fails) /\ pc = "replay" /\ (fails => pc' = "return")
    BY <1>1 DEF Offering
  <2>2. e \in Event
    BY DEF TypeInv, TypeOK
  <2>3. emitFailed \/ fails
    BY <2>1, <2>2, OfferEffect DEF TypeInv
  <2> QED BY <2>1, <2>3 DEF FailInv, Leaving
<1>2. CASE ~Offering
  BY <1>2, TellsNothing DEF FailInv
<1> QED BY <1>1, <1>2


-----------------------------------------------------------------------------
(* What the run owes are messages in scope, past where it began.            *)
LEMMA OwedAre ==
  ASSUME TypeInv, LogInv, NEW m \in Owed
  PROVE  /\ pc # "start" /\ m \in Occurred /\ m \in Event /\ m.kind = "message"
         /\ Readable(m) /\ InScope(m) /\ Cursor(m) = m.ts /\ m.ts \in Nat
         /\ m.ch = TargetChannel /\ m.ts > base
<1>1. /\ pc # "start" /\ m \in Occurred /\ m.kind = "message" /\ Readable(m) /\ InScope(m)
      /\ m.ch = TargetChannel /\ m.ts > base
  BY DEF Owed
<1>2. m \in Event /\ Cursor(m) = m.ts
  BY <1>1, OccurredAt DEF TypeInv
<1> QED BY <1>1, <1>2 DEF Event

(* Without its replies, what a channel run owes are roots.                  *)
LEMMA OwedIsRoot ==
  ASSUME Single, TypeInv, LogInv, NEW m \in Owed, ThreadTS = NoTS
  PROVE  m.thread = NoTS
<1>1. /\ m \in Occurred /\ m.kind = "message" /\ InScope(m)
  BY OwedAre
<1>2. m.thread # m.ts
  BY <1>1, OccurredAt DEF TypeInv
<1>3. ~IsThreadReply(m)
  BY <1>1 DEF InScope, MatchesThread, InChannelScope, InConversationThread, IsReaction, Single
<1> QED BY <1>1, <1>2, <1>3 DEF IsThreadReply

(* They are in what one read of the channel or thread brings, if it starts  *)
(* before them and counts no gap.                                           *)
LEMMA ReadCovers ==
  ASSUME Single, TypeInv, LogInv, NEW m \in Owed, NEW since \in Timestamps, since < m.ts,
         FirstRead(TargetChannel, since).missed = 0
  PROVE  HasCopy(FirstRead(TargetChannel, since).messages, m)
<1> DEFINE c == TargetChannel
           x == Summary(m)
<1>1. /\ m \in Occurred /\ m \in Event /\ m.kind = "message" /\ Readable(m) /\ InScope(m)
      /\ m.ts \in Nat /\ m.ch = c /\ log \in Seq(Event)
  BY OwedAre DEF TypeInv
<1>2. EventKey(x) = EventKey(m) /\ m \in Messages(c)
  BY <1>1 DEF Summary, EventKey, Event, Messages
<1> HIDE DEF c
<1>3. CASE ThreadTS # NoTS
  <2>1. m.thread = ThreadTS
    BY <1>1, <1>3 DEF InScope, MatchesThread, InWatchedThread, IsReaction
  <2>2. x \in FetchThread(c, ThreadTS)
    BY <1>2, <2>1 DEF FetchThread
  <2>3. FirstRead(c, since).messages = FetchThread(c, ThreadTS)
    BY <1>3 DEF FirstRead
  <2> QED BY <1>2, <2>2, <2>3 DEF HasCopy, c
<1>4. CASE ThreadTS = NoTS
  <2> DEFINE all   == ChannelHistory(c, since)
             later == {o \in all : o.ts > x.ts}
  <2>1. m.thread = NoTS
    BY <1>1, <1>4, OwedIsRoot
  <2>2. x \in all
    BY <1>1, <1>2, <2>1 DEF ChannelHistory, Timestamps, NoTS
  <2>3. FirstRead(c, since).messages = Newest(all, HistoryMax) /\ ~(Cardinality(all) >= HistoryMax)
    BY <1>4 DEF Single, FirstRead, HistorySince, c
  <2>4. IsFiniteSet(all) /\ later \in SUBSET all
    BY <1>1, HistoryIsFinite
  <2>5. x \in Newest(all, HistoryMax) <=> Cardinality(later) < HistoryMax
    BY <2>2 DEF Newest
  <2> HIDE DEF later, all
  <2>6. IsFiniteSet(later) /\ Cardinality(later) <= Cardinality(all)
    BY <2>4, FS_Subset
  <2>7. Cardinality(later) \in Nat /\ Cardinality(all) \in Nat
    BY <2>4, <2>6, FS_CardinalityType
  <2>8. x \in Newest(all, HistoryMax)
    BY <2>3, <2>5, <2>6, <2>7, WorkspaceAssumption
  <2> QED BY <1>2, <2>3, <2>8 DEF HasCopy, c
<1> QED BY <1>3, <1>4

(* Where the run begins, nothing it owes is passed.                         *)
LEMMA Beginning ==
  ASSUME TypeInv, LogInv, MarksInv, pc = "start", [Next]_vars, NEW m \in Owed'
  PROVE  /\ pc' \notin {"threads", "replay"} /\ ~emitFailed'
         /\ m.ts > cursor' /\ m.ts > watermark'[TargetChannel]
<1>1. m.ts > base' /\ m.ts \in Nat /\ pc' # "start"
  <2>1. TypeInv' /\ LogInv'
    BY TypeNext, LogNext
  <2>2. m \in Occurred' /\ m.kind = "message" /\ m.ts > base' /\ pc' # "start"
    BY DEF Owed
  <2>3. m \in Event
    <3>1. log' \in Seq(Event)
      BY <2>1 DEF TypeInv
    <3> QED BY <2>2, <3>1 DEF Occurred
  <2> QED BY <2>2, <2>3 DEF Event
<1>2. ~emitFailed /\ watermark[TargetChannel] = NoTS /\ cursor = NoTS /\ base = NoTS
  BY DEF MarksInv
<1>3. CASE StartPolling
  <2>1. /\ base' = PollBaseline /\ cursor' = PollBaseline /\ pc' = "read"
        /\ emitFailed' = emitFailed
        /\ watermark' \in {watermark, [watermark EXCEPT ![TargetChannel] = MaxTS(@, PollBaseline)]}
        /\ PollBaseline \in Timestamps
    BY <1>3, BaselineType DEF StartPolling, TypeInv
  <2>2. watermark'[TargetChannel] <= PollBaseline
    <3>1. watermark \in [AllChannels -> Timestamps]
      BY DEF TypeInv, SessionTypeOK
    <3> QED BY <1>2, <2>1, <3>1, Target DEF MaxTS, Timestamps, NoTS
  <2>3. watermark'[TargetChannel] \in Timestamps
    <3>1. TypeInv'
      BY TypeNext
    <3> QED BY <3>1, Target DEF TypeInv, SessionTypeOK
  <2> QED BY <1>1, <1>2, <2>1, <2>2, <2>3 DEF Timestamps, NoTS
<1>4. CASE UNCHANGED <<cursor, watermark, emitFailed>> /\ pc' \notin {"threads", "replay"}
  BY <1>1, <1>2, <1>4 DEF NoTS
<1>5. CASE BaselineFails
  BY <1>4, <1>5 DEF BaselineFails, Fail, sessionVars, deliveryVars
<1> QED BY <1>1, <1>3, <1>4, <1>5
        DEF Next, Engine, ReadChannel, ReadFails, ReadThread, ReadDone, Replay, NextRead, Idle,
            Sleep, Finish, Happens, Expire, Cancel, Done, vars, pollVars, sessionVars, deliveryVars

(* What was examined stays so.                                              *)
LEMMA SeenGrows ==
  ASSUME TypeInv, LogInv, ReadInv, [Next]_vars
  PROVE  seen \subseteq seen' /\ (gaps' = 0 => gaps = 0)
<1>1. seen \subseteq seen'
  <2>1. CASE Offering
    BY <2>1, BatchOffer DEF Offering
  <2>2. CASE ~Offering
    BY <2>2, TellsNothing
  <2> QED BY <2>1, <2>2
<1>2. gaps' = 0 => gaps = 0
  <2>1. CASE ReadChannel
    <3> DEFINE missed == FirstRead(TargetChannel, cursor).missed
    <3>1. missed \in Nat /\ gaps \in Nat
      BY FirstReadType DEF TypeInv
    <3>2. gaps' \in {gaps, gaps + missed}
      BY <2>1 DEF ReadChannel, BeginRead
    <3> HIDE DEF missed
    <3> QED BY <3>1, <3>2
  <2> QED BY <2>1, StepKinds
          DEF Happens, StartPolling, ReadThread, ReadDone, Offering, NextRead, Quiet,
              sessionVars
<1> QED BY <1>1, <1>2

(* A message owed once the run had begun was owed before the step, or was   *)
(* just posted.                                                             *)
LEMMA OwedWas ==
  ASSUME TypeInv, LogInv, ReadInv, pc # "start", [Next]_vars, NEW m \in Owed'
  PROVE  /\ m \in Owed \/ (Happens /\ m.ts = Instant)
         /\ m.kind = "message" /\ m.ts > base /\ base' = base
<1>1. base' = base
  BY StepKinds
     DEF Happens, StartPolling, ReadChannel, ReadThread, ReadDone, Offering, NextRead, Quiet,
         pollVars
<1>2. /\ m \in Occurred' /\ m.kind = "message" /\ m.ts > base /\ m.ch = TargetChannel
      /\ Readable(m)' /\ InScope(m)
  BY <1>1 DEF Owed, InScope, TargetChannel
<1>3. Readable(m)
  BY <1>2, GenuineStays DEF Readable
<1>4. CASE m \in Occurred
  BY <1>1, <1>2, <1>3, <1>4 DEF Owed
<1>5. CASE m \notin Occurred
  <2>1. ~UNCHANGED log
    BY <1>2, <1>5 DEF Occurred
  <2> QED BY <1>1, <1>2, <1>5, <2>1, LogStep
<1> QED BY <1>1, <1>2, <1>4, <1>5

(* So was one that was not examined yet.                                    *)
LEMMA UnseenWas ==
  ASSUME TypeInv, LogInv, ReadInv, pc # "start", [Next]_vars, NEW m \in Unseen'
  PROVE  /\ m \in Unseen \/ (Happens /\ m.ts = Instant)
         /\ EventKey(m) \notin seen'
<1>1. m \in Owed' /\ EventKey(m) \notin seen'
  BY DEF Unseen, EventKey
<1> QED BY <1>1, SeenGrows, OwedWas DEF Unseen

-----------------------------------------------------------------------------
(* Nothing read or to be offered is past what was just posted.              *)
LEMMA JustPosted ==
  ASSUME TypeInv, LogInv, ReadInv
  PROVE  /\ \A x \in reading.messages : x.ts < Instant
         /\ \A e \in batch : Cursor(e) < Instant
<1>1. log \in Seq(Event) /\ batch \subseteq Event
  BY DEF TypeInv, TypeOK
<1>2. ASSUME NEW x \in reading.messages PROVE x.ts < Instant
  <2>1. ReadBack(x)
    BY DEF ReadInv
  <2>2. x \in Event /\ x.kind = "message"
    BY <1>1, <2>1, CopyIsMessage DEF ReadBack
  <2> QED BY <1>1, <2>1, <2>2, GenuineBefore DEF Genuine
<1>3. \A e \in batch : Cursor(e) < Instant
  BY <1>1, GenuineBefore DEF ReadInv, Genuine
<1> QED BY <1>2, <1>3

(* Offering the earliest event of a batch passes nothing unexamined.        *)
LEMMA ReplayPassesNothing ==
  ASSUME GroundInv, PlaceInv, gaps = 0, pc = "replay", UNCHANGED log,
         NEW e \in batch, Earliest(e), NEW m \in Unseen, EventKey(m) # EventKey(e)
  PROVE  Cursor(e) < m.ts
<1>1. /\ TypeInv /\ LogInv /\ ReadInv /\ log \in Seq(Event) /\ e \in Event
  BY DEF GroundInv, TypeInv, TypeOK
<1>2. /\ m \in Owed /\ m \in Event /\ m \in Occurred /\ m.kind = "message"
      /\ Cursor(m) = m.ts /\ m.ts \in Nat
  BY <1>1, OwedAre DEF Unseen
<1>3. CASE HasCopy(batch, m)
  <2>1. PICK x \in batch : EventKey(x) = EventKey(m)
    BY <1>3 DEF HasCopy
  <2>2. Copy(x, m)
    BY <1>1, <1>2, <2>1, GenuineKey DEF ReadInv, Genuine
  <2>3. Cursor(x) = m.ts
    BY <1>1, <1>2, <2>2, CopyIsMessage
  <2>4. Cursor(e) <= m.ts
    BY <2>1, <2>3 DEF Earliest
  <2>5. Cursor(e) # m.ts
    <3>1. CASE ReadBack(e)
      <4>1. PICK o \in Occurred : o.kind = "message" /\ Copy(e, o)
        BY <3>1 DEF ReadBack
      <4>2. Cursor(e) = o.ts /\ EventKey(e) = EventKey(o) /\ Cursor(o) = o.ts
        BY <1>1, <4>1, CopyIsMessage, OccurredAt
      <4>3. Cursor(o) = Cursor(m) => o = m
        BY <1>1, <1>2, <4>1, SameInstant
      <4> QED BY <1>2, <4>2, <4>3
    <3>2. CASE Undated(e)
      <4>1. PICK o \in Occurred : o.kind = "message" /\ e.ts = o.ts
        BY <3>2 DEF Undated
      <4>2. Cursor(e) = o.ts + 1 /\ Cursor(o) = o.ts /\ o.ts \in Nat
        BY <1>1, <3>2, <4>1, OccurredAt DEF Undated, Cursor, JustAfter, Event
      <4>3. \/ o.ts < m.ts /\ o.ts + 1 < m.ts
            \/ o.ts >= m.ts
        BY <1>1, <1>2, <4>1, <4>2, JustAfterIsBetween
      <4> QED BY <1>2, <4>2, <4>3
    <3> QED BY <1>1, <3>1, <3>2 DEF ReadInv
  <2>6. Cursor(e) \in Int
    BY <1>1 DEF Cursor, JustAfter, Event, Timestamps, NoTS
  <2> QED BY <1>2, <2>4, <2>5, <2>6
<1>4. CASE ~HasCopy(batch, m)
  BY <1>4 DEF PlaceInv
<1> QED BY <1>3, <1>4

(* What a read brought is all in the batch made of it.                      *)
LEMMA BatchCovers ==
  ASSUME GroundInv, PlaceInv, PosInv, gaps = 0, ReadDone, NEW m \in Unseen
  PROVE  HasCopy(batch', m) \/ \A e \in batch' : Cursor(e) < m.ts
<1>1. /\ TypeInv /\ LogInv /\ ReadInv /\ log \in Seq(Event) /\ pc = "threads"
      /\ batch' = CatchUpEvents(reading.messages, cursor)
  BY DEF GroundInv, TypeInv, ReadDone, FinishRead
<1>2. /\ m \in Owed /\ m \in Event /\ m \in Occurred /\ m.kind = "message"
      /\ Cursor(m) = m.ts /\ m.ts \in Nat
  BY <1>1, OwedAre DEF Unseen
<1>3. m.ts > cursor
  BY DEF PosInv
<1>4. CASE HasCopy(reading.messages, m)
  <2>1. PICK x \in reading.messages : EventKey(x) = EventKey(m)
    BY <1>4 DEF HasCopy
  <2>2. x.ts = m.ts
    BY <2>1 DEF EventKey
  <2>3. x \in batch'
    BY <1>1, <1>3, <2>2 DEF CatchUpEvents
  <2> QED BY <2>1, <2>3 DEF HasCopy
<1>5. CASE ~HasCopy(reading.messages, m)
  <2>1. ASSUME NEW e \in batch' PROVE Cursor(e) < m.ts
    <3>1. PICK x \in reading.messages : e.ts = x.ts /\ (e = x \/ Undated(e))
      BY <1>1, CatchUpIsGenuine DEF ReadInv
    <3>2. x.ts < m.ts
      BY <1>1, <1>5 DEF PlaceInv
    <3>3. PICK o \in Occurred : o.kind = "message" /\ Copy(x, o)
      BY <1>1 DEF ReadInv, ReadBack
    <3>4. Cursor(x) = x.ts /\ x.ts = o.ts /\ Cursor(o) = o.ts
      BY <1>1, <3>3, CopyIsMessage, OccurredAt
    <3>5. o.ts + 1 < m.ts
      BY <1>1, <1>2, <3>2, <3>4, JustAfterIsBetween
    <3>6. Undated(e) => Cursor(e) = e.ts + 1
      BY DEF Undated, Cursor, JustAfter
    <3>7. e = x => Cursor(e) = x.ts
      BY <3>4
    <3> QED BY <3>1, <3>2, <3>4, <3>5, <3>6, <3>7
  <2> QED BY <2>1
<1> QED BY <1>4, <1>5

(* A message that was not examined stays in what was read, or newer than it.*)
LEMMA PlaceNext == Single /\ LossInv /\ [Next]_vars => PlaceInv'
<1> SUFFICES ASSUME Single, LossInv, [Next]_vars, gaps' = 0, NEW m \in Unseen'
             PROVE  /\ pc' = "threads" => \/ HasCopy(reading'.messages, m)
                                          \/ \A x \in reading'.messages : x.ts < m.ts
                    /\ pc' = "replay" => \/ HasCopy(batch', m)
                                         \/ \A e \in batch' : Cursor(e) < m.ts
  BY DEF PlaceInv, HasCopy, EventKey, Cursor, JustAfter
<1>1. TypeInv /\ LogInv /\ ReadInv /\ MarksInv /\ GroundInv /\ PlaceInv /\ PosInv
  BY DEF LossInv, GroundInv
<1>2. gaps = 0
  BY <1>1, SeenGrows
<1>3. CASE pc = "start"
  BY <1>1, <1>3, Beginning DEF Unseen
<1>4. CASE pc # "start" /\ m \notin Unseen
  <2>1. Happens /\ m.ts = Instant
    BY <1>1, <1>4, UnseenWas
  <2>2. UNCHANGED <<pc, reading, batch>>
    BY <2>1 DEF Happens, pollVars
  <2> QED BY <1>1, <2>1, <2>2, JustPosted
<1>5. ASSUME pc # "start", m \in Unseen, EventKey(m) \notin seen'
      PROVE  /\ pc' = "threads" => \/ HasCopy(reading'.messages, m)
                                   \/ \A x \in reading'.messages : x.ts < m.ts
             /\ pc' = "replay" => \/ HasCopy(batch', m)
                                  \/ \A e \in batch' : Cursor(e) < m.ts
  <2>1. CASE UNCHANGED <<reading, batch>> /\ (pc' = pc \/ pc' \notin {"threads", "replay"})
    BY <1>1, <1>2, <1>5, <2>1 DEF PlaceInv
  <2>2. CASE ReadChannel /\ pc' = "threads"
    <3> DEFINE read == FirstRead(TargetChannel, cursor)
    <3>1. gaps' = gaps + read.missed /\ reading'.messages = read.messages
      BY <2>2 DEF ReadChannel, BeginRead
    <3>2. read.missed \in Nat
      BY <1>1, FirstReadType DEF TypeInv
    <3>3. read.missed = 0
      BY <1>2, <3>1, <3>2
    <3>4. m \in Owed /\ cursor < m.ts /\ cursor \in Timestamps
      <4>1. m \in Owed /\ m.ts > cursor /\ m.ts \in Nat /\ cursor \in Timestamps
        BY <1>1, <1>2, <1>5, OwedAre DEF Unseen, PosInv, TypeInv, TypeOK
      <4> QED BY <4>1 DEF Timestamps, NoTS
    <3> QED BY <1>1, <2>2, <3>1, <3>3, <3>4, ReadCovers
  <2>3. CASE ReadDone
    <3>1. pc' # "threads"
      BY <2>3 DEF ReadDone
    <3> QED BY <1>1, <1>2, <1>5, <2>3, <3>1, BatchCovers
  <2>4. CASE Offering
    <3>1. PICK e \in batch, fails \in BOOLEAN :
            /\ Offer(e, fails) /\ pc = "replay" /\ pc' # "threads"
            /\ pc' = "replay" => batch' = batch \ {e}
      BY <2>4 DEF Offering
    <3>2. EventKey(e) \in seen'
      BY <1>1, <3>1, BatchOffer
    <3>3. HasCopy(batch, m) => HasCopy(batch \ {e}, m)
      BY <1>5, <3>2 DEF HasCopy
    <3>4. HasCopy(batch, m) \/ \A o \in batch : Cursor(o) < m.ts
      BY <1>1, <1>2, <1>5, <3>1 DEF PlaceInv
    <3> QED BY <3>1, <3>3, <3>4
  <2>5. CASE \E root \in reading.roots : ReadThread(root)
    BY <1>1, <2>5 DEF ReadInv
  <2> QED BY <1>5, <2>1, <2>2, <2>3, <2>4, <2>5, StepKinds
          DEF Happens, StartPolling, NextRead, Quiet, pollVars
<1> QED BY <1>1, <1>3, <1>4, <1>5, UnseenWas

(* It stays past both positions.                                            *)
LEMMA PosNext == LossInv /\ [Next]_vars => PosInv'
<1> SUFFICES ASSUME LossInv, [Next]_vars, gaps' = 0, NEW m \in Unseen'
             PROVE  m.ts > cursor' /\ m.ts > watermark'[TargetChannel]
  BY DEF PosInv, TargetChannel
<1>1. TypeInv /\ LogInv /\ ReadInv /\ MarksInv /\ GroundInv /\ PlaceInv /\ PosInv
  BY DEF LossInv, GroundInv
<1>2. gaps = 0
  BY <1>1, SeenGrows
<1>3. CASE pc = "start"
  BY <1>1, <1>3, Beginning DEF Unseen
<1>4. CASE pc # "start" /\ m \notin Unseen
  <2>1. Happens /\ m.ts = Instant /\ m.ts > base
    BY <1>1, <1>4, UnseenWas, OwedWas DEF Unseen
  <2>2. UNCHANGED <<cursor, watermark>>
    BY <2>1 DEF Happens, pollVars, sessionVars, deliveryVars
  <2>3. /\ cursor \in Timestamps /\ watermark[TargetChannel] \in Timestamps
        /\ base \in Timestamps /\ Instant \in Nat
    BY <1>1, Target, GenuineStays DEF TypeInv, TypeOK, SessionTypeOK
  <2> QED BY <1>1, <2>1, <2>2, <2>3 DEF MarksInv, Past, Timestamps, NoTS
<1>5. ASSUME pc # "start", m \in Unseen, EventKey(m) \notin seen'
      PROVE  m.ts > cursor' /\ m.ts > watermark'[TargetChannel]
  <2>1. m.ts > cursor /\ m.ts > watermark[TargetChannel]
    BY <1>1, <1>2, <1>5 DEF PosInv
  <2>2. CASE UNCHANGED <<cursor, watermark>>
    BY <2>1, <2>2
  <2>3. CASE NextRead
    BY <2>1, <2>3 DEF NextRead, MaxTS, sessionVars, deliveryVars
  <2>4. CASE Offering
    <3>1. PICK e \in batch, fails \in BOOLEAN :
            /\ Earliest(e) /\ Offer(e, fails) /\ pc = "replay" /\ UNCHANGED <<log, cursor>>
      BY <2>4 DEF Offering
    <3>2. /\ EventKey(e) \in seen'
          /\ watermark'[TargetChannel] \in
               {watermark[TargetChannel], MaxTS(watermark[TargetChannel], Cursor(e))}
      BY <1>1, <3>1, BatchOffer
    <3>3. Cursor(e) < m.ts
      BY <1>1, <1>2, <1>5, <3>1, <3>2, ReplayPassesNothing
    <3> QED BY <2>1, <3>1, <3>2, <3>3 DEF MaxTS
  <2> QED BY <1>1, <1>5, <2>2, <2>3, <2>4, StepKinds
          DEF Happens, StartPolling, ReadChannel, ReadThread, ReadDone, Quiet, Told,
              pollVars, sessionVars, deliveryVars
<1> QED BY <1>1, <1>3, <1>4, <1>5, UnseenWas

(* What the caller could not take lies past the read position.              *)
LEMMA FailSafeNext == LossInv /\ [Next]_vars => FailSafe'
<1> SUFFICES ASSUME LossInv, [Next]_vars, gaps' = 0, ~truncated', emitFailed', NEW m \in Owed'
             PROVE  EventKey(m) \in KeysOf(emitted') \cup KeysOf(reported')
                    \/ m.ts > watermark'[TargetChannel]
  BY DEF FailSafe, Handled, EventKey, KeysOf, TargetChannel
<1>1. /\ TypeInv /\ LogInv /\ ReadInv /\ MarksInv /\ PosInv /\ SeenInv /\ FailInv /\ FailSafe
      /\ SessionTypeOK
  BY DEF LossInv, GroundInv, TypeInv
<1>2. gaps = 0
  BY <1>1, SeenGrows
<1>3. CASE pc = "start"
  BY <1>1, <1>3, Beginning
<1>4. CASE pc # "start" /\ m \notin Owed
  <2>1. Happens /\ m.ts = Instant /\ m.ts > base
    BY <1>1, <1>4, OwedWas
  <2>2. UNCHANGED watermark
    BY <2>1 DEF Happens, sessionVars, deliveryVars
  <2>3. /\ watermark[TargetChannel] \in Timestamps
        /\ base \in Timestamps /\ Instant \in Nat
    BY <1>1, Target, GenuineStays DEF TypeInv, TypeOK, SessionTypeOK
  <2> QED BY <1>1, <2>1, <2>2, <2>3 DEF MarksInv, Past, Timestamps, NoTS
<1>5. CASE pc # "start" /\ m \in Owed /\ ~Offering
  <2>1. UNCHANGED <<emitted, reported, truncated, emitFailed, watermark>>
    BY <1>1, <1>5, TellsNothing DEF StartPolling
  <2> QED BY <1>1, <1>2, <1>5, <2>1 DEF FailSafe, Handled
<1>6. CASE pc # "start" /\ m \in Owed /\ Offering
  <2>1. PICK e \in batch, fails \in BOOLEAN : Offer(e, fails) /\ pc = "replay"
    BY <1>6 DEF Offering
  <2>2. e \in Event /\ ~emitFailed
    BY <1>1, <2>1 DEF TypeInv, TypeOK, FailInv, Leaving
  <2>3. UNCHANGED <<watermark, emitted, reported>> /\ (truncated => truncated')
    BY <1>1, <2>1, <2>2, OfferEffect
  <2>4. CASE EventKey(m) \in seen
    <3>1. m \in Occurred /\ m.kind = "message" /\ InScope(m)
      BY <1>1, <1>6, OwedAre
    <3> QED BY <1>1, <2>2, <2>3, <2>4, <3>1 DEF SeenInv
  <2>5. CASE EventKey(m) \notin seen
    BY <1>1, <1>2, <1>6, <2>3, <2>5 DEF PosInv, Unseen
  <2> QED BY <2>4, <2>5
<1> QED BY <1>3, <1>4, <1>5, <1>6

-----------------------------------------------------------------------------
(* The run starts with nothing examined.                                    *)
LEMMA LossInit == Init => LossInv
<1> SUFFICES ASSUME Init PROVE LossInv
  OBVIOUS
<1>1. /\ log = StartLog /\ reading = NotReading /\ batch = {} /\ pc = "start"
      /\ seen = {} /\ ~emitFailed /\ cursor = NoTS /\ base = NoTS
      /\ watermark = [c \in AllChannels |-> NoTS] /\ cursors = [c \in AllChannels |-> NoTS]
  BY DEF Init, WorkspaceInit, SessionInit, CatchUpInit
<1>2. TypeInv
  BY TypeInit
<1>3. LogInv
  BY <1>1, WorkspaceAssumption DEF LogInv
<1>4. ReadInv
  BY <1>1 DEF ReadInv, NotReading
<1>5. MarksInv
  <2>1. watermark[TargetChannel] = NoTS /\ cursors[TargetChannel] = NoTS
    BY <1>1, Target
  <2> QED BY <1>1, <2>1 DEF MarksInv, Past, NoTS
<1>6. SeenInv /\ FailInv
  BY <1>1 DEF SeenInv, FailInv
<1>7. Owed = {}
  BY <1>1 DEF Owed
<1>8. PlaceInv /\ PosInv /\ FailSafe
  BY <1>1, <1>7 DEF PlaceInv, PosInv, FailSafe, Unseen
<1> QED BY <1>2, <1>3, <1>4, <1>5, <1>6, <1>8 DEF LossInv, GroundInv

(* And no step of it loses anything.                                        *)
LEMMA LossNext == Single /\ LossInv /\ [Next]_vars => LossInv'
BY TypeNext, LogNext, ReadNext, MarksNext, SeenNext, FailNext, PlaceNext, PosNext, FailSafeNext
   DEF LossInv, GroundInv

(* So it holds of every state of such a run.                                *)
LEMMA LossCorrect ==
  ASSUME Single
  PROVE  Spec => []LossInv
<1>1. LossInv /\ [Next]_vars => LossInv'
  BY LossNext
<1> QED BY LossInit, <1>1, PTL DEF Spec

(* While no gap is counted, a run over one thread, or over a channel without  *)
(* its replies, has handed over every matching message its read position      *)
(* passed, whatever is posted or deleted between and during its rounds, for   *)
(* any history limit (NoSilentLoss, of WatchResult.Gaps).                     *)
THEOREM NothingLostSilently ==
  ASSUME Single
  PROVE  Spec => []NoSilentLoss
<1>1. LossInv => NoSilentLoss
  <2> SUFFICES ASSUME LossInv, pc \in {"read", "sleep"}, gaps = 0,
                      NEW m \in Owed, Matches(m), m.ts <= cursor
               PROVE  EventKey(m) \in KeysOf(emitted)
    BY DEF NoSilentLoss
  <2>1. TypeInv /\ LogInv /\ SeenInv /\ FailInv /\ PosInv /\ cursor \in Timestamps
    BY DEF LossInv, GroundInv, TypeInv, TypeOK
  <2>2. m \in Occurred /\ m.kind = "message" /\ InScope(m) /\ Narrows(m) /\ m.ts \in Nat
    BY <2>1, OwedAre DEF Matches
  <2>3. EventKey(m) \in seen
    BY <2>1, <2>2 DEF PosInv, Unseen, Timestamps, NoTS
  <2>4. ~emitFailed
    BY <2>1 DEF FailInv, Leaving
  <2> QED BY <2>1, <2>2, <2>3, <2>4 DEF SeenInv
<1> QED BY <1>1, LossCorrect, PTL

(* The cursor such a run leaves its caller passes no message in scope that  *)
(* was neither handed over nor reported, unless gaps or truncation say so,  *)
(* and also when the caller could not take an event (CursorSafe, of         *)
(* AwaitResult.Cursor).                                                     *)
THEOREM CursorNeverSkips ==
  ASSUME Single
  PROVE  Spec => []CursorSafe
<1>1. LossInv => CursorSafe
  <2> SUFFICES ASSUME LossInv, gaps = 0, ~truncated, NEW m \in Owed,
                      Cursor(m) <= cursors[m.ch]
               PROVE  EventKey(m) \in KeysOf(emitted) \cup KeysOf(reported)
    BY DEF CursorSafe
  <2>1. TypeInv /\ LogInv /\ SeenInv /\ MarksInv /\ PosInv /\ FailSafe
    BY DEF LossInv, GroundInv
  <2>2. /\ m \in Occurred /\ m.kind = "message" /\ InScope(m) /\ m.ts \in Nat
        /\ m.ts <= cursors[TargetChannel]
    BY <2>1, OwedAre
  <2>3. /\ cursors[TargetChannel] <= watermark[TargetChannel]
        /\ cursors[TargetChannel] \in Timestamps /\ watermark[TargetChannel] \in Timestamps
    BY <2>1, Target DEF MarksInv, TypeInv, SessionTypeOK
  <2>4. ~(m.ts > watermark[TargetChannel])
    BY <2>2, <2>3 DEF Timestamps, NoTS
  <2>5. EventKey(m) \in seen
    BY <2>1, <2>4 DEF PosInv, Unseen
  <2>6. CASE emitFailed
    BY <2>1, <2>4, <2>6 DEF FailSafe, Handled
  <2>7. CASE ~emitFailed
    BY <2>1, <2>2, <2>5, <2>7 DEF SeenInv
  <2> QED BY <2>6, <2>7
<1> QED BY <1>1, LossCorrect, PTL

-----------------------------------------------------------------------------
(* The refinement of EventDelivery.  The run polls one thread, or a channel *)
(* without its replies, and no message is deleted, for EventDelivery takes  *)
(* no answer back.                                                          *)
Plain ==
  /\ Single
  /\ "message_deleted" \notin ActivityKinds
  /\ \A i \in DOMAIN StartLog : StartLog[i].kind # "message_deleted"
  /\ Len(StartLog) <= MaxLog

(* The log holds no deletion and stays within its bound.                    *)
LogFits == Len(log) <= MaxLog /\ \A o \in Occurred : o.kind # "message_deleted"

(* Nothing from before the first read is read or offered.                   *)
AfterInv ==
  /\ cursor >= base
  /\ pc = "start" => batch = {}
  /\ \A e \in batch : e.kind = "message" => e.ts > base

(* An answer the run owes, under the key of an event.                       *)
IsAnswer(e) == \E m \in Owed : Matches(m) /\ EventKey(e) = EventKey(m)

(* What was handed over is owed and examined, and the read position reached *)
(* it.                                                                      *)
GivenInv ==
  \A i \in DOMAIN emitted : /\ IsAnswer(emitted[i])
                            /\ EventKey(emitted[i]) \in seen
                            /\ emitted[i].ts <= watermark[TargetChannel]

(* The inductive invariant of the refinement.                               *)
DeliveryInv == LossInv /\ LogFits /\ AfterInv /\ GivenInv

(* The bound of the log is respected, and nothing is ever deleted.          *)
LEMMA FitsNext ==
  ASSUME Plain, TypeInv, LogInv, LogFits, [Next]_vars
  PROVE  LogFits'
<1>1. CASE UNCHANGED log
  BY <1>1 DEF LogFits, Occurred
<1>2. ASSUME NEW e \in NextActivity, Happens, log' = Append(log, e), e \in Event,
             Occurred' = Occurred \cup {e}
      PROVE  LogFits'
  <2>1. e.kind \in ActivityKinds
    BY DEF NextActivity
  <2>2. Len(log) < MaxLog /\ MaxLog \in Nat /\ Len(log) \in Nat
    BY <1>2, LenProperties, WorkspaceAssumption DEF Happens, TypeInv
  <2>3. Len(log') = Len(log) + 1
    BY <1>2, LogGrows DEF TypeInv
  <2> QED BY <1>2, <2>1, <2>2, <2>3 DEF LogFits, Plain
<1> QED BY <1>1, <1>2, LogStep

(* Once the run has begun, the point it owes from is settled.               *)
LEMMA BaseStays ==
  ASSUME ReadInv, [Next]_vars, pc # "start"
  PROVE  base' = base /\ pc' # "start"
<1>1. ~ \E root \in reading.roots : ReadThread(root)
  BY DEF ReadInv
<1> QED BY <1>1, StepKinds
        DEF Happens, StartPolling, ReadChannel, ReadDone, Offering, NextRead, Quiet, pollVars

(* A message in scope past that point is owed.                              *)
LEMMA LateIsOwed ==
  ASSUME TypeInv, LogInv, LogFits, pc # "start", NEW m \in Occurred, m.kind = "message",
         InScope(m), m.ts > base
  PROVE  m \in Owed
<1>1. m \in Event /\ Readable(m)
  BY OccurredAt DEF Readable, LogFits, TypeInv
<1>2. m.ch = TargetChannel
  BY Target DEF InScope
<1> QED BY <1>1, <1>2 DEF Owed

(* No message owed is forgotten.                                            *)
LEMMA OwedGrows ==
  ASSUME Plain, TypeInv, LogInv, ReadInv, LogFits, [Next]_vars
  PROVE  Owed \subseteq Owed'
<1> SUFFICES ASSUME NEW m \in Owed PROVE m \in Owed'
  OBVIOUS
<1>1. /\ pc # "start" /\ m \in Occurred /\ m.kind = "message" /\ InScope(m)
      /\ m.ch = TargetChannel /\ m.ts > base
  BY OwedAre
<1>2. m \in Occurred'
  BY <1>1, GenuineStays
<1>3. base' = base /\ pc' # "start"
  BY <1>1, BaseStays
<1>4. Readable(m)'
  <2>1. LogFits'
    BY FitsNext
  <2> QED BY <2>1 DEF Readable, LogFits
<1>5. InScope(m)' /\ m.ch = TargetChannel'
  BY <1>1 DEF InScope, TargetChannel
<1> QED BY <1>1, <1>2, <1>3, <1>4, <1>5 DEF Owed

-----------------------------------------------------------------------------
(* What an offer hands over.                                                *)
LEMMA OfferGives ==
  ASSUME SessionTypeOK, NEW e \in Event, NEW fails \in BOOLEAN, Offer(e, fails)
  PROVE  \/ UNCHANGED emitted
         \/ /\ ~fails /\ Matches(e) /\ e.kind = "message" /\ EventKey(e) \notin seen
            /\ emitted' = Append(emitted, e)
            /\ watermark' = [watermark EXCEPT ![e.ch] = MaxTS(@, Cursor(e))]
<1> DEFINE w == WithThread(e)
<1>1. w.kind = e.kind /\ (e.kind = "message" => w = e)
  BY DEF WithThread, IsReaction, Event
<1>2. Matches(w) => e.kind = "message"
  BY <1>1, PollAssumption DEF Matches, InScope, Pollable
<1>3. CASE UNCHANGED deliveryVars \/ NothingDelivered
  BY <1>3 DEF deliveryVars, NothingDelivered
<1>4. CASE EventKey(e) \notin seen /\ Matches(w) /\ ~fails /\ Emit(w)
  <2>1. e.kind = "message" /\ w = e
    BY <1>1, <1>2, <1>4
  <2> QED BY <1>4, <2>1 DEF Emit, AdvanceCursor, AdvanceWatermark
<1>5. CASE EmitFails \/ ReportSkipped(w)
  BY <1>5 DEF EmitFails, ReportSkipped
<1> QED BY <1>3, <1>4, <1>5 DEF Offer

(* A read starts past the first one, and what is made of it lies past it.   *)
LEMMA AfterNext ==
  ASSUME TypeInv, LogInv, ReadInv, MarksInv, AfterInv, [Next]_vars
  PROVE  AfterInv'
<1>1. cursor \in Int /\ base \in Int /\ watermark[TargetChannel] \in Int
  <2>1. cursor \in Timestamps /\ base \in Timestamps /\ watermark[TargetChannel] \in Timestamps
    BY Target DEF TypeInv, TypeOK, SessionTypeOK
  <2> QED BY <2>1 DEF Timestamps, NoTS
<1>2. CASE StartPolling
  <2>1. /\ base' = PollBaseline /\ cursor' = PollBaseline /\ pc' = "read" /\ batch' = {}
        /\ PollBaseline \in Timestamps
    BY <1>2, BaselineType DEF StartPolling, TypeInv, AfterInv
  <2> QED BY <2>1 DEF AfterInv, Timestamps, NoTS
<1>3. CASE ReadDone
  <2>1. /\ batch' = CatchUpEvents(reading.messages, cursor) /\ UNCHANGED <<cursor, base>>
        /\ pc' # "start"
    BY <1>3 DEF ReadDone, FinishRead
  <2>2. ASSUME NEW e \in batch', e.kind = "message" PROVE e.ts > base
    <3>1. ReadBack(e) /\ e.ts > cursor
      BY <2>1, <2>2, CatchUpIsGenuine DEF ReadInv, TypeInv, Undated
    <3>2. e.ts \in Int
      BY <3>1, CopyIsMessage DEF ReadBack, TypeInv, Event
    <3> QED BY <1>1, <3>1, <3>2 DEF AfterInv
  <2> QED BY <2>1, <2>2 DEF AfterInv
<1>4. CASE NextRead
  <2>1. /\ cursor' = MaxTS(cursor, watermark[TargetChannel]) /\ UNCHANGED <<base, batch>>
        /\ pc' # "start"
    BY <1>4 DEF NextRead
  <2> QED BY <1>1, <2>1 DEF AfterInv, MaxTS
<1>5. CASE Offering
  <2>1. UNCHANGED <<cursor, base>> /\ batch' \subseteq batch /\ pc' # "start"
    BY <1>5 DEF Offering
  <2> QED BY <2>1 DEF AfterInv
<1>6. CASE UNCHANGED <<cursor, base, batch>> /\ (pc' = "start" => pc = "start")
  BY <1>6 DEF AfterInv
<1>7. CASE Quiet
  BY <1>6, <1>7 DEF Quiet
<1>8. CASE Happens \/ (ReadChannel /\ pc' = "threads")
  BY <1>6, <1>8 DEF Happens, ReadChannel, pollVars
<1>9. ~ \E root \in reading.roots : ReadThread(root)
  BY DEF ReadInv
<1> QED BY <1>2, <1>3, <1>4, <1>5, <1>7, <1>8, <1>9, StepKinds

-----------------------------------------------------------------------------
(* A step that hands an event over.                                         *)
Giving(e) ==
  /\ e \in Event /\ e.kind = "message" /\ EventKey(e) \notin seen
  /\ emitted' = Append(emitted, e)
  /\ watermark'[TargetChannel] = MaxTS(watermark[TargetChannel], e.ts)
  /\ EventKey(e) \in seen'
  /\ UNCHANGED <<log, gaps>> /\ pc = "replay"
  /\ IsAnswer(e)
  /\ gaps = 0 => \A m \in Unseen : EventKey(m) # EventKey(e) => e.ts < m.ts

(* An offered message that matches is owed.                                 *)
LEMMA OfferedIsOwed ==
  ASSUME Plain, GroundInv, LogFits, pc # "start",
         NEW e \in Event, e.kind = "message", Genuine(e), Matches(e), e.ts > base
  PROVE  IsAnswer(e) /\ Cursor(e) = e.ts
<1>1. log \in Seq(Event) /\ LogInv /\ TypeInv /\ Single
  BY DEF GroundInv, TypeInv, Plain
<1>2. PICK o \in Occurred : o.kind = "message" /\ Copy(e, o)
  BY DEF Genuine, ReadBack, Undated, Copy
<1>3. /\ EventKey(e) = EventKey(o) /\ e.ts = o.ts /\ Cursor(e) = o.ts
      /\ Narrows(e) <=> Narrows(o) /\ (InScope(e) <=> InScope(o))
  BY <1>1, <1>2, CopyIsMessage, CopyInScope
<1>4. Matches(o) /\ o \in Owed
  BY <1>1, <1>2, <1>3, LateIsOwed DEF Matches
<1> QED BY <1>3, <1>4 DEF IsAnswer

(* Every step hands over one such event, or nothing.                        *)
LEMMA GivingStep ==
  ASSUME Plain, DeliveryInv, [Next]_vars
  PROVE  (\E e : Giving(e)) \/ UNCHANGED emitted
<1>1. /\ GroundInv /\ TypeInv /\ LogInv /\ ReadInv /\ SessionTypeOK /\ PlaceInv
      /\ LogFits /\ AfterInv
  BY DEF DeliveryInv, LossInv, GroundInv, TypeInv
<1>2. CASE Offering
  <2>1. PICK e \in batch, fails \in BOOLEAN :
          Earliest(e) /\ Offer(e, fails) /\ pc = "replay" /\ UNCHANGED <<log, gaps>>
    BY <1>2 DEF Offering
  <2>2. /\ e \in Event /\ Genuine(e) /\ (e.kind = "message" => e.ts > base)
        /\ seen' = seen \cup {EventKey(e)}
    BY <1>1, <2>1, BatchOffer DEF AfterInv
  <2>3. ASSUME emitted' # emitted PROVE Giving(e)
    <3>1. /\ Matches(e) /\ e.kind = "message" /\ EventKey(e) \notin seen
          /\ emitted' = Append(emitted, e)
          /\ watermark' = [watermark EXCEPT ![e.ch] = MaxTS(@, Cursor(e))]
      BY <1>1, <2>1, <2>2, <2>3, OfferGives
    <3>2. IsAnswer(e) /\ Cursor(e) = e.ts
      BY <1>1, <2>1, <2>2, <3>1, OfferedIsOwed
    <3>3. e.ch = TargetChannel /\ TargetChannel \in AllChannels
      BY <3>1, Target DEF Matches, InScope
    <3>4. watermark'[TargetChannel] = MaxTS(watermark[TargetChannel], e.ts)
      BY <1>1, <3>1, <3>2, <3>3 DEF SessionTypeOK
    <3>5. gaps = 0 => \A m \in Unseen : EventKey(m) # EventKey(e) => e.ts < m.ts
      BY <1>1, <2>1, <3>2, ReplayPassesNothing
    <3> QED BY <2>1, <2>2, <3>1, <3>2, <3>4, <3>5 DEF Giving
  <2> QED BY <2>3
<1> QED BY <1>1, <1>2, TellsNothing

-----------------------------------------------------------------------------
(* A key names a conversation and an instant.                               *)
LEMMA SameIdentity ==
  ASSUME NEW a \in Event, NEW b \in Event, EventKey(a) = EventKey(b)
  PROVE  Identity(a) = Identity(b) /\ a.kind = b.kind /\ a.ch = b.ch /\ a.ts = b.ts
BY DEF EventKey, Identity

(* The read position does not move back.                                    *)
LEMMA PositionGrows ==
  ASSUME TypeInv, LogInv, ReadInv, [Next]_vars
  PROVE  /\ watermark[TargetChannel] \in Int /\ watermark'[TargetChannel] \in Int
         /\ watermark[TargetChannel] <= watermark'[TargetChannel]
<1>1. /\ watermark \in [AllChannels -> Timestamps] /\ TargetChannel \in AllChannels
      /\ watermark' \in [AllChannels -> Timestamps]
  BY Target, TypeNext DEF TypeInv, SessionTypeOK
<1>2. watermark[TargetChannel] \in Int /\ watermark'[TargetChannel] \in Int
  BY <1>1 DEF Timestamps, NoTS
<1>3. CASE Offering
  <2>1. PICK e \in batch : /\ Cursor(e) \in Nat
                           /\ watermark'[TargetChannel] \in
                                {watermark[TargetChannel],
                                 MaxTS(watermark[TargetChannel], Cursor(e))}
    BY <1>3, BatchOffer DEF Offering
  <2> QED BY <1>2, <2>1 DEF MaxTS
<1>4. CASE StartPolling
  <2>1. \/ watermark' = watermark
        \/ watermark' = [watermark EXCEPT ![TargetChannel] = MaxTS(@, PollBaseline)]
    BY <1>4 DEF StartPolling
  <2>2. PollBaseline \in Int
    BY BaselineType DEF TypeInv, Timestamps, NoTS
  <2> QED BY <1>1, <1>2, <2>1, <2>2 DEF MaxTS
<1> QED BY <1>2, <1>3, <1>4, TellsNothing

(* What was handed over stays owed, and the position stays past it.         *)
LEMMA GivenNext ==
  ASSUME Plain, DeliveryInv, [Next]_vars
  PROVE  GivenInv'
<1>1. /\ TypeInv /\ LogInv /\ ReadInv /\ LogFits /\ GivenInv /\ emitted \in Seq(Event)
  BY DEF DeliveryInv, LossInv, GroundInv, TypeInv, SessionTypeOK
<1>2. ASSUME NEW e, IsAnswer(e) PROVE IsAnswer(e)'
  BY <1>1, <1>2, OwedGrows DEF IsAnswer, Matches, InScope, Narrows, EventKey
<1>3. ASSUME NEW i \in DOMAIN emitted, emitted'[i] = emitted[i]
      PROVE  /\ IsAnswer(emitted[i])' /\ EventKey(emitted'[i]) \in seen'
             /\ emitted'[i].ts <= watermark'[TargetChannel]
  <2>1. /\ IsAnswer(emitted[i]) /\ EventKey(emitted[i]) \in seen
        /\ emitted[i].ts <= watermark[TargetChannel]
    BY <1>1 DEF GivenInv
  <2>2. emitted[i] \in Event
    BY <1>1
  <2>3. emitted[i].ts <= watermark'[TargetChannel]
    <3>1. emitted[i].ts \in Int
      BY <2>2 DEF Event
    <3> QED BY <1>1, <2>1, <3>1, PositionGrows
  <2>4. IsAnswer(emitted[i])'
    BY <1>2, <1>3, <2>1 DEF IsAnswer, EventKey
  <2> QED BY <1>1, <1>3, <2>1, <2>3, <2>4, SeenGrows
<1>4. CASE UNCHANGED emitted
  BY <1>3, <1>4 DEF GivenInv, IsAnswer, EventKey, TargetChannel
<1>5. ASSUME NEW e, Giving(e) PROVE GivenInv'
  <2>1. /\ e \in Event /\ IsAnswer(e) /\ emitted' = Append(emitted, e) /\ EventKey(e) \in seen'
        /\ watermark'[TargetChannel] = MaxTS(watermark[TargetChannel], e.ts)
    BY <1>5 DEF Giving
  <2>2. /\ Len(emitted) \in Nat /\ DOMAIN emitted = 1..Len(emitted)
        /\ DOMAIN emitted' = 1..(Len(emitted) + 1)
        /\ \A i \in 1..Len(emitted) : emitted'[i] = emitted[i]
        /\ emitted'[Len(emitted) + 1] = e
    BY <1>1, <2>1, AppendProperties, LenProperties
  <2>3. e.ts <= watermark'[TargetChannel]
    <3>1. e.ts \in Int /\ watermark[TargetChannel] \in Int
      BY <1>1, <2>1, PositionGrows DEF Event
    <3> QED BY <2>1, <3>1 DEF MaxTS
  <2>4. IsAnswer(e)'
    BY <1>2, <2>1
  <2>5. ASSUME NEW i \in DOMAIN emitted'
        PROVE  /\ IsAnswer(emitted[i])' /\ EventKey(emitted'[i]) \in seen'
               /\ emitted'[i].ts <= watermark'[TargetChannel]
    <3>1. CASE i \in 1..Len(emitted)
      BY <1>3, <2>2, <3>1 DEF IsAnswer, EventKey
    <3>2. CASE i = Len(emitted) + 1
      BY <2>1, <2>2, <2>3, <2>4, <3>2 DEF IsAnswer, EventKey
    <3> QED BY <2>2, <2>5, <3>1, <3>2
  <2> QED BY <2>5 DEF GivenInv, EventKey, TargetChannel
<1> QED BY <1>4, <1>5, GivingStep

(* The invariant of the refinement holds at the start,                      *)
LEMMA DeliveryInit == Plain /\ Init => DeliveryInv
<1> SUFFICES ASSUME Plain, Init PROVE DeliveryInv
  OBVIOUS
<1>1. /\ log = StartLog /\ batch = {} /\ pc = "start" /\ emitted = << >>
      /\ cursor = NoTS /\ base = NoTS
  BY DEF Init, WorkspaceInit, SessionInit, CatchUpInit
<1>2. DOMAIN emitted = {}
  BY <1>1
<1>3. LogFits
  BY <1>1 DEF Plain, LogFits, Occurred
<1>4. AfterInv
  BY <1>1 DEF AfterInv, NoTS
<1>5. GivenInv
  BY <1>2 DEF GivenInv
<1> QED BY <1>3, <1>4, <1>5, LossInit DEF DeliveryInv

(* and every step keeps it.                                                 *)
LEMMA DeliveryNext == Plain /\ DeliveryInv /\ [Next]_vars => DeliveryInv'
<1> SUFFICES ASSUME Plain, DeliveryInv, [Next]_vars PROVE DeliveryInv'
  OBVIOUS
<1>1. /\ LossInv /\ LogFits /\ AfterInv /\ TypeInv /\ LogInv /\ ReadInv /\ MarksInv /\ Single
  BY DEF DeliveryInv, LossInv, GroundInv, Plain
<1>2. LossInv' /\ LogFits' /\ AfterInv'
  BY <1>1, LossNext, FitsNext, AfterNext
<1> QED BY <1>2, GivenNext DEF DeliveryInv

-----------------------------------------------------------------------------
(* The refinement mapping: what is due,                                     *)
Answers == {Identity(m) : m \in {o \in Owed : Matches(o)}}

(* and what was delivered.                                                  *)
Handed == [i \in DOMAIN emitted |-> Identity(emitted[i])]

(* What is due is among the answers the abstract specification knows.       *)
AnswersFit == Answers \subseteq AllChannels \X (0..(2 * MaxLog))

(* An answer is a conversation and an instant of the log.                   *)
LEMMA AnswersAre ==
  ASSUME TypeInv, LogInv, LogFits
  PROVE  AnswersFit
<1> SUFFICES ASSUME NEW m \in Owed PROVE Identity(m) \in AllChannels \X (0..(2 * MaxLog))
  BY DEF Answers, AnswersFit
<1>1. m \in Occurred /\ m \in Event /\ m.kind = "message" /\ log \in Seq(Event)
  BY OwedAre DEF TypeInv
<1>2. PICK i \in 1..Len(log) : m.ts = 2 * i
  BY <1>1, OccurredAt
<1>3. Len(log) \in Nat /\ Len(log) <= MaxLog /\ MaxLog \in Nat
  BY <1>1, LenProperties, WorkspaceAssumption DEF LogFits
<1>4. m.ts \in 0..(2 * MaxLog) /\ m.ch \in AllChannels
  BY <1>1, <1>2, <1>3 DEF Event
<1> QED BY <1>4 DEF Identity

(* An answer due stays due,                                                 *)
LEMMA AnswersGrow ==
  ASSUME Plain, TypeInv, LogInv, ReadInv, LogFits, [Next]_vars
  PROVE  Answers \subseteq Answers'
<1>1. Owed \subseteq Owed'
  BY OwedGrows
<1> QED BY <1>1 DEF Answers, Identity, Matches, InScope, Narrows

(* and a step that leaves the log adds none, once the run has begun.        *)
LEMMA AnswersStay ==
  ASSUME ReadInv, [Next]_vars, UNCHANGED log, pc # "start"
  PROVE  Answers' = Answers
<1>1. base' = base /\ pc' # "start"
  BY BaseStays
<1>2. Owed' = Owed
  BY <1>1 DEF Owed, Readable, Occurred, InScope, TargetChannel
<1> QED BY <1>2 DEF Answers, Identity, Matches, InScope, Narrows

(* The mapping of an append is an append.                                   *)
LEMMA HandedAppends ==
  ASSUME emitted \in Seq(Event), NEW e \in Event, emitted' = Append(emitted, e)
  PROVE  Handed' = Append(Handed, Identity(e))
<1> DEFINE S == {Identity(x) : x \in Event}
<1>1. /\ Len(emitted) \in Nat /\ DOMAIN emitted = 1..Len(emitted)
      /\ emitted' \in Seq(Event) /\ DOMAIN emitted' = 1..(Len(emitted) + 1)
      /\ \A i \in 1..Len(emitted) : emitted[i] \in Event /\ emitted'[i] = emitted[i]
      /\ emitted'[Len(emitted) + 1] = e
  BY AppendProperties, LenProperties
<1>2. Handed \in Seq(S) /\ Len(Handed) = Len(emitted)
  BY <1>1 DEF Handed
<1>3. Handed' \in Seq(S) /\ Len(Handed') = Len(emitted) + 1
  <2>1. \A i \in 1..(Len(emitted) + 1) : emitted'[i] \in Event
    BY <1>1
  <2> QED BY <1>1, <2>1 DEF Handed
<1>4. /\ Append(Handed, Identity(e)) \in Seq(S)
      /\ Len(Append(Handed, Identity(e))) = Len(emitted) + 1
      /\ \A i \in 1..Len(emitted) : Append(Handed, Identity(e))[i] = Handed[i]
      /\ Append(Handed, Identity(e))[Len(emitted) + 1] = Identity(e)
  <2>1. Identity(e) \in S
    OBVIOUS
  <2> HIDE DEF S
  <2> QED BY <1>2, <2>1, AppendProperties
<1>5. \A i \in 1..(Len(emitted) + 1) : Handed'[i] = Append(Handed, Identity(e))[i]
  <2> TAKE i \in 1..(Len(emitted) + 1)
  <2>1. CASE i \in 1..Len(emitted)
    BY <1>1, <1>4, <2>1 DEF Handed, Identity
  <2>2. CASE i = Len(emitted) + 1
    BY <1>1, <1>4, <2>2 DEF Handed, Identity
  <2>3. i \in 1..Len(emitted) \/ i = Len(emitted) + 1
    <3> HIDE DEF S
    <3> QED BY <1>1
  <2> QED BY <2>1, <2>2, <2>3
<1> HIDE DEF S
<1> QED BY <1>3, <1>4, <1>5, SeqEqual

(* A gap is counted by a read, which posts nothing and never comes first.   *)
LEMMA GapsArePlain ==
  ASSUME ReadInv, [Next]_vars, gaps' # gaps
  PROVE  UNCHANGED log /\ pc # "start"
<1>1. ~ \E root \in reading.roots : ReadThread(root)
  BY DEF ReadInv
<1> QED BY <1>1, StepKinds
        DEF Happens, StartPolling, ReadChannel, ReadDone, Offering, NextRead, Quiet, sessionVars

-----------------------------------------------------------------------------
(* What a step hands over is due and new; until a gap is counted it is past *)
(* what was handed over before, and nothing due is passed over.             *)
LEMMA GivingDelivers ==
  ASSUME DeliveryInv, NEW e, Giving(e)
  PROVE  /\ Identity(e) \in Answers
         /\ \A i \in DOMAIN emitted : Identity(emitted[i]) # Identity(e)
         /\ gaps = 0 =>
              /\ \A i \in DOMAIN emitted : emitted[i].ts < e.ts
              /\ \A o \in Owed : Matches(o) /\ o.ts < e.ts =>
                   \E i \in DOMAIN emitted : Identity(emitted[i]) = Identity(o)
<1>1. /\ TypeInv /\ LogInv /\ log \in Seq(Event) /\ emitted \in Seq(Event)
      /\ GivenInv /\ PosInv /\ SeenInv /\ FailInv /\ watermark[TargetChannel] \in Int
      /\ e \in Event /\ EventKey(e) \notin seen /\ pc = "replay"
  <2>1. /\ TypeInv /\ LogInv /\ GivenInv /\ PosInv /\ SeenInv /\ FailInv
    BY DEF DeliveryInv, LossInv, GroundInv
  <2>2. watermark[TargetChannel] \in Timestamps
    BY <2>1, Target DEF TypeInv, SessionTypeOK
  <2>3. watermark[TargetChannel] \in Int
    BY <2>2 DEF Timestamps, NoTS
  <2>4. log \in Seq(Event) /\ emitted \in Seq(Event)
    BY <2>1 DEF TypeInv, SessionTypeOK
  <2>5. e \in Event /\ EventKey(e) \notin seen /\ pc = "replay"
    BY DEF Giving
  <2> QED BY <2>1, <2>3, <2>4, <2>5
<1>2. PICK m \in Owed : Matches(m) /\ EventKey(e) = EventKey(m)
  BY DEF Giving, IsAnswer
<1>3. /\ m \in Event /\ m \in Occurred /\ m.ts \in Nat /\ Cursor(m) = m.ts
      /\ Identity(e) = Identity(m) /\ e.ts = m.ts
  BY <1>1, <1>2, OwedAre, SameIdentity
<1>4. Identity(e) \in Answers
  BY <1>2, <1>3 DEF Answers
<1>5. ASSUME NEW i \in DOMAIN emitted
      PROVE  emitted[i] \in Event /\ Identity(emitted[i]) # Identity(e)
  <2>1. emitted[i] \in Event /\ EventKey(emitted[i]) # EventKey(e)
    BY <1>1 DEF GivenInv
  <2>2. PICK o \in Owed : EventKey(emitted[i]) = EventKey(o)
    BY <1>1 DEF GivenInv, IsAnswer
  <2>3. /\ o \in Event /\ o \in Occurred /\ Cursor(o) = o.ts
        /\ Identity(emitted[i]) = Identity(o)
    BY <1>1, <2>1, <2>2, OwedAre, SameIdentity
  <2>4. ASSUME Identity(emitted[i]) = Identity(e) PROVE FALSE
    <3>1. o.ts = m.ts
      BY <1>3, <2>3, <2>4 DEF Identity
    <3>2. o = m
      BY <1>1, <1>3, <2>3, <3>1, SameInstant
    <3> QED BY <1>2, <2>1, <2>2, <3>2
  <2> QED BY <2>1, <2>4
<1>6. ASSUME gaps = 0, NEW i \in DOMAIN emitted
      PROVE  emitted[i].ts < e.ts
  <2>1. m \in Unseen
    BY <1>1, <1>2 DEF Unseen
  <2>2. m.ts > watermark[TargetChannel]
    BY <1>1, <1>6, <2>1 DEF PosInv
  <2>3. emitted[i].ts <= watermark[TargetChannel]
    BY <1>1, <1>6 DEF GivenInv
  <2>4. emitted[i].ts \in Int
    BY <1>5 DEF Event
  <2> QED BY <1>1, <1>3, <2>2, <2>3, <2>4
<1>7. ASSUME gaps = 0, NEW o \in Owed, Matches(o), o.ts < e.ts
      PROVE  \E i \in DOMAIN emitted : Identity(emitted[i]) = Identity(o)
  <2>1. o \in Event /\ o \in Occurred /\ o.kind = "message" /\ InScope(o) /\ o.ts \in Nat
    BY <1>1, OwedAre
  <2>2. EventKey(o) \in seen
    <3>1. CASE EventKey(o) = EventKey(e)
      BY <1>1, <1>3, <1>7, <2>1, <3>1, SameIdentity
    <3>2. CASE EventKey(o) # EventKey(e) /\ o \in Unseen
      <4>1. e.ts < o.ts
        BY <1>7, <3>2 DEF Giving
      <4> QED BY <1>3, <1>7, <2>1, <4>1
    <3> QED BY <3>1, <3>2 DEF Unseen
  <2>3. ~emitFailed
    BY <1>1 DEF FailInv, Leaving
  <2>4. EventKey(o) \in KeysOf(emitted)
    BY <1>1, <1>7, <2>1, <2>2, <2>3 DEF SeenInv, Matches
  <2>5. PICK i \in DOMAIN emitted : EventKey(emitted[i]) = EventKey(o)
    BY <2>4 DEF KeysOf
  <2> QED BY <1>1, <2>1, <2>5, SameIdentity
<1> QED BY <1>4, <1>5, <1>6, <1>7

(* Every step of a run is one of the abstract specification's, or changes   *)
(* nothing of it.                                                           *)
LEMMA DeliveryStep ==
  ASSUME Plain, DeliveryInv, AnswersFit', [Next]_vars
  PROVE  Delivery!Next
<1>1. /\ TypeInv /\ LogInv /\ ReadInv /\ LogFits /\ emitted \in Seq(Event)
      /\ gaps \in Nat /\ gaps' \in Nat /\ (gaps' = 0 => gaps = 0)
  <2>1. TypeInv /\ LogInv /\ ReadInv /\ LogFits
    BY DEF DeliveryInv, LossInv, GroundInv
  <2>2. TypeInv'
    BY <2>1, TypeNext
  <2> QED BY <2>1, <2>2, SeenGrows DEF TypeInv, SessionTypeOK
<1>2. ASSUME UNCHANGED emitted, gaps' > 0 <=> gaps > 0 PROVE Delivery!Posted
  <2>1. Answers' \in SUBSET (AllChannels \X (0..(2 * MaxLog))) /\ Answers \subseteq Answers'
    BY <1>1, AnswersGrow DEF AnswersFit
  <2>2. Handed' = Handed /\ (gaps > 0)' = (gaps > 0)
    BY <1>2 DEF Handed, Identity
  <2> QED BY <2>1, <2>2 DEF Delivery!Posted, Answers, Handed
<1>3. ASSUME UNCHANGED emitted, ~(gaps' > 0 <=> gaps > 0) PROVE Delivery!Admit
  <2>1. Answers' = Answers
    BY <1>1, <1>3, GapsArePlain, AnswersStay
  <2>2. Handed' = Handed /\ (gaps > 0)' = TRUE
    BY <1>1, <1>3 DEF Handed, Identity
  <2> QED BY <2>1, <2>2 DEF Delivery!Admit, Answers, Handed
<1>4. ASSUME NEW e, Giving(e) PROVE \E a \in Answers : Delivery!Deliver(a)
  <2>1. /\ e \in Event /\ emitted' = Append(emitted, e) /\ gaps' = gaps
        /\ log' = log /\ pc # "start"
    BY <1>4 DEF Giving
  <2>2. /\ Answers' = Answers /\ Handed' = Append(Handed, Identity(e))
        /\ (gaps > 0)' = (gaps > 0)
    BY <1>1, <2>1, AnswersStay, HandedAppends
  <2>3. /\ Identity(e) \in Answers
        /\ \A i \in DOMAIN emitted : Identity(emitted[i]) # Identity(e)
        /\ gaps = 0 =>
             /\ \A i \in DOMAIN emitted : emitted[i].ts < e.ts
             /\ \A o \in Owed : Matches(o) /\ o.ts < e.ts =>
                  \E i \in DOMAIN emitted : Identity(emitted[i]) = Identity(o)
    BY <1>4, GivingDelivers
  <2>4. DOMAIN Handed = DOMAIN emitted
        /\ \A i \in DOMAIN emitted : Handed[i] = Identity(emitted[i])
    BY DEF Handed
  <2>5. Delivery!Given = {Identity(emitted[i]) : i \in DOMAIN emitted}
    BY <2>4 DEF Delivery!Given, Handed
  <2>6. Identity(e) \notin Delivery!Given
    BY <2>3, <2>5
  <2>7. ASSUME ~(gaps > 0)
        PROVE  /\ \A g \in Delivery!Given : g[1] = Identity(e)[1] => g[2] < Identity(e)[2]
               /\ \A b \in Answers : b[1] = Identity(e)[1] /\ b[2] < Identity(e)[2]
                    => b \in Delivery!Given
    <3>1. gaps = 0
      BY <1>1, <2>7
    <3> QED BY <2>3, <2>5, <3>1 DEF Answers, Identity
  <2>8. Delivery!Deliver(Identity(e))
    BY <2>2, <2>3, <2>6, <2>7 DEF Delivery!Deliver, Answers, Handed
  <2> QED BY <2>3, <2>8
<1> QED BY <1>2, <1>3, <1>4, GivingStep DEF Delivery!Next, Answers

(* The abstract specification starts where a run starts.                    *)
LEMMA DeliveryStart == Init => Delivery!Init
<1> SUFFICES ASSUME Init PROVE Delivery!Init
  OBVIOUS
<1>1. pc = "start" /\ emitted = << >> /\ gaps = 0
  BY DEF Init, SessionInit
<1>2. Answers = {} /\ Handed = << >> /\ (gaps > 0) = FALSE
  BY <1>1 DEF Answers, Owed, Handed
<1> QED BY <1>2 DEF Delivery!Init, Answers, Handed

(* A run that polls one thread, or a channel without its replies, hands over *)
(* no answer twice, and until it counts a gap it hands the answers over in   *)
(* the order they were posted and passes none of them over, whatever is      *)
(* posted between its requests, with or without an event cap: it implements  *)
(* the specification the socket run implements (ImplementsDelivery, of       *)
(* runPoll).                                                                 *)
THEOREM PollsDeliver ==
  ASSUME Plain
  PROVE  Spec => ImplementsDelivery
<1>1. Init => DeliveryInv /\ Delivery!Init
  BY DeliveryInit, DeliveryStart
<1>2. DeliveryInv /\ [Next]_vars => DeliveryInv'
  BY DeliveryNext
<1>3. DeliveryInv => AnswersFit
  BY AnswersAre DEF DeliveryInv, LossInv, GroundInv
<1>4. DeliveryInv /\ AnswersFit' /\ [Next]_vars
        => [Delivery!Next]_<<Answers, Handed, gaps > 0>>
  BY DeliveryStep
<1> QED BY <1>1, <1>2, <1>3, <1>4, PTL
        DEF Spec, ImplementsDelivery, Delivery!Spec, Answers, Handed

-----------------------------------------------------------------------------
(* The event cap: a run that reached it has a reason to end, and a run with *)
(* a reason to end is on its way out.                                       *)
CapInv ==
  /\ Stopped => pc \in Leaving
  /\ MaxEvents > 0 => /\ Len(emitted) <= MaxEvents
                      /\ Len(emitted) = MaxEvents => Stopped

(* A step that neither hands over nor stops, nor comes back.                *)
LEMMA CapUnchanged ==
  ASSUME CapInv, UNCHANGED emitted,
         stoppedBy' = stoppedBy \/ (stoppedBy' # "" /\ pc' \in Leaving),
         pc \in Leaving => pc' \in Leaving
  PROVE  CapInv'
BY DEF CapInv, Stopped, Leaving

(* An offer meets the cap at the last event it allows.                      *)
LEMMA CapOffer ==
  ASSUME TypeInv, CapInv, ~Stopped, NEW e \in Event, NEW fails \in BOOLEAN, Offer(e, fails)
  PROVE  MaxEvents > 0 => /\ Len(emitted') <= MaxEvents
                          /\ Len(emitted') = MaxEvents => Stopped'
<1>1. /\ emitted \in Seq(Event) /\ Len(emitted) \in Nat /\ MaxEvents \in Nat /\ SessionTypeOK
  BY LenProperties, SessionAssumption DEF TypeInv, SessionTypeOK
<1>2. CASE UNCHANGED <<emitted, stoppedBy>>
  BY <1>1, <1>2 DEF CapInv, Stopped
<1>3. ASSUME NEW w \in Event, Emit(w)
      PROVE  MaxEvents > 0 => /\ Len(emitted') <= MaxEvents
                              /\ Len(emitted') = MaxEvents => Stopped'
  <2>1. Len(emitted') = Len(emitted) + 1
    BY <1>1, <1>3, AppendProperties DEF Emit
  <2>2. MaxEvents > 0 => Len(emitted) < MaxEvents
    BY <1>1 DEF CapInv
  <2>3. MaxEvents > 0 /\ Len(emitted) + 1 >= MaxEvents => stoppedBy' # ""
    BY <1>3 DEF Emit, Stop, Stopped
  <2>4. ASSUME MaxEvents > 0
        PROVE  Len(emitted') <= MaxEvents /\ (Len(emitted') = MaxEvents => stoppedBy' # "")
    <3>1. Len(emitted') <= MaxEvents /\ (Len(emitted') = MaxEvents => Len(emitted) + 1 >= MaxEvents)
      BY <1>1, <2>1, <2>2, <2>4
    <3> QED BY <2>3, <2>4, <3>1
  <2> QED BY <2>4 DEF Stopped
<1>4. CASE UNCHANGED deliveryVars \/ NothingDelivered \/ EmitFails \/ ReportSkipped(WithThread(e))
  BY <1>2, <1>4 DEF deliveryVars, NothingDelivered, EmitFails, ReportSkipped
<1>5. WithThread(e) \in Event
  BY <1>1, WithThreadType DEF SessionTypeOK
<1> QED BY <1>3, <1>4, <1>5 DEF Offer

(* Every step keeps the cap.                                                *)
LEMMA CapNext == TypeInv /\ CapInv /\ [Next]_vars => CapInv'
<1> SUFFICES ASSUME TypeInv, CapInv, [Next]_vars PROVE CapInv'
  OBVIOUS
<1>1. ASSUME NEW e \in batch, Replay(e) PROVE CapInv'
  <2>1. pc = "replay" /\ ~Stopped /\ e \in Event
    BY <1>1 DEF Replay, CapInv, Leaving, TypeInv, TypeOK
  <2>2. CASE Offer(e, FALSE) /\ pc' = IF stoppedBy' # "" THEN "return"
                                      ELSE IF batch' = {} THEN "wait" ELSE "replay"
    <3>1. Stopped' => pc' \in Leaving
      BY <2>2 DEF Stopped, Leaving
    <3> QED BY <2>1, <2>2, <3>1, CapOffer DEF CapInv
  <2>3. CASE Offer(e, TRUE) /\ Fail
    BY <2>1, <2>3, CapOffer DEF CapInv, Fail, Leaving
  <2> QED BY <1>1, <2>2, <2>3 DEF Replay
<1>2. CASE Idle \/ Finish
  <2>1. Stop("idle-timeout") \/ Stop(DeadlineStopReason)
    BY <1>2 DEF Idle, Finish
  <2>2. stoppedBy' # ""
    BY <2>1 DEF Stop, Stopped, DeadlineStopReason
  <2> QED BY <1>2, <2>2, CapUnchanged DEF Idle, Finish, Leaving
<1>3. CASE StartPolling \/ BaselineFails \/ ReadChannel \/ ReadFails \/ ReadDone \/ NextRead \/ Sleep
           \/ \E root \in reading.roots : ReadThread(root)
  BY <1>3, CapUnchanged
     DEF StartPolling, BaselineFails, ReadChannel, ReadFails, ReadDone, NextRead, Sleep, ReadThread,
         Fail, Leaving, sessionVars, deliveryVars, pollVars
<1>4. CASE Happens \/ Expire \/ Cancel \/ Done \/ UNCHANGED vars
  BY <1>4, CapUnchanged
     DEF Happens, Expire, Cancel, Done, vars, sessionVars, deliveryVars, pollVars
<1> QED BY <1>1, <1>2, <1>3, <1>4 DEF Next, Engine

(* A poll run hands over no more events than its caller asked for, wherever *)
(* in a round the cap is met (EventCapHolds, of result.Events and           *)
(* WatchOptions.MaxEvents in offer and backfillChannel).                    *)
THEOREM CapIsKept == Spec => []EventCapHolds
<1>1. Init => TypeInv /\ CapInv
  <2>1. Init => CapInv
    <3> SUFFICES ASSUME Init PROVE CapInv
      OBVIOUS
    <3>1. emitted = << >> /\ stoppedBy = ""
      BY DEF Init, SessionInit
    <3>2. Len(emitted) = 0
      BY <3>1
    <3>3. MaxEvents \in Nat
      BY SessionAssumption
    <3>4. MaxEvents > 0 => Len(emitted) <= MaxEvents /\ Len(emitted) # MaxEvents
      BY <3>2, <3>3
    <3> QED BY <3>1, <3>4 DEF CapInv, Stopped
  <2> QED BY <2>1, TypeInit
<1>2. TypeInv /\ CapInv /\ [Next]_vars => TypeInv' /\ CapInv'
  BY TypeNext, CapNext
<1>3. CapInv => EventCapHolds
  BY DEF CapInv, EventCapHolds
<1> QED BY <1>1, <1>2, <1>3, PTL DEF Spec
=============================================================================
