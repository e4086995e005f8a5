-------------------------- MODULE SocketAnswerProofs --------------------------
(***************************************************************************)
(* What a command reports of an app is true, for every command, any room   *)
(* for frames and any number of looks, whatever is lost on the way.        *)
(***************************************************************************)
EXTENDS SocketAnswer, TLAPS

Errs == Refusals \cup {"none", "retry", "cancelled"}
Outcomes == {"none", "unobserved", "unknown", "view_opened", "message_deleted",
             "message_updated"}
Frames == {"hello", "other", "edit", "view"}
Reports == [err : Errs, outcome : Outcomes, closed : BOOLEAN, submitted : BOOLEAN,
            warnSocket : BOOLEAN, warnRead : BOOLEAN]
Watches == [view : BOOLEAN, updated : BOOLEAN, deleted : BOOLEAN, misses : Nat,
            readOK : BOOLEAN, socketLost : BOOLEAN]

Shapes ==
  /\ result \in Reports /\ watch \in Watches /\ misled \in Nat /\ handled \in Nat
  /\ wire \in Seq(Frames) /\ frames \in Seq(Frames)
  /\ view \in BOOLEAN /\ closeLost \in BOOLEAN /\ job.flow \in {"press", "workflow"}

(* The app's view was opened before anything says so.                       *)
Announced ==
  \/ \E i \in DOMAIN wire : wire[i] = "view"
  \/ \E i \in DOMAIN frames : frames[i] = "view"
  \/ held = "view" \/ watch.view \/ view

FormInv ==
  /\ Announced => form # "none"
  /\ job.flow = "workflow" => \A i \in DOMAIN frames : frames[i] = "view"
  /\ pc \notin {"fetch", "fill", "submit", "close", "done"} => ~view
  /\ pc # "done" => ~result.closed
  /\ KnownFormsAreSettled

(* Nothing has reached the app before the request is sent, and what is      *)
(* reported of a press from then on is nothing to retry.                    *)
PressInv ==
  /\ pc \in {"start", "connect", "hello", "send"} => handled = 0
  /\ job.flow = "press" /\ pc # "done" => result.err # "retry"
  /\ pc = "await" => job.flow = "workflow"
  /\ PressedIsNotRetryable

(* A deletion rests on two looks in a row that did not find the message.    *)
LookInv ==
  /\ message = "gone" \/ watch.misses <= misled
  /\ watch.deleted => message = "gone" \/ misled >= 2
  /\ result.outcome = "message_deleted" => watch.deleted

(* Looked, field by field.                                                  *)
LEMMA SetReadOK ==
  ASSUME NEW w \in Watches
  PROVE  /\ [w EXCEPT !.readOK = TRUE] \in Watches
         /\ [w EXCEPT !.readOK = TRUE].misses = w.misses
         /\ [w EXCEPT !.readOK = TRUE].deleted = w.deleted
         /\ [w EXCEPT !.readOK = TRUE].view = w.view
BY DEF Watches

LEMMA SetMisses ==
  ASSUME NEW w \in Watches, NEW n \in Nat
  PROVE  /\ [w EXCEPT !.misses = n] \in Watches
         /\ [w EXCEPT !.misses = n].misses = n
         /\ [w EXCEPT !.misses = n].deleted = w.deleted
         /\ [w EXCEPT !.misses = n].view = w.view
BY DEF Watches

LEMMA SetDeleted ==
  ASSUME NEW w \in Watches, NEW b \in BOOLEAN
  PROVE  /\ [w EXCEPT !.deleted = b] \in Watches
         /\ [w EXCEPT !.deleted = b].misses = w.misses
         /\ [w EXCEPT !.deleted = b].deleted = b
         /\ [w EXCEPT !.deleted = b].view = w.view
BY DEF Watches

LEMMA SetUpdated ==
  ASSUME NEW w \in Watches, NEW b \in BOOLEAN
  PROVE  /\ [w EXCEPT !.updated = b] \in Watches
         /\ [w EXCEPT !.updated = b].misses = w.misses
         /\ [w EXCEPT !.updated = b].deleted = w.deleted
         /\ [w EXCEPT !.updated = b].view = w.view
BY DEF Watches

(* A look counts what the watch counts, and the message never comes back.   *)
LEMMA LookFacts ==
  ASSUME Shapes, LookInv, Look(watch'), message' = message
  PROVE  /\ watch' \in Watches /\ misled' \in Nat
         /\ message' = "gone" \/ watch'.misses <= misled'
         /\ watch'.deleted => message' = "gone" \/ misled' >= 2
         /\ watch'.view = watch.view
<1> PICK seen \in {"error", "gone", message} :
      /\ watch' = Looked(watch, seen)
      /\ misled' = IF watch.deleted \/ watch.updated \/ seen = "error" THEN misled
                   ELSE IF seen = "gone" /\ message # "gone" THEN misled + 1 ELSE 0
  BY DEF Look
<1>1. CASE watch.deleted \/ watch.updated \/ seen = "error"
  BY <1>1 DEF Looked, Shapes, LookInv
<1> DEFINE read == [watch EXCEPT !.readOK = TRUE]
<1>0. read \in Watches /\ read.misses = watch.misses /\ read.deleted = watch.deleted
      /\ read.view = watch.view
      /\ watch \in Watches /\ watch.misses \in Nat /\ misled \in Nat
  <2>1. watch \in Watches /\ watch.misses \in Nat /\ misled \in Nat
    BY DEF Shapes, Watches
  <2> QED
    BY <2>1, SetReadOK
<1>2. CASE ~(watch.deleted \/ watch.updated \/ seen = "error") /\ seen = "gone"
  <2> DEFINE counted == [read EXCEPT !.misses = watch.misses + 1]
             twice == watch.misses + 1 >= 2
             last == [counted EXCEPT !.deleted = twice]
  <2>1. watch' = last
    BY <1>2 DEF Looked
  <2> HIDE DEF read
  <2>2. counted \in Watches /\ counted.misses = watch.misses + 1 /\ counted.view = watch.view
    <3>1. watch.misses + 1 \in Nat
      BY <1>0
    <3> QED
      BY <1>0, <3>1, SetMisses
  <2> HIDE DEF counted
  <2>3. twice \in BOOLEAN
    OBVIOUS
  <2> HIDE DEF twice
  <2>4. last \in Watches /\ last.misses = watch.misses + 1 /\ last.deleted = twice
        /\ last.view = watch.view
    BY <2>2, <2>3, SetDeleted
  <2> HIDE DEF last
  <2>5. watch' \in Watches /\ watch'.misses = watch.misses + 1 /\ watch'.deleted = twice
        /\ watch'.view = watch.view
    BY <2>1, <2>4
  <2>6. misled' = IF message # "gone" THEN misled + 1 ELSE 0
    BY <1>2
  <2>7. message = "gone" \/ watch.misses <= misled
    BY DEF LookInv
  <2>8. twice => watch.misses + 1 >= 2
    BY DEF twice
  <2> QED
    BY <1>0, <2>5, <2>6, <2>7, <2>8
<1>3. CASE ~(watch.deleted \/ watch.updated \/ seen = "error") /\ seen # "gone"
  <2> DEFINE reset == [read EXCEPT !.misses = 0]
             last == [reset EXCEPT !.updated = (seen = "changed")]
  <2>1. watch' = last
    BY <1>3 DEF Looked
  <2> HIDE DEF read
  <2>2. reset \in Watches /\ reset.misses = 0 /\ reset.deleted = watch.deleted
        /\ reset.view = watch.view
    <3>1. 0 \in Nat
      OBVIOUS
    <3> QED
      BY <1>0, <3>1, SetMisses
  <2> HIDE DEF reset
  <2>3. last \in Watches /\ last.misses = 0 /\ last.deleted = watch.deleted
        /\ last.view = watch.view
    <3>1. (seen = "changed") \in BOOLEAN
      OBVIOUS
    <3> QED
      BY <2>2, <3>1, SetUpdated
  <2> HIDE DEF last
  <2> QED
    BY <1>0, <1>3, <2>1, <2>3 DEF LookInv
<1> QED
  BY <1>1, <1>2, <1>3

(* The reports, field by field.                                             *)
LEMMA SetErr ==
  ASSUME NEW r \in Reports, NEW e \in Errs
  PROVE  LET s == [r EXCEPT !.err = e] IN
         s \in Reports /\ s.err = e /\ s.outcome = r.outcome /\ s.closed = r.closed
           /\ s.submitted = r.submitted
BY DEF Reports

LEMMA SetOutcome ==
  ASSUME NEW r \in Reports, NEW o \in Outcomes
  PROVE  LET s == [r EXCEPT !.outcome = o] IN
         s \in Reports /\ s.err = r.err /\ s.outcome = o /\ s.closed = r.closed
           /\ s.submitted = r.submitted
BY DEF Reports

LEMMA SetWarnings ==
  ASSUME NEW r \in Reports, NEW b \in BOOLEAN
  PROVE  /\ LET s == [r EXCEPT !.warnSocket = b] IN
            s \in Reports /\ s.err = r.err /\ s.outcome = r.outcome /\ s.closed = r.closed
              /\ s.submitted = r.submitted
         /\ LET s == [r EXCEPT !.warnRead = b] IN
            s \in Reports /\ s.err = r.err /\ s.outcome = r.outcome /\ s.closed = r.closed
              /\ s.submitted = r.submitted
BY DEF Reports

LEMMA SetSubmitted ==
  ASSUME NEW r \in Reports, NEW b \in BOOLEAN
  PROVE  LET s == [r EXCEPT !.submitted = b] IN
         s \in Reports /\ s.err = r.err /\ s.outcome = r.outcome /\ s.closed = r.closed
           /\ s.submitted = b
BY DEF Reports

LEMMA SetClosed ==
  ASSUME NEW r \in Reports, NEW b \in BOOLEAN
  PROVE  LET s == [r EXCEPT !.closed = b] IN
         s \in Reports /\ s.err = r.err /\ s.outcome = r.outcome /\ s.closed = b
           /\ s.submitted = r.submitted
BY DEF Reports

IInv == Shapes /\ PressInv /\ LookInv /\ FormInv

Early == {"start", "connect", "hello", "send", "sent"}
Places == Early \cup {"watch", "await", "fetch", "fill", "submit", "close", "done"}

(* Before any view is known a command goes on, or ends without one: with an *)
(* error, or with an outcome that claims nothing of the message.            *)
LEMMA EarlyPreserves ==
  ASSUME IInv, pc \in Early \cup {"await"}, NEW e \in Errs, NEW o \in Outcomes,
         NEW place \in Places \ {"fetch", "fill", "submit", "close"},
         pc' = place,
         \/ place # "done" /\ result' = result
         \/ /\ place = "done"
            /\ \/ result' = [result EXCEPT !.err = e]
               \/ result' = [result EXCEPT !.outcome = o],
         o # "message_deleted",
         place = "done" /\ job.flow = "press" /\ handled > 0 => e # "retry",
         place \in Early \ {"sent"} => handled = 0,
         place = "await" => job.flow = "workflow",
         frames' = frames \/ frames' = << >>,
         UNCHANGED <<job, watch, view, wire, held, worldVars>>
  PROVE  IInv'
<1> USE DEF IInv
<1>1. /\ result' \in Reports /\ result'.closed = result.closed
      /\ result'.outcome \in {result.outcome, o} /\ result'.err \in {result.err, e}
      /\ result'.err = result.err \/ (place = "done" /\ result'.err = e)
  <2>1. result \in Reports
    BY DEF Shapes
  <2>2. CASE result' = [result EXCEPT !.err = e] /\ place = "done"
    <3> DEFINE s == [result EXCEPT !.err = e]
    <3>1. s \in Reports /\ s.err = e /\ s.outcome = result.outcome /\ s.closed = result.closed
      BY <2>1, SetErr
    <3> HIDE DEF s
    <3>2. result' = s
      BY <2>2 DEF s
    <3> QED
      BY <2>2, <3>1, <3>2
  <2>3. CASE result' = [result EXCEPT !.outcome = o]
    <3> DEFINE s == [result EXCEPT !.outcome = o]
    <3>1. s \in Reports /\ s.err = result.err /\ s.outcome = o /\ s.closed = result.closed
      BY <2>1, SetOutcome
    <3> HIDE DEF s
    <3>2. result' = s
      BY <2>3 DEF s
    <3> QED
      BY <3>1, <3>2
  <2>4. CASE result' = result
    BY <2>1, <2>4
  <2> QED
    BY <2>2, <2>3, <2>4
<1>2. ~view /\ ~result.closed /\ (job.flow = "press" => result.err # "retry")
  BY DEF FormInv, PressInv, Early
<1>3. Shapes'
  <2>1. frames' \in Seq(Frames)
    <3>1. frames \in Seq(Frames)
      BY DEF Shapes
    <3>2. << >> \in Seq(Frames)
      OBVIOUS
    <3> QED
      BY <3>1, <3>2
  <2> QED
    BY <1>1, <2>1 DEF Shapes, worldVars
<1>4. PressInv'
  BY <1>1, <1>2 DEF PressInv, PressedIsNotRetryable, worldVars, Early
<1>5. LookInv'
  BY <1>1 DEF LookInv, worldVars
<1>6. Announced' => Announced
  BY DEF Announced
<1>7. FormInv'
  <2>1. job.flow = "workflow" => \A i \in DOMAIN frames' : frames'[i] = "view"
    BY DEF FormInv
  <2> QED
    BY <1>1, <1>2, <1>6, <2>1 DEF FormInv, KnownFormsAreSettled, worldVars
<1> QED
  BY <1>3, <1>4, <1>5, <1>7

LEMMA FailPreserves ==
  ASSUME IInv, pc \in Early \cup {"await"}, NEW e \in Errs,
         pc' = "done", result' = [result EXCEPT !.err = e],
         job.flow = "press" /\ handled > 0 => e # "retry",
         frames' = frames \/ frames' = << >>,
         UNCHANGED <<job, watch, view, wire, held, worldVars>>
  PROVE  IInv'
<1>1. "done" \in Places \ {"fetch", "fill", "submit", "close"} /\ "done" \notin Early
      /\ "none" # "message_deleted" /\ "none" \in Outcomes
  BY DEF Places, Early, Outcomes
<1> QED
  BY <1>1, EarlyPreserves

(* The request, the socket it is heard over, and their failures.            *)
LEMMA RequestPreserves ==
  ASSUME IInv,
         RequireBrowserAuth \/ NoAppToPress \/ AwaitHello \/ Send \/ SendAnswered
  PROVE  IInv'
<1>0. /\ pc \in {"start", "connect", "hello", "send"} => handled = 0
      /\ handled = 0 \/ handled > 0
  BY DEF IInv, PressInv, Shapes
<1>1. ASSUME pc \in Early, NEW e \in {"agent", "human", "retry", "cancelled"},
             pc' = "done", result' = [result EXCEPT !.err = e],
             job.flow = "press" /\ e = "retry" => handled = 0,
             UNCHANGED <<job, watch, view, frames, wire, held, worldVars>>
      PROVE  IInv'
  <2>1. e \in Errs /\ (job.flow = "press" /\ handled > 0 => e # "retry")
    BY <1>1 DEF Errs, Refusals
  <2> QED
    BY <1>1, <2>1, FailPreserves
<1>2. ASSUME pc \in Early, NEW place \in Places \ {"fetch", "fill", "submit", "close", "done"},
             pc' = place, result' = result, place \in Early \ {"sent"} => handled = 0,
             place = "await" => job.flow = "workflow",
             UNCHANGED <<job, watch, view, frames, wire, held, worldVars>>
      PROVE  IInv'
  <2>1. "none" \in Errs /\ "none" \in Outcomes
    BY DEF Errs, Outcomes
  <2> QED
    BY <1>0, <1>2, <2>1, EarlyPreserves DEF Early
<1> USE DEF Done, Fail, socketVars
<1>3. CASE RequireBrowserAuth
  <2>1. CASE job.auth # "browser"
    BY <1>1, <1>3, <2>1 DEF RequireBrowserAuth, Early
  <2>2. CASE job.auth = "browser"
    BY <1>0, <1>2, <1>3, <2>2 DEF RequireBrowserAuth, Early, Places
  <2> QED
    BY <2>1, <2>2
<1>4. CASE NoAppToPress
  BY <1>1, <1>4 DEF NoAppToPress, Early
<1>5. CASE AwaitHello
  <2>1. CASE pc' = "send" /\ UNCHANGED result
    BY <1>0, <1>2, <1>5, <2>1 DEF AwaitHello, Early, Places
  <2>2. CASE Fail("cancelled")
    BY <1>1, <1>5, <2>2 DEF AwaitHello, Early
  <2> QED
    BY <1>5, <2>1, <2>2 DEF AwaitHello
<1>6. CASE Send
  BY <1>2, <1>6 DEF Send, Early, Places
<1>7. CASE SendAnswered
  <2>0. pc = "sent" /\ UNCHANGED <<job, watch, view, frames, wire, held, worldVars>>
    BY <1>7 DEF SendAnswered
  <2>1. CASE /\ pc' \in {"await", "watch"} /\ (pc' = "await" => job.flow = "workflow")
             /\ UNCHANGED result
    BY <1>2, <2>0, <2>1 DEF Early, Places
  <2>2. CASE Done([result EXCEPT !.outcome = "unobserved"])
    <3>1. "none" \in Errs /\ "unobserved" \in Outcomes
      BY DEF Errs, Outcomes
    <3> QED
      BY <2>0, <2>2, <3>1, EarlyPreserves DEF Early, Places
  <2>3. CASE \E fixable \in Refusals : handled = 0 /\ Fail(fixable)
    <3> PICK fixable \in Refusals : handled = 0 /\ Fail(fixable)
      BY <2>3
    <3> QED
      BY <1>1, <2>0 DEF Refusals, Early
  <2>4. CASE Fail(Dispatch("retry"))
    <3>1. Dispatch("retry") \in {"agent", "retry"}
          /\ (job.flow = "press" => Dispatch("retry") = "agent")
      BY DEF Dispatch
    <3> QED
      BY <1>1, <2>0, <2>4, <3>1 DEF Early
  <2> QED
    BY <1>7, <2>1, <2>2, <2>3, <2>4 DEF SendAnswered
<1> QED
  BY <1>3, <1>4, <1>5, <1>6, <1>7

(* The socket, and a workflow's wait for its form.                          *)
LEMMA ConnectPreserves ==
  ASSUME IInv, ConnectRTM
  PROVE  IInv'
<1>0. /\ pc = "connect" /\ handled = 0 /\ "none" \in Errs /\ "none" \in Outcomes
      /\ Refusals \cup {"retry"} \subseteq Errs
      /\ UNCHANGED <<job, watch, view, frames, wire, held, worldVars>>
  BY DEF ConnectRTM, IInv, PressInv, Errs, Outcomes
<1>1. CASE pc' \in {"hello", "send"} /\ UNCHANGED result
  BY <1>0, <1>1, EarlyPreserves DEF Early, Places
<1>2. CASE \E fixable \in Refusals \cup {"retry"} : Fail(fixable)
  <2> PICK e \in Errs : Fail(e)
    BY <1>0, <1>2
  <2> QED
    BY <1>0, FailPreserves DEF Fail, Done, Early
<1> QED
  BY <1>1, <1>2 DEF ConnectRTM

LEMMA AwaitPreserves ==
  ASSUME IInv, AwaitOpenedView
  PROVE  IInv'
<1>0. /\ pc = "await" /\ job.flow = "workflow" /\ "none" \in Outcomes /\ "retry" \in Errs
      /\ UNCHANGED <<job, watch, wire, held, worldVars>>
      /\ frames' = frames \/ frames' = << >>
  BY DEF AwaitOpenedView, Errs, Outcomes, IInv, PressInv
<1>1. CASE Fail("retry") /\ UNCHANGED view
  BY <1>0, <1>1, FailPreserves DEF Fail, Done
<1>2. CASE frames # << >> /\ view' = TRUE /\ pc' = "fetch" /\ UNCHANGED result
  <2>1. form # "none"
    <3>1. 1 \in DOMAIN frames
      BY <1>2 DEF IInv, Shapes
    <3> QED
      BY <1>0, <3>1 DEF IInv, FormInv, Announced
  <2>2. Shapes'
    <3>1. << >> \in Seq(Frames)
      OBVIOUS
    <3> QED
      BY <1>0, <1>2, <3>1 DEF IInv, Shapes, worldVars
  <2>3. frames' = << >>
    BY <1>2 DEF AwaitOpenedView
  <2>4. PressInv' /\ LookInv'
    BY <1>0, <1>2 DEF IInv, PressInv, LookInv, PressedIsNotRetryable, worldVars
  <2>5. FormInv'
    BY <1>0, <1>2, <2>1, <2>3 DEF IInv, FormInv, KnownFormsAreSettled, worldVars
  <2> QED
    BY <2>2, <2>4, <2>5 DEF IInv
<1> QED
  BY <1>1, <1>2 DEF AwaitOpenedView

(* Watching.  A frame, a look or a closed channel changes only the watch.   *)
LEMMA WatchPreserves ==
  ASSUME IInv, TakeFrame \/ FramesClosed \/ Poll
  PROVE  IInv'
<1>0. /\ pc = "watch" /\ ~view
      /\ UNCHANGED <<job, pc, view, result, wire, held, handled, message, form, submits, closeLost>>
  BY DEF TakeFrame, FramesClosed, Poll, IInv, FormInv, socketVars, worldVars
<1>1. ASSUME watch' \in Watches, misled' \in Nat,
             message' = "gone" \/ watch'.misses <= misled',
             watch'.deleted => message' = "gone" \/ misled' >= 2,
             watch.deleted => watch'.deleted,
             watch'.view => watch.view \/ form # "none",
             frames' \in Seq(Frames), \A i \in DOMAIN frames' : \E j \in DOMAIN frames : frames'[i] = frames[j]
      PROVE  IInv'
  <2>1. Shapes'
    BY <1>0, <1>1 DEF IInv, Shapes
  <2>2. PressInv' /\ LookInv'
    BY <1>0, <1>1 DEF IInv, PressInv, LookInv, PressedIsNotRetryable
  <2>3. Announced' => form # "none"
    BY <1>0, <1>1 DEF IInv, FormInv, Announced
  <2>4. job.flow = "workflow" => \A i \in DOMAIN frames' : frames'[i] = "view"
    BY <1>1 DEF IInv, FormInv
  <2>5. FormInv'
    BY <1>0, <2>3, <2>4 DEF IInv, FormInv, KnownFormsAreSettled
  <2> QED
    BY <2>1, <2>2, <2>5 DEF IInv
<1>2. ASSUME Look(watch') PROVE watch.deleted => watch'.deleted
  BY <1>2 DEF Look, Looked
<1>3. CASE Poll
  <2>1. Look(watch') /\ message' = message /\ frames' = frames
    BY <1>3 DEF Poll, socketVars
  <2>2. frames \in Seq(Frames) /\ Shapes /\ LookInv
    BY DEF IInv, Shapes
  <2> QED
    BY <1>1, <1>2, <2>1, <2>2, LookFacts
<1>4. CASE FramesClosed
  <2>1. watch' \in Watches /\ watch'.misses = watch.misses /\ watch'.deleted = watch.deleted
        /\ watch'.view = watch.view
    BY <1>4 DEF FramesClosed, IInv, Shapes, Watches
  <2> QED
    BY <1>0, <1>1, <1>4, <2>1 DEF FramesClosed, IInv, Shapes, LookInv, socketVars, worldVars
<1>5. CASE TakeFrame
  <2>1. /\ frames' \in Seq(Frames)
        /\ \A i \in DOMAIN frames' : \E j \in DOMAIN frames : frames'[i] = frames[j]
    BY <1>5 DEF TakeFrame, IInv, Shapes
  <2>2. CASE Head(frames) = "view"
    <3>1. watch' \in Watches /\ watch'.misses = watch.misses /\ watch'.deleted = watch.deleted
      BY <1>5, <2>2 DEF TakeFrame, IInv, Shapes, Watches
    <3>2. form # "none"
      <4>1. 1 \in DOMAIN frames /\ frames[1] = "view"
        BY <1>5, <2>2 DEF TakeFrame, IInv, Shapes
      <4> QED
        BY <4>1 DEF IInv, FormInv, Announced
    <3> QED
      BY <1>0, <1>1, <1>5, <2>1, <2>2, <3>1, <3>2 DEF TakeFrame, IInv, Shapes, LookInv
  <2>3. CASE Head(frames) # "view"
    BY <1>0, <1>1, <1>2, <1>5, <2>1, <2>3, LookFacts DEF TakeFrame, IInv
  <2> QED
    BY <2>2, <2>3
<1> QED
  BY <1>3, <1>4, <1>5

(* The verdict names a deletion only when the watch saw one.                *)
LEMMA FinishPreserves ==
  ASSUME IInv, Finish
  PROVE  IInv'
<1> DEFINE named == [result EXCEPT !.outcome = Outcome(watch')]
           told == [named EXCEPT !.warnSocket = watch'.socketLost /\ ~watch'.view]
           res == [told EXCEPT !.warnRead = ~watch'.readOK]
<1>0. /\ pc = "watch" /\ ~view /\ ~result.closed /\ result \in Reports
      /\ Look(watch') /\ message' = message /\ Shapes /\ LookInv
      /\ UNCHANGED <<job, socketVars, handled, message, form, submits, closeLost>>
  BY DEF Finish, IInv, FormInv, Shapes
<1>1. /\ watch' \in Watches /\ misled' \in Nat
      /\ message' = "gone" \/ watch'.misses <= misled'
      /\ watch'.deleted => message' = "gone" \/ misled' >= 2
      /\ watch'.view = watch.view
  BY <1>0, LookFacts
<1>2. Outcome(watch') \in Outcomes /\ (Outcome(watch') = "message_deleted" => watch'.deleted)
  BY DEF Outcome, Outcomes
<1>3. named \in Reports /\ named.err = result.err /\ named.outcome = Outcome(watch')
      /\ named.closed = result.closed
  BY <1>0, <1>2, SetOutcome
<1>4. result' = res /\ view' = watch'.view /\ pc' = IF watch'.view THEN "fetch" ELSE "done"
  BY DEF Finish, Done
<1> HIDE DEF named
<1>5. told \in Reports /\ told.err = result.err /\ told.outcome = Outcome(watch')
      /\ told.closed = result.closed
  <2>1. (watch'.socketLost /\ ~watch'.view) \in BOOLEAN
    OBVIOUS
  <2> QED
    BY <1>3, <2>1, SetWarnings
<1> HIDE DEF told
<1>6. res \in Reports /\ res.err = result.err /\ res.outcome = Outcome(watch')
      /\ res.closed = result.closed
  <2>1. (~watch'.readOK) \in BOOLEAN
    OBVIOUS
  <2> QED
    BY <1>5, <2>1, SetWarnings
<1> HIDE DEF res
<1>7. Shapes'
  BY <1>0, <1>1, <1>4, <1>6 DEF Shapes, Watches, socketVars
<1>8. PressInv'
  BY <1>0, <1>4, <1>6 DEF IInv, PressInv, PressedIsNotRetryable
<1>9. LookInv'
  BY <1>1, <1>2, <1>4, <1>6 DEF LookInv
<1>10. FormInv'
  <2>1. Announced' => Announced
    BY <1>0, <1>1, <1>4 DEF Announced, socketVars
  <2>2. pc' = "done" => ~view'
    BY <1>4
  <2>3. pc' \in {"fetch", "done"}
    BY <1>4
  <2> QED
    BY <1>0, <1>4, <1>6, <2>1, <2>2, <2>3
       DEF IInv, FormInv, KnownFormsAreSettled, socketVars
<1> QED
  BY <1>7, <1>8, <1>9, <1>10 DEF IInv

(* A known form is fetched and filled; nothing of it is decided yet.        *)
LEMMA FillPreserves ==
  ASSUME IInv, FetchOpenedView \/ FillForm
  PROVE  IInv'
<1>0. /\ UNCHANGED <<job, watch, view, socketVars, worldVars>>
      /\ pc \in {"fetch", "fill"} /\ pc' \in {"close", "fill", "submit"}
      /\ result \in Reports
  BY DEF FetchOpenedView, FillForm, IInv, Shapes
<1>1. /\ result' \in Reports /\ result'.closed = result.closed
      /\ result'.outcome = result.outcome
      /\ result'.err = result.err \/ (job.flow = "press" => result'.err # "retry")
  <2>1. CASE UNCHANGED result
    BY <1>0, <2>1
  <2>2. CASE \E fixable \in {"agent", "human", "retry"} :
               /\ fixable = "retry" => job.flow = "workflow"
               /\ result' = [result EXCEPT !.err = fixable]
    <3> PICK fixable \in {"agent", "human", "retry"} :
               /\ fixable = "retry" => job.flow = "workflow"
               /\ result' = [result EXCEPT !.err = fixable]
      BY <2>2
    <3>1. fixable \in Errs /\ (job.flow = "press" => fixable # "retry")
      BY DEF Errs, Refusals
    <3> QED
      BY <1>0, <3>1, SetErr
  <2> QED
    BY <2>1, <2>2 DEF FetchOpenedView, FillForm
<1>2. Shapes' /\ LookInv'
  BY <1>0, <1>1 DEF IInv, Shapes, LookInv, socketVars, worldVars
<1>3. PressInv'
  BY <1>0, <1>1 DEF IInv, PressInv, PressedIsNotRetryable, worldVars
<1>4. FormInv'
  BY <1>0, <1>1 DEF IInv, FormInv, Announced, KnownFormsAreSettled, socketVars, worldVars
<1> QED
  BY <1>2, <1>3, <1>4 DEF IInv

(* A submission that was taken ends the command, or opens a step to close;  *)
(* any other goes on to the close, with nothing to retry for a press.       *)
LEMMA SubmitPreserves ==
  ASSUME IInv, SubmitViewState
  PROVE  IInv'
<1>0. /\ pc = "submit" /\ result \in Reports /\ ~result.closed
      /\ job.flow = "press" => result.err # "retry"
      /\ UNCHANGED <<job, watch, view, socketVars, handled, message, closeLost, misled>>
  BY DEF SubmitViewState, IInv, Shapes, FormInv, PressInv
<1>1. ASSUME result' \in Reports, result'.outcome = result.outcome, form' # "none" \/ form' = form,
             job.flow = "press" => result'.err # "retry",
             \/ pc' = "close" /\ ~result'.closed
             \/ /\ pc' = "done"
                /\ form' \in {"open", "next"} => job.flow = "workflow" /\ result'.submitted
                /\ job.flow = "press" => form' = "submitted"
      PROVE  IInv'
  <2>1. Shapes' /\ LookInv'
    BY <1>0, <1>1 DEF IInv, Shapes, LookInv, socketVars
  <2>2. PressInv'
    BY <1>0, <1>1 DEF IInv, PressInv, PressedIsNotRetryable
  <2>3. FormInv'
    BY <1>0, <1>1 DEF IInv, FormInv, Announced, KnownFormsAreSettled, socketVars
  <2> QED
    BY <2>1, <2>2, <2>3 DEF IInv
<1>2. ASSUME NEW fixable \in Refusals \cup {"retry"},
             result' = [result EXCEPT !.err = Dispatch(fixable)],
             pc' = "close", form' # "none" \/ form' = form
      PROVE  IInv'
  <2>1. Dispatch(fixable) \in Errs /\ (job.flow = "press" => Dispatch(fixable) # "retry")
    BY DEF Dispatch, Errs, Refusals
  <2> DEFINE s == [result EXCEPT !.err = Dispatch(fixable)]
  <2>2. s \in Reports /\ s.err = Dispatch(fixable) /\ s.outcome = result.outcome
        /\ s.closed = result.closed
    BY <1>0, <2>1, SetErr
  <2>3. result' = s
    BY <1>2
  <2> HIDE DEF s
  <2> QED
    BY <1>0, <1>1, <1>2, <2>1, <2>2, <2>3
<1>3. ASSUME NEW next \in {"submitted", "next"}, form' = next, Accepted(result, next)
      PROVE  IInv'
  <2> DEFINE taken == [result EXCEPT !.submitted = TRUE]
             over == [taken EXCEPT !.closed = (job.flow = "press")]
  <2>1. taken \in Reports /\ taken.err = result.err /\ taken.outcome = result.outcome
        /\ taken.closed = result.closed /\ taken.submitted = TRUE
    BY <1>0, SetSubmitted
  <2>2. CASE job.flow = "press" /\ next = "next"
    <3>1. pc' = "close" /\ result' = taken
      BY <1>3, <2>2 DEF Accepted
    <3> HIDE DEF taken
    <3> QED
      BY <1>0, <1>1, <1>3, <2>1, <3>1
  <2>3. CASE ~(job.flow = "press" /\ next = "next")
    <3>1. pc' = "done" /\ result' = over
      BY <1>3, <2>3 DEF Accepted, Done
    <3>2. (job.flow = "press") \in BOOLEAN /\ job.flow \in {"press", "workflow"}
      BY DEF IInv, Shapes
    <3> HIDE DEF taken
    <3>3. over \in Reports /\ over.err = taken.err /\ over.outcome = taken.outcome
          /\ over.submitted = taken.submitted
      BY <2>1, <3>2, SetClosed
    <3> HIDE DEF over
    <3> QED
      BY <1>0, <1>1, <1>3, <2>1, <2>3, <3>1, <3>2, <3>3
  <2> QED
    BY <2>2, <2>3
<1>4. CASE \E next \in {"submitted", "next"} :
             form' = next /\ \/ Accepted(result, next)
                             \/ /\ pc' = "close"
                                /\ result' = [result EXCEPT !.err = Dispatch("retry")]
  BY <1>2, <1>3, <1>4
<1>5. CASE /\ \E fixable \in Refusals \cup {"retry"} :
                result' = [result EXCEPT !.err = Dispatch(fixable)]
           /\ pc' = "close" /\ UNCHANGED <<form, submits>>
  BY <1>2, <1>5
<1> QED
  BY <1>4, <1>5 DEF SubmitViewState

(* A close that went through closed whatever was open.                      *)
LEMMA ClosePreserves ==
  ASSUME IInv, CloseView
  PROVE  IInv'
<1> PICK ok \in BOOLEAN :
      /\ form' = ViewClosed(ok) /\ closeLost' = ~ok
      /\ Done([result EXCEPT !.closed = ok])
  BY DEF CloseView
<1>0. /\ pc = "close" /\ pc' = "done" /\ result \in Reports
      /\ UNCHANGED <<job, watch, looks, view, socketVars, handled, message, submits, misled>>
  BY DEF CloseView, Done, IInv, Shapes
<1> DEFINE s == [result EXCEPT !.closed = ok]
<1>1. s \in Reports /\ s.err = result.err /\ s.outcome = result.outcome /\ s.closed = ok
  BY <1>0, SetClosed
<1>2. result' = s
  BY DEF Done
<1> HIDE DEF s
<1>3. (ok => form' \notin {"open", "next"}) /\ (form # "none" => form' # "none")
  BY DEF ViewClosed
<1>4. Shapes' /\ LookInv'
  BY <1>0, <1>1, <1>2 DEF IInv, Shapes, LookInv, socketVars
<1>5. PressInv'
  BY <1>0, <1>1, <1>2 DEF IInv, PressInv, PressedIsNotRetryable
<1>6. FormInv'
  BY <1>0, <1>1, <1>2, <1>3 DEF IInv, FormInv, Announced, KnownFormsAreSettled, socketVars
<1> QED
  BY <1>4, <1>5, <1>6 DEF IInv

(* Frames change hands, and none is made up: whatever says that a view was  *)
(* opened said so before.                                                   *)
LEMMA FramesPreserve ==
  ASSUME IInv, wire' \in Seq(Frames), frames' \in Seq(Frames),
         Announced' => Announced \/ form # "none",
         job.flow = "workflow" => \A i \in DOMAIN frames' : frames'[i] = "view",
         UNCHANGED <<commandVars, worldVars>>
  PROVE  IInv'
<1> USE DEF IInv, commandVars, worldVars
<1>1. Shapes' /\ LookInv' /\ PressInv'
  BY DEF Shapes, LookInv, PressInv, PressedIsNotRetryable
<1>2. FormInv'
  BY DEF FormInv, KnownFormsAreSettled
<1> QED
  BY <1>1, <1>2

(* What the listener holds is a frame of a press.                           *)
HeldInv == listener = "sending" => job.flow = "press" /\ held \in Frames

LEMMA ListenerPreserves ==
  ASSUME IInv, HeldInv, Listener
  PROVE  IInv' /\ HeldInv'
<1>0. /\ UNCHANGED <<commandVars, worldVars>> /\ wire \in Seq(Frames) /\ frames \in Seq(Frames)
      /\ job.flow \in {"press", "workflow"}
  BY DEF Listener, ListenerReads, ListenerSends, ListenerEnds, IInv, Shapes
<1>a. job.flow = "workflow" => \A i \in DOMAIN frames : frames[i] = "view"
  BY DEF IInv, FormInv
<1>1. CASE ListenerReads
  <2>1. /\ wire' = Tail(wire) /\ wire' \in Seq(Frames) /\ Head(wire) \in Frames
        /\ 1 \in DOMAIN wire /\ Head(wire) = wire[1]
        /\ \A i \in DOMAIN wire' : \E j \in DOMAIN wire : wire'[i] = wire[j]
    BY <1>0, <1>1 DEF ListenerReads
  <2>2. CASE UNCHANGED <<frames, listener, held>>
    BY <1>0, <1>a, <2>1, <2>2, FramesPreserve DEF Announced, HeldInv, commandVars
  <2>3. CASE job.flow = "workflow" /\ Head(wire) = "view" /\ frames' = << Head(wire) >>
               /\ listener' = "ended" /\ UNCHANGED held
    <3>1. frames' \in Seq(Frames) /\ \A i \in DOMAIN frames' : frames'[i] = "view"
      BY <2>1, <2>3
    <3>2. Announced
      BY <2>1, <2>3 DEF Announced
    <3> QED
      BY <1>0, <2>1, <2>3, <3>1, <3>2, FramesPreserve DEF HeldInv
  <2>4. CASE job.flow # "workflow" /\ listener' = "sending" /\ held' = Head(wire)
               /\ UNCHANGED frames
    BY <1>0, <1>a, <2>1, <2>4, FramesPreserve DEF Announced, HeldInv, commandVars
  <2> QED
    BY <1>1, <2>2, <2>3, <2>4 DEF ListenerReads
<1>2. CASE ListenerSends
  <2>1. wire' = wire /\ held' = NoFrame /\ listener' # "sending" /\ held \in Frames
        /\ job.flow = "press"
    BY <1>2 DEF ListenerSends, HeldInv, NoFrame
  <2>2. CASE UNCHANGED frames
    BY <1>0, <1>a, <2>1, <2>2, FramesPreserve DEF Announced, HeldInv, NoFrame, commandVars
  <2>3. CASE frames' = Append(frames, held)
    <3>1. /\ frames' \in Seq(Frames)
          /\ \A i \in DOMAIN frames' : frames'[i] = held \/ \E j \in DOMAIN frames : frames'[i] = frames[j]
      BY <1>0, <2>1, <2>3
    <3> QED
      BY <1>0, <2>1, <3>1, FramesPreserve DEF Announced, HeldInv, NoFrame, commandVars
  <2> QED
    BY <1>2, <2>2, <2>3 DEF ListenerSends
<1>3. CASE ListenerEnds
  BY <1>0, <1>a, <1>3, FramesPreserve DEF ListenerEnds, Announced, HeldInv, commandVars
<1> QED
  BY <1>1, <1>2, <1>3 DEF Listener

(* The network and the app.                                                 *)
LEMMA WorldPreserves ==
  ASSUME IInv,
         ServerHello \/ OtherFrame \/ SocketDrops \/ AppHears \/ AppChangesMessage \/ AppOpensView
  PROVE  IInv'
<1>0. wire \in Seq(Frames) /\ frames \in Seq(Frames) /\ handled \in Nat
  BY DEF IInv, Shapes
<1>a. job.flow = "workflow" => \A i \in DOMAIN frames : frames[i] = "view"
  BY DEF IInv, FormInv
<1>p. ASSUME NEW f \in Frames, Push(f)
      PROVE  /\ wire' \in Seq(Frames)
             /\ \A i \in DOMAIN wire' : wire'[i] = f \/ \E j \in DOMAIN wire : wire'[i] = wire[j]
  BY <1>0, <1>p DEF Push
<1>f. \A f \in {"hello", "other", "edit", "view"} : f \in Frames
  BY DEF Frames
<1>1. CASE ServerHello \/ OtherFrame
  <2>1. \E f \in {"hello", "other"} : Push(f)
    BY <1>1 DEF ServerHello, OtherFrame
  <2>2. Announced' => Announced
    BY <1>1, <1>p, <1>f, <2>1 DEF ServerHello, OtherFrame, Announced, commandVars
  <2> QED
    BY <1>0, <1>1, <1>a, <1>p, <1>f, <2>1, <2>2, FramesPreserve DEF ServerHello, OtherFrame
<1>2. CASE SocketDrops
  <2>1. << >> \in Seq(Frames)
    OBVIOUS
  <2> QED
    BY <1>0, <1>2, <1>a, <2>1, FramesPreserve DEF SocketDrops, Announced, commandVars
<1>3. CASE AppHears
  <2>1. Shapes' /\ LookInv' /\ PressInv'
    BY <1>0, <1>3 DEF AppHears, IInv, Shapes, LookInv, PressInv, PressedIsNotRetryable,
                      commandVars, socketVars
  <2>2. FormInv'
    BY <1>3 DEF AppHears, IInv, FormInv, Announced, KnownFormsAreSettled, commandVars, socketVars
  <2> QED
    BY <2>1, <2>2 DEF IInv
<1>4. CASE AppChangesMessage
  <2>1. wire' \in Seq(Frames) /\ (Announced' => Announced)
    BY <1>0, <1>4, <1>p, <1>f DEF AppChangesMessage, Announced, commandVars
  <2>2. Shapes' /\ PressInv'
    BY <1>4, <2>1 DEF AppChangesMessage, IInv, Shapes, PressInv, PressedIsNotRetryable, commandVars
  <2>3. LookInv'
    BY <1>4 DEF AppChangesMessage, IInv, LookInv, commandVars
  <2>4. FormInv'
    BY <1>4, <2>1 DEF AppChangesMessage, IInv, FormInv, KnownFormsAreSettled, commandVars
  <2> QED
    BY <2>2, <2>3, <2>4 DEF IInv
<1>5. CASE AppOpensView
  <2>1. wire' \in Seq(Frames) /\ ~view
    BY <1>0, <1>5, <1>p, <1>f DEF AppOpensView, IInv, FormInv, Announced
  <2>2. Shapes' /\ PressInv' /\ LookInv'
    BY <1>5, <2>1 DEF AppOpensView, IInv, Shapes, PressInv, LookInv, PressedIsNotRetryable,
                      commandVars
  <2>3. FormInv'
    BY <1>5, <2>1 DEF AppOpensView, IInv, FormInv, KnownFormsAreSettled, commandVars
  <2> QED
    BY <2>2, <2>3 DEF IInv
<1> QED
  BY <1>1, <1>2, <1>3, <1>4, <1>5

LEMMA InitIInv == Init => IInv /\ HeldInv
<1> SUFFICES ASSUME Init PROVE IInv /\ HeldInv
  OBVIOUS
<1> USE DEF Init
<1>1. NoResult \in Reports /\ Unwatched \in Watches /\ << >> \in Seq(Frames)
  BY DEF NoResult, Unwatched, Reports, Watches, Errs, Refusals, Outcomes, NoErr
<1>2. job.flow \in {"press", "workflow"}
  BY AnswerAssumption
<1>3. NoResult.err = "none" /\ NoResult.outcome = "none" /\ NoResult.closed = FALSE
      /\ Unwatched.view = FALSE /\ Unwatched.deleted = FALSE /\ Unwatched.misses = 0
  BY DEF NoResult, Unwatched, NoErr
<1>4. Shapes
  BY <1>1, <1>2 DEF Shapes
<1>5. PressInv /\ LookInv
  BY <1>3 DEF PressInv, LookInv, PressedIsNotRetryable
<1>6. FormInv /\ HeldInv
  BY <1>3 DEF FormInv, Announced, KnownFormsAreSettled, HeldInv, NoFrame
<1> QED
  BY <1>4, <1>5, <1>6 DEF IInv

LEMMA NextIInv == IInv /\ HeldInv /\ [Next]_vars => IInv' /\ HeldInv'
<1> SUFFICES ASSUME IInv, HeldInv, [Next]_vars PROVE IInv' /\ HeldInv'
  OBVIOUS
<1>1. CASE Command
  <2>1. IInv'
    BY <1>1, RequestPreserves, ConnectPreserves, AwaitPreserves, WatchPreserves,
       FinishPreserves, FillPreserves, SubmitPreserves, ClosePreserves DEF Command
  <2>2. UNCHANGED <<job, held>> /\ (listener' = listener \/ listener' = "reading")
    BY <1>1
       DEF Command, RequireBrowserAuth, NoAppToPress, ConnectRTM, AwaitHello, Send, SendAnswered,
           TakeFrame, FramesClosed, Poll, Finish, AwaitOpenedView, FetchOpenedView, FillForm,
           SubmitViewState, CloseView, socketVars
  <2> QED
    BY <2>1, <2>2 DEF HeldInv
<1>2. CASE Listener
  BY <1>2, ListenerPreserves
<1>3. CASE ServerHello \/ OtherFrame \/ SocketDrops \/ AppHears \/ AppChangesMessage \/ AppOpensView
  <2>1. IInv'
    BY <1>3, WorldPreserves
  <2>2. UNCHANGED <<job, held, listener>>
    BY <1>3 DEF ServerHello, OtherFrame, SocketDrops, AppHears, AppChangesMessage, AppOpensView,
                commandVars, socketVars
  <2> QED
    BY <2>1, <2>2 DEF HeldInv
<1>4. CASE UNCHANGED vars
  BY <1>4 DEF vars, commandVars, socketVars, worldVars, IInv, HeldInv, Shapes, PressInv, LookInv,
              FormInv, Announced, PressedIsNotRetryable, KnownFormsAreSettled
<1> QED
  BY <1>1, <1>2, <1>3, <1>4 DEF Next, Over

(* A press that the app got is never reported as something to retry: only   *)
(* what failed before the request was sent is (dispatchBlockAction).        *)
THEOREM PressIsSentOnce == Spec => []PressedIsNotRetryable
<1>1. IInv => PressedIsNotRetryable
  BY DEF IInv, PressInv
<1> QED
  BY InitIInv, NextIInv, <1>1, PTL DEF Spec

(* Whatever is lost on the way, a form the command knows of is submitted or *)
(* closed when it ends, or the close failed, and a press says which         *)
(* (SettleOpenedView, closeView).                                           *)
THEOREM FormsAreSettled == Spec => []KnownFormsAreSettled
<1>1. IInv => KnownFormsAreSettled
  BY DEF IInv, FormInv
<1> QED
  BY InitIInv, NextIInv, <1>1, PTL DEF Spec

(* A deletion that is reported happened, unless two looks in a row missed   *)
(* the message (pressWatch.recheck).                                        *)
THEOREM DeletionsAreConfirmed == Spec => []DeletionIsConfirmed
<1>1. IInv => DeletionIsConfirmed
  BY DEF IInv, LookInv, DeletionIsConfirmed
<1> QED
  BY InitIInv, NextIInv, <1>1, PTL DEF Spec
=============================================================================
