---------------------------- MODULE SocketAnswer ----------------------------
(***************************************************************************)
(* Acting on an app and hearing its answer over a short-lived RTM socket:  *)
(* message action (PressMessageAction, observePress, SettleOpenedView) and *)
(* workflow run with fields (SubmitWorkflowForm).  The command, its        *)
(* listener goroutine, the app and the network are the actors.  One        *)
(* message, and at most one view, which the app opens for this command.    *)
(***************************************************************************)
EXTENDS Naturals, Sequences, FiniteSets

CONSTANTS
  Jobs,      \* the commands: [flow : "press" "workflow", auth, wait, fields : BOOLEAN]
  FrameCap,  \* capacity of pressListener.frames, 16
  MaxLooks   \* bound: re-reads of the message while watching

ASSUME AnswerAssumption ==
  Jobs \subseteq [flow : {"press", "workflow"}, auth : {"browser", "bot"},
                  wait : BOOLEAN, fields : BOOLEAN]

VARIABLES
  job,        \* the command
  pc,         \* where it is
  socket,     \* "none", "open", "lost"
  wire,       \* frames on their way, first the next to be read
  listener,   \* "off", "reading", "sending", "ended"
  held,       \* the frame it is sending
  hello,      \* listener.hello is closed
  pressed,    \* listener.pressed
  frames,     \* listener.frames, or viewCh
  watch,      \* pressWatch
  looks,      \* re-reads so far
  view,       \* the form, as the command knows it: an opened view, or none
  result,     \* [err, outcome, view, closed, warnSocket, warnRead]
  handled,    \* how often the app got the press, or Slack tripped the workflow
  message,    \* the message: "same", "changed", "gone"
  form,       \* the view: "none", "open", "next", "submitted", "closed"
  submits,    \* how often the form was submitted
  closeLost,  \* history: views.close failed
  misled      \* history: looks in a row that missed a message that is there

commandVars == <<job, pc, watch, looks, view, result>>
socketVars == <<socket, wire, listener, held, hello, pressed, frames>>
worldVars == <<handled, message, form, submits, closeLost, misled>>
vars == <<commandVars, socketVars, worldVars>>

NoErr == "none"
NoFrame == "none"
NoResult == [err |-> NoErr, outcome |-> "none", closed |-> FALSE, submitted |-> FALSE,
             warnSocket |-> FALSE, warnRead |-> FALSE]
Unwatched == [view |-> FALSE, updated |-> FALSE, deleted |-> FALSE, misses |-> 0,
              readOK |-> FALSE, socketLost |-> FALSE]

Init ==
  /\ job \in Jobs /\ pc = "start" /\ watch = Unwatched /\ looks = 0 /\ view = FALSE
  /\ result = NoResult
  /\ socket = "none" /\ wire = << >> /\ listener = "off" /\ held = NoFrame
  /\ hello = FALSE /\ pressed = FALSE /\ frames = << >>
  /\ handled = 0 /\ message = "same" /\ form = "none" /\ submits = 0 /\ closeLost = FALSE
  /\ misled = 0

Done(res) == pc' = "done" /\ result' = res
Fail(fixable) == Done([result EXCEPT !.err = fixable])

(* What a failed request says it is fixable by: lost answers, rate limits   *)
(* and outages by "retry".                                                  *)
Refusals == {"agent", "human"}

-----------------------------------------------------------------------------
(* Before anything is sent.                                                 *)
RequireBrowserAuth ==
  /\ pc = "start"
  /\ IF job.auth # "browser" THEN Fail("human")
     ELSE pc' = (IF job.flow = "press" /\ ~job.wait THEN "send" ELSE "connect")
          /\ UNCHANGED result
  /\ UNCHANGED <<job, watch, looks, view, socketVars, worldVars>>

(* blockActionParams: no app posted the message.                            *)
NoAppToPress ==
  /\ pc = "start" /\ job.flow = "press" /\ Fail("agent")
  /\ UNCHANGED <<job, watch, looks, view, socketVars, worldVars>>

(* rtm.connect and the dial.  The press listens before it presses; the      *)
(* workflow's listener is started just before the trigger is tripped.       *)
ConnectRTM ==
  /\ pc = "connect"
  /\ \/ /\ socket' = "open" /\ listener' = "reading"
        /\ pc' = (IF job.flow = "press" THEN "hello" ELSE "send") /\ UNCHANGED result
     \/ \E fixable \in Refusals \cup {"retry"} : Fail(fixable) /\ UNCHANGED <<socket, listener>>
  /\ UNCHANGED <<job, watch, looks, view, wire, held, hello, pressed, frames, worldVars>>

(* hello, or helloTimeout, or the caller's end.                             *)
AwaitHello ==
  /\ pc = "hello"
  /\ \/ pc' = "send" /\ UNCHANGED result
     \/ Fail("cancelled")
  /\ UNCHANGED <<job, watch, looks, view, socketVars, worldVars>>

Send ==
  /\ pc = "send" /\ pc' = "sent" /\ pressed' = TRUE
  /\ UNCHANGED <<job, watch, looks, view, result, socket, wire, listener, held, hello,
                 frames, worldVars>>

-----------------------------------------------------------------------------
(* Seeded fault: a lost answer to the press is passed on as it is.          *)
DispatchAsIs(fixable) == fixable

(* dispatchBlockAction: a press that may have arrived is not to be retried. *)
Dispatch(fixable) ==
  IF job.flow = "press" /\ fixable = "retry" THEN "agent" ELSE fixable

(* The answer to blocks.actions or workflows.triggers.trip.                 *)
SendAnswered ==
  /\ pc = "sent"
  /\ \/ handled > 0 /\ IF job.flow = "workflow" THEN pc' = "await" /\ UNCHANGED result
                       ELSE IF job.wait THEN pc' = "watch" /\ UNCHANGED result
                       ELSE Done([result EXCEPT !.outcome = "unobserved"])
     \/ \E fixable \in Refusals : handled = 0 /\ Fail(fixable)
     \/ Fail(Dispatch("retry"))
  /\ UNCHANGED <<job, watch, looks, view, socketVars, worldVars>>

(* The listener.  It reads one frame at a time; a press keeps those that    *)
(* are about it, read once the press was sent; a workflow takes its view.   *)
PressRelated(frame) == frame \in {"view", "edit"}

ListenerReads ==
  /\ listener = "reading" /\ wire # << >>
  /\ LET frame == Head(wire)
     IN /\ wire' = Tail(wire)
        /\ hello' = (hello \/ frame = "hello")
        /\ IF job.flow = "workflow"
           THEN IF frame = "view"
                THEN frames' = << frame >> /\ listener' = "ended" /\ UNCHANGED held
                ELSE UNCHANGED <<frames, listener, held>>
           ELSE IF pressed /\ PressRelated(frame)
                THEN listener' = "sending" /\ held' = frame /\ UNCHANGED frames
                ELSE UNCHANGED <<frames, listener, held>>
  /\ UNCHANGED <<commandVars, socket, pressed, worldVars>>

(* Seeded fault: the listener waits for room whatever happens.              *)
NeverCancelled == FALSE

(* ctx.Done: the command returned and stopped the listening.                *)
Cancelled == pc = "done"

ListenerSends ==
  /\ listener = "sending"
  /\ IF Len(frames) < FrameCap
     THEN frames' = Append(frames, held) /\ listener' = "reading"
     ELSE Cancelled /\ listener' = "ended" /\ UNCHANGED frames
  /\ held' = NoFrame
  /\ UNCHANGED <<commandVars, socket, wire, hello, pressed, worldVars>>

(* The socket is gone, or closed by the command that ended; a workflow's    *)
(* listener gives up after 15s, counted from before the trigger is tripped. *)
ListenerEnds ==
  /\ listener = "reading" /\ listener' = "ended"
  /\ socket = "lost" \/ Cancelled \/ (job.flow = "workflow" /\ pc \in {"sent", "await"})
  /\ UNCHANGED <<commandVars, socket, wire, held, hello, pressed, frames, worldVars>>

-----------------------------------------------------------------------------
(* observePress.  A look at the message is findRawMessage: the message, not *)
(* there (also when its last fallback failed), or an error.                 *)
(* Seeded fault: one look that does not find the message is a deletion.     *)
LookedOnce(w, seen) ==
  IF w.deleted \/ w.updated \/ seen = "error" THEN w
  ELSE [w EXCEPT !.readOK = TRUE, !.deleted = seen = "gone", !.updated = seen = "changed"]

Looked(w, seen) ==
  IF w.deleted \/ w.updated \/ seen = "error" THEN w
  ELSE IF seen = "gone"
  THEN [w EXCEPT !.readOK = TRUE, !.misses = @ + 1, !.deleted = w.misses + 1 >= 2]
  ELSE [w EXCEPT !.readOK = TRUE, !.misses = 0, !.updated = seen = "changed"]

Look(w) ==
  \E seen \in {"error", "gone", message} :
    /\ w = Looked(watch, seen)
    /\ misled' = IF watch.deleted \/ watch.updated \/ seen = "error" THEN misled
                 ELSE IF seen = "gone" /\ message # "gone" THEN misled + 1 ELSE 0

TakeFrame ==
  /\ pc = "watch" /\ frames # << >> /\ frames' = Tail(frames)
  /\ IF Head(frames) = "view"
     THEN watch' = [watch EXCEPT !.view = TRUE] /\ UNCHANGED <<looks, misled>>
     ELSE looks < MaxLooks /\ looks' = looks + 1 /\ Look(watch')
  /\ UNCHANGED <<job, pc, view, result, socket, wire, listener, held, hello, pressed, handled,
                 message, form, submits, closeLost>>

FramesClosed ==
  /\ pc = "watch" /\ frames = << >> /\ listener = "ended" /\ ~watch.socketLost
  /\ watch' = [watch EXCEPT !.socketLost = TRUE]
  /\ UNCHANGED <<job, pc, looks, view, result, socketVars, worldVars>>

Poll ==
  /\ pc = "watch" /\ looks < MaxLooks /\ looks' = looks + 1
  /\ Look(watch')
  /\ UNCHANGED <<job, pc, view, result, socketVars, handled, message, form, submits, closeLost>>

(* The wait or the grace period is over, or the caller's context is.  The   *)
(* last look, then the verdict.                                             *)
Outcome(w) ==
  IF w.view THEN "view_opened" ELSE IF w.deleted THEN "message_deleted"
  ELSE IF w.updated THEN "message_updated" ELSE IF ~w.readOK THEN "unknown" ELSE "none"

Finish ==
  /\ pc = "watch" /\ Look(watch')
  /\ LET w == watch'
         res == [result EXCEPT !.outcome = Outcome(w),
                   !.warnSocket = w.socketLost /\ ~w.view, !.warnRead = ~w.readOK]
     IN /\ view' = w.view
        /\ IF w.view THEN pc' = "fetch" /\ result' = res ELSE Done(res)
  /\ UNCHANGED <<job, looks, socketVars, handled, message, form, submits, closeLost>>

(* awaitOpenedView: the view, or the channel the listener closed.  An event *)
(* may lack the view's id.                                                  *)
AwaitOpenedView ==
  /\ pc = "await"
  /\ IF frames # << >>
     THEN /\ frames' = << >>
          /\ \/ view' = TRUE /\ pc' = "fetch" /\ UNCHANGED result
             \/ Fail("retry") /\ UNCHANGED view
     ELSE /\ listener = "ended" /\ Fail("retry") /\ UNCHANGED <<view, frames>>
  /\ UNCHANGED <<job, watch, looks, socket, wire, listener, held, hello, pressed, worldVars>>

-----------------------------------------------------------------------------
(* The form.  views.get is best effort; then it is filled or closed.        *)
FetchOpenedView ==
  /\ pc = "fetch"
  /\ pc' = IF job.flow = "press" /\ ~job.fields THEN "close" ELSE "fill"
  /\ UNCHANGED <<job, watch, looks, view, result, socketVars, worldVars>>

(* buildViewState, buildFormState: nothing is sent when a value does not    *)
(* fit.                                                                     *)
FillForm ==
  /\ pc = "fill"
  /\ \/ pc' = "submit" /\ UNCHANGED result
     \/ \E fixable \in {"agent", "human", "retry"} :
          (fixable = "retry" => job.flow = "workflow")
          /\ pc' = "close" /\ result' = [result EXCEPT !.err = fixable]
  /\ UNCHANGED <<job, watch, looks, view, socketVars, worldVars>>

(* views.submit: taken, rejected with field errors, refused, or its answer  *)
(* is lost.  What was taken may have opened a further step.                 *)
Accepted(res, next) ==
  IF job.flow = "press" /\ next = "next"
  THEN pc' = "close" /\ result' = [res EXCEPT !.submitted = TRUE]
  ELSE Done([res EXCEPT !.submitted = TRUE, !.closed = job.flow = "press"])

SubmitViewState ==
  /\ pc = "submit"
  /\ \/ /\ form = "open" /\ submits' = submits + 1
        /\ \E next \in {"submitted", "next"} :
             form' = next /\ \/ Accepted(result, next)
                             \/ /\ pc' = "close"
                                /\ result' = [result EXCEPT !.err = Dispatch("retry")]
     \/ /\ \E fixable \in Refusals \cup {"retry"} :
             result' = [result EXCEPT !.err = Dispatch(fixable)]
        /\ pc' = "close" /\ UNCHANGED <<form, submits>>
  /\ UNCHANGED <<job, watch, looks, view, socketVars, handled, message, closeLost, misled>>

(* Seeded fault: the form is left to the user's other clients.              *)
LeaveView(ok) == form

(* closeView.  A press reports its error in the summary, a workflow fails.  *)
ViewClosed(ok) == IF ok /\ form \in {"open", "next"} THEN "closed" ELSE form

CloseView ==
  /\ pc = "close"
  /\ \E ok \in BOOLEAN :
       /\ form' = ViewClosed(ok) /\ closeLost' = ~ok
       /\ Done([result EXCEPT !.closed = ok])
  /\ UNCHANGED <<job, watch, looks, view, socketVars, handled, message, submits, misled>>

-----------------------------------------------------------------------------
(* The network and the app.                                                 *)
Push(frame) == wire' = IF socket = "open" THEN Append(wire, frame) ELSE wire

ServerHello ==
  /\ socket = "open" /\ pc = "hello" /\ ~hello /\ wire = << >> /\ Push("hello")
  /\ UNCHANGED <<commandVars, socket, listener, held, hello, pressed, frames, worldVars>>

(* A frame that is not about this command: another message, another app.    *)
OtherFrame ==
  /\ socket = "open" /\ pc \in {"hello", "watch"} /\ wire = << >> /\ Push("other")
  /\ UNCHANGED <<commandVars, socket, listener, held, hello, pressed, frames, worldVars>>

SocketDrops ==
  /\ socket = "open" /\ socket' = "lost" /\ wire' = << >>
  /\ UNCHANGED <<commandVars, listener, held, hello, pressed, frames, worldVars>>

AppHears ==
  /\ pc = "sent" /\ handled = 0 /\ handled' = 1
  /\ UNCHANGED <<commandVars, socketVars, message, form, submits, closeLost, misled>>

(* The app's answers, each at most once, in any order, announced or not.    *)
AppChangesMessage ==
  /\ handled > 0 /\ job.flow = "press" /\ message = "same"
  /\ message' \in {"changed", "gone"}
  /\ Push("edit") \/ UNCHANGED wire
  /\ UNCHANGED <<commandVars, socket, listener, held, hello, pressed, frames, handled, form,
                 submits, closeLost, misled>>

AppOpensView ==
  /\ handled > 0 /\ form = "none" /\ form' = "open" /\ Push("view")
  /\ UNCHANGED <<commandVars, socket, listener, held, hello, pressed, frames, handled, message,
                 submits, closeLost, misled>>

Command ==
  \/ RequireBrowserAuth \/ NoAppToPress \/ ConnectRTM \/ AwaitHello \/ Send \/ SendAnswered
  \/ TakeFrame \/ FramesClosed \/ Poll \/ Finish \/ AwaitOpenedView
  \/ FetchOpenedView \/ FillForm \/ SubmitViewState \/ CloseView

Listener == ListenerReads \/ ListenerSends \/ ListenerEnds

Over == pc = "done" /\ listener \in {"off", "ended"} /\ UNCHANGED vars

Next ==
  \/ Command \/ Listener \/ Over
  \/ ServerHello \/ OtherFrame \/ SocketDrops
  \/ AppHears \/ AppChangesMessage \/ AppOpensView

(* Requests and waits are bounded, and both goroutines are scheduled.       *)
Spec == Init /\ [][Next]_vars /\ WF_vars(Command) /\ WF_vars(Listener)

-----------------------------------------------------------------------------
TypeOK ==
  /\ job \in Jobs /\ looks \in 0 .. MaxLooks /\ view \in BOOLEAN
  /\ pc \in {"start", "connect", "hello", "send", "sent", "watch", "await", "fetch", "fill",
             "submit", "close", "done"}
  /\ socket \in {"none", "open", "lost"} /\ listener \in {"off", "reading", "sending", "ended"}
  /\ Len(frames) <= FrameCap /\ hello \in BOOLEAN /\ pressed \in BOOLEAN
  /\ handled \in 0 .. 1 /\ submits \in 0 .. 1 /\ closeLost \in BOOLEAN
  /\ message \in {"same", "changed", "gone"}
  /\ form \in {"none", "open", "next", "submitted", "closed"}

(* A press that the app got is never reported as something to retry, nor is *)
(* a form it opened submitted when the report says it was not and may be    *)
(* retried (PressMessageAction, submitAppForm).                             *)
PressedIsNotRetryable ==
  pc = "done" /\ job.flow = "press" /\ handled > 0 => result.err # "retry"

(* A form the command knows of is not left open behind the user's back: it  *)
(* was submitted or closed, or the close failed; and a press says which     *)
(* (SettleOpenedView, the deferred closeView of SubmitWorkflowForm).        *)
KnownFormsAreSettled ==
  pc = "done" /\ view
    => /\ form \in {"open", "next"}
            => closeLost \/ (job.flow = "workflow" /\ result.submitted)
       /\ job.flow = "press" /\ result.closed => form \notin {"open", "next"}

(* A deletion that did not happen is reported only after two looks in a row *)
(* were misled (pressWatch.recheck).                                        *)
DeletionIsConfirmed ==
  pc = "done" /\ result.outcome = "message_deleted" => message = "gone" \/ misled >= 2

(* Any error after the trigger tripped closes the opened form, cancelling   *)
(* that run: the comment above abandonedRunHint.                            *)
AbandonedRunsAreClosed ==
  pc = "done" /\ job.flow = "workflow" /\ result.err # NoErr /\ handled > 0
    => form # "open" \/ closeLost

(* The command ends, and its listener with it.                              *)
BothEnd == <>[](pc = "done" /\ listener \in {"off", "ended"})
=============================================================================
