------------------------------- MODULE Compose -------------------------------
(***************************************************************************)
(* What the arguments and flags of `message send`, `message draft create`, *)
(* `draft edit` and `draft send` become: one call that writes, or a        *)
(* refusal.  A conversation, a message and a file are what the options ask *)
(* for, so that a call is told by what of that it carries.                 *)
(***************************************************************************)

None == "none"

(* The target is a channel, a user or a permalink; --blocks and --attach,   *)
(* --thread-ts, --reply-broadcast, --schedule; --forward of a message of    *)
(* this workspace ("here") or another; and the credentials.                 *)
Options ==
  [target : {"channel", "user", "url"}, text : BOOLEAN, blocks : BOOLEAN, attach : BOOLEAN,
   thread : BOOLEAN, broadcast : BOOLEAN, at : BOOLEAN, forward : {None, "here", "elsewhere"},
   browser : BOOLEAN]

Refused == [method |-> "refused"]

(* outboundTextAndBlocks, loadBlocksFromPath: the blocks of --blocks are    *)
(* the body, and the text is their fallback.                                *)
Body(o) == IF o.blocks THEN {"blocks"} ELSE IF o.text THEN {"text"} ELSE {}

(* validateSendFlags.                                                       *)
ValidateSendFlags(o) ==
  /\ o.forward # None => ~o.blocks /\ ~o.attach
  /\ ~(o.at /\ o.attach)
  /\ o.target = "channel" => ~o.broadcast \/ o.thread
  /\ o.target = "user" => ~o.broadcast

(* buildSendRequest refuses what has no content.                            *)
BuildSendRequest(o) ==
  IF ~(o.text \/ o.attach \/ o.blocks) \/ ~ValidateSendFlags(o) THEN Refused
  ELSE [method |-> "request", body |-> Body(o), thread |-> IF o.thread THEN "flag" ELSE None,
        broadcast |-> o.broadcast, files |-> o.attach, at |-> o.at]

(* threadRootTS: a permalink is answered in its thread, whatever the flag.  *)
InThread(o, request) ==
  IF o.target = "url" /\ request # Refused THEN [request EXCEPT !.thread = "root"] ELSE request

-----------------------------------------------------------------------------
(* The calls: what of a message each carries.                               *)
Call(method, m) ==
  [method |-> method, body |-> m.body, thread |-> m.thread, broadcast |-> FALSE,
   files |-> FALSE, at |-> FALSE, card |-> FALSE, takesDraft |-> FALSE]

(* OutgoingMessage.params: broadcast only in a thread, never file ids.      *)
Params(method, m) == [Call(method, m) EXCEPT !.broadcast = m.broadcast /\ m.thread # None]

PostMessage(m) == Params("chat.postMessage", m)

(* draftContent, draftDestination: the thread is in the destination.        *)
DraftContent(method, m, at) == [Call(method, m) EXCEPT !.files = m.files, !.at = at]
SaveDraft(m, at) == DraftContent("drafts.create", m, at)

UpdateDraft(m, at) == DraftContent("drafts.update", m, at)

(* Browser credentials schedule by a draft.                                 *)
ScheduleMessage(m, browser) ==
  IF browser THEN SaveDraft(m, TRUE)
  ELSE [Params("chat.scheduleMessage", m) EXCEPT !.at = TRUE]

(* UploadLocalFiles: one completeUploadExternal posts them all.             *)
UploadLocalFiles(m) == [Call("files.completeUploadExternal", m) EXCEPT !.files = TRUE]

ShareDraft(m) == [Call("files.share", m) EXCEPT !.files = TRUE, !.takesDraft = TRUE]

(* ForwardMessage: a card, or the permalink in the text.                    *)
ForwardMessage(m, browser) ==
  IF browser THEN [Call("chat.shareMessage", m) EXCEPT !.card = TRUE]
  ELSE PostMessage([m EXCEPT !.body = @ \cup {"link"}])

-----------------------------------------------------------------------------
(* runForward: a send mode of its own, into the conversation.               *)
RunForward(o) ==
  IF o.blocks \/ o.attach \/ o.at \/ o.thread \/ o.broadcast \/ o.forward = "elsewhere" THEN Refused
  ELSE ForwardMessage([body |-> Body(o), thread |-> None, broadcast |-> FALSE, files |-> FALSE],
                      o.browser)

(* runSend: scheduled, with attachments, or plain.                          *)
RunSend(m, browser) ==
  IF m.at THEN ScheduleMessage(m, browser)
  ELSE IF m.files THEN UploadLocalFiles(m) ELSE PostMessage(m)

Send(o) ==
  IF o.forward # None THEN RunForward(o)
  ELSE LET m == InThread(o, BuildSendRequest(o))
       IN IF m = Refused THEN Refused ELSE RunSend(m, o.browser)

(* buildDraftContent: a forward is folded into the text, as a link, first.  *)
BuildDraftContent(o) ==
  IF o.forward = "elsewhere" THEN Refused
  ELSE LET m == BuildSendRequest([o EXCEPT !.text = @ \/ o.forward = "here"])
       IN IF m = Refused \/ o.forward = None THEN m
          ELSE [m EXCEPT !.body = Body(o) \cup {"link"}]

(* draft create: browser credentials only.                                  *)
CreateDraft(o) ==
  LET m == InThread(o, BuildDraftContent(o))
  IN IF ~o.browser \/ m = Refused THEN Refused ELSE SaveDraft(m, FALSE)

(* draft edit: the content is replaced, the thread kept unless told.        *)
EditDraft(o, draft) ==
  LET m == BuildDraftContent([o EXCEPT !.target = "channel"])
  IN IF ~o.browser \/ m = Refused THEN Refused
     ELSE UpdateDraft([m EXCEPT !.thread = IF o.thread THEN @ ELSE draft.thread], FALSE)

(* runDraftSend of a draft as drafts.list returns it.                       *)
SendDraft(draft, at) ==
  IF at THEN UpdateDraft(draft, TRUE)
  ELSE IF draft.files THEN ShareDraft(draft)
  ELSE [PostMessage(draft) EXCEPT !.takesDraft = TRUE]

-----------------------------------------------------------------------------
(* What the options ask for.                                                *)
AskedThread(o) == IF o.target = "url" THEN "root" ELSE IF o.thread THEN "flag" ELSE None

KeepsContent(o, call) ==
  /\ Body(o) \subseteq call.body /\ call.files = o.attach /\ call.at = o.at
  /\ o.forward # None => call.card \/ "link" \in call.body

KeepsPlace(o, call) == call.thread = AskedThread(o) /\ (o.broadcast => call.broadcast)

(* Of the messages sent, those that lose their place: a forward that        *)
(* answers a permalink, a broadcast with files, and a broadcast that        *)
(* browser credentials schedule.                                            *)
LosesPlace(o) ==
  \/ o.forward # None /\ o.target = "url"
  \/ o.broadcast /\ (o.attach \/ (o.at /\ o.browser))

(* A send that is not refused carries everything its options ask for: the   *)
(* text or blocks, all of the files, the time, the forwarded message, the   *)
(* thread and the broadcast (validateSendFlags, runSend), except where      *)
(* LosesPlace says.                                                         *)
SendsWhatIsAsked(o) ==
  Send(o) = Refused
    \/ (KeepsContent(o, Send(o)) /\ (LosesPlace(o) \/ KeepsPlace(o, Send(o))))

(* The same with no exception.                                              *)
EveryOptionIsKept(o) == Send(o) = Refused \/ (KeepsContent(o, Send(o)) /\ KeepsPlace(o, Send(o)))

SameMessage(a, b) ==
  a.body = b.body /\ a.thread = b.thread /\ a.files = b.files /\ a.at = b.at

(* A draft that is created, and sent or scheduled later, is the message     *)
(* that a send with the same options would have posted, whichever of the    *)
(* three calls sends it (runDraftSend).                                     *)
DraftsAreWhatSendPosts(o) ==
  o.browser /\ o.forward = None /\ ~o.broadcast /\ Send(o) # Refused
    => LET draft == CreateDraft([o EXCEPT !.at = FALSE])
       IN draft # Refused /\ SameMessage(SendDraft(draft, o.at), Send(o))

(* An edited draft stays a reply in its thread unless it is given another,  *)
(* and loses neither its files nor its thread when it is scheduled then.    *)
EditsStayInThread(o, draft) ==
  EditDraft(o, draft) # Refused
    => LET edited == EditDraft(o, draft)
       IN /\ edited.thread = IF o.thread THEN "flag" ELSE draft.thread
          /\ SendDraft(edited, TRUE).files = o.attach
          /\ SendDraft(edited, TRUE).thread = SendDraft(edited, FALSE).thread
=============================================================================
