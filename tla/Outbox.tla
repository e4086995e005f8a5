------------------------------- MODULE Outbox -------------------------------
(***************************************************************************)
(* What the commands write to Slack: drafts and scheduled messages         *)
(* (drafts.go, message_draft.go, scheduled.go), messages and their         *)
(* attachments (chat.go, upload.go, message_images.go, message_mutate.go), *)
(* invites (channeladmin.go) and saved items (later.go).  Each command     *)
(* reads what it changes, uploads its files, and writes once, or once per  *)
(* user or mark; an answer may be lost after Slack took the call, and who  *)
(* ran a command that says "retry" runs it again.  The user edits and      *)
(* sends the same drafts in the app meanwhile.                             *)
(***************************************************************************)
EXTENDS Naturals, FiniteSets

CONSTANTS
  Procs,       \* concurrent commands
  Jobs,        \* what they are asked: functions from Procs to a job
  DraftIds, FileIds, Users, Bodies,
  StartDrafts, \* the drafts there are: [DraftIds -> draft]
  StartMessage,\* the message that is edited: [text, files]
  MaxReruns,   \* bound: reruns of a command
  MaxApp       \* bound: what the user does in the app meanwhile

(* A job: op, its target draft (id) and whether it is named by id or by the *)
(* conversation, local files, file ids to remove, a new body or None, and   *)
(* whether the files are images shown inline.                               *)
None == "none"
Ops == {"draft_create", "draft_edit", "draft_send", "draft_schedule", "draft_delete", "schedule",
        "cancel", "send", "send_files", "edit", "invite", "reopen"}
Texts ==
  Bodies \cup {None, StartMessage.text} \cup {StartDrafts[d].body : d \in DraftIds}
    \cup {j[p].body : j \in Jobs, p \in Procs}
Message == [text : Texts, files : SUBSET FileIds]
Draft == [state : {"none", "plain", "scheduled", "sent", "deleted"}, body : Texts,
          thread : BOOLEAN, files : SUBSET FileIds]
Server == [drafts : [DraftIds -> Draft], message : Message,
           channel : SUBSET [body : Texts, files : SUBSET FileIds],
           later : {"completed", "archived", "in_progress"}, members : SUBSET Users]

(* Only a send shows images, an edit changes something, and who runs an     *)
(* invite names each user.                                                  *)
ASSUME OutboxAssumption ==
  /\ IsFiniteSet(Users)
  /\ StartDrafts \in [DraftIds -> Draft] /\ StartMessage \in Message
  /\ \A j \in Jobs, p \in Procs :
       /\ DOMAIN j = Procs
       /\ j[p].op \in Ops /\ j[p].id \in DraftIds /\ j[p].body \in Texts
       /\ j[p].image \in BOOLEAN /\ (j[p].image => j[p].op = "send")
       /\ j[p].op = "edit" => j[p].attach # {} \/ j[p].remove # {} \/ j[p].body # None

VARIABLES
  server,  \* [drafts, message, channel, later, members]
  files,   \* [FileIds -> "none", "pending", "real", "ready"]
  job, pc, \* of each command
  snap,    \* what it read: a draft or the message, or Unread
  waiting, \* local files it has yet to upload
  failed,  \* an upload failed
  up,      \* the file ids of those it uploaded
  todo,    \* users to invite, or marks to undo
  answers, \* for these, what Slack said
  res,     \* "none", "ok", or the fixable_by of its error
  reruns, appDid,
  posts    \* history: how often each command posted each draft

serverVars == <<server, files, appDid>>
procVars == <<job, pc, snap, waiting, failed, up, todo, answers, res, reruns, posts>>
vars == <<serverVars, procVars>>

Unread == [found |-> FALSE]
DraftOps == {"draft_edit", "draft_delete", "draft_send", "draft_schedule"}
Refusals == {"human"} \* an error that no rerun mends
NoDraft == [state |-> "none", body |-> None, thread |-> FALSE, files |-> {}]

Init ==
  /\ server = [drafts |-> StartDrafts, message |-> StartMessage, channel |-> {},
               later |-> "completed", members |-> {}]
  /\ files = [f \in FileIds |->
       IF f \in StartMessage.files \cup UNION {StartDrafts[d].files : d \in DraftIds}
       THEN "ready" ELSE "none"]
  /\ appDid = 0
  /\ job \in Jobs
  /\ pc = [p \in Procs |-> "start"]
  /\ snap = [p \in Procs |-> Unread]
  /\ waiting = [p \in Procs |-> {}] /\ failed = [p \in Procs |-> FALSE]
  /\ up = [p \in Procs |-> {}]
  /\ todo = [p \in Procs |-> {}] /\ answers = [p \in Procs |-> {}]
  /\ res = [p \in Procs |-> None] /\ reruns = [p \in Procs |-> 0]
  /\ posts = [p \in Procs |-> [d \in DraftIds |-> 0]]

Goto(p, place) == pc' = [pc EXCEPT ![p] = place]
Finish(p, r) == Goto(p, "done") /\ res' = [res EXCEPT ![p] = r]

-----------------------------------------------------------------------------
(* listDrafts: active drafts, plain or scheduled ones.                      *)
ListDrafts(scheduled) ==
  {d \in DraftIds : server.drafts[d].state = IF scheduled THEN "scheduled" ELSE "plain"}

(* resolveDraftArg: the draft of this id, or the only one of the target.    *)
DraftNamed(j) ==
  IF j.by = "id" THEN ListDrafts(FALSE) \cap {j.id}
  ELSE IF Cardinality(ListDrafts(FALSE)) = 1 THEN ListDrafts(FALSE) ELSE {}

ChangesFiles(j) == j.attach # {} \/ j.remove # {}

(* Where a command that read what it needs goes on.                         *)
AfterRead(j) == IF j.attach # {} THEN "upload" ELSE "write"

ResolveDraftArg(p) ==
  /\ pc[p] = "start" /\ job[p].op \in DraftOps
  /\ \/ \E d \in DraftNamed(job[p]) :
          /\ snap' = [snap EXCEPT ![p] = [found |-> TRUE, id |-> d, draft |-> server.drafts[d]]]
          /\ Goto(p, AfterRead(job[p])) /\ UNCHANGED res
     \/ /\ DraftNamed(job[p]) = {} /\ Finish(p, "human") /\ UNCHANGED snap
     \/ \E r \in Refusals \cup {"retry"} : Finish(p, r) /\ UNCHANGED snap
  /\ waiting' = [waiting EXCEPT ![p] = job[p].attach]
  /\ UNCHANGED <<serverVars, job, failed, up, todo, answers, reruns, posts>>

(* buildEditParams, editedFileIDs: only a change of the attachments reads   *)
(* the message; a file to remove that it does not have is an error.         *)
ReadEdited(p) ==
  /\ pc[p] = "start" /\ job[p].op = "edit"
  /\ IF ~ChangesFiles(job[p]) THEN Goto(p, "write") /\ UNCHANGED <<snap, res>>
     ELSE \/ /\ snap' = [snap EXCEPT ![p] = [found |-> TRUE, message |-> server.message]]
             /\ IF job[p].remove \subseteq server.message.files
                THEN Goto(p, AfterRead(job[p])) /\ UNCHANGED res ELSE Finish(p, "human")
          \/ \E r \in Refusals \cup {"retry"} : Finish(p, r) /\ UNCHANGED snap
  /\ waiting' = [waiting EXCEPT ![p] = job[p].attach]
  /\ UNCHANGED <<serverVars, job, failed, up, todo, answers, reruns, posts>>

(* The others read nothing: send, schedule, create, cancel, invite, later.  *)
StartWrite(p) ==
  /\ pc[p] = "start" /\ job[p].op \notin DraftOps \cup {"edit"}
  /\ Goto(p, AfterRead(job[p]))
  /\ waiting' = [waiting EXCEPT ![p] = job[p].attach]
  /\ todo' = [todo EXCEPT ![p] =
       IF job[p].op = "invite" THEN Users
       ELSE IF job[p].op = "reopen" THEN {"uncompleted", "unarchived"} ELSE {}]
  /\ UNCHANGED <<serverVars, job, snap, failed, up, answers, res, reruns, posts>>

-----------------------------------------------------------------------------
(* UploadUnsharedFiles: the bytes of each file, in parallel, in any order.  *)
UploadFileBytes(p) ==
  /\ pc[p] = "upload"
  /\ \E local \in waiting[p] :
       /\ waiting' = [waiting EXCEPT ![p] = @ \ {local}]
       /\ \/ /\ \E f \in FileIds : files[f] = "none"
             /\ LET f == CHOOSE g \in FileIds : files[g] = "none"
                IN /\ files' = [files EXCEPT ![f] = "pending"]
                   /\ up' = [up EXCEPT ![p] = @ \cup {f}]
             /\ UNCHANGED failed
          \/ failed' = [failed EXCEPT ![p] = TRUE] /\ UNCHANGED <<files, up>>
  /\ UNCHANGED <<server, appDid, job, pc, snap, todo, answers, res, reruns, posts>>

(* Seeded fault: uploaded is good enough.                                   *)
AfterUploadAtOnce(j) == "write"

(* wg.Wait: every upload is over.  Attachments of a message are completed   *)
(* by the call that posts it.                                               *)
AfterUpload(j) == IF j.op = "send_files" THEN "write" ELSE "complete"

UploadsOver(p) ==
  /\ pc[p] = "upload" /\ waiting[p] = {}
  /\ IF failed[p] THEN \E r \in {"human", "retry"} : Finish(p, r)
     ELSE Goto(p, AfterUpload(job[p])) /\ UNCHANGED res
  /\ UNCHANGED <<serverVars, job, snap, waiting, failed, up, todo, answers, reruns, posts>>

Completed(p) == [f \in FileIds |-> IF f \in up[p] THEN "real" ELSE files[f]]

(* files.completeUploadExternal without a channel, and for an inline image  *)
(* WaitForImages next.                                                      *)
CompleteUpload(p) ==
  /\ pc[p] = "complete"
  /\ \/ files' = Completed(p) /\ UNCHANGED res
        /\ Goto(p, IF job[p].image THEN "images" ELSE "write")
     \/ files' \in {files, Completed(p)} /\ \E r \in Refusals \cup {"retry"} : Finish(p, r)
  /\ UNCHANGED <<server, appDid, job, snap, waiting, failed, up, todo, answers, reruns, posts>>

(* The images are ready, or imageReadyTimeout has passed, a files.info      *)
(* failed, or the caller is gone.                                           *)
WaitForImages(p) ==
  /\ pc[p] = "images"
  /\ \/ /\ \A f \in up[p] : files[f] = "ready"
        /\ Goto(p, "write") /\ UNCHANGED res
     \/ \E r \in Refusals \cup {"retry"} : Finish(p, r)
  /\ UNCHANGED <<serverVars, job, snap, waiting, failed, up, todo, answers, reruns, posts>>

-----------------------------------------------------------------------------
(* Seeded fault: a post does not say which draft it is.                     *)
FulfilledNot(j, read) == {}

(* OutgoingMessage.DraftID, ShareDraft's draft_id: the draft that a post    *)
(* takes with it.                                                           *)
Fulfilled(j, read) == IF j.op = "draft_send" THEN {read.id} ELSE {}

(* Seeded fault: the new set is what was attached.                          *)
UploadedFileIDs(j, read, uploaded) == uploaded

(* editedFileIDs: file_ids replaces the set.                                *)
EditedFileIDs(j, read, uploaded) == (read.message.files \ j.remove) \cup uploaded

(* buildEditParams: attachments alone re-send the body that was read, text  *)
(* alone leaves the attachments out.                                        *)
EditedMessage(m, j, read, uploaded) ==
  [text |-> IF j.body # None THEN j.body ELSE read.message.text,
   files |-> IF ChangesFiles(j) THEN EditedFileIDs(j, read, uploaded) ELSE m.files]

(* draftContent: what a new or replaced draft holds.  An edit keeps the     *)
(* thread it read; its attachments are those of the edit.                   *)
DraftContent(state, body, thread, attached) ==
  [state |-> state, body |-> body, thread |-> thread, files |-> attached]

FreeDraft(s) == CHOOSE d \in DraftIds : s.drafts[d].state = "none"

SetDraft(s, d, value) == [s EXCEPT !.drafts[d] = value]

(* runDraftSend: a draft goes out, or becomes a scheduled message in place. *)
Posted(s, j, read, body, attached) ==
  [s EXCEPT !.channel = @ \cup {[body |-> body, files |-> attached]},
            !.drafts = [d \in DraftIds |-> IF d \in Fulfilled(j, read)
                          THEN [s.drafts[d] EXCEPT !.state = "sent"] ELSE s.drafts[d]]]

Promoted(s, read) ==
  SetDraft(s, read.id, DraftContent("scheduled", read.draft.body, read.draft.thread,
                                    read.draft.files))

(* draft delete, and with browser credentials scheduled cancel.             *)
Discarded(s, d) == [s EXCEPT !.drafts[d].state = "deleted"]

CancelScheduledMessage(s, d) == Discarded(s, d)

(* The server after the one write of a command.                             *)
Written(s, j, read, uploaded) ==
  CASE j.op = "draft_create" ->
         SetDraft(s, FreeDraft(s), DraftContent("plain", j.body, FALSE, uploaded))
    [] j.op = "schedule" ->
         SetDraft(s, FreeDraft(s), DraftContent("scheduled", j.body, FALSE, {}))
    [] j.op = "draft_edit" ->
         SetDraft(s, read.id, DraftContent("plain", j.body, read.draft.thread, uploaded))
    [] j.op = "draft_schedule" -> Promoted(s, read)
    [] j.op = "draft_delete" -> Discarded(s, read.id)
    [] j.op = "cancel" -> CancelScheduledMessage(s, j.id)
    [] j.op = "draft_send" -> Posted(s, j, read, read.draft.body, read.draft.files)
    [] j.op \in {"send", "send_files"} -> Posted(s, j, read, j.body, uploaded)
    [] j.op = "edit" -> [s EXCEPT !.message = EditedMessage(s.message, j, read, uploaded)]

(* drafts.update and delete find the draft there, whoever changed it since. *)
Accepts(s, j, read) ==
  /\ j.op \in {"draft_edit", "draft_schedule", "draft_delete"}
       => s.drafts[read.id].state \in {"plain", "scheduled"}
  /\ j.op = "cancel" => s.drafts[j.id].state \in {"plain", "scheduled"}
  /\ j.op \in {"draft_create", "schedule"} => \E d \in DraftIds : s.drafts[d].state = "none"

Write(p) ==
  /\ pc[p] = "write" /\ job[p].op \notin {"invite", "reopen"}
  /\ \/ /\ Accepts(server, job[p], snap[p])
        /\ server' = Written(server, job[p], snap[p], up[p])
        /\ files' = IF job[p].op = "send_files" THEN Completed(p) ELSE files
        /\ posts' = [posts EXCEPT ![p] = [d \in DraftIds |-> posts[p][d]
                       + IF job[p].op = "draft_send" /\ snap[p].id = d THEN 1 ELSE 0]]
        /\ \E r \in {"ok", "retry"} : Finish(p, r)
     \/ /\ \E r \in Refusals \cup {"retry"} : Finish(p, r)
        /\ UNCHANGED <<server, files, posts>>
  /\ UNCHANGED <<appDid, job, snap, waiting, failed, up, todo, answers, reruns>>

(* Seeded fault: no error stops the batch.                                  *)
InviteAnyway(answer) == FALSE

(* InviteUsersToChannel, one user at a time: who is in already is no error. *)
InviteFails(answer) == answer \notin {"ok", "already_in_channel"}

Invite(p) ==
  /\ pc[p] = "write" /\ job[p].op = "invite" /\ todo[p] # {}
  /\ \E u \in todo[p], answer \in {"ok", "already_in_channel", "retry", "human"} :
       /\ answer = "ok" => u \notin server.members
       /\ answer = "already_in_channel" => u \in server.members
       /\ IF answer = "ok" THEN server' = [server EXCEPT !.members = @ \cup {u}]
          ELSE IF answer = "retry"
          THEN server' \in {server, [server EXCEPT !.members = @ \cup {u}]}
          ELSE UNCHANGED server
       /\ todo' = [todo EXCEPT ![p] = @ \ {u}]
       /\ answers' = [answers EXCEPT ![p] = @ \cup {<<u, answer>>}]
       /\ IF InviteFails(answer) THEN Finish(p, answer) ELSE UNCHANGED <<pc, res>>
  /\ UNCHANGED <<files, appDid, job, snap, waiting, failed, up, reruns, posts>>

(* later reopen undoes both marks, in this order.                           *)
Reopened(mark) ==
  IF (mark = "uncompleted" /\ server.later = "completed")
       \/ (mark = "unarchived" /\ server.later = "archived")
  THEN "in_progress" ELSE server.later

Reopen(p) ==
  /\ pc[p] = "write" /\ job[p].op = "reopen" /\ todo[p] # {}
  /\ LET mark == IF "uncompleted" \in todo[p] THEN "uncompleted" ELSE "unarchived"
     IN \E answer \in {"ok", "retry", "human"} :
          /\ server' \in IF answer = "ok" THEN {[server EXCEPT !.later = Reopened(mark)]}
                         ELSE IF answer = "retry"
                         THEN {server, [server EXCEPT !.later = Reopened(mark)]}
                         ELSE {server}
          /\ todo' = [todo EXCEPT ![p] = @ \ {mark}]
          /\ answers' = [answers EXCEPT ![p] = @ \cup {<<mark, answer>>}]
  /\ UNCHANGED <<files, appDid, job, pc, snap, waiting, failed, up, res, reruns, posts>>

(* The batch is over.  A reopen fails only when both marks did.             *)
BatchOver(p) ==
  /\ pc[p] = "write" /\ job[p].op \in {"invite", "reopen"} /\ todo[p] = {}
  /\ Finish(p, IF job[p].op = "reopen" /\ \A a \in answers[p] : a[2] # "ok"
               THEN (CHOOSE a \in answers[p] : a[1] = "uncompleted")[2] ELSE "ok")
  /\ UNCHANGED <<serverVars, job, snap, waiting, failed, up, todo, answers, reruns, posts>>

-----------------------------------------------------------------------------
(* The agent runs again what says "retry".                                  *)
Rerun(p) ==
  /\ pc[p] = "done" /\ res[p] = "retry" /\ reruns[p] < MaxReruns
  /\ Goto(p, "start") /\ res' = [res EXCEPT ![p] = None]
  /\ reruns' = [reruns EXCEPT ![p] = @ + 1]
  /\ snap' = [snap EXCEPT ![p] = Unread] /\ up' = [up EXCEPT ![p] = {}]
  /\ failed' = [failed EXCEPT ![p] = FALSE] /\ answers' = [answers EXCEPT ![p] = {}]
  /\ UNCHANGED <<serverVars, job, waiting, todo, posts>>

(* Slack finishes processing an image, if ever.                             *)
SlackProcesses ==
  /\ \E f \in FileIds : files[f] = "real" /\ files' = [files EXCEPT ![f] = "ready"]
  /\ UNCHANGED <<server, appDid, procVars>>

(* The user in the app: changes or sends a draft, or rewrites the message.  *)
AppActs ==
  /\ appDid < MaxApp /\ appDid' = appDid + 1
  /\ \E body \in Bodies :
       \/ \E d \in ListDrafts(FALSE) : server' = [server EXCEPT !.drafts[d].body = body]
       \/ \E d \in ListDrafts(FALSE) :
            server' = [server EXCEPT !.drafts[d].state = "sent",
                        !.channel = @ \cup {[body |-> server.drafts[d].body,
                                             files |-> server.drafts[d].files]}]
       \/ server' = [server EXCEPT !.message.text = body]
  /\ UNCHANGED <<files, procVars>>

Step(p) ==
  \/ ResolveDraftArg(p) \/ ReadEdited(p) \/ StartWrite(p)
  \/ UploadFileBytes(p) \/ UploadsOver(p) \/ CompleteUpload(p) \/ WaitForImages(p)
  \/ Write(p) \/ Invite(p) \/ Reopen(p) \/ BatchOver(p) \/ Rerun(p)

Next == (\E p \in Procs : Step(p)) \/ SlackProcesses \/ AppActs

Spec == Init /\ [][Next]_vars

-----------------------------------------------------------------------------
TypeOK ==
  /\ server \in Server /\ job \in Jobs
  /\ files \in [FileIds -> {"none", "pending", "real", "ready"}]
  /\ pc \in [Procs -> {"start", "upload", "complete", "images", "write", "done"}]
  /\ \A p \in Procs : snap[p].found =>
       IF job[p].op = "edit" THEN snap[p].message \in Message
       ELSE job[p].op \in DraftOps /\ snap[p].id \in DraftIds /\ snap[p].draft \in Draft
  /\ \A p \in Procs : waiting[p] \subseteq job[p].attach
  /\ failed \in [Procs -> BOOLEAN] /\ up \in [Procs -> SUBSET FileIds]
  /\ \A p \in Procs : todo[p] \subseteq Users \cup {"uncompleted", "unarchived"}
  /\ res \in [Procs -> {None, "ok", "retry"} \cup Refusals]
  /\ reruns \in [Procs -> 0 .. MaxReruns] /\ appDid \in 0 .. MaxApp
  /\ posts \in [Procs -> [DraftIds -> Nat]]

(* A command and its reruns post a draft at most once: the post takes the   *)
(* draft with it, so that a rerun after a lost answer finds none            *)
(* (runDraftSend).                                                          *)
DraftPostedOnce == \A p \in Procs, d \in DraftIds : posts[p][d] <= 1

(* No draft and no message refers to an upload that is not a real file yet  *)
(* (drafts.create rejects it), nor shows an image Slack has not processed.  *)
OnlyReadyFilesUsed ==
  /\ \A d \in DraftIds, f \in FileIds :
       f \in server.drafts[d].files => files[f] \in {"real", "ready"}
  /\ \A f \in server.message.files : files[f] \in {"real", "ready"}
  /\ \A p \in Procs : job[p].image /\ res[p] = "ok" => \A f \in up[p] : files[f] = "ready"

(* A file leaves the message only because it was to be removed, and the     *)
(* text changes only to one that was asked for, unless the message changed  *)
(* between an edit's read and its write (buildEditParams).                  *)
EditsKeepTheRest ==
  [][LET Stale(p) == snap[p].found /\ job[p].op = "edit" /\ snap[p].message # server.message
     IN \/ \E p \in Procs : Stale(p)
        \/ /\ server.message.files \ server'.message.files
                \subseteq UNION {job[p].remove : p \in Procs}
           /\ server'.message.text # server.message.text
                => server'.message.text \in Bodies \cup {job[p].body : p \in Procs}]_vars

(* An invite that reports success has every user in the channel, each       *)
(* reported once as invited or as already there (InviteUsersToChannel).     *)
InvitesAreReported ==
  \A p \in Procs : job[p].op = "invite" /\ res[p] = "ok"
    => /\ Users \subseteq server.members
       /\ {a[1] : a \in answers[p]} = Users /\ Cardinality(answers[p]) = Cardinality(Users)

(* A reopened item is open: "Move a saved message back to in-progress".     *)
ReopenedIsOpen ==
  \A p \in Procs : job[p].op = "reopen" /\ res[p] = "ok" => server.later = "in_progress"
=============================================================================
