------------------------------ MODULE MCOutbox ------------------------------
(* Two commands, the user in the app, one draft in a thread and one file.    *)
EXTENDS Outbox, TLC

CONSTANTS p1, p2, d1, d2, f1, f2, f3, f4, l1, u1, u2, old, new, app

Job(op, by, attach, remove, body, image) ==
  [op |-> op, by |-> by, id |-> d1, attach |-> attach, remove |-> remove, body |-> body,
   image |-> image]

DraftEdit == Job("draft_edit", "id", {l1}, {}, new, FALSE)
DraftSend == Job("draft_send", "target", {}, {}, None, FALSE)
DraftSchedule == Job("draft_schedule", "id", {}, {}, None, FALSE)
DraftDelete == Job("draft_delete", "target", {}, {}, None, FALSE)
DraftCreate == Job("draft_create", "target", {l1}, {}, new, FALSE)
Schedule == Job("schedule", "target", {}, {}, new, FALSE)
Cancel == Job("cancel", "id", {}, {}, None, FALSE)
SendImage == Job("send", "target", {l1}, {}, new, TRUE)
SendFiles == Job("send_files", "target", {l1}, {}, new, FALSE)
SwapFile == Job("edit", "target", {l1}, {f1}, None, FALSE)
AddFile == Job("edit", "target", {l1}, {}, None, FALSE)
Rewrite == Job("edit", "target", {}, {}, new, FALSE)
InviteAll == Job("invite", "target", {}, {}, None, FALSE)
ReopenItem == Job("reopen", "target", {}, {}, None, FALSE)

(* Those that meet the same draft, message, channel or item.                 *)
MCJobs ==
  {p1 :> pair[1] @@ p2 :> pair[2] : pair \in
     {<<DraftSend, DraftSend>>, <<DraftSend, DraftEdit>>, <<DraftSend, DraftSchedule>>,
      <<DraftEdit, DraftDelete>>, <<DraftCreate, DraftSend>>, <<DraftSchedule, Cancel>>,
      <<Schedule, DraftDelete>>, <<SendImage, Rewrite>>, <<SendFiles, Rewrite>>,
      <<AddFile, Rewrite>>, <<SwapFile, Rewrite>>, <<AddFile, SwapFile>>,
      <<InviteAll, InviteAll>>, <<ReopenItem, Rewrite>>}}

MCDrafts ==
  (d1 :> [state |-> "plain", body |-> old, thread |-> TRUE, files |-> {}]) @@ (d2 :> NoDraft)
MCMessage == [text |-> old, files |-> {f1}]
=============================================================================
