----------------------------- MODULE OutboxProofs -----------------------------
(***************************************************************************)
(* For any number of commands, reruns, drafts and files: a command posts a *)
(* draft once, whatever answers were lost, nothing Slack shows refers to a *)
(* file that is not there yet, an invite that reports success is true, and *)
(* an edit leaves alone what it was not asked to change.                   *)
(***************************************************************************)
EXTENDS Outbox, FiniteSetTheorems, TLAPS

FileStates == {"none", "pending", "real", "ready"}
Working == {"upload", "complete", "images", "write"}
Places == Working \cup {"start", "done"}

(* The commands that write on the ground of something they read.            *)
Reads(j) == j.op \in DraftOps \/ (j.op = "edit" /\ ChangesFiles(j))

SnapFits(p) ==
  /\ snap[p].found \in BOOLEAN
  /\ snap[p].found =>
       IF job[p].op = "edit" THEN snap[p].message \in Message
       ELSE job[p].op \in DraftOps /\ snap[p].id \in DraftIds /\ snap[p].draft \in Draft
  /\ pc[p] \in Working /\ Reads(job[p]) => snap[p].found

Shapes ==
  /\ server \in Server /\ job \in Jobs
  /\ files \in [FileIds -> FileStates]
  /\ pc \in [Procs -> Places]
  /\ DOMAIN snap = Procs /\ DOMAIN res = Procs /\ DOMAIN waiting = Procs
  /\ DOMAIN failed = Procs
  /\ up \in [Procs -> SUBSET FileIds]
  /\ posts \in [Procs -> [DraftIds -> Nat]]
  /\ \A p \in Procs : SnapFits(p)

(* What a command posted is sent, and what it is about to post it has not   *)
(* posted.                                                                  *)
PostInv ==
  \A p \in Procs, d \in DraftIds :
    /\ posts[p][d] <= 1
    /\ posts[p][d] # 0 => server.drafts[d].state = "sent"
    /\ pc[p] \in Working /\ job[p].op = "draft_send" /\ snap[p].id = d => posts[p][d] = 0

IInv == Shapes /\ PostInv

TodoInv ==
  DOMAIN todo = Procs /\ \A p \in Procs : job[p].op = "invite" => todo[p] \subseteq Users

JobsFit ==
  \A p \in Procs :
    /\ job[p].op \in Ops /\ job[p].id \in DraftIds /\ job[p].body \in Texts
    /\ job[p].image \in BOOLEAN /\ (job[p].image => job[p].op = "send")
    /\ job[p].op = "edit" => ChangesFiles(job[p]) \/ job[p].body # None

(* The assumption about jobs, of the jobs at hand.                          *)
LEMMA JobAtHand == ASSUME Shapes PROVE JobsFit
BY OutboxAssumption DEF Shapes, JobsFit, ChangesFiles

(* Every write leaves the server well formed and a draft that is sent sent; *)
(* a post sends its draft.                                                  *)
LEMMA Writing ==
  ASSUME Shapes, NEW p \in Procs, pc[p] = "write", job[p].op \notin {"invite", "reopen"},
         Accepts(server, job[p], snap[p]),
         server' = Written(server, job[p], snap[p], up[p])
  PROVE  /\ server' \in Server
         /\ \A d \in DraftIds :
              server.drafts[d].state = "sent" => server'.drafts[d].state = "sent"
         /\ job[p].op = "draft_send" =>
              snap[p].id \in DraftIds /\ server'.drafts[snap[p].id].state = "sent"
<1> DEFINE j == job[p]
           read == snap[p]
           S(d) == server.drafts[d].state = "sent" => server'.drafts[d].state = "sent"
<1>1. /\ j.op \in Ops /\ j.id \in DraftIds /\ j.body \in Texts
      /\ j.op = "edit" => ChangesFiles(j) \/ j.body # None
  BY JobAtHand DEF JobsFit
<1>2. /\ server \in Server /\ up[p] \in SUBSET FileIds /\ SnapFits(p)
  BY DEF Shapes
<1>3. pc[p] \in Working
  BY DEF Working
<1>4. ASSUME j.op \in DraftOps
      PROVE  read.id \in DraftIds /\ read.draft \in Draft
  BY <1>2, <1>3, <1>4 DEF SnapFits, Reads, DraftOps
<1>5. /\ server.drafts \in [DraftIds -> Draft] /\ server.message \in Message
      /\ server.channel \in SUBSET [body : Texts, files : SUBSET FileIds]
      /\ server.later \in {"completed", "archived", "in_progress"}
      /\ server.members \in SUBSET Users
      /\ server = [drafts |-> server.drafts, message |-> server.message,
                   channel |-> server.channel, later |-> server.later,
                   members |-> server.members]
  BY <1>2 DEF Server
<1>6. ASSUME NEW e \in DraftIds, NEW v \in Draft, server.drafts[e].state # "sent",
             server' = SetDraft(server, e, v)
      PROVE  server' \in Server /\ \A d \in DraftIds : S(d)
  <2>1. server' = [drafts |-> [server.drafts EXCEPT ![e] = v], message |-> server.message,
                   channel |-> server.channel, later |-> server.later,
                   members |-> server.members]
    BY <1>5, <1>6 DEF SetDraft
  <2> QED BY <2>1, <1>5, <1>6 DEF Server
<1>7. ASSUME NEW e \in DraftIds, server.drafts[e].state # "sent",
             server' = Discarded(server, e)
      PROVE  server' \in Server /\ \A d \in DraftIds : S(d)
  <2> DEFINE v == [server.drafts[e] EXCEPT !.state = "deleted"]
  <2>1. v \in Draft
    BY <1>5 DEF Draft
  <2>2. server' = SetDraft(server, e, v)
    BY <1>7, <1>5 DEF Discarded, SetDraft
  <2> QED BY <1>6, <1>7, <2>1, <2>2
<1>8. ASSUME NEW b \in Texts, NEW a \in SUBSET FileIds,
             j.op = "draft_send" => read.id \in DraftIds,
             server' = Posted(server, j, read, b, a)
      PROVE  /\ server' \in Server /\ \A d \in DraftIds : S(d)
             /\ j.op = "draft_send" => server'.drafts[read.id].state = "sent"
  <2> DEFINE new == [d \in DraftIds |-> IF d \in Fulfilled(j, read)
                       THEN [server.drafts[d] EXCEPT !.state = "sent"] ELSE server.drafts[d]]
  <2>1. \A d \in DraftIds : [server.drafts[d] EXCEPT !.state = "sent"] \in Draft
    BY <1>5 DEF Draft
  <2>2. new \in [DraftIds -> Draft]
    BY <2>1, <1>5
  <2>3. \A d \in DraftIds : [server.drafts[d] EXCEPT !.state = "sent"].state = "sent"
    BY <1>5 DEF Draft
  <2>4. server' = [drafts |-> new, message |-> server.message,
                   channel |-> server.channel \cup {[body |-> b, files |-> a]},
                   later |-> server.later, members |-> server.members]
    BY <1>5, <1>8 DEF Posted
  <2>5. server' \in Server
    BY <2>2, <2>4, <1>5, <1>8 DEF Server
  <2>6. \A d \in DraftIds : S(d)
    BY <2>3, <2>4
  <2>7. j.op = "draft_send" => server'.drafts[read.id].state = "sent"
    BY <2>3, <2>4, <1>8 DEF Fulfilled
  <2> QED BY <2>5, <2>6, <2>7
<1>9. (\E d \in DraftIds : server.drafts[d].state = "none") =>
        /\ FreeDraft(server) \in DraftIds
        /\ server.drafts[FreeDraft(server)].state # "sent"
  BY DEF FreeDraft
<1>10. \A state \in {"plain", "scheduled"}, b \in Texts, t \in BOOLEAN, a \in SUBSET FileIds :
         DraftContent(state, b, t, a) \in Draft
  BY DEF DraftContent, Draft
<1>11. /\ j.op \in {"draft_edit", "draft_schedule", "draft_delete"}
            => server.drafts[read.id].state # "sent"
       /\ j.op = "cancel" => server.drafts[j.id].state # "sent"
       /\ j.op \in {"draft_create", "schedule"}
            => \E d \in DraftIds : server.drafts[d].state = "none"
  BY DEF Accepts
<1>12. CASE j.op = "draft_create"
  <2>1. server' = SetDraft(server, FreeDraft(server), DraftContent("plain", j.body, FALSE, up[p]))
    BY <1>12 DEF Written
  <2> QED BY <2>1, <1>1, <1>2, <1>6, <1>9, <1>10, <1>11, <1>12
<1>13. CASE j.op = "schedule"
  <2>1. server' = SetDraft(server, FreeDraft(server), DraftContent("scheduled", j.body, FALSE, {}))
    BY <1>13 DEF Written
  <2> QED BY <2>1, <1>1, <1>6, <1>9, <1>10, <1>11, <1>13
<1>14. CASE j.op = "draft_edit"
  <2>1. server' = SetDraft(server, read.id,
                           DraftContent("plain", j.body, read.draft.thread, up[p]))
    BY <1>14 DEF Written
  <2>2. read.id \in DraftIds /\ read.draft.thread \in BOOLEAN
    BY <1>4, <1>14 DEF DraftOps, Draft
  <2> QED BY <2>1, <2>2, <1>1, <1>2, <1>6, <1>10, <1>11, <1>14
<1>15. CASE j.op = "draft_schedule"
  <2>1. server' = SetDraft(server, read.id,
                    DraftContent("scheduled", read.draft.body, read.draft.thread, read.draft.files))
    BY <1>15 DEF Written, Promoted
  <2>2. /\ read.id \in DraftIds /\ read.draft.thread \in BOOLEAN
        /\ read.draft.body \in Texts /\ read.draft.files \in SUBSET FileIds
    BY <1>4, <1>15 DEF DraftOps, Draft
  <2> QED BY <2>1, <2>2, <1>6, <1>10, <1>11, <1>15
<1>16. CASE j.op = "draft_delete"
  <2>1. server' = Discarded(server, read.id)
    BY <1>16 DEF Written
  <2> QED BY <2>1, <1>4, <1>7, <1>11, <1>16 DEF DraftOps
<1>17. CASE j.op = "cancel"
  <2>1. server' = Discarded(server, j.id)
    BY <1>17 DEF Written, CancelScheduledMessage
  <2> QED BY <2>1, <1>1, <1>7, <1>11, <1>17
<1>18. CASE j.op = "draft_send"
  <2>1. server' = Posted(server, j, read, read.draft.body, read.draft.files)
    BY <1>18 DEF Written
  <2>2. /\ read.id \in DraftIds
        /\ read.draft.body \in Texts /\ read.draft.files \in SUBSET FileIds
    BY <1>4, <1>18 DEF DraftOps, Draft
  <2> QED BY <2>1, <2>2, <1>8, <1>18
<1>19. CASE j.op \in {"send", "send_files"}
  <2>1. server' = Posted(server, j, read, j.body, up[p])
    BY <1>19 DEF Written
  <2> QED BY <2>1, <1>1, <1>2, <1>8, <1>19
<1>20. CASE j.op = "edit"
  <2> DEFINE m == EditedMessage(server.message, j, read, up[p])
  <2>1. server' = [server EXCEPT !.message = m]
    BY <1>20 DEF Written
  <2>2. ChangesFiles(j) => read.message \in Message
    BY <1>2, <1>3, <1>20 DEF SnapFits, Reads, DraftOps
  <2>3. m \in Message
    <3>1. (IF j.body # None THEN j.body ELSE read.message.text) \in Texts
      BY <2>2, <1>1, <1>20 DEF Message
    <3>2. (IF ChangesFiles(j) THEN EditedFileIDs(j, read, up[p]) ELSE server.message.files)
            \in SUBSET FileIds
      BY <2>2, <1>2, <1>5 DEF EditedFileIDs, Message
    <3> QED BY <3>1, <3>2 DEF EditedMessage, Message
  <2>4. server' = [drafts |-> server.drafts, message |-> m, channel |-> server.channel,
                   later |-> server.later, members |-> server.members]
    BY <2>1, <1>5
  <2> QED BY <2>3, <2>4, <1>5, <1>20 DEF Server
<1> QED BY <1>1, <1>12, <1>13, <1>14, <1>15, <1>16, <1>17, <1>18, <1>19, <1>20 DEF Ops

(* A command goes on without writing: it has read what its work needs, and  *)
(* posted nothing of what it is about to post.                              *)
LEMMA Goes ==
  ASSUME IInv, NEW p \in Procs, NEW place \in Places,
         UNCHANGED <<server, job, posts>>,
         pc' = [pc EXCEPT ![p] = place],
         files' \in [FileIds -> FileStates],
         DOMAIN snap' = Procs, DOMAIN res' = Procs, DOMAIN waiting' = Procs,
         DOMAIN failed' = Procs,
         up' \in [Procs -> SUBSET FileIds],
         \A q \in Procs \ {p} : snap'[q] = snap[q],
         SnapFits(p)',
         place \in Working /\ job[p].op = "draft_send"
           => posts[p][snap'[p].id] = 0 \/ (snap'[p] = snap[p] /\ pc[p] \in Working)
  PROVE  IInv'
<1>1. \A q \in Procs : pc'[q] = IF q = p THEN place ELSE pc[q]
  BY DEF IInv, Shapes
<1>2. \A q \in Procs \ {p} : SnapFits(q)'
  BY <1>1 DEF IInv, Shapes, SnapFits
<1>3. pc' \in [Procs -> Places]
  BY DEF IInv, Shapes
<1>4. Shapes'
  BY <1>2, <1>3 DEF IInv, Shapes
<1>5. ASSUME NEW q \in Procs, NEW d \in DraftIds
      PROVE  /\ posts'[q][d] <= 1
             /\ posts'[q][d] # 0 => server'.drafts[d].state = "sent"
             /\ pc'[q] \in Working /\ job'[q].op = "draft_send" /\ snap'[q].id = d
                  => posts'[q][d] = 0
  <2>1. CASE q = p
    BY <1>1, <2>1 DEF IInv, PostInv
  <2>2. CASE q # p
    BY <1>1, <2>2 DEF IInv, PostInv
  <2> QED BY <2>1, <2>2
<1> QED BY <1>4, <1>5 DEF IInv, PostInv

(* resolveDraftArg finds a draft that is not sent, hence not posted.        *)
LEMMA ResolvePreserves == ASSUME IInv, NEW p \in Procs, ResolveDraftArg(p) PROVE IInv'
<1> USE DEF Goto, Finish, Places, Working
<1>1. /\ UNCHANGED <<server, job, posts, files, up, failed>> /\ DOMAIN res' = Procs
      /\ DOMAIN waiting' = Procs /\ pc[p] = "start" /\ job[p].op \in DraftOps
      /\ server \in Server /\ files \in [FileIds -> FileStates] /\ DOMAIN snap = Procs
      /\ up \in [Procs -> SUBSET FileIds] /\ DOMAIN failed = Procs /\ SnapFits(p)
      /\ pc \in [Procs -> Places]
  BY DEF IInv, Shapes, ResolveDraftArg, serverVars
<1>2. CASE snap' = snap /\ pc' = [pc EXCEPT ![p] = "done"]
  <2>1. SnapFits(p)'
    BY <1>1, <1>2 DEF SnapFits
  <2> QED BY <1>1, <1>2, <2>1, Goes
<1>3. ASSUME NEW d \in DraftNamed(job[p]),
             snap' = [snap EXCEPT ![p] = [found |-> TRUE, id |-> d, draft |-> server.drafts[d]]],
             pc' = [pc EXCEPT ![p] = AfterRead(job[p])]
      PROVE  IInv'
  <2>1. d \in DraftIds /\ server.drafts[d].state = "plain" /\ server.drafts[d] \in Draft
    BY <1>1 DEF DraftNamed, ListDrafts, Server
  <2>2. snap'[p] = [found |-> TRUE, id |-> d, draft |-> server.drafts[d]]
    BY <1>1, <1>3
  <2>3. SnapFits(p)'
    BY <1>1, <2>1, <2>2 DEF SnapFits, DraftOps
  <2>4. posts[p][d] = 0
    BY <2>1 DEF IInv, PostInv
  <2>5. AfterRead(job[p]) \in Places
    BY DEF AfterRead
  <2>6. \A q \in Procs \ {p} : snap'[q] = snap[q]
    BY <1>3
  <2>7. DOMAIN snap' = Procs /\ snap'[p].id = d
    BY <1>1, <1>3, <2>2
  <2> QED BY <1>1, <1>3, <2>3, <2>4, <2>5, <2>6, <2>7, Goes
<1> QED BY <1>2, <1>3 DEF ResolveDraftArg

(* An edit reads the message when it changes its files.                     *)
LEMMA EditPreserves == ASSUME IInv, NEW p \in Procs, ReadEdited(p) PROVE IInv'
<1> USE DEF Goto, Finish, Places, Working
<1>1. /\ UNCHANGED <<server, job, posts, files, up, failed>> /\ DOMAIN res' = Procs
      /\ DOMAIN waiting' = Procs /\ pc[p] = "start" /\ job[p].op = "edit"
      /\ server \in Server /\ files \in [FileIds -> FileStates] /\ DOMAIN snap = Procs
      /\ up \in [Procs -> SUBSET FileIds] /\ DOMAIN failed = Procs /\ SnapFits(p)
      /\ pc \in [Procs -> Places]
  BY DEF IInv, Shapes, ReadEdited, serverVars
<1>2. CASE /\ snap' = snap
           /\ \/ pc' = [pc EXCEPT ![p] = "done"]
              \/ ~ChangesFiles(job[p]) /\ pc' = [pc EXCEPT ![p] = "write"]
  <2>1. SnapFits(p)'
    BY <1>1, <1>2 DEF SnapFits, Reads, DraftOps, ChangesFiles
  <2> QED BY <1>1, <1>2, <2>1, Goes
<1>3. ASSUME snap' = [snap EXCEPT ![p] = [found |-> TRUE, message |-> server.message]],
             NEW place \in Places, pc' = [pc EXCEPT ![p] = place]
      PROVE  IInv'
  <2>1. snap'[p] = [found |-> TRUE, message |-> server.message] /\ server.message \in Message
    BY <1>1, <1>3 DEF Server
  <2>2. SnapFits(p)'
    BY <1>1, <2>1 DEF SnapFits
  <2>3. DOMAIN snap' = Procs /\ \A q \in Procs \ {p} : snap'[q] = snap[q]
    BY <1>1, <1>3
  <2> QED BY <1>1, <1>3, <2>2, <2>3, Goes
<1>4. AfterRead(job[p]) \in Places
  BY DEF AfterRead
<1> QED BY <1>2, <1>3, <1>4 DEF ReadEdited

(* The steps that read nothing and write nothing to the server, once the    *)
(* command has its work before it.                                          *)
LEMMA WorkPreserves ==
  ASSUME IInv, NEW p \in Procs,
         \/ StartWrite(p) \/ UploadFileBytes(p) \/ UploadsOver(p)
         \/ CompleteUpload(p) \/ WaitForImages(p)
  PROVE  IInv'
<1> USE DEF Goto, Finish, Places, Working
<1>1. /\ UNCHANGED <<server, job, posts, snap>>
      /\ server \in Server /\ files \in [FileIds -> FileStates] /\ DOMAIN snap = Procs
      /\ up \in [Procs -> SUBSET FileIds] /\ DOMAIN failed = Procs /\ SnapFits(p)
      /\ DOMAIN res = Procs /\ DOMAIN waiting = Procs /\ pc \in [Procs -> Places]
  BY DEF IInv, Shapes, StartWrite, UploadFileBytes, UploadsOver, CompleteUpload, WaitForImages,
         serverVars
<1>2. Completed(p) \in [FileIds -> FileStates]
  BY <1>1 DEF Completed, FileStates
<1>3. CASE StartWrite(p)
  <2>1. /\ pc' = [pc EXCEPT ![p] = AfterRead(job[p])] /\ AfterRead(job[p]) \in Places
        /\ UNCHANGED <<files, failed, up, res>> /\ DOMAIN waiting' = Procs
        /\ job[p].op \notin DraftOps \cup {"edit"} /\ pc'[p] = AfterRead(job[p])
    BY <1>1, <1>3 DEF StartWrite, AfterRead, serverVars
  <2>2. SnapFits(p)'
    BY <1>1, <2>1 DEF SnapFits, Reads
  <2> QED BY <1>1, <2>1, <2>2, Goes DEF DraftOps
<1>4. CASE UploadFileBytes(p)
  <2>1. pc[p] \in Places \cap Working /\ pc' = [pc EXCEPT ![p] = pc[p]]
    BY <1>1, <1>4 DEF UploadFileBytes
  <2>2. /\ files' \in [FileIds -> FileStates] /\ up' \in [Procs -> SUBSET FileIds]
        /\ DOMAIN failed' = Procs /\ DOMAIN waiting' = Procs /\ res' = res
    <3> DEFINE f == CHOOSE g \in FileIds : files[g] = "none"
    <3>1. (\E g \in FileIds : files[g] = "none") => f \in FileIds
      OBVIOUS
    <3>2. f \in FileIds => [files EXCEPT ![f] = "pending"] \in [FileIds -> FileStates]
      BY <1>1 DEF FileStates
    <3>3. f \in FileIds => [up EXCEPT ![p] = up[p] \cup {f}] \in [Procs -> SUBSET FileIds]
      BY <1>1
    <3>4. DOMAIN failed' = Procs /\ DOMAIN waiting' = Procs /\ res' = res
      BY <1>1, <1>4 DEF UploadFileBytes
    <3>5. \/ UNCHANGED <<files, up>>
          \/ /\ f \in FileIds /\ files' = [files EXCEPT ![f] = "pending"]
             /\ up' = [up EXCEPT ![p] = up[p] \cup {f}]
      BY <1>4, <3>1 DEF UploadFileBytes
    <3> QED BY <1>1, <3>2, <3>3, <3>4, <3>5
  <2>3. SnapFits(p)'
    BY <1>1, <2>1 DEF SnapFits
  <2> QED BY <1>1, <2>1, <2>2, <2>3, Goes
<1>5. CASE UploadsOver(p) \/ CompleteUpload(p) \/ WaitForImages(p)
  <2>1. PICK place \in Places : pc' = [pc EXCEPT ![p] = place] /\ pc[p] \in Working
    BY <1>1, <1>5 DEF UploadsOver, CompleteUpload, WaitForImages, AfterUpload
  <2>2. files' \in [FileIds -> FileStates]
    BY <1>1, <1>2, <1>5 DEF UploadsOver, CompleteUpload, WaitForImages, serverVars
  <2>3. UNCHANGED <<failed, up, waiting>> /\ DOMAIN res' = Procs
    BY <1>1, <1>5 DEF UploadsOver, CompleteUpload, WaitForImages
  <2>4. SnapFits(p)'
    BY <1>1, <2>1 DEF SnapFits
  <2> QED BY <1>1, <2>1, <2>2, <2>3, <2>4, Goes
<1> QED BY <1>3, <1>4, <1>5

(* A write: what was sent stays sent, and what p posts it had not posted.   *)
LEMMA WritePreserves == ASSUME IInv, NEW p \in Procs, Write(p) PROVE IInv'
<1>1. /\ Shapes /\ PostInv /\ SnapFits(p) /\ pc[p] = "write" /\ pc[p] \in Working
      /\ job[p].op \notin {"invite", "reopen"} /\ UNCHANGED <<job, snap, up, waiting, failed>>
      /\ pc' = [pc EXCEPT ![p] = "done"] /\ DOMAIN res' = Procs
  BY DEF IInv, Shapes, Write, Finish, Goto, Working
<1>2. CASE UNCHANGED <<server, files, posts>>
  <2>1. SnapFits(p)'
    BY <1>1 DEF SnapFits, Shapes, Working
  <2> QED BY <1>1, <1>2, <2>1, Goes DEF Shapes, Places
<1>3. CASE /\ Accepts(server, job[p], snap[p])
           /\ server' = Written(server, job[p], snap[p], up[p])
           /\ files' = IF job[p].op = "send_files" THEN Completed(p) ELSE files
           /\ posts' = [posts EXCEPT ![p] = [d \in DraftIds |-> posts[p][d]
                          + IF job[p].op = "draft_send" /\ snap[p].id = d THEN 1 ELSE 0]]
  <2>1. /\ server' \in Server
        /\ \A d \in DraftIds :
             server.drafts[d].state = "sent" => server'.drafts[d].state = "sent"
        /\ job[p].op = "draft_send" =>
             snap[p].id \in DraftIds /\ server'.drafts[snap[p].id].state = "sent"
    BY <1>1, <1>3, Writing
  <2>2. files' \in [FileIds -> FileStates]
    BY <1>1, <1>3 DEF Shapes, Completed, FileStates
  <2>3. /\ posts' \in [Procs -> [DraftIds -> Nat]]
        /\ \A q \in Procs \ {p} : posts'[q] = posts[q]
        /\ \A d \in DraftIds :
             posts'[p][d] = posts[p][d]
               + IF job[p].op = "draft_send" /\ snap[p].id = d THEN 1 ELSE 0
    BY <1>1, <1>3 DEF Shapes
  <2>4. pc' \in [Procs -> Places] /\ \A q \in Procs : pc'[q] = IF q = p THEN "done" ELSE pc[q]
    BY <1>1 DEF Shapes, Places
  <2>5. \A q \in Procs : SnapFits(q)'
    BY <1>1, <2>4 DEF Shapes, SnapFits, Working
  <2>6. Shapes'
    BY <1>1, <2>1, <2>2, <2>3, <2>4, <2>5 DEF Shapes
  <2>7. ASSUME NEW q \in Procs, NEW d \in DraftIds
        PROVE  /\ posts'[q][d] <= 1
               /\ posts'[q][d] # 0 => server'.drafts[d].state = "sent"
               /\ pc'[q] \in Working /\ job'[q].op = "draft_send" /\ snap'[q].id = d
                    => posts'[q][d] = 0
    <3>1. CASE q # p
      BY <1>1, <2>1, <2>3, <2>4, <3>1 DEF PostInv
    <3>2. CASE q = p /\ job[p].op = "draft_send" /\ snap[p].id = d
      <4>1. posts[p][d] = 0 /\ posts'[p][d] = 1
        BY <1>1, <2>3, <3>2 DEF PostInv
      <4> QED BY <4>1, <2>1, <2>4, <3>2 DEF Working
    <3>3. CASE q = p /\ ~(job[p].op = "draft_send" /\ snap[p].id = d)
      <4>1. posts'[p][d] = posts[p][d]
        BY <1>1, <2>3, <3>3 DEF Shapes
      <4> QED BY <4>1, <1>1, <2>1, <2>4, <3>3 DEF PostInv, Working
    <3> QED BY <3>1, <3>2, <3>3
  <2> QED BY <2>6, <2>7 DEF IInv, PostInv
<1> QED BY <1>2, <1>3 DEF Write

(* The rest leaves the drafts as they are, or changes those not sent.       *)
LEMMA DraftsKept ==
  ASSUME IInv, server' \in Server, files' \in [FileIds -> FileStates],
         UNCHANGED <<job, snap, waiting, failed, up, posts>>, DOMAIN res' = Procs,
         \/ pc' = pc
         \/ \E p \in Procs : pc' = [pc EXCEPT ![p] = "done"],
         \A d \in DraftIds :
           server.drafts[d].state = "sent" => server'.drafts[d].state = "sent"
  PROVE  IInv'
<1>1. pc' \in [Procs -> Places] /\ \A q \in Procs : pc'[q] \in {pc[q], "done"}
  BY DEF IInv, Shapes, Places
<1>2. \A q \in Procs : SnapFits(q)'
  BY <1>1 DEF IInv, Shapes, SnapFits, Working
<1>3. Shapes'
  BY <1>1, <1>2 DEF IInv, Shapes
<1>4. PostInv'
  BY <1>1 DEF IInv, PostInv, Working
<1> QED BY <1>3, <1>4 DEF IInv

(* Only users are invited.                                                  *)
LEMMA InvitesFit == ASSUME TodoInv, [Next]_vars PROVE TodoInv'
<1>1. CASE UNCHANGED vars
  BY <1>1 DEF vars, procVars, TodoInv
<1>2. ASSUME NEW p \in Procs, Step(p) PROVE TodoInv'
  <2>1. CASE StartWrite(p)
    BY <2>1 DEF StartWrite, TodoInv
  <2>2. CASE Invite(p)
    BY <2>2 DEF Invite, TodoInv
  <2>3. CASE Reopen(p)
    BY <2>3 DEF Reopen, TodoInv
  <2>4. CASE ~(StartWrite(p) \/ Invite(p) \/ Reopen(p))
    <3>1. UNCHANGED <<job, todo>>
      BY <1>2, <2>4 DEF Step, ResolveDraftArg, ReadEdited, UploadFileBytes, UploadsOver,
         CompleteUpload, WaitForImages, Write, BatchOver, Rerun
    <3> QED BY <3>1 DEF TodoInv
  <2> QED BY <2>1, <2>2, <2>3, <2>4
<1>3. CASE SlackProcesses \/ AppActs
  BY <1>3 DEF SlackProcesses, AppActs, procVars, TodoInv
<1> QED BY <1>1, <1>2, <1>3 DEF Next

(* Invites and marks leave the drafts alone.                                *)
LEMMA BatchPreserves ==
  ASSUME IInv, TodoInv, NEW p \in Procs, Invite(p) \/ Reopen(p) \/ BatchOver(p)
  PROVE  IInv'
<1>1. /\ UNCHANGED <<job, snap, waiting, failed, up, posts, files>> /\ DOMAIN res' = Procs
      /\ pc' = pc \/ pc' = [pc EXCEPT ![p] = "done"]
  BY DEF Invite, Reopen, BatchOver, Finish, Goto, IInv, Shapes, serverVars
<1>2. server \in Server
  BY DEF IInv, Shapes
<1>3. \/ server' = server
      \/ \E u \in Users : server' = [server EXCEPT !.members = @ \cup {u}]
      \/ \E later \in {"completed", "archived", "in_progress"} :
           server' = [server EXCEPT !.later = later]
  <2>1. CASE Invite(p)
    BY <2>1 DEF Invite, TodoInv
  <2>2. CASE Reopen(p)
    BY <1>2, <2>2 DEF Reopen, Reopened, Server
  <2>3. CASE BatchOver(p)
    BY <2>3 DEF BatchOver, serverVars
  <2> QED BY <2>1, <2>2, <2>3
<1>4. server' \in Server /\ server'.drafts = server.drafts
  BY <1>2, <1>3 DEF Server
<1> QED BY <1>1, <1>4, DraftsKept DEF IInv, Shapes

(* The user in the app touches drafts that are not sent.                    *)
LEMMA WorldPreserves == ASSUME IInv, SlackProcesses \/ AppActs PROVE IInv'
<1>1. /\ UNCHANGED <<job, pc, snap, waiting, failed, up, posts>> /\ DOMAIN res' = Procs
      /\ server \in Server /\ files \in [FileIds -> FileStates]
  BY DEF IInv, Shapes, SlackProcesses, AppActs, procVars
<1>2. CASE SlackProcesses
  BY <1>1, <1>2, DraftsKept DEF SlackProcesses, FileStates
<1>3. CASE AppActs
  <2>1. PICK body \in Bodies :
          \/ \E d \in ListDrafts(FALSE) : server' = [server EXCEPT !.drafts[d].body = body]
          \/ \E d \in ListDrafts(FALSE) :
               server' = [server EXCEPT !.drafts[d].state = "sent",
                           !.channel = @ \cup {[body |-> server.drafts[d].body,
                                                files |-> server.drafts[d].files]}]
          \/ server' = [server EXCEPT !.message.text = body]
    BY <1>3 DEF AppActs
  <2>2. body \in Texts
    BY DEF Texts
  <2>3. /\ server.drafts \in [DraftIds -> Draft] /\ server.message \in Message
        /\ server.channel \in SUBSET [body : Texts, files : SUBSET FileIds]
        /\ server.later \in {"completed", "archived", "in_progress"}
        /\ server.members \in SUBSET Users
        /\ server = [drafts |-> server.drafts, message |-> server.message,
                     channel |-> server.channel, later |-> server.later,
                     members |-> server.members]
    BY <1>1 DEF Server
  <2>4. \A d \in ListDrafts(FALSE) : d \in DraftIds /\ server.drafts[d].state = "plain"
    BY DEF ListDrafts
  <2>5. ASSUME NEW d \in ListDrafts(FALSE), server' = [server EXCEPT !.drafts[d].body = body]
        PROVE  /\ server' \in Server
               /\ \A e \in DraftIds :
                    server.drafts[e].state = "sent" => server'.drafts[e].state = "sent"
    <3> DEFINE v == [server.drafts[d] EXCEPT !.body = body]
    <3>1. v \in Draft
      BY <2>2, <2>3, <2>4 DEF Draft
    <3>2. server' = [drafts |-> [server.drafts EXCEPT ![d] = v], message |-> server.message,
                     channel |-> server.channel, later |-> server.later,
                     members |-> server.members]
      BY <2>3, <2>5
    <3> QED BY <3>1, <3>2, <2>3, <2>4 DEF Server
  <2>6. ASSUME NEW d \in ListDrafts(FALSE),
               server' = [server EXCEPT !.drafts[d].state = "sent",
                           !.channel = @ \cup {[body |-> server.drafts[d].body,
                                                files |-> server.drafts[d].files]}]
        PROVE  /\ server' \in Server
               /\ \A e \in DraftIds :
                    server.drafts[e].state = "sent" => server'.drafts[e].state = "sent"
    <3> DEFINE v == [server.drafts[d] EXCEPT !.state = "sent"]
               c == [body |-> server.drafts[d].body, files |-> server.drafts[d].files]
    <3>1. v \in Draft /\ c \in [body : Texts, files : SUBSET FileIds]
      BY <2>3, <2>4 DEF Draft
    <3>2. server' = [drafts |-> [server.drafts EXCEPT ![d] = v], message |-> server.message,
                     channel |-> server.channel \cup {c}, later |-> server.later,
                     members |-> server.members]
      BY <2>3, <2>6
    <3> QED BY <3>1, <3>2, <2>3, <2>4 DEF Server
  <2>7. ASSUME server' = [server EXCEPT !.message.text = body]
        PROVE  server' \in Server /\ server'.drafts = server.drafts
    <3> DEFINE m == [server.message EXCEPT !.text = body]
    <3>1. m \in Message
      BY <2>2, <2>3 DEF Message
    <3>2. server' = [drafts |-> server.drafts, message |-> m,
                     channel |-> server.channel, later |-> server.later,
                     members |-> server.members]
      BY <2>3, <2>7
    <3> QED BY <3>1, <3>2, <2>3 DEF Server
  <2>8. files' = files
    BY <1>3 DEF AppActs
  <2> QED BY <1>1, <2>1, <2>5, <2>6, <2>7, <2>8, DraftsKept
<1> QED BY <1>2, <1>3

(* A rerun starts with nothing read.                                        *)
LEMMA RerunPreserves == ASSUME IInv, NEW p \in Procs, Rerun(p) PROVE IInv'
<1>1. /\ UNCHANGED <<server, job, posts, files, waiting>> /\ DOMAIN snap = Procs
      /\ snap' = [snap EXCEPT ![p] = Unread] /\ pc' = [pc EXCEPT ![p] = "start"]
      /\ files \in [FileIds -> FileStates] /\ up' \in [Procs -> SUBSET FileIds]
      /\ DOMAIN res' = Procs /\ DOMAIN waiting' = Procs /\ DOMAIN failed' = Procs
      /\ pc \in [Procs -> Places] /\ "start" \in Places /\ "start" \notin Working
  BY DEF IInv, Shapes, Rerun, Goto, serverVars, Places, Working
<1>2. SnapFits(p)'
  BY <1>1 DEF SnapFits, Unread
<1>3. DOMAIN snap' = Procs /\ \A q \in Procs \ {p} : snap'[q] = snap[q]
  BY <1>1
<1> QED BY <1>1, <1>2, <1>3, Goes

(* Nothing is posted at the start.                                          *)
LEMMA InitIInv == Init => IInv /\ TodoInv
<1> SUFFICES ASSUME Init PROVE IInv /\ TodoInv
  OBVIOUS
<1>1. server \in Server
  BY OutboxAssumption DEF Init, Server
<1>2. \A p \in Procs : pc[p] = "start" /\ snap[p] = Unread
  BY DEF Init
<1>3. \A p \in Procs : SnapFits(p)
  <2>1. \A p \in Procs : snap[p].found = FALSE /\ pc[p] \notin Working
    BY <1>2 DEF Unread, Working
  <2> QED BY <2>1 DEF SnapFits
<1>4. /\ job \in Jobs /\ files \in [FileIds -> FileStates]
      /\ pc \in [Procs -> Places] /\ DOMAIN snap = Procs /\ DOMAIN res = Procs
      /\ DOMAIN waiting = Procs /\ DOMAIN failed = Procs
      /\ up \in [Procs -> SUBSET FileIds]
      /\ posts \in [Procs -> [DraftIds -> Nat]]
      /\ \A p \in Procs, d \in DraftIds : posts[p][d] = 0
  BY DEF Init, FileStates, Places
<1>5. TodoInv
  BY DEF Init, TodoInv
<1> QED BY <1>1, <1>3, <1>4, <1>5 DEF IInv, Shapes, PostInv

(* Every step keeps what was posted true.                                   *)
LEMMA NextIInv == IInv /\ TodoInv /\ [Next]_vars => (IInv /\ TodoInv)'
<1> SUFFICES ASSUME IInv, TodoInv, [Next]_vars PROVE IInv'
  BY InvitesFit
<1>1. CASE UNCHANGED vars
  <2>1. UNCHANGED <<server, files, job, pc, snap, waiting, failed, up, res, posts>>
    BY <1>1 DEF vars, serverVars, procVars
  <2>2. server' \in Server /\ files' \in [FileIds -> FileStates] /\ DOMAIN res' = Procs
    BY <2>1 DEF IInv, Shapes
  <2> QED BY <2>1, <2>2, DraftsKept
<1>2. CASE \E p \in Procs : Step(p)
  BY <1>2, ResolvePreserves, EditPreserves, WorkPreserves, WritePreserves, BatchPreserves,
     RerunPreserves DEF Step
<1>3. CASE SlackProcesses \/ AppActs
  BY <1>3, WorldPreserves
<1> QED BY <1>1, <1>2, <1>3 DEF Next

-----------------------------------------------------------------------------
(* Files.  What Slack shows and what a command has read of it is real; what *)
(* a command uploaded is its own, and as far along as the command is.       *)
Real(f) == files[f] \in {"real", "ready"}

ServerFiles ==
  /\ \A d \in DraftIds, f \in FileIds : f \in server.drafts[d].files => Real(f)
  /\ \A f \in server.message.files : Real(f)

SnapFiles(p) ==
  snap[p].found =>
    IF job[p].op = "edit" THEN \A f \in snap[p].message.files : Real(f)
    ELSE \A f \in snap[p].draft.files : Real(f)

UpFiles(p) ==
  /\ \A q \in Procs \ {p} : up[p] \cap up[q] = {}
  /\ \A f \in up[p] : files[f] # "none"
  /\ pc[p] = "start" => up[p] = {}
  /\ pc[p] # "done" => res[p] # "ok"
  /\ pc[p] = "images" \/ (pc[p] = "write" /\ job[p].op # "send_files")
       => \A f \in up[p] : Real(f)
  /\ job[p].image /\ (pc[p] = "write" \/ res[p] = "ok") => \A f \in up[p] : files[f] = "ready"

FilesInv == ServerFiles /\ \A p \in Procs : SnapFiles(p) /\ UpFiles(p)

(* When no file falls back, one command moves, and Slack still shows only   *)
(* real files, the invariant needs to be shown of that command alone.       *)
LEMMA FilesMove ==
  ASSUME Shapes, FilesInv, NEW p \in Procs,
         UNCHANGED job,
         \A f \in FileIds : Real(f) => Real(f)',
         \A f \in FileIds : files[f] # "none" => files'[f] # "none",
         \A f \in FileIds \ up[p] : files[f] = "ready" => files'[f] = "ready",
         \A q \in Procs \ {p} : /\ pc'[q] = pc[q] /\ snap'[q] = snap[q] /\ up'[q] = up[q]
                                /\ res'[q] = res[q],
         ServerFiles', SnapFiles(p)', UpFiles(p)'
  PROVE  FilesInv'
<1>1. ASSUME NEW q \in Procs \ {p} PROVE SnapFiles(q)' /\ UpFiles(q)'
  <2>1. /\ SnapFiles(q) /\ UpFiles(q) /\ up[q] \in SUBSET FileIds /\ SnapFits(q)
        /\ pc'[q] = pc[q] /\ snap'[q] = snap[q] /\ up'[q] = up[q] /\ res'[q] = res[q]
    BY <1>1 DEF Shapes, FilesInv
  <2>2. up[q] \cap up[p] = {} /\ up'[q] \cap up'[p] = {}
    BY <1>1, <2>1 DEF UpFiles
  <2>3. \A r \in Procs \ {q} : up'[q] \cap up'[r] = {}
    BY <1>1, <2>1, <2>2 DEF UpFiles
  <2>4. \A f \in up[q] : /\ f \in FileIds \ up[p] /\ files'[f] # "none"
                         /\ Real(f) => Real(f)'
                         /\ files[f] = "ready" => files'[f] = "ready"
    BY <2>1, <2>2 DEF UpFiles
  <2>5. UpFiles(q)'
    BY <2>1, <2>3, <2>4 DEF UpFiles
  <2>6. SnapFiles(q)'
    <3>1. snap[q].found /\ job[q].op = "edit" => snap[q].message.files \in SUBSET FileIds
      BY <2>1 DEF SnapFits, Message
    <3>2. snap[q].found /\ job[q].op # "edit" => snap[q].draft.files \in SUBSET FileIds
      BY <2>1 DEF SnapFits, Draft
    <3> QED BY <2>1, <3>1, <3>2 DEF SnapFiles
  <2> QED BY <2>5, <2>6
<1> QED BY <1>1 DEF FilesInv

(* What Slack shows stays real while the files do.                          *)
LEMMA ServerFilesKept ==
  ASSUME Shapes, ServerFiles,
         server'.drafts = server.drafts, server'.message.files = server.message.files,
         \A f \in FileIds : Real(f) => Real(f)'
  PROVE  ServerFiles'
<1>1. server.message.files \in SUBSET FileIds
  BY DEF Shapes, Server, Message
<1> QED BY <1>1 DEF ServerFiles

(* The steps that touch no file.                                            *)
LEMMA FilesUntouched ==
  ASSUME Shapes, FilesInv, NEW p \in Procs, NEW place \in Places,
         UNCHANGED <<files, job, up>>, pc' = [pc EXCEPT ![p] = place],
         ServerFiles', SnapFiles(p)',
         \A q \in Procs \ {p} : snap'[q] = snap[q] /\ res'[q] = res[q],
         place = "done" \/ res'[p] = res[p],
         place = "start" => up[p] = {},
         pc[p] # "done",
         place = "images" \/ (place = "write" /\ job[p].op # "send_files")
           => \A f \in up[p] : Real(f),
         job[p].image /\ (place = "write" \/ res'[p] = "ok")
           => \A f \in up[p] : files[f] = "ready"
  PROVE  FilesInv'
<1>1. pc'[p] = place /\ \A q \in Procs \ {p} : pc'[q] = pc[q]
  BY DEF Shapes
<1>2. UpFiles(p)'
  BY <1>1 DEF FilesInv, UpFiles, Real
<1> QED BY <1>1, <1>2, FilesMove DEF Real

(* What a command reads is what Slack shows, which is real.                 *)
LEMMA ReadFiles ==
  ASSUME Shapes, FilesInv, NEW p \in Procs, ResolveDraftArg(p) \/ ReadEdited(p) \/ StartWrite(p)
  PROVE  FilesInv'
<1> USE DEF Goto, Finish
<1>1. /\ UNCHANGED <<server, files, job, up>> /\ pc[p] = "start" /\ up[p] = {}
      /\ DOMAIN snap = Procs /\ DOMAIN res = Procs /\ ServerFiles /\ SnapFiles(p) /\ UpFiles(p)
      /\ server \in Server
  BY DEF FilesInv, UpFiles, Shapes, ResolveDraftArg, ReadEdited, StartWrite, serverVars
<1>2. \A q \in Procs \ {p} : snap'[q] = snap[q] /\ res'[q] = res[q]
  BY <1>1 DEF ResolveDraftArg, ReadEdited, StartWrite
<1>3. PICK place \in {"upload", "write", "done"} :
        pc' = [pc EXCEPT ![p] = place] /\ (place = "done" \/ res'[p] = res[p])
  BY DEF ResolveDraftArg, ReadEdited, StartWrite, AfterRead
<1>4. ServerFiles'
  BY <1>1, ServerFilesKept DEF Real
<1>5. SnapFiles(p)'
  <2>1. \/ snap'[p] = snap[p]
        \/ job[p].op # "edit"
             /\ \E d \in DraftIds :
                  snap'[p] = [found |-> TRUE, id |-> d, draft |-> server.drafts[d]]
        \/ job[p].op = "edit" /\ snap'[p] = [found |-> TRUE, message |-> server.message]
    BY <1>1 DEF ResolveDraftArg, ReadEdited, StartWrite, DraftNamed, ListDrafts, DraftOps
  <2>2. \A d \in DraftIds : server.drafts[d].files \in SUBSET FileIds
    BY <1>1 DEF Server, Draft
  <2>3. CASE snap'[p] = snap[p]
    BY <1>1, <2>3 DEF SnapFiles, Real
  <2>4. ASSUME NEW d \in DraftIds, job[p].op # "edit",
               snap'[p] = [found |-> TRUE, id |-> d, draft |-> server.drafts[d]]
        PROVE  SnapFiles(p)'
    <3>1. snap'[p].draft = server.drafts[d] /\ job'[p].op # "edit"
      BY <1>1, <2>4
    <3>2. \A f \in server.drafts[d].files : Real(f)'
      BY <1>1, <2>2 DEF ServerFiles, Real
    <3> QED BY <3>1, <3>2 DEF SnapFiles
  <2>5. CASE job[p].op = "edit" /\ snap'[p] = [found |-> TRUE, message |-> server.message]
    <3>1. snap'[p].message = server.message /\ job'[p].op = "edit"
      BY <1>1, <2>5
    <3>2. \A f \in server.message.files : Real(f)'
      BY <1>1 DEF ServerFiles, Real
    <3> QED BY <3>1, <3>2 DEF SnapFiles
  <2> QED BY <2>1, <2>3, <2>4, <2>5
<1> QED BY <1>1, <1>2, <1>3, <1>4, <1>5, FilesUntouched DEF Places, Working

(* An upload is the file of nobody else, and ready when it is used.         *)
LEMMA UploadFiles ==
  ASSUME Shapes, FilesInv, NEW p \in Procs,
         UploadFileBytes(p) \/ UploadsOver(p) \/ CompleteUpload(p) \/ WaitForImages(p)
  PROVE  FilesInv'
<1> USE DEF Goto, Finish
<1>1. /\ UNCHANGED <<server, job, snap>> /\ pc[p] \in Working
      /\ DOMAIN res = Procs /\ ServerFiles /\ SnapFiles(p) /\ UpFiles(p)
      /\ files \in [FileIds -> FileStates] /\ up \in [Procs -> SUBSET FileIds]
      /\ pc \in [Procs -> Places] /\ SnapFits(p)
      /\ job[p].image \in BOOLEAN /\ (job[p].image => job[p].op = "send")
  BY JobAtHand DEF JobsFit, FilesInv, Shapes, UploadFileBytes, UploadsOver, CompleteUpload,
     WaitForImages, serverVars, Working
<1>2. \A q \in Procs \ {p} : pc'[q] = pc[q] /\ snap'[q] = snap[q] /\ res'[q] = res[q]
  BY <1>1 DEF UploadFileBytes, UploadsOver, CompleteUpload, WaitForImages
<1>3. (\A f \in FileIds : Real(f) => Real(f)') => ServerFiles' /\ SnapFiles(p)'
  <2>1. snap[p].found /\ job[p].op = "edit" => snap[p].message.files \in SUBSET FileIds
    BY <1>1 DEF SnapFits, Message
  <2>2. snap[p].found /\ job[p].op # "edit" => snap[p].draft.files \in SUBSET FileIds
    BY <1>1 DEF SnapFits, Draft
  <2> QED BY <1>1, <2>1, <2>2, ServerFilesKept DEF SnapFiles
<1>4. CASE UploadFileBytes(p)
  <2> DEFINE f == CHOOSE g \in FileIds : files[g] = "none"
  <2>1. (\E g \in FileIds : files[g] = "none") => f \in FileIds /\ files[f] = "none"
    OBVIOUS
  <2>2. UNCHANGED <<pc, res>> /\ pc[p] = "upload"
    BY <1>4 DEF UploadFileBytes
  <2>3. CASE UNCHANGED <<files, up>>
    <3>1. UpFiles(p)'
      BY <1>1, <2>2, <2>3 DEF UpFiles, Real
    <3> QED BY <1>1, <1>2, <1>3, <2>3, <3>1, FilesMove DEF Real
  <2>4. CASE /\ \E g \in FileIds : files[g] = "none"
             /\ files' = [files EXCEPT ![f] = "pending"]
             /\ up' = [up EXCEPT ![p] = up[p] \cup {f}]
    <3>1. f \in FileIds /\ files[f] = "none"
      BY <2>1, <2>4
    <3>2. \A q \in Procs : f \notin up[q]
      BY <3>1 DEF FilesInv, UpFiles
    <3>3. /\ \A g \in FileIds : files'[g] = IF g = f THEN "pending" ELSE files[g]
          /\ up'[p] = up[p] \cup {f} /\ \A q \in Procs \ {p} : up'[q] = up[q]
      BY <1>1, <2>4, <3>1
    <3>4. UpFiles(p)'
      BY <1>1, <2>2, <3>1, <3>2, <3>3 DEF UpFiles
    <3>5. \A g \in FileIds : Real(g) => Real(g)'
      BY <3>1, <3>3 DEF Real
    <3>6. \A g \in FileIds : files[g] = "ready" => files'[g] = "ready"
      BY <3>1, <3>3
    <3>7. \A g \in FileIds : files[g] # "none" => files'[g] # "none"
      BY <3>3
    <3>8. ServerFiles' /\ SnapFiles(p)'
      BY <3>5, <1>3
    <3> HIDE DEF f
    <3> QED BY <1>1, <1>2, <3>3, <3>4, <3>5, <3>6, <3>7, <3>8, FilesMove
  <2> QED BY <1>4, <2>3, <2>4 DEF UploadFileBytes
<1>5. CASE UploadsOver(p)
  <2>1. PICK place \in {"write", "complete", "done"} :
          /\ pc' = [pc EXCEPT ![p] = place] /\ (place = "done" \/ res'[p] = res[p])
          /\ place = "write" => job[p].op = "send_files"
          /\ place = "done" => res'[p] # "ok"
    BY <1>1, <1>5 DEF UploadsOver, AfterUpload
  <2>2. pc[p] # "done" /\ UNCHANGED <<files, up>>
    BY <1>5 DEF UploadsOver, serverVars
  <2>3. res'[p] # "ok"
    BY <1>1, <2>1, <2>2 DEF UpFiles
  <2>4. ServerFiles' /\ SnapFiles(p)'
    BY <1>3, <2>2 DEF Real
  <2> QED BY <1>1, <1>2, <2>1, <2>2, <2>3, <2>4, FilesUntouched DEF Places, Working
<1>6. CASE WaitForImages(p)
  <2>1. PICK place \in {"write", "done"} :
          /\ pc' = [pc EXCEPT ![p] = place] /\ (place = "done" \/ res'[p] = res[p])
          /\ place = "write" => \A f \in up[p] : files[f] = "ready"
          /\ place = "done" => res'[p] # "ok"
    BY <1>1, <1>6 DEF WaitForImages, Refusals
  <2>2. pc[p] # "done" /\ UNCHANGED <<files, up>>
    BY <1>6 DEF WaitForImages, serverVars
  <2>3. res'[p] # "ok"
    BY <1>1, <2>1, <2>2 DEF UpFiles
  <2>4. ServerFiles' /\ SnapFiles(p)'
    BY <1>3, <2>2 DEF Real
  <2> QED BY <1>1, <1>2, <2>1, <2>2, <2>3, <2>4, FilesUntouched DEF Places, Working, Real
<1>7. CASE CompleteUpload(p)
  <2>1. /\ pc[p] = "complete" /\ up' = up
        /\ \/ /\ files' = Completed(p) /\ res' = res
              /\ pc' = [pc EXCEPT ![p] = IF job[p].image THEN "images" ELSE "write"]
           \/ /\ files' \in {files, Completed(p)} /\ res'[p] # "ok"
              /\ pc' = [pc EXCEPT ![p] = "done"]
    BY <1>1, <1>7 DEF CompleteUpload, Refusals
  <2>2. \A f \in FileIds : files'[f] \in {files[f], IF f \in up[p] THEN "real" ELSE files[f]}
    BY <2>1 DEF Completed
  <2>3. pc'[p] # "done" => \A f \in up[p] : files'[f] = "real"
    BY <1>1, <2>1 DEF Completed
  <2>4. UpFiles(p)'
    <3>1. res'[p] # "ok" /\ pc'[p] # "start"
      BY <1>1, <2>1 DEF UpFiles
    <3>2. pc'[p] = "write" => ~job[p].image
      BY <1>1, <2>1
    <3> QED BY <1>1, <2>1, <2>2, <2>3, <3>1, <3>2 DEF UpFiles, Real
  <2>5. \A f \in FileIds : Real(f) => Real(f)'
    BY <2>2 DEF Real
  <2>6. ServerFiles' /\ SnapFiles(p)'
    BY <1>3, <2>5
  <2> QED BY <1>1, <1>2, <2>1, <2>2, <2>4, <2>5, <2>6, FilesMove
<1> QED BY <1>4, <1>5, <1>6, <1>7

(* After a write a draft and the message have files they had, files the     *)
(* command read, or files it uploaded and waited for.                       *)
LEMMA WritingFiles ==
  ASSUME Shapes, NEW p \in Procs, pc[p] = "write", job[p].op \notin {"invite", "reopen"},
         Accepts(server, job[p], snap[p]),
         server' = Written(server, job[p], snap[p], up[p]),
         NEW G,
         \A d \in DraftIds : server.drafts[d].files \subseteq G,
         server.message.files \subseteq G,
         job[p].op # "send_files" => up[p] \subseteq G,
         snap[p].found => IF job[p].op = "edit" THEN snap[p].message.files \subseteq G
                          ELSE snap[p].draft.files \subseteq G
  PROVE  /\ \A d \in DraftIds : server'.drafts[d].files \subseteq G
         /\ server'.message.files \subseteq G
<1> DEFINE j == job[p]
           read == snap[p]
<1>1. j.op \in Ops /\ SnapFits(p) /\ pc[p] \in Working
  BY JobAtHand DEF JobsFit, Shapes, Working
<1>2. j.op \in DraftOps => read.id \in DraftIds /\ read.draft.files \subseteq G
  BY <1>1 DEF SnapFits, Reads, DraftOps
<1>3. /\ server.drafts \in [DraftIds -> Draft] /\ server.message \in Message
      /\ server = [drafts |-> server.drafts, message |-> server.message,
                   channel |-> server.channel, later |-> server.later,
                   members |-> server.members]
  BY DEF Shapes, Server
<1>4. ASSUME NEW e \in DraftIds, NEW v, v.files \subseteq G, server' = SetDraft(server, e, v)
      PROVE  /\ \A d \in DraftIds : server'.drafts[d].files \subseteq G
             /\ server'.message.files \subseteq G
  <2>1. server'.drafts = [server.drafts EXCEPT ![e] = v] /\ server'.message = server.message
    BY <1>3, <1>4 DEF SetDraft
  <2> QED BY <2>1, <1>3, <1>4
<1>5. ASSUME NEW e \in DraftIds, server' = Discarded(server, e)
      PROVE  /\ \A d \in DraftIds : server'.drafts[d].files \subseteq G
             /\ server'.message.files \subseteq G
  <2> DEFINE v == [server.drafts[e] EXCEPT !.state = "deleted"]
  <2>1. v.files \subseteq G
    BY <1>3 DEF Draft
  <2>2. server' = SetDraft(server, e, v)
    BY <1>5, <1>3 DEF Discarded, SetDraft
  <2> QED BY <1>4, <2>1, <2>2
<1>6. ASSUME NEW b, NEW a, server' = Posted(server, j, read, b, a)
      PROVE  /\ \A d \in DraftIds : server'.drafts[d].files \subseteq G
             /\ server'.message.files \subseteq G
  <2>1. \A d \in DraftIds : [server.drafts[d] EXCEPT !.state = "sent"].files \subseteq G
    BY <1>3 DEF Draft
  <2>2. /\ server'.drafts = [d \in DraftIds |-> IF d \in Fulfilled(j, read)
               THEN [server.drafts[d] EXCEPT !.state = "sent"] ELSE server.drafts[d]]
        /\ server'.message = server.message
    BY <1>3, <1>6 DEF Posted
  <2> QED BY <2>1, <2>2
<1>7. /\ j.op \in {"draft_create", "schedule"} => FreeDraft(server) \in DraftIds
      /\ j.id \in DraftIds
  BY JobAtHand DEF Accepts, FreeDraft, JobsFit
<1>8. \A state, b, t, a : DraftContent(state, b, t, a).files = a
  BY DEF DraftContent
<1>9. CASE j.op = "draft_create"
  <2>1. server' = SetDraft(server, FreeDraft(server), DraftContent("plain", j.body, FALSE, up[p]))
    BY <1>9 DEF Written
  <2>2. DraftContent("plain", j.body, FALSE, up[p]).files \subseteq G
    BY <1>9 DEF DraftContent
  <2> QED BY <2>1, <2>2, <1>4, <1>7, <1>9
<1>10. CASE j.op = "schedule"
  <2>1. server' = SetDraft(server, FreeDraft(server), DraftContent("scheduled", j.body, FALSE, {}))
    BY <1>10 DEF Written
  <2>2. DraftContent("scheduled", j.body, FALSE, {}).files \subseteq G
    BY DEF DraftContent
  <2> QED BY <2>1, <2>2, <1>4, <1>7, <1>10
<1>11. CASE j.op = "draft_edit"
  <2>1. server' = SetDraft(server, read.id,
                           DraftContent("plain", j.body, read.draft.thread, up[p]))
    BY <1>11 DEF Written
  <2> QED BY <2>1, <1>2, <1>4, <1>8, <1>11 DEF DraftOps
<1>12. CASE j.op = "draft_schedule"
  <2>1. server' = SetDraft(server, read.id,
                    DraftContent("scheduled", read.draft.body, read.draft.thread, read.draft.files))
    BY <1>12 DEF Written, Promoted
  <2> QED BY <2>1, <1>2, <1>4, <1>8, <1>12 DEF DraftOps
<1>13. CASE j.op \in {"draft_delete", "cancel"}
  <2>1. server' = Discarded(server, IF j.op = "cancel" THEN j.id ELSE read.id)
    <3>1. CASE j.op = "cancel"
      BY <3>1 DEF Written, CancelScheduledMessage
    <3>2. CASE j.op = "draft_delete"
      BY <3>2 DEF Written
    <3> QED BY <1>13, <3>1, <3>2
  <2> QED BY <2>1, <1>2, <1>5, <1>7, <1>13 DEF DraftOps
<1>14. CASE j.op \in {"draft_send", "send", "send_files"}
  <2>1. CASE j.op = "draft_send"
    <3>1. server' = Posted(server, j, read, read.draft.body, read.draft.files)
      BY <2>1 DEF Written
    <3> QED BY <3>1, <1>6
  <2>2. CASE j.op \in {"send", "send_files"}
    <3>1. server' = Posted(server, j, read, j.body, up[p])
      BY <2>2 DEF Written
    <3> QED BY <3>1, <1>6
  <2> QED BY <1>14, <2>1, <2>2
<1>15. CASE j.op = "edit"
  <2> DEFINE m == EditedMessage(server.message, j, read, up[p])
  <2>1. server' = [server EXCEPT !.message = m]
    BY <1>15 DEF Written
  <2>2. ChangesFiles(j) => read.found
    BY <1>1, <1>15 DEF SnapFits, Reads
  <2>3. m.files = IF ChangesFiles(j) THEN EditedFileIDs(j, read, up[p]) ELSE server.message.files
    BY DEF EditedMessage
  <2>4. m.files \subseteq G
    BY <2>2, <2>3, <1>15 DEF EditedFileIDs
  <2>5. server'.drafts = server.drafts /\ server'.message = m
    BY <2>1, <1>3
  <2> QED BY <2>4, <2>5
<1> QED BY <1>1, <1>9, <1>10, <1>11, <1>12, <1>13, <1>14, <1>15 DEF Ops

(* A command writes references to what it read or has waited for.           *)
LEMMA WriteFiles == ASSUME Shapes, FilesInv, NEW p \in Procs, Write(p) PROVE FilesInv'
<1> USE DEF Goto, Finish
<1>1. /\ UNCHANGED <<job, snap, up>> /\ pc[p] = "write" /\ job[p].op \notin {"invite", "reopen"}
      /\ DOMAIN res = Procs /\ pc \in [Procs -> Places] /\ up[p] \in SUBSET FileIds
      /\ ServerFiles /\ SnapFiles(p) /\ UpFiles(p) /\ server \in Server
      /\ pc' = [pc EXCEPT ![p] = "done"] /\ SnapFits(p)
      /\ job[p].image \in BOOLEAN /\ (job[p].image => job[p].op = "send")
  BY JobAtHand DEF JobsFit, FilesInv, Shapes, Write
<1>2. /\ \A q \in Procs \ {p} : pc'[q] = pc[q] /\ snap'[q] = snap[q] /\ res'[q] = res[q]
      /\ pc'[p] = "done"
  BY <1>1 DEF Write
<1>3. files' = files \/ (job[p].op = "send_files" /\ files' = Completed(p))
  BY DEF Write
<1>4. \A f \in FileIds : files'[f] = files[f]
                         \/ (files'[f] = "real" /\ f \in up[p] /\ job[p].op = "send_files")
  BY <1>3 DEF Completed
<1>5. \A f \in FileIds : Real(f) => Real(f)'
  BY <1>4 DEF Real
<1>6. UpFiles(p)'
  BY <1>1, <1>2, <1>4 DEF UpFiles, Real
<1>7. SnapFiles(p)'
  <2>1. snap[p].found /\ job[p].op = "edit" => snap[p].message.files \in SUBSET FileIds
    BY <1>1 DEF SnapFits, Message
  <2>2. snap[p].found /\ job[p].op # "edit" => snap[p].draft.files \in SUBSET FileIds
    BY <1>1 DEF SnapFits, Draft
  <2> QED BY <1>1, <1>5, <2>1, <2>2 DEF SnapFiles
<1>8. ServerFiles'
  <2>1. CASE UNCHANGED server
    BY <1>1, <1>5, <2>1, ServerFilesKept
  <2>2. CASE /\ Accepts(server, job[p], snap[p])
             /\ server' = Written(server, job[p], snap[p], up[p])
    <3> DEFINE G == {f \in FileIds : Real(f)}
    <3>1. \A d \in DraftIds : server.drafts[d].files \subseteq G
      BY <1>1 DEF ServerFiles, Server, Draft
    <3>2. server.message.files \subseteq G
      BY <1>1 DEF ServerFiles, Server, Message
    <3>3. job[p].op # "send_files" => up[p] \subseteq G
      BY <1>1 DEF UpFiles
    <3>4. snap[p].found => IF job[p].op = "edit" THEN snap[p].message.files \subseteq G
                           ELSE snap[p].draft.files \subseteq G
      BY <1>1 DEF SnapFiles, SnapFits, Message, Draft
    <3> HIDE DEF G
    <3>5. /\ \A d \in DraftIds : server'.drafts[d].files \subseteq G
          /\ server'.message.files \subseteq G
      BY <1>1, <2>2, <3>1, <3>2, <3>3, <3>4, WritingFiles
    <3>6. \A f \in G : Real(f)'
      BY <1>5 DEF G
    <3> QED BY <3>5, <3>6 DEF ServerFiles
  <2> QED BY <2>1, <2>2 DEF Write
<1>9. \A f \in FileIds \ up[p] : files[f] = "ready" => files'[f] = "ready"
  BY <1>4
<1>10. \A f \in FileIds : files[f] # "none" => files'[f] # "none"
  BY <1>4
<1> QED BY <1>1, <1>2, <1>5, <1>6, <1>7, <1>8, <1>9, <1>10, FilesMove

(* Invites and marks refer to no file.                                      *)
LEMMA BatchFiles ==
  ASSUME Shapes, FilesInv, NEW p \in Procs, Invite(p) \/ Reopen(p) \/ BatchOver(p)
  PROVE  FilesInv'
<1> USE DEF Goto, Finish
<1>1. /\ UNCHANGED <<job, snap, up, files>> /\ pc[p] = "write"
      /\ job[p].op \in {"invite", "reopen"} /\ job[p].image = FALSE
      /\ DOMAIN res = Procs /\ SnapFiles(p) /\ UpFiles(p) /\ ServerFiles /\ server \in Server
      /\ pc \in [Procs -> Places]
  BY JobAtHand DEF JobsFit, FilesInv, Shapes, Invite, Reopen, BatchOver, serverVars
<1>2. /\ \A q \in Procs \ {p} : res'[q] = res[q]
      /\ \/ pc' = [pc EXCEPT ![p] = "write"] /\ res' = res
         \/ pc' = [pc EXCEPT ![p] = "done"]
  BY <1>1 DEF Invite, Reopen, BatchOver
<1>3. server'.drafts = server.drafts /\ server'.message = server.message
  <2>1. \/ server' = server
        \/ \E x : server' = [server EXCEPT !.members = x]
        \/ \E x : server' = [server EXCEPT !.later = x]
    <3>1. CASE Invite(p)
      BY <3>1 DEF Invite
    <3>2. CASE Reopen(p)
      BY <3>2 DEF Reopen
    <3>3. CASE BatchOver(p)
      BY <3>3 DEF BatchOver, serverVars
    <3> QED BY <3>1, <3>2, <3>3
  <2> QED BY <2>1, <1>1 DEF Server
<1>4. ServerFiles' /\ SnapFiles(p)'
  BY <1>1, <1>3, ServerFilesKept DEF Real, SnapFiles
<1>5. \A f \in up[p] : Real(f)
  BY <1>1 DEF UpFiles
<1> QED BY <1>1, <1>2, <1>4, <1>5, FilesUntouched DEF Places, Working

(* A rerun forgets what was uploaded before it.                             *)
LEMMA RerunFiles == ASSUME Shapes, FilesInv, NEW p \in Procs, Rerun(p) PROVE FilesInv'
<1>1. /\ UNCHANGED <<server, files, job>> /\ pc' = [pc EXCEPT ![p] = "start"]
      /\ res' = [res EXCEPT ![p] = None] /\ snap' = [snap EXCEPT ![p] = Unread]
      /\ up' = [up EXCEPT ![p] = {}]
      /\ DOMAIN res = Procs /\ DOMAIN snap = Procs /\ pc \in [Procs -> Places]
      /\ up \in [Procs -> SUBSET FileIds] /\ ServerFiles /\ UpFiles(p)
  BY DEF FilesInv, Shapes, Rerun, Goto, serverVars
<1>2. /\ \A q \in Procs \ {p} : pc'[q] = pc[q] /\ snap'[q] = snap[q] /\ up'[q] = up[q]
                                /\ res'[q] = res[q]
      /\ pc'[p] = "start" /\ res'[p] = None /\ snap'[p] = Unread /\ up'[p] = {}
  BY <1>1
<1>3. UpFiles(p)'
  BY <1>2 DEF UpFiles, None
<1>4. snap'[p].found = FALSE
  BY <1>2 DEF Unread
<1>5. SnapFiles(p)'
  BY <1>4 DEF SnapFiles
<1>6. ServerFiles'
  BY <1>1, ServerFilesKept DEF Real
<1> QED BY <1>1, <1>2, <1>3, <1>5, <1>6, FilesMove DEF Real

(* Slack and the user in the app do not take a file back.                   *)
LEMMA WorldFiles ==
  ASSUME Shapes, FilesInv, UNCHANGED procVars,
         \A f \in FileIds : files'[f] = files[f] \/ (Real(f) /\ files'[f] = "ready"),
         ServerFiles'
  PROVE  FilesInv'
<1>1. /\ \A f \in FileIds : Real(f) => Real(f)'
      /\ \A f \in FileIds : files[f] # "none" => files'[f] # "none"
      /\ \A f \in FileIds : files[f] = "ready" => files'[f] = "ready"
  BY DEF Real
<1>2. UNCHANGED <<pc, snap, up, res, job>>
  BY DEF procVars
<1>3. ASSUME NEW p \in Procs PROVE SnapFiles(p)' /\ UpFiles(p)'
  <2>1. SnapFiles(p) /\ UpFiles(p) /\ SnapFits(p) /\ up[p] \in SUBSET FileIds
    BY DEF FilesInv, Shapes
  <2>2. UpFiles(p)'
    BY <1>1, <1>2, <2>1 DEF UpFiles
  <2>3. snap[p].found /\ job[p].op = "edit" => snap[p].message.files \in SUBSET FileIds
    BY <2>1 DEF SnapFits, Message
  <2>4. snap[p].found /\ job[p].op # "edit" => snap[p].draft.files \in SUBSET FileIds
    BY <2>1 DEF SnapFits, Draft
  <2>5. SnapFiles(p)'
    BY <1>1, <1>2, <2>1, <2>3, <2>4 DEF SnapFiles
  <2> QED BY <2>2, <2>5
<1> QED BY <1>3 DEF FilesInv

(* Slack finishes images; the app keeps the files of what it changes.       *)
LEMMA OthersFiles == ASSUME Shapes, FilesInv, SlackProcesses \/ AppActs PROVE FilesInv'
<1>1. server \in Server /\ ServerFiles /\ files \in [FileIds -> FileStates]
  BY DEF Shapes, FilesInv
<1>2. CASE SlackProcesses
  <2>1. /\ server' = server /\ UNCHANGED procVars
        /\ \A f \in FileIds : files'[f] = files[f] \/ (Real(f) /\ files'[f] = "ready")
    BY <1>1, <1>2 DEF SlackProcesses, Real
  <2>2. ServerFiles'
    BY <2>1, ServerFilesKept, <1>1 DEF Real
  <2> QED BY <2>1, <2>2, WorldFiles
<1>3. CASE AppActs
  <2>1. UNCHANGED files /\ UNCHANGED procVars
    BY <1>3 DEF AppActs
  <2>2. /\ server.drafts \in [DraftIds -> Draft] /\ server.message \in Message
        /\ server = [drafts |-> server.drafts, message |-> server.message,
                     channel |-> server.channel, later |-> server.later,
                     members |-> server.members]
    BY <1>1 DEF Server
  <2>3. /\ \A d \in DraftIds : server'.drafts[d].files = server.drafts[d].files
        /\ server'.message.files = server.message.files
    <3>1. PICK body \in Bodies :
            \/ \E d \in ListDrafts(FALSE) : server' = [server EXCEPT !.drafts[d].body = body]
            \/ \E d \in ListDrafts(FALSE) :
                 server' = [server EXCEPT !.drafts[d].state = "sent",
                             !.channel = @ \cup {[body |-> server.drafts[d].body,
                                                  files |-> server.drafts[d].files]}]
            \/ server' = [server EXCEPT !.message.text = body]
      BY <1>3 DEF AppActs
    <3>2. ASSUME NEW d \in DraftIds, server' = [server EXCEPT !.drafts[d].body = body]
          PROVE  /\ \A e \in DraftIds : server'.drafts[e].files = server.drafts[e].files
                 /\ server'.message.files = server.message.files
      <4>1. /\ server'.drafts =
                 [server.drafts EXCEPT ![d] = [server.drafts[d] EXCEPT !.body = body]]
            /\ server'.message = server.message
        BY <2>2, <3>2
      <4>2. [server.drafts[d] EXCEPT !.body = body].files = server.drafts[d].files
        BY <2>2 DEF Draft
      <4> QED BY <4>1, <4>2, <2>2
    <3>3. ASSUME NEW d \in DraftIds,
                 server' = [server EXCEPT !.drafts[d].state = "sent",
                             !.channel = @ \cup {[body |-> server.drafts[d].body,
                                                  files |-> server.drafts[d].files]}]
          PROVE  /\ \A e \in DraftIds : server'.drafts[e].files = server.drafts[e].files
                 /\ server'.message.files = server.message.files
      <4>1. /\ server'.drafts =
                 [server.drafts EXCEPT ![d] = [server.drafts[d] EXCEPT !.state = "sent"]]
            /\ server'.message = server.message
        BY <2>2, <3>3
      <4>2. [server.drafts[d] EXCEPT !.state = "sent"].files = server.drafts[d].files
        BY <2>2 DEF Draft
      <4> QED BY <4>1, <4>2, <2>2
    <3>4. ASSUME server' = [server EXCEPT !.message.text = body]
          PROVE  /\ server'.drafts = server.drafts
                 /\ server'.message.files = server.message.files
      BY <2>2, <3>4 DEF Message
    <3> QED BY <3>1, <3>2, <3>3, <3>4 DEF ListDrafts
  <2>4. ServerFiles'
    BY <1>1, <2>1, <2>3 DEF ServerFiles, Real
  <2> QED BY <2>1, <2>4, WorldFiles
<1> QED BY <1>2, <1>3

(* What is there at the start is ready.                                     *)
LEMMA InitFiles == Init => FilesInv
<1> SUFFICES ASSUME Init PROVE FilesInv
  OBVIOUS
<1>1. /\ server.drafts = StartDrafts /\ server.message = StartMessage
      /\ \A p \in Procs : /\ snap[p] = Unread /\ up[p] = {} /\ pc[p] = "start"
                          /\ res[p] = None
  BY DEF Init
<1>2. /\ \A f \in StartMessage.files : f \in FileIds /\ files[f] = "ready"
      /\ \A d \in DraftIds, f \in FileIds : f \in StartDrafts[d].files => files[f] = "ready"
  BY OutboxAssumption DEF Init, Message
<1>3. ServerFiles
  BY <1>1, <1>2 DEF ServerFiles, Real
<1>4. \A p \in Procs : snap[p].found = FALSE
  BY <1>1 DEF Unread
<1>5. ASSUME NEW p \in Procs PROVE SnapFiles(p) /\ UpFiles(p)
  BY <1>1, <1>4 DEF SnapFiles, UpFiles, None
<1> QED BY <1>3, <1>5 DEF FilesInv

(* Every step keeps the files true.                                         *)
LEMMA NextFiles == Shapes /\ FilesInv /\ [Next]_vars => FilesInv'
<1> SUFFICES ASSUME Shapes, FilesInv, [Next]_vars PROVE FilesInv'
  OBVIOUS
<1>1. CASE UNCHANGED vars
  <2>1. UNCHANGED <<server, files>> /\ UNCHANGED procVars
    BY <1>1 DEF vars, serverVars
  <2>2. ServerFiles'
    BY <2>1 DEF FilesInv, ServerFiles, Real
  <2> QED BY <2>1, <2>2, WorldFiles
<1>2. CASE \E p \in Procs : Step(p)
  BY <1>2, ReadFiles, UploadFiles, WriteFiles, BatchFiles, RerunFiles DEF Step
<1>3. CASE SlackProcesses \/ AppActs
  BY <1>3, OthersFiles
<1> QED BY <1>1, <1>2, <1>3 DEF Next

(* No draft and no message ever refers to a file that is not there, and no  *)
(* image is shown before Slack has it ready, for any commands side by side  *)
(* and whatever uploads and answers are lost (UploadUnsharedFiles,          *)
(* WaitForImages).                                                          *)
THEOREM FilesAreReadyWhenUsed == Spec => []OnlyReadyFilesUsed
<1>1. Shapes /\ FilesInv => OnlyReadyFilesUsed
  BY DEF FilesInv, ServerFiles, UpFiles, Real, OnlyReadyFilesUsed
<1>2. IInv => Shapes
  BY DEF IInv
<1> QED
  BY InitIInv, NextIInv, InitFiles, NextFiles, <1>1, <1>2, PTL DEF Spec

(* A command and its reruns post a draft at most once, for any number of    *)
(* commands, reruns and drafts, whatever answers are lost and whatever the  *)
(* user does in the app (runDraftSend).                                     *)
THEOREM DraftsArePostedOnce == Spec => []DraftPostedOnce
<1>1. IInv => DraftPostedOnce
  BY DEF IInv, PostInv, DraftPostedOnce
<1> QED
  BY InitIInv, NextIInv, <1>1, PTL DEF Spec

-----------------------------------------------------------------------------
(* Answers A of an invite are about the users S, each once, and all of them *)
(* are in.                                                                  *)
Reported(A, S) ==
  /\ \A a \in A : a = <<a[1], a[2]>> /\ a[1] \in S /\ a[2] \in {"ok", "already_in_channel"}
  /\ \A u \in S : \E a \in A : a[1] = u
  /\ \A a, b \in A : a[1] = b[1] => a = b

(* An invite has reported whom it no longer has to invite; done, everybody. *)
InviteInv ==
  /\ \A p \in Procs : res[p] = "ok" => pc[p] = "done"
  /\ \A p \in Procs : job[p].op = "invite" =>
       /\ pc[p] \in {"start", "upload", "complete", "images"} => answers[p] = {}
       /\ pc[p] \in {"upload", "complete", "images"} => todo[p] = Users
       /\ pc[p] = "write" =>
            Reported(answers[p], Users \ todo[p]) /\ Users \ todo[p] \subseteq server.members
       /\ res[p] = "ok" => Reported(answers[p], Users) /\ Users \subseteq server.members
(* The same, of functions on the commands.                                  *)
BatchInv ==
  DOMAIN todo = Procs /\ DOMAIN answers = Procs /\ InviteInv

(* Nothing is reported of nobody.                                           *)
LEMMA NothingReported == Reported({}, {})
BY DEF Reported

(* One more user, one more answer.                                          *)
LEMMA OneMore ==
  ASSUME NEW A, NEW S, Reported(A, S), NEW u, u \notin S,
         NEW answer \in {"ok", "already_in_channel"}
  PROVE  Reported(A \cup {<<u, answer>>}, S \cup {u})
<1> DEFINE B == A \cup {<<u, answer>>}
<1>1. \A a \in B : a = <<a[1], a[2]>> /\ a[1] \in S \cup {u} /\ a[2] \in {"ok", "already_in_channel"}
  BY DEF Reported
<1>2. \A v \in S \cup {u} : \E a \in B : a[1] = v
  <2>1. <<u, answer>> \in B /\ <<u, answer>>[1] = u
    OBVIOUS
  <2>2. \A v \in S : \E a \in B : a[1] = v
    BY DEF Reported
  <2> QED BY <2>1, <2>2
<1>3. \A a, b \in B : a[1] = b[1] => a = b
  BY DEF Reported
<1> QED BY <1>1, <1>2, <1>3 DEF Reported

(* As many answers as users.                                                *)
LEMMA AsMany ==
  ASSUME NEW A, NEW S, IsFiniteSet(S), Reported(A, S)
  PROVE  {a[1] : a \in A} = S /\ Cardinality(A) = Cardinality(S)
<1> DEFINE f == [u \in S |-> CHOOSE a \in A : a[1] = u]
<1>1. \A u \in S : f[u] \in A /\ f[u][1] = u
  BY DEF Reported
<1>2. f \in Injection(S, A)
  BY <1>1 DEF Injection, IsInjective
<1>3. f \in Surjection(S, A)
  <2>1. \A a \in A : a[1] \in S /\ f[a[1]] = a
    BY <1>1 DEF Reported
  <2> QED BY <1>1, <2>1 DEF Surjection
<1>4. ExistsBijection(S, A)
  BY <1>2, <1>3 DEF ExistsBijection, Bijection
<1>5. Cardinality(A) = Cardinality(S)
  BY <1>4, FS_Bijection
<1>6. {a[1] : a \in A} = S
  BY DEF Reported
<1> QED BY <1>5, <1>6

(* No write takes a user out of the channel.                                *)
LEMMA MembersStay ==
  ASSUME IInv, BatchInv, [Next]_vars
  PROVE  server.members \subseteq server'.members /\ job' = job
<1>s. /\ Shapes /\ server \in Server
      /\ server = [drafts |-> server.drafts, message |-> server.message,
                   channel |-> server.channel, later |-> server.later,
                   members |-> server.members]
  BY DEF IInv, Shapes, Server
<1>1. ASSUME NEW p \in Procs, Step(p) PROVE server.members \subseteq server'.members
  <2>1. CASE Write(p)
    <3> DEFINE j == job[p]
    <3>1. CASE server' = server
      BY <3>1
    <3>2. CASE server' = Written(server, j, snap[p], up[p])
      <4>1. j.op \in Ops \ {"invite", "reopen"}
        BY <1>s, <2>1, JobAtHand DEF JobsFit, Write
      <4>2. Written(server, j, snap[p], up[p]).members = server.members
        BY <1>s, <4>1 DEF Written, SetDraft, Posted, Promoted, Discarded, CancelScheduledMessage, Ops
      <4> QED BY <3>2, <4>2
    <3> QED BY <2>1, <3>1, <3>2 DEF Write
  <2>2. CASE Invite(p)
    BY <1>s, <2>2 DEF Invite
  <2>3. CASE Reopen(p)
    BY <1>s, <2>3 DEF Reopen
  <2>4. CASE ~Write(p) /\ ~Invite(p) /\ ~Reopen(p)
    BY <1>1, <2>4 DEF Step, ResolveDraftArg, ReadEdited, StartWrite, UploadFileBytes, UploadsOver,
       CompleteUpload, WaitForImages, BatchOver, Rerun, serverVars
  <2> QED BY <2>1, <2>2, <2>3, <2>4
<1>2. ASSUME SlackProcesses PROVE server.members \subseteq server'.members
  BY <1>2 DEF SlackProcesses
<1>3. ASSUME AppActs PROVE server.members \subseteq server'.members
  BY <1>s, <1>3 DEF AppActs
<1>4. ASSUME UNCHANGED vars PROVE server.members \subseteq server'.members
  BY <1>4 DEF vars, serverVars
<1>5. job' = job
  BY DEF Next, Step, ResolveDraftArg, ReadEdited, StartWrite, UploadFileBytes, UploadsOver,
     CompleteUpload, WaitForImages, Write, Invite, Reopen, BatchOver, Rerun, SlackProcesses, AppActs,
     procVars, vars
<1> QED BY <1>1, <1>2, <1>3, <1>4, <1>5 DEF Next

-----------------------------------------------------------------------------
(* One command, of those that invite.                                       *)
Inviting(p) ==
  /\ res[p] = "ok" => pc[p] = "done"
  /\ job[p].op = "invite" =>
       /\ pc[p] \in {"start", "upload", "complete", "images"} => answers[p] = {}
       /\ pc[p] \in {"upload", "complete", "images"} => todo[p] = Users
       /\ pc[p] = "write" =>
            Reported(answers[p], Users \ todo[p]) /\ Users \ todo[p] \subseteq server.members
       /\ res[p] = "ok" => Reported(answers[p], Users) /\ Users \subseteq server.members

(* The invariant speaks of each command by itself.                          *)
LEMMA InviteParts == InviteInv <=> \A p \in Procs : Inviting(p)
BY DEF InviteInv, Inviting

(* A command that does not move keeps what it reported.                     *)
LEMMA InvitingStays ==
  ASSUME NEW q \in Procs, Inviting(q), job' = job, server.members \subseteq server'.members,
         pc'[q] = pc[q], res'[q] = res[q], todo'[q] = todo[q], answers'[q] = answers[q]
  PROVE  Inviting(q)'
BY DEF Inviting, Reported

(* A command that moves reports what happened.                              *)
LEMMA InvitingStep ==
  ASSUME IInv, TodoInv, BatchInv, NEW p \in Procs, Step(p), job' = job,
         server.members \subseteq server'.members
  PROVE  Inviting(p)' /\ DOMAIN answers' = Procs
<1> USE DEF Goto, Finish
<1>s. /\ server \in Server /\ DOMAIN pc = Procs /\ DOMAIN res = Procs /\ DOMAIN todo = Procs
      /\ DOMAIN answers = Procs /\ Inviting(p) /\ pc[p] \in Places
  BY InviteParts DEF IInv, Shapes, BatchInv
<1>1. CASE job[p].op # "invite"
  <2>1. res'[p] = "ok" => pc'[p] = "done"
    BY <1>1, <1>s DEF Step, ResolveDraftArg, ReadEdited, StartWrite, UploadFileBytes, UploadsOver,
       CompleteUpload, WaitForImages, Write, Invite, Reopen, BatchOver, Rerun, Inviting, Refusals, None
  <2>2. DOMAIN answers' = Procs
    BY <1>s DEF Step, ResolveDraftArg, ReadEdited, StartWrite, UploadFileBytes, UploadsOver,
       CompleteUpload, WaitForImages, Write, Invite, Reopen, BatchOver, Rerun
  <2> QED BY <1>1, <2>1, <2>2 DEF Inviting
<1>2. CASE job[p].op = "invite"
  <2>1. CASE StartWrite(p)
    <3>1. /\ pc[p] = "start" /\ pc'[p] \in {"upload", "write"} /\ todo'[p] = Users
          /\ UNCHANGED <<answers, res>>
      BY <1>2, <1>s, <2>1 DEF StartWrite, AfterRead
    <3>2. answers'[p] = {} /\ res'[p] # "ok"
      BY <1>2, <1>s, <3>1 DEF Inviting
    <3>3. Users \ todo'[p] = {}
      BY <3>1
    <3> QED BY <1>2, <1>s, <3>1, <3>2, <3>3, NothingReported DEF Inviting, Reported
  <2>2. CASE UploadFileBytes(p) \/ UploadsOver(p) \/ CompleteUpload(p) \/ WaitForImages(p)
    <3>1. /\ UNCHANGED <<todo, answers>> /\ pc[p] \in {"upload", "complete", "images"}
          /\ \/ UNCHANGED <<pc, res>>
             \/ pc'[p] \in {"complete", "images", "write"} /\ res' = res
             \/ pc'[p] = "done" /\ res'[p] # "ok"
      BY <1>s, <2>2 DEF UploadFileBytes, UploadsOver, CompleteUpload, WaitForImages, AfterUpload, Refusals
    <3>2. answers[p] = {} /\ todo[p] = Users /\ res[p] # "ok"
      BY <1>2, <1>s, <3>1 DEF Inviting
    <3>3. Users \ todo[p] = {}
      BY <3>2
    <3> QED BY <1>2, <1>s, <3>1, <3>2, <3>3, NothingReported DEF Inviting, Reported
  <2>3. CASE Invite(p)
    <3>1. PICK u \in todo[p], answer \in {"ok", "already_in_channel", "retry", "human"} :
             /\ answer = "ok" => u \notin server.members
             /\ answer = "already_in_channel" => u \in server.members
             /\ answer = "ok" => server' = [server EXCEPT !.members = @ \cup {u}]
             /\ todo' = [todo EXCEPT ![p] = @ \ {u}]
             /\ answers' = [answers EXCEPT ![p] = @ \cup {<<u, answer>>}]
             /\ IF InviteFails(answer) THEN Finish(p, answer) ELSE UNCHANGED <<pc, res>>
      BY <2>3 DEF Invite
    <3>2. pc[p] = "write" /\ u \in Users /\ res[p] # "ok"
      BY <1>2, <1>s, <2>3, <3>1 DEF Invite, Inviting, TodoInv
    <3>3. CASE InviteFails(answer)
      <4>1. pc'[p] = "done" /\ res'[p] # "ok" /\ DOMAIN answers' = Procs
        BY <1>s, <3>1, <3>3 DEF InviteFails
      <4> QED BY <4>1 DEF Inviting
    <3>4. CASE ~InviteFails(answer)
      <4>1. /\ UNCHANGED <<pc, res>> /\ answer \in {"ok", "already_in_channel"}
            /\ todo'[p] = todo[p] \ {u} /\ answers'[p] = answers[p] \cup {<<u, answer>>}
            /\ DOMAIN answers' = Procs
        BY <1>s, <3>1, <3>4 DEF InviteFails
      <4>2. u \in server'.members
        BY <1>s, <3>1, <4>1 DEF Server
      <4> DEFINE A == answers[p] S == Users \ todo[p]
      <4>3. Reported(A, S) /\ S \subseteq server.members /\ u \notin S
        BY <1>2, <1>s, <3>2 DEF Inviting
      <4> HIDE DEF A, S
      <4>4. Reported(A \cup {<<u, answer>>}, S \cup {u})
        BY <4>1, <4>3, OneMore
      <4>5. Users \ todo'[p] = S \cup {u}
        BY <3>2, <4>1 DEF S
      <4>6. Users \ todo'[p] \subseteq server'.members
        BY <4>2, <4>3, <4>5
      <4>7. Reported(answers'[p], Users \ todo'[p])
        BY <4>1, <4>4, <4>5 DEF A
      <4> QED BY <1>2, <3>2, <4>1, <4>6, <4>7 DEF Inviting, Reported
    <3> QED BY <3>3, <3>4
  <2>4. CASE BatchOver(p)
    <3>1. /\ pc[p] = "write" /\ todo[p] = {} /\ UNCHANGED <<answers, server>>
          /\ pc'[p] = "done"
      BY <1>s, <2>4 DEF BatchOver, serverVars
    <3>2. Reported(answers[p], Users) /\ Users \subseteq server.members
      <4>1. Users \ todo[p] = Users
        BY <3>1
      <4> QED BY <1>2, <1>s, <3>1, <4>1 DEF Inviting
    <3> QED BY <1>2, <1>s, <3>1, <3>2 DEF Inviting, Reported
  <2>5. CASE Rerun(p)
    <3>1. pc'[p] = "start" /\ answers'[p] = {} /\ res'[p] = None /\ DOMAIN answers' = Procs
      BY <1>s, <2>5 DEF Rerun
    <3> QED BY <1>2, <3>1 DEF Inviting, None
  <2>6. ~(ResolveDraftArg(p) \/ ReadEdited(p) \/ Write(p) \/ Reopen(p))
    BY <1>2 DEF ResolveDraftArg, ReadEdited, Write, Reopen, DraftOps
  <2> QED BY <2>1, <2>2, <2>3, <2>4, <2>5, <2>6 DEF Step
<1> QED BY <1>1, <1>2

(* Together they are inductive.                                             *)
LEMMA InviteNext == IInv /\ TodoInv /\ BatchInv /\ [Next]_vars => BatchInv'
<1> SUFFICES ASSUME IInv, TodoInv, BatchInv, [Next]_vars PROVE BatchInv'
  OBVIOUS
<1>1. server.members \subseteq server'.members /\ job' = job
  BY MembersStay
<1>2. DOMAIN todo' = Procs
  BY InvitesFit DEF TodoInv
<1>3. CASE \E p \in Procs : Step(p)
  <2>1. PICK p \in Procs : Step(p)
    BY <1>3
  <2>2. Inviting(p)' /\ DOMAIN answers' = Procs
    BY <1>1, <2>1, InvitingStep
  <2>3. ASSUME NEW q \in Procs, q # p PROVE Inviting(q)'
    <3>1. pc'[q] = pc[q] /\ res'[q] = res[q] /\ todo'[q] = todo[q] /\ answers'[q] = answers[q]
      BY <2>1, <2>3 DEF Step, ResolveDraftArg, ReadEdited, StartWrite, UploadFileBytes, UploadsOver,
         CompleteUpload, WaitForImages, Write, Invite, Reopen, BatchOver, Rerun, Goto, Finish,
         BatchInv, IInv, Shapes
    <3> QED BY <1>1, <3>1, InviteParts, InvitingStays DEF BatchInv
  <2>4. InviteInv'
    BY <2>2, <2>3 DEF InviteInv, Inviting
  <2> QED BY <1>2, <2>2, <2>4 DEF BatchInv
<1>4. CASE SlackProcesses \/ AppActs \/ UNCHANGED vars
  <2>1. UNCHANGED <<pc, res, todo, answers>>
    BY <1>4 DEF SlackProcesses, AppActs, vars, procVars
  <2>2. \A q \in Procs : Inviting(q)'
    BY <1>1, <2>1, InviteParts, InvitingStays DEF BatchInv
  <2>3. InviteInv'
    BY <2>2 DEF InviteInv, Inviting
  <2> QED BY <1>2, <2>1, <2>3 DEF BatchInv
<1> QED BY <1>3, <1>4 DEF Next

(* An invite that reports success has every user in the channel, each       *)
(* reported once, for any number of users, whoever else invites, and        *)
(* however often it was run (InviteUsersToChannel, channeladmin.go).        *)
THEOREM InvitesAreTrue == Spec => []InvitesAreReported
<1>1. Init => BatchInv
  BY DEF Init, BatchInv, InviteInv, None, Reported
<1>2. BatchInv => InvitesAreReported
  <2> SUFFICES ASSUME BatchInv, NEW p \in Procs, job[p].op = "invite", res[p] = "ok"
               PROVE  /\ Users \subseteq server.members
                      /\ {a[1] : a \in answers[p]} = Users
                      /\ Cardinality(answers[p]) = Cardinality(Users)
    BY DEF InvitesAreReported
  <2>1. Reported(answers[p], Users) /\ Users \subseteq server.members
    BY DEF BatchInv, InviteInv
  <2>2. IsFiniteSet(Users)
    BY OutboxAssumption
  <2> QED BY <2>1, <2>2, AsMany
<1> QED BY InitIInv, NextIInv, InviteNext, <1>1, <1>2, PTL DEF Spec

-----------------------------------------------------------------------------
(* What a write of an edit leaves of the message it read.                   *)
LEMMA EditedKeeps ==
  ASSUME Shapes, NEW p \in Procs, pc[p] = "write", job[p].op = "edit",
         snap[p].found => snap[p].message = server.message,
         NEW m, m = EditedMessage(server.message, job[p], snap[p], up[p])
  PROVE  /\ server.message.files \ m.files \subseteq job[p].remove
         /\ m.text # server.message.text => m.text = job[p].body
<1>1. ChangesFiles(job[p]) => snap[p].found
  BY DEF Shapes, SnapFits, Reads, Working
<1>2. job[p].body = None => ChangesFiles(job[p])
  BY JobAtHand DEF JobsFit
<1>3. CASE ChangesFiles(job[p])
  BY <1>1, <1>3 DEF EditedMessage, EditedFileIDs
<1>4. CASE ~ChangesFiles(job[p])
  BY <1>2, <1>4 DEF EditedMessage
<1> QED BY <1>3, <1>4

(* No command and nobody in the app takes a file off the message that was   *)
(* not to be removed, nor changes its text to one that was not asked for,   *)
(* unless the message changed between an edit's read and its write          *)
(* (buildEditParams, message_mutate.go).                                    *)
THEOREM EditsAreNarrow == Spec => EditsKeepTheRest
<1> DEFINE Stale(p) == snap[p].found /\ job[p].op = "edit" /\ snap[p].message # server.message
           Narrow == \/ \E p \in Procs : Stale(p)
                     \/ /\ server.message.files \ server'.message.files
                             \subseteq UNION {job[p].remove : p \in Procs}
                        /\ server'.message.text # server.message.text
                             => server'.message.text \in Bodies \cup {job[p].body : p \in Procs}
<1>1. ASSUME IInv, [Next]_vars PROVE [Narrow]_vars
  <2> SUFFICES ASSUME \A p \in Procs : ~Stale(p) PROVE Narrow \/ UNCHANGED vars
    OBVIOUS
  <2>s. /\ Shapes /\ server \in Server
        /\ server = [drafts |-> server.drafts, message |-> server.message,
                     channel |-> server.channel, later |-> server.later,
                     members |-> server.members]
        /\ server.message \in Message
    BY <1>1 DEF IInv, Shapes, Server
  <2>1. CASE server'.message = server.message
    BY <2>1
  <2>2. ASSUME NEW p \in Procs, Step(p), server'.message # server.message PROVE Narrow
    <3>1. Write(p)
      BY <2>s, <2>2 DEF Step, ResolveDraftArg, ReadEdited, StartWrite, UploadFileBytes, UploadsOver,
         CompleteUpload, WaitForImages, Invite, Reopen, BatchOver, Rerun, serverVars
    <3>2. server' = Written(server, job[p], snap[p], up[p]) /\ pc[p] = "write"
          /\ job[p].op \in Ops \ {"invite", "reopen"}
      BY <2>s, <2>2, <3>1, JobAtHand DEF JobsFit, Write
    <3>3. job[p].op = "edit"
      <4>1. job[p].op # "edit" => Written(server, job[p], snap[p], up[p]).message = server.message
        BY <2>s, <3>2 DEF Written, SetDraft, Posted, Promoted, Discarded, CancelScheduledMessage, Ops
      <4> QED BY <2>2, <3>2, <4>1
    <3> DEFINE m == EditedMessage(server.message, job[p], snap[p], up[p])
    <3>4. server'.message = m
      BY <2>s, <3>2, <3>3 DEF Written
    <3>5. /\ server.message.files \ m.files \subseteq job[p].remove
          /\ m.text # server.message.text => m.text = job[p].body
      <4> HIDE DEF m
      <4>1. m = EditedMessage(server.message, job[p], snap[p], up[p])
        BY DEF m
      <4> QED BY <2>s, <3>2, <3>3, <4>1, EditedKeeps
    <3> QED BY <3>4, <3>5
  <2>3. CASE SlackProcesses
    BY <2>1, <2>3 DEF SlackProcesses
  <2>4. CASE AppActs
    <3>1. PICK body \in Bodies :
            \/ \E d \in ListDrafts(FALSE) : server' = [server EXCEPT !.drafts[d].body = body]
            \/ \E d \in ListDrafts(FALSE) :
                 server' = [server EXCEPT !.drafts[d].state = "sent",
                             !.channel = @ \cup {[body |-> server.drafts[d].body,
                                                  files |-> server.drafts[d].files]}]
            \/ server' = [server EXCEPT !.message.text = body]
      BY <2>4 DEF AppActs
    <3>2. CASE server' = [server EXCEPT !.message.text = body]
      <4>1. server'.message = [server.message EXCEPT !.text = body]
        BY <2>s, <3>2
      <4>2. server'.message.files = server.message.files /\ server'.message.text = body
        BY <2>s, <4>1 DEF Message
      <4> QED BY <4>2
    <3>3. CASE server'.message = server.message
      BY <2>1, <3>3
    <3> QED BY <2>s, <3>1, <3>2, <3>3
  <2> QED BY <1>1, <2>1, <2>2, <2>3, <2>4 DEF Next
<1>2. EditsKeepTheRest <=> [][Narrow]_vars
  BY DEF EditsKeepTheRest
<1> QED BY InitIInv, NextIInv, <1>1, <1>2, PTL DEF Spec

-----------------------------------------------------------------------------
(* When what is written is sent or reminded of (Schedule), for any moment    *)
(* and any words.                                                            *)
CONSTANT MaxScheduleDays
Times == INSTANCE Schedule

(* The words that the grammar reads: a day, or none, and a clock.            *)
Clocks == [hour : Nat, minute : Nat, half : {"am", "pm", "24"}]
WordArguments ==
  {w \in [form : {"words"}, next : BOOLEAN, day : 0..8, clock : Clocks] :
     w.day \in {Times!Today, Times!Tomorrow} => ~w.next}

(* A day and a minute make a moment, and a moment has one of each.           *)
LEMMA DaysAndMinutes ==
  ASSUME NEW now \in Nat
  PROVE  /\ Times!DayOf(now) \in Nat
         /\ \E r \in 0..1439 : now = Times!DayOf(now) * 1440 + r
<1> QED BY DEF Times!DayOf, Times!MinutesPerDay

(* Every day is a week and a day of it.                                     *)
LEMMA WeeksAndDays ==
  ASSUME NEW d \in Nat
  PROVE  /\ d % 7 \in 0..6 /\ d \div 7 \in Nat
         /\ d = (d \div 7) * 7 + (d % 7)
<1> QED OBVIOUS

(* A week and a day of it make one day.                                     *)
LEMMA DayHasWeek ==
  ASSUME NEW q \in Nat, NEW r \in 0..6
  PROVE  (q * 7 + r) \div 7 = q /\ (q * 7 + r) % 7 = r
<1> QED OBVIOUS

(* The minutes of a day.                                                     *)
MinutesOfDay == 0..1439

(* A clock that parseTimeOfDay accepts reads as its minute on the dial.      *)
LEMMA ClockReads ==
  ASSUME NEW c \in Clocks, Times!ParseTimeOfDay(c) # -1
  PROVE  /\ Times!ParseTimeOfDay(c) = Times!DialMinute(c)
         /\ Times!DialMinute(c) \in MinutesOfDay
<1>1. Times!ClockAccepted(c)
  BY DEF Times!ParseTimeOfDay
<1>2. c.hour \in Nat /\ c.minute \in 0..59 /\ c.half \in {"am", "pm", "24"}
  BY <1>1 DEF Clocks, Times!ClockAccepted
<1>3. CASE c.half = "24"
  <2>1. c.hour <= 23
    BY <1>1, <1>3 DEF Times!ClockAccepted
  <2>2. Times!Hour24(c) = c.hour
    BY <1>3 DEF Times!Hour24
  <2>3. Times!DialMinute(c) = 60 * c.hour + c.minute
    BY <1>3 DEF Times!DialMinute
  <2>4. Times!ParseTimeOfDay(c) = 60 * c.hour + c.minute
    BY <1>1, <2>2 DEF Times!ParseTimeOfDay
  <2>5. 60 * c.hour + c.minute \in 0..1439
    BY <1>2, <2>1
  <2> QED BY <2>3, <2>4, <2>5 DEF MinutesOfDay
<1>4. CASE c.half # "24"
  <2>1. c.hour \in 1..12
    BY <1>1, <1>4 DEF Times!ClockAccepted
  <2>2. Times!Hour24(c) = (c.hour % 12) + (IF c.half = "pm" THEN 12 ELSE 0)
    <3>1. c.hour % 12 = IF c.hour = 12 THEN 0 ELSE c.hour
      BY <2>1
    <3>2. CASE c.half = "am"
      BY <3>1, <3>2, <2>1 DEF Times!Hour24
    <3>3. CASE c.half = "pm"
      BY <3>1, <3>3, <2>1 DEF Times!Hour24
    <3> QED BY <1>2, <1>4, <3>2, <3>3
  <2>3. Times!DialMinute(c) = 60 * (c.hour % 12) + c.minute + (IF c.half = "pm" THEN 720 ELSE 0)
    BY <1>4 DEF Times!DialMinute
  <2>4. c.hour % 12 \in 0..11
    BY <2>1
  <2> DEFINE h == c.hour % 12
  <2>5. Times!ParseTimeOfDay(c) = 60 * (h + (IF c.half = "pm" THEN 12 ELSE 0)) + c.minute
    BY <1>1, <2>2 DEF Times!ParseTimeOfDay
  <2>9. h \in 0..11
    BY <2>4
  <2> HIDE DEF h
  <2>6. CASE c.half = "pm"
    <3>1. Times!ParseTimeOfDay(c) = 60 * (h + 12) + c.minute
      BY <2>5, <2>6
    <3>2. Times!DialMinute(c) = 60 * h + c.minute + 720
      BY <2>3, <2>6 DEF h
    <3>3. 60 * (h + 12) + c.minute = 60 * h + c.minute + 720
          /\ 60 * h + c.minute + 720 \in 0..1439
      BY <1>2, <2>9
    <3> QED BY <3>1, <3>2, <3>3 DEF MinutesOfDay
  <2>7. CASE c.half # "pm"
    <3>1. Times!ParseTimeOfDay(c) = 60 * (h + 0) + c.minute
      BY <2>5, <2>7
    <3>2. Times!DialMinute(c) = 60 * h + c.minute + 0
      BY <2>3, <2>7 DEF h
    <3>3. 60 * (h + 0) + c.minute = 60 * h + c.minute + 0
          /\ 60 * h + c.minute + 0 \in 0..1439
      BY <1>2, <2>9
    <3> QED BY <3>1, <3>2, <3>3 DEF MinutesOfDay
  <2> QED BY <2>6, <2>7
<1> QED BY <1>3, <1>4

(* The days of the next two weeks that words mean, from today.               *)
MeansDay(w, now, n) ==
  LET ahead == w.day - (Times!DayOf(now) % 7) IN
  CASE w.day = Times!Today -> n = 0
    [] w.day = Times!Tomorrow -> n = 1
    [] OTHER -> IF w.next THEN n = ahead + 7 ELSE n \in {ahead, ahead + 7, ahead + 14}

(* They mean these and no others.                                            *)
LEMMA MeantDays ==
  ASSUME NEW w \in WordArguments, NEW now \in Nat, NEW n \in 0..14,
         Times!DialMinute(w.clock) \in MinutesOfDay
  PROVE  Times!Means(w, now, Times!OnDay(now, n, Times!DialMinute(w.clock))) <=>
           MeansDay(w, now, n)
<1> USE DEF MeansDay
<1> DEFINE d == Times!DayOf(now)
           q == d \div 7
           m == Times!DialMinute(w.clock)
           t == (d + n) * 1440 + m
<1>1. d \in Nat /\ q \in Nat /\ d % 7 \in 0..6 /\ d = q * 7 + (d % 7)
  <2>1. d \in Nat
    BY DaysAndMinutes
  <2> HIDE DEF d
  <2> QED BY <2>1, WeeksAndDays
<1>2. Times!OnDay(now, n, m) = t
  BY DEF Times!OnDay, Times!MinutesPerDay
<1> HIDE DEF d, q, m
<1>3. Times!DayOf(t) = d + n /\ t % 1440 = m
  <2>1. d + n \in Nat /\ m \in 0..1439
    BY <1>1 DEF m, MinutesOfDay
  <2>2. ASSUME NEW k, k = d + n PROVE Times!DayOf(k * 1440 + m) = k /\ (k * 1440 + m) % 1440 = m
    <3>1. k \in Nat
      BY <2>1, <2>2
    <3>2. m \in 0..1439
      BY <2>1
    <3> QED BY <3>1, <3>2 DEF Times!DayOf, Times!MinutesPerDay
  <2> QED BY <2>2
<1>4. Times!Means(w, now, t) <=>
        CASE w.day = Times!Today -> d + n = d
          [] w.day = Times!Tomorrow -> d + n = d + 1
          [] OTHER -> (d + n) % 7 = w.day /\ (w.next => (d + n) \div 7 = q + 1)
  BY <1>3 DEF Times!Means, Times!MinutesPerDay, Times!Weekday, d, q, m
<1>5. CASE w.day \in 0..6
  <2>1. (d + n) % 7 \in 0..6 /\ (d + n) \div 7 \in Nat
        /\ d + n = ((d + n) \div 7) * 7 + ((d + n) % 7)
    BY <1>1, WeeksAndDays
  <2>2. ASSUME NEW k \in {-1, 0, 1, 2}
        PROVE  n = w.day - (d % 7) + 7 * k => (d + n) % 7 = w.day /\ (d + n) \div 7 = q + k
    <3>1. n = w.day - (d % 7) + 7 * k => d + n = (q + k) * 7 + w.day /\ q + k \in Nat
      BY <1>1, <1>5
    <3> QED BY <1>5, <3>1, DayHasWeek
  <2> DEFINE p == (d + n) \div 7
             r == (d + n) % 7
             x == d % 7
  <2>3. r = w.day => n = w.day - x + 7 * (p - q)
    BY <1>1, <1>5, <2>1
  <2>4. p \in Nat /\ x \in 0..6 /\ q \in Nat /\ r \in 0..6
    BY <1>1, <2>1
  <2> HIDE DEF p, r, x
  <2>5. r = w.day => p - q = 0 \/ p - q = 1 \/ p - q = 2
    <3>1. p - q \in Int /\ w.day - x \in Int
      BY <1>5, <2>4
    <3> DEFINE k == p - q
               y == w.day - x
    <3>2. y >= -6 /\ y <= 6
      BY <1>5, <2>4
    <3>3. r = w.day => n = y + 7 * k
      BY <2>3
    <3> HIDE DEF k, y
    <3> QED BY <3>1, <3>2, <3>3 DEF k, y
  <2>6. r = w.day => n \in {w.day - x, w.day - x + 7, w.day - x + 14}
    BY <1>5, <2>3, <2>4, <2>5
  <2>7. r = w.day /\ p = q + 1 => n = w.day - x + 7
    BY <1>5, <2>3, <2>4
  <2> QED BY <1>2, <1>4, <1>5, <2>2, <2>6, <2>7 DEF p, r, x, m, d, Times!Today, Times!Tomorrow
<1>6. CASE w.day \in {Times!Today, Times!Tomorrow}
  BY <1>1, <1>2, <1>4, <1>6 DEF m, Times!Today, Times!Tomorrow
<1>7. w.day \in 0..6 \/ w.day \in {Times!Today, Times!Tomorrow}
  BY DEF WordArguments, Times!Today, Times!Tomorrow
<1> QED BY <1>5, <1>6, <1>7

(* What words schedule is the first future moment that they describe, and    *)
(* they are refused only when there is none (parseNamedFutureTime), whatever *)
(* the moment and the clock, as long as the horizon is two weeks away        *)
(* (schedule_time.go has 120 days): WordsMeanTheNextMoment.                  *)
THEOREM WordsAreTheNextMoment ==
  ASSUME MaxScheduleDays \in Nat, MaxScheduleDays >= 15,
         NEW w \in WordArguments, NEW now \in Nat
  PROVE  Times!WordsMeanTheNextMoment(w, now)
<1> SUFFICES ASSUME Times!ParseTimeOfDay(w.clock) # -1
             PROVE  Times!WordsMeanTheNextMoment(w, now)
  BY DEF Times!WordsMeanTheNextMoment
<1> DEFINE m == Times!DialMinute(w.clock)
           d == Times!DayOf(now)
           got == Times!ResolveSchedulePostAt(Times!Absent, w, now)
           named == Times!ParseNamedFutureTime(w, now)
           At(n) == (d + n) * 1440 + m
           Meant(n) == n \in 0..14 /\ At(n) > now /\ Times!Means(w, now, At(n))
           moments == {Times!OnDay(now, n, Times!DialMinute(w.clock)) : n \in 0..14}
           ahead == {t \in moments : t > now /\ Times!Means(w, now, t)}
<1>1. m \in MinutesOfDay /\ Times!ParseTimeOfDay(w.clock) = m
  BY ClockReads DEF WordArguments
<1>2. PICK r \in 0..1439 : d \in Nat /\ now = d * 1440 + r
  BY DaysAndMinutes
<1>3. \A n : Times!OnDay(now, n, m) = At(n)
  BY DEF Times!OnDay, Times!MinutesPerDay
<1>4. got = IF named <= now \/ named > now + MaxScheduleDays * 1440 THEN 0 ELSE named
  <2>1. Times!ParseRelativeSchedule(w, now) = named
    BY DEF Times!ParseRelativeSchedule, WordArguments
  <2>2. Times!Absent # w
    BY DEF Times!Absent, WordArguments
  <2> HIDE DEF named
  <2> QED BY <2>1, <2>2 DEF Times!ResolveSchedulePostAt, Times!Refused, Times!MinutesPerDay
<1>5. ahead = {At(n) : n \in {k \in 0..14 : Meant(k)}}
  BY <1>3
<1> HIDE DEF named, m, d, got
<1>6. \A n \in 0..14, k \in 0..14 : (n <= k => At(n) <= At(k)) /\ At(n) \in Nat
  <2> SUFFICES ASSUME NEW n \in 0..14, NEW k \in 0..14
               PROVE  (n <= k => At(n) <= At(k)) /\ At(n) \in Nat
    OBVIOUS
  <2> QED BY <1>1, <1>2 DEF MinutesOfDay
<1>7. ASSUME NEW k \in 0..14, named = At(k), Meant(k), \A n \in 0..14 : Meant(n) => k <= n
      PROVE  Times!WordsMeanTheNextMoment(w, now)
  <2>1. At(k) > now /\ At(k) <= now + 15 * 1440
    BY <1>1, <1>2, <1>7 DEF MinutesOfDay
  <2>2. now + 15 * 1440 <= now + MaxScheduleDays * 1440
    OBVIOUS
  <2>3. got = At(k)
    <3>1. named \in Nat /\ MaxScheduleDays * 1440 \in Nat
      BY <1>6, <1>7
    <3> HIDE DEF At
    <3> QED BY <1>4, <1>7, <2>1, <2>2, <3>1
  <2>4. got \in ahead
    BY <1>5, <1>7, <2>3
  <2>5. \A t \in ahead : got <= t
    <3> HIDE DEF At, Meant, ahead
    <3>1. \A n \in 0..14 : Meant(n) => got <= At(n)
      BY <1>6, <1>7, <2>3
    <3> QED BY <1>5, <3>1
  <2> HIDE DEF ahead
  <2> QED BY <2>4, <2>5 DEF got, ahead, Times!WordsMeanTheNextMoment
<1>8. ASSUME named = 0, \A n \in 0..14 : ~Meant(n)
      PROVE  Times!WordsMeanTheNextMoment(w, now)
  <2>1. got = Times!Refused
    BY <1>4, <1>8 DEF Times!Refused
  <2>2. ahead = {}
    BY <1>5, <1>8
  <2> HIDE DEF ahead
  <2> QED BY <2>1, <2>2 DEF got, ahead, Times!WordsMeanTheNextMoment
<1>9. \A n \in 0..14 : Meant(n) <=>
        /\ At(n) > now
        /\ CASE w.day = Times!Today -> n = 0
             [] w.day = Times!Tomorrow -> n = 1
             [] OTHER -> IF w.next THEN n = w.day - (d % 7) + 7
                         ELSE n \in {w.day - (d % 7), w.day - (d % 7) + 7, w.day - (d % 7) + 14}
  <2> SUFFICES ASSUME NEW n \in 0..14
               PROVE  Times!Means(w, now, At(n)) <=>
        CASE w.day = Times!Today -> n = 0
          [] w.day = Times!Tomorrow -> n = 1
          [] OTHER -> IF w.next THEN n = w.day - (d % 7) + 7
                      ELSE n \in {w.day - (d % 7), w.day - (d % 7) + 7, w.day - (d % 7) + 14}
    OBVIOUS
  <2> HIDE DEF At, Meant, moments, ahead
  <2>1. Times!OnDay(now, n, m) = At(n)
    BY <1>3
  <2>2. Times!DialMinute(w.clock) \in MinutesOfDay
    BY <1>1 DEF m
  <2>3. Times!Means(w, now, Times!OnDay(now, n, Times!DialMinute(w.clock))) <=> MeansDay(w, now, n)
    BY <2>2, MeantDays
  <2> QED BY <2>1, <2>3 DEF m, d, MeansDay
<1>10. CASE w.day = Times!Today
  <2>1. named = IF At(0) > now THEN At(0) ELSE 0
    BY <1>1, <1>3, <1>10 DEF named, Times!ParseNamedFutureTime, Times!Refused,
       Times!Today, Times!Tomorrow
  <2> HIDE DEF At, Meant
  <2>2. CASE At(0) > now
    <3>1. \A n \in 0..14 : Meant(n) <=> n = 0
      BY <1>9, <1>10, <2>2 DEF Times!Today, Times!Tomorrow
    <3> QED BY <1>7, <2>1, <2>2, <3>1
  <2>3. CASE ~(At(0) > now)
    <3>1. \A n \in 0..14 : ~Meant(n)
      BY <1>9, <1>10, <2>3 DEF Times!Today, Times!Tomorrow
    <3> QED BY <1>8, <2>1, <2>3, <3>1
  <2> QED BY <2>2, <2>3
<1>11. CASE w.day = Times!Tomorrow
  <2>1. named = At(1)
    BY <1>1, <1>3, <1>11 DEF named, Times!ParseNamedFutureTime, Times!Today, Times!Tomorrow
  <2>2. At(1) > now
    BY <1>1, <1>2 DEF MinutesOfDay
  <2> HIDE DEF At, Meant
  <2>3. \A n \in 0..14 : Meant(n) <=> n = 1
    BY <1>9, <1>11, <2>2 DEF Times!Today, Times!Tomorrow
  <2> QED BY <1>7, <2>1, <2>3
<1>12. CASE w.day \in 0..6
  <2> DEFINE x == d % 7
             days == Times!DaysUntil(w.day, now, w.next)
  <2>1. x \in 0..6
    BY <1>2
  <2>2. days = IF w.day - x < 0 \/ w.next THEN w.day - x + 7 ELSE w.day - x
    BY DEF Times!DaysUntil, Times!Weekday, d
  <2>3. named = IF At(days) > now THEN At(days) ELSE At(days) + 7 * 1440
    BY <1>1, <1>3, <1>12 DEF named, Times!ParseNamedFutureTime, Times!WeekdayTime,
       Times!Today, Times!Tomorrow, Times!MinutesPerDay
  <2>4. w.next \in BOOLEAN
    BY DEF WordArguments
  <2>5. days \in 0..13
    BY <1>12, <2>1, <2>2
  <2>6. \A n \in 0..14 : Meant(n) <=>
          /\ At(n) > now
          /\ IF w.next THEN n = w.day - x + 7 ELSE n \in {w.day - x, w.day - x + 7, w.day - x + 14}
    BY <1>9, <1>12 DEF Times!Today, Times!Tomorrow
  <2> HIDE DEF x, days
  <2>7. CASE At(days) > now
    <3>1. Meant(days) /\ \A n \in 0..14 : Meant(n) => days <= n
      <4> HIDE DEF At, Meant
      <4> QED BY <1>12, <2>1, <2>2, <2>4, <2>5, <2>6, <2>7
    <3>2. days \in 0..14 /\ named = At(days)
      BY <2>3, <2>5, <2>7
    <3> HIDE DEF At, Meant
    <3> QED BY <1>7, <3>1, <3>2
  <2>8. CASE ~(At(days) > now)
    <3>1. days = 0
      BY <1>1, <1>2, <2>5, <2>8 DEF MinutesOfDay
    <3>2. At(7) = At(days) + 7 * 1440 /\ At(7) > now
      BY <1>1, <1>2, <3>1 DEF MinutesOfDay
    <3>3. named = At(7)
      BY <2>3, <2>8, <3>2
    <3>4. w.day - x = 0 /\ ~w.next
      BY <1>12, <2>1, <2>2, <2>4, <3>1
    <3> HIDE DEF At, Meant
    <3>5. \A n \in 0..14 : Meant(n) => n # 0
      BY <2>6, <2>8, <3>1
    <3>6. Meant(7) /\ \A n \in 0..14 : Meant(n) => 7 <= n
      BY <1>12, <2>1, <2>6, <3>2, <3>4, <3>5
    <3> QED BY <1>7, <3>3, <3>6
  <2> QED BY <2>7, <2>8
<1> QED BY <1>10, <1>11, <1>12 DEF WordArguments, Times!Today, Times!Tomorrow
===============================================================================
