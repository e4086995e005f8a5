------------------------------ MODULE LocalFiles ------------------------------
(***************************************************************************)
(* Two kinds of files that agent-slack processes share and that are edited *)
(* in opposite ways: the settings (settings.go), replaced under a lock,    *)
(* and the downloads of one identity (download.go, canvas.go), written in  *)
(* place and reused without one.  A process runs one command; it may be    *)
(* killed at any step, which frees its lock and leaves its files as they   *)
(* are.                                                                    *)
(***************************************************************************)
EXTENDS Naturals, FiniteSets

CONSTANTS
  Commands,
  Keys,         \* settable keys, KnownKeys
  Values,       \* durations
  CanvasEdits,  \* bound: edits of the canvas in Slack
  MaxKills      \* bound: processes killed

None == "none"

ASSUME FilesAssumption == None \notin Commands

(* Commands.  "file" is a file that never changes, read by file download or *)
(* with its message; "canvas" is one that does, read by canvas get.         *)
BadKey == "a key that is none"
Set == [op : {"set"}, key : Keys \cup {BadKey}, value : Values \cup {"no duration"}]
Unset == [op : {"unset"}, key : Keys, value : {None}]
GetFile == [op : {"get"}, path : {"file", "canvas"}]
Purge == [op : {"purge"}]
Jobs == Set \cup Unset \cup GetFile \cup Purge

(* The contents of a path: nothing, a whole login page, or the whole of     *)
(* what Slack had after some number of edits; while it is written and after *)
(* a write that went wrong, an empty file, a part of what Slack had, or     *)
(* what has something of a login page in it: with the title or the form it  *)
(* is known by, or without.                                                 *)
NoFile == [is |-> "absent", edits |-> 0]
LoginPage == [is |-> "login", edits |-> 0]
Content(n) == [is |-> "content", edits |-> n]
NoBytes == [is |-> "empty", edits |-> 0]
Part == [is |-> "part", edits |-> 0]
LoginPart == [is |-> "loginPart", edits |-> 0]
KnownLoginPart == [is |-> "knownPart", edits |-> 0]

IsTorn(content) == content \in {NoBytes, Part, LoginPart, KnownLoginPart}
OfLogin(content) == content \in {LoginPage, LoginPart, KnownLoginPart}

VARIABLES
  settings,   \* [Keys -> Values or None]: the settings file
  lock,       \* who holds its lock, or None
  files,      \* [paths -> contents]: the downloads
  open,       \* [Commands -> how it has its path open for writing]
  broken,     \* history: paths whose file two wrote at once or a write of
              \* which was broken off
  errorFile,  \* paths that have a .download-error.txt
  slack,      \* [edits, signedIn]: the canvas, and whether the token is good
  proc,       \* [Commands -> [pc, job, seen, body, since, result]]
  committed,  \* history: [Keys -> the value of the last edit that succeeded]
  kills

pages == <<files, open, broken>>
filesVars == <<settings, lock, pages, errorFile, slack, proc, committed, kills>>

NoResult == [is |-> "none", edits |-> 0]
Failed == [is |-> "error", edits |-> 0]
Done == [is |-> "done", edits |-> 0]

FilesInit ==
  /\ settings = [k \in Keys |-> None]
  /\ committed = [k \in Keys |-> None]
  /\ lock = None
  /\ files = [path \in {"file", "canvas"} |-> NoFile]
  /\ open = [p \in Commands |-> "none"]
  /\ broken = {}
  /\ errorFile = {}
  /\ slack = [edits |-> 0, signedIn |-> TRUE]
  /\ proc \in [Commands -> {[pc |-> "start", job |-> job, seen |-> settings, body |-> NoFile,
                          since |-> 0, result |-> NoResult] : job \in Jobs}]
  /\ kills = 0

At(p, pc) == proc[p].pc = pc
Goto(p, pc) == proc' = [proc EXCEPT ![p].pc = pc]
Ends(p, result) == proc' = [proc EXCEPT ![p].pc = "ended", ![p].result = result]

-----------------------------------------------------------------------------
(* config set and unset.                                                    *)
Edits(p) == proc[p].job.op \in {"set", "unset"}

(* Set: a key or a duration that is none is refused before the lock.        *)
Valid(job) == job.op = "unset" \/ (job.key \in Keys /\ job.value \in Values)

RefuseSetting(p) ==
  /\ At(p, "start") /\ Edits(p) /\ ~Valid(proc[p].job)
  /\ Ends(p, Failed)
  /\ UNCHANGED <<settings, lock, pages, errorFile, slack, committed, kills>>

StartEdit(p) ==
  /\ At(p, "start") /\ Edits(p) /\ Valid(proc[p].job)
  /\ Goto(p, "lock")
  /\ UNCHANGED <<settings, lock, pages, errorFile, slack, committed, kills>>

(* WithLock, and the Load inside it.                                        *)
LockSettings(p) ==
  /\ At(p, "lock") /\ lock = None
  /\ lock' = p
  /\ Goto(p, "load")
  /\ UNCHANGED <<settings, pages, errorFile, slack, committed, kills>>

(* Seeded fault: what is edited was read when the command started.          *)
LoadNothing(p) ==
  /\ At(p, "load")
  /\ Goto(p, "save")
  /\ UNCHANGED <<settings, lock, pages, errorFile, slack, committed, kills>>

LoadSettings(p) ==
  /\ At(p, "load")
  /\ proc' = [proc EXCEPT ![p].pc = "save", ![p].seen = settings]
  /\ UNCHANGED <<settings, lock, pages, errorFile, slack, committed, kills>>

(* save: the file is replaced in one step; then unlock.                     *)
SaveSettings(p) ==
  LET job == proc[p].job IN
  /\ At(p, "save")
  /\ settings' = [proc[p].seen EXCEPT ![job.key] = job.value]
  /\ committed' = [committed EXCEPT ![job.key] = job.value]
  /\ lock' = None
  /\ Ends(p, Done)
  /\ UNCHANGED <<pages, errorFile, slack, kills>>

(* The write of the temporary file fails: nothing is replaced.              *)
SaveFails(p) ==
  /\ At(p, "save")
  /\ lock' = None
  /\ Ends(p, Failed)
  /\ UNCHANGED <<settings, pages, errorFile, slack, committed, kills>>

-----------------------------------------------------------------------------
(* Downloads.                                                               *)
Path(p) == proc[p].job.path

(* DownloadFile: an existing file is reused.                                *)
LookUp(p) ==
  /\ At(p, "start") /\ proc[p].job.op = "get"
  /\ proc' = [proc EXCEPT ![p].pc = IF files[Path(p)] = NoFile THEN "fetch" ELSE "read",
                          ![p].since = slack.edits]
  /\ UNCHANGED <<settings, lock, pages, errorFile, slack, committed, kills>>

(* AllowHTML: a canvas is HTML, and so is a login page.                     *)
AllowHTML(path) == path = "canvas"

Fetched(p) ==
  IF ~slack.signedIn THEN LoginPage ELSE Content(IF Path(p) = "canvas" THEN slack.edits ELSE 0)

Fetch(p) ==
  /\ At(p, "fetch")
  /\ slack.signedIn \/ AllowHTML(Path(p))
  /\ proc' = [proc EXCEPT ![p].pc = "truncate", ![p].body = Fetched(p)]
  /\ UNCHANGED <<settings, lock, pages, errorFile, slack, committed, kills>>

(* No answer, an error status or a login page.  In place of a message's     *)
(* file an error file is written; canvas get only reports the error.        *)
FetchFails(p) ==
  /\ At(p, "fetch")
  /\ errorFile' = errorFile \cup ({Path(p)} \ {"canvas"})
  /\ Ends(p, Failed)
  /\ UNCHANGED <<settings, lock, pages, slack, committed, kills>>

(* os.WriteFile.  The file is opened and emptied, by one process alone or   *)
(* by two that both found none; of one that a purge unlinks meanwhile what  *)
(* is written goes nowhere ("gone").                                        *)
HasOpen(p, path) == open[p] \in {"alone", "shared"} /\ Path(p) = path

TruncateFile(p) ==
  LET others == {q \in Commands \ {p} : HasOpen(q, Path(p))} IN
  /\ At(p, "truncate")
  /\ files' = [files EXCEPT ![Path(p)] = NoBytes]
  /\ IF others = {}
     THEN open' = [open EXCEPT ![p] = "alone"] /\ broken' = broken \ {Path(p)}
     ELSE /\ open' = [q \in Commands |-> IF q \in others \cup {p} THEN "shared" ELSE open[q]]
          /\ broken' = broken \cup {Path(p)}
  /\ Goto(p, "write")
  /\ UNCHANGED <<settings, lock, errorFile, slack, committed, kills>>

Puts(p, contents) ==
  IF open[p] = "gone"
  THEN UNCHANGED files
  ELSE \E content \in contents : files' = [files EXCEPT ![Path(p)] = content]

(* What a part of one body over another may be.                             *)
Torn(body, old) ==
  IF OfLogin(body) \/ OfLogin(old) THEN {LoginPart, KnownLoginPart} ELSE {Part}

WriteSome(p) ==
  /\ At(p, "write")
  /\ Puts(p, Torn(proc[p].body, files[Path(p)]))
  /\ Goto(p, "rest")
  /\ UNCHANGED <<settings, lock, open, broken, errorFile, slack, committed, kills>>

(* The whole body, at the start of the file or after its own part.  Beside  *)
(* another writer it may not be all there is: the other's may be longer, or *)
(* have emptied the file after the first part.                              *)
Written(p) ==
  LET body == proc[p].body
      old == files[Path(p)] IN
  {body} \cup
    IF open[p] = "alone" \/ old = body \/ (old = NoBytes /\ At(p, "write"))
    THEN {}
    ELSE IF body = LoginPage /\ At(p, "write") THEN {KnownLoginPart} ELSE Torn(body, old)

WriteFile(p) ==
  /\ At(p, "write") \/ At(p, "rest")
  /\ Puts(p, Written(p))
  /\ open' = [open EXCEPT ![p] = "none"]
  /\ Goto(p, "read")
  /\ UNCHANGED <<settings, lock, broken, errorFile, slack, committed, kills>>

(* A file is closed before it has the whole body.                           *)
BreaksOff(p) ==
  /\ open' = [open EXCEPT ![p] = "none"]
  /\ broken' = broken \cup {path \in DOMAIN files : HasOpen(p, path)}

(* The file cannot be opened, or the disk is full: what is written stays.   *)
WriteFails(p) ==
  /\ proc[p].pc \in {"truncate", "write", "rest"}
  /\ BreaksOff(p)
  /\ errorFile' = errorFile \cup ({Path(p)} \ {"canvas"})
  /\ Ends(p, Failed)
  /\ UNCHANGED <<settings, lock, files, slack, committed, kills>>

(* Seeded fault: a login page is a canvas like any other.                   *)
NeverLogin(content) == FALSE

(* authPageRe: the title or the form of a login page.                       *)
IsAuthPage(content) == content \in {LoginPage, KnownLoginPart}

(* A file's path is returned; a canvas is read back and converted.          *)
ReadBack(p) ==
  LET content == files[Path(p)] IN
  /\ At(p, "read")
  /\ content # NoFile
  /\ Ends(p, IF Path(p) = "canvas" /\ IsAuthPage(content) THEN Failed ELSE content)
  /\ UNCHANGED <<settings, lock, pages, errorFile, slack, committed, kills>>

(* A purge took it meanwhile: a canvas cannot be read, a path leads nowhere.*)
ReadGone(p) ==
  /\ At(p, "read") /\ files[Path(p)] = NoFile
  /\ Ends(p, IF Path(p) = "canvas" THEN Failed ELSE NoFile)
  /\ UNCHANGED <<settings, lock, pages, errorFile, slack, committed, kills>>

(* cache purge --downloads.                                                 *)
PurgeFiles(p) ==
  /\ At(p, "start") /\ proc[p].job.op = "purge"
  /\ files' = [path \in DOMAIN files |-> NoFile]
  /\ open' = [q \in Commands |-> IF open[q] = "none" THEN "none" ELSE "gone"]
  /\ broken' = {}
  /\ errorFile' = {}
  /\ Ends(p, Done)
  /\ UNCHANGED <<settings, lock, slack, committed, kills>>

-----------------------------------------------------------------------------
Kill(p) ==
  /\ kills < MaxKills
  /\ ~At(p, "ended")
  /\ kills' = kills + 1
  /\ lock' = IF lock = p THEN None ELSE lock
  /\ BreaksOff(p)
  /\ Ends(p, NoResult)
  /\ UNCHANGED <<settings, files, errorFile, slack, committed>>

EditCanvas ==
  /\ slack.edits < CanvasEdits
  /\ slack' = [slack EXCEPT !.edits = @ + 1]
  /\ UNCHANGED <<settings, lock, pages, errorFile, proc, committed, kills>>

(* The credentials expire once and are renewed.                             *)
SignOut ==
  /\ slack.signedIn /\ slack.edits = 0
  /\ slack' = [slack EXCEPT !.signedIn = FALSE]
  /\ UNCHANGED <<settings, lock, pages, errorFile, proc, committed, kills>>

SignIn ==
  /\ ~slack.signedIn
  /\ slack' = [slack EXCEPT !.signedIn = TRUE]
  /\ UNCHANGED <<settings, lock, pages, errorFile, proc, committed, kills>>

FilesStep(p) ==
  \/ RefuseSetting(p) \/ StartEdit(p) \/ LockSettings(p) \/ LoadSettings(p)
  \/ SaveSettings(p) \/ SaveFails(p)
  \/ LookUp(p) \/ Fetch(p) \/ FetchFails(p) \/ TruncateFile(p) \/ WriteSome(p) \/ WriteFile(p)
  \/ WriteFails(p) \/ ReadBack(p) \/ ReadGone(p) \/ PurgeFiles(p)

AllEnded == (\A p \in Commands : At(p, "ended")) /\ UNCHANGED filesVars

FilesNext ==
  \/ \E p \in Commands : FilesStep(p) \/ Kill(p)
  \/ EditCanvas \/ SignOut \/ SignIn
  \/ AllEnded

FilesSpec == FilesInit /\ [][FilesNext]_filesVars /\ \A p \in Commands : WF_filesVars(FilesStep(p))

-----------------------------------------------------------------------------
FilesTypeOK ==
  /\ settings \in [Keys -> Values \cup {None}]
  /\ lock \in Commands \cup {None}
  /\ open \in [Commands -> {"none", "alone", "shared", "gone"}]
  /\ broken \subseteq DOMAIN files
  /\ \A p \in Commands : lock = p <=> proc[p].pc \in {"load", "save"}

(* Two processes that set different keys both keep their value, whatever is *)
(* killed: each key has what the last edit of it to succeed gave it         *)
(* (settings.mutate).                                                       *)
EditsSurvive == settings = committed

(* A path that none is writing holds a part only where two wrote at once or *)
(* a write was broken off, by a kill or an error.                           *)
TornOnlyIfBroken ==
  \A path \in DOMAIN files : IsTorn(files[path]) =>
    path \in broken \/ \E p \in Commands : HasOpen(p, path)

(* A login page is never handed over, neither whole nor what is known for   *)
(* one, and nothing of one is ever where a file goes.  Of a canvas,         *)
(* authPageRe sees the title and the form: a part of a login page without   *)
(* either passes for a canvas, so none is left lying but by a write that    *)
(* went wrong (DownloadFile, authPageRe).                                   *)
NoLoginPageServed ==
  /\ \A p \in Commands : proc[p].result \notin {LoginPage, KnownLoginPart}
  /\ ~OfLogin(files["file"])
  /\ TornOnlyIfBroken

(* What is reported as read is whole, and so no part of a login page.       *)
DownloadsAreWhole == \A p \in Commands : ~IsTorn(proc[p].result)

(* "Existing files are reused (file IDs are immutable, so the cache never   *)
(* goes stale)" (DownloadFile): a canvas is at least as new as it was when  *)
(* the command asked for it.                                                *)
CacheNeverStale ==
  \A p \in Commands : proc[p].job.op = "get" /\ proc[p].job.path = "canvas"
    /\ proc[p].result.is = "content" => proc[p].result.edits >= proc[p].since

(* Every command ends, also beside one that is killed with the lock held.   *)
CommandsEnd == \A p \in Commands : <>At(p, "ended")
=============================================================================
