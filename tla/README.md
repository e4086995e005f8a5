# agent-slack in TLA+

A verification project for `agent-slack`, a command-line Slack client written in
Go: models of the parts of the program that decide something, the instances that
TLC checks, and theorems that TLAPS proves. It has three kinds of model:

* **state machines** for what depends on the order of things: the event engine
  behind `message await` and `message stream`, the credential store, the HTTP
  client, paged reads, the resolution caches, actions on apps with their socket
  listener, the commands that write, and the files of settings and downloads;
* **pure algorithms**, as functions of their input: schedule times, account and
  target resolution, transcripts, unread and saved items, forms, workflows, the
  way from flags to a call, reference expansion and the cache directory;
* an **abstract specification** of delivery that both event runs are shown to
  implement.

Contents: [the system](#the-system), [the modules](#the-modules),
[reading the models](#reading-the-models), [the runs](#the-runs),
[bounds and fairness](#bounds-and-fairness), [the proofs](#the-proofs),
[departures](#departures), [what is not modelled](#what-is-not-modelled),
[plan](#plan).

To check a run: `tlc -workers 2 -config watch_stream.cfg MCEventWatch.tla`.
To check proofs: `tlapm EventWatchProofs.tla`.

## The system

One binary, one command per process. State that outlives a process is in files
and in the macOS keychain; state inside one is a few goroutines around an HTTP
client and, for some commands, a websocket. An MCP server runs the same commands
as parallel subprocesses, which is where much of the interleaving comes from.

| component | state | what is hard | what makes it correct | modelled by |
|---|---|---|---|---|
| event filter, watch session (`eventfilter.go`, `eventwatch.go`, `eventconversation.go`) | seen keys, pending reactions, watermark, cursors, counts | copies of one event over three paths, two identities of a reaction, a full report, a caller that fails | at most once; the cursor passes nothing undecided | `EventFilter`, `EventSession`, `RunClock` |
| socket run (`eventwatch.go`, `eventbackfill.go`) | connection, frames, attempts | drops, catch-ups of several requests, deadlines inside any of them | nothing lost in silence; it ends, and says truly why | `EventWatch`, `CatchUp`, `Workspace` |
| poll run (`eventpoll.go`) | read position, idle time | an empty conversation, a deadline inside a request | as above, and a deadline is not a failure | `EventPoll` |
| watch commands (`cli/message_watch.go`) | none | permalinks, threads, chained awaits | the run follows the conversation that was asked for | `WatchCommand` |
| credential store (`internal/credential`) | file, keychain | two stores written one after the other, lock-free readers, a migration, deaths | a stored secret can be had back, a removed one is gone | `CredentialStore`, `Accounts` |
| file lock (`internal/fslock`), settings | flock on a side file; one file | readers take no lock, processes die | one writer, no lost edit | `CredentialStore`, `LocalFiles` |
| principal enrollment (`cli/mcp_enroll.go`) | a store entry per principal | check and act in two cycles | a slot keeps its identity | `CredentialStore` |
| identity resolution, targets and permalinks | none | a permalink names a workspace of its own | the command acts as the account that was meant | `Accounts`, `Targets` |
| HTTP client (`client.go`, `errors.go`) | auth, refreshed flag | one refresh for concurrent calls, rate limits, lost answers | no call twice, bounded effort, true notices | `ApiClient`, `SlackErrors` |
| history reads and scans (`messages.go`, `paginate.go`, `search_*.go`) | page cursors | messages posted and deleted between pages | nothing twice, nothing stable missed | `History` |
| resolution caches (`cache.go` and its users) | one JSON file per kind and identity | no lock, whole-file writes, a mark that makes a miss an answer | "not found" is true of an instant since it was looked up | `ResolutionCache` |
| reference expansion, cache administration | - | partial caches, single failures, several layouts on disk | what is cached is shown; a purge takes what it names | `References`, `CacheTree` |
| block actions, workflow forms (`blockaction*.go`, `workflow*.go`) | one press, one view | the answer may precede the call's return, or get lost | pressed at most once, no form left open, no deletion invented | `SocketAnswer`, `Forms`, `Workflows` |
| drafts, sends, edits, invites, saved items | what Slack holds | lost answers and reruns, the same draft in the app, uploads not ready yet | posted once; an edit changes what it names | `Outbox`, `Compose` |
| schedule times (`schedule_time.go`) | none | names of days and hours | the next such moment | `Schedule` |
| later, unreads | none | missing counts, full pages | nothing waits unseen | `Inbox` |
| downloads and canvases (`download.go`) | files | login pages, parts, reuse | what is read is Slack's file | `LocalFiles` |
| transcripts (`render/transcript.go`) | none | a day and a speaker are written once | the text can be read back | `Transcript` |
| desktop and browser extraction, rendering, command tree, mock server | - | pure I/O, codecs, formatting, a fixture | - | - |

`PROJECT.json` lists the components with the files of each and what is left out,
and, under `hazards`, the places where this code can go wrong in a way a unit
test would hardly reach; each names the properties here that cover it.

## The modules

| module | models | source |
|---|---|---|
| `EventFilter` | scope and narrowing, cursors and identities of events | `eventfilter.go`, `eventclassify.go` |
| `Workspace` | what people do, and what a read returns at an instant | external, and `historySince`, `FetchThread`, `fetchSince` |
| `EventSession` | `watchSession` and `WatchResult`: `offer` | `eventwatch.go`, `eventconversation.go` |
| `CatchUp` | a catch-up of several requests, the workspace going on in between | `eventbackfill.go` |
| `RunClock` | the run's context inside the caller's; `deadlineStopReason` | `eventwatch.go` |
| `EventWatch`, `EventPoll` | `runSocket`, `reconnect`, `consume`; `runPoll` | `eventwatch.go`, `eventbackfill.go`, `eventpoll.go` |
| `EventDelivery` | what both runs promise: what is due is delivered once; all of it, and in order, until a loss is admitted | abstract specification |
| `CredentialStore` | the store, the lock and the enrollment, one action per step of a process | `internal/credential`, `fslock.go`, `mcp_enroll.go` |
| `SlackErrors`, `ApiClient` | error codes and who can fix them; concurrent calls of one client | `errors.go`, `client.go`, `cli/context.go` |
| `History` | lists, lookups, threads, scans and searches, one page per step | `messages.go`, `paginate.go`, `search_scan.go`, `search_messages.go`, `search_files.go` |
| `ResolutionCache` | invocations over one cache file | `cache.go`, `usercache.go`, `channelcache.go`, `usergroups.go`, `emojicache.go`, `cli/emoji.go` |
| `SocketAnswer` | a command, its listener, the app and the network | `blockaction*.go`, `rtm.go`, `workflow_submit.go`, `workflow_formstate.go`, `views.go` |
| `Outbox` | commands that write, their reruns, and the user in the app | `drafts.go`, `chat.go`, `upload.go`, `message_draft.go`, `message_mutate.go`, `channeladmin.go`, `later.go` |
| `LocalFiles` | processes over the settings, a download and a canvas | `settings.go`, `fslock.go`, `download.go`, `canvas.go` |
| `Schedule`, `Accounts`, `Targets`, `Transcript`, `Inbox`, `Forms`, `Workflows`, `Compose`, `WatchCommand`, `References`, `CacheTree` | pure algorithms, each with what it is for | named in their headers |
| `MC...` | the small instances of the runs | |
| `...Proofs` | theorems about the module of that name; `KeptFilesProofs` about `ResolutionCache`, `LocalFiles` and `CacheTree` | |

`EventFilter <- Workspace <- EventSession <- CatchUp` is a chain of EXTENDS;
`EventWatch` and `EventPoll` extend `CatchUp` and `RunClock` and instantiate
`EventDelivery` with a refinement mapping, checked as `ImplementsDelivery` and
proved (`StreamsDeliver`, `PollsDeliver`).
`ApiClient` extends `SlackErrors`, `Targets` extends `Accounts` and `Workflows`
extends `Forms`. The other state machines stand alone. `MCAlgorithms` puts the
pure modules together: its one variable is an input, which a step picks from the
bounded domain of one of them.

An operator introduced by "Seeded fault" is the definition beside it with one
plausible mistake in it. No specification uses one; `PROJECT.json` pairs each
with the property that must fail when it takes the place of the real definition,
so that every property is known to be able to fail.

## Reading the models

**Events.** A Slack timestamp is a number of half ticks: things happen at even
instants, and the odd instant after one is `justAfter` of it, the cursor of a
reaction read back from history. `log` is everything that ever happened; a read
returns what is on it when it is made, capped, and the pages of one read are one
step. A catch-up is one step per request (`ReadChannel`, `ReadThread`), then
`ReadDone`, then one `Replay` per event. `wire` is what was sent on the
connection and not consumed; a `Drop` keeps any prefix of it. Time is counted in
backoffs, and the two contexts may end at any step.

**Credentials.** A process takes a command, opens the store, then loads (file
first, then one secret at a time, without the lock) or edits (lock, migrate,
change, one `Push` per secret, write), or, for an enrollment, both. A secret is
the number of the command that brought it. `Dies` may happen anywhere: the lock
is freed, the memory is gone; a failed write leaves exactly this behind, so it
is the same action. History variables (`want`, `abandoned`, `watched`) say what a
load must find and carry no behaviour.

**Calls.** One step of `ApiClient` is a request built, an answer, a sleep, or one
side of the refresh. `effects` counts how often Slack carried the call out,
which a lost answer hides from the client.

**Pages.** A step of `History` is one page; messages arrive and are deleted
between pages; `disturbed` remembers which, since a page cursor may honestly
pass those.

**Caches.** `ResolutionCache` is one category. A file is written whole; a torn
or missing one reads as empty. Entries and mark are stamped with their own
times, and a save may cross another. `Forget` is emoji's. Each answer of "not
found" carries the instant it trusts; `Absent` asks the history whether the name
was missing then. `began` is when an invocation began; the clock waits for one
that is `Span` old, so that no invocation lasts longer.

**Apps.** In `SocketAnswer` calls, answers and frames may get lost, the app may
be slow, and the listener drops frames when its channel is full. `misled` counts
looks that missed a message that was there.

**Writes.** `Outbox` keeps what Slack holds apart from what the command knows;
an answer lost after the call took effect makes the command report "retry", and
whoever runs it may run it again.

**Files.** Settings are replaced atomically, under the lock. Downloads are written
in place, without one: a file is opened and emptied, then a part is in it, then the
whole body, and a reader may come at each of these steps. A death or an error in
between leaves what is there, two processes that both found no file write over each
other's bytes (`open` is "shared"), and a purge unlinks what a writer still has open.
A part is of Slack's file or has something of a login page in it, and of the latter
`authPageRe` knows those with the title or the form (`KnownLoginPart`) and not the
others (`LoginPart`). `broken` remembers the paths a write of which went wrong in one
of these ways.

**Algorithms.** A module has the algorithm, with the names of the source, and
operators that say what it is for over one input. An invariant over
`MCAlgorithms` says that of every input of the domain.

## The runs

States are distinct states found.

| run | states | question | properties |
|---|---|---|---|
| `watch_stream` | 257 thousand | a stream over two conversations: two drops, refused requests, a short history, a caller that may fail or cancel | `EmittedOnce NoSilentLoss CancelledIsTrue ImplementsDelivery RunEnds` |
| `watch_conversation` | 3.2 million | an await resumed from the question: threads, reactions, excluded authors, a report of one, a drop, failed gap-fills | `CursorSafe ReactionsOnce` |
| `poll_stream` | 181 thousand | polling a conversation and its thread, with exclusions, a capped read and every fault | `NoSilentLoss EmitFailureIsReported` |
| `credentials` | 980 thousand | two processes and any two commands over a new, seeded or version-1 store, with deaths | `SecretsSurvive ReaderFindsSecrets RemovedIsGone` |
| `api_calls` | 330 thousand | two calls of one client, throttled, rejected, refreshed, lost, cancelled | `AtMostOnce BoundedEffort NoticesAreTrue CallsEnd` |
| `history_reads` | 35 thousand | every kind of paged read while messages come and go | `PrintedOnce NothingStableIsMissed ReadingEnds` |
| `resolution_cache` | 5.1 million | four categories, two invocations at a time, killed or overlapping | `NotFoundIsTrue LiveModesAreLive ChangedEmojiIsRead` |
| `socket_answers` | 60 thousand | presses and workflow runs over a lossy network | `PressedIsNotRetryable KnownFormsAreSettled DeletionIsConfirmed BothEnd` |
| `outbox` | 394 thousand | fourteen pairs of writing commands that meet, rerun, beside the app | `DraftPostedOnce OnlyReadyFilesUsed InvitesAreReported EditsKeepTheRest` |
| `local_files` | 66 thousand | two processes: settings, downloads, canvases, purges, one killed, writes that fail or meet | `EditsSurvive NoLoginPageServed` |
| `algorithms` | 993 thousand | the pure parts over all inputs of their domains | `TimesMeanTheNextMoment AccountsStayThemselves PermalinksKeepTheirMeaning TranscriptsReadBack NothingWaitsUnseen FormsMeanWhatTheyShow CommandsDoWhatIsAsked TheCacheServesItsReaders` |
| `canvas_stays_stale` | violated | a canvas is served from the download cache after it was edited | `CacheNeverStale` |

What they show:

* **Nothing is lost in silence.** `NoSilentLoss`: while the gap count is zero, an
  attached run that has consumed its frames has handed over every matching
  message since it started. `CursorSafe`: the cursor passes no message in scope
  that was neither delivered nor reported, unless gaps or truncation say so or a
  catch-up lost it to a thread read (`LostToThreads`, see the departures). The
  await chained to this one therefore misses nothing else. `EmittedOnce` and
  `ReactionsOnce` are the other half. `ImplementsDelivery` relates the run
  to a specification whose whole state is what is due, what was delivered and
  whether a loss was admitted.
* **Ends are true.** `RunEnds`: a deadline ends a run whatever the socket does.
  `CancelledIsTrue` and `EmitFailureIsReported`: the reason a run gives is the
  reason it ended, and a deadline hides no failure of the caller.
* **The store.** `SecretsSurvive`: between cycles, loading finds under each alias
  what its last completed upsert stored, or what an upsert that died half stored.
  `ReaderFindsSecrets`: a load that reads file and keychain at different times
  still returns every secret an alias had and kept. `RemovedIsGone`: nothing of a
  removed workspace stays, whatever auth types it ever had.
* **Calls.** However calls interleave around the one refresh, none is carried out
  twice, none sends or sleeps more than two loops' worth, a notice of a retry is
  followed by one, and all end.
* **Reads.** What a read prints it prints once; what was there the whole time and
  asked for is among it; reading ends although the workspace goes on.
* **Caches.** "Not found" is right about an instant since the enumeration it
  trusts; the exceptions (a crossed write, an e-mail, a mark saved apart from its
  entries) are named in `NotFoundIsTrue`, each with its own condition. Modes that
  promise live answers give them. An emoji changed here is read anew.
* **Apps.** A press the app got is never called retryable; a form the command
  learned of does not stay open behind the user; a deletion is believed after two
  looks; command and listener end.
* **Writes.** A draft is posted at most once over lost answers, reruns and the
  app; no message refers to an image before it is ready; an edit that did not read
  an old version leaves alone what it does not name.
* **Files.** No edit of a setting is lost. `NoLoginPageServed`: a canvas read hands
  over no login page and no part that is known for one; nothing of one is ever where
  a file goes; and a part of anything lies only where two processes wrote at once or
  a write was broken off. That such a part is handed over, of a login page too where
  it lacks what the page is known by, is a departure.
* **Algorithms.** Among them, a permalink's message is read and written in its own
  workspace although the code checks that of a stream's target only: a URL selects
  an account by more than a part of its name only where one quotes it. What a form
  shows can be given back as it is shown, but for the labels with a comma of a menu
  of several. What the hint of a read names makes the next one ask for nothing.

The violation run quotes a comment the code contradicts: canvases are cached by
an id that is immutable while their content is not.

### Checked beside the runs

With one property added to a configuration; all hold.

* `TypeOK` (`StoreTypeOK`) of every state machine, under each of its `.cfg`.
* From `poll_stream.cfg`: `TimeoutIsNotAnError` (also proved); `CursorSafe` with
  `ReplyRoots = {}`, and `EventCapHolds` and `ImplementsDelivery` with
  `RepliesTo <- Unset` and `MaxEvents = 2`, so that the cap is met by one round and
  across two (63 thousand states; all three also proved); `AnswerArrives`, a
  liveness property, with `ReplyRoots = {}`,
  `StartLog <- Nothing`, `RepliesTo <- Unset`, `MaxLog = 3`.
* From `watch_conversation.cfg`: `AnswerEndsRun`, liveness, with `MaxEvents = 1`,
  `MaxLog = 3`; `NoSilentLoss` with `ReplyRoots = {}`.
* From `local_files.cfg`: `CommandsEnd`, liveness.
* From `resolution_cache.cfg`: `ChangedEmojiIsRead` with `Kinds = {"emoji"}` and
  `MaxChanges = 2` (13.5 million states); `NotFoundIsTrue` and the invariant its
  proof rests on with `MaxNow = 3`, one category at a time.

## Bounds and fairness

* Events: `MaxLog` (3 or 4 things happen, the question included), `MaxDrops` (1 or
  2), `MaxAttempts = 2`, `HealthyAfter = 3`. One drop gives a hole, a gap-fill and
  a resumed stream; two give a gap-fill whose own frames are lost. Four instants
  are enough for a message before, during and after each request of a catch-up.
  `HistoryMax` is small in `watch_stream` and `poll_stream` so that the cap of a
  read is met. `MaxGaps` bounds how often a poll run admits a gap; the properties
  say nothing once one is admitted.
* Credentials: `MaxCommands = 2` over a store that already holds a workspace: any
  two operations race, follow one another, and follow a death. A third adds
  states and no new pair. `StaleSetMayFail` and `MigrationMayDie` are false: the
  two departures below.
* Calls: two, with one retry and the delays 0 and 9 around the cap of 6, so that a
  delay is defaulted and capped, the budget runs out, and the one refresh is taken
  by either call while the other is anywhere.
* Reads: pages of two, six messages in two channels and a thread, one arrival or
  deletion at any moment, at most nine requests, which no read reaches otherwise
  than by a workspace that goes on.
* Caches: two invocations, two or three runs, `NameTTL = 2`, `CompleteTTL = 1`,
  `MaxNow = 2`, one change of the workspace. An entry outlives the mark, the mark
  expires within the run, and the two invocations overlap. `Span = 1`: an
  invocation sees the clock move once at most, so that with these numbers it is
  over before what it saved expires (`Timely`, see the proofs). Symmetry is used
  with invariants only.
* Apps: `FrameCap = 1` so that the channel is full, `MaxLooks = 3` so that a look
  beyond the second is taken.
* Writes: one rerun and one action in the app for each of fourteen pairs, those
  that meet the same draft, message, channel or saved item.
* Files: two processes, one killed, one edit of the canvas.
* Algorithms: the domains are in `MCAlgorithms`, one per module. Each has every
  value the code tells apart and one more.

Deadlock is checked except in `resolution_cache`, `outbox` and `algorithms`, whose
commands, runs or inputs are bounded and end without a state that is returned to.

Fairness. In `EventWatch` and `EventPoll` it is `WF_vars(Engine)`: a goroutine that
can take a step takes one. `ApiClient` has it for each call, `History` for the
reader, `SocketAnswer` for the command and for its listener, `LocalFiles` for each
process. Nothing is assumed of the workspace, the network, the clock, the app or
the caller: a request that gets no answer ends because the code gives it a
deadline. `CredentialStore`, `Outbox` and `ResolutionCache` check no liveness and
assume no fairness.

## The proofs

The theorems hold for every value of the constants that satisfies the named
assumptions (`FilterAssumption`, `WorkspaceAssumption`, `SessionAssumption`,
`CatchUpAssumption`, `ClockAssumption`, `WatchAssumption`, `PollAssumption`,
`StoreAssumption`, `ClientAssumption`, `AnswerAssumption`, `FilesAssumption`,
`OutboxAssumption`, `CacheAssumption`, `HistoryAssumption`,
`CommandAssumption`, `MessageAssumption`). A theorem that needs more says so in an
ASSUME of its own, and the text below says why. Of the named ones, five are
about the code rather than about types: no alias is a URL (`slugify` leaves
letters, digits and hyphens), the users of one invite are finitely many, an entry
of the log happened at its place in it, a timestamp names one message and what is
posted later has a later one, and only the gap-fill of a watch, which filters no
reactions, asks for its bound itself (`eventbackfill.go`).

* `EventWatchProofs`. `TypeCorrect`: `Spec => []TypeOK`. `DeliveredAtMostOnce`:
  `EmittedOnce` is not inductive, for `Offer` looks at `seen` and not at `emitted`;
  `OnceInv` adds that the key of everything emitted has been seen.
  `CancelledOnlyByCaller`: `CancelInv` says what must hold on the way, that a run
  about to return without a reason has failed or one of its contexts is over.
  `NothingLostSilently` and `CursorNeverSkips` are proved from one invariant,
  `LossInv`. While no gap is counted it says where every message of the run is
  that was not examined (`PlaceInv`: behind on the wire, in what is being read, in
  the batch, or still to be read by the catch-up under way, and in front of
  nothing newer), that the read position lies before all of them (`PosInv`), and,
  after a failed hand-over, before what the caller did not get (`FailSafe`). Both
  assume `Stream`: the run follows channels, without a thread or a conversation
  root and without replies. A run that reads threads does lose messages (see the
  departures), for which the checked properties have the excuse `LostToThreads`;
  `watch_conversation` checks them there. `CursorNeverSkips` also assumes that
  there is no event cap: once the cap is met in a gap-fill, the run goes on
  examining frames (`EventCapHolds` below) in front of what the fill left.
  `StreamsDeliver`: `Spec => ImplementsDelivery`, the refinement of
  `EventDelivery`. To the invariants above it adds `AfterInv`, what reaches an
  attached run and where it has read to lie past the point it owes from, so that
  everything handed over is due; and `GivenInv`, what was handed over is due still
  and the read position reached it, so that with `PosInv` the next answer lies
  past those before it. A step that hands over is `Deliver`, the first gap is
  `Admit`, any other step is `Posted`. It assumes `Plain`: `Stream`, messages only
  (the abstract answers are messages), no event cap (as above), `--since` over one
  channel at most (`streamConversation` refuses it over several), and a workspace
  that deletes nothing (an answer that is due stays due in `EventDelivery`).
  `ReactionsAreOnce`: `Spec => []ReactionsOnce`, for every run. What is handed
  over of one reaction is to be matched, one to one, with the times it was added.
  What came live is matched by its place in the log (`LogInv`, `WireInv`). What was
  read back from history has no place of its own: it stands for a *spare* addition
  (`SpareInv`), one that was not seen live and no longer can be, for it was lost in
  a drop, or is the next of its reaction on the wire, where it will be paired and
  not handed over. That it will be is `PendingInv`, between what still pends and
  what was seen; that it is the next is `RemovalsInv`, a removal takes back an
  addition before it, with `SeenPast` and `BatchInv`, what waits was read back and
  still stands. `ReactNext` proves it of each step, `ReactCounts` is the injection.
* `EventPollProofs`. `FailuresAreReported` and `TimeoutsAreNoErrors`, both from
  `EndInv`: a caller that failed sent the run on its way out with an error, which
  only `Finish` could turn into a deadline, and it keeps it. `TypeCorrect`:
  `Spec => []TypeOK`. `NothingLostSilently` and `CursorNeverSkips` come from a
  `LossInv` of the same parts as that of the socket run, with two positions, the
  run's own cursor and the session's, both before whatever was not examined. They
  assume `Single`: the run polls one thread, or a channel without its replies. A
  conversation polled from a root reads threads, loses messages to them (see the
  departures) and is what `poll_stream` checks, with the excuse `LostToThreads`;
  the theorems are about the runs that need no excuse. `PollsDeliver`: `Spec =>
  ImplementsDelivery`, the same `EventDelivery`, from `DeliveryInv`: `LossInv`;
  `AfterInv`, no round offers what lies before the first read; and `GivenInv`, what
  was handed over is due, was examined and lies before the read position. It
  assumes `Plain`: `Single`, and a workspace that deletes nothing. Unlike that of
  the socket run it needs no assumption about the event cap, because the cap ends
  a poll run: `CapIsKept`, `Spec => []EventCapHolds`, from `CapInv`: a run that has
  handed over as many as its cap has a reason to end, and a run with a reason is
  on its way out and offers nothing more.
* `CredentialStoreProofs`. `LockDiscipline`: a process is in a read-modify-write
  cycle exactly when it holds the lock, for any number of processes and deaths.
  `TypeCorrect` and `NothingStaysBehind` follow from `GoneInv`: every account in
  the keychain belongs to an entry of the file, to a save under way, or to one
  that died; and what a process has in memory under the lock is the file, changed
  by its command. `SecretsAreSafe` and `ReadersAreSafe` add `SafeInv`: where each
  wanted secret is, in the keychain or in the file, at each step of a save, and
  which of them a reader without the lock may meet. They assume `~MigrationMayDie`
  (both) and `~StaleSetMayFail` (the first), for with either the property is
  false: those are the two departures of the store below. The last part is about
  what accounts are for, over any stored accounts and not only the domains of
  `algorithms`: `SelectorsAreStable`, `PermalinksStayAtHome` and
  `PermalinksLeadBack`, from what `Upsert` does to each place of the store
  (`PlacesOfAStore`, `UpsertedIs`) and how `pickMatch` counts (`MoreMatches`,
  `PicksTheOnly`). They assume a store as `load` leaves it, one account per alias
  and each with a URL, and that two timestamps have different digits.
  `PermalinksStayAtHome` is about a branch that checks no workspace
  (`cli/message.go:148-150`), so it rests on what the selection does with a URL
  (`SelectedByUrl`): no alias, host or slug has a URL in it, an assumption of the
  theorem, so that the account found has the URL's host or quotes the URL in its
  name or its own URL, which is the exception the property makes.
* `ApiClientProofs`. `CarriedOutOnce`, `EffortIsBounded`, `NoticesAreKept`. The
  invariant has a part for each: `EffectInv`, nothing was carried out while the
  call goes on, since only an answer that did nothing makes it go on; `HookInv`,
  the hook ran only with the flag set, which is set once; `EffortInv`, what was
  sent and slept against the attempt and the loop it is in; `NoticeInv`, where a
  call can be that has promised a retry.
* `SocketAnswerProofs`. `PressIsSentOnce`, `FormsAreSettled`,
  `DeletionsAreConfirmed`, from `PressInv`, `FormInv` and `LookInv`. The work is in
  relating what the command knows (`view`, `watch`) to what happened, through a
  wire that loses frames.
* `OutboxProofs`. `DraftsArePostedOnce`: `PostInv` ties a count above zero to a draft
  that is sent, which no write undoes, and says that a command about to post has
  not posted, since it found the draft unsent. `FilesAreReadyWhenUsed`: `FilesInv`
  adds that what a command read is real, that its uploads are nobody else's, and
  how far along they are at each of its places. `InvitesAreTrue`: `BatchInv` says
  that each user of the invite is either still to be asked for or has an outcome,
  and that outcomes of success are members. `EditsAreNarrow` is an action
  property: one step per way of changing the message. `WordsAreTheNextMoment` is
  about when a written message is sent (`Schedule`), for every moment, day word
  and clock: a case per kind of word, over the days of two weeks (`MeantDays`). It
  assumes a horizon of 15 days or more; `schedule_time.go` has 120.
* `KeptFilesProofs`, in three parts. Of `ResolutionCache`:
  `LiveModesAnswerLive`, from `LiveInv`: a name an invocation has seen was there since it began, and one it has passed over in the
  order of the pages was not. `ChangesAreRead`, from `EmojiInv`: the file, and
  whoever is about to write it, trusts an enumeration younger than each change of
  this machine. `MissesAreTrue`, from `MissInv`: as long as the mark can be fresh,
  every name is held by the file or was missing at the instant the mark trusts,
  and this is also so of the copies that invocations hold (`Kept`). It assumes
  `Timely`: the mark's window ends before what was enumerated for it expires,
  where the mark is saved later than the entries by the length of an invocation
  too. The defaults of `cache.go` satisfy it; a configuration that does not makes
  a wrong "not found" (the second departure of the caches).
  Of `LocalFiles`: `FilesAreTyped`, `SettingsKeepEdits`, `LoginPagesStay`.
  `SettingsInv`: who is about to save holds the lock, and what it read is still
  what is on disk. `WritersInv`: who has a path open is between its truncation and
  its last byte, and two that share one have marked it broken. `PagesInv`: nothing
  of a login page is fetched for the file or written to it; and a path holds a part
  only if it is broken or somebody writes it, for the last write of one that wrote
  alone is whole (`WhatIsWritten`), and a death or an error marks the path
  (`WritersBreakOff`). Of `CacheTree`, for any tree and any
  identities: `PurgesAreExact` and `RemovalsAreExact`.
* `HistoryProofs`. `ReadsAreOnce`: `Spec => []PrintedOnce`, from `OnceInv`: what is
  still to be read is kept apart from what was printed by the cursor, by the
  channels that are left, or by the rank of the next numbered page. It assumes
  `OneEach`, a command names a channel once: `resolveChannelIDs`
  (`search_scan.go:218`) does not look for repetitions. `NothingIsMissed`: `Spec =>
  []NothingStableIsMissed`, with no assumption of its own, from `StableInv`. Its
  parts are `Lasting`, what nobody touched is as it was; `SoughtInv`, a lookup went
  past no message it could name; and `AheadInv`, every match that was not read is
  ahead of the cursor, in this channel or in one that is left, or ranked at the next
  numbered page or below it, and fewer than the limit were printed until the
  command is done. The pages are selections and sorts of sequences; what the two
  proofs need of them comes from counting rather than from an induction: the
  messages of a channel have ranks (`Ranks`), a page holds the first ranks
  after its cursor, so what it leaves lies past all of it and it is full
  (`NewestPage`, `OldestPage`, `Reach`, `PageCovers`). Each holds for any posts,
  deletions and reactions between the pages, and where it excuses some, the
  property says so (a walk by page number while something is posted or deleted).

Only model-checked: liveness under fairness, which is out of the prover's reach;
`CursorSafe` and `NoSilentLoss` of conversations, of either run, whose threads may
be lost; and, of the pure algorithms, those that fold over their input
(`Transcript`, `Inbox`, `Workflows`, `Forms`, `References`), where a proof would be
an induction over data, `Compose`, whose inputs are so few that TLC goes through
all of them, and `WatchCommand`, which instantiates `EventFilter` with a parameter,
a form tlapm does not accept.

## Departures

Places where the code and its documentation disagree, beside the violation run.
Each is a property stated in the module named; TLC finds it violated when it is
added to the configuration, with the constants of its row.

| property | configuration and constants | the documentation | the code |
|---|---|---|---|
| `EventWatch!EmitErrorStopsRun` | `watch_conversation`, `EmitMayFail = TRUE` | `eventwatch.go:94-95`: "returning an error from it stops the run" | `reconnect` takes any error of a gap-fill, that of `emit` included, for a gap (`eventwatch.go:296`) and the run goes on emitting |
| `EventWatch!RedialBudgetHolds` | `watch_conversation`, `MaxAttempts = 4`, `MaxLog = 1` | `eventwatch.go:248-250`: "Spending an attempt and trying again is what the budget is for" | a refusal does not reset `connectedAt` (`eventwatch.go:235`): after enough backoffs the dead connection counts as healthy and the budget is full again |
| `EventWatch!TruncatedCursorSafe` | `watch_conversation`, `MaxDrops = 0`, `ReplyRoots = {}` | `eventawait.go:39-41`: "The cursor stops before them, so resuming re-offers them" | a later delivery advances the cursor past what was not reported (`eventwatch.go:436`) |
| `EventWatch!TimeoutIsNotAnError` | `watch_conversation`, `HasDuration = TRUE` | `eventawait.go:54-56`: "A timeout is not an error" | `runSocket` returns the error of a connect or a backfill that the deadline interrupted (`eventwatch.go:193`); only `runPoll` forgives it |
| `EventWatch!GapNoticeIsTrue` | `watch_conversation`, `HistoryMax = 1`, `ReplyRoots = {}` | `eventwatch.go:52-54`: "so the caller is not told events were recovered when they were not" | a read that reaches its cap counts a gap and returns no error (`eventbackfill.go:202`), so `OnReconnect` says filled |
| `EventWatch!GapNoticeIsTrue` | `watch_conversation`, `RepliesTo <- Unset`, `IncludeThreadReplies = TRUE` | as above | without a conversation root a gap-fill reads the channel only, where replies are absent (`eventbackfill.go:110`) |
| `EventWatch!EventCapHolds` | `watch_conversation`, `MaxEvents = 1` | `eventawait.go:3-4`: "Watch bounded to a single matching event" | the cap met in a gap-fill is returned as an ordinary reconnect (`eventwatch.go:254`), and one more frame is delivered |
| `EventWatch!NoSilentLoss` | `watch_conversation`; also `ThreadFaults = TRUE`, `MaxLog = 3` | `eventawait.go:47-48`: "non-zero means the answer may have arrived unseen" | a reply read by a thread request moves the watermark past a message posted after the history request of the same catch-up, and a drop loses that one; a thread request that fails is skipped and not counted (`eventbackfill.go:129`) |
| `EventPoll!CursorSafe`, `EventPoll!ImplementsDelivery` | `poll_stream` | `message-await-stream.md:98-100`: "The returned cursor is the last `ts` actually examined" | the same race in a poll round: the read position passes the message and no later round reads it (`eventpoll.go:67`) |
| `CredentialStore!SecretsSurvive` | `credentials`, `StaleSetMayFail = TRUE` | `credential.go:184-185`: "a failed Set leaves the real value in the file so it is never lost" | `load` prefers the older secret the keychain still returns, and the next edit pushes that one and puts the placeholder in the file |
| `CredentialStore!SecretsSurvive` | `credentials`, `MigrationMayDie = TRUE` | `workspace-aliases.md:79-81`: old accounts are deleted "after every workspace has its copy" | `migrateLocked` deletes them before `Save` has stored one (`migrate.go:35`); a death in between loses all |
| `CredentialStore!EnrollConverges` (a `PROPERTY`) | `credentials`, `Identities = {ann, bob}` | `mcp_enroll.go:7-8`: "never a silent re-point" | the check and the upsert are two cycles (`mcp_enroll.go:107`); a slot that learns its identity in between is re-pointed |
| `ApiClient!RetryIsSafe` | `api_calls` | `SKILL.md:31-32`: "transient failure, wait and re-run" | a call whose answer is lost was carried out and is reported as "retry" |
| `History!UnknownAuthorMatchesNothing` | `history_reads`, `Requests <- UnknownAuthor` | `search_scan.go:120-122`: an author that cannot be found matches nothing | the empty id is taken for no filter (`search_scan.go:56`), and everything matches |
| `ResolutionCache!MissIsAuthoritative` | `resolution_cache` | `channelcache.go:25-26`: "every named channel was enumerated within the completeness window — so a #name miss is authoritative" | the mark is saved apart from the entries and over another process's file (`cache.go:288`) |
| `ResolutionCache!MissIsAuthoritative` | `resolution_cache`, `Procs = {p1}`, `Kinds = {"channels"}`, `Emails = {}`, `NameTTL = 0`, `MaxChanges = 0` | as above; `output.md:145-146`: a TTL of 0 "disables reads for a category" | `isComplete` looks at the mark's window alone and `get` at the TTL of the entries alone (`channelcache.go:28`): with `cache.ttl.channel-names` 0, or any TTL shorter than that window, a name misses although the file holds it, and the fresh mark makes the miss "not found" |
| `SocketAnswer!AbandonedRunsAreClosed` | `socket_answers` | `abandonedRunHint`: "any error after the trigger trips closes the opened form" | an error before the view arrived has no view to close |
| `Outbox!ReopenedIsOpen` | `outbox` | `cli/later.go:32`: "Move a saved message back to in-progress" | the two marks are two calls, and one of them may fail without the command failing (`cli/later.go:33-39`): the item stays as it was |
| `LocalFiles!DownloadsAreWhole` | `local_files`; also `MaxKills = 0` | `download.go:94-95`: existing files are reused | the body is written into the final name (`download.go:140`); a killed process or a full disk leaves a part that is reused, and a reader beside a writer meets one. Of a canvas the part may be of a login page, and where it lacks the title and the form that `authPageRe` looks for (`download.go:196`) it is converted and printed |

The properties below are about one input of a pure algorithm. They fail for some
input of the domains in `MCAlgorithms`.

| property | the documentation | the code |
|---|---|---|
| `Compose!EveryOptionIsKept` | what the flags ask for is sent or refused | a forward to a permalink leaves its thread; `--reply-broadcast` is dropped beside `--attach` and by a schedule with browser credentials; a permalink overrides `--thread-ts`; a draft with blocks and text keeps the blocks |
| `Accounts!IdentityIsTheTokens` | the cache is kept per identity | an upsert that brings no identity keeps that of the token before it |
| `Targets!ChannelUrlsStayHome` | a URL leads to the workspace it names | a channel URL is looked up with the client at hand (`cli/message.go:174-204`) |
| `Targets!SelectedClientsAgree` | `cli/message.go:181-182`: "Callers that select the client from it (resolveTargetClient) always agree" | where no account has the permalink's URL, one that has it within its name or within its own URL is selected (`resolve.go:62-70`), and nothing checks its workspace (`cli/message.go:148-150`) |
| `Forms!EveryShownValueIsTaken` | `render/actions.go:153`: "the same labels a --value or --field matches against" | the labels held by a menu of several are shown joined with ", " (`viewform.go:229-239`), and what is given back is cut at every comma (`elementvalue.go:117-125`): a label with a comma is refused, or chooses other options |
| `References!HintsResolveAll` | `cli/message.go:294-298`: "so the hint is an exact command" | a warm lists unarchived conversations and members of the workspace (`warm.go:184-188`, `warm.go:155`) and sets the complete mark all the same (`warm.go:204`): an archived channel or a foreign user whose request failed before is neither asked for nor shown after it |
| `Inbox!CursorsMissNothing` | following the cursor lists every saved item | items past the limit are cut off after the filter, and the cursor goes on behind the page they came on (`later.go:112-115`) |
| `Inbox!UnreadDigestIsWhole` | the digest shows each conversation with unread messages | one whose messages all were left out has no section |
| `Workflows!ListedIsRunnable` | `bookmarkTrigger`: "list and run must agree on it" | a bookmark without an id is listed and cannot be run |
| `References!CachedGroupsAreShown` | `resolvemode.go:18-20`: the cache is trusted | a usergroup is read with five minutes of life while its category's mark has thirty, and is not shown when the list call fails |
| `CacheTree!DownloadsAreKept` | `cacheadmin.go:195-197`: "each identity's downloads kept" | those of an unresolved identity lie at the root, where purging everything clears older layouts |
| `WatchCommand!PermalinksAwaitTheirThread` | `message_watch.go:316-318`: a permalink awaits its thread | a permalink without `thread_ts` is taken for a root (`message_watch.go:324-327`) |

Remarks met on the way that no property states: `--oldest` is described as
inclusive (`message-await-stream.md:90`) and is exclusive; an e-mail address is in
no index; a lost answer of a workflow submission stays "retry"
(`workflow_submit.go:78-81`); two commands that post one draft may both do so (`DraftPostedOnce` is about one command and its reruns), and one may post a body the app has changed (`message_draft.go:224-265`); two edits of
attachments may overlap, and the later one writes the set it had read
(`message_mutate.go:75-91`; `EditsKeepTheRest` excuses it), and a rerun attaches
again; a failed invite loses the outcomes of those before it
(`channeladmin.go:62`); a reminder accepts a unix time that has passed; a login
page saved as a canvas blocks it until a purge.

## What is not modelled

* Of the event engine: gateway fallback and tickets, pings, `reconnect_url`, wire
  encoding, frames that classify to nothing, broadcast replies, and the
  projection of events to JSON.
* Of the stores: descriptive fields, the status report, the auth test and the
  form of an enrollment, corrupt credential files, keychains that fail to return
  a secret.
* Of the caches: the id-to-text and DM caches, which have no mark, and
  `cache info`, which only reads.
* Of the commands: reactions, deletion of a message, creation of channels, single
  calls without a choice, query building, file details, blocks and bodies, colours.
* Of `Compose`: the blocks under the caption of a forward that falls back to a copy.
* Daylight saving: days of `Schedule` have 24 hours.
* Whole components: desktop and browser extraction (files of other programs, pure
  I/O and codecs), formatting and output, the command tree with its help texts,
  and the mock server (a fixture). They keep no state of their own; their
  correctness is in bytes and tables a model would only repeat.

## Plan

1. `AwaitChain`: awaits resumed from each other's cursors, over what `EventWatch`
   promises, so that the chain as a whole misses nothing.
