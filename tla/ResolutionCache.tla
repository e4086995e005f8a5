--------------------------- MODULE ResolutionCache ---------------------------
(***************************************************************************)
(* The name index of one category (users, channels, usergroups or emoji):  *)
(* a file that invocations load, change and write whole, without a lock,   *)
(* stamped per entry, and with one mark that says when the category was    *)
(* last enumerated: while it is fresh, a miss is answered "not found"      *)
(* without asking Slack (cache.go and the resolvers).  The invocations and *)
(* the workspace are the actors.  A missing, a truncated and a corrupt     *)
(* file all read as Empty.                                                 *)
(***************************************************************************)
EXTENDS Naturals, Sequences, FiniteSets

CONSTANTS
  Kinds,        \* the categories to check, among "users" "channels" "usergroups" "emoji"
  Procs,        \* invocations that may run at once
  PageOrder,    \* the names there may be, in the order Slack lists them
  Emails,       \* those of them that are e-mail addresses (users only)
  AtStart,      \* the names there are at the start
  Modes,        \* cache modes: "normal", "refresh", "off"
  NameTTL,      \* lifetime of an entry; 0 disables reading them
  CompleteTTL,  \* lifetime of the mark
  Span,         \* no invocation takes longer: Slack and the requests have limits
  MaxNow,       \* bound: the last instant
  MaxChanges,   \* bound: changes of the workspace
  MaxRuns       \* bound: invocations, for each category

Names == {PageOrder[i] : i \in DOMAIN PageOrder}

ASSUME CacheAssumption ==
  /\ PageOrder \in Seq(Names) /\ Emails \subseteq Names /\ AtStart \subseteq Names
  /\ NameTTL \in Nat /\ CompleteTTL \in Nat /\ Span \in Nat
  /\ MaxNow \in Nat /\ \A k \in Kinds : MaxRuns[k] \in Nat

VARIABLES
  kind,     \* the category
  index,    \* its file
  worlds,   \* history: the names there were, after each change; the last is now
  now,      \* the clock
  loc,      \* the local state of each invocation
  runs,     \* invocations started
  lost,     \* history: a write dropped what another invocation had written
  settled,  \* history: the last change an emoji command made, and dropped the file for
  blind     \* history: a sweep overlapped such a change, or the file was not dropped
vars == <<kind, index, worlds, now, loc, runs, lost, settled, blind>>

NoName == "none"
World == worlds[Len(worlds)]
Empty == [entries |-> [n \in Names |-> 0], complete |-> 0, from |-> 0]

Idle == [pc |-> "idle", op |-> "none", name |-> NoName, mode |-> "normal", snap |-> Empty,
         stale |-> FALSE, torn |-> FALSE, page |-> 1, seen |-> {}, todo |-> {}, mark |-> FALSE,
         then |-> "done", from |-> 1, began |-> 1, started |-> 1, floor |-> 1, trust |-> 1, result |-> "none"]

Init ==
  /\ kind \in Kinds /\ index = Empty /\ worlds = << AtStart >> /\ now = 1
  /\ loc = [p \in Procs |-> Idle] /\ runs = 0 /\ lost = FALSE
  /\ settled = 1 /\ blind = FALSE

-----------------------------------------------------------------------------
(* The snapshot: what is readable under a mode.                             *)
Writes(mode) == mode # "off"

(* Seeded fault: only Off mode misses.                                      *)
ReadsUnlessOff(mode) == mode # "off"

Reads(mode) == mode = "normal"

Get(data, n, mode) ==
  Reads(mode) /\ data.entries[n] > 0 /\ now - data.entries[n] < NameTTL

IsComplete(data, mode) ==
  Reads(mode) /\ data.complete > 0 /\ now - data.complete < CompleteTTL

PruneExpired(entries) ==
  [n \in Names |-> IF NameTTL > 0 /\ now - entries[n] >= NameTTL THEN 0 ELSE entries[n]]

(* set every name of todo, markComplete if asked to, and what save prunes.  *)
Changed(data, l) ==
  [entries |-> PruneExpired([n \in Names |-> IF n \in l.todo THEN now ELSE data.entries[n]]),
   complete |-> IF l.mark THEN now ELSE data.complete,
   from |-> IF l.mark THEN l.from ELSE data.from]

-----------------------------------------------------------------------------
Become(p, l) == loc' = [loc EXCEPT ![p] = l]

(* Where an invocation goes on from what it read of the file before.        *)
Exposed == {"email", "complete", "truncate", "write"}

(* A new version of the file: the snapshots the others hold are stale.      *)
NewFile(p, l, data) ==
  /\ index' = data
  /\ loc' = [q \in Procs |-> IF q = p THEN l
                            ELSE [loc[q] EXCEPT !.stale = loc[q].pc \in Exposed]]

(* Only a lookup has an answer to keep.                                     *)
Ended(l, result, trust) ==
  IF l.op # "lookup" THEN Idle
  ELSE [Idle EXCEPT !.pc = "done", !.op = l.op, !.name = l.name, !.mode = l.mode,
          !.started = l.started, !.floor = l.floor, !.torn = l.torn,
          !.result = result, !.trust = trust]

Answer(p, result, trust) == Become(p, Ended(loc[p], result, trust))

(* openCache, the changes, then save: WriteFile truncates before it writes. *)
Store(l, todo, mark, then) ==
  [l EXCEPT !.pc = "open", !.todo = todo, !.mark = mark, !.then = then]

Run(p, op, n, mode) ==
  /\ loc[p].pc = "idle" /\ runs < MaxRuns[kind] /\ runs' = runs + 1
  /\ Become(p, [Idle EXCEPT !.op = op, !.name = n, !.mode = mode, !.started = Len(worlds), !.floor = settled,
                  !.pc = CASE op = "lookup" -> "get" [] op = "mutate" -> "mutate"
                           [] op = "purge" -> "forget" [] OTHER -> "sweep",
                  !.from = Len(worlds), !.began = now])
  /\ UNCHANGED <<kind, index, worlds, now, lost, settled, blind>>

Ops == {"lookup", "warm", "purge"} \cup (IF kind = "emoji" THEN {"mutate"} ELSE {"list"})

(* The index is read first; the emoji set only as a whole.                  *)
LookIn(p) ==
  /\ loc[p].pc = "get" /\ kind # "emoji"
  /\ IF Get(index, loc[p].name, loc[p].mode) THEN Answer(p, "found", index.from)
     ELSE Become(p, [loc[p] EXCEPT !.stale = FALSE,
                       !.pc = IF kind = "users" /\ loc[p].name \in Emails
                              THEN "email" ELSE "complete"])
  /\ UNCHANGED <<kind, index, worlds, now, runs, lost, settled, blind>>

CachedEmojiSet(p) ==
  /\ loc[p].pc = "get" /\ kind = "emoji"
  /\ IF IsComplete(index, loc[p].mode)
     THEN Answer(p, IF index.entries[loc[p].name] > 0 THEN "found" ELSE "missing", index.from)
     ELSE Become(p, [loc[p] EXCEPT !.pc = "sweep", !.from = Len(worlds)])
  /\ UNCHANGED <<kind, index, worlds, now, runs, lost, settled, blind>>

(* users.lookupByEmail, and search.messages for a channel: best effort.     *)
EmailLookup(p) ==
  /\ loc[p].pc = "email"
  /\ \/ loc[p].name \in World /\ Become(p, Store(loc[p], {loc[p].name}, FALSE, "found"))
     \/ Become(p, [loc[p] EXCEPT !.pc = "complete"])
  /\ UNCHANGED <<kind, index, worlds, now, runs, lost, settled, blind>>

(* The mark is read from the file as it is by now.                          *)
AuthoritativeMiss(p) ==
  /\ loc[p].pc = "complete"
  /\ IF IsComplete(index, loc[p].mode)
     THEN Become(p, Ended([loc[p] EXCEPT !.torn = @ \/ loc[p].stale], "missing", index.from))
     ELSE Become(p, [loc[p] EXCEPT !.pc = IF kind = "channels" THEN "search" ELSE "sweep",
                                   !.from = Len(worlds)])
  /\ UNCHANGED <<kind, index, worlds, now, runs, lost, settled, blind>>

ChannelIDViaSearch(p) ==
  /\ loc[p].pc = "search"
  /\ \/ loc[p].name \in World /\ Become(p, Store(loc[p], {loc[p].name}, FALSE, "found"))
     \/ Become(p, [loc[p] EXCEPT !.pc = "sweep", !.from = Len(worlds)])
  /\ UNCHANGED <<kind, index, worlds, now, runs, lost, settled, blind>>

-----------------------------------------------------------------------------
(* The enumerations.  A page lists one name; a lookup of a user or channel   *)
(* ends at its match.  The index of users holds no e-mail addresses.        *)
Matched(p) == /\ kind \in {"users", "channels"} /\ loc[p].op = "lookup"
              /\ loc[p].name \in loc[p].seen
AtEnd(p) == loc[p].page > Len(PageOrder)
Outcome(l) == IF l.op # "lookup" THEN "done"
              ELSE IF l.name \in l.seen THEN "found" ELSE "missing"

(* Seeded fault: a listing of part of the category arms the mark as well.   *)
EnumeratesAlways(l) == TRUE

(* A list page, and a warm without bots, enumerate less than everything.    *)
Enumerates(l) == l.op # "list"

Listed(l) == IF l.op = "list" THEN l.seen \ {PageOrder[1]} ELSE l.seen

Page(p) ==
  /\ loc[p].pc = "sweep" /\ kind # "usergroups" /\ ~AtEnd(p) /\ ~Matched(p)
  /\ LET n == PageOrder[loc[p].page]
         l == [loc[p] EXCEPT !.page = @ + 1, !.seen = IF n \in World THEN @ \cup {n} ELSE @]
     IN Become(p, IF kind = "channels" /\ n \in World THEN Store(l, {n} \cap Listed(l), FALSE, "sweep")
                  ELSE l)
  /\ UNCHANGED <<kind, index, worlds, now, runs, lost, settled, blind>>

MatchFound(p) ==
  /\ loc[p].pc = "sweep" /\ Matched(p)
  /\ Become(p, Store(loc[p], {loc[p].name}, FALSE, "found"))
  /\ UNCHANGED <<kind, index, worlds, now, runs, lost, settled, blind>>

(* warmUserCache, warmEmojiCache: entries and mark in one save.             *)
WarmTogether(p) ==
  /\ loc[p].pc = "sweep" /\ kind \in {"users", "emoji"} /\ AtEnd(p) /\ ~Matched(p)
  /\ Become(p, Store(loc[p], Listed(loc[p]) \ (IF kind = "users" THEN Emails ELSE {}),
                     Enumerates(loc[p]), Outcome(loc[p])))
  /\ UNCHANGED <<kind, index, worlds, now, runs, lost, settled, blind>>

(* fetchUsergroups: one request lists all of them, or those not disabled.   *)
FetchUsergroups(p) ==
  /\ loc[p].pc = "sweep" /\ kind = "usergroups"
  /\ LET l == [loc[p] EXCEPT !.seen = World]
     IN Become(p, Store(l, Listed(l), FALSE, "mark"))
  /\ UNCHANGED <<kind, index, worlds, now, runs, lost, settled, blind>>

(* markChannelsComplete, markUsergroupsComplete: a snapshot of its own.     *)
MarkApart(p) ==
  /\ \/ loc[p].pc = "sweep" /\ kind = "channels" /\ AtEnd(p) /\ ~Matched(p)
     \/ loc[p].pc = "mark"
  /\ IF Enumerates(loc[p]) THEN Become(p, Store(loc[p], {}, TRUE, Outcome(loc[p])))
     ELSE Answer(p, Outcome(loc[p]), loc[p].from)
  /\ UNCHANGED <<kind, index, worlds, now, runs, lost, settled, blind>>

SweepFails(p) ==
  /\ loc[p].pc \in {"sweep", "mutate"} /\ Answer(p, "error", loc[p].from)
  /\ UNCHANGED <<kind, index, worlds, now, runs, lost, settled, blind>>

-----------------------------------------------------------------------------
(* The file.                                                                *)
Resume(l) ==
  IF l.then \in {"sweep", "mark"}
  THEN [l EXCEPT !.pc = l.then, !.snap = Empty, !.todo = {}, !.stale = FALSE]
  ELSE Ended(l, l.then, l.from)

OpenCache(p) ==
  /\ loc[p].pc = "open"
  /\ Become(p, IF ~Writes(loc[p].mode) THEN Resume(loc[p])
               ELSE [loc[p] EXCEPT !.snap = Changed(index, loc[p]), !.stale = FALSE,
                                   !.pc = "truncate"])
  /\ lost' = (lost \/ \E q \in Procs : loc[q].pc = "write")
  /\ UNCHANGED <<kind, index, worlds, now, runs, settled, blind>>

Truncate(p) ==
  /\ loc[p].pc = "truncate"
  /\ NewFile(p, [loc[p] EXCEPT !.pc = "write"], Empty)
  /\ lost' = (lost \/ loc[p].stale)
  /\ UNCHANGED <<kind, worlds, now, runs, settled, blind>>

Write(p) ==
  /\ loc[p].pc = "write"
  /\ NewFile(p, Resume(loc[p]), loc[p].snap)
  /\ lost' = (lost \/ loc[p].stale)
  /\ UNCHANGED <<kind, worlds, now, runs, settled, blind>>

(* AddEmoji, AddEmojiAlias, RemoveEmoji: the request, then the file is      *)
(* dropped, unless the cache is off.  An error may hide a change.           *)
Toggled(n) == IF n \in World THEN World \ {n} ELSE World \cup {n}
Room == Len(worlds) <= MaxChanges
Enumerating(q) == loc[q].pc \in {"sweep", "mark", "open", "truncate", "write"}

Mutate(p) ==
  /\ loc[p].pc = "mutate" /\ Room
  /\ worlds' = Append(worlds, Toggled(loc[p].name))
  /\ \E reported \in BOOLEAN :
       /\ IF reported THEN Become(p, [loc[p] EXCEPT !.pc = "forget", !.from = Len(worlds')])
          ELSE Answer(p, "error", loc[p].from)
       /\ blind' = (blind \/ ~reported \/ \E q \in Procs : Enumerating(q))
  /\ UNCHANGED <<kind, index, now, runs, lost, settled>>

(* Seeded fault: a changed emoji set leaves the file as it is.              *)
ForgetNothing(l) == index

(* forgetEmojiCache; a purge removes the file whatever the mode.            *)
Forgotten(l) == IF l.op = "purge" \/ Writes(l.mode) THEN Empty ELSE index

Forget(p) ==
  /\ loc[p].pc = "forget"
  /\ NewFile(p, Ended(loc[p], "done", loc[p].from), Forgotten(loc[p]))
  /\ settled' = IF loc[p].op = "mutate" /\ loc[p].from > settled THEN loc[p].from ELSE settled
  /\ blind' = (blind \/ (loc[p].op = "mutate" /\ ~Writes(loc[p].mode)))
  /\ lost' = (lost \/ (loc[p].op = "purge" /\ \E q \in Procs : Enumerating(q)))
  /\ UNCHANGED <<kind, worlds, now, runs>>

(* The invocation is killed where it matters: the file is left truncated,   *)
(* or as it was before the change.                                          *)
Die(p) ==
  /\ loc[p].pc \in {"write", "forget"}
  /\ Answer(p, "died", loc[p].from)
  /\ lost' = (lost \/ loc[p].pc = "write")
  /\ blind' = (blind \/ (loc[p].pc = "forget" /\ loc[p].op = "mutate"))
  /\ UNCHANGED <<kind, index, worlds, now, runs, settled>>

-----------------------------------------------------------------------------
(* Someone else changes the workspace; time passes.                         *)
Others(n) ==
  /\ Room /\ worlds' = Append(worlds, Toggled(n))
  /\ UNCHANGED <<kind, index, now, loc, runs, lost, settled, blind>>

Active(p) == loc[p].pc \notin {"idle", "done"}

Tick ==
  /\ now < MaxNow /\ \A p \in Procs : Active(p) => now - loc[p].began < Span
  /\ now' = now + 1
  /\ UNCHANGED <<kind, index, worlds, loc, runs, lost, settled, blind>>

End(p) ==
  /\ loc[p].pc = "done" /\ Become(p, Idle)
  /\ UNCHANGED <<kind, index, worlds, now, runs, lost, settled, blind>>

Step(p) ==
  \/ \E n \in Names, mode \in Modes, op \in Ops \cap {"lookup", "mutate"} : Run(p, op, n, mode)
  \/ \E op \in Ops \ {"lookup", "mutate"} : Run(p, op, NoName, "normal")
  \/ LookIn(p) \/ CachedEmojiSet(p) \/ EmailLookup(p) \/ AuthoritativeMiss(p)
  \/ ChannelIDViaSearch(p) \/ Page(p) \/ MatchFound(p) \/ WarmTogether(p)
  \/ FetchUsergroups(p) \/ MarkApart(p) \/ SweepFails(p)
  \/ OpenCache(p) \/ Truncate(p) \/ Write(p)
  \/ Mutate(p) \/ Forget(p) \/ Die(p) \/ End(p)

Next == Tick \/ (\E n \in Names : Others(n)) \/ \E p \in Procs : Step(p)

Spec == Init /\ [][Next]_vars

-----------------------------------------------------------------------------
Places == {"idle", "get", "email", "complete", "search", "sweep", "mark", "open",
           "truncate", "write", "mutate", "forget", "done"}

TypeOK ==
  /\ kind \in Kinds /\ now \in 1 .. MaxNow /\ runs \in 0 .. MaxRuns[kind]
  /\ worlds \in Seq(SUBSET Names) /\ settled \in 1 .. Len(worlds)
  /\ index.entries \in [Names -> 0 .. now] /\ index.complete \in 0 .. now
  /\ index.from \in 0 .. Len(worlds)
  /\ \A p \in Procs : /\ loc[p].pc \in Places /\ loc[p].mode \in Modes \cup {"normal"}
                       /\ loc[p].result \in {"none", "found", "missing", "done", "error", "died"}

Answered(p) == loc[p].pc = "done" /\ loc[p].op = "lookup"
Absent(n, since) == \E i \in since .. Len(worlds) : n \notin worlds[i]
Present(n, since) == \E i \in since .. Len(worlds) : n \in worlds[i]

(* A lookup that answers "not found" is right about some instant since the  *)
(* enumeration it trusts began, its own or the one behind the mark          *)
(* (emojiComplete, usersComplete, channelsComplete, usergroupsComplete).    *)
(* Exceptions, none for emoji: the file was replaced between the miss and   *)
(* the look at the mark; writes crossed where the mark is saved apart from  *)
(* the entries; e-mail addresses, which no index holds.                     *)
NotFoundIsTrue ==
  \A p \in Procs :
    Answered(p) /\ loc[p].result = "missing"
      => \/ Absent(loc[p].name, loc[p].trust)
         \/ kind # "emoji" /\ loc[p].torn
         \/ kind \in {"channels", "usergroups"} /\ lost
         \/ kind = "users" /\ loc[p].name \in Emails

(* What the comments above channelsComplete, usersComplete and              *)
(* usergroupsComplete say, with no exception.                               *)
MissIsAuthoritative ==
  \A p \in Procs :
    Answered(p) /\ loc[p].result = "missing" => Absent(loc[p].name, loc[p].trust)

(* --refresh-cache and --no-cache answer from Slack: both answers are right *)
(* about an instant since the command began.                                *)
LiveModesAreLive ==
  \A p \in Procs :
    Answered(p) /\ loc[p].mode # "normal"
      => /\ loc[p].result = "found" => Present(loc[p].name, loc[p].started)
         /\ loc[p].result = "missing" => Absent(loc[p].name, loc[p].started)

(* After a custom emoji was added or removed, a lookup answers from an      *)
(* enumeration that began after it, unless an enumeration overlapped the    *)
(* change or the command ran without the cache (forgetEmojiCache).          *)
ChangedEmojiIsRead ==
  \A p \in Procs :
    kind = "emoji" /\ Answered(p) /\ loc[p].result \in {"found", "missing"} /\ ~blind
      => loc[p].trust >= loc[p].floor
=============================================================================
