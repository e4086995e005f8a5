------------------------------- MODULE History -------------------------------
(***************************************************************************)
(* Reading messages that change while they are read: message list          *)
(* (FetchChannelHistory), message get (findRawMessage), threads            *)
(* (FetchThread) and the channel scans of search.  One command reads, one  *)
(* request at a time; the workspace is the other actor.                    *)
(***************************************************************************)
EXTENDS Naturals, Sequences, FiniteSets, SequencesExt

CONSTANTS
  Requests,    \* the commands to run: records, see Init
  Start,       \* the messages there are before the command
  Arrivals,    \* the messages that may be posted during it, in order
  NamedUsers,  \* the users users.list knows
  PageLimit,   \* messages per page when the command filters, 200
  MaxRequests, \* bound: requests of one command
  MaxChanges   \* bound: messages deleted or (un)reacted during it

NoTS == 0
NoUser == "none"

(* Messages are records [ts, ch, root, author, text, reacted]: root is ts   *)
(* of the thread's root, or NoTS outside a thread; text says whether the    *)
(* content contains the query, reacted whether it carries the reaction.     *)
TSOf(messages) == {m.ts : m \in messages}

Messages == [ts : Nat \ {NoTS}, ch : STRING, root : Nat, author : STRING,
             text : BOOLEAN, reacted : BOOLEAN]

Commands == [kind : {"list", "scan", "files", "search", "find", "thread"}, ch : STRING,
             channels : Seq(STRING), limit : Nat, filter : {"none", "with", "without"},
             latest : Nat, oldest : Nat, before : Nat, inclusive : BOOLEAN,
             user : STRING, target : Nat, hint : Nat]

ASSUME HistoryAssumption ==
  /\ PageLimit \in Nat \ {0} /\ MaxRequests \in Nat /\ MaxChanges \in Nat
  /\ \A i, j \in DOMAIN Arrivals : i < j => Arrivals[i].ts < Arrivals[j].ts
  /\ \A m \in Start, i \in DOMAIN Arrivals : m.ts < Arrivals[i].ts

(* Only the gap-fill of a watch asks for its bound itself (eventbackfill.go), *)
(* and it filters no reactions.                                               *)
ASSUME CommandAssumption ==
  /\ Requests \subseteq Commands
  /\ \A r \in Requests : r.inclusive => r.filter = "none"
  /\ \A r \in Requests : r.kind \in {"scan", "files"} => r.channels # << >>

(* A timestamp names one message.                                            *)
ASSUME MessageAssumption ==
  /\ IsFiniteSet(Start) /\ Start \subseteq Messages /\ Arrivals \in Seq(Messages)
  /\ \A m, n \in Start : m.ts = n.ts => m = n

VARIABLES
  there,      \* the messages there are now
  arrived,    \* how many of Arrivals were posted
  disturbed,  \* history: the messages deleted or (un)reacted since the start
  req,        \* the command
  pc,         \* where it is
  chan,       \* scan: the channels left
  cursor,     \* where the next page starts: a ts, or a page number
  root,       \* the thread to list
  queue,      \* search: the matches not fetched yet
  filterUser, \* channelScanFilter.userID
  out,        \* what was read so far, oldest first at the end
  requests    \* requests made

worldVars == <<there, arrived, disturbed>>
readVars == <<pc, chan, cursor, filterUser, root, queue, out, requests>>
vars == <<worldVars, req, readVars>>

Stopped == pc \in {"done", "failed", "missing"}

Init ==
  /\ there = Start /\ arrived = 0 /\ disturbed = {}
  /\ req \in Requests
  /\ pc = IF req.kind = "thread" THEN "find" ELSE req.kind
  /\ chan = req.channels /\ filterUser = NoUser /\ root = req.target /\ queue = << >>
  /\ cursor = IF req.kind \in {"files", "search"} THEN 1 ELSE req.latest
  /\ out = << >> /\ requests = 0

-----------------------------------------------------------------------------
(* External: what Slack answers at this instant.                            *)
Newest(messages, n) ==
  {m \in messages : Cardinality({x \in messages : x.ts > m.ts}) < n}

After(m, ts, inclusive) == ts = NoTS \/ m.ts > ts \/ (inclusive /\ m.ts = ts)
Before(m, ts, inclusive) == ts = NoTS \/ m.ts < ts \/ (inclusive /\ m.ts = ts)

TopLevel(ch) == {m \in there : m.ch = ch /\ m.root \in {NoTS, m.ts}}

SlackHistory(ch, newest, oldest, inclusive, n) ==
  Newest({m \in TopLevel(ch) : /\ Before(m, newest, inclusive)
                               /\ After(m, oldest, inclusive)}, n)

(* Replies come oldest first, the root leading; a cursor is a position.     *)
SlackReplies(ch, thread, from, n) ==
  LET all == {m \in there : m.ch = ch /\ (m.ts = thread \/ m.root = thread) /\ m.ts > from}
  IN {m \in all : Cardinality({x \in all : x.ts < m.ts}) < n}

NewestFirst(messages) ==
  [i \in 1 .. Cardinality(messages) |->
     CHOOSE m \in messages : Cardinality({x \in messages : x.ts > m.ts}) = i - 1]

(* By timestamp; among equals, as they came.                                *)
Leading(messages, i) ==
  {j \in DOMAIN messages : \/ messages[j].ts < messages[i].ts
                           \/ messages[j].ts = messages[i].ts /\ j < i}

SortChronological(messages) ==
  [n \in DOMAIN messages |->
     messages[CHOOSE i \in DOMAIN messages : Cardinality(Leading(messages, i)) = n - 1]]

-----------------------------------------------------------------------------
(* The pages of conversations.history.                                      *)
ClampInt(v, lo, hi) == IF v < lo THEN lo ELSE IF v > hi THEN hi ELSE v

Limit == ClampInt(IF req.limit = 0 THEN 25 ELSE req.limit, 1, 200)
HasReactionFilters == req.filter # "none"
HistoryPageLimit == IF HasReactionFilters THEN PageLimit ELSE Limit

PassesReactionNameFilters(m) ==
  CASE req.filter = "with" -> m.reacted
    [] req.filter = "without" -> ~m.reacted
    [] OTHER -> TRUE

(* Seeded fault: the next page starts after the first message of this one.  *)
NextLatestFirst(page) == Head(page).ts

(* eachHistoryPage goes on from the last message of the page, and stops     *)
(* when that is no progress.                                                *)
NextLatest(page) == Last(page).ts

Return(messages) == pc' = "done" /\ out' = SortChronological(messages)

Ask == requests < MaxRequests /\ requests' = requests + 1

ListPage ==
  /\ pc = "list" /\ Ask
  /\ LET got == SlackHistory(req.ch, cursor, req.oldest, req.inclusive, HistoryPageLimit)
         page == NewestFirst(got)
         passing == NewestFirst({m \in got : PassesReactionNameFilters(m)})
         more == Limit - Len(out)
         taken == out \o SubSeq(passing, 1, IF Len(passing) < more THEN Len(passing) ELSE more)
         hasMore == \E m \in TopLevel(req.ch) : /\ After(m, req.oldest, req.inclusive)
                                                /\ page # << >> => m.ts < Last(page).ts
     IN IF \/ page = << >> \/ Len(taken) >= Limit \/ ~HasReactionFilters \/ ~hasMore
           \/ NextLatest(page) = cursor
        THEN Return(taken) /\ UNCHANGED cursor
        ELSE out' = taken /\ cursor' = NextLatest(page) /\ UNCHANGED pc
  /\ UNCHANGED <<worldVars, req, chan, filterUser, root, queue>>

-----------------------------------------------------------------------------
(* search in channels: the newest-first scan of each, one after the other.  *)
IsUserID(user) == user \in {"U1", "U2"}

(* searchUserIDForFilter: a failed listing looks like an unknown name.      *)
SearchUserIDForFilter(user, listed) ==
  IF user = NoUser \/ IsUserID(user) THEN user
  ELSE IF listed /\ user \in DOMAIN NamedUsers THEN NamedUsers[user] ELSE NoUser

NewScanFilter ==
  /\ pc = "scan"
  /\ \E listed \in BOOLEAN : filterUser' = SearchUserIDForFilter(req.user, listed)
  /\ cursor' = NoTS /\ pc' = "scanning"
  /\ UNCHANGED <<worldVars, req, chan, root, queue, out, requests>>

PastOldest(m) == req.oldest # NoTS /\ m.ts < req.oldest /\ ~(req.before # NoTS /\ m.ts > req.before)

Keep(m) ==
  /\ req.before = NoTS \/ m.ts <= req.before
  /\ filterUser = NoUser \/ m.author = filterUser
  /\ m.text

(* The messages of a page up to the first one past the --after boundary.    *)
InWindow(got) == {m \in got : \A past \in got : PastOldest(past) => past.ts < m.ts}

(* Seeded fault: the scan starts over in the same channel.                  *)
SameChannel ==
  IF Len(chan) <= 1 THEN pc' = "done" /\ UNCHANGED <<chan, cursor>>
  ELSE cursor' = NoTS /\ UNCHANGED <<pc, chan>>

NextChannel ==
  IF Len(chan) <= 1 THEN pc' = "done" /\ UNCHANGED <<chan, cursor>>
  ELSE chan' = Tail(chan) /\ cursor' = NoTS /\ UNCHANGED pc

ScanPage ==
  /\ pc = "scanning" /\ Ask
  /\ LET got == SlackHistory(Head(chan), cursor, NoTS, FALSE, PageLimit)
         hits == NewestFirst({m \in InWindow(got) : Keep(m)})
         more == Limit - Len(out)
         full == Len(hits) >= more
     IN /\ out' = out \o SubSeq(hits, 1, IF full THEN more ELSE Len(hits))
        /\ IF full THEN pc' = "done" /\ UNCHANGED <<chan, cursor>>
           ELSE IF got = {} \/ InWindow(got) # got THEN NextChannel
           ELSE cursor' = NextLatest(NewestFirst(got)) /\ UNCHANGED <<pc, chan>>
  /\ UNCHANGED <<worldVars, req, filterUser, root, queue>>

-----------------------------------------------------------------------------
(* search files in channels: files.list, newest first, by page number.  An  *)
(* item of a channel stands for a file there; a page count may be missing.  *)
PageOf(items, n, size) ==
  SubSeq(items, (n - 1) * size + 1, IF n * size < Len(items) THEN n * size ELSE Len(items))

TotalPages(items, size) == (Len(items) + size - 1) \div size

FilesPage ==
  /\ pc = "files" /\ Ask
  /\ \E counted \in BOOLEAN :
       LET all == NewestFirst({m \in TopLevel(Head(chan)) :
                                 /\ After(m, req.oldest, TRUE) /\ Before(m, req.before, TRUE)
                                 /\ req.user # NoUser => m.author = req.user})
           page == PageOf(all, cursor, PageLimit)
           named == NewestFirst({m \in ToSet(page) : m.text})
           more == Limit - Len(out)
           full == Len(named) >= more
       IN /\ out' = out \o SubSeq(named, 1, IF full THEN more ELSE Len(named))
          /\ IF full THEN pc' = "done" /\ UNCHANGED <<chan, cursor>>
             ELSE IF page = << >> \/ (counted /\ cursor >= TotalPages(all, PageLimit))
                  THEN IF Len(chan) <= 1 THEN pc' = "done" /\ UNCHANGED <<chan, cursor>>
                       ELSE chan' = Tail(chan) /\ cursor' = 1 /\ UNCHANGED pc
             ELSE cursor' = cursor + 1 /\ UNCHANGED <<pc, chan>>
  /\ UNCHANGED <<worldVars, req, filterUser, root, queue>>

(* search without channels: searchPaged, then each match is fetched.  What  *)
(* was deleted since is skipped.                                            *)
SearchPageSize == ClampInt(Limit, 1, PageLimit)

SearchPage ==
  /\ pc = "search" /\ Ask
  /\ LET all == NewestFirst({m \in there : m.text})
         page == PageOf(all, cursor, SearchPageSize)
         got == queue \o page
     IN /\ queue' = SubSeq(got, 1, IF Len(got) < Limit THEN Len(got) ELSE Limit)
        /\ IF Len(got) >= Limit \/ page = << >> \/ cursor >= TotalPages(all, SearchPageSize)
           THEN pc' = "hydrate" /\ UNCHANGED cursor
           ELSE cursor' = cursor + 1 /\ UNCHANGED pc
  /\ UNCHANGED <<worldVars, req, chan, filterUser, root, out>>

FetchSearchMessage ==
  /\ pc = "hydrate" /\ requests' = requests
  /\ IF queue = << >> THEN pc' = "done" /\ UNCHANGED <<queue, out>>
     ELSE /\ queue' = Tail(queue) /\ UNCHANGED pc
          /\ \E fetched \in BOOLEAN :
               out' = IF fetched /\ Head(queue).ts \in TSOf(there)
                      THEN Append(out, CHOOSE m \in there : m.ts = Head(queue).ts) ELSE out
  /\ UNCHANGED <<worldVars, req, chan, cursor, filterUser, root>>

-----------------------------------------------------------------------------
(* message get: recent history, then the thread the permalink names, then   *)
(* the message as a thread's root.  A permalink to list goes on with the    *)
(* thread of what was found.                                                *)
ThreadRootTS(m) == IF m.root # NoTS THEN m.root ELSE m.ts

Found(m) ==
  IF req.kind = "find" THEN pc' = "done" /\ out' = << m >> /\ UNCHANGED <<cursor, root>>
  ELSE pc' = "thread" /\ root' = ThreadRootTS(m) /\ cursor' = NoTS /\ UNCHANGED out

NotFound == pc' = "missing" /\ UNCHANGED <<cursor, root, out>>

LastTS(page) == CHOOSE t \in TSOf(page) : \A u \in TSOf(page) : u <= t

(* Seeded fault: a thread is its first page.                                *)
OnePage(page) == TRUE

LastPage(page) == Cardinality(page) < PageLimit

FindInHistory ==
  /\ pc = "find" /\ Ask
  /\ LET hits == {m \in SlackHistory(req.ch, req.target, NoTS, TRUE, 5) : m.ts = req.target}
     IN IF hits # {} THEN Found(CHOOSE m \in hits : TRUE)
        ELSE /\ pc' = IF req.hint # NoTS THEN "findInThread" ELSE "findRoot"
             /\ cursor' = NoTS /\ UNCHANGED <<root, out>>
  /\ UNCHANGED <<worldVars, req, chan, filterUser, queue>>

FindInThread ==
  /\ pc = "findInThread" /\ Ask
  /\ LET page == SlackReplies(req.ch, req.hint, cursor, PageLimit)
         hits == {m \in page : m.ts = req.target}
     IN IF hits # {} THEN Found(CHOOSE m \in hits : TRUE)
        ELSE IF ~LastPage(page)
             THEN cursor' = LastTS(page) /\ UNCHANGED <<pc, root, out>>
        ELSE pc' = "findRoot" /\ UNCHANGED <<cursor, root, out>>
  /\ UNCHANGED <<worldVars, req, chan, filterUser, queue>>

(* The last lookup is best effort: its error is a message not found.        *)
FindRoot ==
  /\ pc = "findRoot" /\ Ask
  /\ \E answered \in BOOLEAN :
       LET roots == {m \in SlackReplies(req.ch, req.target, NoTS, 1) : m.ts = req.target}
       IN IF answered /\ roots # {} THEN Found(CHOOSE m \in roots : TRUE) ELSE NotFound
  /\ UNCHANGED <<worldVars, req, chan, filterUser, queue>>

(* EachPage over conversations.replies.                                     *)
ThreadPage ==
  /\ pc = "thread" /\ Ask
  /\ LET page == SlackReplies(req.ch, root, cursor, PageLimit)
         all == out \o Reverse(NewestFirst(page))
     IN IF LastPage(page) THEN Return(all) /\ UNCHANGED cursor
        ELSE out' = all /\ cursor' = LastTS(page) /\ UNCHANGED pc
  /\ UNCHANGED <<worldVars, req, chan, filterUser, root, queue>>

(* Any request may fail: the command reports it and prints nothing.         *)
RequestFails ==
  /\ ~Stopped /\ pc \notin {"findRoot", "hydrate", "scan"} /\ pc' = "failed" /\ out' = << >>
  /\ UNCHANGED <<worldVars, req, chan, cursor, filterUser, root, queue, requests>>

-----------------------------------------------------------------------------
(* The workspace.                                                           *)
Post ==
  /\ arrived < Len(Arrivals)
  /\ arrived' = arrived + 1 /\ there' = there \cup {Arrivals[arrived + 1]}
  /\ UNCHANGED <<disturbed, req, readVars>>

Change(m) == m.ts \notin disturbed /\ Cardinality(disturbed) < MaxChanges
             /\ disturbed' = disturbed \cup {m.ts}

Delete ==
  /\ \E m \in there : Change(m) /\ there' = there \ {m}
  /\ UNCHANGED <<arrived, req, readVars>>

React ==
  /\ \E m \in there :
       Change(m) /\ there' = (there \ {m}) \cup {[m EXCEPT !.reacted = ~@]}
  /\ UNCHANGED <<arrived, req, readVars>>

Reading ==
  \/ FilesPage \/ SearchPage \/ FetchSearchMessage
  \/ ListPage \/ NewScanFilter \/ ScanPage
  \/ FindInHistory \/ FindInThread \/ FindRoot \/ ThreadPage

Over == Stopped /\ UNCHANGED vars

Next == Reading \/ RequestFails \/ Over \/ (~Stopped /\ (Post \/ Delete \/ React))

(* A request is answered: the client's timeout sees to it.                  *)
Spec == Init /\ [][Next]_vars /\ WF_vars(Reading)

-----------------------------------------------------------------------------
TypeOK ==
  /\ arrived \in 0 .. Len(Arrivals) /\ requests \in 0 .. MaxRequests
  /\ pc \in {"list", "scan", "scanning", "find", "findInThread", "findRoot", "thread",
             "files", "search", "hydrate", "done", "failed", "missing"}
  /\ req \in Requests /\ cursor \in Nat

(* No message is printed twice, though pages were read at different times   *)
(* and messages came and went in between.  Walking by page number (files,   *)
(* search) what is posted meanwhile shifts the pages, and only then.        *)
PrintedOnce ==
  \/ req.kind \in {"files", "search"} /\ arrived > 0
  \/ \A i, j \in DOMAIN out : i # j => out[i].ts # out[j].ts

Matches(m) ==
  CASE req.kind = "list" -> /\ m.root \in {NoTS, m.ts} /\ m.ch = req.ch
                            /\ After(m, req.oldest, req.inclusive)
                            /\ Before(m, req.latest, req.inclusive)
                            /\ PassesReactionNameFilters(m)
    [] req.kind = "scan" -> /\ m.root \in {NoTS, m.ts} /\ m.ch \in ToSet(req.channels)
                            /\ req.oldest = NoTS \/ m.ts >= req.oldest
                            /\ Keep(m)
    [] req.kind = "files" -> /\ m.root \in {NoTS, m.ts} /\ m.ch \in ToSet(req.channels)
                             /\ After(m, req.oldest, TRUE) /\ Before(m, req.before, TRUE)
                             /\ m.text /\ req.user \in {NoUser, m.author}
                             /\ disturbed = {}
    [] OTHER -> req.kind = "thread" /\ m.ch = req.ch /\ (m.ts = root \/ m.root = root)

(* A message that matched the whole time is printed, unless the limit was   *)
(* reached: with newer ones, in one channel.  Page numbers promise it only  *)
(* while nothing is deleted.                                                *)
StableMatchesPrinted ==
  pc = "done"
    => \A m \in Start :
         Matches(m) /\ m.ts \notin disturbed /\ m.ts \notin TSOf(ToSet(out))
           => /\ req.kind # "thread" /\ Len(out) = Limit
              /\ req.kind = "list" => \A i \in DOMAIN out : out[i].ts > m.ts

(* A message that could be looked up the whole time is found: one outside a *)
(* thread, a root, or a reply whose permalink names its thread.             *)
StableMessageFound ==
  pc = "missing"
    => \A m \in Start :
         m.ch = req.ch /\ m.ts = req.target
           => m.ts \in disturbed \/ (m.root \notin {NoTS, m.ts} /\ m.root # req.hint)

(* A scan for an author it cannot find matches nothing: the comment above   *)
(* searchUserIDForFilter.                                                   *)
UnknownAuthorMatchesNothing ==
  /\ req.kind = "scan" /\ req.user # NoUser
  /\ ~IsUserID(req.user) /\ req.user \notin DOMAIN NamedUsers
    => out = << >>

(* Nothing that was there the whole time is missed, looked up or listed.    *)
NothingStableIsMissed == StableMessageFound /\ StableMatchesPrinted

(* Reading ends though messages keep arriving: every page is older than the *)
(* one before.                                                              *)
ReadingEnds == <>Stopped
=============================================================================
