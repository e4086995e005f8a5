------------------------------ MODULE Workspace ------------------------------
(***************************************************************************)
(* The Slack workspace a watch run observes, and what its history reads    *)
(* return.  The workspace itself is not part of the repository: it is      *)
(* modelled from how eventbackfill.go, eventclassify.go and mockslack use  *)
(* it.  `log` is everything that ever happened, in order, each entry the   *)
(* event a live frame of it classifies to; entry i happened at instant 2i. *)
(***************************************************************************)
EXTENDS EventFilter, Sequences

CONSTANTS
  StartLog,           \* what happened before the run
  ActivityKinds,      \* which kinds of activity the workspace produces
  ReplyRoots,         \* messages people thread on
  MaxLog,             \* bound: total activity
  HistoryMax,         \* backfillMaxMessages
  MaxCatchUpThreads   \* thread reads per catch-up

(* What is in the log was there first hand: no copy read back, and a root   *)
(* does not yet carry its own thread.                                       *)
HappenedAt(e, i) ==
  /\ ~e.caughtUp
  /\ IF e.kind = "message" THEN e.ts = 2 * i /\ e.thread # e.ts /\ e.eventTS = NoTS
     ELSE e.eventTS = 2 * i

ASSUME WorkspaceAssumption ==
  /\ StartLog \in Seq(Event)
  /\ \A i \in DOMAIN StartLog : HappenedAt(StartLog[i], i)
  /\ ActivityKinds \subseteq EventKinds
  /\ ReplyRoots \subseteq Nat
  /\ MaxLog \in Nat /\ HistoryMax \in Nat \ {0}
  /\ MaxCatchUpThreads \in Nat \ {0}

VARIABLE log

WorkspaceInit == log = StartLog

Occurred == {log[i] : i \in DOMAIN log}
Instant == 2 * (Len(log) + 1)       \* when the next thing happens

(* A message is readable until it is deleted.                              *)
Readable(m) == ~ \E d \in Occurred : /\ d.kind = "message_deleted"
                                     /\ d.ch = m.ch /\ d.ts = m.ts
Messages(c) == {m \in Occurred : m.kind = "message" /\ m.ch = c /\ Readable(m)}

(* The reactions a message carries now: added and not removed since.       *)
ReactionsOn(m) ==
  {a \in Occurred : /\ a.kind = "reaction_added" /\ a.ch = m.ch /\ a.ts = m.ts
                    /\ ~ \E r \in Occurred : /\ r.kind = "reaction_removed"
                                             /\ ReactionKey(r) = ReactionKey(a)
                                             /\ r.eventTS > a.eventTS}

-----------------------------------------------------------------------------
(* What can happen next.                                                   *)
Posts ==
  [kind : {"message"}, ch : AllChannels, ts : {Instant},
   thread : {NoTS} \cup {r \in ReplyRoots : r < Instant}, eventTS : {NoTS},
   author : Users \cup Bots, reaction : {None}, target : {None}, caughtUp : {FALSE}]

Possible(p) == p.thread # NoTS => \E m \in Messages(p.ch) :
                                      m.ts = p.thread /\ m.thread = NoTS

AuthorAsUser(m) == IF m.author \in Users THEN m.author ELSE None

ReactionFrame(kind, m, u, n) ==
  [kind |-> kind, ch |-> m.ch, ts |-> m.ts, thread |-> NoTS, eventTS |-> Instant,
   author |-> u, reaction |-> n, target |-> AuthorAsUser(m), caughtUp |-> FALSE]

ReactionsAdded(m) ==
  {f \in {ReactionFrame("reaction_added", m, u, n) : u \in Users, n \in ReactionNames} :
     \A a \in ReactionsOn(m) : ReactionKey(a) # ReactionKey(f)}

ReactionsRemoved(m) ==
  {ReactionFrame("reaction_removed", m, a.author, a.reaction) : a \in ReactionsOn(m)}

Modified(m, kind) == [m EXCEPT !.kind = kind, !.eventTS = Instant]

AllMessages == UNION {Messages(c) : c \in AllChannels}

PossiblePosts == {p \in Posts : Possible(p)}
Reacting == UNION {ReactionsAdded(m) \cup ReactionsRemoved(m) : m \in AllMessages}
Edits == {Modified(m, "message_changed") : m \in AllMessages}
Deletions == {[Modified(m, "message_deleted") EXCEPT !.thread = NoTS] : m \in AllMessages}

NextActivity ==
  {e \in PossiblePosts \cup Reacting \cup Edits \cup Deletions : e.kind \in ActivityKinds}

-----------------------------------------------------------------------------
(* History reads.  A root carries its own ts as thread once it has replies. *)
Replies(m) == {r \in Messages(m.ch) : r.thread = m.ts /\ r.ts # m.ts}

Summary(m) == IF m.thread = NoTS /\ Replies(m) # {}
              THEN [m EXCEPT !.thread = m.ts] ELSE m

(* Replies inside a thread are absent from the channel's own history.      *)
ChannelHistory(c, since) ==
  {Summary(m) : m \in {x \in Messages(c) : x.thread = NoTS /\ x.ts >= since}}

FetchThread(c, root) ==
  {Summary(m) : m \in {x \in Messages(c) : x.ts = root \/ x.thread = root}}

Newest(S, n) == {m \in S : Cardinality({o \in S : o.ts > m.ts}) < n}
Oldest(S, n) == {x \in S : Cardinality({y \in S : y < x}) < n}

(* Pages newest first until the cap; reaching the cap is reported as a gap. *)
HistorySince(c, since) ==
  LET all == ChannelHistory(c, since)
  IN [messages |-> Newest(all, HistoryMax),
      missed   |-> IF Cardinality(all) >= HistoryMax THEN 1 ELSE 0]

EarlierTS(a, b) == IF a <= b THEN a ELSE b

(* Threads of the conversation worth reading: the root's, and any started on *)
(* a later message whose newest reply is after the cursor.                   *)
ThreadsWithNews(messages, since) ==
  {m.ts : m \in {x \in messages : /\ x.thread = x.ts /\ x.ts > RepliesTo
                                  /\ \E r \in Replies(x) : r.ts > since}}

(* The first read of a catch-up, and the threads to read after it.           *)
FirstRead(c, since) ==
  IF ThreadTS # NoTS
  THEN [messages |-> FetchThread(c, ThreadTS), missed |-> 0, roots |-> {}]
  ELSE IF RepliesTo = NoTS
  THEN [messages |-> HistorySince(c, since).messages,
        missed   |-> HistorySince(c, since).missed, roots |-> {}]
  ELSE LET history == HistorySince(c, EarlierTS(RepliesTo, since))
           later   == ThreadsWithNews(history.messages, since)
       IN [messages |-> history.messages,
           missed   |-> history.missed
                          + IF Cardinality(later) >= MaxCatchUpThreads THEN 1 ELSE 0,
           roots    |-> {RepliesTo} \cup Oldest(later, MaxCatchUpThreads - 1)]

(* A reaction read back from history is undated.                            *)
CaughtUpReactions(m) ==
  {[a EXCEPT !.eventTS = NoTS, !.thread = m.thread, !.caughtUp = TRUE] : a \in ReactionsOn(m)}

CatchUpEvents(messages, since) ==
  {m \in messages : m.ts > since}
    \cup UNION {CaughtUpReactions(m) : m \in {x \in messages : x.ts >= since}}
=============================================================================
