---------------------------- MODULE WatchCommand ----------------------------
(***************************************************************************)
(* `message await` and `message stream`: from the flags to the filter of   *)
(* the run, or a refusal.  Timestamps are those of EventFilter.  ThreadOf  *)
(* maps each message of the conversation to the thread it is a reply in,   *)
(* NoTS for a message of the channel itself; a word is a timestamp, a      *)
(* permalink (whose thread_ts may be missing) or neither.                  *)
(***************************************************************************)
EXTENDS Integers, FiniteSets, Sequences

CONSTANTS
  ThreadOf,             \* message timestamp -> root it replies to
  OwnDM, Channel,       \* the note-to-self DM, and a shared conversation
  Self, Other           \* the authenticated user, and who answers

NoTS == -1
None == "none"
Refused == [refused |-> TRUE]
NoRoot == -2                    \* instead of a root: the command is refused

Word(form, ts, hint, ch) == [form |-> form, ts |-> ts, hint |-> hint, ch |-> ch]
NoWord == Word("none", NoTS, NoTS, None)
Stamp(ts) == Word("ts", ts, NoTS, None)
Permalink(ch, ts, hint) == Word("url", ts, hint, ch)

(* The root of the thread a message is in, or that it would start.          *)
RootOf(ts) == IF ThreadOf[ts] = NoTS THEN ts ELSE ThreadOf[ts]

-----------------------------------------------------------------------------
(* eventKindAliases.                                                        *)
Expanded(name) ==
  CASE name = "message"  -> {"message"}
    [] name = "reaction" -> {"reaction_added", "reaction_removed"}
    [] name = "edit"     -> {"message_changed"}
    [] name = "delete"   -> {"message_deleted"}
    [] OTHER             -> {}

Known(names) == \A name \in names : Expanded(name) # {}

ParseEventKinds(names) == UNION {Expanded(name) : name \in names}

(* withReactionKinds.                                                       *)
WithReactionKinds(kinds, reactions) ==
  IF reactions = {} \/ kinds \cap Expanded("reaction") # {} THEN kinds
  ELSE kinds \cup Expanded("reaction")

(* EventFilter.kinds: messages unless told.                                 *)
KindsOf(kinds) == IF kinds = {} THEN {"message"} ELSE kinds

(* isOwnDM; an identity that is not resolved owns none.                     *)
IsOwnDM(ch, known) == known /\ ch = OwnDM

(* buildFilter.                                                             *)
BuildFilter(o) ==
  [kinds |-> KindsOf(WithReactionKinds(ParseEventKinds(o.events), o.reactions)),
   reactions |-> o.reactions, from |-> o.from,
   self |-> IF o.known THEN Self ELSE None, includeSelf |-> o.includeSelf,
   threads |-> o.threads, since |-> o.since,
   channels |-> {}, thread |-> NoTS, repliesTo |-> NoTS]

-----------------------------------------------------------------------------
(* Seeded fault: the message a permalink names is the root.                 *)
TrustPermalink(word, ch) ==
  IF word.form = "ts" \/ (word.form = "url" /\ word.ch = ch) THEN word.ts ELSE NoRoot

(* resolveConversationRoot: a timestamp is trusted, a permalink looked up.  *)
ResolveConversationRoot(word, ch) ==
  IF word.form = "ts" THEN word.ts
  ELSE IF word.form = "url" /\ word.ch = ch
       THEN IF word.hint # NoTS THEN word.hint ELSE RootOf(word.ts)
       ELSE NoRoot

(* resolveWatchTarget: the thread of an await.                              *)
WatchedThread(target, threadFlag) ==
  IF threadFlag # NoTS \/ target.form # "url" THEN threadFlag
  ELSE IF target.hint # NoTS THEN target.hint ELSE target.ts

(* awaitRepliesTo: the message of --since on the first turn, then the one   *)
(* that --conversation names.                                               *)
AwaitRepliesTo(o, thread, ch) ==
  IF o.conversation = NoWord THEN (IF thread # NoTS THEN NoTS ELSE o.since)
  ELSE IF thread # NoTS THEN NoRoot ELSE ResolveConversationRoot(o.conversation, ch)

(* streamConversation.                                                      *)
StreamConversation(o) ==
  IF o.conversation = NoWord THEN (IF o.since # NoTS THEN NoRoot ELSE NoTS)
  ELSE IF Len(o.channels) # 1 THEN NoRoot
       ELSE ResolveConversationRoot(o.conversation, o.channels[1])

(* pollMode: an await falls back to polling, with a notice.                 *)
PollMode(o) == o.poll \/ ~o.browser

(* In your own DM every message is yours.                                   *)
HearsItself(filter, ch, known) ==
  IF IsOwnDM(ch, known) THEN [filter EXCEPT !.includeSelf = TRUE] ELSE filter

Run(filter, poll, notice) ==
  [refused |-> FALSE, filter |-> filter, poll |-> poll, notice |-> notice]

Await(o) ==
  LET ch == o.target.ch
      thread == WatchedThread(o.target, o.threadFlag)
      root == AwaitRepliesTo(o, thread, ch)
  IN IF ~Known(o.events) \/ root = NoRoot THEN Refused
     ELSE Run(HearsItself([BuildFilter(o) EXCEPT !.channels = {ch}, !.thread = thread,
                                                 !.repliesTo = root], ch, o.known),
              PollMode(o), ~o.poll /\ ~o.browser)

(* A stream is bounded, never falls back to polling, and polls one channel. *)
Stream(o) ==
  LET root == StreamConversation(o)
      single == Len(o.channels) = 1
      filter == [BuildFilter(o) EXCEPT !.repliesTo = root,
                   !.channels = {o.channels[n] : n \in DOMAIN o.channels}]
  IN IF \/ ~o.poll /\ ~o.browser
        \/ ~o.bounded \/ ~Known(o.events) \/ root = NoRoot
        \/ o.poll /\ ~single
     THEN Refused
     ELSE Run(IF single THEN HearsItself(filter, o.channels[1], o.known) ELSE filter,
              o.poll, FALSE)

-----------------------------------------------------------------------------
(* What the filter hears of what happens.                                   *)
Filter(Kinds, Channels, ThreadTS, IncludeThreadReplies, RepliesTo, From, SelfUser,
       IncludeSelf, Reactions, Since) ==
  INSTANCE EventFilter WITH
    AllChannels <- {OwnDM, Channel}, Users <- {Self, Other}, Bots <- {},
    ReactionNames <- {"eyes"}, ExcludeBots <- FALSE

Hears(f, e) ==
  Filter(f.kinds, f.channels, f.thread, f.threads, f.repliesTo, f.from, f.self,
         f.includeSelf, f.reactions, f.since)!Matches(e)

Event(kind, ch, ts, thread, at, author, reaction, target) ==
  [kind |-> kind, ch |-> ch, ts |-> ts, thread |-> thread, eventTS |-> at, author |-> author,
   reaction |-> reaction, target |-> target, caughtUp |-> FALSE]

(* Who answers in a conversation: in the own DM it is the user again.       *)
Answerer(ch) == IF ch = OwnDM THEN Self ELSE Other

(* The answers to what was asked at `root`, at instant `at`: a message of   *)
(* the channel, a reply in the thread, and a reaction on the root.          *)
AnswersTo(ch, root, at) ==
  {Event("message", ch, at, NoTS, NoTS, Answerer(ch), None, None),
   Event("message", ch, at, root, NoTS, Answerer(ch), None, None),
   Event("reaction_added", ch, root, NoTS, at, Answerer(ch), "eyes", Self)}

(* Whether the flags ask for events of this kind and reaction.              *)
AsksFor(o, e) ==
  /\ o.from = {} \/ e.author \in o.from
  /\ IF e.kind = "message" THEN "message" \in o.events \/ (o.events = {} /\ o.reactions = {})
     ELSE "reaction" \in o.events \/ o.reactions # {}

(* A turn of a conversation that the user's message `root` started: the     *)
(* first names it by --since, the later ones (and a stream) by its          *)
(* timestamp or by the permalink of any message in its thread.              *)
IsTurn(o, root) ==
  \/ o.command = "await" /\ o.conversation = NoWord /\ o.since = root
  \/ /\ o.conversation.form = "ts" /\ o.conversation.ts = root
     /\ o.since # NoTS
  \/ /\ o.conversation.form = "url" /\ RootOf(o.conversation.ts) = root
     /\ o.since # NoTS

ChannelOf(o) == IF o.command = "await" THEN o.target.ch ELSE o.channels[1]
RunOf(o) == IF o.command = "await" THEN Await(o) ELSE Stream(o)

(* Every turn of a conversation hears every answer to the message that      *)
(* started it that comes after its cursor and is of a kind it asks for:     *)
(* awaitRepliesTo and resolveConversationRoot find the same root however    *)
(* the conversation is named, withReactionKinds listens for the reactions   *)
(* it filters, and in the own DM the user's own messages count.             *)
EveryTurnHearsTheAnswers(o) ==
  LET run == RunOf(o)
  IN ~run.refused =>
       \A root \in {ts \in DOMAIN ThreadOf : ThreadOf[ts] = NoTS} :
         /\ IsTurn(o, root) /\ run.filter.thread = NoTS
         => \A at \in {8, 10} : \A e \in AnswersTo(ChannelOf(o), root, at) :
              /\ AsksFor(o, e) /\ (ChannelOf(o) = OwnDM => o.known) /\ at > o.since
              => Hears(run.filter, e)

(* An await in a thread hears the replies in it, when the permalink names   *)
(* the thread or its root (resolveWatchTarget).                             *)
ThreadAwaitsHearReplies(o) ==
  LET run == RunOf(o)
  IN /\ o.command = "await" /\ ~run.refused /\ run.filter.thread # NoTS
     /\ o.threadFlag = NoTS => o.target.hint # NoTS \/ ThreadOf[o.target.ts] = NoTS
     => \A at \in {8, 10} :
          LET e == Event("message", ChannelOf(o), at,
                         IF o.threadFlag # NoTS THEN o.threadFlag ELSE RootOf(o.target.ts),
                         NoTS, Answerer(ChannelOf(o)), None, None)
          IN /\ AsksFor(o, e) /\ (ChannelOf(o) = OwnDM => o.known) /\ at > o.since
             => Hears(run.filter, e)

(* The comment of resolveWatchTarget promises it of every permalink.        *)
PermalinksAwaitTheirThread(o) ==
  LET run == RunOf(o)
  IN o.command = "await" /\ o.target.form = "url" /\ o.threadFlag = NoTS /\ ~run.refused
     => run.filter.thread = RootOf(o.target.ts)
=============================================================================
