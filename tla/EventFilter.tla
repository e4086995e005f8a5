----------------------------- MODULE EventFilter -----------------------------
(***************************************************************************)
(* What a caller of `message await` / `message stream` considers an answer *)
(* (internal/slack/eventfilter.go, with the event record and its cursor    *)
(* from eventclassify.go).  The filter of one run never changes, so its    *)
(* fields are constants.                                                   *)
(*                                                                         *)
(* A Slack timestamp "<seconds>.<micros>" is an integer number of half     *)
(* ticks: things that happen in the workspace happen at even instants, and *)
(* the odd instant after one is its justAfter, one microsecond later.  The *)
(* unset timestamp "" is NoTS and sorts before everything, as compareTS    *)
(* sorts an unparseable one; "0" is 0.                                     *)
(***************************************************************************)
EXTENDS Integers, FiniteSets

CONSTANTS
  AllChannels,          \* the conversations of the workspace
  Users, Bots,          \* who can author an event; an app has only a bot id
  ReactionNames,        \* reaction names, skin tone already stripped
  None,                 \* the empty string where an id is expected
  Kinds,                \* EventFilter.kinds(): the kinds asked for
  Channels,             \* EventFilter.Channels; {} watches the workspace
  ThreadTS,             \* EventFilter.ThreadTS, NoTS when unset
  IncludeThreadReplies,
  RepliesTo,            \* root of the conversation held, NoTS when unset
  From,                 \* {} accepts every author
  SelfUser,             \* the authenticated user, None when unresolved
  IncludeSelf,
  ExcludeBots,
  Reactions,            \* {} accepts every reaction
  Since                 \* exclusive cursor, NoTS when unset

NoTS == -1
Timestamps == Nat \cup {NoTS}

EventKinds == {"message", "reaction_added", "reaction_removed",
               "message_changed", "message_deleted"}

Event == [kind : EventKinds, ch : AllChannels, ts : Nat, thread : Timestamps,
          eventTS : Timestamps, author : Users \cup Bots \cup {None},
          reaction : ReactionNames \cup {None},
          target : Users \cup Bots \cup {None}, caughtUp : BOOLEAN]

ASSUME FilterAssumption ==
  /\ Kinds \subseteq EventKinds /\ Kinds # {}
  /\ Channels \subseteq AllChannels /\ IsFiniteSet(Channels)
  /\ From \subseteq Users \cup Bots
  /\ Reactions \subseteq ReactionNames
  /\ SelfUser \in Users \cup {None}
  /\ {IncludeThreadReplies, IncludeSelf, ExcludeBots} \subseteq BOOLEAN
  /\ {ThreadTS, RepliesTo, Since} \subseteq Timestamps
  /\ None \notin Users \cup Bots \cup ReactionNames

-----------------------------------------------------------------------------
(* The one place cursors advance: an unset candidate leaves the cursor, and *)
(* an unset cursor takes any candidate.                                     *)
MaxTS(current, candidate) == IF candidate > current THEN candidate ELSE current

JustAfter(ts) == ts + 1

(* When an event happened.  A reaction read back from history has no time   *)
(* of its own and sits just after the message it is on.                     *)
Cursor(e) == IF e.caughtUp THEN JustAfter(e.ts)
             ELSE IF e.eventTS # NoTS THEN e.eventTS ELSE e.ts

IsReaction(e) == e.kind \in {"reaction_added", "reaction_removed"}

(* Identity for dedup across catch-up and live delivery, and the identity   *)
(* of a reaction regardless of when it was seen.                            *)
EventKey(e) == <<e.kind, e.ch, e.ts, e.eventTS, e.reaction, e.author>>
ReactionKey(e) == <<e.ch, e.ts, e.reaction, e.author>>

-----------------------------------------------------------------------------
(* Primary selectors: kind, conversation, cursor, self, thread.             *)
IsSelf(e) == ~IncludeSelf /\ SelfUser # None /\ e.author = SelfUser

OnOwnMessage(e) == SelfUser # None /\ e.target = SelfUser

InConversationThread(thread) == RepliesTo # NoTS /\ thread >= RepliesTo

ReactsWithinConversation(e) ==
  \/ e.ts = RepliesTo
  \/ /\ OnOwnMessage(e)
     /\ IF e.thread # NoTS THEN InConversationThread(e.thread)
        ELSE e.ts >= RepliesTo /\ e.ts >= Since

InWatchedThread(e) ==
  IF IsReaction(e)
  THEN e.ts = ThreadTS \/ (OnOwnMessage(e) /\ e.thread = ThreadTS)
  ELSE e.thread = ThreadTS /\ e.ts # ThreadTS

IsThreadReply(e) == e.kind = "message" /\ e.thread # NoTS /\ e.thread # e.ts

InChannelScope(e) ==
  IF IsReaction(e) THEN RepliesTo = NoTS \/ ReactsWithinConversation(e)
  ELSE IsThreadReply(e) =>
         IncludeThreadReplies \/ InConversationThread(e.thread)

MatchesThread(e) ==
  IF ThreadTS # NoTS THEN InWatchedThread(e) ELSE InChannelScope(e)

InScope(e) ==
  /\ e.kind \in Kinds
  /\ Channels # {} => e.ch \in Channels
  /\ Since # NoTS => Cursor(e) > Since
  /\ ~IsSelf(e)
  /\ MatchesThread(e)

-----------------------------------------------------------------------------
(* Narrowing filters: which in-scope events are answers.                    *)
MatchesAuthor(e) == /\ ExcludeBots => e.author \notin Bots
                    /\ From # {} => e.author \in From

MatchesReaction(e) == IsReaction(e) /\ Reactions # {} => e.reaction \in Reactions

Narrows(e) == MatchesAuthor(e) /\ MatchesReaction(e)

Matches(e) == InScope(e) /\ Narrows(e)
=============================================================================
