-------------------------------- MODULE Inbox --------------------------------
(***************************************************************************)
(* What waits for the user: unread conversations (unreads.go) and saved    *)
(* messages (later.go), and the grouped text in which --format transcript  *)
(* shows them (cli/list_transcript.go, render/grouped.go).  Slack's        *)
(* answers are arguments; a lookup that fails leaves a blank, never an     *)
(* error.                                                                  *)
(***************************************************************************)
EXTENDS Integers, Sequences, FiniteSets, SequencesExt

CONSTANT PageLimit  \* items of saved.list per page (50)

None == "none"
Unknown == -1

(* At most n items of s after the first k.                                  *)
Page(s, k, n) == SubSeq(s, k + 1, IF k + n > Len(s) THEN Len(s) ELSE k + n)

-----------------------------------------------------------------------------
(* Unreads.  An entry of client.counts: id, type, mentions, the count it    *)
(* displays or Unknown, whether it says what was read last; what            *)
(* conversations.info says of it, or None; and its history since, newest    *)
(* first, or NoHistory.                                                     *)
NoHistory == [ok |-> FALSE]
History(messages, more) == [ok |-> TRUE, messages |-> messages, more |-> more]

Entry(id, type, mentions, count, read, info, history) ==
  [id |-> id, type |-> type, mentions |-> mentions, count |-> count, read |-> read,
   info |-> info, history |-> history]

(* unreadEntries: channels, then group DMs, then DMs.                       *)
UnreadEntries(entries) ==
  LET OfType(type) == SelectSeq(entries, LAMBDA e : e.type = type)
  IN OfType("channel") \o OfType("mpim") \o OfType("dm")

(* rawUnreadCount: one, when Slack gives no number.                         *)
RawUnreadCount(e) == IF e.count = Unknown THEN 1 ELSE e.count

(* fetchUnreadMessages: limit of them, system messages left out, oldest     *)
(* first; and the count they imply.                                         *)
FetchUnreadMessages(e, limit, skipSystem) ==
  LET page == Page(e.history.messages, 0, limit)
  IN SelectSeq(page, LAMBDA m : ~(skipSystem /\ m.system))

HasMore(e, limit) == e.history.more \/ Len(e.history.messages) > limit

(* Seeded fault: a page of system messages hides that there are more.       *)
CountOnPage(e, limit, skipSystem) == Len(FetchUnreadMessages(e, limit, skipSystem))

InferredCount(e, limit, skipSystem) ==
  LET kept == Len(FetchUnreadMessages(e, limit, skipSystem))
  IN IF HasMore(e, limit) /\ kept < 2 THEN 2 ELSE kept

(* channelIdentity, hydrateUnreadChannel.                                   *)
Hydrate(e, include, limit, skipSystem) ==
  LET fetched == include /\ e.read /\ e.history.ok
  IN [id |-> e.id, type |-> IF e.info = None THEN e.type ELSE e.info,
      named |-> e.info # None, mentions |-> e.mentions,
      count |-> IF fetched /\ e.count = Unknown THEN InferredCount(e, limit, skipSystem)
                ELSE RawUnreadCount(e),
      messages |-> IF fetched THEN Reverse(FetchUnreadMessages(e, limit, skipSystem)) ELSE <<>>]

(* sortUnreadChannels: mentions first, then by volume, stable.              *)
Precedes(a, b) == a.mentions > b.mentions \/ (a.mentions = b.mentions /\ a.count > b.count)

SortUnreadChannels(channels) ==
  LET Before(j, i) == Precedes(channels[j], channels[i])
                        \/ (~Precedes(channels[i], channels[j]) /\ j < i)
      Rank(i) == Cardinality({j \in DOMAIN channels : Before(j, i)}) + 1
  IN [n \in DOMAIN channels |-> channels[CHOOSE i \in DOMAIN channels : Rank(i) = n]]

FetchUnreads(entries, include, limit, skipSystem) ==
  LET found == UnreadEntries(entries)
  IN SortUnreadChannels([i \in DOMAIN found |-> Hydrate(found[i], include, limit, skipSystem)])

-----------------------------------------------------------------------------
(* Later.  An item of saved.list: its state, whether it is a message, and   *)
(* whether Slack still has that.                                            *)
Saved(id, state, message, kept) ==
  [id |-> id, state |-> state, message |-> message, kept |-> kept]

(* ParseLaterState: the state asked for, None for what is no state.         *)
LaterAliases ==
  [active |-> "in_progress", open |-> "in_progress", archive |-> "archived",
   complete |-> "completed", done |-> "completed"]
LaterStateOrder == <<"in_progress", "completed", "archived">>
ParseLaterState(raw) ==
  CASE raw \in DOMAIN LaterAliases -> LaterAliases[raw]
    [] raw \in ToSet(LaterStateOrder) \cup {"all"} -> raw
    [] OTHER -> None

(* fetchLaterMessage: whether there is a text.                              *)
FetchLaterMessage(x) == x.message /\ x.kept

(* hydrateLaterItem: an item without a state is shown as in progress, one   *)
(* whose message is gone without its text.                                  *)
HydrateLaterItem(x) ==
  [id |-> x.id, state |-> IF x.state = None THEN "in_progress" ELSE x.state,
   text |-> FetchLaterMessage(x)]

FilterLaterItems(items, state) ==
  SelectSeq(items, LAMBDA x : x.message /\ (state = "all" \/ x.state = state))

(* The cursor after a page of saved.list, of PageLimit items: a number of   *)
(* items, Unknown at the end.                                               *)
NextCursor(items, cursor) ==
  IF cursor + PageLimit < Len(items) THEN cursor + PageLimit ELSE Unknown

Enough(filtered, limit) == Len(filtered) >= limit

(* FetchLaterItems: pages until there are enough; then no more than limit.  *)
FetchLaterItems(items, state, limit, countsOnly, cursor) ==
  LET Upto(n) == Page(items, cursor, n * PageLimit)
      Done(n) == Enough(FilterLaterItems(Upto(n), state), limit)
                   \/ NextCursor(items, cursor + (n - 1) * PageLimit) = Unknown
      pages == IF countsOnly THEN 1
               ELSE CHOOSE n \in 1..Len(items) + 1 :
                      Done(n) /\ \A k \in 1..n - 1 : ~Done(k)
      kept == IF countsOnly THEN <<>> ELSE Page(FilterLaterItems(Upto(pages), state), 0, limit)
  IN [items |-> [i \in DOMAIN kept |-> HydrateLaterItem(kept[i])],
      next |-> NextCursor(items, cursor + (pages - 1) * PageLimit)]

-----------------------------------------------------------------------------
(* unreads and later list: what the flags ask for.                          *)
UnreadsAsked(entries, countsOnly, max, includeSystem) ==
  FetchUnreads(entries, ~countsOnly, max, ~includeSystem)

LaterAsked(items, raw, limit, countsOnly, cursor) ==
  IF ParseLaterState(raw) = None THEN [items |-> <<>>, next |-> Unknown]
  ELSE FetchLaterItems(items, ParseLaterState(raw), limit, countsOnly, cursor)

(* Digests: sections of a heading and items; one without items is skipped.  *)
Section(heading, items) == [heading |-> heading, items |-> items]
RenderGrouped(sections) == SelectSeq(sections, LAMBDA s : s.items # <<>>)

(* unreadChannelLabel.                                                      *)
UnreadChannelLabel(channel) ==
  [type |-> channel.type, id |-> channel.id, named |-> channel.named, count |-> channel.count]

(* renderUnreadsTranscript.                                                 *)
UnreadsDigest(channels) ==
  RenderGrouped([i \in DOMAIN channels |->
    Section(UnreadChannelLabel(channels[i]), channels[i].messages)])

(* laterDigestItem: the line of an item, with its text when it has one.     *)
LaterDigestItem(x) == [id |-> x.id, lines |-> IF x.text THEN 2 ELSE 1]

(* laterSections.                                                           *)
LaterSections(items) ==
  LET Of(state) == SelectSeq(items, LAMBDA x : x.state = state)
      Lines(state) == [n \in DOMAIN Of(state) |-> LaterDigestItem(Of(state)[n])]
  IN [n \in 1..3 |-> Section(LaterStateOrder[n], Lines(LaterStateOrder[n]))]

(* renderLaterTranscript.                                                   *)
LaterDigest(items) == RenderGrouped(LaterSections(items))

(* renderDraftsTranscript: one section without a heading, each draft with   *)
(* its target, its time and its files.                                      *)
DraftsDigest(drafts) ==
  RenderGrouped(<<Section(None, [n \in DOMAIN drafts |->
    [id |-> drafts[n].id, scheduled |-> drafts[n].at > 0, files |-> Len(drafts[n].files)]])>>)

-----------------------------------------------------------------------------
(* A conversation that Slack says has unread messages is reported with at   *)
(* least as many as are shown of it, whatever lookups failed, and with none *)
(* only when system messages are all there are (hydrateUnreadChannel).      *)
UnreadsAreReported(entries, countsOnly, limit, includeSystem) ==
  LET channels == UnreadsAsked(entries, countsOnly, limit, includeSystem)
  IN /\ {channels[i].id : i \in DOMAIN channels} = {entries[i].id : i \in DOMAIN entries}
     /\ \A i \in DOMAIN channels, n \in DOMAIN entries :
          channels[i].id = entries[n].id /\ entries[n].count = Unknown =>
            /\ Len(channels[i].messages) <= channels[i].count
            /\ channels[i].count = 0 =>
                 /\ ~entries[n].history.more
                 /\ \A k \in DOMAIN entries[n].history.messages :
                      entries[n].history.messages[k].system
     /\ \A i, j \in DOMAIN channels : i < j => ~Precedes(channels[j], channels[i])

(* A list shorter than asked for is the whole list, in Slack's order, each  *)
(* item once in the digest, also when its message is gone (FetchLaterItems, *)
(* hydrateLaterItem, laterSections).                                        *)
ShortListIsWhole(items, raw, limit) ==
  LET got == LaterAsked(items, raw, limit, FALSE, 0)
      all == FilterLaterItems(items, ParseLaterState(raw))
      shown == FlattenSeq([n \in DOMAIN LaterDigest(got.items) |-> LaterDigest(got.items)[n].items])
  IN /\ Len(got.items) < limit => Len(got.items) = Len(all) /\ got.next = Unknown
     /\ \A i \in DOMAIN got.items : got.items[i].id = all[i].id
     /\ Len(shown) = Len(got.items)
     /\ {shown[i].id : i \in DOMAIN shown} = {got.items[i].id : i \in DOMAIN got.items}

(* Following the cursor lists every item once.                              *)
CursorsMissNothing(items, state, limit) ==
  LET first == FetchLaterItems(items, state, limit, FALSE, 0)
      second == FetchLaterItems(items, state, limit, FALSE, first.next)
  IN first.next # Unknown /\ second.next = Unknown /\ Len(second.items) < limit
       => Len(first.items) + Len(second.items) = Len(FilterLaterItems(items, state))

(* The digest shows unread messages of each conversation that has some.     *)
UnreadDigestIsWhole(channels) ==
  \A i \in DOMAIN channels : channels[i].count > 0 =>
    \E n \in DOMAIN UnreadsDigest(channels) :
      UnreadsDigest(channels)[n].heading.count = channels[i].count
=============================================================================
