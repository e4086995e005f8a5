------------------------------- MODULE Targets -------------------------------
(***************************************************************************)
(* The <target> of a command: how it is read (render/url.go,               *)
(* render/target.go), which client it gets (cli/message.go) and the        *)
(* permalinks that are built for it to be read again.  A URL is its        *)
(* workspace, whether that is a slack.com host, its path and the two       *)
(* parameters of a thread; the members of its path are told apart by what  *)
(* the code's patterns accept.                                             *)
(***************************************************************************)
EXTENDS Accounts

CONSTANTS
  ChannelIds, UserIds, CanvasIds,
  Stamps,       \* message timestamps
  DigitsOf,     \* [Stamps -> the p<digits> of each]
  IdOfChannel,  \* [channel names -> ids] of the workspace at hand
  DmOf          \* [UserIds -> the conversation with each]

Url(ws, slack, path, thread, cid) ==
  [form |-> "url", ws |-> ws, slack |-> slack, path |-> path, thread |-> thread, cid |-> cid]
Text(mark, word) == [form |-> "text", mark |-> mark, word |-> word]

TimestampOf(digits) == CHOOSE ts \in Stamps : DigitsOf[ts] = digits
IsMessageId(member) == \E ts \in Stamps : DigitsOf[ts] = member

IsArchive(input) ==
  input.form = "url" /\ input.slack /\ Len(input.path) > 0 /\ input.path[1] = "archives"

Failed == [kind |-> "error"]

(* ParseMessageURL.                                                         *)
IsMessageURL(input) == IsArchive(input) /\ Len(input.path) >= 3 /\ IsMessageId(input.path[3])

MessageRef(ws, channel, ts, hint, truncated) ==
  [ws |-> ws, channel |-> channel, ts |-> ts, hint |-> hint, truncated |-> truncated]

ParseMessageURL(input) ==
  MessageRef(input.ws, input.path[2], TimestampOf(input.path[3]),
             IF input.thread \in Stamps THEN input.thread ELSE None,
             input.thread # None /\ ~input.cid)

(* ParseChannelURL.                                                         *)
IsChannelURL(input) ==
  IsArchive(input) /\ Len(input.path) = 2 /\ input.path[2] \in ChannelIds

(* isSlackArchiveURL: also with nothing after it.                           *)
IsSlackArchiveURL(input) == IsArchive(input) /\ Len(input.path) > 1

(* BuildMessageURL.                                                         *)
BuildMessageURL(ws, channel, ts, thread) ==
  LET reply == thread # None /\ thread # ts
  IN Url(ws, TRUE, <<"archives", channel, DigitsOf[ts]>>,
         IF reply THEN thread ELSE None, reply)

(* ParseCanvasURL: the first member that is a canvas id.                    *)
ParseCanvasURL(input) ==
  LET ids == {n \in DOMAIN input.path : input.path[n] \in CanvasIds}
  IN IF input.form # "url" \/ ~input.slack \/ Len(input.path) = 0 THEN Failed
     ELSE IF input.path[1] # "docs" \/ ids = {} THEN Failed
     ELSE [kind |-> "canvas", ws |-> input.ws,
           id |-> input.path[CHOOSE n \in ids : \A m \in ids : n <= m]]

TargetOf(kind, ws, id, ref) == [kind |-> kind, ws |-> ws, id |-> id, ref |-> ref]
NoRef == MessageRef(None, None, None, None, FALSE)

RefusesArchive(input) == IsSlackArchiveURL(input)

(* ParseTarget.  Any other URL, and any other word, is a channel name.      *)
ParseTarget(input) ==
  IF IsMessageURL(input)
  THEN TargetOf("url", input.ws, input.path[2], ParseMessageURL(input))
  ELSE IF IsChannelURL(input) THEN TargetOf("channel", input.ws, input.path[2], NoRef)
  ELSE IF RefusesArchive(input) THEN Failed
  ELSE IF input.form = "url" THEN TargetOf("channel", None, "a name", NoRef)
  ELSE IF input.mark = "@" \/ (input.mark = "" /\ input.word \in UserIds)
  THEN TargetOf("user", None, input.word, NoRef)
  ELSE TargetOf("channel", None, input.word, NoRef)

-----------------------------------------------------------------------------
(* ResolveChannelID, ResolveUserID and OpenDMChannel in the client's        *)
(* workspace.                                                               *)
ConversationOf(target) ==
  CASE target.kind = "user" -> IF target.id \in UserIds THEN DmOf[target.id] ELSE None
    [] target.id \in ChannelIds -> target.id
    [] target.id \in DOMAIN IdOfChannel -> IdOfChannel[target.id]
    [] OTHER -> None

PermalinkElsewhere(target, client) ==
  /\ target.kind = "url" /\ target.ref.ws # None /\ client.url # None
  /\ ~WorkspaceMatches(target.ref.ws, client.url)

(* channelIDForTarget.                                                      *)
ChannelIDForTarget(target, client) ==
  IF target.kind = "url"
  THEN IF PermalinkElsewhere(target, client) THEN None ELSE target.ref.channel
  ELSE ConversationOf(target)

(* The workspace that a target pins; @handles and names pin none.           *)
Pinned(target) ==
  CASE target.kind = "url" -> target.ref.ws
    [] target.kind = "channel" -> target.ws
    [] OTHER -> None

(* resolveTargetClient.  The id in a permalink is taken as it is: its client*)
(* was selected by its workspace.                                           *)
Resolved(client, channel) == [client |-> client, channel |-> channel]

ResolveTargetClient(target, store, env, desktop, flag, required, dms) ==
  LET client == GetClient(store, env, desktop, Pinned(target), flag, required)
  IN IF target.kind = "user" /\ ~dms THEN Resolved(NoClient, None)
     ELSE IF client = NoClient THEN Resolved(NoClient, None)
     ELSE Resolved(client, IF target.kind = "url" THEN target.ref.channel
                           ELSE ChannelIDForTarget(target, client))

(* resolveMessageTarget: a channel needs --ts, a permalink has its own.     *)
ResolveMessageTarget(input, ts, store, env, desktop, flag, required) ==
  LET target == ParseTarget(input)
      at == ResolveTargetClient(target, store, env, desktop, flag, required, FALSE)
  IN IF target = Failed \/ (target.kind = "channel" /\ ts = None) THEN Failed
     ELSE IF at.client = NoClient \/ at.channel = None THEN Failed
     ELSE [kind |-> "message", client |-> at.client,
           ref |-> IF target.kind = "url" THEN target.ref
                   ELSE MessageRef(at.client.url, at.channel, ts, None, FALSE)]

(* parseForwardTarget: a forward stays in its workspace.                    *)
ParseForwardTarget(input, destination) ==
  IF IsMessageURL(input) /\ WorkspaceMatches(input.ws, destination)
  THEN ParseMessageURL(input) ELSE Failed

-----------------------------------------------------------------------------
(* An account whose name, or whose URL, has that of a workspace inside it.  *)
Quotes(account, url) == HasPart(account.name, url) \/ <<url, account.url>> \in Within

(* A message that a permalink names is read and written in that workspace,  *)
(* with no other account's client, whatever the flags, the environment and  *)
(* the stored accounts, because a URL selects by more than a part only      *)
(* where no account quotes it (resolveTargetClient, clientFromEnv,          *)
(* resolveWorkspace); so is every target of a stream, whose client is       *)
(* chosen apart from them (channelIDForTarget).                             *)
PermalinksStayHome(input, store, env, desktop, flag, required) ==
  IsMessageURL(input) =>
    LET got == ResolveMessageTarget(input, None, store, env, desktop, flag, required)
        client == GetClient(store, env, desktop, None, flag, required)
    IN /\ got # Failed => \/ HostOfText(got.client.url) = HostOfText(input.ws)
                          \/ \E i \in DOMAIN store.ws :
                               /\ got.client = Client(store.ws[i].alias, store.ws[i].url)
                               /\ Quotes(store.ws[i], input.ws)
       /\ client # NoClient /\ client.url # None
            /\ ChannelIDForTarget(ParseTarget(input), client) # None
          => HostOfText(client.url) = HostOfText(input.ws)

(* "Callers that select the client from it always agree"                    *)
(* (channelIDForTarget): so without the exception for what quotes a URL.    *)
SelectedClientsAgree(input, store, env, desktop, flag, required) ==
  IsMessageURL(input) =>
    LET got == ResolveMessageTarget(input, None, store, env, desktop, flag, required)
    IN got # Failed => HostOfText(got.client.url) = HostOfText(input.ws)

(* The permalink of a posted message leads back to it, with its thread when *)
(* it is a reply and untruncated; no archive URL is taken for a channel     *)
(* name (BuildMessageURL, ParseMessageURL, ParseTarget).                    *)
PermalinksReadBack(input) ==
  /\ \A channel \in ChannelIds, ts \in Stamps, thread \in Stamps \cup {None}, ws \in Urls :
       ParseMessageURL(BuildMessageURL(ws, channel, ts, thread)) =
         MessageRef(ws, channel, ts, IF thread = ts THEN None ELSE thread, FALSE)
  /\ IsSlackArchiveURL(input) => ParseTarget(input) = Failed \/ ParseTarget(input).ws = input.ws

(* A channel URL leads to the workspace it names, as a permalink does.      *)
ChannelUrlsStayHome(input, client) ==
  IsChannelURL(input) /\ client # NoClient /\ client.url # None
    => \/ ChannelIDForTarget(ParseTarget(input), client) = None
       \/ HostOfText(client.url) = HostOfText(input.ws)
=============================================================================
