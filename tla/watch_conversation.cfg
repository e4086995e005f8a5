\* message await on a channel: exclusions, reactions, refused requests and drops
CONSTANTS
  me = me  ann = ann  bot = bot  c1 = c1  c2 = c2  thumb = thumb  None = None
  AllChannels = {c1}
  Users = {me, ann}
  Bots = {bot}
  ReactionNames = {thumb}
  Kinds = {"message", "reaction_added", "reaction_removed"}
  Channels = {c1}
  ThreadTS <- Unset
  IncludeThreadReplies = FALSE
  RepliesTo = 2
  From = {}
  SelfUser = me
  IncludeSelf = FALSE
  ExcludeBots = TRUE
  Reactions = {}
  Since = 2
  StartLog <- Asked
  ActivityKinds = {"message", "reaction_added", "reaction_removed"}
  ReplyRoots = {2}
  MaxLog = 4
  HistoryMax = 4
  MaxCatchUpThreads = 3
  MaxEvents = 0
  MaxSkipped = 1
  EmitMayFail = FALSE
  HasDuration = FALSE
  HasIdle = TRUE
  Cancellable = FALSE
  NetworkFaults = TRUE
  ThreadFaults = FALSE
  MaxAttempts = 2
  HealthyAfter = 3
  MaxDrops = 1
SPECIFICATION Spec
INVARIANTS CursorSafe ReactionsOnce
