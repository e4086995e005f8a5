\* message stream over two conversations: drops, refused requests, a short history
CONSTANTS
  me = me  ann = ann  bot = bot  c1 = c1  c2 = c2  thumb = thumb  None = None
  AllChannels = {c1, c2}
  Users = {ann}
  Bots = {}
  ReactionNames = {}
  Kinds = {"message"}
  Channels = {c1, c2}
  ThreadTS <- Unset
  IncludeThreadReplies = FALSE
  RepliesTo <- Unset
  From = {}
  SelfUser = None
  IncludeSelf = FALSE
  ExcludeBots = FALSE
  Reactions = {}
  Since <- Unset
  StartLog <- Nothing
  ActivityKinds = {"message"}
  ReplyRoots = {}
  MaxLog = 3
  HistoryMax = 2
  MaxCatchUpThreads = 3
  MaxEvents = 0
  MaxSkipped = 0
  EmitMayFail = TRUE
  HasDuration = TRUE
  HasIdle = FALSE
  Cancellable = TRUE
  NetworkFaults = TRUE
  ThreadFaults = FALSE
  MaxAttempts = 2
  HealthyAfter = 3
  MaxDrops = 2
SPECIFICATION Spec
INVARIANTS EmittedOnce NoSilentLoss CancelledIsTrue
PROPERTIES ImplementsDelivery RunEnds
