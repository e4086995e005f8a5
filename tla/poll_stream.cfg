\* polling a conversation from its newest message: exclusions, refused requests, a short history, a caller that may fail
CONSTANTS
  me = me  ann = ann  bot = bot  c1 = c1  c2 = c2  thumb = thumb  None = None
  AllChannels = {c1}
  Users = {me, ann}
  Bots = {bot}
  ReactionNames = {}
  Kinds = {"message"}
  Channels = {c1}
  ThreadTS <- Unset
  IncludeThreadReplies = FALSE
  RepliesTo = 2
  From = {}
  SelfUser = me
  IncludeSelf = FALSE
  ExcludeBots = TRUE
  Reactions = {}
  Since <- Unset
  StartLog <- Asked
  ActivityKinds = {"message"}
  ReplyRoots = {2}
  MaxLog = 4
  HistoryMax = 3
  MaxCatchUpThreads = 3
  MaxEvents = 0
  MaxSkipped = 1
  EmitMayFail = TRUE
  HasDuration = TRUE
  HasIdle = TRUE
  Cancellable = TRUE
  NetworkFaults = TRUE
  ThreadFaults = FALSE
  MaxGaps = 1
SPECIFICATION Spec
INVARIANTS NoSilentLoss EmitFailureIsReported
