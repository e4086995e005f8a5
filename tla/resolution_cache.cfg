\* four categories, two invocations at a time, killed or overlapping
CONSTANTS
  p1 = p1  p2 = p2
  Procs = {p1, p2}
  Kinds = {"users", "channels", "usergroups", "emoji"}
  PageOrder <- MCPageOrder
  Emails = {"bob"}
  AtStart = {"ann"}
  Modes = {"normal", "refresh"}
  NameTTL = 2
  CompleteTTL = 1
  Span = 1
  MaxNow = 2
  MaxChanges = 1
  MaxRuns <- MCMaxRuns
SYMMETRY Perms
SPECIFICATION Spec
INVARIANTS NotFoundIsTrue LiveModesAreLive ChangedEmojiIsRead
CHECK_DEADLOCK FALSE
