SPECIFICATION FilesSpec
CONSTANTS
  Commands = {p1, p2}
  Keys = {"k1", "k2"}
  Values = {"30m", "2h"}
  CanvasEdits = 1
  MaxKills = 1
INVARIANT CacheNeverStale
