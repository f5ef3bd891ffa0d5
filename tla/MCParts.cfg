SPECIFICATION PartsSpec
CONSTANTS
  Quote = Quote
  Space = Space
  Others = {a}
  MaxLen = 7
  MaxHeader = 4
  Zero = Zero
  Ids = {i1}
  MaxRefLines = 5
  MaxArgs = 4
  p1 = p1
  p2 = p2
  sync = sync
  async = async
  other = other
  Pushes = {p1, p2}
  MaxLines = 2
  Plugins = {sync, async, other}
  Sync = {sync, other}
  Traced = {sync, other}
  Filtered = {other}
  Configs <- ThreePlugins
  Budget = 1
  Buffer = 1
  None = None
  Nothing = Nothing
  dev = dev
  main = main
  Names <- Branches
  HEAD = main
  Main = main
  PageSize = 1
  MaxCommits = 3
INVARIANTS IsWords FollowsTable  YesAnywhere AckMeansReceived AckedPushesInOrder  LogIsComplete MissingOnlyIfLost
SYMMETRY Pushers
CHECK_DEADLOCK FALSE
