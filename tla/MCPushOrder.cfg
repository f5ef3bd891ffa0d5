SPECIFICATION Spec
CONSTANTS
  p1 = p1
  p2 = p2
  async = async
  None = None
  Pushes = {p1, p2}
  MaxLines = 1
  Plugins = {async}
  Sync = {}
  Traced = {async}
  Filtered = {}
  Configs <- OneConfig
  Buffer = 2
  Budget = 1
INVARIANT PushOrder
CHECK_DEADLOCK FALSE
