SPECIFICATION FairSpec
CONSTANTS
  e1 = e1
  p1 = p1
  p2 = p2
  r1 = r1
  None = None
  Events = {e1}
  Plugins = {p1}
  Configs <- OnePlugin
  BufferSize = 2
  Requests = {}
  Budget = 1
PROPERTIES NextSweepRetries
