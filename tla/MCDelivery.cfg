SPECIFICATION Spec
CONSTANTS
  e1 = e1
  p1 = p1
  p2 = p2
  r1 = r1
  None = None
  Events = {e1}
  Plugins = {p1, p2}
  Configs <- TwoPlugins
  BufferSize = 2
  Requests = {r1}
  Budget = 1
INVARIANTS PendingWithinBudget DeadHasCause AckMeansAccepted
PROPERTIES PurgeKeepsUnaccepted DeliveredStaysSettled
