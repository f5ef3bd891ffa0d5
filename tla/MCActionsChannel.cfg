SPECIFICATION FairSpec
CONSTANTS
  s1 = s1
  b1 = b1
  Requests = {s1, b1}
  Browse = {b1}
  Event = Event
  Startup = Startup
  Sweep = Sweep
  Verify = Verify
  None = None
  Buffer = 2
  Due = 3
  Loops = {Sweep}
  Ticks = 1
INVARIANTS StartupFirst DrainCompletes
PROPERTIES IsSerial   ShutdownEnds
CHECK_DEADLOCK FALSE
