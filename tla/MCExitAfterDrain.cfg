SPECIFICATION Spec
CONSTANTS
  s1 = s1
  b1 = b1
  Requests = {s1, b1}
  Browse = {b1}
  Event = Event
  Startup = Startup
  Sweep = Sweep
  Verify = Verify
  None = None
  Buffer = 2
  Due = 3
  Loops = {Verify}
  Ticks = 1
INVARIANTS ExitAfterDrain
CHECK_DEADLOCK FALSE
