SPECIFICATION Spec
CONSTANTS
  p1 = p1
  p2 = p2
  main = main
  topic = topic
  c1 = c1
  c2 = c2
  Zero = Zero
  NoPush = NoPush
  Pushers = {p1, p2}
  Refs = {main, topic}
  Guarded = {main}
  Commits = {c1, c2}
  Ancestor <- MCAncestor
  Buffer = 1
  Retries = 1
  Hooks = TRUE
SYMMETRY Symmetry
INVARIANTS AckMeansMirrored NoRefsMeansEmptied
PROPERTIES MirrorNeverGoesBack GuardedFastForward
CHECK_DEADLOCK FALSE
