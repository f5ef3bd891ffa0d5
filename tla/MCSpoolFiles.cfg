SPECIFICATION Spec
CONSTANTS
  n = n
  u1 = u1
  u2 = u2
  None = None
  Notifier = n
  Updaters = {u1, u2}
SYMMETRY Symmetry
INVARIANTS FinalNeverTorn AcknowledgedIsDurable
PROPERTIES PurgedWasDelivered IsDurableRecord
