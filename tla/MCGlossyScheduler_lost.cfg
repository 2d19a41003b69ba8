CONSTANTS
  s = s
  r1 = r1
  Sink = s
  Receivers <- MCReceivers
  N_NODES = 2
  MaxUpdates = 2
  MaxMisses = 1
SPECIFICATION Spec
PROPERTIES
  LastUpdateFlooded
