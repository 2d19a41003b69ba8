\* FTSP on a three-node chain with the code's table limits.  Seven root
\* beacons let node 3 gather the entries it needs to send, so node 29 hears
\* two senders.  The cap on root beacons ends the model, hence no deadlock
\* check.
CONSTANTS
  Nodes = {3, 29, 200}
  SINK_ID = 200
  Nbrs <- MCNbrs
  MAX_ENTRIES = 8
  ENTRY_VALID_LIMIT = 4
  ENTRY_SEND_LIMIT = 3
  MaxLoss = 1
  MaxOutliers = 0
  MaxStale = 1
  MaxBeacons = 7
SPECIFICATION Spec
INVARIANTS
  SamplesInBeaconOrder
  NoBeaconFromFuture
CHECK_DEADLOCK FALSE
