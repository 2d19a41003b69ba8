\* FTSP on the three-node chain: node 29 hears the root and node 3, and a
\* beacon arriving while another is pending overwrites part of msg_rcv.
CONSTANTS
  Nodes = {3, 29, 200}
  SINK_ID = 200
  Nbrs <- MCNbrs
  MAX_ENTRIES = 8
  ENTRY_VALID_LIMIT = 4
  ENTRY_SEND_LIMIT = 3
  MaxLoss = 0
  MaxOutliers = 0
  MaxStale = 0
  MaxBeacons = 7
SPECIFICATION Spec
INVARIANT
  TableEntriesUntorn
CHECK_DEADLOCK FALSE
