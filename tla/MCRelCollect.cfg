CONSTANTS
  Nodes <- MCNodes
  Rexmits = {1}
  MaxOriginate <- MCMaxOriginate
  QUEUEBUF_NUM = 3
  MAX_FORWARDING_QUEUE = 50
  NUM_RECENT_PACKETS = 20
SPECIFICATION Spec
INVARIANTS
  TypeOK
  ForwardingImpliesTransmitting
  DeliveredInOrder
  NoSilentLoss
PROPERTIES
  QueueDrains
\* The applications stop after MaxOriginate packets; once every queue has
\* drained nothing is left to do, so a terminal state is expected.
CHECK_DEADLOCK FALSE
