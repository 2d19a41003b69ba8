CONSTANTS
  TxMaxes <- MCTxMaxes
  DataLens <- MCDataLens
  Modes <- MCModes
  RxSlots <- MCRxSlots
SPECIFICATION Spec
INVARIANTS
  PayloadDelivered
