CONSTANTS
  TxMaxes <- MCTxMaxes
  DataLens <- MCDataLens
  Modes <- MCModes
  RxSlots <- MCRxSlots
SPECIFICATION Spec
INVARIANTS
  TypeOK
  ReceiverTxBound
  SyncReferenceFresh
  SlotSampleFromLastHop
PROPERTIES
  TxOnlyWhenExpected
