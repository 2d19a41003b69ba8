\* A forwarder relaying two child packets to the sink, with one broadcast,
\* one lost frame, one reconfiguration and a sink that runs one tick late.
CONSTANTS
  Fwd = f
  Sink = k
  ON_TIME = 1
  OFF_TIME = 3
  MAX_RXMIT = 1
  QUEUEBUF_NUM = 4
  MAX_LATE = 1
  MaxChild = 2
  MaxBcast = 1
  MaxLoss = 1
  MaxAdapt = 1
SPECIFICATION Spec
INVARIANTS
  TypeOK
  AckedWhenLossless
  RadioOnWhileQueued
PROPERTIES
  MacRefined
  DrainsUnlessWedged
