\* Two handshakes, one lost frame per handshake and two Glossy rounds.  The
\* receiver's process may leave a frame unread for STROBE_WAIT = T_WAIT
\* ticks, so strobes queue up and a DATA_ACK can come too late.
CONSTANTS
  Sender = s
  Receiver = r
  ON = 3
  OFF = 7
  STROBE_WAIT = 2
  T_WAIT = 2
  TIMEOUT_TIME = 4
  TIMER_WRAP = 12
  READ_LATENCY = 2
  ROUND_TICKS = 3
  DRAIN_BEFORE_SEND = TRUE
  MaxSends = 2
  MaxLoss = 1
  MaxRounds = 2
SPECIFICATION Spec
INVARIANTS
  AckedWhenLossless
PROPERTIES
  DutyCycleResumes
  MacRefined
