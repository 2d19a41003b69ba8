\* A Glossy round while the receiver is in its on-phase: turn_off(0)
\* switches the transceiver off and leaves radio_is_on set.
CONSTANTS
  Sender = s
  Receiver = r
  ON = 3
  OFF = 7
  STROBE_WAIT = 2
  T_WAIT = 2
  TIMEOUT_TIME = 4
  TIMER_WRAP = 12
  READ_LATENCY = 2
  ROUND_TICKS = 3
  DRAIN_BEFORE_SEND = TRUE
  MaxSends = 2
  MaxLoss = 1
  MaxRounds = 1
SPECIFICATION Spec

INVARIANT
  RadioFlagTracksRadio
