\* Three attempts, two lost frames and one Glossy round, with the GLOSSY
\* build's timing (MAC_CONF 1).
CONSTANTS
  Sender = s
  Receiver = r
  ON = 1
  OFF = 13
  MAX_RANDOM_OFF = 2
  TX_TIMEOUT = 15
  WAIT_FOR_DATA_ACK = 1
  TIMER_WRAP = 20
  SLACK_BEFORE_GLOSSY <- MC_SLACK_BEFORE_GLOSSY
  ROUND_TICKS = 1
  FAR = 30
  MaxSends = 3
  MaxLoss = 2
  MaxRounds = 1
SPECIFICATION Spec
PROPERTIES
  MacRefined
  SinkDutyCycleResumes
