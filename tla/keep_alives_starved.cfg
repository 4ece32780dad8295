SPECIFICATION Spec
CONSTANTS
  KEEP_ALIVE_THRESHOLD = 2
  RESEND_THRESHOLD = 2
  Messages <- TwoEach
  Delay = 1
PROPERTY UpdatedAckSent
