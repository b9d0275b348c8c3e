SPECIFICATION Spec
CONSTANTS
  USEC_PER_SEC = 4
  TIMEOUT_INTERVAL_USEC = 5
  GAP_USEC = 2
  window_size = 3
  MaxSec = 3
INVARIANTS
  TypeOK
  NoneOverdue
  SelectiveRetransmission
PROPERTIES
  InOrderSent
