SPECIFICATION MCSpec
CONSTANTS
  MAX_SEQ_NUM = 11
  CWND_UNIT = 2
  glb_num_hosts = 2
  window_size = 2
  recv_accept_rate = 2
  INGRESS_PORT_QUEUE_CAPACITY = 0
  Corrupting = TRUE
  Pairs <- BothWays
  MaxFragments = 1
  MaxPieces = 14
  MaxAhead = 3
  MaxAnswers = 2
  MaxFaults = 2
  MaxExpiries = 1
INVARIANTS
  WindowCanClear
