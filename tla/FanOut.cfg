SPECIFICATION MCSpec
CONSTANTS
  MAX_SEQ_NUM = 5
  CWND_UNIT = 2
  glb_num_hosts = 3
  window_size = 2
  recv_accept_rate = 2
  INGRESS_PORT_QUEUE_CAPACITY = 0
  Corrupting = TRUE
  Pairs <- FanOut
  MaxFragments = 1
  MaxPieces = 2
INVARIANTS
  NothingLost
  OneReceiverInWindow
