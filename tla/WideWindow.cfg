SPECIFICATION Spec
CONSTANTS
  MAX_SEQ_NUM = 3
  CWND_UNIT = 2
  glb_num_hosts = 2
  window_size = 3
  recv_accept_rate = 3
  INGRESS_PORT_QUEUE_CAPACITY = 0
  Corrupting = TRUE
  Pairs <- OneWay
  MaxFragments = 1
  MaxPieces = 4
INVARIANTS
  CleanExit
