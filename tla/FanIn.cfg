SPECIFICATION MCSpec
CONSTANTS
  MAX_SEQ_NUM = 5
  CWND_UNIT = 2
  glb_num_hosts = 3
  window_size = 2
  recv_accept_rate = 1
  INGRESS_PORT_QUEUE_CAPACITY = 1
  Corrupting = FALSE
  Pairs <- FanIn
  MaxFragments = 2
  MaxPieces = 2
INVARIANTS
  TransferInv
  NothingLost
PROPERTIES
  ImplementsTransport
  EveryMessagePrinted
