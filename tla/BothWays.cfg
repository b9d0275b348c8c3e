SPECIFICATION MCSpec
CONSTANTS
  MAX_SEQ_NUM = 5
  CWND_UNIT = 2
  glb_num_hosts = 2
  window_size = 2
  recv_accept_rate = 2
  INGRESS_PORT_QUEUE_CAPACITY = 0
  Corrupting = TRUE
  Pairs <- BothWays
  MaxFragments = 6
  MaxPieces = 7
  FirstPieces = 6
  AnswerPieces = 2
  MaxFaults = 2
INVARIANTS
  NothingLost
  SeqNumsUnambiguous
PROPERTIES
  ImplementsTransport
