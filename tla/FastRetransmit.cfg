SPECIFICATION MCSpec
CONSTANTS
  MAX_SEQ_NUM = 11
  CWND_UNIT = 4
  glb_num_hosts = 2
  window_size = 5
  recv_accept_rate = 4
  INGRESS_PORT_QUEUE_CAPACITY = 0
  Corrupting = FALSE
  Pairs <- OneWay
  MaxFragments = 18
  MaxPieces = 18
  MaxExpiries = 3
INVARIANTS
  OneCopyPerTurn
  CwndFloor
  NothingLost
PROPERTIES
  OverrunByOne
