SPECIFICATION Spec
CONSTANTS
  FRAME_PAYLOAD_SIZE = 53
  USHORT_MAX = 65535
  MAX_SEQ_NUM = 255
  NULL = NULL
  Address = {a1, a2, a3, a4, a5, a6}
  input_cmdlist = input_cmdlist
  buffered_outframes = buffered_outframes
  outgoing_frames = outgoing_frames
  incoming_frames = incoming_frames
  Queue = {input_cmdlist, buffered_outframes, outgoing_frames, incoming_frames}
  MsgLengths = {2, 53, 107}
  MaxMessages = 2
  MaxInFlight = 2
  MaxFaults = 1
INVARIANTS
  QueuesAreRings
  CorruptionDetected
  MessagesWhole
CHECK_DEADLOCK FALSE
