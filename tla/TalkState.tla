----------------------------- MODULE TalkState ------------------------------
(***************************************************************************)
(* The state of the simulator: the hosts of common.h, the queues between   *)
(* them and the program counter of the single-threaded main loop.          *)
(*                                                                         *)
(* A message is a sequence of pieces, one per frame it needs; a piece      *)
(* stands for up to FRAME_PAYLOAD_SIZE bytes.  The pieces typed for a pair *)
(* of hosts are numbered 1, 2, 3, ... so that no two are equal.            *)
(***************************************************************************)
EXTENDS SeqNum, Congestion, Sequences, FiniteSets

CONSTANTS
  glb_num_hosts, window_size, recv_accept_rate, INGRESS_PORT_QUEUE_CAPACITY,
  Corrupting,     \* is corrupt_prob at least 1/1000?
  Pairs,          \* the <<sender, receiver>> pairs the user may type
  MaxFragments,   \* bound: pieces of one message
  MaxPieces       \* bound: pieces typed for one pair in a behaviour

Hosts == 0 .. glb_num_hosts - 1
Slots == 0 .. window_size - 1
NoHost == glb_num_hosts

ASSUME ConfigAssumption ==
  /\ glb_num_hosts \in Nat /\ glb_num_hosts >= 2
  /\ window_size \in Nat /\ window_size > 0
  /\ recv_accept_rate \in Nat /\ recv_accept_rate > 0
  /\ INGRESS_PORT_QUEUE_CAPACITY \in Nat
  /\ Corrupting \in BOOLEAN
  /\ Pairs \subseteq Hosts \X Hosts
  /\ MaxFragments \in Nat /\ MaxPieces \in Nat

VARIABLES
  stage,              \* where the main loop is
  todo,               \* hosts the current pass of the loop still has to visit
  cur,                \* the host being visited, or NoHost
  expired,            \* slots of cur whose deadline has passed
  dups,               \* num_dup_acks_for_this_rtt of cur
  delivery,           \* the receiver's inner loop, or NotDelivering
  accepted,           \* incoming_frames_accept of send_data_frames
  ingress,            \* buffer_queue_head of every ingress port
  glb_exit_main,
  input_cmdlist, incoming_frames, buffered_outframes, outgoing_frames,
  send_window, timeout, wait, active,
  LAR, LFS, cc,                            \* per receiver
  NFE, receive_window, emptyCharArray,     \* per sender
  typed, issued, printed                   \* history: see below

(***************************************************************************)
(* History variables: typed[s][d] counts the pieces and issued[s][d] lists *)
(* the messages the user typed for a pair, printed[d][s] lists what d has  *)
(* printed of them.                                                        *)
(***************************************************************************)
historyVars  == <<typed, issued>>
loopVars     == <<stage, todo, cur, expired, dups>>
senderVars   == <<buffered_outframes, send_window, timeout, wait, LAR, LFS, cc>>
receiverVars == <<delivery, NFE, receive_window, emptyCharArray, printed>>
switchVars   == <<accepted, ingress>>
vars == <<loopVars, senderVars, receiverVars, switchVars, historyVars,
          active, glb_exit_main, input_cmdlist, incoming_frames,
          outgoing_frames>>

Stages == {"input", "senders", "data", "receivers", "acks", "exited", "aborted"}

\* A frame.  intact is FALSE once the switch has flipped one of its bytes:
\* crc8 tells, and no other field of such a frame is ever read.
Frame == [src_id : Hosts, dst_id : Hosts, seq_num : SeqNums, ack_num : SeqNums,
          is_ack : {0, 1}, starting_index : Nat, remaining : Nat, data : Nat,
          intact : BOOLEAN]
NoFrame == [empty |-> TRUE]

Cmd == [dst_id : Hosts, message : Seq(Nat)]

NotDelivering == [pre_seq |-> -1, src_id |-> NoHost, seq_num |-> 0]

HasFrame(w, q) == w[q] # NoFrame
Occupied(w) == {q \in Slots : HasFrame(w, q)}

Busy_BufferOnly(w, buffered) == buffered # <<>>

\* run_senders' idea of a host that still has work.
Busy(w, buffered) == Occupied(w) # {} \/ buffered # <<>>

Init ==
  /\ stage = "input" /\ todo = {} /\ cur = NoHost
  /\ expired = {} /\ dups = [g \in Hosts |-> 0]
  /\ delivery = NotDelivering
  /\ accepted = [h \in Hosts |-> 0]
  /\ ingress = [h \in Hosts |-> <<>>]
  /\ glb_exit_main = FALSE
  /\ input_cmdlist = [h \in Hosts |-> <<>>]
  /\ incoming_frames = [h \in Hosts |-> <<>>]
  /\ buffered_outframes = [h \in Hosts |-> <<>>]
  /\ outgoing_frames = [h \in Hosts |-> <<>>]
  /\ send_window = [h \in Hosts |-> [q \in Slots |-> NoFrame]]
  /\ timeout = [h \in Hosts |-> [q \in Slots |-> FALSE]]
  /\ wait = [h \in Hosts |-> FALSE]
  /\ active = [h \in Hosts |-> FALSE]
  /\ LAR = [h \in Hosts |-> [g \in Hosts |-> uint8(-1)]]
  /\ LFS = [h \in Hosts |-> [g \in Hosts |-> uint8(-1)]]
  /\ cc = [h \in Hosts |-> [g \in Hosts |-> InitCC(window_size)]]
  /\ NFE = [h \in Hosts |-> [g \in Hosts |-> 0]]
  /\ receive_window = [h \in Hosts |-> [g \in Hosts |-> [q \in Slots |-> NoFrame]]]
  /\ emptyCharArray = [h \in Hosts |-> [g \in Hosts |-> <<>>]]
  /\ typed = [h \in Hosts |-> [g \in Hosts |-> 0]]
  /\ issued = [h \in Hosts |-> [g \in Hosts |-> <<>>]]
  /\ printed = [h \in Hosts |-> [g \in Hosts |-> <<>>]]

(***************************************************************************)
(* The type invariant.  timeout[h][q] says that slot q has a deadline set. *)
(***************************************************************************)
LoopTypeOK ==
  /\ stage \in Stages /\ todo \subseteq Hosts /\ cur \in Hosts \cup {NoHost}
  /\ expired \subseteq Slots /\ dups \in [Hosts -> Nat]
  /\ active \in [Hosts -> BOOLEAN] /\ glb_exit_main \in BOOLEAN

QueuesTypeOK ==
  /\ input_cmdlist \in [Hosts -> Seq(Cmd)]
  /\ incoming_frames \in [Hosts -> Seq(Frame)]
  /\ outgoing_frames \in [Hosts -> Seq(Frame)]

SenderTypeOK ==
  /\ buffered_outframes \in [Hosts -> Seq(Frame)]
  /\ send_window \in [Hosts -> [Slots -> Frame \cup {NoFrame}]]
  /\ timeout \in [Hosts -> [Slots -> BOOLEAN]]
  /\ wait \in [Hosts -> BOOLEAN]
  /\ LAR \in [Hosts -> [Hosts -> SeqNums]]
  /\ LFS \in [Hosts -> [Hosts -> SeqNums]]
  /\ cc \in [Hosts -> [Hosts -> CongestionControl]]

ReceiverTypeOK ==
  /\ delivery \in [pre_seq : Int, src_id : Hosts \cup {NoHost}, seq_num : SeqNums]
  /\ NFE \in [Hosts -> [Hosts -> SeqNums]]
  /\ receive_window \in [Hosts -> [Hosts -> [Slots -> Frame \cup {NoFrame}]]]
  /\ emptyCharArray \in [Hosts -> [Hosts -> Seq(Nat)]]
  /\ printed \in [Hosts -> [Hosts -> Seq(Seq(Nat))]]

SwitchTypeOK ==
  accepted \in [Hosts -> Nat] /\ ingress \in [Hosts -> Seq(Frame)]

HistoryTypeOK ==
  /\ typed \in [Hosts -> [Hosts -> Nat]]
  /\ issued \in [Hosts -> [Hosts -> Seq(Seq(Nat))]]

\* Every variable of the program holds a value of its C type.
TypeOK ==
  /\ LoopTypeOK /\ QueuesTypeOK /\ SenderTypeOK
  /\ ReceiverTypeOK /\ SwitchTypeOK /\ HistoryTypeOK
=============================================================================
