------------------------------- MODULE Sender -------------------------------
(***************************************************************************)
(* run_senders and the four handlers it calls on a host that wakes up      *)
(* (sender.c).  The loops that pop a queue are one action per iteration;   *)
(* handle_timedout_frames and handle_outgoing_frames are one action.       *)
(***************************************************************************)
EXTENDS TalkState

\* The host's turn in run_senders: it wakes for a command, an incoming frame
\* or a deadline.  due is what timeval_usecdiff will find expired.
Wake(h) ==
  \E due \in SUBSET {q \in Slots : timeout[h][q]} :
    /\ stage = "senders" /\ cur = NoHost /\ h \in todo
    /\ input_cmdlist[h] # <<>> \/ incoming_frames[h] # <<>> \/ due # {}
    /\ todo' = todo \ {h}
    /\ cur' = h
    /\ expired' = due
    /\ dups' = [g \in Hosts |-> 0]
    /\ UNCHANGED <<stage, senderVars, receiverVars, switchVars, historyVars,
                   active, glb_exit_main, input_cmdlist, incoming_frames,
                   outgoing_frames>>

Sleep(h) ==
  /\ stage = "senders" /\ cur = NoHost /\ h \in todo
  /\ input_cmdlist[h] = <<>> /\ incoming_frames[h] = <<>>
  /\ todo' = todo \ {h}
  /\ active' = [active EXCEPT ![h] = Busy(send_window[h], buffered_outframes[h])]
  /\ UNCHANGED <<stage, cur, expired, dups, senderVars, receiverVars, switchVars,
                 historyVars, glb_exit_main, input_cmdlist, incoming_frames,
                 outgoing_frames>>

(***************************************************************************)
(* handle_input_cmds, one command: its pieces become numbered frames.      *)
(***************************************************************************)
Fragments_NumberBeforeIncrement(h, cmd) ==
  [i \in 1 .. Len(cmd.message) |->
    [src_id |-> h, dst_id |-> cmd.dst_id,
     seq_num |-> uint8(LFS[h][cmd.dst_id] + i - 1), ack_num |-> 0, is_ack |-> 0,
     starting_index |-> i - 1, remaining |-> Len(cmd.message) - i,
     data |-> cmd.message[i], intact |-> TRUE]]

Fragments(h, cmd) ==
  [i \in 1 .. Len(cmd.message) |->
    [src_id |-> h, dst_id |-> cmd.dst_id,
     seq_num |-> uint8(LFS[h][cmd.dst_id] + i), ack_num |-> 0, is_ack |-> 0,
     starting_index |-> i - 1, remaining |-> Len(cmd.message) - i,
     data |-> cmd.message[i], intact |-> TRUE]]

HandleInputCmd(h) ==
  LET cmd == Head(input_cmdlist[h])
      g   == cmd.dst_id
  IN  /\ stage = "senders" /\ cur = h /\ input_cmdlist[h] # <<>>
      /\ input_cmdlist' = [input_cmdlist EXCEPT ![h] = Tail(@)]
      /\ LFS' = [LFS EXCEPT ![h][g] = uint8(@ + Len(cmd.message))]
      /\ buffered_outframes' =
           [buffered_outframes EXCEPT ![h] = @ \o Fragments(h, cmd)]
      /\ UNCHANGED <<loopVars, receiverVars, switchVars, historyVars, active,
                     send_window, timeout, wait, LAR, cc, glb_exit_main,
                     incoming_frames, outgoing_frames>>

(***************************************************************************)
(* handle_incoming_acks, one frame of the queue.  Nothing tests is_ack     *)
(* before the last step: a data frame left in the queue is an ack of 0.    *)
(***************************************************************************)
AckReady(h) ==
  /\ stage = "senders" /\ cur = h
  /\ input_cmdlist[h] = <<>> /\ incoming_frames[h] # <<>>

AckValid(h, f) ==
  f.intact /\ ~AckRejected(f.ack_num, LAR[h][f.src_id], LFS[h][f.src_id])

DropAck(h) ==
  /\ AckReady(h)
  /\ ~AckValid(h, Head(incoming_frames[h]))
  /\ incoming_frames' = [incoming_frames EXCEPT ![h] = Tail(@)]
  /\ UNCHANGED <<loopVars, senderVars, receiverVars, switchVars, historyVars,
                 active, glb_exit_main, input_cmdlist, outgoing_frames>>

Acked_OneTooMany(w, f) ==
  {q \in Occupied(w) : f.is_ack = 1 /\ seq_num_diff(w[q].seq_num, f.ack_num) >= -1}

Acked_NotItself(w, f) ==
  {q \in Occupied(w) : f.is_ack = 1 /\ seq_num_diff(w[q].seq_num, f.ack_num) > 0}

Acked_AnyFrame(w, f) ==
  {q \in Occupied(w) : seq_num_diff(w[q].seq_num, f.ack_num) >= 0}

\* The slots an ack empties, whatever receiver their frames are for.
Acked(w, f) ==
  {q \in Occupied(w) : f.is_ack = 1 /\ seq_num_diff(w[q].seq_num, f.ack_num) >= 0}

AcceptAck(h) ==
  LET f     == Head(incoming_frames[h])
      g     == f.src_id
      freed == Acked(send_window[h], f)
      dup   == IF f.ack_num = LAR[h][g] THEN 1 ELSE 0
  IN  /\ AckReady(h)
      /\ AckValid(h, f)
      /\ incoming_frames' = [incoming_frames EXCEPT ![h] = Tail(@)]
      /\ dups' = [dups EXCEPT ![g] = @ + dup]
      /\ cc' = [cc EXCEPT ![h][g] = OnAck(@, dups[g] + dup, f.ack_num > LAR[h][g])]
      /\ send_window' = [send_window EXCEPT ![h] =
           [q \in Slots |-> IF q \in freed THEN NoFrame ELSE @[q]]]
      /\ timeout' = [timeout EXCEPT ![h] =
           [q \in Slots |-> q \notin freed /\ @[q]]]
      /\ LAR' = [LAR EXCEPT ![h][g] = f.ack_num]
      /\ UNCHANGED <<stage, todo, cur, expired, receiverVars, switchVars,
                     historyVars, active, buffered_outframes, wait, LFS,
                     glb_exit_main, input_cmdlist, outgoing_frames>>

(***************************************************************************)
(* handle_timedout_frames and handle_outgoing_frames.                      *)
(***************************************************************************)
\* The k-th slot of a set that a for loop over the window meets, and all of
\* them in that order.
Nth(S, k) == CHOOSE q \in S : Cardinality({r \in S : r <= q}) = k

Ascending(S) == [k \in 1 .. Cardinality(S) |-> Nth(S, k)]

\* Fast retransmit: the frame after the last ack of a receiver in FRFT.  The
\* sum is an int: past MAX_SEQ_NUM it equals no sequence number.
FastRetransmit(h) ==
  {q \in Occupied(send_window[h]) :
     LET f == send_window[h][q]
     IN  f.seq_num = LAR[h][f.dst_id] + 1 /\ cc[h][f.dst_id].state = "FRFT"}

TimedOut_NotExpired(h) ==
  {q \in Occupied(send_window[h]) : ~timeout[h][q]} \ FastRetransmit(h)

TimedOut_FastRetransmitToo(h) ==
  {q \in Occupied(send_window[h]) : ~timeout[h][q] \/ q \in expired}

\* The slots without a deadline once those of FastRetransmit have theirs.
TimedOut(h) ==
  {q \in Occupied(send_window[h]) : ~timeout[h][q] \/ q \in expired}
    \ FastRetransmit(h)

CCAfterResend(h) ==
  [g \in Hosts |->
     IF \E q \in FastRetransmit(h) : send_window[h][q].dst_id = g
     THEN OnFastRetransmit(cc[h][g]) ELSE cc[h][g]]

\* Does the fill loop stop after popping the k-th buffered frame?  It looks
\* at the frame behind it: outside the congestion window (c) or for another
\* receiver (wait).
OtherReceiverNext_ComparesSenders(buf, k) ==
  k < Len(buf) /\ buf[k + 1].src_id # buf[k].src_id

OtherReceiverNext(buf, k) == k < Len(buf) /\ buf[k + 1].dst_id # buf[k].dst_id

OutsideCwndNext_NumbersCompared(h, buf, k) ==
  LET lar   == LAR[h][buf[k].dst_id]
      limit == lar + WholeFrames(CCAfterResend(h)[buf[k].dst_id])
  IN  k < Len(buf)
      /\ ~(seq_num_diff(lar, buf[k + 1].seq_num) > 0 /\ buf[k + 1].seq_num <= limit)

OutsideCwndNext(h, buf, k) ==
  LET lar   == LAR[h][buf[k].dst_id]
      limit == uint8(lar + WholeFrames(CCAfterResend(h)[buf[k].dst_id]))
      next  == buf[k + 1].seq_num
  IN  /\ k < Len(buf)
      /\ ~(seq_num_diff(lar, next) > 0 /\ seq_num_diff(next, limit) >= 0)

StopsAfter(h, buf, k) ==
  k = Len(buf) \/ OtherReceiverNext(buf, k) \/ OutsideCwndNext(h, buf, k)

\* n frames move from the buffer to the free slots.
FillCount(h, buf, free, waiting, n) ==
  /\ n <= free /\ n <= Len(buf)
  /\ n > 0 => ~waiting
  /\ \A k \in 1 .. n - 1 : ~StopsAfter(h, buf, k)
  /\ n = free \/ waiting \/ buf = <<>> \/ (n > 0 /\ StopsAfter(h, buf, n))

HandleOutgoing(h) ==
  LET w       == send_window[h]
      buf     == buffered_outframes[h]
      Free    == Slots \ Occupied(w)
      Fast    == FastRetransmit(h)
      Late    == TimedOut(h)
      waiting == wait[h] /\ Occupied(w) # {}
      fast    == Ascending(Fast)
      late    == Ascending(Late)
      free    == Ascending(Free)
  IN  \E n \in 0 .. Len(buf) :
      LET filled == {free[k] : k \in 1 .. n}
          w2     == [q \in Slots |->
                       IF q \in filled
                       THEN buf[CHOOSE k \in 1 .. n : free[k] = q] ELSE w[q]]
          rest   == SubSeq(buf, n + 1, Len(buf))
      IN  /\ stage = "senders" /\ cur = h
          /\ input_cmdlist[h] = <<>> /\ incoming_frames[h] = <<>>
          /\ FillCount(h, buf, Cardinality(Free), waiting, n)
          /\ cc' = [cc EXCEPT ![h] = CCAfterResend(h)]
          /\ outgoing_frames' = [outgoing_frames EXCEPT ![h] =
               @ \o [i \in DOMAIN fast |-> w[fast[i]]]
                 \o [i \in DOMAIN late |-> w[late[i]]]
                 \o SubSeq(buf, 1, n)]
          /\ buffered_outframes' = [buffered_outframes EXCEPT ![h] = rest]
          /\ send_window' = [send_window EXCEPT ![h] = w2]
          /\ timeout' = [timeout EXCEPT ![h] =
               [q \in Slots |-> \/ q \in Fast \cup Late \cup filled
                                \/ @[q] /\ q \notin expired]]
          /\ wait' = [wait EXCEPT ![h] =
               waiting \/ (n > 0 /\ OtherReceiverNext(buf, n))]
          /\ active' = [active EXCEPT ![h] = Busy(w2, rest)]
          /\ cur' = NoHost
          /\ expired' = {}
          /\ dups' = [g \in Hosts |-> 0]
          /\ UNCHANGED <<stage, todo, LAR, LFS, receiverVars, switchVars,
                         historyVars, glb_exit_main, input_cmdlist,
                         incoming_frames>>

\* Every host has had its turn: run_hosts goes on to send_data_frames, which
\* starts from zeroed counters.
SendersDone ==
  /\ stage = "senders" /\ todo = {} /\ cur = NoHost
  /\ stage' = "data"
  /\ todo' = Hosts
  /\ accepted' = [h \in Hosts |-> 0]
  /\ UNCHANGED <<cur, expired, dups, senderVars, receiverVars, ingress,
                 historyVars, active, glb_exit_main, input_cmdlist,
                 incoming_frames, outgoing_frames>>

RunSenders ==
  \/ \E h \in Hosts : \/ Wake(h) \/ Sleep(h) \/ HandleInputCmd(h)
                      \/ DropAck(h) \/ AcceptAck(h) \/ HandleOutgoing(h)
  \/ SendersDone
=============================================================================
