------------------------------ MODULE Receiver ------------------------------
(***************************************************************************)
(* run_receivers and handle_incoming_frames (receiver.c).  One action per  *)
(* frame popped from the queue, and one per iteration of the inner loop    *)
(* that delivers the frames now in sequence.                               *)
(***************************************************************************)
EXTENDS TalkState

Ack_NextExpected(h, g, n) ==
  [src_id |-> h, dst_id |-> g, seq_num |-> 0, ack_num |-> uint8(n + 1),
   is_ack |-> 1, starting_index |-> 0, remaining |-> 0, data |-> 0, intact |-> TRUE]

Ack(h, g, n) ==
  [src_id |-> h, dst_id |-> g, seq_num |-> 0, ack_num |-> uint8(n), is_ack |-> 1,
   starting_index |-> 0, remaining |-> 0, data |-> 0, intact |-> TRUE]

LastAck_OfThisFrame(h, f) == Ack(f.dst_id, f.src_id, f.seq_num)

\* The ack of the last frame delivered, the answer to an unexpected one.
LastAck(h, f) == Ack(f.dst_id, f.src_id, NFE[h][f.src_id] - 1)

\* run_receivers moves on to a host; one with nothing queued returns at once.
VisitReceiver(h) ==
  /\ stage = "receivers" /\ cur = NoHost /\ h \in todo
  /\ todo' = todo \ {h}
  /\ cur' = IF incoming_frames[h] = <<>> THEN NoHost ELSE h
  /\ UNCHANGED <<stage, expired, dups, senderVars, receiverVars, switchVars,
                 historyVars, active, glb_exit_main, input_cmdlist,
                 incoming_frames, outgoing_frames>>

Popping(h) ==
  /\ stage = "receivers" /\ cur = h
  /\ delivery = NotDelivering /\ incoming_frames[h] # <<>>
  /\ incoming_frames' = [incoming_frames EXCEPT ![h] = Tail(@)]

\* The outer loop ends when the queue is empty and no delivery is under way.
NextVisit(h, delivering) ==
  IF Len(incoming_frames[h]) = 1 /\ ~delivering THEN NoHost ELSE h

\* receiver.c:37: a corrupted frame ends the whole handler.
Corrupted(h) ==
  /\ Popping(h)
  /\ ~Head(incoming_frames[h]).intact
  /\ cur' = NoHost
  /\ UNCHANGED <<stage, todo, expired, dups, senderVars, receiverVars, switchVars,
                 historyVars, active, glb_exit_main, input_cmdlist, outgoing_frames>>

Ahead(h, f) == seq_num_diff(NFE[h][f.src_id], f.seq_num)

InWindow_NoLowerBound(h, f) == Ahead(h, f) < window_size

InWindow_NotStoredYet(h, f) ==
  /\ Ahead(h, f) >= 0 /\ Ahead(h, f) < window_size
  /\ ~HasFrame(receive_window[h][f.src_id], f.seq_num % window_size)

InWindow(h, f) == Ahead(h, f) >= 0 /\ Ahead(h, f) < window_size

\* Neither stored nor delivered: an ack is skipped, a data frame outside the
\* window is answered with the last ack again.
Unstored(h) ==
  LET f == Head(incoming_frames[h])
  IN  /\ Popping(h)
      /\ f.intact /\ (f.is_ack = 1 \/ ~InWindow(h, f))
      /\ cur' = NextVisit(h, FALSE)
      /\ outgoing_frames' =
           IF f.is_ack = 1 THEN outgoing_frames
           ELSE [outgoing_frames EXCEPT ![h] = Append(@, LastAck(h, f))]
      /\ UNCHANGED <<stage, todo, expired, dups, senderVars, receiverVars,
                     switchVars, historyVars, active, glb_exit_main, input_cmdlist>>

\* A frame in the window is stored; one that is not the next one is answered
\* with the last ack again, the next one starts the delivery loop.
Store(h) ==
  LET f    == Head(incoming_frames[h])
      g    == f.src_id
      next == NFE[h][g] = f.seq_num
  IN  /\ Popping(h)
      /\ f.intact /\ f.is_ack = 0 /\ InWindow(h, f)
      /\ receive_window' =
           [receive_window EXCEPT ![h][g][f.seq_num % window_size] = f]
      /\ cur' = NextVisit(h, next)
      /\ delivery' = IF next
                     THEN [src_id |-> g, seq_num |-> f.seq_num,
                           pre_seq |-> f.seq_num - 1]
                     ELSE NotDelivering
      /\ outgoing_frames' =
           IF next THEN outgoing_frames
           ELSE [outgoing_frames EXCEPT ![h] = Append(@, LastAck(h, f))]
      /\ UNCHANGED <<stage, todo, expired, dups, senderVars, NFE, emptyCharArray,
                     printed, switchVars, historyVars, active, glb_exit_main,
                     input_cmdlist>>

Assemble_AtStart(buffer, f) == <<f.data>>

\* memcpy at starting_index into the reallocated buffer; what the buffer has
\* beyond the new end is cut off, what was never written is 0.
Assemble(buffer, f) ==
  [i \in 1 .. f.starting_index + 1 |->
     IF i = f.starting_index + 1 THEN f.data
     ELSE IF i \in DOMAIN buffer THEN buffer[i] ELSE 0]

\* The loop's condition, on the window and NFE of one sender.  pre_seq and
\* seq_num are ints: no wrap-around here.
Deliverable(window, nfe, pre_seq) ==
  /\ HasFrame(window, nfe % window_size)
  /\ pre_seq < window[nfe % window_size].seq_num

Deliver(h) ==
  LET g     == delivery.src_id
      nfe   == NFE[h][g]
      slot  == nfe % window_size
      f     == receive_window[h][g][slot]
      text  == Assemble(emptyCharArray[h][g], f)
      rest  == [receive_window[h][g] EXCEPT ![slot] = NoFrame]
      again == Deliverable(rest, uint8(nfe + 1), delivery.seq_num)
  IN  /\ stage = "receivers" /\ cur = h /\ delivery # NotDelivering
      /\ receive_window' = [receive_window EXCEPT ![h][g] = rest]
      /\ printed' = IF f.remaining = 0
                    THEN [printed EXCEPT ![h][g] = Append(@, text)] ELSE printed
      /\ emptyCharArray' = [emptyCharArray EXCEPT ![h][g] =
                              IF f.remaining = 0 THEN <<>> ELSE text]
      /\ outgoing_frames' = [outgoing_frames EXCEPT ![h] = Append(@, Ack(h, g, nfe))]
      /\ NFE' = [NFE EXCEPT ![h][g] = uint8(nfe + 1)]
      /\ delivery' = IF again THEN [delivery EXCEPT !.pre_seq = delivery.seq_num]
                     ELSE NotDelivering
      /\ cur' = IF again \/ incoming_frames[h] # <<>> THEN h ELSE NoHost
      /\ UNCHANGED <<stage, todo, expired, dups, senderVars, switchVars,
                     historyVars, active, glb_exit_main, input_cmdlist,
                     incoming_frames>>

\* run_receivers returns and send_ack_frames starts.
ReceiversDone ==
  /\ stage = "receivers" /\ todo = {} /\ cur = NoHost
  /\ stage' = "acks"
  /\ UNCHANGED <<todo, cur, expired, dups, senderVars, receiverVars, switchVars,
                 historyVars, active, glb_exit_main, input_cmdlist,
                 incoming_frames, outgoing_frames>>

RunReceivers ==
  \/ \E h \in Hosts : \/ VisitReceiver(h) \/ Corrupted(h) \/ Unstored(h)
                      \/ Store(h) \/ Deliver(h)
  \/ ReceiversDone
=============================================================================
