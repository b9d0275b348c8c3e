------------------------------- MODULE Switch -------------------------------
(***************************************************************************)
(* The switch between the hosts (switch.c): data frames are throttled at   *)
(* the receiver's ingress port, queued up to its capacity and dropped      *)
(* beyond it; acks all pass.  Either may have a byte corrupted.            *)
(***************************************************************************)
EXTENDS TalkState

\* What send_frame hands to the receiver: the frame, or a corrupted copy.
Copies(f) == {f} \cup (IF Corrupting THEN {[f EXCEPT !.intact = FALSE]} ELSE {})

\* frame_sanity_check ends the program on a frame a host sends to itself.
Sane(f) == f.src_id # f.dst_id

\* The lowest host of a set.
First(S) == CHOOSE h \in S : \A g \in S : h <= g

\* Ports that send_data_frames serves before it turns to the hosts.
Serviceable ==
  {i \in Hosts : ingress[i] # <<>> /\ accepted[i] < recv_accept_rate}

ServeIngress ==
  /\ stage = "data" /\ Serviceable # {}
  /\ LET i == First(Serviceable)
         f == Head(ingress[i])
     IN  /\ ingress' = [ingress EXCEPT ![i] = Tail(@)]
         /\ IF Sane(f)
            THEN \E copy \in Copies(f) :
                   /\ incoming_frames' =
                        [incoming_frames EXCEPT ![f.dst_id] = Append(@, copy)]
                   /\ accepted' = [accepted EXCEPT ![i] = @ + 1]
                   /\ stage' = stage
            ELSE /\ stage' = "aborted"
                 /\ UNCHANGED <<incoming_frames, accepted>>
  /\ UNCHANGED <<todo, cur, expired, dups, senderVars, receiverVars, historyVars,
                 active, glb_exit_main, input_cmdlist, outgoing_frames>>

\* Hosts that still have their turn in this pass over host_order; when none
\* of them has a frame the next pass over all hosts begins.
PassAfter(h, out) ==
  LET left == {g \in todo \ {h} : out[g] # <<>>}
  IN  IF left = {} THEN Hosts ELSE left

\* A host's turn: one data frame leaves its queue.
ForwardFrame(h) ==
  LET f   == Head(outgoing_frames[h])
      d   == f.dst_id
      out == [outgoing_frames EXCEPT ![h] = Tail(@)]
  IN  /\ stage = "data" /\ Serviceable = {}
      /\ h \in todo /\ outgoing_frames[h] # <<>>
      /\ outgoing_frames' = out
      /\ todo' = PassAfter(h, out)
      /\ \/ /\ ~Sane(f)
            /\ stage' = "aborted"
            /\ UNCHANGED <<incoming_frames, accepted, ingress>>
         \/ /\ Sane(f) /\ accepted[d] < recv_accept_rate
            /\ \E copy \in Copies(f) : incoming_frames' =
                 [incoming_frames EXCEPT ![d] = Append(@, copy)]
            /\ accepted' = [accepted EXCEPT ![d] = @ + 1]
            /\ UNCHANGED <<stage, ingress>>
         \/ /\ Sane(f) /\ accepted[d] >= recv_accept_rate
            /\ ingress' = IF Len(ingress[d]) < INGRESS_PORT_QUEUE_CAPACITY
                          THEN [ingress EXCEPT ![d] = Append(@, f)]
                          ELSE ingress
            /\ UNCHANGED <<stage, incoming_frames, accepted>>
      /\ UNCHANGED <<cur, expired, dups, senderVars, receiverVars, historyVars,
                     active, glb_exit_main, input_cmdlist>>

\* A pass that finds every outgoing queue empty ends send_data_frames.
DataDone ==
  /\ stage = "data" /\ Serviceable = {}
  /\ \A h \in Hosts : outgoing_frames[h] = <<>>
  /\ stage' = "receivers"
  /\ todo' = Hosts
  /\ accepted' = [h \in Hosts |-> 0]
  /\ UNCHANGED <<cur, expired, dups, senderVars, receiverVars, ingress,
                 historyVars, active, glb_exit_main, input_cmdlist,
                 incoming_frames, outgoing_frames>>

\* send_ack_frames: host after host, each queue to its end.
SendAck ==
  LET waiting == {h \in Hosts : outgoing_frames[h] # <<>>}
      h       == First(waiting)
      f       == Head(outgoing_frames[h])
  IN  /\ stage = "acks" /\ waiting # {}
      /\ outgoing_frames' = [outgoing_frames EXCEPT ![h] = Tail(@)]
      /\ IF Sane(f)
         THEN \E copy \in Copies(f) :
                /\ incoming_frames' =
                     [incoming_frames EXCEPT ![f.dst_id] = Append(@, copy)]
                /\ stage' = stage
         ELSE stage' = "aborted" /\ UNCHANGED incoming_frames
      /\ UNCHANGED <<todo, cur, expired, dups, senderVars, receiverVars, switchVars,
                     historyVars, active, glb_exit_main, input_cmdlist>>

SendDataFrames == ServeIngress \/ (\E h \in Hosts : ForwardFrame(h)) \/ DataDone
=============================================================================
