--------------------------- MODULE TransferProofs ---------------------------
(***************************************************************************)
(* One-way traffic, for any number of hosts, window, range of sequence     *)
(* numbers, rate and capacity of the switch: TransferInv is an invariant,  *)
(* and what follows from it.                                               *)
(***************************************************************************)
EXTENDS TransferFacts

\* TransferInv without the bounds on the counts, which follow.
Reached(s, d) ==
  \E acked, got, sent, numbered \in Nat : Progress(s, d, acked, got, sent, numbered)

Inv ==
  /\ TypeInv /\ Routing /\ Phases /\ IdleLAR /\ Rested /\ Answerable
  /\ \A p \in Pairs : Reached(p[1], p[2])

\* A pair of hosts and how far it has got.
At(s, d, a, g, t, n) ==
  /\ OneWayTraffic /\ Inv /\ <<s, d>> \in Pairs
  /\ a \in Nat /\ g \in Nat /\ t \in Nat /\ n \in Nat
  /\ Progress(s, d, a, g, t, n)

LEMMA PairFacts ==
  ASSUME OneWayTraffic, NEW s, NEW d, <<s, d>> \in Pairs
  PROVE  /\ s \in Hosts /\ d \in Hosts /\ s # d /\ <<d, s>> \notin Pairs
         /\ \A x : <<s, x>> \in Pairs => x = d
<1>1. Pairs \subseteq Hosts \X Hosts
  BY ConfigAssumption
<1>2. \A q \in Pairs : (s = q[1] => <<s, d>> = q) /\ <<s, d>> # <<q[2], q[1]>>
  BY DEF OneWayTraffic
<1>3. s # d
  BY <1>2
<1>4. <<d, s>> \notin Pairs
  BY <1>2
<1>5. \A x : <<s, x>> \in Pairs => x = d
  BY <1>2
<1> QED BY <1>1, <1>3, <1>4, <1>5

LEMMA HostTypes ==
  ASSUME TypeInv, NEW h \in Hosts
  PROVE  /\ incoming_frames[h] \in Seq(Frame) /\ outgoing_frames[h] \in Seq(Frame)
         /\ ingress[h] \in Seq(Frame) /\ buffered_outframes[h] \in Seq(Frame)
         /\ input_cmdlist[h] \in Seq(Cmd)
         /\ send_window[h] \in [Slots -> Frame \cup {NoFrame}]
         /\ \A g \in Hosts :
              /\ receive_window[h][g] \in [Slots -> Frame \cup {NoFrame}]
              /\ emptyCharArray[h][g] \in Seq(Nat) /\ printed[h][g] \in Seq(Seq(Nat))
              /\ typed[h][g] \in Nat /\ issued[h][g] \in Seq(Seq(Nat))
              /\ LAR[h][g] \in SeqNums /\ LFS[h][g] \in SeqNums /\ NFE[h][g] \in SeqNums
<1>1. /\ incoming_frames[h] \in Seq(Frame) /\ outgoing_frames[h] \in Seq(Frame)
      /\ input_cmdlist[h] \in Seq(Cmd)
  BY DEF TypeInv, TypeOK, QueuesTypeOK
<1>2. ingress[h] \in Seq(Frame)
  BY DEF TypeInv, TypeOK, SwitchTypeOK
<1>3. /\ buffered_outframes[h] \in Seq(Frame)
      /\ send_window[h] \in [Slots -> Frame \cup {NoFrame}]
  BY DEF TypeInv, TypeOK, SenderTypeOK
<1>4. ASSUME NEW g \in Hosts
      PROVE  /\ receive_window[h][g] \in [Slots -> Frame \cup {NoFrame}]
             /\ emptyCharArray[h][g] \in Seq(Nat) /\ printed[h][g] \in Seq(Seq(Nat))
             /\ typed[h][g] \in Nat /\ issued[h][g] \in Seq(Seq(Nat))
             /\ LAR[h][g] \in SeqNums /\ LFS[h][g] \in SeqNums /\ NFE[h][g] \in SeqNums
  <2>1. /\ receive_window[h][g] \in [Slots -> Frame \cup {NoFrame}]
        /\ emptyCharArray[h][g] \in Seq(Nat) /\ printed[h][g] \in Seq(Seq(Nat))
        /\ NFE[h][g] \in SeqNums
    BY DEF TypeInv, TypeOK, ReceiverTypeOK
  <2>2. typed[h][g] \in Nat /\ issued[h][g] \in Seq(Seq(Nat))
    BY DEF TypeInv, TypeOK, HistoryTypeOK
  <2>3. LAR[h][g] \in SeqNums /\ LFS[h][g] \in SeqNums
    BY DEF TypeInv, TypeOK, SenderTypeOK
  <2> QED BY <2>1, <2>2, <2>3
<1> QED BY <1>1, <1>2, <1>3, <1>4

LEMMA QueueTypes ==
  ASSUME TypeInv
  PROVE  /\ incoming_frames \in [Hosts -> Seq(Frame)]
         /\ outgoing_frames \in [Hosts -> Seq(Frame)]
         /\ ingress \in [Hosts -> Seq(Frame)]
BY DEF TypeInv, TypeOK, QueuesTypeOK, SwitchTypeOK

\* Nothing is numbered that was not typed.
LEMMA NumberedBound ==
  ASSUME NEW d, NEW M \in Seq(Seq(Nat)), NEW last \in Nat, Consecutive(M, last),
         NEW c \in Seq(Cmd), NEW n, CommandsOK(d, M, c, n)
  PROVE  n \in Nat /\ n <= last
<1>1. Len(M) - Len(c) \in 0 .. Len(M)
  BY DEF CommandsOK
<1> QED BY <1>1, EndOfType DEF CommandsOK

LEMMA AtPair ==
  ASSUME NEW s, NEW d, NEW a, NEW g, NEW t, NEW n, At(s, d, a, g, t, n)
  PROVE  /\ OneWayTraffic /\ window_size <= HALF_SEQ_NUM
         /\ TypeInv /\ Routing /\ Phases
         /\ s \in Hosts /\ d \in Hosts /\ s # d
         /\ <<s, d>> \in Pairs /\ <<d, s>> \notin Pairs
         /\ \A x : <<s, x>> \in Pairs => x = d
<1>1. /\ OneWayTraffic /\ window_size <= HALF_SEQ_NUM
      /\ TypeInv /\ Routing /\ Phases /\ <<s, d>> \in Pairs
  BY DEF At, Inv, OneWayTraffic
<1> QED BY <1>1, PairFacts

LEMMA AtParts ==
  ASSUME NEW s, NEW d, NEW a, NEW g, NEW t, NEW n, At(s, d, a, g, t, n)
  PROVE  /\ Consecutive(issued[s][d], typed[s][d])
         /\ SenderOK(s, d, a, t, n) /\ ReceiverOK(s, d, g, t)
         /\ DataLineOK(s, d, g, t) /\ AckLineOK(s, d, a, g)
BY DEF At, Progress

LEMMA AtCounts ==
  ASSUME NEW s, NEW d, NEW a, NEW g, NEW t, NEW n, At(s, d, a, g, t, n)
  PROVE  /\ a \in Nat /\ g \in Nat /\ t \in Nat /\ n \in Nat
         /\ a <= g /\ g <= t /\ t <= n /\ n <= typed[s][d]
         /\ t <= a + window_size
<1>1. /\ a \in Nat /\ g \in Nat /\ t \in Nat /\ n \in Nat
      /\ a <= g /\ g <= t /\ t <= n
  BY DEF At, Progress
<1>2. s \in Hosts /\ d \in Hosts /\ TypeInv
  BY AtPair
<1>3. SenderOK(s, d, a, t, n) /\ Consecutive(issued[s][d], typed[s][d])
  BY AtParts
<1>4. n <= typed[s][d]
  <2>1. CommandsOK(d, issued[s][d], input_cmdlist[s], n)
    BY <1>3 DEF SenderOK
  <2>2. /\ input_cmdlist[s] \in Seq(Cmd) /\ issued[s][d] \in Seq(Seq(Nat))
        /\ typed[s][d] \in Nat
    BY <1>2, HostTypes
  <2> QED BY <1>3, <2>1, <2>2, NumberedBound
<1>5. t <= a + window_size
  <2>1. WindowOK(s, d, issued[s][d], send_window[s], a, t)
    BY <1>3 DEF SenderOK
  <2>2. a <= t
    BY <1>1
  <2>3. send_window[s] \in [Slots -> Frame \cup {NoFrame}]
    BY <1>2, HostTypes
  <2> QED BY <1>1, <2>1, <2>2, <2>3, WindowBound
<1> QED BY <1>1, <1>4, <1>5

-----------------------------------------------------------------------------
(* What a step leaves alone. *)

LEMMA SenderSame ==
  ASSUME NEW s, NEW d, NEW a, NEW t, NEW n, SenderOK(s, d, a, t, n),
         LAR'[s][d] = LAR[s][d], LFS'[s][d] = LFS[s][d], issued'[s][d] = issued[s][d],
         input_cmdlist'[s] = input_cmdlist[s],
         buffered_outframes'[s] = buffered_outframes[s],
         send_window'[s] = send_window[s]
  PROVE  SenderOK(s, d, a, t, n)'
BY DEF SenderOK

LEMMA ReceiverSame ==
  ASSUME NEW s, NEW d, NEW g, NEW t, ReceiverOK(s, d, g, t),
         NFE'[d][s] = NFE[d][s], printed'[d][s] = printed[d][s],
         emptyCharArray'[d][s] = emptyCharArray[d][s],
         receive_window'[d][s] = receive_window[d][s], issued'[s][d] = issued[s][d],
         delivery' # NotDelivering /\ cur' = d /\ delivery'.src_id = s
           => delivery' = delivery /\ cur = d
  PROVE  ReceiverOK(s, d, g, t)'
BY DEF ReceiverOK, Delivered

\* A pair and its counts after a step.
LEMMA Reach ==
  ASSUME NEW s, NEW d, NEW a \in Nat, NEW g \in Nat, NEW t \in Nat, NEW n \in Nat,
         a <= g, g <= t, t <= n, Consecutive(issued'[s][d], typed'[s][d]),
         SenderOK(s, d, a, t, n)', ReceiverOK(s, d, g, t)',
         DataLineOK(s, d, g, t)', AckLineOK(s, d, a, g)'
  PROVE  Reached(s, d)'
<1>1. Progress(s, d, a, g, t, n)'
  BY DEF Progress
<1> QED BY <1>1 DEF Reached

\* A step that leaves the two ends and the frames between them alone.
LEMMA Still ==
  ASSUME NEW s, NEW d, NEW a, NEW g, NEW t, NEW n, At(s, d, a, g, t, n),
         UNCHANGED <<LAR, LFS, send_window, buffered_outframes, input_cmdlist, delivery,
                     NFE, receive_window, emptyCharArray, printed, issued, typed,
                     incoming_frames, outgoing_frames, ingress>>,
         cur' = cur \/ delivery = NotDelivering
  PROVE  Reached(s, d)'
<1>1. SenderOK(s, d, a, t, n)'
  BY AtParts, SenderSame
<1>2. ReceiverOK(s, d, g, t)'
  BY AtParts, ReceiverSame
<1>3. DataLineOK(s, d, g, t)' /\ AckLineOK(s, d, a, g)'
  BY AtParts DEF DataLineOK, AckLineOK
<1>4. Consecutive(issued'[s][d], typed'[s][d])
  BY AtParts
<1>5. a \in Nat /\ g \in Nat /\ t \in Nat /\ n \in Nat /\ a <= g /\ g <= t /\ t <= n
  BY AtCounts
<1> QED BY <1>1, <1>2, <1>3, <1>4, <1>5, Reach

\* A step that only takes a frame off the queue of a host.
LEMMA Popped ==
  ASSUME NEW s, NEW d, NEW a, NEW g, NEW t, NEW n, At(s, d, a, g, t, n),
         NEW h \in Hosts, incoming_frames[h] # <<>>,
         incoming_frames' = [incoming_frames EXCEPT ![h] = Tail(@)],
         UNCHANGED <<LFS, buffered_outframes, input_cmdlist, delivery,
                     NFE, receive_window, emptyCharArray, printed, issued, typed,
                     outgoing_frames, ingress>>,
         LAR'[s][d] = LAR[s][d], send_window'[s] = send_window[s],
         cur' = cur \/ delivery = NotDelivering
  PROVE  Reached(s, d)'
<1>1. SenderOK(s, d, a, t, n)'
  BY AtParts, SenderSame
<1>2. ReceiverOK(s, d, g, t)'
  BY AtParts, ReceiverSame
<1>3. s \in Hosts /\ d \in Hosts /\ TypeInv
  BY AtPair
<1>4. DataLineOK(s, d, g, t)'
  <2> DEFINE G == DataFrames(s, d, issued[s][d], receive_window[d][s], g, t)
  <2>1. ingress[d] \in Seq(Frame) /\ outgoing_frames[s] \in Seq(Frame)
    BY <1>3, HostTypes
  <2>2. incoming_frames \in [Hosts -> Seq(Frame)]
    BY <1>3, QueueTypes
  <2>3. Line(G, DataOrder(s, d), incoming_frames[d], ingress[d], outgoing_frames[s])
    BY AtParts DEF DataLineOK
  <2>4. Line(G, DataOrder(s, d), incoming_frames'[d], ingress[d], outgoing_frames[s])
    <3> HIDE DEF G
    <3> QED BY <1>3, <2>1, <2>2, <2>3, PopAny
  <2> QED BY <2>4 DEF DataLineOK
<1>5. AckLineOK(s, d, a, g)'
  <2>1. <<>> \in Seq(Frame) /\ outgoing_frames[d] \in Seq(Frame)
    BY <1>3, HostTypes
  <2>2. incoming_frames \in [Hosts -> Seq(Frame)]
    BY <1>3, QueueTypes
  <2>3. Line(AckFrames(s, d, a, g), AckOrder(s, d, a), incoming_frames[s], <<>>,
             outgoing_frames[d])
    BY AtParts DEF AckLineOK
  <2>4. Line(AckFrames(s, d, a, g), AckOrder(s, d, a), incoming_frames'[s], <<>>,
             outgoing_frames[d])
    BY <1>3, <2>1, <2>2, <2>3, PopAny
  <2> QED BY <2>4 DEF AckLineOK
<1>6. Consecutive(issued'[s][d], typed'[s][d])
  BY AtParts
<1>7. a \in Nat /\ g \in Nat /\ t \in Nat /\ n \in Nat /\ a <= g /\ g <= t /\ t <= n
  BY AtCounts
<1> QED BY <1>1, <1>2, <1>4, <1>5, <1>6, <1>7, Reach

-----------------------------------------------------------------------------
(* The steps that move the program counter, or only drop a frame. *)

LEMMA DeliveryStage ==
  ASSUME TypeInv, stage # "receivers" \/ cur = NoHost
  PROVE  delivery = NotDelivering
BY HostsFacts DEF TypeInv, DeliveryOK

LEMMA MoveReach ==
  ASSUME NEW s, NEW d, NEW a, NEW g, NEW t, NEW n, At(s, d, a, g, t, n),
         \/ \E h \in Hosts : Wake(h) \/ Sleep(h) \/ VisitReceiver(h)
         \/ SendersDone \/ DataDone \/ ReceiversDone \/ GracefulExit
         \/ NoMoreInput \/ UserExit \/ InputEof \/ UNCHANGED vars
  PROVE  Reached(s, d)'
<1>1. UNCHANGED <<LAR, LFS, send_window, buffered_outframes, input_cmdlist, delivery,
                  NFE, receive_window, emptyCharArray, printed, issued, typed,
                  incoming_frames, outgoing_frames, ingress>>
  BY DEF Wake, Sleep, VisitReceiver, SendersDone, DataDone, ReceiversDone, GracefulExit,
     NoMoreInput, UserExit, StartRound, InputEof, vars, loopVars, senderVars, receiverVars,
     switchVars, historyVars
<1>2. cur' = cur \/ cur = NoHost
  BY DEF Wake, Sleep, VisitReceiver, SendersDone, DataDone, ReceiversDone, GracefulExit,
     NoMoreInput, UserExit, StartRound, InputEof, vars, loopVars
<1>3. cur' = cur \/ delivery = NotDelivering
  BY <1>2, AtPair, DeliveryStage
<1> QED BY <1>1, <1>3, Still

LEMMA DropAckReach ==
  ASSUME NEW s, NEW d, NEW a, NEW g, NEW t, NEW n, At(s, d, a, g, t, n),
         NEW h \in Hosts, DropAck(h)
  PROVE  Reached(s, d)'
<1>1. /\ incoming_frames[h] # <<>>
      /\ incoming_frames' = [incoming_frames EXCEPT ![h] = Tail(@)]
      /\ UNCHANGED <<loopVars, senderVars, receiverVars, switchVars, historyVars,
                     input_cmdlist, outgoing_frames>>
  BY DEF DropAck, AckReady
<1>2. /\ UNCHANGED <<LFS, buffered_outframes, input_cmdlist, delivery,
                     NFE, receive_window, emptyCharArray, printed, issued, typed,
                     outgoing_frames, ingress>>
      /\ LAR'[s][d] = LAR[s][d] /\ send_window'[s] = send_window[s] /\ cur' = cur
  BY <1>1 DEF loopVars, senderVars, receiverVars, switchVars, historyVars
<1> QED BY <1>1, <1>2, Popped

LEMMA CorruptedReach ==
  ASSUME NEW s, NEW d, NEW a, NEW g, NEW t, NEW n, At(s, d, a, g, t, n),
         NEW h \in Hosts,
         Corrupted(h) \/ (Unstored(h) /\ Head(incoming_frames[h]).is_ack = 1)
  PROVE  Reached(s, d)'
<1>1. /\ incoming_frames[h] # <<>> /\ delivery = NotDelivering
      /\ incoming_frames' = [incoming_frames EXCEPT ![h] = Tail(@)]
  BY DEF Corrupted, Unstored, Popping
<1>2. /\ UNCHANGED <<LFS, buffered_outframes, input_cmdlist, delivery,
                     NFE, receive_window, emptyCharArray, printed, issued, typed,
                     outgoing_frames, ingress>>
      /\ LAR'[s][d] = LAR[s][d] /\ send_window'[s] = send_window[s]
  BY DEF Corrupted, Unstored, senderVars, receiverVars, switchVars, historyVars
<1> QED BY <1>1, <1>2, Popped

-----------------------------------------------------------------------------
(* The switch. *)

LEMMA QueuedType ==
  ASSUME NEW q \in Seq(Frame), q # <<>>
  PROVE  /\ Head(q) \in Frame /\ Head(q) \in ElementsOf(q)
         /\ Head(q).src_id \in Hosts /\ Head(q).dst_id \in Hosts
<1>1. Head(q) \in Frame
  OBVIOUS
<1>2. Head(q) \in ElementsOf(q)
  BY ElementsPop
<1> QED BY <1>1, <1>2 DEF Frame

LEMMA ServeIngressReach ==
  ASSUME NEW s, NEW d, NEW a, NEW g, NEW t, NEW n, At(s, d, a, g, t, n),
         ServeIngress
  PROVE  Reached(s, d)'
<1> DEFINE i == First(Serviceable)
           f == Head(ingress[i])
<1>1. i \in Hosts /\ ingress[i] # <<>>
  BY FirstIn DEF ServeIngress, Serviceable
<1>2. /\ TypeInv /\ s \in Hosts /\ d \in Hosts /\ s # d
      /\ <<s, d>> \in Pairs /\ <<d, s>> \notin Pairs
  BY AtPair
<1>3. f \in Frame /\ f \in ElementsOf(ingress[i])
  BY <1>1, <1>2, HostTypes, QueuedType
<1>4. OnPair(f) /\ f.dst_id = i /\ f.is_ack = 0
  BY <1>1, <1>3, AtPair DEF Routing
<1>5. Sane(f)
  <2>1. <<f.src_id, f.dst_id>> \in Pairs
    BY <1>4 DEF OnPair
  <2>2. OneWayTraffic
    BY AtPair
  <2>3. f.src_id # f.dst_id
    BY <2>1, <2>2, PairFacts
  <2> QED BY <2>3 DEF Sane
<1>6. /\ ingress' = [ingress EXCEPT ![i] = Tail(@)]
      /\ UNCHANGED <<todo, cur, expired, dups, senderVars, receiverVars, historyVars,
                     active, glb_exit_main, input_cmdlist, outgoing_frames>>
  BY DEF ServeIngress
<1>7. PICK e \in Copies(f) : incoming_frames' = [incoming_frames EXCEPT ![i] = Append(@, e)]
  BY <1>4, <1>5 DEF ServeIngress
<1>8. e \in Frame /\ e.is_ack = 0
  BY <1>3, <1>4, <1>7, CopyFields
<1> HIDE DEF i, f
<1>9. /\ UNCHANGED <<LAR, LFS, send_window, buffered_outframes, input_cmdlist, delivery, cur,
                     NFE, receive_window, emptyCharArray, printed, issued, typed,
                     outgoing_frames>>
  BY <1>6 DEF senderVars, receiverVars, historyVars
<1>10. SenderOK(s, d, a, t, n)'
  BY <1>9, AtParts, SenderSame
<1>11. ReceiverOK(s, d, g, t)'
  BY <1>9, AtParts, ReceiverSame
<1>12. /\ incoming_frames \in [Hosts -> Seq(Frame)] /\ outgoing_frames[s] \in Seq(Frame)
       /\ ingress \in [Hosts -> Seq(Frame)] /\ outgoing_frames[d] \in Seq(Frame)
       /\ incoming_frames[d] \in Seq(Frame) /\ ingress[d] \in Seq(Frame)
  BY <1>2, HostTypes, QueueTypes
<1>13. DataLineOK(s, d, g, t)'
  <2> DEFINE G == DataFrames(s, d, issued[s][d], receive_window[d][s], g, t)
             R == DataOrder(s, d)
  <2>1. Line(G, R, incoming_frames[d], ingress[d], outgoing_frames[s])
    BY AtParts DEF DataLineOK
  <2>2. Line(G, R, incoming_frames'[d], ingress'[d], outgoing_frames[s])
    <3>1. CASE i = d
      <4>1. Closed(G, R)
        BY DataClosed
      <4>2. G \subseteq Frame
        BY DEF DataFrames
      <4>3. e \in Copies(Head(ingress[d])) /\ ingress[d] # <<>>
        BY <1>1, <1>7, <3>1 DEF f
      <4> HIDE DEF G, R
      <4>4. Line(G, R, Append(incoming_frames[d], e), Tail(ingress[d]), outgoing_frames[s])
        BY <1>12, <2>1, <4>1, <4>2, <4>3, LineServe
      <4> QED BY <1>1, <1>2, <1>6, <1>7, <1>12, <3>1, <4>4
    <3>2. CASE i # d
      BY <1>2, <1>6, <1>7, <1>12, <2>1, <3>2
    <3> QED BY <3>1, <3>2
  <2> QED BY <1>9, <2>2 DEF DataLineOK
<1>14. AckLineOK(s, d, a, g)'
  <2> DEFINE G == AckFrames(s, d, a, g)
             R == AckOrder(s, d, a)
  <2>1. Line(G, R, incoming_frames[s], <<>>, outgoing_frames[d])
    BY AtParts DEF AckLineOK
  <2>2. s = i => Neutral(e, G, R)
    BY <1>8, AckNeutral DEF AckOf
  <2>3. <<>> \in Seq(Frame)
    OBVIOUS
  <2>4. Line(G, R, incoming_frames'[s], <<>>, outgoing_frames[d])
    <3> HIDE DEF G, R
    <3> QED BY <1>1, <1>2, <1>7, <1>8, <1>12, <2>1, <2>2, <2>3, MixAny
  <2> QED BY <1>9, <2>4 DEF AckLineOK
<1>15. Consecutive(issued'[s][d], typed'[s][d])
  BY <1>9, AtParts
<1>16. a \in Nat /\ g \in Nat /\ t \in Nat /\ n \in Nat /\ a <= g /\ g <= t /\ t <= n
  BY AtCounts
<1> QED BY <1>10, <1>11, <1>13, <1>14, <1>15, <1>16, Reach

\* The frame at the head of the queue of a host in the first half of a round.
LEMMA ForwardedFrame ==
  ASSUME OneWayTraffic, TypeInv, Routing, Phases, NEW h \in Hosts, stage = "data",
         outgoing_frames[h] # <<>>
  PROVE  LET f == Head(outgoing_frames[h])
         IN  /\ f \in Frame /\ f.dst_id \in Hosts /\ f.src_id = h /\ f.is_ack = 0
             /\ <<h, f.dst_id>> \in Pairs /\ Sane(f)
<1> DEFINE f == Head(outgoing_frames[h])
<1>1. f \in Frame /\ f.dst_id \in Hosts /\ f \in ElementsOf(outgoing_frames[h])
  BY HostTypes, QueuedType
<1>2. OnPair(f) /\ f.src_id = h
  BY <1>1 DEF Routing
<1>3. f.is_ack = 0
  BY <1>1 DEF Phases
<1>4. <<h, f.dst_id>> \in Pairs
  BY <1>2, <1>3 DEF OnPair
<1>5. h # f.dst_id
  BY <1>4, PairFacts
<1> QED BY <1>1, <1>2, <1>3, <1>4, <1>5 DEF Sane

LEMMA ForwardDataLine ==
  ASSUME NEW s, NEW d, NEW a, NEW g, NEW t, NEW n, At(s, d, a, g, t, n),
         NEW h \in Hosts, ForwardFrame(h)
  PROVE  DataLineOK(s, d, g, t)'
<1> DEFINE f == Head(outgoing_frames[h])
           x == f.dst_id
           G == DataFrames(s, d, issued[s][d], receive_window[d][s], g, t)
           R == DataOrder(s, d)
<1>1. /\ TypeInv /\ s \in Hosts /\ d \in Hosts /\ s # d
      /\ \A y : <<s, y>> \in Pairs => y = d
  BY AtPair
<1>2. outgoing_frames[h] # <<>> /\ stage = "data"
  BY DEF ForwardFrame
<1>3. /\ f \in Frame /\ x \in Hosts /\ f.src_id = h /\ f.is_ack = 0
      /\ <<h, x>> \in Pairs /\ Sane(f)
  BY <1>2, AtPair, ForwardedFrame
<1>4. /\ incoming_frames \in [Hosts -> Seq(Frame)] /\ outgoing_frames \in [Hosts -> Seq(Frame)]
      /\ ingress \in [Hosts -> Seq(Frame)] /\ outgoing_frames[s] \in Seq(Frame)
      /\ incoming_frames[d] \in Seq(Frame) /\ ingress[d] \in Seq(Frame)
  BY <1>1, HostTypes, QueueTypes
<1>5. Line(G, R, incoming_frames[d], ingress[d], outgoing_frames[s])
  BY AtParts DEF DataLineOK
<1>6. Closed(G, R)
  BY DataClosed
<1>7. G \subseteq Frame
  BY DEF DataFrames
<1>8. outgoing_frames' = [outgoing_frames EXCEPT ![h] = Tail(@)]
  BY DEF ForwardFrame
<1>9. UNCHANGED <<issued, receive_window>>
  BY DEF ForwardFrame, historyVars, receiverVars
<1>10. h = s => x = d
  BY <1>1, <1>3
<1>11. ASSUME NEW e \in Copies(f), h # s PROVE e \in Frame /\ Neutral(e, G, R)
  <2>1. e \in Frame /\ e.src_id = h
    BY <1>3, CopyFields
  <2> QED BY <1>11, <2>1, DataNeutral DEF DataOf
<1>12. Line(G, R, incoming_frames'[d], ingress'[d], outgoing_frames'[s])
  <2>1. CASE accepted[x] < recv_accept_rate
    <3>1. ingress[x] = <<>>
      BY <1>3, <2>1 DEF ForwardFrame, Serviceable
    <3>2. PICK e \in Copies(f) : /\ incoming_frames' = [incoming_frames EXCEPT ![x] = Append(@, e)]
                                 /\ ingress' = ingress
      <4>1. ~(accepted[x] >= recv_accept_rate)
        BY <1>1, <1>3, <2>1, ConfigAssumption DEF TypeInv, TypeOK, SwitchTypeOK
      <4> QED BY Zenon, <1>3, <4>1 DEF ForwardFrame
    <3>3. CASE h = s
      <4>1. e \in Copies(Head(outgoing_frames[s])) /\ outgoing_frames[s] # <<>>
        BY <1>2, <3>2, <3>3
      <4>2. ingress[d] = <<>>
        BY <1>10, <3>1, <3>3
      <4> HIDE DEF G, R
      <4>3. Line(G, R, incoming_frames[d], <<>>, outgoing_frames[s])
        BY <1>5, <4>2
      <4>4. Line(G, R, Append(incoming_frames[d], e), <<>>, Tail(outgoing_frames[s]))
        BY <1>4, <1>6, <1>7, <4>1, <4>3, LinePass
      <4>5. /\ incoming_frames'[d] = Append(incoming_frames[d], e) /\ ingress'[d] = <<>>
            /\ outgoing_frames'[s] = Tail(outgoing_frames[s])
        <5> HIDE DEF f, x
        <5> QED BY <1>1, <1>4, <1>8, <1>10, <3>2, <3>3, <4>2
      <4> QED BY <4>4, <4>5
    <3>4. CASE h # s
      <4>1. outgoing_frames'[s] = outgoing_frames[s] /\ ingress'[d] = ingress[d]
        BY <1>1, <1>4, <1>8, <3>2, <3>4
      <4>2. e \in Frame /\ (d = x => Neutral(e, G, R))
        BY <1>11, <3>4
      <4> HIDE DEF G, R, x, f
      <4>3. Line(G, R, incoming_frames'[d], ingress[d], outgoing_frames[s])
        BY <1>1, <1>3, <1>4, <1>5, <3>2, <4>2, MixAny
      <4> QED BY <4>1, <4>3
    <3> QED BY <3>3, <3>4
  <2>2. CASE accepted[x] >= recv_accept_rate /\ Len(ingress[x]) < INGRESS_PORT_QUEUE_CAPACITY
    <3>1. ~(accepted[x] < recv_accept_rate)
      BY <1>1, <1>3, <2>2, ConfigAssumption DEF TypeInv, TypeOK, SwitchTypeOK
    <3>2. ingress' = [ingress EXCEPT ![x] = Append(@, f)] /\ incoming_frames' = incoming_frames
      BY Zenon, <1>3, <2>2, <3>1 DEF ForwardFrame
    <3>3. CASE h = s
      <4> HIDE DEF G, R
      <4>1. Line(G, R, incoming_frames[d], Append(ingress[d], Head(outgoing_frames[s])),
                 Tail(outgoing_frames[s]))
        BY <1>2, <1>4, <1>5, <3>3, LineQueue
      <4>2. /\ ingress'[d] = Append(ingress[d], Head(outgoing_frames[s]))
            /\ outgoing_frames'[s] = Tail(outgoing_frames[s])
        BY <1>1, <1>4, <1>8, <1>10, <3>2, <3>3
      <4> QED BY <3>2, <4>1, <4>2
    <3>4. CASE h # s
      <4>1. outgoing_frames'[s] = outgoing_frames[s]
        BY <1>1, <1>4, <1>8, <3>4
      <4>2. f \in Copies(f)
        BY DEF Copies
      <4>3. d = x => Neutral(f, G, R)
        BY <1>11, <3>4, <4>2
      <4> HIDE DEF G, R, x, f
      <4>4. Line(G, R, incoming_frames[d], ingress'[d], outgoing_frames[s])
        BY <1>1, <1>3, <1>4, <1>5, <3>2, <4>3, MixAny
      <4> QED BY <3>2, <4>1, <4>4
    <3> QED BY <3>3, <3>4
  <2>3. CASE accepted[x] >= recv_accept_rate /\ ~(Len(ingress[x]) < INGRESS_PORT_QUEUE_CAPACITY)
    <3>1. ~(accepted[x] < recv_accept_rate)
      BY <1>1, <1>3, <2>3, ConfigAssumption DEF TypeInv, TypeOK, SwitchTypeOK
    <3>2. ingress' = ingress /\ incoming_frames' = incoming_frames
      BY Zenon, <1>3, <2>3, <3>1 DEF ForwardFrame
    <3> HIDE DEF G, R
    <3> QED BY <1>1, <1>2, <1>4, <1>5, <1>8, <3>2, PopAny
  <2>4. accepted[x] < recv_accept_rate \/ accepted[x] >= recv_accept_rate
    BY <1>1, <1>3, ConfigAssumption DEF TypeInv, TypeOK, SwitchTypeOK
  <2> QED BY <2>1, <2>2, <2>3, <2>4
<1> QED BY <1>9, <1>12 DEF DataLineOK

LEMMA ForwardAckLine ==
  ASSUME NEW s, NEW d, NEW a, NEW g, NEW t, NEW n, At(s, d, a, g, t, n),
         NEW h \in Hosts, ForwardFrame(h)
  PROVE  AckLineOK(s, d, a, g)'
<1> DEFINE f == Head(outgoing_frames[h])
           G == AckFrames(s, d, a, g)
           R == AckOrder(s, d, a)
<1>1. TypeInv /\ s \in Hosts /\ d \in Hosts
  BY AtPair
<1>2. outgoing_frames[h] # <<>> /\ stage = "data"
  BY DEF ForwardFrame
<1>3. f \in Frame /\ f.dst_id \in Hosts /\ f.is_ack = 0
  BY <1>2, AtPair, ForwardedFrame
<1>4. /\ incoming_frames \in [Hosts -> Seq(Frame)] /\ outgoing_frames \in [Hosts -> Seq(Frame)]
      /\ incoming_frames[s] \in Seq(Frame) /\ outgoing_frames[d] \in Seq(Frame)
      /\ <<>> \in Seq(Frame)
  BY <1>1, HostTypes, QueueTypes
<1>5. Line(G, R, incoming_frames[s], <<>>, outgoing_frames[d])
  BY AtParts DEF AckLineOK
<1>6. outgoing_frames' = [outgoing_frames EXCEPT ![h] = Tail(@)]
  BY DEF ForwardFrame
<1>7. outgoing_frames'[d] \in Seq(Frame)
  BY <1>1, <1>2, <1>4, <1>6
<1>8. Line(G, R, incoming_frames[s], <<>>, outgoing_frames'[d])
  <2> HIDE DEF G, R
  <2> QED BY <1>1, <1>2, <1>4, <1>5, <1>6, PopAny
<1>9. Line(G, R, incoming_frames'[s], <<>>, outgoing_frames'[d])
  <2>1. CASE incoming_frames' = incoming_frames
    BY <1>8, <2>1
  <2>2. CASE \E e \in Copies(f) : incoming_frames' = [incoming_frames EXCEPT ![f.dst_id] = Append(@, e)]
    <3>1. PICK e \in Copies(f) : incoming_frames' = [incoming_frames EXCEPT ![f.dst_id] = Append(@, e)]
      BY <2>2
    <3>2. e \in Frame /\ e.is_ack = 0
      BY <1>3, CopyFields
    <3>3. s = f.dst_id => Neutral(e, G, R)
      BY <3>2, AckNeutral DEF AckOf
    <3> HIDE DEF G, R, f
    <3> QED BY <1>1, <1>3, <1>4, <1>7, <1>8, <3>1, <3>2, <3>3, MixAny
  <2> QED BY <2>1, <2>2 DEF ForwardFrame
<1> QED BY <1>9 DEF AckLineOK

LEMMA ForwardFrameReach ==
  ASSUME NEW s, NEW d, NEW a, NEW g, NEW t, NEW n, At(s, d, a, g, t, n),
         NEW h \in Hosts, ForwardFrame(h)
  PROVE  Reached(s, d)'
<1>1. UNCHANGED <<LAR, LFS, send_window, buffered_outframes, input_cmdlist, delivery, cur,
                  NFE, receive_window, emptyCharArray, printed, issued, typed>>
  BY DEF ForwardFrame, senderVars, receiverVars, historyVars
<1>2. SenderOK(s, d, a, t, n)'
  BY <1>1, AtParts, SenderSame
<1>3. ReceiverOK(s, d, g, t)'
  BY <1>1, AtParts, ReceiverSame
<1>4. Consecutive(issued'[s][d], typed'[s][d])
  BY <1>1, AtParts
<1>5. a \in Nat /\ g \in Nat /\ t \in Nat /\ n \in Nat /\ a <= g /\ g <= t /\ t <= n
  BY AtCounts
<1> QED BY <1>2, <1>3, <1>4, <1>5, ForwardDataLine, ForwardAckLine, Reach

\* The frame that send_ack_frames takes next.
LEMMA AckSent ==
  ASSUME OneWayTraffic, TypeInv, Routing, Phases, NEW h \in Hosts, stage = "acks",
         outgoing_frames[h] # <<>>
  PROVE  LET f == Head(outgoing_frames[h])
         IN  /\ f \in Frame /\ f.dst_id \in Hosts /\ f.src_id = h /\ f.is_ack = 1
             /\ <<f.dst_id, h>> \in Pairs /\ Sane(f)
<1> DEFINE f == Head(outgoing_frames[h])
<1>1. f \in Frame /\ f.dst_id \in Hosts /\ f \in ElementsOf(outgoing_frames[h])
  BY HostTypes, QueuedType
<1>2. OnPair(f) /\ f.src_id = h
  BY <1>1 DEF Routing
<1>3. f.is_ack = 1
  BY <1>1 DEF Phases
<1>4. <<f.dst_id, h>> \in Pairs
  BY <1>2, <1>3 DEF OnPair
<1>5. h # f.dst_id
  BY <1>4, PairFacts
<1> QED BY <1>1, <1>2, <1>3, <1>4, <1>5 DEF Sane

LEMMA SendAckStep ==
  ASSUME OneWayTraffic, TypeInv, Routing, Phases, SendAck
  PROVE  \E h \in Hosts, e \in Frame :
           /\ stage = "acks" /\ outgoing_frames[h] # <<>>
           /\ e \in Copies(Head(outgoing_frames[h]))
           /\ e.is_ack = 1 /\ e.src_id = h /\ e.dst_id \in Hosts
           /\ <<e.dst_id, h>> \in Pairs
           /\ outgoing_frames' = [outgoing_frames EXCEPT ![h] = Tail(@)]
           /\ incoming_frames' = [incoming_frames EXCEPT ![e.dst_id] = Append(@, e)]
           /\ stage' = stage
           /\ UNCHANGED <<todo, cur, expired, dups, senderVars, receiverVars, switchVars,
                          historyVars, active, glb_exit_main, input_cmdlist>>
<1> DEFINE waiting == {x \in Hosts : outgoing_frames[x] # <<>>}
           h == First(waiting)
           f == Head(outgoing_frames[h])
<1>1. stage = "acks" /\ h \in Hosts /\ outgoing_frames[h] # <<>>
  BY FirstIn DEF SendAck
<1>2. /\ f \in Frame /\ f.dst_id \in Hosts /\ f.src_id = h /\ f.is_ack = 1
      /\ <<f.dst_id, h>> \in Pairs /\ Sane(f)
  BY <1>1, AckSent
<1>3. /\ outgoing_frames' = [outgoing_frames EXCEPT ![h] = Tail(@)]
      /\ UNCHANGED <<todo, cur, expired, dups, senderVars, receiverVars, switchVars,
                     historyVars, active, glb_exit_main, input_cmdlist>>
  BY DEF SendAck
<1>4. PICK e \in Copies(f) :
        /\ incoming_frames' = [incoming_frames EXCEPT ![f.dst_id] = Append(@, e)]
        /\ stage' = stage
  BY <1>2 DEF SendAck
<1>5. /\ e \in Frame /\ e.is_ack = 1 /\ e.src_id = h /\ e.dst_id = f.dst_id
  BY <1>2, CopyFields
<1> HIDE DEF f, h
<1>6. e \in Copies(Head(outgoing_frames[h]))
  BY <1>4 DEF f
<1> QED BY <1>1, <1>2, <1>3, <1>4, <1>5, <1>6

LEMMA SendAckReach ==
  ASSUME NEW s, NEW d, NEW a, NEW g, NEW t, NEW n, At(s, d, a, g, t, n), SendAck
  PROVE  Reached(s, d)'
<1>1. /\ OneWayTraffic /\ TypeInv /\ Routing /\ Phases
      /\ s \in Hosts /\ d \in Hosts /\ s # d
  BY AtPair
<1>2. PICK h \in Hosts, e \in Frame :
        /\ outgoing_frames[h] # <<>>
        /\ e \in Copies(Head(outgoing_frames[h]))
        /\ e.is_ack = 1 /\ e.src_id = h /\ e.dst_id \in Hosts
        /\ outgoing_frames' = [outgoing_frames EXCEPT ![h] = Tail(@)]
        /\ incoming_frames' = [incoming_frames EXCEPT ![e.dst_id] = Append(@, e)]
        /\ UNCHANGED <<todo, cur, expired, dups, senderVars, receiverVars, switchVars,
                       historyVars, active, glb_exit_main, input_cmdlist>>
  BY <1>1, SendAckStep
<1>3. UNCHANGED <<LAR, LFS, send_window, buffered_outframes, input_cmdlist, delivery, cur,
                  NFE, receive_window, emptyCharArray, printed, issued, typed, ingress>>
  BY <1>2 DEF senderVars, receiverVars, historyVars, switchVars
<1>4. SenderOK(s, d, a, t, n)'
  BY <1>3, AtParts, SenderSame
<1>5. ReceiverOK(s, d, g, t)'
  BY <1>3, AtParts, ReceiverSame
<1>6. Consecutive(issued'[s][d], typed'[s][d])
  BY <1>3, AtParts
<1>7. a \in Nat /\ g \in Nat /\ t \in Nat /\ n \in Nat /\ a <= g /\ g <= t /\ t <= n
  BY AtCounts
<1>8. /\ incoming_frames \in [Hosts -> Seq(Frame)] /\ outgoing_frames \in [Hosts -> Seq(Frame)]
      /\ ingress[d] \in Seq(Frame)
      /\ incoming_frames[s] \in Seq(Frame) /\ incoming_frames[d] \in Seq(Frame)
      /\ outgoing_frames[s] \in Seq(Frame) /\ outgoing_frames[d] \in Seq(Frame)
      /\ <<>> \in Seq(Frame)
  BY <1>1, HostTypes, QueueTypes
<1>9. outgoing_frames'[s] \in Seq(Frame) /\ outgoing_frames'[d] \in Seq(Frame)
  BY <1>1, <1>2, <1>8
<1>10. DataLineOK(s, d, g, t)'
  <2> DEFINE G == DataFrames(s, d, issued[s][d], receive_window[d][s], g, t)
             R == DataOrder(s, d)
  <2>1. Line(G, R, incoming_frames[d], ingress[d], outgoing_frames[s])
    BY AtParts DEF DataLineOK
  <2>2. d = e.dst_id => Neutral(e, G, R)
    BY <1>2, DataNeutral DEF DataOf
  <2>3. Line(G, R, incoming_frames'[d], ingress[d], outgoing_frames'[s])
    <3> HIDE DEF G, R
    <3>1. Line(G, R, incoming_frames[d], ingress[d], outgoing_frames'[s])
      BY <1>1, <1>2, <1>8, <2>1, PopAny
    <3> QED BY <1>1, <1>2, <1>8, <1>9, <2>2, <3>1, MixAny
  <2> QED BY <1>3, <2>3 DEF DataLineOK
<1>11. AckLineOK(s, d, a, g)'
  <2> DEFINE G == AckFrames(s, d, a, g)
             R == AckOrder(s, d, a)
  <2>1. Line(G, R, incoming_frames[s], <<>>, outgoing_frames[d])
    BY AtParts DEF AckLineOK
  <2>2. Line(G, R, incoming_frames'[s], <<>>, outgoing_frames'[d])
    <3>1. CASE h = d /\ e.dst_id = s
      <4>1. Closed(G, R)
        BY AckClosed
      <4>2. G \subseteq Frame
        BY DEF AckFrames
      <4>3. /\ e \in Copies(Head(outgoing_frames[d])) /\ outgoing_frames[d] # <<>>
        BY <1>2, <3>1
      <4> HIDE DEF G, R
      <4>4. Line(G, R, Append(incoming_frames[s], e), <<>>, Tail(outgoing_frames[d]))
        BY <1>8, <2>1, <4>1, <4>2, <4>3, LinePass
      <4> QED BY <1>1, <1>2, <1>8, <3>1, <4>4
    <3>2. CASE ~(h = d /\ e.dst_id = s)
      <4>1. s = e.dst_id => Neutral(e, G, R)
        BY <1>2, <3>2, AckNeutral DEF AckOf
      <4> HIDE DEF G, R
      <4>2. Line(G, R, incoming_frames[s], <<>>, outgoing_frames'[d])
        BY <1>1, <1>2, <1>8, <2>1, PopAny
      <4> QED BY <1>1, <1>2, <1>8, <1>9, <4>1, <4>2, MixAny
    <3> QED BY <3>1, <3>2
  <2> QED BY <1>3, <2>2 DEF AckLineOK
<1> QED BY <1>4, <1>5, <1>6, <1>7, <1>10, <1>11, Reach

-----------------------------------------------------------------------------
(* The user types a message. *)

\* What the receiver has of the messages does not change when one is typed.
LEMMA IssuePrinted ==
  ASSUME NEW M \in Seq(Seq(Nat)), NEW N \in Seq(Seq(Nat)), Len(N) = Len(M) + 1,
         \A m \in 1 .. Len(M) : N[m] = M[m],
         \A m \in 0 .. Len(M) : EndOf(N, m) = EndOf(M, m),
         NEW messages \in Seq(Seq(Nat)), NEW text \in Seq(Nat), NEW g,
         PrintedOK(M, messages, text, g)
  PROVE  PrintedOK(N, messages, text, g)
<1> DEFINE p == Len(messages)
<1>1. /\ p \in Nat /\ p <= Len(M) /\ Len(M) \in Nat
      /\ \A i \in 1 .. p : messages[i] = M[i]
      /\ g = EndOf(M, p) + Len(text)
      /\ text # <<>> => p < Len(M) /\ g < EndOf(M, p + 1)
      /\ \A i \in 1 .. Len(text) : text[i] = EndOf(M, p) + i
  BY DEF PrintedOK
<1>2. p <= Len(N) /\ EndOf(N, p) = EndOf(M, p)
  BY <1>1
<1>3. \A i \in 1 .. p : messages[i] = N[i]
  BY <1>1
<1>4. text # <<>> => p < Len(N) /\ g < EndOf(N, p + 1)
  <2> SUFFICES ASSUME text # <<>> PROVE p < Len(N) /\ g < EndOf(N, p + 1)
    OBVIOUS
  <2>1. p < Len(M) /\ g < EndOf(M, p + 1)
    BY <1>1
  <2> HIDE DEF p
  <2>2. p + 1 \in 0 .. Len(M) /\ p < Len(N)
    BY <1>1, <2>1
  <2>3. EndOf(N, p + 1) = EndOf(M, p + 1)
    BY <2>2
  <2> QED BY <2>1, <2>2, <2>3
<1> HIDE DEF p
<1> QED BY <1>1, <1>2, <1>3, <1>4 DEF PrintedOK, p

LEMMA UserMsgReach ==
  ASSUME NEW s, NEW d, NEW a, NEW g, NEW t, NEW n, At(s, d, a, g, t, n),
         NEW x, NEW y, <<x, y>> \in Pairs, UserMsg(x, y)
  PROVE  Reached(s, d)'
<1>1. /\ OneWayTraffic /\ TypeInv /\ s \in Hosts /\ d \in Hosts
      /\ \A z : <<s, z>> \in Pairs => z = d
  BY AtPair
<1>2. x \in Hosts /\ y \in Hosts
  BY <1>1, PairFacts
<1>3. PICK k \in 1 .. MaxFragments :
        /\ input_cmdlist' = [input_cmdlist EXCEPT ![x] =
             Append(@, [dst_id |-> y, message |-> Pieces(x, y, k)])]
        /\ typed' = [typed EXCEPT ![x][y] = @ + k]
        /\ issued' = [issued EXCEPT ![x][y] = Append(@, Pieces(x, y, k))]
        /\ UNCHANGED <<loopVars, senderVars, receiverVars, switchVars, active,
                       glb_exit_main, incoming_frames, outgoing_frames>>
  BY DEF UserMsg
<1>4. UNCHANGED <<LAR, LFS, send_window, buffered_outframes, delivery, cur, NFE,
                  receive_window, emptyCharArray, printed, incoming_frames,
                  outgoing_frames, ingress>>
  BY <1>3 DEF senderVars, receiverVars, switchVars, loopVars
<1>5. a \in Nat /\ g \in Nat /\ t \in Nat /\ n \in Nat /\ a <= g /\ g <= t /\ t <= n
  BY AtCounts
<1>6. /\ input_cmdlist \in [Hosts -> Seq(Cmd)] /\ typed \in [Hosts -> [Hosts -> Nat]]
      /\ issued \in [Hosts -> [Hosts -> Seq(Seq(Nat))]]
  BY <1>1 DEF TypeInv, TypeOK, QueuesTypeOK, HistoryTypeOK
<1>7. CASE x # s
  <2>1. /\ input_cmdlist'[s] = input_cmdlist[s] /\ typed'[s][d] = typed[s][d]
        /\ issued'[s][d] = issued[s][d]
    BY <1>1, <1>3, <1>6, <1>7
  <2>2. SenderOK(s, d, a, t, n)'
    BY <1>4, <2>1, AtParts, SenderSame
  <2>3. ReceiverOK(s, d, g, t)'
    BY <1>4, <2>1, AtParts, ReceiverSame
  <2>4. DataLineOK(s, d, g, t)' /\ AckLineOK(s, d, a, g)'
    BY <1>4, <2>1, AtParts DEF DataLineOK, AckLineOK
  <2>5. Consecutive(issued'[s][d], typed'[s][d])
    BY <2>1, AtParts
  <2> QED BY <1>5, <2>2, <2>3, <2>4, <2>5, Reach
<1>8. CASE x = s
  <2> DEFINE M    == issued[s][d]
             last == typed[s][d]
             m    == [i \in 1 .. k |-> last + i]
             N    == Append(M, m)
             c    == input_cmdlist[s]
             cmd  == [dst_id |-> d, message |-> m]
  <2>1. y = d
    BY <1>1, <1>8
  <2>2. m = Pieces(x, y, k)
    BY <1>8, <2>1 DEF Pieces
  <2>3. M \in Seq(Seq(Nat)) /\ last \in Nat /\ c \in Seq(Cmd)
    BY <1>1, HostTypes
  <2>4. k \in Nat /\ k > 0
    BY ConfigAssumption
  <2>5. m \in Seq(Nat) /\ cmd \in Cmd
    <3>1. m \in [1 .. k -> Nat]
      <4> HIDE DEF last
      <4> QED BY <2>3, <2>4
    <3>2. m \in Seq(Nat)
      <4> HIDE DEF m
      <4> QED BY <2>4, <3>1
    <3> HIDE DEF m
    <3> QED BY <1>1, <3>2 DEF Cmd
  <2>6. input_cmdlist'[s] = Append(c, cmd)
    <3> HIDE DEF m
    <3> QED BY <1>1, <1>3, <1>6, <1>8, <2>1, <2>2
  <2>7. typed'[s][d] = last + k
    BY <1>1, <1>3, <1>6, <1>8, <2>1
  <2>8. issued'[s][d] = N
    <3> HIDE DEF m
    <3> QED BY <1>1, <1>3, <1>6, <1>8, <2>1, <2>2
  <2>9. Consecutive(M, last)
    BY AtParts
  <2> HIDE DEF M, last, c, cmd
  <2>10. /\ Consecutive(N, last + k)
         /\ N \in Seq(Seq(Nat)) /\ Len(N) = Len(M) + 1
         /\ \A i \in 1 .. Len(M) : N[i] = M[i]
         /\ N[Len(M) + 1] = m
         /\ \A i \in 0 .. Len(M) : EndOf(N, i) = EndOf(M, i)
    BY <2>3, <2>4, <2>9, IssueMessages
  <2> HIDE DEF N, m
  <2>11. \A f : Genuine(s, d, M, f) => Genuine(s, d, N, f)
    <3>1. Len(N) >= Len(M)
      BY <2>3, <2>10
    <3> QED BY <2>3, <2>10, <3>1, IssueGenuine
  <2>12. SenderOK(s, d, a, t, n)'
    <3>1. /\ LAR[s][d] = uint8(a - 1) /\ LFS[s][d] = uint8(n - 1)
          /\ CommandsOK(d, M, c, n)
          /\ BufferOK(s, d, M, buffered_outframes[s], t, n)
          /\ WindowOK(s, d, M, send_window[s], a, t)
      BY AtParts DEF SenderOK, M, c
    <3>2. CommandsOK(d, N, Append(c, cmd), n)
      BY <2>3, <2>5, <2>10, <3>1, IssueCommand DEF cmd
    <3>3. BufferOK(s, d, N, buffered_outframes[s], t, n)
      BY <2>11, <3>1 DEF BufferOK
    <3>4. WindowOK(s, d, N, send_window[s], a, t)
      BY <2>11, <3>1 DEF WindowOK
    <3> QED BY <1>4, <2>6, <2>8, <3>1, <3>2, <3>3, <3>4 DEF SenderOK
  <2>13. ReceiverOK(s, d, g, t)'
    <3>1. /\ NFE[d][s] = uint8(g) /\ Delivered(s, d) = 1 .. g
          /\ PrintedOK(M, printed[d][s], emptyCharArray[d][s], g)
          /\ StoreOK(s, d, M, receive_window[d][s], g, t)
          /\ delivery # NotDelivering /\ cur = d /\ delivery.src_id = s =>
               DeliveringOK(receive_window[d][s], NFE[d][s], delivery.seq_num, g)
      BY AtParts DEF ReceiverOK, M
    <3>2. PrintedOK(N, printed[d][s], emptyCharArray[d][s], g)
      <4>1. printed[d][s] \in Seq(Seq(Nat)) /\ emptyCharArray[d][s] \in Seq(Nat)
        BY <1>1, HostTypes
      <4> QED BY <2>3, <2>10, <3>1, <4>1, IssuePrinted
    <3>3. StoreOK(s, d, N, receive_window[d][s], g, t)
      BY <2>11, <3>1 DEF StoreOK
    <3>4. Delivered(s, d)' = 1 .. g
      BY <1>4, <3>1 DEF Delivered
    <3> QED BY <1>4, <2>8, <3>1, <3>2, <3>3, <3>4 DEF ReceiverOK
  <2>14. DataLineOK(s, d, g, t)'
    <3> DEFINE G == DataFrames(s, d, M, receive_window[d][s], g, t)
               H == DataFrames(s, d, N, receive_window[d][s], g, t)
               R == DataOrder(s, d)
               p == incoming_frames[d]
               q == ingress[d]
               r == outgoing_frames[s]
    <3>1. Line(G, R, p, q, r)
      BY AtParts DEF DataLineOK, M
    <3>2. \A f \in ElementsOf(p) \cup ElementsOf(q) \cup ElementsOf(r) : f \in G => f \in H
      BY <2>11 DEF DataFrames
    <3>3. Line(H, R, p, q, r)
      <4> HIDE DEF G, H, R, p, q, r
      <4> QED BY <3>1, <3>2, LineGoods
    <3> QED BY <1>4, <2>8, <3>3 DEF DataLineOK
  <2>15. AckLineOK(s, d, a, g)'
    BY <1>4, AtParts DEF AckLineOK
  <2>16. Consecutive(issued'[s][d], typed'[s][d])
    BY <2>7, <2>8, <2>10
  <2> QED BY <1>5, <2>12, <2>13, <2>14, <2>15, <2>16, Reach
<1> QED BY <1>7, <1>8

-----------------------------------------------------------------------------
(* The senders. *)

\* The fragments of the command that follows n numbered pieces.
LEMMA CommandFragments ==
  ASSUME NEW s \in Hosts, NEW d \in Hosts, NEW n \in Nat, NEW e \in Nat, n < e,
         LFS[s][d] = uint8(n - 1), NEW cmd,
         cmd = [dst_id |-> d, message |-> [i \in 1 .. e - n |-> n + i]]
  PROVE  Fragments(s, cmd) \in Seq(Frame) /\ FragmentsOf(s, d, n, e, Fragments(s, cmd))
<1> DEFINE l == e - n
           m == [i \in 1 .. l |-> n + i]
           new == Fragments(s, cmd)
<1>1. l \in Nat
  OBVIOUS
<1>2. Len(m) = l /\ \A i \in 1 .. l : m[i] = n + i
  <2> HIDE DEF l
  <2> QED BY <1>1
<1>3. cmd.dst_id = d /\ cmd.message = m
  OBVIOUS
<1> HIDE DEF m
<1>4. ASSUME NEW i \in 1 .. l
      PROVE  uint8(LFS[s][d] + i) = uint8(n + i - 1) /\ uint8(n + i - 1) \in SeqNums
  <2>0. n - 1 \in Int /\ i \in Int
    BY <1>1
  <2>1. uint8(uint8(n - 1) + i) = uint8((n - 1) + i)
    BY <2>0, Uint8Absorbs
  <2>2. (n - 1) + i = n + i - 1 /\ n + i - 1 \in Int
    BY <1>1
  <2>3. uint8(n + i - 1) \in SeqNums
    BY <2>2, Uint8Type
  <2> QED BY <2>1, <2>2, <2>3
<1>5. new = [i \in 1 .. l |->
              [src_id |-> s, dst_id |-> d, seq_num |-> uint8(LFS[s][d] + i), ack_num |-> 0,
               is_ack |-> 0, starting_index |-> i - 1, remaining |-> l - i,
               data |-> m[i], intact |-> TRUE]]
  <2> HIDE DEF l
  <2> QED BY <1>2, <1>3 DEF Fragments
<1> HIDE DEF new, l
<1>6. Len(new) = l
  BY <1>1, <1>5
<1>7. ASSUME NEW i \in 1 .. l
      PROVE  /\ new[i] \in Frame
             /\ new[i].src_id = s /\ new[i].dst_id = d
             /\ new[i].is_ack = 0 /\ new[i].ack_num = 0
             /\ new[i].seq_num = uint8(n + i - 1) /\ new[i].data = n + i
             /\ new[i].starting_index = i - 1 /\ new[i].remaining = l - i
  <2>1. new[i] = [src_id |-> s, dst_id |-> d, seq_num |-> uint8(n + i - 1), ack_num |-> 0,
                  is_ack |-> 0, starting_index |-> i - 1, remaining |-> l - i,
                  data |-> n + i, intact |-> TRUE]
    BY <1>2, <1>4, <1>5
  <2>2. i - 1 \in Nat /\ l - i \in Nat /\ n + i \in Nat
    BY <1>1
  <2>3. uint8(n + i - 1) \in SeqNums /\ 0 \in SeqNums
    BY <1>4, SeqNumAssumption DEF SeqNums
  <2>4. new[i] \in Frame
    BY <2>1, <2>2, <2>3 DEF Frame
  <2> QED BY <2>1, <2>4
<1>8. new \in Seq(Frame)
  <2>1. new \in [1 .. l -> Frame]
    BY <1>5, <1>7
  <2> QED BY <1>1, <2>1
<1>9. FragmentsOf(s, d, n, e, new)
  BY <1>6, <1>7 DEF FragmentsOf, l
<1> QED BY <1>8, <1>9 DEF new

LEMMA HandleInputCmdReach ==
  ASSUME NEW s, NEW d, NEW a, NEW g, NEW t, NEW n, At(s, d, a, g, t, n),
         NEW h \in Hosts, HandleInputCmd(h)
  PROVE  Reached(s, d)'
<1> DEFINE cmd == Head(input_cmdlist[h])
           y   == cmd.dst_id
<1>1. /\ OneWayTraffic /\ TypeInv /\ s \in Hosts /\ d \in Hosts
  BY AtPair
<1>2. /\ input_cmdlist[h] # <<>>
      /\ input_cmdlist' = [input_cmdlist EXCEPT ![h] = Tail(@)]
      /\ LFS' = [LFS EXCEPT ![h][y] = uint8(@ + Len(cmd.message))]
      /\ buffered_outframes' =
           [buffered_outframes EXCEPT ![h] = @ \o Fragments(h, cmd)]
      /\ UNCHANGED <<loopVars, receiverVars, switchVars, historyVars, active,
                     send_window, timeout, wait, LAR, cc, glb_exit_main,
                     incoming_frames, outgoing_frames>>
  BY DEF HandleInputCmd
<1>3. UNCHANGED <<LAR, send_window, delivery, cur, NFE, receive_window, emptyCharArray,
                  printed, incoming_frames, outgoing_frames, ingress, issued, typed>>
  BY <1>2 DEF receiverVars, switchVars, loopVars, historyVars
<1>4. /\ input_cmdlist \in [Hosts -> Seq(Cmd)] /\ LFS \in [Hosts -> [Hosts -> SeqNums]]
      /\ buffered_outframes \in [Hosts -> Seq(Frame)]
  BY <1>1 DEF TypeInv, TypeOK, QueuesTypeOK, SenderTypeOK
<1>5. ReceiverOK(s, d, g, t)'
  BY <1>3, AtParts, ReceiverSame
<1>6. DataLineOK(s, d, g, t)' /\ AckLineOK(s, d, a, g)'
  BY <1>3, AtParts DEF DataLineOK, AckLineOK
<1>7. Consecutive(issued'[s][d], typed'[s][d])
  BY <1>3, AtParts
<1>8. a \in Nat /\ g \in Nat /\ t \in Nat /\ n \in Nat /\ a <= g /\ g <= t /\ t <= n
  BY AtCounts
<1> HIDE DEF cmd
<1>9. CASE h # s
  <2>1. /\ input_cmdlist'[s] = input_cmdlist[s] /\ LFS'[s][d] = LFS[s][d]
        /\ buffered_outframes'[s] = buffered_outframes[s]
    BY <1>1, <1>2, <1>4, <1>9
  <2>2. SenderOK(s, d, a, t, n)'
    BY <1>3, <2>1, AtParts, SenderSame
  <2> QED BY <1>5, <1>6, <1>7, <1>8, <2>2, Reach
<1>10. CASE h = s
  <2> DEFINE M == issued[s][d]
             c == input_cmdlist[s]
             k == Len(M) - Len(c)
  <2>1. /\ LAR[s][d] = uint8(a - 1) /\ LFS[s][d] = uint8(n - 1)
        /\ CommandsOK(d, M, c, n)
        /\ BufferOK(s, d, M, buffered_outframes[s], t, n)
        /\ WindowOK(s, d, M, send_window[s], a, t)
    BY AtParts DEF SenderOK
  <2>2. M \in Seq(Seq(Nat)) /\ typed[s][d] \in Nat /\ c \in Seq(Cmd) /\ c # <<>>
    BY <1>1, <1>2, <1>10, HostTypes
  <2>3. Consecutive(M, typed[s][d])
    BY AtParts
  <2> HIDE DEF M, c
  <2>4. PICK e \in Nat :
          /\ e = EndOf(M, k + 1)
          /\ k + 1 \in 1 .. Len(M) /\ n = EndOf(M, k)
          /\ Head(c) = [dst_id |-> d, message |-> M[k + 1]]
          /\ Len(M[k + 1]) = e - n
          /\ M[k + 1] = [i \in 1 .. e - n |-> n + i]
          /\ n < e /\ CommandsOK(d, M, Tail(c), e)
    <3>1. n \in Nat /\ CommandsOK(d, M, c, n)
      BY <1>8, <2>1
    <3>2. /\ k + 1 \in 1 .. Len(M) /\ n = EndOf(M, k)
          /\ Head(c) = [dst_id |-> d, message |-> M[k + 1]]
          /\ Len(M[k + 1]) = EndOf(M, k + 1) - n
          /\ M[k + 1] = [i \in 1 .. EndOf(M, k + 1) - n |-> n + i]
          /\ n < EndOf(M, k + 1) /\ EndOf(M, k + 1) \in Nat
          /\ EndOf(M, k + 1) <= typed[s][d]
          /\ CommandsOK(d, M, Tail(c), EndOf(M, k + 1))
      BY Zenon, <2>2, <2>3, <3>1, TakeCommand
    <3> HIDE DEF k
    <3> QED BY Zenon, <3>2
  <2>5. k \in Nat
    BY <2>1, <2>2 DEF CommandsOK
  <2> HIDE DEF k
  <2>6. cmd = [dst_id |-> d, message |-> [i \in 1 .. e - n |-> n + i]]
    BY <1>10, <2>4 DEF cmd, c
  <2>7. Fragments(s, cmd) \in Seq(Frame) /\ FragmentsOf(s, d, n, e, Fragments(s, cmd))
    BY <1>1, <1>8, <2>1, <2>4, <2>6, CommandFragments
  <2>8. cmd.dst_id = d /\ Len(cmd.message) = e - n
    <3>1. cmd = [dst_id |-> d, message |-> M[k + 1]]
      BY <1>10, <2>4 DEF cmd, c
    <3> QED BY <2>4, <3>1
  <2>9. BufferOK(s, d, M, buffered_outframes[s] \o Fragments(s, cmd), t, e)
    <3>1. buffered_outframes[s] \in Seq(Frame)
      BY <1>1, HostTypes
    <3> QED BY <1>8, <2>1, <2>4, <2>5, <2>7, <3>1, BufferFragments
  <2>10. buffered_outframes'[s] = buffered_outframes[s] \o Fragments(s, cmd)
    BY <1>1, <1>2, <1>4, <1>10
  <2>11. input_cmdlist'[s] = Tail(c)
    BY <1>1, <1>2, <1>4, <1>10 DEF c
  <2>12. LFS'[s][d] = uint8(e - 1)
    <3>1. LFS'[s][d] = uint8(LFS[s][d] + (e - n))
      BY <1>1, <1>2, <1>4, <1>10, <2>8
    <3>2. uint8(uint8(n - 1) + (e - n)) = uint8((n - 1) + (e - n))
      BY <1>8, <2>4, Uint8Absorbs
    <3>3. (n - 1) + (e - n) = e - 1
      BY <1>8, <2>4
    <3> QED BY <2>1, <3>1, <3>2, <3>3
  <2>13. SenderOK(s, d, a, t, e)'
    <3>1. CommandsOK(d, M, input_cmdlist'[s], e)
      BY <2>4, <2>11
    <3>2. BufferOK(s, d, M, buffered_outframes'[s], t, e)
      BY <2>9, <2>10
    <3>3. issued'[s][d] = M /\ LAR'[s][d] = LAR[s][d] /\ send_window'[s] = send_window[s]
      BY <1>3 DEF M
    <3>4. WindowOK(s, d, M, send_window'[s], a, t) /\ LAR'[s][d] = uint8(a - 1)
      BY <2>1, <3>3
    <3> QED BY <2>12, <3>1, <3>2, <3>3, <3>4 DEF SenderOK
  <2>14. e \in Nat /\ t <= e
    BY <1>8, <2>4
  <2>15. a \in Nat /\ g \in Nat /\ t \in Nat /\ a <= g /\ g <= t
    BY <1>8
  <2> QED BY <1>5, <1>6, <1>7, <2>13, <2>14, <2>15, Reach
<1> QED BY <1>9, <1>10

\* The slots that an ack of the first c frames empties.
LEMMA AckedFrames ==
  ASSUME window_size <= HALF_SEQ_NUM, NEW s, NEW d, NEW M,
         NEW w \in [Slots -> Frame \cup {NoFrame}], NEW a \in Nat, NEW t \in Nat,
         t <= a + window_size, WindowOK(s, d, M, w, a, t),
         NEW c \in Nat, a <= c, c <= t, NEW f, f.is_ack = 1, f.ack_num = uint8(c - 1)
  PROVE  Acked(w, f) = UpTo(w, c)
<1>1. ASSUME NEW q \in Occupied(w)
      PROVE  seq_num_diff(w[q].seq_num, f.ack_num) >= 0 <=> w[q].data <= c
  <2> DEFINE x == w[q].data
  <2>1. /\ a < x /\ x <= t /\ w[q].seq_num = uint8(x - 1)
    BY DEF WindowOK, Genuine
  <2>2. x \in Nat
    <3>1. w[q] \in Frame
      BY WindowFrames
    <3> QED BY <3>1 DEF Frame
  <2> HIDE DEF x
  <2>3. x - 1 \in Int /\ c - x \in -HALF_SEQ_NUM .. HALF_SEQ_NUM /\ (x - 1) + (c - x) = c - 1
    BY <2>1, <2>2, ConfigAssumption, HalfBounds
  <2>4. seq_num_diff(uint8(x - 1), uint8((x - 1) + (c - x))) = c - x
    BY <2>3, DistanceRecovered
  <2>5. seq_num_diff(w[q].seq_num, f.ack_num) = c - x
    BY <2>1, <2>3, <2>4
  <2>6. c - x >= 0 <=> x <= c
    BY <2>2
  <2> QED BY <2>5, <2>6 DEF x
<1> QED BY <1>1 DEF Acked, UpTo

LEMMA AcceptAckReach ==
  ASSUME NEW s, NEW d, NEW a, NEW g, NEW t, NEW n, At(s, d, a, g, t, n),
         NEW h \in Hosts, AcceptAck(h)
  PROVE  Reached(s, d)'
<1> DEFINE f     == Head(incoming_frames[h])
           freed == Acked(send_window[h], f)
<1>1. /\ OneWayTraffic /\ TypeInv /\ s \in Hosts /\ d \in Hosts
      /\ window_size <= HALF_SEQ_NUM /\ <<d, s>> \notin Pairs
      /\ \A z : <<s, z>> \in Pairs => z = d
  BY AtPair
<1>2. /\ incoming_frames[h] # <<>>
      /\ incoming_frames' = [incoming_frames EXCEPT ![h] = Tail(@)]
      /\ send_window' = [send_window EXCEPT ![h] =
           [q \in Slots |-> IF q \in freed THEN NoFrame ELSE @[q]]]
      /\ LAR' = [LAR EXCEPT ![h][f.src_id] = f.ack_num]
      /\ UNCHANGED <<stage, todo, cur, expired, receiverVars, switchVars,
                     historyVars, active, buffered_outframes, wait, LFS,
                     glb_exit_main, input_cmdlist, outgoing_frames>>
  BY DEF AcceptAck, AckReady
<1>3. UNCHANGED <<LFS, buffered_outframes, input_cmdlist, delivery, cur,
                  NFE, receive_window, emptyCharArray, printed, issued, typed,
                  outgoing_frames, ingress>>
  BY <1>2 DEF receiverVars, switchVars, historyVars
<1>4. /\ f \in Frame /\ f.src_id \in Hosts /\ f \in ElementsOf(incoming_frames[h])
  BY <1>1, <1>2, HostTypes, QueuedType
<1>5. OnPair(f) /\ f.dst_id = h
  BY <1>4, AtPair DEF Routing
<1>6. /\ LAR \in [Hosts -> [Hosts -> SeqNums]]
      /\ send_window \in [Hosts -> [Slots -> Frame \cup {NoFrame}]]
      /\ send_window[s] \in [Slots -> Frame \cup {NoFrame}]
  BY <1>1 DEF TypeInv, TypeOK, SenderTypeOK
<1>7. f.ack_num \in SeqNums /\ f.is_ack \in {0, 1}
  BY <1>4 DEF Frame
<1>8. CASE h # s
  <2>1. LAR'[s][d] = LAR[s][d] /\ send_window'[s] = send_window[s]
    <3> HIDE DEF f, freed
    <3> QED BY <1>1, <1>2, <1>6, <1>8
  <2> QED BY <1>2, <1>3, <2>1, Popped
<1>9. CASE h = s /\ f.is_ack = 0
  <2>1. f.src_id # d
    BY <1>1, <1>5, <1>9 DEF OnPair
  <2>2. LAR'[s][d] = LAR[s][d]
    <3> HIDE DEF f
    <3> QED BY <1>1, <1>2, <1>4, <1>6, <1>9, <2>1
  <2>3. freed = {}
    BY <1>9 DEF Acked
  <2>4. send_window'[s] = send_window[s]
    <3> HIDE DEF f, freed
    <3>1. send_window'[s] = [q \in Slots |-> IF q \in freed THEN NoFrame ELSE send_window[s][q]]
      BY <1>1, <1>2, <1>6, <1>9
    <3>2. send_window'[s] = [q \in Slots |-> send_window[s][q]]
      BY <2>3, <3>1
    <3> QED BY <1>6, <3>2
  <2> QED BY <1>2, <1>3, <2>2, <2>4, Popped
<1>10. CASE h = s /\ f.is_ack = 1
  <2> DEFINE M == issued[s][d]
             w == send_window[s]
             p == incoming_frames[s]
  <2>1. f.src_id = d
    BY <1>1, <1>5, <1>10 DEF OnPair
  <2>2. AckOf(s, d, f)
    BY <1>5, <1>10, <2>1 DEF AckOf
  <2>3. /\ a \in Nat /\ g \in Nat /\ t \in Nat /\ n \in Nat /\ a <= g /\ g <= t /\ t <= n
        /\ t <= a + window_size
    BY AtCounts
  <2>4. /\ p \in Seq(Frame) /\ outgoing_frames[d] \in Seq(Frame) /\ p # <<>> /\ f = Head(p)
    BY <1>1, <1>2, <1>10, HostTypes
  <2>5. Line(AckFrames(s, d, a, g), AckOrder(s, d, a), p, <<>>, outgoing_frames[d])
    BY AtParts DEF AckLineOK
  <2>6. g <= a + MAX_SEQ_NUM
    BY <1>1, <2>3, HalfBounds, ConfigAssumption, SeqNumAssumption
  <2>7. /\ LAR[s][d] = uint8(a - 1) /\ LFS[s][d] = uint8(n - 1)
        /\ CommandsOK(d, M, input_cmdlist[s], n)
        /\ BufferOK(s, d, M, buffered_outframes[s], t, n)
        /\ WindowOK(s, d, M, w, a, t)
    BY AtParts DEF SenderOK
  <2> HIDE DEF p, M
  <2>8. PICK c \in Nat : /\ a <= c /\ c <= g /\ uint8(c - 1) = f.ack_num
                         /\ Line(AckFrames(s, d, c, g), AckOrder(s, d, c), Tail(p), <<>>,
                                 outgoing_frames[d])
    <3> DEFINE C == Acknowledges(a, Head(p).ack_num)
    <3>1. a \in Int /\ g \in Int /\ AckOf(s, d, Head(p))
      BY <2>2, <2>3, <2>4
    <3>2. /\ a <= C /\ C <= g /\ C \in Int /\ uint8(C - 1) = Head(p).ack_num
          /\ Line(AckFrames(s, d, C, g), AckOrder(s, d, C), Tail(p), <<>>,
                  outgoing_frames[d])
      BY <2>4, <2>5, <2>6, <3>1, AckAccept
    <3> HIDE DEF C
    <3>3. C \in Nat
      BY <2>3, <3>2
    <3> HIDE DEF f
    <3> QED BY Zenon, <2>4, <3>2, <3>3
  <2>9. c <= t
    BY <2>3, <2>8
  <2> HIDE DEF f
  <2>10. freed = UpTo(w, c)
    <3>1. freed = Acked(w, f)
      BY <1>10
    <3>2. w \in [Slots -> Frame \cup {NoFrame}] /\ WindowOK(s, d, M, w, a, t)
      BY <1>6, <2>7
    <3>3. f.is_ack = 1 /\ f.ack_num = uint8(c - 1)
      BY <1>10, <2>8
    <3> HIDE DEF w, freed
    <3>4. Acked(w, f) = UpTo(w, c)
      BY <1>1, <2>3, <2>8, <2>9, <3>2, <3>3, AckedFrames
    <3> QED BY <3>1, <3>4
  <2>11. WindowOK(s, d, M, Cleared(w, freed), c, t)
    <3>1. w \in [Slots -> Frame \cup {NoFrame}] /\ WindowOK(s, d, M, w, a, t)
      BY <1>6, <2>7
    <3> HIDE DEF w, freed
    <3> QED BY <2>3, <2>8, <2>10, <3>1, WindowFree
  <2> HIDE DEF freed, w
  <2>12. send_window'[s] = Cleared(w, freed)
    BY <1>1, <1>2, <1>6, <1>10 DEF w, Cleared
  <2>13. LAR'[s][d] = uint8(c - 1)
    BY <1>1, <1>2, <1>6, <1>10, <2>1, <2>8
  <2>14. incoming_frames'[s] = Tail(p)
    <3>1. incoming_frames \in [Hosts -> Seq(Frame)]
      BY <1>1, QueueTypes
    <3> QED BY <1>1, <1>2, <1>10, <3>1 DEF p
  <2>15. SenderOK(s, d, c, t, n)'
    <3>1. WindowOK(s, d, M, send_window'[s], c, t)
      BY <2>11, <2>12
    <3>2. issued'[s][d] = M
      BY <1>3 DEF M
    <3> QED BY <1>3, <2>7, <2>13, <3>1, <3>2 DEF SenderOK
  <2>16. ReceiverOK(s, d, g, t)'
    BY <1>3, AtParts, ReceiverSame
  <2>17. DataLineOK(s, d, g, t)'
    <3> DEFINE G == DataFrames(s, d, issued[s][d], receive_window[d][s], g, t)
    <3>1. ingress[d] \in Seq(Frame) /\ outgoing_frames[s] \in Seq(Frame)
      BY <1>1, HostTypes
    <3>2. incoming_frames \in [Hosts -> Seq(Frame)]
      BY <1>1, QueueTypes
    <3>3. Line(G, DataOrder(s, d), incoming_frames[d], ingress[d], outgoing_frames[s])
      BY AtParts DEF DataLineOK
    <3>4. Line(G, DataOrder(s, d), incoming_frames'[d], ingress[d], outgoing_frames[s])
      <4> HIDE DEF G
      <4> QED BY <1>1, <1>2, <3>1, <3>2, <3>3, PopAny
    <3> QED BY <1>3, <3>4 DEF DataLineOK
  <2>18. AckLineOK(s, d, c, g)'
    BY <1>3, <2>8, <2>14 DEF AckLineOK
  <2>19. Consecutive(issued'[s][d], typed'[s][d])
    BY <1>3, AtParts
  <2>20. g \in Nat /\ t \in Nat /\ n \in Nat /\ g <= t /\ t <= n /\ c \in Nat /\ c <= g
    BY <2>3, <2>8
  <2> QED BY <2>15, <2>16, <2>17, <2>18, <2>19, <2>20, Reach
<1> QED BY <1>7, <1>8, <1>9, <1>10

\* The frames of a window.
Contents(w) == {w[q] : q \in Occupied(w)}

\* What a host resends (x of its window, for fast retransmission, and y, timed
\* out) and the first m frames of its buffer, which enter the window.
Emission(h, m, x, y) ==
  LET w    == send_window[h]
      buf  == buffered_outframes[h]
      Free == Slots \ Occupied(w)
  IN  /\ x \in Seq(Frame) /\ y \in Seq(Frame)
      /\ ElementsOf(x) \cup ElementsOf(y) \subseteq Contents(w)
      /\ m \in 0 .. Len(buf) /\ m <= Cardinality(Free)
      /\ outgoing_frames' =
           [outgoing_frames EXCEPT ![h] = ((@ \o x) \o y) \o SubSeq(buf, 1, m)]
      /\ buffered_outframes' = [buffered_outframes EXCEPT ![h] = SubSeq(buf, m + 1, Len(buf))]
      /\ send_window' = [send_window EXCEPT ![h] = Filled(w, buf, m, Ascending(Free))]
      /\ active' = [active EXCEPT ![h] = Busy(send_window'[h], buffered_outframes'[h])]

LEMMA OutgoingStep ==
  ASSUME TypeInv, NEW h \in Hosts, HandleOutgoing(h)
  PROVE  /\ stage = "senders" /\ cur = h /\ cur' = NoHost
         /\ input_cmdlist[h] = <<>> /\ incoming_frames[h] = <<>>
         /\ UNCHANGED <<stage, todo, LAR, LFS, receiverVars, switchVars,
                        historyVars, glb_exit_main, input_cmdlist, incoming_frames>>
         /\ \E m, x, y : Emission(h, m, x, y)
<1> DEFINE w    == send_window[h]
           buf  == buffered_outframes[h]
           Free == Slots \ Occupied(w)
           Fast == FastRetransmit(h)
           Late == TimedOut(h)
           waiting == wait[h] /\ Occupied(w) # {}
           fast == Ascending(Fast)
           late == Ascending(Late)
           free == Ascending(Free)
           filled(n) == {free[k] : k \in 1 .. n}
           w2(n) == [q \in Slots |->
                       IF q \in filled(n)
                       THEN buf[CHOOSE k \in 1 .. n : free[k] = q] ELSE w[q]]
           rest(n) == SubSeq(buf, n + 1, Len(buf))
           x == [i \in DOMAIN fast |-> w[fast[i]]]
           y == [i \in DOMAIN late |-> w[late[i]]]
<1>1. /\ stage = "senders" /\ cur = h /\ cur' = NoHost
      /\ input_cmdlist[h] = <<>> /\ incoming_frames[h] = <<>>
      /\ UNCHANGED <<stage, todo, LAR, LFS, receiverVars, switchVars,
                     historyVars, glb_exit_main, input_cmdlist, incoming_frames>>
  BY DEF HandleOutgoing
<1>2. PICK m \in 0 .. Len(buf) :
        /\ FillCount(h, buf, Cardinality(Free), waiting, m)
        /\ outgoing_frames' = [outgoing_frames EXCEPT ![h] =
               @ \o x \o y \o SubSeq(buf, 1, m)]
        /\ buffered_outframes' = [buffered_outframes EXCEPT ![h] = rest(m)]
        /\ send_window' = [send_window EXCEPT ![h] = w2(m)]
        /\ active' = [active EXCEPT ![h] = Busy(w2(m), rest(m))]
  BY Zenon DEF HandleOutgoing
<1>3. /\ w \in [Slots -> Frame \cup {NoFrame}] /\ buf \in Seq(Frame)
      /\ send_window \in [Hosts -> [Slots -> Frame \cup {NoFrame}]]
      /\ buffered_outframes \in [Hosts -> Seq(Frame)]
  BY DEF TypeInv, TypeOK, SenderTypeOK
<1>4. Fast \subseteq Occupied(w) /\ Late \subseteq Occupied(w)
  BY DEF FastRetransmit, TimedOut
<1>5. ASSUME NEW S \in SUBSET Occupied(w)
      PROVE  LET z == [i \in DOMAIN Ascending(S) |-> w[Ascending(S)[i]]]
             IN  z \in Seq(Frame) /\ ElementsOf(z) \subseteq Contents(w)
  <2>1. S \subseteq Slots
    BY DEF Occupied
  <2>2. Cardinality(S) \in Nat /\ Ascending(S) \in [1 .. Cardinality(S) -> S]
    BY <2>1, AscendingType
  <2>3. \A i \in 1 .. Cardinality(S) :
          Ascending(S)[i] \in Occupied(w) /\ w[Ascending(S)[i]] \in Frame
    BY <1>3, <2>2, WindowFrames
  <2> DEFINE z == [i \in DOMAIN Ascending(S) |-> w[Ascending(S)[i]]]
  <2> HIDE DEF w
  <2>4. DOMAIN z = 1 .. Cardinality(S) /\ \A i \in DOMAIN z : z[i] = w[Ascending(S)[i]]
    BY <2>2
  <2>5. z \in Seq(Frame)
    BY <2>2, <2>3
  <2> HIDE DEF z
  <2>6. ElementsOf(z) \subseteq Contents(w)
    BY <2>3, <2>4 DEF ElementsOf, Contents
  <2> QED BY <2>5, <2>6 DEF z
<1>6. /\ x \in Seq(Frame) /\ ElementsOf(x) \subseteq Contents(w)
      /\ y \in Seq(Frame) /\ ElementsOf(y) \subseteq Contents(w)
  BY Zenon, <1>4, <1>5
<1>7. m <= Cardinality(Free)
  BY <1>2 DEF FillCount
<1>8. w2(m) = Filled(w, buf, m, free)
  BY DEF Filled
<1>9. active' = [active EXCEPT ![h] = Busy(send_window'[h], buffered_outframes'[h])]
  <2> HIDE DEF w2, rest
  <2>1. send_window'[h] = w2(m) /\ buffered_outframes'[h] = rest(m)
    BY <1>2, <1>3
  <2> QED BY <1>2, <2>1
<1>10. Emission(h, m, x, y)
  <2> HIDE DEF x, y, w2, free
  <2>1. /\ outgoing_frames' =
             [outgoing_frames EXCEPT ![h] = ((@ \o x) \o y) \o SubSeq(buf, 1, m)]
        /\ buffered_outframes' =
             [buffered_outframes EXCEPT ![h] = SubSeq(buf, m + 1, Len(buf))]
    BY <1>2
  <2>2. send_window' = [send_window EXCEPT ![h] = Filled(w, buf, m, Ascending(Free))]
    BY <1>2, <1>8 DEF free
  <2> QED BY <1>2, <1>6, <1>7, <1>9, <2>1, <2>2 DEF Emission
<1> QED BY <1>1, <1>10

\* The frames that a host holds are its data frames.
LEMMA OwnFrames ==
  ASSUME OneWayTraffic, Inv, NEW h \in Hosts
  PROVE  /\ \A q \in Occupied(send_window[h]) :
              LET f == send_window[h][q]
              IN  f \in Frame /\ f.is_ack = 0 /\ f.src_id = h /\ <<h, f.dst_id>> \in Pairs
         /\ \A i \in 1 .. Len(buffered_outframes[h]) :
              LET f == buffered_outframes[h][i]
              IN  f \in Frame /\ f.is_ack = 0 /\ f.src_id = h /\ <<h, f.dst_id>> \in Pairs
<1>1. TypeInv /\ Routing
  BY DEF Inv
<1>2. /\ send_window[h] \in [Slots -> Frame \cup {NoFrame}]
      /\ buffered_outframes[h] \in Seq(Frame)
  BY <1>1, HostTypes
<1>3. ASSUME NEW x, <<h, x>> \in Pairs
      PROVE  /\ \A q \in Occupied(send_window[h]) : DataOf(h, x, send_window[h][q])
             /\ \A i \in 1 .. Len(buffered_outframes[h]) :
                  DataOf(h, x, buffered_outframes[h][i])
  <2>1. Reached(h, x)
    BY <1>3 DEF Inv
  <2>2. PICK a, g, t, n \in Nat : Progress(h, x, a, g, t, n)
    BY <2>1 DEF Reached
  <2>3. SenderOK(h, x, a, t, n)
    BY <2>2 DEF Progress
  <2>4. /\ WindowOK(h, x, issued[h][x], send_window[h], a, t)
        /\ BufferOK(h, x, issued[h][x], buffered_outframes[h], t, n)
    BY <2>3 DEF SenderOK
  <2> QED BY <2>4 DEF WindowOK, BufferOK, Genuine
<1>4. ASSUME NEW q \in Occupied(send_window[h])
      PROVE  LET f == send_window[h][q]
             IN  f \in Frame /\ f.is_ack = 0 /\ f.src_id = h /\ <<h, f.dst_id>> \in Pairs
  <2>1. send_window[h][q] \in Frame
    BY <1>2, WindowFrames
  <2>2. <<h, send_window[h][q].dst_id>> \in Pairs
    BY <1>1 DEF Routing
  <2>3. DataOf(h, send_window[h][q].dst_id, send_window[h][q])
    BY <1>3, <2>2
  <2> QED BY <2>1, <2>2, <2>3 DEF DataOf
<1>5. ASSUME NEW i \in 1 .. Len(buffered_outframes[h])
      PROVE  LET f == buffered_outframes[h][i]
             IN  f \in Frame /\ f.is_ack = 0 /\ f.src_id = h /\ <<h, f.dst_id>> \in Pairs
  <2>1. buffered_outframes[h][i] \in Frame
    BY <1>2
  <2>2. buffered_outframes[h][i] \in ElementsOf(buffered_outframes[h])
    BY <1>2 DEF ElementsOf
  <2>3. <<h, buffered_outframes[h][i].dst_id>> \in Pairs
    BY <1>1, <2>2 DEF Routing
  <2>4. DataOf(h, buffered_outframes[h][i].dst_id, buffered_outframes[h][i])
    BY <1>3, <2>3
  <2> QED BY <2>1, <2>3, <2>4 DEF DataOf
<1> QED BY <1>4, <1>5

\* Frames that may follow any other at the end of a line.
LEMMA LineFresh ==
  ASSUME NEW p \in Seq(Frame), NEW q \in Seq(Frame), NEW r \in Seq(Frame), NEW G, NEW R,
         Line(G, R, p, q, r), NEW F, F \subseteq G, \A e \in G, f \in F : <<e, f>> \in R,
         NEW new \in Seq(Frame), ElementsOf(new) \subseteq F
  PROVE  Line(G, R, p, q, r \o new)
<1>1. Sorted(new, R)
  <2>1. \A i \in DOMAIN new : new[i] \in F
    BY DEF ElementsOf
  <2> QED BY <2>1 DEF Sorted
<1>2. ElementsOf(new) \subseteq G
  OBVIOUS
<1>3. \A x \in ElementsOf(p) \cup ElementsOf(q) \cup ElementsOf(r),
         y \in ElementsOf(new) : <<x, y>> \in R
  BY DEF Line
<1> QED BY <1>1, <1>2, <1>3, LineExtend

LEMMA LineFreshThree ==
  ASSUME NEW p \in Seq(Frame), NEW q \in Seq(Frame), NEW r \in Seq(Frame), NEW G, NEW R,
         Line(G, R, p, q, r), NEW F, F \subseteq G, \A e \in G, f \in F : <<e, f>> \in R,
         NEW x \in Seq(Frame), NEW y \in Seq(Frame), NEW z \in Seq(Frame),
         ElementsOf(x) \subseteq F, ElementsOf(y) \subseteq F, ElementsOf(z) \subseteq F
  PROVE  Line(G, R, p, q, ((r \o x) \o y) \o z)
<1>1. r \o x \in Seq(Frame) /\ (r \o x) \o y \in Seq(Frame)
  BY ConcatFacts
<1>2. Line(G, R, p, q, r \o x)
  BY LineFresh
<1>3. Line(G, R, p, q, (r \o x) \o y)
  BY <1>1, <1>2, LineFresh
<1> QED BY <1>1, <1>3, LineFresh

LEMMA LineNeutralThree ==
  ASSUME NEW p \in Seq(Frame), NEW q \in Seq(Frame), NEW r \in Seq(Frame), NEW G, NEW R,
         Line(G, R, p, q, r), NEW F, \A f \in F : Neutral(f, G, R),
         NEW x \in Seq(Frame), NEW y \in Seq(Frame), NEW z \in Seq(Frame),
         ElementsOf(x) \subseteq F, ElementsOf(y) \subseteq F, ElementsOf(z) \subseteq F
  PROVE  Line(G, R, p, q, ((r \o x) \o y) \o z)
<1>1. r \o x \in Seq(Frame) /\ (r \o x) \o y \in Seq(Frame)
  BY ConcatFacts
<1>2. /\ \A f \in ElementsOf(x) : Neutral(f, G, R)
      /\ \A f \in ElementsOf(y) : Neutral(f, G, R)
      /\ \A f \in ElementsOf(z) : Neutral(f, G, R)
  OBVIOUS
<1>3. Line(G, R, p, q, r \o x)
  BY <1>2, LineExtendNeutral
<1>4. Line(G, R, p, q, (r \o x) \o y)
  BY <1>1, <1>2, <1>3, LineExtendNeutral
<1> QED BY <1>1, <1>2, <1>4, LineExtendNeutral

LEMMA FirstElements ==
  ASSUME NEW b \in Seq(Frame), NEW m \in 0 .. Len(b)
  PROVE  SubSeq(b, 1, m) \in Seq(Frame) /\ ElementsOf(SubSeq(b, 1, m)) = {b[k] : k \in 1 .. m}
<1>1. /\ SubSeq(b, 1, m) \in Seq(Frame) /\ Len(SubSeq(b, 1, m)) = m
      /\ \A k \in 1 .. m : SubSeq(b, 1, m)[k] = b[k]
  OBVIOUS
<1>2. DOMAIN SubSeq(b, 1, m) = 1 .. m
  BY <1>1
<1> QED BY <1>1, <1>2 DEF ElementsOf

\* The frames of the window may be sent at any time, after whatever is under way.
LEMMA WindowFresh ==
  ASSUME NEW s, NEW d, NEW M, NEW w \in [Slots -> Frame \cup {NoFrame}], NEW a \in Nat,
         NEW g \in Nat, NEW t \in Nat, g <= t, t <= a + window_size, WindowOK(s, d, M, w, a, t),
         NEW v \in [Slots -> Frame \cup {NoFrame}],
         \A q \in Occupied(v) : v[q].data <= t
  PROVE  /\ Contents(w) \subseteq DataFrames(s, d, M, v, g, t)
         /\ \A e \in DataFrames(s, d, M, v, g, t), f \in Contents(w) :
              <<e, f>> \in DataOrder(s, d)
<1> DEFINE F == Contents(w)
           G == DataFrames(s, d, M, v, g, t)
<1>1. window_size \in Nat
  BY ConfigAssumption
<1>2. \A f \in F : /\ f \in Frame /\ f.data \in Nat
                   /\ a < f.data /\ f.data <= t /\ Genuine(s, d, M, f)
  <2>1. \A q \in Occupied(w) : w[q] \in Frame /\ w[q].data \in Nat
    BY WindowFrames DEF Frame
  <2> QED BY <2>1 DEF WindowOK, Contents
<1>3. \A f \in F : g < f.data + window_size /\ t < f.data + window_size
  BY <1>1, <1>2
<1>4. \A q \in Occupied(v) : v[q].data \in Nat
  BY WindowFrames DEF Frame
<1>5. F \subseteq G
  <2> SUFFICES ASSUME NEW f \in F PROVE f \in G
    OBVIOUS
  <2> HIDE DEF F
  <2>1. \A q \in Occupied(v) : v[q].data < f.data + window_size
    <3>1. f.data \in Nat /\ t < f.data + window_size
      BY <1>2, <1>3
    <3> QED BY <1>1, <1>4, <3>1
  <2> QED BY <1>2, <1>3, <2>1 DEF DataFrames
<1>6. ASSUME NEW e \in G, NEW f \in F PROVE <<e, f>> \in DataOrder(s, d)
  <2>1. e \in Frame /\ e.data \in Nat /\ (DataOf(s, d, e) => e.data <= t)
    BY DEF DataFrames, Frame
  <2>2. f \in Frame /\ f.data \in Nat /\ t < f.data + window_size
    BY <1>2, <1>3
  <2> HIDE DEF F, G
  <2>3. DataOf(s, d, e) => e.data < f.data + window_size
    BY <1>1, <2>1, <2>2
  <2> QED BY <2>1, <2>2, <2>3 DEF DataOrder
<1> QED BY <1>5, <1>6

LEMMA HandleOutgoingReach ==
  ASSUME NEW s, NEW d, NEW a, NEW g, NEW t, NEW n, At(s, d, a, g, t, n),
         NEW h \in Hosts, HandleOutgoing(h)
  PROVE  Reached(s, d)'
<1>1. /\ OneWayTraffic /\ TypeInv /\ s \in Hosts /\ d \in Hosts /\ s # d
      /\ window_size <= HALF_SEQ_NUM
  BY AtPair
<1>2. /\ a \in Nat /\ g \in Nat /\ t \in Nat /\ n \in Nat /\ a <= g /\ g <= t /\ t <= n
      /\ t <= a + window_size
  BY AtCounts
<1>3. /\ stage = "senders" /\ cur = h /\ cur' = NoHost
      /\ UNCHANGED <<stage, todo, LAR, LFS, receiverVars, switchVars,
                     historyVars, glb_exit_main, input_cmdlist, incoming_frames>>
  BY <1>1, OutgoingStep
<1>4. PICK m, x, y : Emission(h, m, x, y)
  BY <1>1, OutgoingStep
<1>5. UNCHANGED <<LAR, LFS, delivery, NFE, receive_window, emptyCharArray, printed, ingress,
                  issued, typed, input_cmdlist, incoming_frames>>
  BY <1>3 DEF receiverVars, switchVars, historyVars
<1> DEFINE w == send_window[h]
           b == buffered_outframes[h]
           z == SubSeq(b, 1, m)
           free == Ascending(Slots \ Occupied(w))
           v == Filled(w, b, m, free)
<1>6. /\ x \in Seq(Frame) /\ y \in Seq(Frame) /\ m \in 0 .. Len(b)
      /\ ElementsOf(x) \cup ElementsOf(y) \subseteq Contents(w)
      /\ m <= Cardinality(Slots \ Occupied(w))
  BY <1>4 DEF Emission
<1>7. /\ outgoing_frames' = [outgoing_frames EXCEPT ![h] = ((@ \o x) \o y) \o z]
      /\ buffered_outframes' = [buffered_outframes EXCEPT ![h] = SubSeq(b, m + 1, Len(b))]
      /\ send_window' = [send_window EXCEPT ![h] = v]
  BY <1>4 DEF Emission
<1>8. /\ w \in [Slots -> Frame \cup {NoFrame}] /\ b \in Seq(Frame)
      /\ send_window \in [Hosts -> [Slots -> Frame \cup {NoFrame}]]
      /\ buffered_outframes \in [Hosts -> Seq(Frame)]
      /\ outgoing_frames \in [Hosts -> Seq(Frame)]
      /\ outgoing_frames[s] \in Seq(Frame) /\ outgoing_frames[d] \in Seq(Frame)
      /\ incoming_frames[s] \in Seq(Frame) /\ incoming_frames[d] \in Seq(Frame)
      /\ ingress[d] \in Seq(Frame) /\ <<>> \in Seq(Frame)
  BY <1>1, HostTypes, QueueTypes DEF TypeInv, TypeOK, SenderTypeOK
<1>9. z \in Seq(Frame) /\ ElementsOf(z) = {b[k] : k \in 1 .. m}
  BY <1>6, <1>8, FirstElements
<1>10. Consecutive(issued'[s][d], typed'[s][d])
  BY <1>5, AtParts
<1>11. delivery = NotDelivering
  BY <1>1, <1>3, DeliveryStage
<1>12. AckLineOK(s, d, a, g)'
  <2> DEFINE G == AckFrames(s, d, a, g)
             R == AckOrder(s, d, a)
             F == {f \in Frame : f.is_ack = 0}
  <2>1. Line(G, R, incoming_frames[s], <<>>, outgoing_frames[d])
    BY AtParts DEF AckLineOK
  <2>2. Inv
    BY DEF At
  <2>8. /\ \A q \in Occupied(w) : w[q] \in Frame /\ w[q].is_ack = 0
        /\ \A k \in 1 .. Len(b) : b[k] \in Frame /\ b[k].is_ack = 0
    BY Zenon, <1>1, <2>2, OwnFrames
  <2>3. ElementsOf(x) \subseteq F /\ ElementsOf(y) \subseteq F
    BY <1>6, <2>8 DEF Contents
  <2>4. ElementsOf(z) \subseteq F
    <3>1. \A k \in 1 .. m : k \in 1 .. Len(b)
      BY <1>6, <1>8
    <3> QED BY <1>9, <2>8, <3>1
  <2>5. \A f \in F : Neutral(f, G, R)
    BY AckNeutral DEF AckOf
  <2>6. Line(G, R, incoming_frames[s], <<>>, ((outgoing_frames[d] \o x) \o y) \o z)
    <3> HIDE DEF G, R, F, z
    <3> QED BY <1>6, <1>8, <1>9, <2>1, <2>3, <2>4, <2>5, LineNeutralThree
  <2>7. Line(G, R, incoming_frames[s], <<>>, outgoing_frames'[d])
    <3> HIDE DEF G, R, F, z
    <3> QED BY <1>1, <1>7, <1>8, <2>1, <2>6
  <2> QED BY <1>5, <2>7 DEF AckLineOK
<1>13. CASE h # s
  <2>1. /\ buffered_outframes'[s] = buffered_outframes[s] /\ send_window'[s] = send_window[s]
        /\ outgoing_frames'[s] = outgoing_frames[s]
    <3> HIDE DEF v, z, b
    <3> QED BY <1>1, <1>7, <1>8, <1>13
  <2>2. SenderOK(s, d, a, t, n)'
    BY <1>5, <2>1, AtParts, SenderSame
  <2>3. ReceiverOK(s, d, g, t)'
    BY <1>5, <1>11, AtParts, ReceiverSame
  <2>4. DataLineOK(s, d, g, t)'
    BY <1>5, <2>1, AtParts DEF DataLineOK
  <2> QED BY <1>2, <1>10, <1>12, <2>2, <2>3, <2>4, Reach
<1>14. CASE h = s
  <2> DEFINE M == issued[s][d]
             u == t + m
  <2>1. /\ LAR[s][d] = uint8(a - 1) /\ LFS[s][d] = uint8(n - 1)
        /\ CommandsOK(d, M, input_cmdlist[s], n)
        /\ BufferOK(s, d, M, b, t, n) /\ WindowOK(s, d, M, w, a, t)
    BY <1>14, AtParts DEF SenderOK
  <2>2. /\ \A k \in 1 .. m : free[k] \in Slots \ Occupied(w)
        /\ \A j, k \in 1 .. m : free[j] = free[k] => j = k
    <3> DEFINE S == Slots \ Occupied(w)
    <3>1. /\ Cardinality(S) \in Nat
          /\ Ascending(S) \in [1 .. Cardinality(S) -> S]
          /\ \A j, k \in 1 .. Cardinality(S) : Ascending(S)[j] = Ascending(S)[k] => j = k
      BY AscendingType
    <3>2. m \in Nat /\ \A k \in 1 .. m : k \in 1 .. Cardinality(S)
      BY <1>6, <1>8, <3>1
    <3> QED BY <3>1, <3>2
  <2> HIDE DEF M, free
  <2>3. /\ WindowOK(s, d, M, v, a, u) /\ BufferOK(s, d, M, SubSeq(b, m + 1, Len(b)), u, n)
        /\ \A k \in 1 .. m : \E q \in Occupied(v) : b[k] = v[q]
        /\ \A q \in Occupied(w) : q \in Occupied(v) /\ v[q] = w[q]
    <3>1. a <= t /\ a \in Nat /\ t \in Nat /\ n \in Nat
      BY <1>2
    <3>2. m \in 0 .. Len(b)
      BY <1>6
    <3>3. WindowOK(s, d, M, w, a, t) /\ BufferOK(s, d, M, b, t, n)
      BY <2>1
    <3>4. w \in [Slots -> Frame \cup {NoFrame}] /\ b \in Seq(Frame)
      BY <1>8
    <3>5. FreeSlots(w, m, free)
      BY <2>2 DEF FreeSlots
    <3> HIDE DEF w, b
    <3>6. Filling(s, d, M, w, b, a, t, n, m, free)
      BY <3>1, <3>2, <3>3, <3>4, <3>5 DEF Filling
    <3> QED BY <3>6, WindowFill
  <2>4. u \in Nat /\ t <= u /\ a <= u
    BY <1>2, <1>6, <1>8
  <2>5. /\ send_window'[s] = v /\ buffered_outframes'[s] = SubSeq(b, m + 1, Len(b))
        /\ outgoing_frames'[s] = ((outgoing_frames[s] \o x) \o y) \o z
    <3> HIDE DEF v, z, b
    <3> QED BY <1>1, <1>7, <1>8, <1>14
  <2>6. v \in [Slots -> Frame \cup {NoFrame}]
    <3>1. TypeInv'
      BY <1>1, HandleOutgoingType
    <3>2. send_window' \in [Hosts -> [Slots -> Frame \cup {NoFrame}]]
      BY <3>1 DEF TypeInv, TypeOK, SenderTypeOK
    <3> QED BY <1>1, <2>5, <3>2
  <2> HIDE DEF v, u
  <2>7. u <= a + window_size
    BY <1>2, <2>3, <2>4, <2>6, WindowBound
  <2>8. u <= n
    <3>1. n = t + Len(b)
      BY <2>1 DEF BufferOK
    <3> QED BY <1>2, <1>6, <1>8, <3>1 DEF u
  <2>9. SenderOK(s, d, a, u, n)'
    <3>1. issued'[s][d] = M
      BY <1>5 DEF M
    <3> QED BY <1>5, <2>1, <2>3, <2>5, <3>1 DEF SenderOK, u
  <2>10. /\ NFE[d][s] = uint8(g) /\ Delivered(s, d) = 1 .. g
         /\ PrintedOK(M, printed[d][s], emptyCharArray[d][s], g)
         /\ StoreOK(s, d, M, receive_window[d][s], g, t)
    BY AtParts DEF ReceiverOK, M
  <2>11. receive_window[d][s] \in [Slots -> Frame \cup {NoFrame}]
    BY <1>1, HostTypes
  <2>12. /\ StoreOK(s, d, M, receive_window[d][s], g, u)
         /\ \A q \in Occupied(receive_window[d][s]) : receive_window[d][s][q].data <= u
    <3>1. \A q \in Occupied(receive_window[d][s]) : receive_window[d][s][q].data \in Nat
      BY <2>11, WindowFrames DEF Frame
    <3>2. \A q \in Occupied(receive_window[d][s]) : receive_window[d][s][q].data <= t
      BY <2>10 DEF StoreOK
    <3>3. \A q \in Occupied(receive_window[d][s]) : receive_window[d][s][q].data <= u
      BY <1>2, <2>4, <3>1, <3>2
    <3> QED BY <2>10, <3>3 DEF StoreOK
  <2>13. ReceiverOK(s, d, g, u)'
    <3>1. issued'[s][d] = M
      BY <1>5 DEF M
    <3>2. Delivered(s, d)' = 1 .. g
      BY <1>5, <2>10 DEF Delivered
    <3> QED BY <1>5, <1>11, <2>10, <2>12, <3>1, <3>2 DEF ReceiverOK
  <2>14. DataLineOK(s, d, g, u)'
    <3> DEFINE F == Contents(v)
               G == DataFrames(s, d, M, receive_window[d][s], g, t)
               H == DataFrames(s, d, M, receive_window[d][s], g, u)
               R == DataOrder(s, d)
               p == incoming_frames[d]
               o == outgoing_frames[s]
    <3>1. Line(G, R, p, ingress[d], o)
      BY AtParts DEF DataLineOK, M
    <3>2. \A f \in ElementsOf(p) \cup ElementsOf(ingress[d]) \cup ElementsOf(o) : f \in G => f \in H
      <4>1. \A f \in Frame : f.data \in Nat /\ (f.data <= t => f.data <= u)
        BY <1>2, <2>4 DEF Frame
      <4> QED BY <4>1 DEF DataFrames
    <3>3. F \subseteq H /\ \A e \in H, f \in F : <<e, f>> \in R
      <4>1. g <= u
        BY <1>2, <2>4
      <4>2. a \in Nat /\ g \in Nat /\ WindowOK(s, d, M, v, a, u)
        BY <1>2, <2>3
      <4>3. \A q \in Occupied(receive_window[d][s]) : receive_window[d][s][q].data <= u
        BY <2>12
      <4> QED BY Zenon, <2>4, <2>6, <2>7, <2>11, <4>1, <4>2, <4>3, WindowFresh
    <3>4. ElementsOf(x) \subseteq F /\ ElementsOf(y) \subseteq F
      BY <1>6, <2>3 DEF Contents
    <3>5. ElementsOf(z) \subseteq F
      BY <1>9, <2>3 DEF Contents
    <3> HIDE DEF F, G, H, R, p, o, z
    <3>6. Line(H, R, p, ingress[d], o)
      BY <3>1, <3>2, LineGoods
    <3>7. p \in Seq(Frame) /\ o \in Seq(Frame)
      BY <1>8 DEF p, o
    <3>8. Line(H, R, p, ingress[d], ((o \o x) \o y) \o z)
      BY <1>6, <1>8, <1>9, <3>3, <3>4, <3>5, <3>6, <3>7, LineFreshThree
    <3>9. issued'[s][d] = M /\ incoming_frames'[d] = p /\ ingress'[d] = ingress[d]
          /\ outgoing_frames'[s] = ((o \o x) \o y) \o z
          /\ receive_window'[d][s] = receive_window[d][s]
      BY <1>5, <2>5 DEF M, p, o
    <3> QED BY <3>8, <3>9 DEF DataLineOK, H, R, u
  <2>15. g <= u
    BY <1>2, <2>4
  <2> QED BY <1>2, <1>10, <1>12, <2>4, <2>8, <2>9, <2>13, <2>14, <2>15, Reach
<1> QED BY <1>13, <1>14

-----------------------------------------------------------------------------
(* The receivers: a step of host h may pop a frame and answer with e. *)

Answering(h, e) ==
  /\ h \in Hosts /\ e \in Frame /\ e.is_ack = 1
  /\ \/ incoming_frames' = incoming_frames
     \/ /\ incoming_frames[h] # <<>>
        /\ incoming_frames' = [incoming_frames EXCEPT ![h] = Tail(@)]
  /\ \/ outgoing_frames' = outgoing_frames
     \/ outgoing_frames' = [outgoing_frames EXCEPT ![h] = Append(@, e)]
  /\ ingress' = ingress

LEMMA AnswerData ==
  ASSUME NEW s, NEW d, NEW a, NEW g, NEW t, NEW n, At(s, d, a, g, t, n),
         NEW h, NEW e, Answering(h, e)
  PROVE  Line(DataFrames(s, d, issued[s][d], receive_window[d][s], g, t), DataOrder(s, d),
              incoming_frames'[d], ingress'[d], outgoing_frames'[s])
<1> DEFINE G == DataFrames(s, d, issued[s][d], receive_window[d][s], g, t)
           R == DataOrder(s, d)
<1>1. TypeInv /\ s \in Hosts /\ d \in Hosts /\ h \in Hosts /\ e \in Frame
  BY AtPair DEF Answering
<1>2. /\ incoming_frames \in [Hosts -> Seq(Frame)] /\ outgoing_frames \in [Hosts -> Seq(Frame)]
      /\ ingress[d] \in Seq(Frame) /\ incoming_frames[d] \in Seq(Frame)
      /\ outgoing_frames[s] \in Seq(Frame)
  BY <1>1, HostTypes, QueueTypes
<1>3. Line(G, R, incoming_frames[d], ingress[d], outgoing_frames[s])
  BY AtParts DEF DataLineOK
<1>4. Neutral(e, G, R)
  BY <1>1, DataNeutral DEF DataOf, Answering
<1> HIDE DEF G, R
<1>5. Line(G, R, incoming_frames[d], ingress[d], outgoing_frames'[s])
  BY <1>1, <1>2, <1>3, <1>4, MixAny DEF Answering
<1>6. outgoing_frames'[s] \in Seq(Frame)
  <2>1. [outgoing_frames EXCEPT ![h] = Append(@, e)] \in [Hosts -> Seq(Frame)]
    BY <1>1, <1>2, AppendType
  <2>2. \/ outgoing_frames' = outgoing_frames
        \/ outgoing_frames' = [outgoing_frames EXCEPT ![h] = Append(@, e)]
    BY DEF Answering
  <2>3. outgoing_frames' \in [Hosts -> Seq(Frame)]
    BY Zenon, <1>2, <2>1, <2>2
  <2> QED BY <1>1, <2>3
<1>7. Line(G, R, incoming_frames'[d], ingress[d], outgoing_frames'[s])
  BY <1>1, <1>2, <1>5, <1>6, PopAny DEF Answering
<1> QED BY <1>7 DEF Answering, G, R

LEMMA AnswerOther ==
  ASSUME NEW s, NEW d, NEW a, NEW g, NEW t, NEW n, At(s, d, a, g, t, n),
         NEW h, NEW e, Answering(h, e), h # d \/ e.dst_id # s
  PROVE  AckLineOK(s, d, a, g)'
<1> DEFINE G == AckFrames(s, d, a, g)
           R == AckOrder(s, d, a)
<1>1. TypeInv /\ s \in Hosts /\ d \in Hosts /\ h \in Hosts /\ e \in Frame
  BY AtPair DEF Answering
<1>2. /\ incoming_frames \in [Hosts -> Seq(Frame)] /\ outgoing_frames \in [Hosts -> Seq(Frame)]
      /\ <<>> \in Seq(Frame) /\ incoming_frames[s] \in Seq(Frame)
      /\ outgoing_frames[d] \in Seq(Frame)
  BY <1>1, HostTypes, QueueTypes
<1>3. Line(G, R, incoming_frames[s], <<>>, outgoing_frames[d])
  BY AtParts DEF AckLineOK
<1>4. d = h => Neutral(e, G, R)
  BY <1>1, AckNeutral DEF AckOf
<1> HIDE DEF G, R
<1>5. Line(G, R, incoming_frames[s], <<>>, outgoing_frames'[d])
  BY <1>1, <1>2, <1>3, <1>4, MixAny DEF Answering
<1>6. outgoing_frames'[d] \in Seq(Frame)
  <2>1. [outgoing_frames EXCEPT ![h] = Append(@, e)] \in [Hosts -> Seq(Frame)]
    BY <1>1, <1>2, AppendType
  <2>2. \/ outgoing_frames' = outgoing_frames
        \/ outgoing_frames' = [outgoing_frames EXCEPT ![h] = Append(@, e)]
    BY DEF Answering
  <2>3. outgoing_frames' \in [Hosts -> Seq(Frame)]
    BY Zenon, <1>2, <2>1, <2>2
  <2> QED BY <1>1, <2>3
<1>7. Line(G, R, incoming_frames'[s], <<>>, outgoing_frames'[d])
  BY <1>1, <1>2, <1>5, <1>6, PopAny DEF Answering
<1> QED BY <1>7 DEF AckLineOK, G, R

\* The receiver of the pair acknowledges the first c pieces.
LEMMA AnswerPair ==
  ASSUME NEW s, NEW d, NEW a, NEW g, NEW t, NEW n, At(s, d, a, g, t, n),
         NEW e, Answering(d, e), NEW c \in Nat, g <= c, c <= g + 1, e.ack_num = uint8(c - 1),
         outgoing_frames' = [outgoing_frames EXCEPT ![d] = Append(@, e)]
  PROVE  AckLineOK(s, d, a, c)'
<1>1. /\ TypeInv /\ s \in Hosts /\ d \in Hosts /\ s # d /\ e \in Frame
      /\ window_size <= HALF_SEQ_NUM
  BY AtPair DEF Answering
<1>2. /\ outgoing_frames \in [Hosts -> Seq(Frame)] /\ incoming_frames \in [Hosts -> Seq(Frame)]
      /\ incoming_frames[s] \in Seq(Frame) /\ outgoing_frames[d] \in Seq(Frame)
  BY <1>1, HostTypes, QueueTypes
<1>3. Line(AckFrames(s, d, a, g), AckOrder(s, d, a), incoming_frames[s], <<>>, outgoing_frames[d])
  BY AtParts DEF AckLineOK
<1>4. a \in Nat /\ g \in Nat /\ a <= g /\ g <= a + window_size
  BY AtCounts, ConfigAssumption
<1>5. a \in Int /\ g \in Int /\ c \in Int /\ a <= c /\ c <= a + MAX_SEQ_NUM
  <2>1. HALF_SEQ_NUM + 1 <= MAX_SEQ_NUM /\ HALF_SEQ_NUM \in Nat
    BY SeqNumAssumption DEF HALF_SEQ_NUM
  <2> QED BY <1>1, <1>4, <2>1, ConfigAssumption, SeqNumAssumption
<1>6. Acknowledges(a, e.ack_num) = c
  BY <1>5, AcknowledgesCount
<1>7. Line(AckFrames(s, d, a, c), AckOrder(s, d, a), incoming_frames[s], <<>>,
           Append(outgoing_frames[d], e))
  BY <1>1, <1>2, <1>3, <1>5, <1>6, AckAppend
<1>8. incoming_frames'[s] = incoming_frames[s]
  BY <1>1, <1>2 DEF Answering
<1>9. outgoing_frames'[d] = Append(outgoing_frames[d], e)
  BY <1>1, <1>2
<1> QED BY <1>7, <1>8, <1>9 DEF AckLineOK

\* The frame a receiver takes from its queue, and its answer to it.
LEMMA PoppedFrame ==
  ASSUME OneWayTraffic, TypeInv, Routing, NEW h \in Hosts, incoming_frames[h] # <<>>
  PROVE  LET f == Head(incoming_frames[h])
         IN  /\ f \in Frame /\ f \in ElementsOf(incoming_frames[h])
             /\ f.src_id \in Hosts /\ f.dst_id = h
             /\ f.is_ack \in {0, 1} /\ f.seq_num \in SeqNums /\ OnPair(f)
             /\ LastAck(h, f) \in Frame /\ LastAck(h, f).is_ack = 1
             /\ LastAck(h, f).src_id = h /\ LastAck(h, f).dst_id = f.src_id
             /\ LastAck(h, f).ack_num = uint8(NFE[h][f.src_id] - 1)
<1> DEFINE f == Head(incoming_frames[h])
<1>1. f \in Frame /\ f \in ElementsOf(incoming_frames[h]) /\ f.src_id \in Hosts
  BY HostTypes, QueuedType
<1>2. OnPair(f) /\ f.dst_id = h
  BY <1>1 DEF Routing
<1>3. f.is_ack \in {0, 1} /\ f.seq_num \in SeqNums
  BY <1>1 DEF Frame
<1> HIDE DEF f
<1>4. LastAck(h, f) = Ack(h, f.src_id, NFE[h][f.src_id] - 1)
  BY <1>2 DEF LastAck
<1>5. NFE[h][f.src_id] - 1 \in Int
  <2>1. NFE[h][f.src_id] \in SeqNums
    BY <1>1, HostTypes
  <2> QED BY <2>1 DEF SeqNums
<1>6. LastAck(h, f) \in Frame
  BY <1>1, <1>4, <1>5, AckType
<1>7. /\ LastAck(h, f).is_ack = 1 /\ LastAck(h, f).src_id = h
      /\ LastAck(h, f).dst_id = f.src_id
      /\ LastAck(h, f).ack_num = uint8(NFE[h][f.src_id] - 1)
  BY <1>4 DEF Ack
<1> QED BY <1>1, <1>2, <1>3, <1>6, <1>7 DEF f

\* The number of the last ack, of g delivered pieces.
LEMMA LastNumber ==
  ASSUME NEW g \in Nat
  PROVE  uint8(uint8(g) - 1) = uint8(g - 1) /\ uint8(uint8(g) + 1) = uint8(g + 1)
         /\ uint8(uint8(g)) = uint8(g)
<1>1. /\ uint8(uint8(g) + (-1)) = uint8(g + (-1)) /\ uint8(uint8(g) + 1) = uint8(g + 1)
      /\ uint8(uint8(g) + 0) = uint8(g + 0)
  <2>1. g \in Int /\ -1 \in Int /\ 1 \in Int /\ 0 \in Int
    OBVIOUS
  <2> QED BY Zenon, <2>1, Uint8Absorbs
<1>2. uint8(g) \in Int
  BY Uint8Type DEF SeqNums
<1>3. /\ uint8(g) + (-1) = uint8(g) - 1 /\ g + (-1) = g - 1
      /\ uint8(g) + 0 = uint8(g) /\ g + 0 = g
  BY <1>2
<1> QED BY <1>1, <1>3

LEMMA UnstoredReach ==
  ASSUME NEW s, NEW d, NEW a, NEW g, NEW t, NEW n, At(s, d, a, g, t, n),
         NEW h \in Hosts, Unstored(h)
  PROVE  Reached(s, d)'
<1> DEFINE f == Head(incoming_frames[h])
           e == LastAck(h, f)
<1>1. CASE f.is_ack = 1
  BY <1>1, CorruptedReach
<1>2. CASE f.is_ack # 1
  <2>1. /\ OneWayTraffic /\ TypeInv /\ Routing /\ s \in Hosts /\ d \in Hosts
    BY AtPair
  <2>2. /\ incoming_frames[h] # <<>> /\ delivery = NotDelivering
        /\ incoming_frames' = [incoming_frames EXCEPT ![h] = Tail(@)]
        /\ outgoing_frames' = [outgoing_frames EXCEPT ![h] = Append(@, e)]
    BY <1>2 DEF Unstored, Popping
  <2>3. UNCHANGED <<LAR, LFS, send_window, buffered_outframes, input_cmdlist, delivery,
                    NFE, receive_window, emptyCharArray, printed, issued, typed, ingress>>
    BY DEF Unstored, senderVars, receiverVars, switchVars, historyVars
  <2>4. /\ f \in Frame /\ e \in Frame /\ e.is_ack = 1
        /\ e.dst_id = f.src_id /\ e.ack_num = uint8(NFE[h][f.src_id] - 1)
    BY <2>1, <2>2, PoppedFrame
  <2> HIDE DEF e, f
  <2>5. Answering(h, e)
    BY <2>2, <2>3, <2>4 DEF Answering
  <2>6. SenderOK(s, d, a, t, n)'
    BY <2>3, AtParts, SenderSame
  <2>7. ReceiverOK(s, d, g, t)'
    BY <2>2, <2>3, AtParts, ReceiverSame
  <2>8. DataLineOK(s, d, g, t)'
    BY <2>3, <2>5, AnswerData DEF DataLineOK
  <2>9. AckLineOK(s, d, a, g)'
    <3>1. CASE h = d /\ f.src_id = s
      <4>1. PICK x : x = e
        OBVIOUS
      <4>2. g \in Nat /\ NFE[d][s] = uint8(g)
        BY AtCounts, AtParts DEF ReceiverOK
      <4>3. x.ack_num = uint8(g - 1)
        BY <2>4, <3>1, <4>1, <4>2, LastNumber
      <4>4. Answering(d, x) /\ outgoing_frames' = [outgoing_frames EXCEPT ![d] = Append(@, x)]
        BY <2>2, <2>5, <3>1, <4>1
      <4>5. g <= g /\ g <= g + 1
        BY <4>2
      <4> QED BY <4>2, <4>3, <4>4, <4>5, AnswerPair
    <3>2. CASE h # d \/ f.src_id # s
      <4>1. PICK x : x = e
        OBVIOUS
      <4> QED BY <2>4, <2>5, <3>2, <4>1, AnswerOther
    <3> QED BY <3>1, <3>2
  <2>10. Consecutive(issued'[s][d], typed'[s][d])
    BY <2>3, AtParts
  <2>11. a \in Nat /\ g \in Nat /\ t \in Nat /\ n \in Nat /\ a <= g /\ g <= t /\ t <= n
    BY AtCounts
  <2> QED BY <2>6, <2>7, <2>8, <2>9, <2>10, <2>11, Reach
<1> QED BY <1>1, <1>2

\* The receiver of the pair stores a frame of its sender.
LEMMA StorePair ==
  ASSUME NEW s, NEW d, NEW a, NEW g, NEW t, NEW n, At(s, d, a, g, t, n),
         Store(d), Head(incoming_frames[d]).src_id = s
  PROVE  ReceiverOK(s, d, g, t)' /\ DataLineOK(s, d, g, t)'
<1> DEFINE f    == Head(incoming_frames[d])
           slot == f.seq_num % window_size
           M    == issued[s][d]
           w    == receive_window[d][s]
           y    == [w EXCEPT ![slot] = f]
<1>1. /\ OneWayTraffic /\ TypeInv /\ Routing /\ s \in Hosts /\ d \in Hosts /\ s # d
      /\ window_size <= HALF_SEQ_NUM
  BY AtPair
<1>2. /\ incoming_frames[d] # <<>> /\ f.is_ack = 0 /\ InWindow(d, f)
      /\ incoming_frames' = [incoming_frames EXCEPT ![d] = Tail(@)]
      /\ receive_window' = [receive_window EXCEPT ![d][f.src_id][slot] = f]
      /\ delivery' = IF NFE[d][f.src_id] = f.seq_num
                     THEN [src_id |-> f.src_id, seq_num |-> f.seq_num,
                           pre_seq |-> f.seq_num - 1]
                     ELSE NotDelivering
      /\ outgoing_frames' = outgoing_frames
         \/ outgoing_frames' = [outgoing_frames EXCEPT ![d] = Append(@, LastAck(d, f))]
  BY DEF Store, Popping
<1>3. UNCHANGED <<NFE, emptyCharArray, printed, issued, ingress>>
  BY DEF Store, switchVars, historyVars
<1>4. /\ f \in Frame /\ f.src_id = s /\ f.dst_id = d /\ f.seq_num \in SeqNums
      /\ f \in ElementsOf(incoming_frames[d])
  BY <1>1, <1>2, PoppedFrame
<1>5. slot \in Slots
  BY <1>4, SlotOf
<1>6. /\ w \in [Slots -> Frame \cup {NoFrame}]
      /\ receive_window \in [Hosts -> [Hosts -> [Slots -> Frame \cup {NoFrame}]]]
  BY <1>1 DEF TypeInv, TypeOK, ReceiverTypeOK
<1> HIDE DEF f, slot
<1>7. receive_window'[d][s] = y
  BY <1>1, <1>2, <1>4, <1>6
<1>8. a \in Nat /\ g \in Nat /\ t \in Nat /\ a <= g /\ g <= t /\ t <= a + window_size
  BY AtCounts
<1>9. DataOf(s, d, f) /\ f \in DataFrames(s, d, M, w, g, t)
  <2>1. f \in DataFrames(s, d, M, w, g, t)
    BY <1>4, AtParts DEF DataLineOK, Line
  <2> QED BY <1>2, <1>4, <2>1 DEF DataOf
<1>10. NFE[d][s] = uint8(g) /\ StoreOK(s, d, M, w, g, t)
  BY AtParts DEF ReceiverOK
<1>11. /\ seq_num_diff(uint8(g), f.seq_num) = f.data - (g + 1)
       /\ uint8(g) = f.seq_num <=> f.data = g + 1
  <2> HIDE DEF M, w
  <2> QED BY <1>1, <1>8, <1>9, FlyingDistance
<1>12. Genuine(s, d, M, f) /\ f.data <= t /\ f.data \in Nat
  BY <1>4, <1>9 DEF DataFrames, Frame
<1>13. g < f.data /\ f.data <= g + window_size
  <2>1. f.data - (g + 1) >= 0 /\ f.data - (g + 1) < window_size
    BY <1>2, <1>4, <1>10, <1>11 DEF InWindow, Ahead
  <2> QED BY <1>8, <1>12, <2>1, ConfigAssumption
<1>14. StoreOK(s, d, M, y, g, t)
  <2> HIDE DEF M, w
  <2>1. StoreOK(s, d, M, [w EXCEPT ![f.seq_num % window_size] = f], g, t)
    BY <1>4, <1>6, <1>8, <1>10, <1>12, <1>13, StoreFrame
  <2> QED BY <2>1 DEF y, slot
<1>15. ASSUME delivery' # NotDelivering
       PROVE  DeliveringOK(y, uint8(g), delivery'.seq_num, g)
  <2>1. delivery'.seq_num = f.seq_num /\ f.seq_num = uint8(g) /\ f.data = g + 1
    BY <1>2, <1>4, <1>10, <1>11, <1>15
  <2>2. y[uint8(g) % window_size] = f
    BY <1>5, <1>6, <2>1 DEF slot
  <2>3. uint8(g) \in Int /\ uint8(g) <= uint8(g)
    BY <1>8, Uint8Type DEF SeqNums
  <2>4. g + window_size - (uint8(g) - uint8(g)) = g + window_size
    BY <1>8, <2>3, ConfigAssumption
  <2>5. \A q \in Occupied(y) : y[q].data <= g + window_size
    <3> HIDE DEF y
    <3> QED BY <1>14 DEF StoreOK
  <2> HIDE DEF y
  <2> QED BY <2>1, <2>2, <2>3, <2>4, <2>5 DEF DeliveringOK
<1>16. ReceiverOK(s, d, g, t)'
  <2>1. /\ NFE'[d][s] = uint8(g) /\ Delivered(s, d)' = 1 .. g
        /\ PrintedOK(issued'[s][d], printed'[d][s], emptyCharArray'[d][s], g)
    BY <1>3, AtParts DEF ReceiverOK, Delivered
  <2>2. StoreOK(s, d, issued'[s][d], receive_window'[d][s], g, t)
    BY <1>3, <1>7, <1>14
  <2>3. delivery' # NotDelivering =>
          DeliveringOK(receive_window'[d][s], NFE'[d][s], delivery'.seq_num, g)
    BY <1>7, <1>15, <2>1
  <2> QED BY <2>1, <2>2, <2>3 DEF ReceiverOK
<1>17. DataLineOK(s, d, g, t)'
  <2> DEFINE p == incoming_frames[d]
             r == outgoing_frames[s]
  <2>1. Line(DataFrames(s, d, M, w, g, t), DataOrder(s, d), p, ingress[d], r)
    BY AtParts DEF DataLineOK
  <2>2. /\ p \in Seq(Frame) /\ ingress[d] \in Seq(Frame) /\ r \in Seq(Frame)
        /\ incoming_frames \in [Hosts -> Seq(Frame)]
        /\ outgoing_frames \in [Hosts -> Seq(Frame)]
    BY <1>1, HostTypes, QueueTypes
  <2>3. p # <<>> /\ DataOf(s, d, Head(p))
    BY <1>2, <1>9 DEF f
  <2>4. Line(DataFrames(s, d, M, [w EXCEPT ![slot] = Head(p)], g, t), DataOrder(s, d),
             Tail(p), ingress[d], r)
    <3> HIDE DEF M, w, p, r
    <3> QED BY <1>5, <1>6, <2>1, <2>2, <2>3, LineStore
  <2>5. incoming_frames'[d] = Tail(p) /\ outgoing_frames'[s] = r /\ ingress'[d] = ingress[d]
    BY <1>1, <1>2, <1>3, <2>2
  <2>6. Line(DataFrames(s, d, M, y, g, t), DataOrder(s, d), Tail(p), ingress[d], r)
    BY <2>4 DEF f
  <2>7. issued'[s][d] = M
    BY <1>3
  <2> HIDE DEF M, y, p, r
  <2> QED BY <1>7, <2>5, <2>6, <2>7 DEF DataLineOK
<1> QED BY <1>16, <1>17

LEMMA StoreReach ==
  ASSUME NEW s, NEW d, NEW a, NEW g, NEW t, NEW n, At(s, d, a, g, t, n),
         NEW h \in Hosts, Store(h)
  PROVE  Reached(s, d)'
<1> DEFINE f    == Head(incoming_frames[h])
           e    == LastAck(h, f)
           next == NFE[h][f.src_id] = f.seq_num
<1>1. OneWayTraffic /\ TypeInv /\ Routing /\ s \in Hosts /\ d \in Hosts
  BY AtPair
<1>2. /\ incoming_frames[h] # <<>> /\ cur = h /\ f.is_ack = 0
      /\ incoming_frames' = [incoming_frames EXCEPT ![h] = Tail(@)]
      /\ receive_window' =
           [receive_window EXCEPT ![h][f.src_id][f.seq_num % window_size] = f]
      /\ cur' = NextVisit(h, next)
      /\ delivery' = IF next THEN [src_id |-> f.src_id, seq_num |-> f.seq_num,
                                   pre_seq |-> f.seq_num - 1]
                     ELSE NotDelivering
      /\ outgoing_frames' =
           IF next THEN outgoing_frames
           ELSE [outgoing_frames EXCEPT ![h] = Append(@, e)]
  BY DEF Store, Popping
<1>3. UNCHANGED <<LAR, LFS, send_window, buffered_outframes, input_cmdlist, NFE,
                  emptyCharArray, printed, issued, typed, ingress>>
  BY DEF Store, senderVars, switchVars, historyVars
<1>4. /\ f \in Frame /\ f.src_id \in Hosts /\ e \in Frame /\ e.is_ack = 1
      /\ e.dst_id = f.src_id /\ e.ack_num = uint8(NFE[h][f.src_id] - 1)
  BY <1>1, <1>2, PoppedFrame
<1> HIDE DEF e, f, next
<1>5. Answering(h, e)
  BY <1>2, <1>3, <1>4 DEF Answering
<1>6. SenderOK(s, d, a, t, n)' /\ Consecutive(issued'[s][d], typed'[s][d])
  BY <1>3, AtParts, SenderSame
<1>7. a \in Nat /\ g \in Nat /\ t \in Nat /\ n \in Nat /\ a <= g /\ g <= t /\ t <= n
  BY AtCounts
<1>8. PICK x : x = e
  OBVIOUS
<1>9. CASE h # d \/ f.src_id # s
  <2>1. receive_window'[d][s] = receive_window[d][s]
    <3>1. receive_window \in [Hosts -> [Hosts -> [Slots -> Frame \cup {NoFrame}]]]
      BY <1>1 DEF TypeInv, TypeOK, ReceiverTypeOK
    <3> QED BY <1>1, <1>2, <1>4, <1>9, <3>1
  <2>2. ~(delivery' # NotDelivering /\ cur' = d /\ delivery'.src_id = s)
    <3>1. cur' = d => h = d
      BY <1>1, <1>2, HostsFacts DEF NextVisit
    <3>2. delivery' # NotDelivering => delivery'.src_id = f.src_id
      BY <1>2
    <3> QED BY <1>9, <3>1, <3>2
  <2>3. ReceiverOK(s, d, g, t)'
    BY <1>3, <2>1, <2>2, AtParts, ReceiverSame
  <2>4. DataLineOK(s, d, g, t)'
    BY <1>3, <1>5, <2>1, AnswerData DEF DataLineOK
  <2>5. AckLineOK(s, d, a, g)'
    BY <1>4, <1>5, <1>8, <1>9, AnswerOther
  <2> QED BY <1>6, <1>7, <2>3, <2>4, <2>5, Reach
<1>10. CASE h = d /\ f.src_id = s
  <2>1. ReceiverOK(s, d, g, t)' /\ DataLineOK(s, d, g, t)'
    BY <1>10, StorePair DEF f
  <2>2. AckLineOK(s, d, a, g)'
    <3>1. NFE[d][s] = uint8(g)
      BY AtParts DEF ReceiverOK
    <3>2. CASE ~next
      <4>1. x.ack_num = uint8(g - 1)
        BY <1>4, <1>7, <1>8, <1>10, <3>1, LastNumber
      <4>2. Answering(d, x)
            /\ outgoing_frames' = [outgoing_frames EXCEPT ![d] = Append(@, x)]
        BY <1>2, <1>5, <1>8, <1>10, <3>2
      <4>3. g <= g /\ g <= g + 1
        BY <1>7
      <4> QED BY <1>7, <4>1, <4>2, <4>3, AnswerPair
    <3>3. CASE next
      <4>1. s # d /\ incoming_frames \in [Hosts -> Seq(Frame)]
        BY <1>1, AtPair, QueueTypes
      <4>2. incoming_frames'[s] = incoming_frames[s] /\ outgoing_frames'[d] = outgoing_frames[d]
        BY <1>1, <1>2, <1>10, <3>3, <4>1
      <4> QED BY <4>2, AtParts DEF AckLineOK
    <3> QED BY <3>2, <3>3
  <2> QED BY <1>6, <1>7, <2>1, <2>2, Reach
<1> QED BY <1>9, <1>10

-----------------------------------------------------------------------------
(* The delivery loop. *)

\* The pieces in what a receiver has printed and holds.
PiecesIn(messages, text) ==
  ElementsOf(text) \cup UNION {ElementsOf(m) : m \in ElementsOf(messages)}

Extends(new, text, k) ==
  /\ new \in Seq(Nat) /\ text \in Seq(Nat) /\ Len(new) = Len(text) + 1
  /\ \A i \in 1 .. Len(text) : new[i] = text[i]
  /\ new[Len(text) + 1] = k

LEMMA PiecesGrow ==
  ASSUME NEW messages \in Seq(Seq(Nat)), NEW text, NEW new, NEW k, Extends(new, text, k)
  PROVE  /\ PiecesIn(messages, new) = PiecesIn(messages, text) \cup {k}
         /\ PiecesIn(Append(messages, new), <<>>) = PiecesIn(messages, text) \cup {k}
<1> USE DEF Extends
<1>1. ElementsOf(new) = ElementsOf(text) \cup {k}
  <2>1. /\ Len(text) \in Nat /\ DOMAIN text = 1 .. Len(text)
        /\ DOMAIN new = 1 .. Len(text) + 1
    OBVIOUS
  <2>2. 1 .. Len(text) + 1 = 1 .. Len(text) \cup {Len(text) + 1}
    BY <2>1
  <2>3. ElementsOf(text) = {new[i] : i \in 1 .. Len(text)}
    BY <2>1 DEF ElementsOf
  <2>4. ElementsOf(new) = {new[i] : i \in 1 .. Len(text) \cup {Len(text) + 1}}
    BY <2>1, <2>2 DEF ElementsOf
  <2> QED BY <2>3, <2>4
<1>2. ElementsOf(Append(messages, new)) = ElementsOf(messages) \cup {new}
  BY ElementsAppend
<1>3. ElementsOf(<<>>) = {}
  BY ElementsEmpty
<1> QED BY <1>1, <1>2, <1>3 DEF PiecesIn

\* The receiver of the pair delivers the next piece.
LEMMA DeliverPair ==
  ASSUME NEW s, NEW d, NEW a, NEW g, NEW t, NEW n, At(s, d, a, g, t, n),
         Deliver(d), delivery.src_id = s
  PROVE  /\ g + 1 <= t /\ ReceiverOK(s, d, g + 1, t)'
         /\ DataLineOK(s, d, g + 1, t)' /\ AckLineOK(s, d, a, g + 1)'
<1> DEFINE M     == issued[s][d]
           w     == receive_window[d][s]
           u     == NFE[d][s]
           slot  == u % window_size
           f     == w[slot]
           first == delivery.seq_num
           old   == emptyCharArray[d][s]
           text  == Assemble(old, f)
           rest  == [w EXCEPT ![slot] = NoFrame]
           again == Deliverable(rest, uint8(u + 1), first)
<1>1. /\ TypeInv /\ s \in Hosts /\ d \in Hosts /\ s # d /\ window_size <= HALF_SEQ_NUM
  BY AtPair
<1>2. /\ cur = d /\ delivery # NotDelivering
      /\ receive_window' = [receive_window EXCEPT ![d][s] = rest]
      /\ printed' = IF f.remaining = 0
                    THEN [printed EXCEPT ![d][s] = Append(@, text)] ELSE printed
      /\ emptyCharArray' = [emptyCharArray EXCEPT ![d][s] =
                              IF f.remaining = 0 THEN <<>> ELSE text]
      /\ outgoing_frames' = [outgoing_frames EXCEPT ![d] = Append(@, Ack(d, s, u))]
      /\ NFE' = [NFE EXCEPT ![d][s] = uint8(u + 1)]
      /\ delivery' = IF again THEN [delivery EXCEPT !.pre_seq = first]
                     ELSE NotDelivering
      /\ incoming_frames' = incoming_frames
  BY DEF Deliver
<1>3. issued' = issued /\ ingress' = ingress
  BY DEF Deliver, historyVars, switchVars
<1>4. /\ w \in [Slots -> Frame \cup {NoFrame}] /\ M \in Seq(Seq(Nat)) /\ typed[s][d] \in Nat
      /\ old \in Seq(Nat) /\ printed[d][s] \in Seq(Seq(Nat)) /\ u \in SeqNums
  BY <1>1, HostTypes
<1>5. a \in Nat /\ g \in Nat /\ t \in Nat /\ a <= g /\ g <= t
  BY AtCounts
<1>6. /\ u = uint8(g) /\ Delivered(s, d) = 1 .. g
      /\ PrintedOK(M, printed[d][s], old, g) /\ StoreOK(s, d, M, w, g, t)
      /\ DeliveringOK(w, u, first, g) /\ Consecutive(M, typed[s][d])
  BY <1>2, AtParts DEF ReceiverOK
<1>7. slot \in Slots /\ slot \in Occupied(w)
  <2>1. slot \in Slots
    BY <1>4, SlotOf
  <2>2. HasFrame(w, slot)
    BY <1>1, <1>2 DEF TypeInv, DeliveryOK
  <2> QED BY <2>1, <2>2 DEF Occupied
<1>8. /\ f \in Frame /\ Genuine(s, d, M, f) /\ f.data = g + 1 /\ f.data <= t
  <2>1. f \in Frame
    <3> HIDE DEF w, slot
    <3> QED BY <1>4, <1>7, WindowFrames
  <2>2. f.data = g + 1
    BY <1>6 DEF DeliveringOK
  <2>3. Genuine(s, d, M, f) /\ f.data <= t
    BY <1>6, <1>7 DEF StoreOK
  <2> QED BY <2>1, <2>2, <2>3
<1>9. first \in SeqNums /\ first <= u
  BY <1>1, <1>6 DEF DeliveringOK, TypeInv, TypeOK, ReceiverTypeOK
<1>10. uint8(u + 1) = uint8(g + 1) /\ uint8(u) = uint8(g)
  BY <1>5, <1>6, LastNumber
<1>11. /\ text \in Seq(Nat) /\ Len(text) = Len(old) + 1
       /\ \A i \in 1 .. Len(old) : text[i] = old[i]
       /\ text[Len(old) + 1] = g + 1
       /\ f.remaining = 0 => PrintedOK(M, Append(printed[d][s], text), <<>>, g + 1)
       /\ f.remaining # 0 => PrintedOK(M, printed[d][s], text, g + 1)
  <2> HIDE DEF M, f, old
  <2> QED BY <1>4, <1>5, <1>6, <1>8, AssembleNext
<1>12. /\ StoreOK(s, d, M, rest, g + 1, t)
       /\ DataFrames(s, d, M, w, g, t) \subseteq DataFrames(s, d, M, rest, g + 1, t)
  <2>1. slot = uint8(g) % window_size /\ w[slot].data = g + 1
    BY <1>6, <1>8
  <2> HIDE DEF M, w, slot
  <2> QED BY <1>4, <1>5, <1>6, <1>7, <2>1, DeliverStore
<1>13. /\ receive_window'[d][s] = rest /\ NFE'[d][s] = uint8(g + 1)
       /\ emptyCharArray'[d][s] = (IF f.remaining = 0 THEN <<>> ELSE text)
       /\ printed'[d][s] = (IF f.remaining = 0 THEN Append(printed[d][s], text)
                            ELSE printed[d][s])
  <2>1. /\ receive_window \in [Hosts -> [Hosts -> [Slots -> Frame \cup {NoFrame}]]]
        /\ NFE \in [Hosts -> [Hosts -> SeqNums]]
        /\ emptyCharArray \in [Hosts -> [Hosts -> Seq(Nat)]]
        /\ printed \in [Hosts -> [Hosts -> Seq(Seq(Nat))]]
    BY <1>1 DEF TypeInv, TypeOK, ReceiverTypeOK
  <2> HIDE DEF rest, text, f
  <2> QED BY <1>1, <1>2, <1>10, <2>1
<1>14. ReceiverOK(s, d, g + 1, t)'
  <2>1. PrintedOK(M, printed'[d][s], emptyCharArray'[d][s], g + 1)
    <3> HIDE DEF M, f, text
    <3> QED BY <1>11, <1>13
  <2>2. Delivered(s, d)' = 1 .. g + 1
    <3>1. PiecesIn(printed[d][s], old) = 1 .. g
      BY <1>6 DEF Delivered, PiecesIn
    <3>2. /\ PiecesIn(printed[d][s], text) = 1 .. g \cup {g + 1}
          /\ PiecesIn(Append(printed[d][s], text), <<>>) = 1 .. g \cup {g + 1}
      <4>1. /\ printed[d][s] \in Seq(Seq(Nat)) /\ old \in Seq(Nat) /\ text \in Seq(Nat)
            /\ Len(text) = Len(old) + 1 /\ \A i \in 1 .. Len(old) : text[i] = old[i]
            /\ text[Len(old) + 1] = g + 1
        BY <1>4, <1>11
      <4>2. PICK R, x, y : R = printed[d][s] /\ x = old /\ y = text
        OBVIOUS
      <4> HIDE DEF text, old
      <4>3. R \in Seq(Seq(Nat)) /\ Extends(y, x, g + 1)
        BY <4>1, <4>2 DEF Extends
      <4>4. /\ PiecesIn(R, y) = PiecesIn(R, x) \cup {g + 1}
            /\ PiecesIn(Append(R, y), <<>>) = PiecesIn(R, x) \cup {g + 1}
        BY <4>3, PiecesGrow
      <4> QED BY <3>1, <4>2, <4>4
    <3>3. 1 .. g \cup {g + 1} = 1 .. g + 1
      BY <1>5
    <3>4. PiecesIn(printed'[d][s], emptyCharArray'[d][s]) = 1 .. g + 1
      <4> HIDE DEF text, f
      <4> QED BY <1>13, <3>2, <3>3
    <3> QED BY <3>4 DEF Delivered, PiecesIn
  <2>3. delivery' # NotDelivering => DeliveringOK(rest, uint8(g + 1), delivery'.seq_num, g + 1)
    <3>1. SUFFICES ASSUME again PROVE DeliveringOK(rest, uint8(g + 1), delivery'.seq_num, g + 1)
      BY <1>2
    <3>2. delivery'.seq_num = first
      <4>1. delivery' = [delivery EXCEPT !.pre_seq = first]
        BY <1>2, <3>1
      <4>2. delivery \in [pre_seq : Int, src_id : Hosts \cup {NoHost}, seq_num : SeqNums]
        BY <1>1 DEF TypeInv, TypeOK, ReceiverTypeOK
      <4> QED BY <4>1, <4>2
    <3>3. Deliverable(rest, uint8(g + 1), first)
      BY <1>10, <3>1
    <3>4. \A q \in Occupied(rest) : rest[q].data <= g + window_size - (uint8(g) - first)
      <4>1. \A q \in Occupied(rest) : q \in Occupied(w) /\ rest[q] = w[q]
        BY <1>4, <1>7 DEF Occupied, HasFrame
      <4> HIDE DEF rest
      <4> QED BY <1>6, <4>1 DEF DeliveringOK
    <3>5. rest \in [Slots -> Frame \cup {NoFrame}]
      BY <1>4
    <3>6. first <= uint8(g)
      BY <1>6, <1>9
    <3> HIDE DEF rest, first, M
    <3> QED BY <1>1, <1>5, <1>9, <1>12, <3>2, <3>3, <3>4, <3>5, <3>6, DeliverNext
  <2> HIDE DEF rest, M
  <2> QED BY <1>3, <1>12, <1>13, <2>1, <2>2, <2>3 DEF ReceiverOK, M
<1>15. DataLineOK(s, d, g + 1, t)'
  <2> DEFINE G == DataFrames(s, d, M, w, g, t)
             H == DataFrames(s, d, M, rest, g + 1, t)
  <2>1. Line(G, DataOrder(s, d), incoming_frames[d], ingress[d], outgoing_frames[s])
    BY AtParts DEF DataLineOK
  <2>2. G \subseteq H
    BY <1>12
  <2>3. outgoing_frames'[s] = outgoing_frames[s]
    <3>1. outgoing_frames \in [Hosts -> Seq(Frame)]
      BY <1>1, QueueTypes
    <3> QED BY <1>1, <1>2, <3>1
  <2> HIDE DEF G, H
  <2>4. Line(H, DataOrder(s, d), incoming_frames[d], ingress[d], outgoing_frames[s])
    BY <2>1, <2>2, LineGoods
  <2> QED BY <1>2, <1>3, <1>13, <2>3, <2>4 DEF DataLineOK, H
<1>16. AckLineOK(s, d, a, g + 1)'
  <2>1. PICK e : e = Ack(d, s, u)
    OBVIOUS
  <2>2. e \in Frame /\ e.is_ack = 1 /\ e.ack_num = uint8(u)
    <3>1. Ack(d, s, u) \in Frame
      BY <1>1, <1>4, AckType DEF SeqNums
    <3> QED BY <2>1, <3>1 DEF Ack
  <2>3. Answering(d, e)
    BY <1>1, <1>2, <1>3, <2>1, <2>2 DEF Answering
  <2>4. PICK c \in Nat : c = g + 1
    BY <1>5
  <2>5. c - 1 = g /\ g <= c /\ c <= g + 1
    BY <1>5, <2>4
  <2>6. e.ack_num = uint8(c - 1)
    BY <1>10, <2>2, <2>5
  <2>7. outgoing_frames' = [outgoing_frames EXCEPT ![d] = Append(@, e)]
    BY <1>2, <2>1
  <2>8. AckLineOK(s, d, a, c)'
    BY <2>3, <2>5, <2>6, <2>7, AnswerPair
  <2> QED BY <2>4, <2>8
<1>17. g + 1 <= t
  BY <1>8
<1> QED BY <1>14, <1>15, <1>16, <1>17

LEMMA DeliverReach ==
  ASSUME NEW s, NEW d, NEW a, NEW g, NEW t, NEW n, At(s, d, a, g, t, n),
         NEW h \in Hosts, Deliver(h)
  PROVE  Reached(s, d)'
<1> DEFINE x == delivery.src_id
           u == NFE[h][x]
<1>1. TypeInv /\ s \in Hosts /\ d \in Hosts
  BY AtPair
<1>2. /\ cur = h /\ delivery # NotDelivering
      /\ receive_window' = [receive_window EXCEPT ![h][x] =
           [receive_window[h][x] EXCEPT ![u % window_size] = NoFrame]]
      /\ outgoing_frames' = [outgoing_frames EXCEPT ![h] = Append(@, Ack(h, x, u))]
      /\ incoming_frames' = incoming_frames
  BY DEF Deliver
<1>3. \E text, p : /\ printed' = p
                   /\ (p = printed \/ p = [printed EXCEPT ![h][x] = Append(@, text)])
  BY DEF Deliver
<1>4. \E text : emptyCharArray' = [emptyCharArray EXCEPT ![h][x] = text]
  BY DEF Deliver
<1>5. \E v : NFE' = [NFE EXCEPT ![h][x] = v]
  BY DEF Deliver
<1>6. /\ delivery' = NotDelivering \/ delivery'.src_id = x
      /\ cur' \in {h, NoHost}
  BY <1>1 DEF Deliver, TypeInv, TypeOK, ReceiverTypeOK
<1>7. UNCHANGED <<LAR, LFS, send_window, buffered_outframes, input_cmdlist, issued, typed,
                  ingress>>
  BY DEF Deliver, senderVars, switchVars, historyVars
<1>8. x \in Hosts
  BY <1>1, <1>2 DEF TypeInv, DeliveryOK
<1>9. SenderOK(s, d, a, t, n)' /\ Consecutive(issued'[s][d], typed'[s][d])
  BY <1>7, AtParts, SenderSame
<1>10. a \in Nat /\ g \in Nat /\ t \in Nat /\ n \in Nat /\ a <= g /\ g <= t /\ t <= n
  BY AtCounts
<1>11. CASE h # d \/ x # s
  <2>1. /\ receive_window'[d][s] = receive_window[d][s] /\ NFE'[d][s] = NFE[d][s]
        /\ printed'[d][s] = printed[d][s] /\ emptyCharArray'[d][s] = emptyCharArray[d][s]
    <3>1. /\ receive_window \in [Hosts -> [Hosts -> [Slots -> Frame \cup {NoFrame}]]]
          /\ NFE \in [Hosts -> [Hosts -> SeqNums]]
          /\ emptyCharArray \in [Hosts -> [Hosts -> Seq(Nat)]]
          /\ printed \in [Hosts -> [Hosts -> Seq(Seq(Nat))]]
      BY <1>1 DEF TypeInv, TypeOK, ReceiverTypeOK
    <3> HIDE DEF x, u
    <3>2. receive_window'[d][s] = receive_window[d][s]
      BY <1>1, <1>2, <1>8, <1>11, <3>1
    <3>3. NFE'[d][s] = NFE[d][s]
      BY <1>1, <1>5, <1>8, <1>11, <3>1
    <3>4. printed'[d][s] = printed[d][s]
      <4>1. PICK text : \/ printed' = printed
                        \/ printed' = [printed EXCEPT ![h][x] = Append(@, text)]
        BY Zenon, <1>3
      <4>2. printed'[h] = printed[h] \/ printed'[h] = [printed[h] EXCEPT ![x] = Append(@, text)]
        BY <3>1, <4>1
      <4>3. CASE h # d
        BY <1>1, <3>1, <4>1, <4>3
      <4>4. CASE h = d /\ x # s
        BY <1>1, <3>1, <4>2, <4>4
      <4> QED BY <1>11, <4>3, <4>4
    <3>5. emptyCharArray'[d][s] = emptyCharArray[d][s]
      BY <1>1, <1>4, <1>8, <1>11, <3>1
    <3> QED BY <3>2, <3>3, <3>4, <3>5
  <2>2. ~(delivery' # NotDelivering /\ cur' = d /\ delivery'.src_id = s)
    BY <1>1, <1>6, <1>11, HostsFacts
  <2>3. ReceiverOK(s, d, g, t)'
    BY <1>7, <2>1, <2>2, AtParts, ReceiverSame
  <2>4. PICK e : e = Ack(h, x, u)
    OBVIOUS
  <2>5. e \in Frame /\ e.is_ack = 1 /\ e.dst_id = x
    <3>1. u \in SeqNums
      BY <1>1, <1>8, HostTypes
    <3>2. Ack(h, x, u) \in Frame
      BY <1>8, <3>1, AckType DEF SeqNums
    <3> QED BY <2>4, <3>2 DEF Ack
  <2>6. Answering(h, e)
    BY <1>2, <1>7, <2>4, <2>5 DEF Answering
  <2>7. DataLineOK(s, d, g, t)'
    BY <1>7, <2>1, <2>6, AnswerData DEF DataLineOK
  <2>8. AckLineOK(s, d, a, g)'
    BY <1>11, <2>5, <2>6, AnswerOther
  <2> QED BY <1>9, <1>10, <2>3, <2>7, <2>8, Reach
<1>12. CASE h = d /\ x = s
  <2>1. PICK c \in Nat : c = g + 1
    BY <1>10
  <2>2. /\ g + 1 <= t /\ ReceiverOK(s, d, g + 1, t)'
        /\ DataLineOK(s, d, g + 1, t)' /\ AckLineOK(s, d, a, g + 1)'
    BY <1>12, DeliverPair
  <2>3. /\ ReceiverOK(s, d, c, t)' /\ DataLineOK(s, d, c, t)' /\ AckLineOK(s, d, a, c)'
    BY <2>1, <2>2
  <2>4. a <= c /\ c <= t
    BY <1>10, <2>1, <2>2
  <2> QED BY <1>9, <1>10, <2>3, <2>4, Reach
<1> QED BY <1>11, <1>12

-----------------------------------------------------------------------------
(* Every step. *)

LEMMA PairsNext ==
  ASSUME OneWayTraffic, Inv, [Next]_vars, NEW p \in Pairs
  PROVE  Reached(p[1], p[2])'
<1>1. PICK s, d : s = p[1] /\ d = p[2]
  OBVIOUS
<1>2. <<s, d>> \in Pairs
  BY <1>1, ConfigAssumption
<1>3. PICK a \in Nat, g \in Nat, t \in Nat, n \in Nat : Progress(s, d, a, g, t, n)
  BY <1>1 DEF Inv, Reached
<1>4. At(s, d, a, g, t, n)
  BY <1>2, <1>3 DEF At
<1>5. Reached(s, d)'
  <2>1. CASE RunSenders
    <3>1. ASSUME NEW h \in Hosts,
                 Wake(h) \/ Sleep(h) \/ HandleInputCmd(h) \/ DropAck(h) \/ AcceptAck(h)
                 \/ HandleOutgoing(h)
          PROVE  Reached(s, d)'
      BY <1>4, <3>1, MoveReach, HandleInputCmdReach, DropAckReach, AcceptAckReach,
         HandleOutgoingReach
    <3> QED BY <1>4, <2>1, <3>1, MoveReach DEF RunSenders
  <2>2. CASE SendDataFrames
    BY <1>4, <2>2, ServeIngressReach, ForwardFrameReach, MoveReach DEF SendDataFrames
  <2>3. CASE RunReceivers
    <3>1. ASSUME NEW h \in Hosts,
                 VisitReceiver(h) \/ Corrupted(h) \/ Unstored(h) \/ Store(h) \/ Deliver(h)
          PROVE  Reached(s, d)'
      BY <1>4, <3>1, MoveReach, CorruptedReach, UnstoredReach, StoreReach, DeliverReach
    <3> QED BY <1>4, <2>3, <3>1, MoveReach DEF RunReceivers
  <2>4. CASE SendAck
    BY <1>4, <2>4, SendAckReach
  <2>5. CASE GracefulExit \/ NoMoreInput \/ UserExit \/ InputEof \/ UNCHANGED vars
    BY <1>4, <2>5, MoveReach
  <2>6. CASE \E q \in Pairs : UserMsg(q[1], q[2])
    <3>1. PICK q \in Pairs : UserMsg(q[1], q[2])
      BY <2>6
    <3>2. <<q[1], q[2]>> \in Pairs
      BY <3>1, ConfigAssumption
    <3> QED BY <1>4, <3>1, <3>2, UserMsgReach
  <2> QED BY <2>1, <2>2, <2>3, <2>4, <2>5, <2>6 DEF Next, Program, Input
<1> QED BY <1>1, <1>5

-----------------------------------------------------------------------------
(* What a step adds to the queues, for Routing and Phases. *)

\* The steps that only move the program counter.
Moves ==
  \/ \E h \in Hosts : Wake(h) \/ Sleep(h) \/ VisitReceiver(h)
  \/ SendersDone \/ DataDone \/ ReceiversDone \/ GracefulExit
  \/ NoMoreInput \/ UserExit \/ InputEof \/ UNCHANGED vars

LEMMA MovesLeave ==
  ASSUME Moves
  PROVE  UNCHANGED <<LAR, send_window, buffered_outframes, input_cmdlist, delivery,
                     incoming_frames, outgoing_frames, ingress>>
BY DEF Moves, Wake, Sleep, VisitReceiver, SendersDone, DataDone, ReceiversDone, GracefulExit,
   NoMoreInput, UserExit, StartRound, InputEof, vars, loopVars, senderVars, receiverVars,
   switchVars

LEMMA Steps ==
  ASSUME [Next]_vars
  PROVE  \/ Moves \/ ServeIngress \/ SendAck
         \/ \E p \in Pairs : UserMsg(p[1], p[2])
         \/ \E h \in Hosts : \/ HandleInputCmd(h) \/ DropAck(h) \/ AcceptAck(h)
                             \/ HandleOutgoing(h) \/ ForwardFrame(h)
                             \/ Corrupted(h) \/ Unstored(h) \/ Store(h) \/ Deliver(h)
BY DEF Next, Program, Input, RunSenders, SendDataFrames, RunReceivers, Moves

NewIn ==
  \A x \in Hosts : \A f \in ElementsOf(incoming_frames'[x]) :
    f \in ElementsOf(incoming_frames[x]) \/ (OnPair(f) /\ f.dst_id = x)

NewPort ==
  \A x \in Hosts : \A f \in ElementsOf(ingress'[x]) :
    f \in ElementsOf(ingress[x]) \/ (OnPair(f) /\ f.dst_id = x /\ f.is_ack = 0)

NewOut ==
  \A x \in Hosts : \A f \in ElementsOf(outgoing_frames'[x]) :
    \/ f \in ElementsOf(outgoing_frames[x])
    \/ /\ OnPair(f) /\ f.src_id = x
       /\ \/ stage' = "senders" /\ f.is_ack = 0
          \/ stage' = "receivers" /\ f.is_ack = 1

NewCmd ==
  \A x \in Hosts : \A c \in ElementsOf(input_cmdlist'[x]) :
    c \in ElementsOf(input_cmdlist[x]) \/ <<x, c.dst_id>> \in Pairs

NewBuf ==
  \A x \in Hosts : \A f \in ElementsOf(buffered_outframes'[x]) :
    f \in ElementsOf(buffered_outframes[x]) \/ <<x, f.dst_id>> \in Pairs

NewWin ==
  \A x \in Hosts : \A q \in Occupied(send_window'[x]) :
    \/ q \in Occupied(send_window[x]) /\ send_window'[x][q] = send_window[x][q]
    \/ <<x, send_window'[x][q].dst_id>> \in Pairs

LEMMA RoutingStep ==
  ASSUME Routing, NewIn, NewPort, NewOut, NewCmd, NewBuf, NewWin
  PROVE  Routing'
<1> SUFFICES ASSUME NEW x \in Hosts
             PROVE  /\ \A f \in ElementsOf(incoming_frames'[x]) : OnPair(f) /\ f.dst_id = x
                    /\ \A f \in ElementsOf(ingress'[x]) :
                         OnPair(f) /\ f.dst_id = x /\ f.is_ack = 0
                    /\ \A f \in ElementsOf(outgoing_frames'[x]) : OnPair(f) /\ f.src_id = x
                    /\ \A c \in ElementsOf(input_cmdlist'[x]) : <<x, c.dst_id>> \in Pairs
                    /\ \A f \in ElementsOf(buffered_outframes'[x]) : <<x, f.dst_id>> \in Pairs
                    /\ \A q \in Occupied(send_window'[x]) :
                         <<x, send_window'[x][q].dst_id>> \in Pairs
  BY DEF Routing, ElementsOf, OnPair, Occupied, HasFrame
<1>1. \A f \in ElementsOf(incoming_frames'[x]) : OnPair(f) /\ f.dst_id = x
  BY DEF Routing, NewIn
<1>2. \A f \in ElementsOf(ingress'[x]) : OnPair(f) /\ f.dst_id = x /\ f.is_ack = 0
  BY DEF Routing, NewPort
<1>3. \A f \in ElementsOf(outgoing_frames'[x]) : OnPair(f) /\ f.src_id = x
  BY DEF Routing, NewOut
<1>4. \A c \in ElementsOf(input_cmdlist'[x]) : <<x, c.dst_id>> \in Pairs
  BY DEF Routing, NewCmd
<1>5. \A f \in ElementsOf(buffered_outframes'[x]) : <<x, f.dst_id>> \in Pairs
  BY DEF Routing, NewBuf
<1>6. \A q \in Occupied(send_window'[x]) : <<x, send_window'[x][q].dst_id>> \in Pairs
  BY DEF Routing, NewWin
<1> QED BY <1>1, <1>2, <1>3, <1>4, <1>5, <1>6

LEMMA PoppedElements ==
  ASSUME NEW S, NEW Q \in [Hosts -> Seq(S)], NEW h \in Hosts, Q[h] # <<>>, NEW x \in Hosts,
         NEW f \in ElementsOf([Q EXCEPT ![h] = Tail(@)][x])
  PROVE  f \in ElementsOf(Q[x])
<1>1. [Q EXCEPT ![h] = Tail(@)][x] = IF x = h THEN Tail(Q[h]) ELSE Q[x]
  OBVIOUS
<1>2. ElementsOf(Tail(Q[h])) \subseteq ElementsOf(Q[h])
  BY ElementsPop
<1> QED BY <1>1, <1>2

LEMMA AppendedElements ==
  ASSUME NEW S, NEW Q \in [Hosts -> Seq(S)], NEW h \in Hosts, NEW e \in S, NEW x \in Hosts,
         NEW f \in ElementsOf([Q EXCEPT ![h] = Append(@, e)][x])
  PROVE  f \in ElementsOf(Q[x]) \/ (x = h /\ f = e)
<1>1. [Q EXCEPT ![h] = Append(@, e)][x] = IF x = h THEN Append(Q[h], e) ELSE Q[x]
  OBVIOUS
<1>2. ElementsOf(Append(Q[h], e)) = ElementsOf(Q[h]) \cup {e}
  BY ElementsAppend
<1> QED BY <1>1, <1>2

LEMMA PoppedIn ==
  ASSUME TypeInv, NEW h \in Hosts, incoming_frames[h] # <<>>,
         incoming_frames' = [incoming_frames EXCEPT ![h] = Tail(@)]
  PROVE  NewIn
<1>1. incoming_frames \in [Hosts -> Seq(Frame)]
  BY QueueTypes
<1> QED BY <1>1, PoppedElements DEF NewIn

LEMMA AppendedIn ==
  ASSUME TypeInv, NEW h \in Hosts, NEW e \in Frame, OnPair(e), e.dst_id = h,
         incoming_frames' = [incoming_frames EXCEPT ![h] = Append(@, e)]
  PROVE  NewIn
<1>1. incoming_frames \in [Hosts -> Seq(Frame)]
  BY QueueTypes
<1> QED BY <1>1, AppendedElements DEF NewIn

LEMMA CopyOnPair ==
  ASSUME NEW f \in Frame, OnPair(f), NEW e \in Copies(f)
  PROVE  e \in Frame /\ OnPair(e) /\ e.dst_id = f.dst_id /\ e.is_ack = f.is_ack
BY CopyFields DEF OnPair

\* The data frame that a host hands to the switch.
LEMMA ForwardQueues ==
  ASSUME OneWayTraffic, Inv, NEW h \in Hosts, ForwardFrame(h)
  PROVE  NewIn /\ NewPort /\ NewOut
<1> DEFINE f == Head(outgoing_frames[h])
           x == f.dst_id
<1>1. TypeInv /\ Routing /\ Phases
  BY DEF Inv
<1>2. outgoing_frames[h] # <<>> /\ stage = "data"
  BY DEF ForwardFrame
<1>3. /\ f \in Frame /\ x \in Hosts /\ f.src_id = h /\ f.is_ack = 0
      /\ <<h, x>> \in Pairs /\ Sane(f)
  BY <1>1, <1>2, ForwardedFrame
<1>4. OnPair(f)
  BY <1>3 DEF OnPair
<1>5. /\ incoming_frames \in [Hosts -> Seq(Frame)] /\ outgoing_frames \in [Hosts -> Seq(Frame)]
      /\ ingress \in [Hosts -> Seq(Frame)]
  BY <1>1, QueueTypes
<1>6. outgoing_frames' = [outgoing_frames EXCEPT ![h] = Tail(@)]
  BY DEF ForwardFrame
<1>7. \/ /\ \E e \in Copies(f) : incoming_frames' = [incoming_frames EXCEPT ![x] = Append(@, e)]
         /\ ingress' = ingress
      \/ /\ ingress' = ingress \/ ingress' = [ingress EXCEPT ![x] = Append(@, f)]
         /\ incoming_frames' = incoming_frames
  BY <1>3 DEF ForwardFrame
<1> HIDE DEF f
<1>8. NewOut
  BY <1>2, <1>5, <1>6, PoppedElements DEF NewOut
<1>9. NewIn
  <2>1. CASE incoming_frames' = incoming_frames
    BY <2>1 DEF NewIn
  <2>2. CASE \E e \in Copies(f) : incoming_frames' = [incoming_frames EXCEPT ![x] = Append(@, e)]
    <3>1. PICK e \in Copies(f) : incoming_frames' = [incoming_frames EXCEPT ![x] = Append(@, e)]
      BY <2>2
    <3>2. e \in Frame /\ OnPair(e) /\ e.dst_id = x
      BY <1>3, <1>4, CopyOnPair
    <3> QED BY <1>1, <1>3, <3>1, <3>2, AppendedIn
  <2> QED BY <1>7, <2>1, <2>2
<1>10. NewPort
  <2>1. CASE ingress' = ingress
    BY <2>1 DEF NewPort
  <2>2. ASSUME ingress' = [ingress EXCEPT ![x] = Append(@, f)],
               NEW r \in Hosts, NEW e \in ElementsOf(ingress'[r])
        PROVE  e \in ElementsOf(ingress[r]) \/ (r = x /\ e = f)
    <3>1. ingress[x] \in Seq(Frame)
      BY <1>3, <1>5
    <3>2. ingress'[r] = IF r = x THEN Append(ingress[x], f) ELSE ingress[r]
      BY <1>3, <1>5, <2>2
    <3>3. ElementsOf(Append(ingress[x], f)) = ElementsOf(ingress[x]) \cup {f}
      BY <1>3, <3>1, ElementsAppend
    <3> QED BY <2>2, <3>2, <3>3
  <2>3. CASE ingress' = [ingress EXCEPT ![x] = Append(@, f)]
    BY <1>3, <1>4, <2>2, <2>3 DEF NewPort
  <2> QED BY <1>7, <2>1, <2>3
<1> QED BY <1>8, <1>9, <1>10

LEMMA ServeQueues ==
  ASSUME OneWayTraffic, Inv, ServeIngress
  PROVE  NewIn /\ NewPort
<1> DEFINE i == First(Serviceable)
           f == Head(ingress[i])
<1>1. i \in Hosts /\ ingress[i] # <<>>
  BY FirstIn DEF ServeIngress, Serviceable
<1>2. TypeInv /\ Routing
  BY DEF Inv
<1>3. f \in Frame /\ f \in ElementsOf(ingress[i])
  BY <1>1, <1>2, HostTypes, QueuedType
<1>4. OnPair(f) /\ f.dst_id = i
  BY <1>1, <1>2, <1>3 DEF Routing
<1>5. /\ ingress' = [ingress EXCEPT ![i] = Tail(@)]
      /\ \/ \E e \in Copies(f) : incoming_frames' = [incoming_frames EXCEPT ![i] = Append(@, e)]
         \/ incoming_frames' = incoming_frames
  BY <1>4 DEF ServeIngress
<1>6. ingress \in [Hosts -> Seq(Frame)]
  BY <1>2, QueueTypes
<1> HIDE DEF i, f
<1>7. NewPort
  BY <1>1, <1>5, <1>6, PoppedElements DEF NewPort
<1>8. NewIn
  <2>1. CASE incoming_frames' = incoming_frames
    BY <2>1 DEF NewIn
  <2>2. CASE \E e \in Copies(f) : incoming_frames' = [incoming_frames EXCEPT ![i] = Append(@, e)]
    <3>1. PICK e \in Copies(f) : incoming_frames' = [incoming_frames EXCEPT ![i] = Append(@, e)]
      BY <2>2
    <3>2. e \in Frame /\ OnPair(e) /\ e.dst_id = i
      BY <1>3, <1>4, CopyOnPair
    <3> QED BY <1>1, <1>2, <3>1, <3>2, AppendedIn
  <2> QED BY <1>5, <2>1, <2>2
<1> QED BY <1>7, <1>8

LEMMA SendAckQueues ==
  ASSUME OneWayTraffic, Inv, SendAck
  PROVE  NewIn /\ NewOut
<1>1. TypeInv /\ Routing /\ Phases
  BY DEF Inv
<1>2. PICK h \in Hosts, e \in Frame :
        /\ outgoing_frames[h] # <<>> /\ e.is_ack = 1 /\ e.src_id = h /\ e.dst_id \in Hosts
        /\ <<e.dst_id, h>> \in Pairs
        /\ outgoing_frames' = [outgoing_frames EXCEPT ![h] = Tail(@)]
        /\ incoming_frames' = [incoming_frames EXCEPT ![e.dst_id] = Append(@, e)]
  BY <1>1, SendAckStep
<1>3. OnPair(e)
  BY <1>2 DEF OnPair
<1>4. NewIn
  BY <1>1, <1>2, <1>3, AppendedIn
<1>5. outgoing_frames \in [Hosts -> Seq(Frame)]
  BY <1>1, QueueTypes
<1>6. NewOut
  BY <1>2, <1>5, PoppedElements DEF NewOut
<1> QED BY <1>4, <1>6

\* The answers of a receiver.
LEMMA AnswerOut ==
  ASSUME TypeInv, NEW h \in Hosts, NEW e \in Frame, e.is_ack = 1, e.src_id = h,
         <<e.dst_id, h>> \in Pairs, stage' = "receivers",
         \/ outgoing_frames' = outgoing_frames
         \/ outgoing_frames' = [outgoing_frames EXCEPT ![h] = Append(@, e)]
  PROVE  NewOut
<1>1. outgoing_frames \in [Hosts -> Seq(Frame)]
  BY QueueTypes
<1>2. OnPair(e)
  BY DEF OnPair
<1>3. CASE outgoing_frames' = outgoing_frames
  BY <1>3 DEF NewOut
<1>4. CASE outgoing_frames' = [outgoing_frames EXCEPT ![h] = Append(@, e)]
  <2>1. ASSUME NEW r \in Hosts, NEW f \in ElementsOf(outgoing_frames'[r])
        PROVE  f \in ElementsOf(outgoing_frames[r]) \/ (r = h /\ f = e)
    <3>1. outgoing_frames[h] \in Seq(Frame)
      BY <1>1
    <3>2. outgoing_frames'[r] =
            IF r = h THEN Append(outgoing_frames[h], e) ELSE outgoing_frames[r]
      BY <1>1, <1>4
    <3>3. ElementsOf(Append(outgoing_frames[h], e)) = ElementsOf(outgoing_frames[h]) \cup {e}
      BY <3>1, ElementsAppend
    <3> QED BY <2>1, <3>2, <3>3
  <2> QED BY <1>2, <2>1 DEF NewOut
<1> QED BY <1>3, <1>4

LEMMA ReceiverQueues ==
  ASSUME OneWayTraffic, Inv, NEW h \in Hosts, Unstored(h) \/ Store(h) \/ Deliver(h)
  PROVE  NewOut
<1>1. TypeInv /\ Routing /\ Answerable
  BY DEF Inv
<1>2. stage' = "receivers"
  BY DEF Unstored, Store, Deliver, Popping
<1>3. CASE Unstored(h) \/ Store(h)
  <2> DEFINE f == Head(incoming_frames[h])
  <2>1. incoming_frames[h] # <<>>
    BY <1>3 DEF Unstored, Store, Popping
  <2>2. /\ f.dst_id = h /\ OnPair(f) /\ f.is_ack \in {0, 1}
        /\ LastAck(h, f) \in Frame /\ LastAck(h, f).is_ack = 1
        /\ LastAck(h, f).src_id = h /\ LastAck(h, f).dst_id = f.src_id
    BY <1>1, <2>1, PoppedFrame
  <2>3. \/ outgoing_frames' = outgoing_frames
        \/ /\ f.is_ack # 1
           /\ outgoing_frames' = [outgoing_frames EXCEPT ![h] = Append(@, LastAck(h, f))]
    <3>1. CASE Unstored(h)
      <4>1. outgoing_frames' =
              IF f.is_ack = 1 THEN outgoing_frames
              ELSE [outgoing_frames EXCEPT ![h] = Append(@, LastAck(h, f))]
        BY <3>1 DEF Unstored
      <4> HIDE DEF f
      <4> QED BY <4>1
    <3>2. CASE Store(h)
      <4>1. f.is_ack = 0 /\ outgoing_frames' =
              IF NFE[h][f.src_id] = f.seq_num THEN outgoing_frames
              ELSE [outgoing_frames EXCEPT ![h] = Append(@, LastAck(h, f))]
        BY <3>2 DEF Store
      <4> HIDE DEF f
      <4> QED BY <4>1
    <3> QED BY <1>3, <3>1, <3>2
  <2> HIDE DEF f
  <2>4. CASE outgoing_frames' = outgoing_frames
    BY <2>4 DEF NewOut
  <2>5. CASE f.is_ack # 1
             /\ outgoing_frames' = [outgoing_frames EXCEPT ![h] = Append(@, LastAck(h, f))]
    <3>1. <<LastAck(h, f).dst_id, h>> \in Pairs
      BY <2>2, <2>5 DEF OnPair
    <3> QED BY <1>1, <1>2, <2>2, <2>5, <3>1, AnswerOut
  <2> QED BY <2>3, <2>4, <2>5
<1>4. CASE Deliver(h)
  <2> DEFINE x == delivery.src_id
             u == NFE[h][x]
  <2>1. /\ cur = h /\ delivery # NotDelivering
        /\ outgoing_frames' = [outgoing_frames EXCEPT ![h] = Append(@, Ack(h, x, u))]
    BY <1>4 DEF Deliver
  <2>2. <<x, h>> \in Pairs /\ x \in Hosts
    BY <1>1, <2>1, PairFacts DEF Answerable
  <2>3. u \in SeqNums
    BY <1>1, <2>2, HostTypes
  <2>4. Ack(h, x, u) \in Frame
    BY <2>2, <2>3, AckType DEF SeqNums
  <2>5. Ack(h, x, u).is_ack = 1 /\ Ack(h, x, u).src_id = h /\ Ack(h, x, u).dst_id = x
    BY DEF Ack
  <2> HIDE DEF x, u
  <2> QED BY <1>1, <1>2, <2>1, <2>2, <2>4, <2>5, AnswerOut
<1> QED BY <1>3, <1>4

\* What a host resends or sends, and what it keeps, is its own.
LEMMA OutgoingQueues ==
  ASSUME OneWayTraffic, Inv, NEW h \in Hosts, HandleOutgoing(h)
  PROVE  NewOut /\ NewBuf /\ NewWin
<1> DEFINE w    == send_window[h]
           buf  == buffered_outframes[h]
           free == Ascending(Slots \ Occupied(w))
           Own(f) == f \in Frame /\ f.is_ack = 0 /\ f.src_id = h /\ <<h, f.dst_id>> \in Pairs
<1>1. TypeInv
  BY DEF Inv
<1>2. stage' = "senders" /\ \E m, x, y : Emission(h, m, x, y)
  BY <1>1, OutgoingStep
<1>3. PICK m, x, y : Emission(h, m, x, y)
  BY <1>2
<1>4. /\ x \in Seq(Frame) /\ y \in Seq(Frame)
      /\ ElementsOf(x) \cup ElementsOf(y) \subseteq Contents(w) /\ m \in 0 .. Len(buf)
      /\ outgoing_frames' =
           [outgoing_frames EXCEPT ![h] = ((@ \o x) \o y) \o SubSeq(buf, 1, m)]
      /\ buffered_outframes' = [buffered_outframes EXCEPT ![h] = SubSeq(buf, m + 1, Len(buf))]
      /\ send_window' = [send_window EXCEPT ![h] = Filled(w, buf, m, free)]
  BY <1>3 DEF Emission
<1>5. /\ outgoing_frames \in [Hosts -> Seq(Frame)] /\ buffered_outframes \in [Hosts -> Seq(Frame)]
      /\ send_window \in [Hosts -> [Slots -> Frame \cup {NoFrame}]]
      /\ buf \in Seq(Frame) /\ outgoing_frames[h] \in Seq(Frame)
  BY <1>1 DEF TypeInv, TypeOK, QueuesTypeOK, SenderTypeOK
<1>6. /\ \A q \in Occupied(w) : Own(w[q])
      /\ \A i \in 1 .. Len(buf) : Own(buf[i])
  BY Zenon, OwnFrames
<1> HIDE DEF w, buf, free
<1>7. NewOut
  <2> DEFINE z == SubSeq(buf, 1, m)
             o == outgoing_frames[h]
  <2>1. z \in Seq(Frame) /\ ElementsOf(z) = {buf[k] : k \in 1 .. m}
    BY <1>4, <1>5, FirstElements
  <2>2. \A k \in 1 .. m : k \in 1 .. Len(buf)
    BY <1>4, <1>5
  <2>3. \A f \in ElementsOf(z) : Own(f)
    <3> HIDE DEF z, Own
    <3> QED BY <1>6, <2>1, <2>2
  <2>4. \A f \in ElementsOf(x) \cup ElementsOf(y) : Own(f)
    BY <1>4, <1>6 DEF Contents
  <2>5. ElementsOf(((o \o x) \o y) \o z) =
          ((ElementsOf(o) \cup ElementsOf(x)) \cup ElementsOf(y)) \cup ElementsOf(z)
    <3> HIDE DEF z, o
    <3>1. o \in Seq(Frame)
      BY <1>5 DEF o
    <3>2. o \o x \in Seq(Frame) /\ (o \o x) \o y \in Seq(Frame)
      BY <1>4, <3>1, ConcatFacts
    <3>3. ElementsOf(o \o x) = ElementsOf(o) \cup ElementsOf(x)
      BY <1>4, <3>1, ElementsConcat
    <3>4. ElementsOf((o \o x) \o y) = ElementsOf(o \o x) \cup ElementsOf(y)
      BY <1>4, <3>2, ElementsConcat
    <3>5. PICK u : u = (o \o x) \o y
      OBVIOUS
    <3>6. u \in Seq(Frame) /\ z \in Seq(Frame)
      BY <2>1, <3>2, <3>5
    <3>7. ElementsOf(u \o z) = ElementsOf(u) \cup ElementsOf(z)
      BY ONLY <3>6, ElementsConcat
    <3> QED BY <3>3, <3>4, <3>5, <3>7
  <2>6. ASSUME NEW r \in Hosts, NEW f \in ElementsOf(outgoing_frames'[r])
        PROVE  f \in ElementsOf(outgoing_frames[r]) \/ (r = h /\ Own(f))
    <3>1. outgoing_frames'[r] = IF r = h THEN ((o \o x) \o y) \o z ELSE outgoing_frames[r]
      BY <1>4, <1>5
    <3> HIDE DEF Own, z, o
    <3>2. CASE r = h
      BY <2>3, <2>4, <2>5, <2>6, <3>1, <3>2 DEF o
    <3>3. CASE r # h
      BY <2>6, <3>1, <3>3
    <3> QED BY <3>2, <3>3
  <2>7. ASSUME NEW f, Own(f) PROVE OnPair(f) /\ f.src_id = h /\ f.is_ack = 0
    BY <2>7 DEF OnPair
  <2> HIDE DEF Own
  <2> QED BY <1>2, <2>6, <2>7 DEF NewOut
<1>8. NewBuf
  <2> DEFINE b == SubSeq(buf, m + 1, Len(buf))
  <2>1. ASSUME NEW f \in ElementsOf(b) PROVE <<h, f.dst_id>> \in Pairs
    <3>1. m \in Nat /\ Len(buf) \in Nat /\ m <= Len(buf)
      BY <1>4, <1>5
    <3>2. /\ DOMAIN b = 1 .. Len(buf) - m
          /\ \A i \in 1 .. Len(buf) - m : b[i] = buf[m + i] /\ m + i \in 1 .. Len(buf)
      BY <1>5, <3>1
    <3>3. PICK i \in 1 .. Len(buf) - m : f = b[i]
      BY <2>1, <3>2 DEF ElementsOf
    <3> QED BY <1>6, <3>2, <3>3
  <2>2. \A r \in Hosts : buffered_outframes'[r] = IF r = h THEN b ELSE buffered_outframes[r]
    BY <1>4, <1>5
  <2> HIDE DEF b
  <2> QED BY <2>1, <2>2 DEF NewBuf
<1>9. NewWin
  <2> DEFINE v == Filled(w, buf, m, free)
  <2>1. \A k \in 1 .. m : k \in 1 .. Len(buf)
    BY <1>4, <1>5
  <2>2. ASSUME NEW q \in Occupied(v)
        PROVE  \/ q \in Occupied(w) /\ v[q] = w[q]
               \/ <<h, v[q].dst_id>> \in Pairs
    <3>1. q \in Slots
      BY <2>2 DEF Occupied
    <3>2. CASE q \in {free[k] : k \in 1 .. m}
      <4>1. PICK k \in 1 .. m : v[q] = buf[k]
        <5>1. v[q] = buf[CHOOSE k \in 1 .. m : free[k] = q]
          BY <3>1, <3>2 DEF Filled
        <5>2. (CHOOSE k \in 1 .. m : free[k] = q) \in 1 .. m
          BY <3>2
        <5> QED BY <5>1, <5>2
      <4> QED BY <1>6, <2>1, <4>1
    <3>3. CASE q \notin {free[k] : k \in 1 .. m}
      <4>1. v[q] = w[q]
        BY <3>1, <3>3 DEF Filled
      <4> QED BY <2>2, <4>1 DEF Occupied, HasFrame
    <3> QED BY <3>2, <3>3
  <2>3. \A r \in Hosts : send_window'[r] = IF r = h THEN v ELSE send_window[r]
    BY <1>4, <1>5
  <2> HIDE DEF v
  <2>4. ASSUME NEW r \in Hosts, NEW q \in Occupied(send_window'[r])
        PROVE  \/ q \in Occupied(send_window[r]) /\ send_window'[r][q] = send_window[r][q]
               \/ <<r, send_window'[r][q].dst_id>> \in Pairs
    <3>1. CASE r = h
      BY <2>2, <2>3, <2>4, <3>1 DEF w
    <3>2. CASE r # h
      BY <2>3, <2>4, <3>2
    <3> QED BY <3>1, <3>2
  <2> QED BY <2>4 DEF NewWin
<1> QED BY <1>7, <1>8, <1>9

LEMMA AcceptAckWindow ==
  ASSUME TypeInv, NEW h \in Hosts, AcceptAck(h)
  PROVE  NewWin
<1>1. PICK freed :
        send_window' = [send_window EXCEPT ![h] =
                          [q \in Slots |-> IF q \in freed THEN NoFrame ELSE @[q]]]
  BY DEF AcceptAck
<1>2. send_window \in [Hosts -> [Slots -> Frame \cup {NoFrame}]]
  BY DEF TypeInv, TypeOK, SenderTypeOK
<1> QED BY <1>1, <1>2 DEF NewWin, Occupied, HasFrame

\* A command's frames go where the command says.
LEMMA CommandQueues ==
  ASSUME TypeInv, Routing, NEW h \in Hosts, HandleInputCmd(h)
  PROVE  NewCmd /\ NewBuf
<1> DEFINE cmd == Head(input_cmdlist[h])
           new == Fragments(h, cmd)
<1>1. /\ input_cmdlist[h] # <<>>
      /\ input_cmdlist' = [input_cmdlist EXCEPT ![h] = Tail(@)]
      /\ buffered_outframes' = [buffered_outframes EXCEPT ![h] = @ \o new]
  BY DEF HandleInputCmd
<1>2. input_cmdlist \in [Hosts -> Seq(Cmd)] /\ buffered_outframes \in [Hosts -> Seq(Frame)]
  BY DEF TypeInv, TypeOK, QueuesTypeOK, SenderTypeOK
<1>3. NewCmd
  BY <1>1, <1>2, PoppedElements DEF NewCmd
<1>4. <<h, cmd.dst_id>> \in Pairs /\ cmd \in Cmd
  <2>1. input_cmdlist[h] \in Seq(Cmd)
    BY <1>2
  <2>2. cmd \in ElementsOf(input_cmdlist[h]) /\ cmd \in Cmd
    BY <1>1, <2>1, ElementsPop
  <2> QED BY <2>2 DEF Routing
<1>5. /\ Len(cmd.message) \in Nat
      /\ new \in Seq(Frame) /\ DOMAIN new = 1 .. Len(cmd.message)
      /\ \A i \in 1 .. Len(cmd.message) : new[i].dst_id = cmd.dst_id
  <2> HIDE DEF cmd
  <2>1. cmd.dst_id \in Hosts /\ cmd.message \in Seq(Nat)
    BY <1>4 DEF Cmd
  <2>2. LFS[h][cmd.dst_id] \in SeqNums
    BY <2>1, HostTypes
  <2>3. \A i \in 1 .. Len(cmd.message) :
          /\ uint8(LFS[h][cmd.dst_id] + i) \in SeqNums
          /\ i - 1 \in Nat /\ Len(cmd.message) - i \in Nat /\ cmd.message[i] \in Nat
    <3> TAKE i \in 1 .. Len(cmd.message)
    <3>1. i - 1 \in Nat /\ Len(cmd.message) - i \in Nat /\ cmd.message[i] \in Nat
      BY <2>1
    <3>2. LFS[h][cmd.dst_id] + i \in Int
      BY <2>1, <2>2 DEF SeqNums
    <3> QED BY <3>1, <3>2, Uint8Type
  <2>4. \A i \in 1 .. Len(cmd.message) : new[i] \in Frame
    BY <2>1, <2>3, SeqNumAssumption DEF Fragments, Frame, SeqNums
  <2>5. /\ Len(cmd.message) \in Nat /\ DOMAIN new = 1 .. Len(cmd.message)
        /\ \A i \in 1 .. Len(cmd.message) : new[i].dst_id = cmd.dst_id
        /\ new = [i \in 1 .. Len(cmd.message) |-> new[i]]
    BY <2>1 DEF Fragments
  <2> HIDE DEF new
  <2>6. new \in Seq(Frame)
    BY <2>4, <2>5
  <2> QED BY <2>5, <2>6
<1> HIDE DEF cmd, new
<1>6. ASSUME NEW r \in Hosts, NEW f \in ElementsOf(buffered_outframes'[r])
      PROVE  f \in ElementsOf(buffered_outframes[r]) \/ <<r, f.dst_id>> \in Pairs
  <2>1. buffered_outframes'[r] = IF r = h THEN buffered_outframes[h] \o new
                                 ELSE buffered_outframes[r]
    BY <1>1, <1>2
  <2>2. CASE r # h
    BY <1>6, <2>1, <2>2
  <2>3. CASE r = h
    <3>1. buffered_outframes[h] \in Seq(Frame)
      BY <1>2
    <3>2. ElementsOf(buffered_outframes[h] \o new) =
            ElementsOf(buffered_outframes[h]) \cup ElementsOf(new)
      BY <1>5, <3>1, ElementsConcat
    <3>3. \A e \in ElementsOf(new) : <<h, e.dst_id>> \in Pairs
      BY <1>4, <1>5 DEF ElementsOf
    <3> QED BY <1>6, <2>1, <2>3, <3>2, <3>3
  <2> QED BY <2>2, <2>3
<1> QED BY <1>3, <1>6 DEF NewBuf

LEMMA UserMsgQueue ==
  ASSUME TypeInv, OneWayTraffic, NEW x, NEW y, <<x, y>> \in Pairs, UserMsg(x, y)
  PROVE  NewCmd
<1>1. x \in Hosts /\ y \in Hosts
  BY PairFacts
<1>2. PICK k \in 1 .. MaxFragments :
        input_cmdlist' = [input_cmdlist EXCEPT ![x] =
          Append(@, [dst_id |-> y, message |-> Pieces(x, y, k)])]
  BY DEF UserMsg
<1>3. PICK c : c = [dst_id |-> y, message |-> Pieces(x, y, k)]
  OBVIOUS
<1>4. input_cmdlist \in [Hosts -> Seq(Cmd)]
  BY DEF TypeInv, TypeOK, QueuesTypeOK
<1>5. c \in Cmd
  <2>1. typed[x][y] \in Nat /\ k \in Nat
    BY <1>1, HostTypes, ConfigAssumption
  <2>2. Pieces(x, y, k) \in [1 .. k -> Nat]
    BY <2>1 DEF Pieces
  <2>3. Pieces(x, y, k) \in Seq(Nat)
    BY <2>1, <2>2
  <2> QED BY <1>1, <1>3, <2>3 DEF Cmd
<1>6. c.dst_id = y
  BY <1>3
<1>7. input_cmdlist' = [input_cmdlist EXCEPT ![x] = Append(@, c)]
  BY <1>2, <1>3
<1> QED BY <1>1, <1>4, <1>5, <1>6, <1>7, AppendedElements DEF NewCmd

\* The rest of the queues of a step stay as they are.
LEMMA RoutingNext ==
  ASSUME OneWayTraffic, Inv, [Next]_vars
  PROVE  Routing' /\ NewOut
<1>1. TypeInv /\ Routing
  BY DEF Inv
<1>2. CASE Moves
  <2>1. NewIn /\ NewPort /\ NewOut /\ NewCmd /\ NewBuf /\ NewWin
    BY <1>2, MovesLeave DEF NewIn, NewPort, NewOut, NewCmd, NewBuf, NewWin
  <2> QED BY <1>1, <2>1, RoutingStep
<1>3. CASE ServeIngress
  <2>1. NewIn /\ NewPort
    BY <1>3, ServeQueues
  <2>2. UNCHANGED <<outgoing_frames, input_cmdlist, buffered_outframes, send_window>>
    BY <1>3 DEF ServeIngress, senderVars
  <2>3. NewOut /\ NewCmd /\ NewBuf /\ NewWin
    BY <2>2 DEF NewOut, NewCmd, NewBuf, NewWin
  <2> QED BY <1>1, <2>1, <2>3, RoutingStep
<1>4. CASE SendAck
  <2>1. NewIn /\ NewOut
    BY <1>4, SendAckQueues
  <2>2. UNCHANGED <<ingress, input_cmdlist, buffered_outframes, send_window>>
    BY <1>4 DEF SendAck, senderVars, switchVars
  <2>3. NewPort /\ NewCmd /\ NewBuf /\ NewWin
    BY <2>2 DEF NewPort, NewCmd, NewBuf, NewWin
  <2> QED BY <1>1, <2>1, <2>3, RoutingStep
<1>5. ASSUME NEW p \in Pairs, UserMsg(p[1], p[2])
      PROVE  Routing' /\ NewOut
  <2>1. <<p[1], p[2]>> \in Pairs
    BY ConfigAssumption
  <2>2. NewCmd
    BY <1>1, <1>5, <2>1, UserMsgQueue
  <2>3. UNCHANGED <<ingress, incoming_frames, outgoing_frames, buffered_outframes, send_window>>
    BY <1>5 DEF UserMsg, senderVars, switchVars
  <2>4. NewIn /\ NewPort /\ NewOut /\ NewBuf /\ NewWin
    BY <2>3 DEF NewIn, NewPort, NewOut, NewBuf, NewWin
  <2> QED BY <1>1, <2>2, <2>4, RoutingStep
<1>6. ASSUME NEW h \in Hosts, HandleInputCmd(h)
      PROVE  Routing' /\ NewOut
  <2>1. NewCmd /\ NewBuf
    BY <1>1, <1>6, CommandQueues
  <2>2. UNCHANGED <<ingress, incoming_frames, outgoing_frames, send_window>>
    BY <1>6 DEF HandleInputCmd, switchVars
  <2>3. NewIn /\ NewPort /\ NewOut /\ NewWin
    BY <2>2 DEF NewIn, NewPort, NewOut, NewWin
  <2> QED BY <1>1, <2>1, <2>3, RoutingStep
<1>7. ASSUME NEW h \in Hosts, DropAck(h) \/ AcceptAck(h)
      PROVE  Routing' /\ NewOut
  <2>1. /\ incoming_frames[h] # <<>>
        /\ incoming_frames' = [incoming_frames EXCEPT ![h] = Tail(@)]
        /\ UNCHANGED <<ingress, outgoing_frames, input_cmdlist, buffered_outframes>>
    BY <1>7 DEF DropAck, AcceptAck, AckReady, senderVars, switchVars
  <2>2. NewIn
    BY <1>1, <2>1, PoppedIn
  <2>3. NewPort /\ NewOut /\ NewCmd /\ NewBuf
    BY <2>1 DEF NewPort, NewOut, NewCmd, NewBuf
  <2>4. NewWin
    <3>1. CASE AcceptAck(h)
      BY <1>1, <3>1, AcceptAckWindow
    <3>2. CASE DropAck(h)
      <4>1. send_window' = send_window
        BY <3>2 DEF DropAck, senderVars
      <4> QED BY <4>1 DEF NewWin
    <3> QED BY <1>7, <3>1, <3>2
  <2> QED BY <1>1, <2>2, <2>3, <2>4, RoutingStep
<1>8. ASSUME NEW h \in Hosts, HandleOutgoing(h)
      PROVE  Routing' /\ NewOut
  <2>1. NewOut /\ NewBuf /\ NewWin
    BY <1>8, OutgoingQueues
  <2>2. UNCHANGED <<ingress, incoming_frames, input_cmdlist>>
    BY <1>8 DEF HandleOutgoing, switchVars
  <2>3. NewIn /\ NewPort /\ NewCmd
    BY <2>2 DEF NewIn, NewPort, NewCmd
  <2> QED BY <1>1, <2>1, <2>3, RoutingStep
<1>9. ASSUME NEW h \in Hosts, ForwardFrame(h)
      PROVE  Routing' /\ NewOut
  <2>1. NewIn /\ NewPort /\ NewOut
    BY <1>9, ForwardQueues
  <2>2. UNCHANGED <<input_cmdlist, buffered_outframes, send_window>>
    BY <1>9 DEF ForwardFrame, senderVars
  <2>3. NewCmd /\ NewBuf /\ NewWin
    BY <2>2 DEF NewCmd, NewBuf, NewWin
  <2> QED BY <1>1, <2>1, <2>3, RoutingStep
<1>10. ASSUME NEW h \in Hosts, Corrupted(h) \/ Unstored(h) \/ Store(h) \/ Deliver(h)
       PROVE  Routing' /\ NewOut
  <2>1. UNCHANGED <<ingress, input_cmdlist, buffered_outframes, send_window>>
    BY <1>10 DEF Corrupted, Unstored, Store, Deliver, senderVars, switchVars
  <2>2. NewPort /\ NewCmd /\ NewBuf /\ NewWin
    BY <2>1 DEF NewPort, NewCmd, NewBuf, NewWin
  <2>3. NewIn
    <3>1. CASE Deliver(h)
      BY <3>1 DEF Deliver, NewIn
    <3>2. CASE Corrupted(h) \/ Unstored(h) \/ Store(h)
      <4>1. /\ incoming_frames[h] # <<>>
            /\ incoming_frames' = [incoming_frames EXCEPT ![h] = Tail(@)]
        BY <3>2 DEF Corrupted, Unstored, Store, Popping
      <4> QED BY <1>1, <4>1, PoppedIn
    <3> QED BY <1>10, <3>1, <3>2
  <2>4. NewOut
    <3>1. CASE Corrupted(h)
      BY <3>1 DEF Corrupted, NewOut
    <3> QED BY <1>10, <3>1, ReceiverQueues
  <2> QED BY <1>1, <2>2, <2>3, <2>4, RoutingStep
<1> QED BY <1>2, <1>3, <1>4, <1>5, <1>6, <1>7, <1>8, <1>9, <1>10, Steps

\* The program counter either stays in a half of the round or all the queues
\* to the switch are empty.
LEMMA PhasesNext ==
  ASSUME OneWayTraffic, Inv, [Next]_vars
  PROVE  Phases'
<1>1. TypeInv /\ Phases
  BY DEF Inv
<1>2. \/ stage' = stage \/ stage' = "aborted"
      \/ stage = "senders" /\ stage' = "data"
      \/ stage = "receivers" /\ stage' = "acks"
      \/ stage = "input"
      \/ \A h \in Hosts : outgoing_frames[h] = <<>>
  <2>1. CASE Moves
    BY <2>1 DEF Moves, Wake, Sleep, VisitReceiver, SendersDone, DataDone, ReceiversDone,
       GracefulExit, NoMoreInput, UserExit, StartRound, InputEof, vars, loopVars
  <2>2. CASE ServeIngress \/ SendAck \/ \E p \in Pairs : UserMsg(p[1], p[2])
    BY <2>2 DEF ServeIngress, SendAck, UserMsg, loopVars
  <2>3. ASSUME NEW h \in Hosts,
               \/ HandleInputCmd(h) \/ DropAck(h) \/ AcceptAck(h)
               \/ HandleOutgoing(h) \/ ForwardFrame(h)
               \/ Corrupted(h) \/ Unstored(h) \/ Store(h) \/ Deliver(h)
        PROVE  stage' = stage \/ stage' = "aborted"
    BY <2>3 DEF HandleInputCmd, DropAck, AcceptAck, HandleOutgoing, ForwardFrame, Corrupted,
       Unstored, Store, Deliver, loopVars
  <2> QED BY <2>1, <2>2, <2>3, Steps
<1>3. SUFFICES ASSUME NEW h \in Hosts, NEW f \in ElementsOf(outgoing_frames'[h])
               PROVE  \/ stage' \in {"senders", "data"} /\ f.is_ack = 0
                      \/ stage' \in {"receivers", "acks"} /\ f.is_ack = 1
                      \/ stage' = "aborted"
  BY DEF Phases, ElementsOf
<1>4. \/ f \in ElementsOf(outgoing_frames[h])
      \/ stage' = "senders" /\ f.is_ack = 0
      \/ stage' = "receivers" /\ f.is_ack = 1
  BY RoutingNext DEF NewOut
<1>5. CASE f \in ElementsOf(outgoing_frames[h])
  <2>1. outgoing_frames[h] # <<>>
    BY <1>5, ElementsEmpty
  <2>2. \/ stage \in {"senders", "data"} /\ f.is_ack = 0
        \/ stage \in {"receivers", "acks"} /\ f.is_ack = 1
        \/ stage = "aborted"
    BY <1>1, <1>5 DEF Phases
  <2> QED BY <1>2, <2>1, <2>2
<1> QED BY <1>4, <1>5

\* A data frame read as an ack has the number 0.
LEMMA IdleLARNext ==
  ASSUME OneWayTraffic, Inv, [Next]_vars
  PROVE  IdleLAR'
<1>1. TypeInv /\ Routing /\ IdleLAR
  BY DEF Inv
<1>2. CASE LAR' = LAR
  BY <1>1, <1>2 DEF IdleLAR
<1>3. ASSUME NEW h \in Hosts, AcceptAck(h)
      PROVE  IdleLAR'
  <2> DEFINE f == Head(incoming_frames[h])
  <2>1. incoming_frames[h] # <<>> /\ LAR' = [LAR EXCEPT ![h][f.src_id] = f.ack_num]
    BY <1>3 DEF AcceptAck, AckReady
  <2>2. /\ f \in Frame /\ f.src_id \in Hosts /\ f \in ElementsOf(incoming_frames[h])
        /\ OnPair(f) /\ f.dst_id = h /\ f.is_ack \in {0, 1}
    BY <1>1, <2>1, PoppedFrame
  <2> HIDE DEF f
  <2>3. ASSUME <<h, f.src_id>> \notin Pairs PROVE f.ack_num = 0
    <3>1. f.is_ack = 0 /\ <<f.src_id, h>> \in Pairs
      BY <2>2, <2>3 DEF OnPair
    <3>2. PICK s : s = f.src_id
      OBVIOUS
    <3>3. Reached(s, h)
      BY <3>1, <3>2 DEF Inv
    <3>4. PICK a \in Nat, g \in Nat, t \in Nat, n \in Nat : Progress(s, h, a, g, t, n)
      BY <3>3 DEF Reached
    <3>5. f \in DataFrames(s, h, issued[s][h], receive_window[h][s], g, t)
      BY <2>2, <3>4 DEF Progress, DataLineOK, Line
    <3> QED BY <2>2, <3>1, <3>2, <3>5 DEF DataFrames, DataOf, Genuine
  <2>4. LAR \in [Hosts -> [Hosts -> SeqNums]]
    BY <1>1 DEF TypeInv, TypeOK, SenderTypeOK
  <2>5. ASSUME NEW x \in Hosts, NEW y \in Hosts, <<x, y>> \notin Pairs
        PROVE  LAR'[x][y] \in {uint8(-1), 0}
    <3>1. LAR'[x][y] = IF x = h /\ y = f.src_id THEN f.ack_num ELSE LAR[x][y]
      BY <2>1, <2>2, <2>4
    <3>2. LAR[x][y] \in {uint8(-1), 0}
      BY <1>1, <2>5 DEF IdleLAR
    <3> QED BY <2>3, <2>5, <3>1, <3>2
  <2> QED BY <2>5 DEF IdleLAR
<1>4. CASE Moves
  BY <1>2, <1>4, MovesLeave
<1>5. CASE ServeIngress \/ SendAck \/ \E p \in Pairs : UserMsg(p[1], p[2])
  BY <1>2, <1>5 DEF ServeIngress, SendAck, UserMsg, senderVars
<1>6. ASSUME NEW h \in Hosts,
             \/ HandleInputCmd(h) \/ DropAck(h) \/ HandleOutgoing(h) \/ ForwardFrame(h)
             \/ Corrupted(h) \/ Unstored(h) \/ Store(h) \/ Deliver(h)
      PROVE  LAR' = LAR
  BY <1>6 DEF HandleInputCmd, DropAck, HandleOutgoing, ForwardFrame, Corrupted, Unstored,
     Store, Deliver, senderVars
<1> QED BY <1>2, <1>3, <1>4, <1>5, <1>6, Steps

LEMMA AnswerableNext ==
  ASSUME OneWayTraffic, Inv, [Next]_vars
  PROVE  Answerable'
<1>1. TypeInv /\ Routing /\ Answerable
  BY DEF Inv
<1>2. CASE delivery' = delivery /\ (cur' = cur \/ delivery = NotDelivering)
  BY <1>1, <1>2 DEF Answerable
<1>3. CASE delivery' = NotDelivering
  BY <1>3 DEF Answerable
<1>4. CASE Moves
  <2>1. delivery' = delivery
    BY <1>4, MovesLeave
  <2>2. cur' = cur \/ cur = NoHost
    BY <1>4 DEF Moves, Wake, Sleep, VisitReceiver, SendersDone, DataDone, ReceiversDone,
       GracefulExit, NoMoreInput, UserExit, StartRound, InputEof, vars, loopVars
  <2>3. cur' = cur \/ delivery = NotDelivering
    BY <1>1, <2>2, DeliveryStage
  <2> QED BY <1>2, <2>1, <2>3
<1>5. CASE ServeIngress \/ SendAck \/ \E p \in Pairs : UserMsg(p[1], p[2])
  BY <1>2, <1>5 DEF ServeIngress, SendAck, UserMsg, receiverVars, loopVars
<1>6. ASSUME NEW h \in Hosts, HandleInputCmd(h) \/ DropAck(h) \/ AcceptAck(h) \/ ForwardFrame(h)
      PROVE  delivery' = delivery /\ cur' = cur
  BY <1>6 DEF HandleInputCmd, DropAck, AcceptAck, ForwardFrame, receiverVars, loopVars
<1>7. ASSUME NEW h \in Hosts, HandleOutgoing(h)
      PROVE  delivery' = delivery /\ delivery = NotDelivering
  <2>1. delivery' = delivery /\ stage = "senders"
    BY <1>7 DEF HandleOutgoing, receiverVars
  <2> QED BY <1>1, <2>1, DeliveryStage
<1>8. ASSUME NEW h \in Hosts, Corrupted(h) \/ Unstored(h)
      PROVE  delivery' = delivery /\ delivery = NotDelivering
  BY <1>8 DEF Corrupted, Unstored, Popping, receiverVars
<1>9. ASSUME NEW h \in Hosts, Store(h), delivery' # NotDelivering
      PROVE  Answerable'
  <2> DEFINE f == Head(incoming_frames[h])
  <2>1. /\ incoming_frames[h] # <<>> /\ f.is_ack = 0
        /\ cur' = h /\ delivery'.src_id = f.src_id
    BY <1>9 DEF Store, Popping, NextVisit
  <2>2. f.dst_id = h /\ OnPair(f)
    BY <1>1, <2>1, PoppedFrame
  <2> HIDE DEF f
  <2>3. <<delivery'.src_id, cur'>> \in Pairs
    BY <2>1, <2>2 DEF OnPair
  <2> QED BY <2>3 DEF Answerable
<1>10. ASSUME NEW h \in Hosts, Deliver(h), delivery' # NotDelivering
       PROVE  Answerable'
  <2>1. /\ delivery # NotDelivering /\ cur = h /\ cur' = h
        /\ delivery' = [delivery EXCEPT !.pre_seq = delivery.seq_num]
    BY <1>10 DEF Deliver
  <2>2. delivery'.src_id = delivery.src_id
    BY <1>1, <2>1 DEF TypeInv, TypeOK, ReceiverTypeOK
  <2> QED BY <1>1, <2>1, <2>2 DEF Answerable
<1> QED BY <1>2, <1>3, <1>4, <1>5, <1>6, <1>7, <1>8, <1>9, <1>10, Steps

\* A host at rest, and what Rested says of it.
AtRest(x) == \/ stage \in {"data", "receivers", "acks", "exited"}
             \/ stage = "senders" /\ cur # x /\ x \notin todo

Quiet(x) == /\ input_cmdlist[x] = <<>>
            /\ active[x] = Busy(send_window[x], buffered_outframes[x])

\* A host changes its queues in its own turn only, and its turn ends with an
\* account of them.
LEMMA RestedNext ==
  ASSUME OneWayTraffic, Inv, [Next]_vars
  PROVE  Rested'
<1>1. TypeInv /\ Rested
  BY DEF Inv
<1>2. SUFFICES ASSUME NEW x \in Hosts, AtRest(x)' PROVE Quiet(x)'
  BY DEF Rested, AtRest, Quiet
<1>3. AtRest(x) => Quiet(x)
  BY <1>1 DEF Rested, AtRest, Quiet
<1>4. CASE AtRest(x) /\ UNCHANGED <<input_cmdlist, active, send_window, buffered_outframes>>
  BY <1>3, <1>4 DEF Quiet
<1>5. /\ input_cmdlist \in [Hosts -> Seq(Cmd)] /\ active \in [Hosts -> BOOLEAN]
      /\ send_window \in [Hosts -> [Slots -> Frame \cup {NoFrame}]]
      /\ buffered_outframes \in [Hosts -> Seq(Frame)]
      /\ cur \in Hosts \cup {NoHost} /\ todo \subseteq Hosts
  BY <1>1 DEF TypeInv, TypeOK, LoopTypeOK, QueuesTypeOK, SenderTypeOK
<1>6. x # NoHost
  BY HostsFacts
<1>7. ASSUME NEW h \in Hosts, Wake(h) PROVE Quiet(x)'
  <2>1. /\ stage = "senders" /\ cur = NoHost /\ cur' = h /\ todo' = todo \ {h} /\ stage' = stage
        /\ UNCHANGED <<input_cmdlist, active, send_window, buffered_outframes>>
    BY <1>7 DEF Wake, senderVars
  <2>2. AtRest(x)
    BY <1>2, <1>6, <2>1 DEF AtRest
  <2> QED BY <1>4, <2>1, <2>2
<1>8. ASSUME NEW h \in Hosts, Sleep(h) PROVE Quiet(x)'
  <2>1. /\ stage = "senders" /\ cur = NoHost /\ cur' = cur /\ todo' = todo \ {h} /\ stage' = stage
        /\ input_cmdlist[h] = <<>>
        /\ active' = [active EXCEPT ![h] = Busy(send_window[h], buffered_outframes[h])]
        /\ UNCHANGED <<input_cmdlist, send_window, buffered_outframes>>
    BY <1>8 DEF Sleep, senderVars
  <2>2. CASE x = h
    BY <1>5, <2>1, <2>2 DEF Quiet
  <2>3. CASE x # h
    <3>1. AtRest(x)
      BY <1>2, <1>6, <2>1, <2>3 DEF AtRest
    <3>2. active'[x] = active[x]
      BY <1>5, <2>1, <2>3
    <3> QED BY <1>3, <2>1, <3>1, <3>2 DEF Quiet
  <2> QED BY <2>2, <2>3
<1>9. ASSUME NEW h \in Hosts, HandleInputCmd(h) \/ DropAck(h) \/ AcceptAck(h)
      PROVE  Quiet(x)'
  <2>1. /\ stage = "senders" /\ cur = h /\ UNCHANGED <<stage, cur, todo>>
    BY <1>9 DEF HandleInputCmd, DropAck, AcceptAck, AckReady, loopVars
  <2>2. x # h /\ AtRest(x)
    BY <1>2, <2>1 DEF AtRest
  <2>3. /\ input_cmdlist'[x] = input_cmdlist[x] /\ active'[x] = active[x]
        /\ send_window'[x] = send_window[x]
        /\ buffered_outframes'[x] = buffered_outframes[x]
    BY <1>5, <1>9, <2>2 DEF HandleInputCmd, DropAck, AcceptAck, senderVars
  <2> QED BY <1>3, <2>2, <2>3 DEF Quiet
<1>10. ASSUME NEW h \in Hosts, HandleOutgoing(h) PROVE Quiet(x)'
  <2>1. /\ stage = "senders" /\ cur = h /\ cur' = NoHost /\ input_cmdlist[h] = <<>>
        /\ UNCHANGED <<stage, todo, input_cmdlist>>
        /\ \E m, y, z : Emission(h, m, y, z)
    BY <1>1, <1>10, OutgoingStep
  <2>2. PICK w, b :
          /\ send_window' = [send_window EXCEPT ![h] = w]
          /\ buffered_outframes' = [buffered_outframes EXCEPT ![h] = b]
          /\ active' = [active EXCEPT ![h] = Busy(send_window'[h], buffered_outframes'[h])]
    BY <2>1 DEF Emission
  <2>3. CASE x = h
    BY <1>5, <2>1, <2>2, <2>3 DEF Quiet
  <2>4. CASE x # h
    <3>1. AtRest(x)
      BY <1>2, <2>1, <2>4 DEF AtRest
    <3>2. /\ active'[x] = active[x] /\ send_window'[x] = send_window[x]
          /\ buffered_outframes'[x] = buffered_outframes[x]
      BY <1>5, <2>2, <2>4
    <3> QED BY <1>3, <2>1, <3>1, <3>2 DEF Quiet
  <2> QED BY <2>3, <2>4
<1>11. CASE SendersDone
  <2>1. /\ stage = "senders" /\ todo = {} /\ cur = NoHost
        /\ UNCHANGED <<input_cmdlist, active, send_window, buffered_outframes>>
    BY <1>11 DEF SendersDone, senderVars
  <2>2. AtRest(x)
    BY <1>6, <2>1 DEF AtRest
  <2> QED BY <1>4, <2>1, <2>2
<1>12. CASE \/ DataDone \/ ReceiversDone \/ ServeIngress \/ SendAck
            \/ \E h \in Hosts : \/ VisitReceiver(h) \/ ForwardFrame(h) \/ Corrupted(h)
                                \/ Unstored(h) \/ Store(h) \/ Deliver(h)
  <2>1. /\ stage \in {"data", "receivers", "acks"}
        /\ UNCHANGED <<input_cmdlist, active, send_window, buffered_outframes>>
    BY <1>12 DEF DataDone, ReceiversDone, ServeIngress, SendAck, VisitReceiver, ForwardFrame,
       Corrupted, Unstored, Store, Deliver, Popping, senderVars
  <2>2. AtRest(x)
    BY <2>1 DEF AtRest
  <2> QED BY <1>4, <2>1, <2>2
<1>13. CASE GracefulExit
  <2>1. /\ stage = "acks"
        /\ UNCHANGED <<input_cmdlist, active, send_window, buffered_outframes>>
    BY <1>13 DEF GracefulExit, senderVars
  <2>2. AtRest(x)
    BY <2>1 DEF AtRest
  <2> QED BY <1>4, <2>1, <2>2
<1>14. CASE NoMoreInput \/ UserExit \/ InputEof
  <2>1. (stage' = "senders" /\ todo' = Hosts) \/ stage' = "aborted"
    BY <1>14 DEF NoMoreInput, UserExit, StartRound, InputEof
  <2> QED BY <1>2, <2>1 DEF AtRest
<1>15. CASE \E p \in Pairs : UserMsg(p[1], p[2])
  <2>1. stage' = "input"
    BY <1>15 DEF UserMsg, loopVars
  <2> QED BY <1>2, <2>1 DEF AtRest
<1>16. CASE UNCHANGED vars
  <2>1. AtRest(x) /\ UNCHANGED <<input_cmdlist, active, send_window, buffered_outframes>>
    BY <1>2, <1>16 DEF AtRest, vars, loopVars, senderVars
  <2> QED BY <1>4, <2>1
<1> QED BY <1>7, <1>8, <1>9, <1>10, <1>11, <1>12, <1>13, <1>14, <1>15, <1>16, Steps DEF Moves

LEMMA InvNext ==
  ASSUME OneWayTraffic, Inv, [Next]_vars
  PROVE  Inv'
<1>1. TypeInv'
  BY NextType DEF Inv
<1>2. \A p \in Pairs : Reached(p[1], p[2])'
  BY PairsNext
<1>3. Routing' /\ Phases' /\ IdleLAR' /\ Rested' /\ Answerable'
  BY RoutingNext, PhasesNext, IdleLARNext, RestedNext, AnswerableNext
<1> QED BY <1>1, <1>2, <1>3 DEF Inv

-----------------------------------------------------------------------------
(* The initial states. *)

LEMMA EmptyLine == ASSUME NEW G, NEW R PROVE Line(G, R, <<>>, <<>>, <<>>)
<1>1. ElementsOf(<<>>) = {} /\ Sorted(<<>>, R)
  BY ElementsEmpty, SortedEmpty
<1> QED BY <1>1 DEF Line, InLine, Before

LEMMA InitPair ==
  ASSUME Init, NEW s \in Hosts, NEW d \in Hosts
  PROVE  Reached(s, d)
<1>1. /\ LAR[s][d] = uint8(0 - 1) /\ LFS[s][d] = uint8(0 - 1) /\ NFE[d][s] = uint8(0)
      /\ uint8(0) = 0
  <2>1. 0 - 1 = -1 /\ uint8(0) = 0
    BY Uint8Identity, SeqNumAssumption DEF SeqNums
  <2> QED BY <2>1 DEF Init
<1>2. /\ issued[s][d] = <<>> /\ typed[s][d] = 0 /\ input_cmdlist[s] = <<>>
      /\ buffered_outframes[s] = <<>> /\ printed[d][s] = <<>> /\ emptyCharArray[d][s] = <<>>
      /\ incoming_frames[s] = <<>> /\ incoming_frames[d] = <<>> /\ ingress[d] = <<>>
      /\ outgoing_frames[s] = <<>> /\ outgoing_frames[d] = <<>>
      /\ delivery = NotDelivering
  BY DEF Init
<1>3. Occupied(send_window[s]) = {} /\ Occupied(receive_window[d][s]) = {}
  BY DEF Init, Occupied, HasFrame
<1>4. EndOf(<<>>, 0) = 0 /\ Len(<<>>) = 0
  BY DEF EndOf
<1>5. Consecutive(<<>>, 0)
  BY <1>4 DEF Consecutive
<1>6. CommandsOK(d, <<>>, <<>>, 0) /\ BufferOK(s, d, <<>>, <<>>, 0, 0)
  BY <1>4 DEF CommandsOK, BufferOK
<1>7. WindowOK(s, d, <<>>, send_window[s], 0, 0)
  BY <1>3 DEF WindowOK
<1>8. PrintedOK(<<>>, <<>>, <<>>, 0)
  BY <1>4 DEF PrintedOK
<1>9. StoreOK(s, d, <<>>, receive_window[d][s], 0, 0)
  BY <1>3 DEF StoreOK
<1>10. Delivered(s, d) = 1 .. 0
  <2>1. ElementsOf(<<>>) = {}
    BY ElementsEmpty
  <2> QED BY <1>2, <2>1 DEF Delivered
<1>11. SenderOK(s, d, 0, 0, 0)
  BY <1>1, <1>2, <1>6, <1>7 DEF SenderOK
<1>12. ReceiverOK(s, d, 0, 0)
  BY <1>1, <1>2, <1>8, <1>9, <1>10 DEF ReceiverOK
<1>13. DataLineOK(s, d, 0, 0) /\ AckLineOK(s, d, 0, 0)
  BY <1>2, EmptyLine DEF DataLineOK, AckLineOK
<1>14. Progress(s, d, 0, 0, 0, 0)
  BY <1>2, <1>5, <1>11, <1>12, <1>13 DEF Progress
<1> QED BY <1>14 DEF Reached

LEMMA InvInit ==
  ASSUME OneWayTraffic, Init
  PROVE  Inv
<1>1. TypeInv
  BY InitType
<1>2. \A p \in Pairs : Reached(p[1], p[2])
  <2>1. \A p \in Pairs : p[1] \in Hosts /\ p[2] \in Hosts
    BY ConfigAssumption
  <2> QED BY <2>1, InitPair
<1>3. Routing
  BY ElementsEmpty DEF Init, Routing, Occupied, HasFrame
<1>4. Phases
  BY ElementsEmpty DEF Init, Phases
<1>5. IdleLAR
  BY DEF Init, IdleLAR
<1>6. Rested /\ Answerable
  BY DEF Init, Rested, Answerable
<1> QED BY <1>1, <1>2, <1>3, <1>4, <1>5, <1>6 DEF Inv

LEMMA InvCounts ==
  ASSUME OneWayTraffic, Inv, NEW s, NEW d, <<s, d>> \in Pairs
  PROVE  \E a, g, t, n \in 0 .. typed[s][d] : At(s, d, a, g, t, n)
<1>1. PICK p \in Pairs : p = <<s, d>>
  OBVIOUS
<1>2. Reached(s, d)
  BY <1>1 DEF Inv
<1>3. PICK a \in Nat, g \in Nat, t \in Nat, n \in Nat : Progress(s, d, a, g, t, n)
  BY <1>2 DEF Reached
<1>4. At(s, d, a, g, t, n)
  BY <1>3 DEF At
<1>5. a <= g /\ g <= t /\ t <= n /\ n <= typed[s][d]
  BY <1>4, AtCounts
<1>6. typed[s][d] \in Nat
  BY <1>4, AtPair, HostTypes
<1>7. /\ a \in 0 .. typed[s][d] /\ g \in 0 .. typed[s][d]
      /\ t \in 0 .. typed[s][d] /\ n \in 0 .. typed[s][d]
  BY <1>5, <1>6
<1> QED BY <1>4, <1>7

LEMMA InvTransfer ==
  ASSUME OneWayTraffic, Inv
  PROVE  TransferInv
<1>1. ASSUME NEW p \in Pairs
      PROVE  \E numbered \in 0 .. typed[p[1]][p[2]] : \E sent \in 0 .. numbered :
               \E got \in 0 .. sent : \E acked \in 0 .. got :
                 Progress(p[1], p[2], acked, got, sent, numbered)
  <2>1. PICK s, d : s = p[1] /\ d = p[2]
    OBVIOUS
  <2>2. <<s, d>> \in Pairs
    BY <2>1, ConfigAssumption
  <2>3. PICK a, g, t, n \in 0 .. typed[s][d] : At(s, d, a, g, t, n)
    BY <2>2, InvCounts
  <2>4. Progress(s, d, a, g, t, n)
    BY <2>3 DEF At
  <2>5. a \in 0 .. g /\ g \in 0 .. t /\ t \in 0 .. n
    BY <2>3, AtCounts
  <2> QED BY <2>1, <2>3, <2>4, <2>5
<1> QED BY <1>1 DEF Inv, TransferInv

LEMMA InvAlways == ASSUME OneWayTraffic PROVE Spec => []Inv
<1>1. Init => Inv
  BY InvInit
<1>2. Inv /\ [Next]_vars => Inv'
  BY InvNext
<1> QED BY <1>1, <1>2, PTL DEF Spec

\* The invariant of a one-way transfer, for any number of hosts, any window up
\* to half the sequence numbers, any rate, capacity and loss: at every moment
\* four counts say what of the text is acknowledged, delivered, sent and
\* numbered, and everything the two ends and the switch hold agrees with them.
THEOREM TransferCorrect == ASSUME OneWayTraffic PROVE Spec => []TransferInv
<1>1. Inv => TransferInv
  BY InvTransfer
<1> QED BY <1>1, InvAlways, PTL

-----------------------------------------------------------------------------
(* What follows from it. *)

LEMMA AckedIsDeliveredFact ==
  ASSUME OneWayTraffic, Inv
  PROVE  AckedIsDelivered
<1> SUFFICES ASSUME NEW s, NEW d, <<s, d>> \in Pairs
             PROVE  seq_num_diff(uint8(LAR[s][d] + 1), NFE[d][s]) \in 0 .. window_size
  <2>1. \A p \in Pairs : p = <<p[1], p[2]>>
    BY ConfigAssumption
  <2> QED BY <2>1 DEF AckedIsDelivered
<1>1. PICK a, g, t, n \in 0 .. typed[s][d] : At(s, d, a, g, t, n)
  BY InvCounts
<1>2. /\ a \in Nat /\ g \in Nat /\ a <= g /\ g <= a + window_size
      /\ window_size <= HALF_SEQ_NUM /\ window_size \in Nat /\ HALF_SEQ_NUM \in Nat
  <2>1. /\ a \in Nat /\ g \in Nat /\ t \in Nat /\ a <= g /\ g <= t
        /\ t <= a + window_size
    BY <1>1, AtCounts
  <2>2. window_size <= HALF_SEQ_NUM
    BY <1>1, AtPair
  <2>3. window_size \in Nat /\ HALF_SEQ_NUM \in Nat
    BY ConfigAssumption, HalfBounds
  <2> QED BY <2>1, <2>2, <2>3
<1>3. LAR[s][d] = uint8(a - 1) /\ NFE[d][s] = uint8(g)
  BY <1>1, AtParts DEF SenderOK, ReceiverOK
<1>4. uint8(uint8(a - 1) + 1) = uint8(a)
  <2>1. a - 1 \in Int /\ (a - 1) + 1 = a
    BY <1>2
  <2> QED BY <2>1, Uint8Absorbs
<1>5. g - a \in -HALF_SEQ_NUM .. HALF_SEQ_NUM /\ a + (g - a) = g /\ g - a \in 0 .. window_size
  BY <1>2
<1>6. seq_num_diff(uint8(a), uint8(a + (g - a))) = g - a
  BY <1>2, <1>5, DistanceRecovered
<1> QED BY <1>3, <1>4, <1>5, <1>6

\* What a sender takes for acknowledged the receiver has delivered, and it
\* lags behind by no more than a window: LAR and NFE, each 8 bits kept by a
\* host of its own (sender.c, receiver.c), never disagree by more than the
\* frames under way.
THEOREM AckedIsDeliveredAlways ==
  ASSUME OneWayTraffic
  PROVE  Spec => []AckedIsDelivered
<1>1. Inv => AckedIsDelivered
  BY AckedIsDeliveredFact
<1> QED BY <1>1, InvAlways, PTL

LEMMA UnambiguousFact ==
  ASSUME OneWayTraffic, Inv
  PROVE  SeqNumsUnambiguous
<1> SUFFICES ASSUME NEW d \in Hosts, NEW f \in OnTheWay(d)
             PROVE  seq_num_diff(NFE[d][f.src_id], f.seq_num)
                      = f.data - (Cardinality(Delivered(f.src_id, d)) + 1)
  BY DEF SeqNumsUnambiguous
<1>1. TypeInv /\ Routing
  BY DEF Inv
<1>2. f.is_ack = 0 /\ f.dst_id = d
  BY DEF OnTheWay
<1>3. PICK s : s = f.src_id
  OBVIOUS
<1>4. /\ <<s, d>> \in Pairs
      /\ f \in ElementsOf(ingress[d]) \cup ElementsOf(incoming_frames[d])
               \cup ElementsOf(outgoing_frames[s])
  <2>1. CASE f \in ElementsOf(ingress[d]) \cup ElementsOf(incoming_frames[d])
    <3>1. OnPair(f)
      BY <1>1, <2>1 DEF Routing
    <3> QED BY <1>2, <1>3, <2>1, <3>1 DEF OnPair
  <2>2. ASSUME NEW h \in Hosts, f \in ElementsOf(outgoing_frames[h])
        PROVE  OnPair(f) /\ f.src_id = h
    BY <1>1, <2>2 DEF Routing
  <2>3. \/ f \in ElementsOf(ingress[d]) \cup ElementsOf(incoming_frames[d])
        \/ \E h \in Hosts : f \in ElementsOf(outgoing_frames[h])
    BY DEF OnTheWay
  <2> QED BY <1>2, <1>3, <2>1, <2>2, <2>3 DEF OnPair
<1>5. PICK a, g, t, n \in 0 .. typed[s][d] : At(s, d, a, g, t, n)
  BY <1>4, InvCounts
<1>6. /\ a \in Nat /\ g \in Nat /\ t \in Nat /\ a <= g /\ t <= a + window_size
      /\ window_size <= HALF_SEQ_NUM
  BY <1>5, AtCounts, AtPair
<1>7. f \in DataFrames(s, d, issued[s][d], receive_window[d][s], g, t)
  <2>1. DataLineOK(s, d, g, t)
    BY <1>5, AtParts
  <2> QED BY <1>4, <2>1 DEF DataLineOK, Line
<1>8. DataOf(s, d, f)
  BY <1>2, <1>3 DEF DataOf
<1>9. seq_num_diff(uint8(g), f.seq_num) = f.data - (g + 1)
  BY <1>6, <1>7, <1>8, FlyingDistance
<1>10. NFE[d][s] = uint8(g) /\ Delivered(s, d) = 1 .. g
  BY <1>5, AtParts DEF ReceiverOK
<1>11. Cardinality(1 .. g) = g
  BY <1>6, FS_Interval
<1> QED BY <1>3, <1>9, <1>10, <1>11

\* The 8-bit number of every data frame under way tells the receiver exactly
\* how far the frame is from the one it expects: no old frame is taken for a
\* new one after the numbers wrap around, however much is sent.
THEOREM SeqNumsUnambiguousAlways ==
  ASSUME OneWayTraffic
  PROVE  Spec => []SeqNumsUnambiguous
<1>1. Inv => SeqNumsUnambiguous
  BY UnambiguousFact
<1> QED BY <1>1, InvAlways, PTL

\* An ack of the pair, with the number of pieces it stands for.
LEMMA AckCount ==
  ASSUME OneWayTraffic, Inv, NEW h \in Hosts, NEW f \in ElementsOf(incoming_frames[h]),
         NEW x, x = f.src_id, <<h, x>> \in Pairs
  PROVE  \E a, g, t, n, c \in Nat :
           /\ At(h, x, a, g, t, n) /\ f.is_ack = 1
           /\ a <= c /\ c <= g /\ f.ack_num = uint8(c - 1)
<1>1. PICK a, g, t, n \in 0 .. typed[h][x] : At(h, x, a, g, t, n)
  BY InvCounts
<1>2. TypeInv /\ Routing /\ h \in Hosts /\ x \in Hosts /\ <<x, h>> \notin Pairs
  BY <1>1, AtPair
<1>3. a \in Nat /\ g \in Nat /\ t \in Nat /\ n \in Nat
  BY <1>1, AtCounts
<1>4. incoming_frames[h] \in Seq(Frame)
  BY <1>2, HostTypes
<1>5. f \in Frame
  BY <1>4, ElementsIn
<1>6. f.is_ack \in {0, 1} /\ f.ack_num \in SeqNums
  BY <1>5 DEF Frame
<1>7. OnPair(f) /\ f.dst_id = h
  BY <1>2 DEF Routing
<1>8. f.is_ack = 1
  BY <1>2, <1>6, <1>7 DEF OnPair
<1>9. AckOf(h, x, f)
  BY <1>7, <1>8 DEF AckOf
<1> DEFINE c == Acknowledges(a, f.ack_num)
<1>10. c <= g
  <2>1. AckLineOK(h, x, a, g)
    BY <1>1, AtParts
  <2>2. f \in AckFrames(h, x, a, g)
    BY <2>1 DEF AckLineOK, Line
  <2> QED BY <1>9, <2>2 DEF AckFrames
<1>11. c \in Int /\ a <= c
  <2>1. a \in Int /\ f.ack_num \in Int
    BY <1>3, <1>6 DEF SeqNums
  <2> QED BY <2>1, AcknowledgesType
<1>12. uint8(c - 1) = f.ack_num
  BY <1>3, <1>6, AcknowledgesNumber
<1> HIDE DEF c
<1>13. c \in Nat
  BY <1>3, <1>11
<1> QED BY <1>1, <1>3, <1>8, <1>10, <1>11, <1>12, <1>13

LEMMA UsefulAckFact ==
  ASSUME OneWayTraffic, Inv
  PROVE  UsefulAckAccepted
<1> SUFFICES ASSUME NEW h \in Hosts, NEW f \in ElementsOf(incoming_frames[h]), f.is_ack = 1
             PROVE  ~AckRejected(f.ack_num, LAR[h][f.src_id], LFS[h][f.src_id])
  BY DEF UsefulAckAccepted
<1>1. PICK x : x = f.src_id
  OBVIOUS
<1>2. <<h, x>> \in Pairs
  BY <1>1 DEF Inv, Routing, OnPair
<1>3. PICK a, g, t, n, c \in Nat :
        /\ At(h, x, a, g, t, n) /\ a <= c /\ c <= g /\ f.ack_num = uint8(c - 1)
  BY <1>1, <1>2, AckCount
<1>4. LAR[h][x] = uint8(a - 1)
  BY <1>3, AtParts DEF SenderOK
<1>5. LFS[h][x] \in SeqNums
  BY <1>3, AtPair, HostTypes
<1>6. /\ a - 1 \in Int /\ c - a \in 0 .. HALF_SEQ_NUM /\ (a - 1) + (c - a) = c - 1
  <2>1. /\ a \in Nat /\ c \in Nat /\ g \in Nat /\ t \in Nat /\ a <= c /\ c <= g /\ g <= t
        /\ t <= a + window_size
    BY <1>3, AtCounts
  <2>2. window_size <= HALF_SEQ_NUM
    BY <1>3, AtPair
  <2>3. window_size \in Nat /\ HALF_SEQ_NUM \in Nat
    BY ConfigAssumption, HalfBounds
  <2> QED BY <2>1, <2>2, <2>3
<1>7. ~AckRejected(uint8((a - 1) + (c - a)), uint8(a - 1), LFS[h][x])
  BY <1>5, <1>6, AheadAckAccepted
<1> QED BY <1>1, <1>3, <1>4, <1>6, <1>7

\* An ack for a frame of the window is accepted, however far LFS has run ahead
\* of LAR with frames that are only buffered.
THEOREM UsefulAckAcceptedAlways ==
  ASSUME OneWayTraffic
  PROVE  Spec => []UsefulAckAccepted
<1>1. Inv => UsefulAckAccepted
  BY UsefulAckFact
<1> QED BY <1>1, InvAlways, PTL

\* On the circle 0 is one ahead of the initial LAR, and no number is ahead of
\* itself.
LEMMA NearDistances ==
  /\ seq_num_diff(uint8(-1), 0) = 1
  /\ \A u \in SeqNums : seq_num_diff(u, u) = 0
<1>1. HALF_SEQ_NUM \in Nat /\ HALF_SEQ_NUM >= 1
  BY HalfBounds, SeqNumAssumption
<1>2. uint8(0) = 0 /\ \A u \in SeqNums : uint8(u) = u
  BY Uint8Identity, SeqNumAssumption DEF SeqNums
<1>3. seq_num_diff(uint8(-1), uint8(-1 + 1)) = 1
  <2>1. -1 \in Int /\ 1 \in -HALF_SEQ_NUM .. HALF_SEQ_NUM
    BY <1>1
  <2> QED BY <2>1, DistanceRecovered
<1>4. -1 + 1 = 0
  OBVIOUS
<1>5. ASSUME NEW u \in SeqNums PROVE seq_num_diff(u, u) = 0
  <2>1. u \in Int /\ 0 \in -HALF_SEQ_NUM .. HALF_SEQ_NUM /\ u + 0 = u
    BY <1>1 DEF SeqNums
  <2>2. seq_num_diff(uint8(u), uint8(u + 0)) = 0
    BY <2>1, DistanceRecovered
  <2> QED BY <1>2, <2>1, <2>2
<1> QED BY <1>2, <1>3, <1>4, <1>5

\* A frame from a host that h does not type to acknowledges nothing: it is
\* data, and its ack_num was never set.
LEMMA StrangeAck ==
  ASSUME OneWayTraffic, Inv, NEW h \in Hosts, NEW f \in ElementsOf(incoming_frames[h]),
         NEW x, x = f.src_id, <<h, x>> \notin Pairs
  PROVE  f.ack_num = 0
<1>1. f \in Frame /\ f.is_ack \in {0, 1}
  <2>1. incoming_frames[h] \in Seq(Frame)
    BY HostTypes DEF Inv
  <2>2. f \in Frame
    BY <2>1, ElementsIn
  <2> QED BY <2>2 DEF Frame
<1>2. OnPair(f) /\ f.dst_id = h
  BY DEF Inv, Routing
<1>3. f.is_ack = 0 /\ <<x, h>> \in Pairs
  BY <1>1, <1>2 DEF OnPair
<1>4. PICK a, g, t, n \in 0 .. typed[x][h] : At(x, h, a, g, t, n)
  BY <1>3, InvCounts
<1>5. f \in DataFrames(x, h, issued[x][h], receive_window[h][x], g, t)
  BY <1>4, AtParts DEF DataLineOK, Line
<1> QED BY <1>2, <1>3, <1>5 DEF DataFrames, DataOf, Genuine

LEMMA AckForward ==
  ASSUME OneWayTraffic, Inv, NEW h \in Hosts, NEW f \in ElementsOf(incoming_frames[h]),
         NEW x, x = f.src_id
  PROVE  seq_num_diff(LAR[h][x], f.ack_num) >= 0
<1>1. CASE <<h, x>> \in Pairs
  <2>1. PICK a, g, t, n, c \in Nat :
          /\ At(h, x, a, g, t, n) /\ a <= c /\ c <= g /\ f.ack_num = uint8(c - 1)
    BY <1>1, AckCount
  <2>2. LAR[h][x] = uint8(a - 1)
    BY <2>1, AtParts DEF SenderOK
  <2>3. /\ a - 1 \in Int /\ c - a \in -HALF_SEQ_NUM .. HALF_SEQ_NUM
        /\ (a - 1) + (c - a) = c - 1 /\ c - a >= 0
    <3>1. /\ a \in Nat /\ c \in Nat /\ g \in Nat /\ t \in Nat /\ a <= c /\ c <= g /\ g <= t
          /\ t <= a + window_size
      BY <2>1, AtCounts
    <3>2. window_size <= HALF_SEQ_NUM
      BY <2>1, AtPair
    <3>3. window_size \in Nat /\ HALF_SEQ_NUM \in Nat
      BY ConfigAssumption, HalfBounds
    <3> QED BY <3>1, <3>2, <3>3
  <2>4. seq_num_diff(uint8(a - 1), uint8((a - 1) + (c - a))) = c - a
    BY <2>3, DistanceRecovered
  <2> QED BY <2>1, <2>2, <2>3, <2>4
<1>2. CASE <<h, x>> \notin Pairs
  <2>1. f.ack_num = 0
    BY <1>2, StrangeAck
  <2>2. x \in Hosts
    <3>1. incoming_frames[h] \in Seq(Frame)
      BY HostTypes DEF Inv
    <3>2. f \in Frame
      BY <3>1, ElementsIn
    <3> QED BY <3>2 DEF Frame
  <2>3. LAR[h][x] \in {uint8(-1), 0}
    BY <1>2, <2>2 DEF Inv, IdleLAR
  <2>4. 0 \in SeqNums
    BY SeqNumAssumption DEF SeqNums
  <2> QED BY <2>1, <2>3, <2>4, NearDistances
<1> QED BY <1>1, <1>2

LEMMA LarForward ==
  ASSUME OneWayTraffic, Inv, [Next]_vars
  PROVE  \A h, g \in Hosts : seq_num_diff(LAR[h][g], LAR'[h][g]) >= 0
<1> TAKE x, y \in Hosts
<1>1. TypeInv
  BY DEF Inv
<1>2. CASE LAR' = LAR
  <2>1. LAR[x][y] \in SeqNums
    BY <1>1, HostTypes
  <2> QED BY <1>2, <2>1, NearDistances
<1>3. ASSUME NEW h \in Hosts, AcceptAck(h)
      PROVE  seq_num_diff(LAR[x][y], LAR'[x][y]) >= 0
  <2>1. PICK f : f = Head(incoming_frames[h])
    OBVIOUS
  <2>2. incoming_frames[h] # <<>> /\ LAR' = [LAR EXCEPT ![h][f.src_id] = f.ack_num]
    BY <1>3, <2>1 DEF AcceptAck, AckReady
  <2>3. f \in ElementsOf(incoming_frames[h]) /\ f.src_id \in Hosts
    BY <1>1, <2>1, <2>2, PoppedFrame DEF Inv
  <2>4. LAR \in [Hosts -> [Hosts -> SeqNums]]
    BY <1>1 DEF TypeInv, TypeOK, SenderTypeOK
  <2>5. LAR'[x][y] = IF x = h /\ y = f.src_id THEN f.ack_num ELSE LAR[x][y]
    BY <2>2, <2>3, <2>4
  <2>6. CASE x = h /\ y = f.src_id
    BY <2>3, <2>5, <2>6, AckForward
  <2>7. CASE ~(x = h /\ y = f.src_id)
    <3>1. LAR[x][y] \in SeqNums /\ LAR'[x][y] = LAR[x][y]
      BY <2>4, <2>5, <2>7
    <3> QED BY <3>1, NearDistances
  <2> QED BY <2>6, <2>7
<1>4. CASE Moves
  BY <1>2, <1>4, MovesLeave
<1>5. CASE ServeIngress \/ SendAck \/ \E p \in Pairs : UserMsg(p[1], p[2])
  BY <1>2, <1>5 DEF ServeIngress, SendAck, UserMsg, senderVars
<1>6. ASSUME NEW h \in Hosts,
             \/ HandleInputCmd(h) \/ DropAck(h) \/ HandleOutgoing(h) \/ ForwardFrame(h)
             \/ Corrupted(h) \/ Unstored(h) \/ Store(h) \/ Deliver(h)
      PROVE  LAR' = LAR
  BY <1>6 DEF HandleInputCmd, DropAck, HandleOutgoing, ForwardFrame, Corrupted, Unstored,
     Store, Deliver, senderVars
<1> QED BY <1>2, <1>3, <1>4, <1>5, <1>6, Steps

\* LAR only moves forward on the circle of sequence numbers, over any number of
\* turns of it: no old, reordered or repeated ack takes a sender back, and
\* neither does a data frame that is read as an ack.
THEOREM LarNeverBackAlways ==
  ASSUME OneWayTraffic
  PROVE  Spec => LarNeverBack
<1>1. Inv /\ [Next]_vars => \A h, g \in Hosts : seq_num_diff(LAR[h][g], LAR'[h][g]) >= 0
  BY LarForward
<1> QED BY <1>1, InvAlways, PTL DEF Spec, LarNeverBack

\* A program that has exited has no host with work left, and stays as it is.
ExitIdle == stage = "exited" => \A h \in Hosts : ~active[h]

LEMMA ExitNext ==
  ASSUME ExitIdle, [Next]_vars
  PROVE  ExitIdle'
<1>1. CASE UNCHANGED vars
  BY <1>1 DEF ExitIdle, vars, loopVars
<1>2. CASE GracefulExit
  BY <1>2 DEF ExitIdle, GracefulExit
<1>3. ASSUME NEW h \in Hosts, Wake(h) \/ Sleep(h) \/ VisitReceiver(h)
      PROVE  stage' # "exited"
  BY <1>3 DEF Wake, Sleep, VisitReceiver
<1>4. CASE SendersDone \/ DataDone \/ ReceiversDone \/ NoMoreInput \/ UserExit \/ InputEof
           \/ ServeIngress \/ SendAck \/ \E p \in Pairs : UserMsg(p[1], p[2])
  <2>1. CASE SendersDone \/ DataDone \/ ReceiversDone \/ InputEof
    BY <2>1 DEF ExitIdle, SendersDone, DataDone, ReceiversDone, InputEof
  <2>2. CASE NoMoreInput \/ UserExit
    BY <2>2 DEF ExitIdle, NoMoreInput, UserExit, StartRound
  <2>3. CASE ServeIngress
    BY <2>3 DEF ExitIdle, ServeIngress
  <2>4. CASE SendAck
    BY <2>4 DEF ExitIdle, SendAck
  <2>5. CASE \E p \in Pairs : UserMsg(p[1], p[2])
    BY <2>5 DEF ExitIdle, UserMsg, loopVars
  <2> QED BY <1>4, <2>1, <2>2, <2>3, <2>4, <2>5
<1>5. ASSUME NEW h \in Hosts,
             \/ HandleInputCmd(h) \/ DropAck(h) \/ AcceptAck(h) \/ HandleOutgoing(h)
             \/ ForwardFrame(h) \/ Corrupted(h) \/ Unstored(h) \/ Store(h) \/ Deliver(h)
      PROVE  stage' # "exited"
  BY <1>5 DEF HandleInputCmd, DropAck, AcceptAck, AckReady, HandleOutgoing, ForwardFrame,
     Corrupted, Unstored, Store, Deliver, Popping, loopVars
<1> QED BY <1>1, <1>2, <1>3, <1>4, <1>5, Steps DEF Moves, ExitIdle

\* A sender with nothing left has had everything delivered.
LEMMA AllDelivered ==
  ASSUME NEW s, NEW d, NEW a, NEW g, NEW t, NEW n, At(s, d, a, g, t, n),
         input_cmdlist[s] = <<>>, ~Busy(send_window[s], buffered_outframes[s])
  PROVE  g = typed[s][d]
<1>1. /\ a \in Nat /\ g \in Nat /\ t \in Nat /\ n \in Nat
      /\ a <= g /\ g <= t /\ t <= n
  BY AtCounts
<1>2. /\ CommandsOK(d, issued[s][d], input_cmdlist[s], n)
      /\ BufferOK(s, d, issued[s][d], buffered_outframes[s], t, n)
      /\ WindowOK(s, d, issued[s][d], send_window[s], a, t)
      /\ Consecutive(issued[s][d], typed[s][d])
  BY AtParts DEF SenderOK
<1>3. s \in Hosts /\ d \in Hosts /\ TypeInv
  BY AtPair
<1>4. issued[s][d] \in Seq(Seq(Nat))
  BY <1>3, HostTypes
<1>5. n = typed[s][d]
  <2>1. n = EndOf(issued[s][d], Len(issued[s][d]) - Len(input_cmdlist[s]))
    BY <1>2 DEF CommandsOK
  <2>2. Len(issued[s][d]) - Len(input_cmdlist[s]) = Len(issued[s][d])
    BY <1>4
  <2>3. EndOf(issued[s][d], Len(issued[s][d])) = typed[s][d]
    BY <1>2 DEF Consecutive
  <2> QED BY <2>1, <2>2, <2>3
<1>6. n = t
  <2>1. buffered_outframes[s] = <<>>
    BY DEF Busy
  <2>2. n = t + Len(buffered_outframes[s]) /\ Len(<<>>) = 0
    BY <1>2 DEF BufferOK
  <2> QED BY <1>1, <2>1, <2>2
<1>7. t <= a
  <2>1. Occupied(send_window[s]) = {}
    BY DEF Busy
  <2>2. \A k \in a + 1 .. t : FALSE
    BY <1>2, <2>1 DEF WindowOK
  <2>3. t > a => t \in a + 1 .. t
    BY <1>1
  <2> QED BY <1>1, <2>2, <2>3
<1> QED BY <1>1, <1>5, <1>6, <1>7

\* A receiver that has delivered everything has printed every message.
LEMMA AllPrinted ==
  ASSUME NEW s, NEW d, NEW a, NEW g, NEW t, NEW n, At(s, d, a, g, t, n),
         g = typed[s][d]
  PROVE  printed[d][s] = issued[s][d]
<1> DEFINE M == issued[s][d]
           R == printed[d][s]
           x == emptyCharArray[d][s]
           p == Len(R)
<1>1. s \in Hosts /\ d \in Hosts /\ TypeInv
  BY AtPair
<1>2. M \in Seq(Seq(Nat)) /\ R \in Seq(Seq(Nat)) /\ x \in Seq(Nat) /\ typed[s][d] \in Nat
  BY <1>1, HostTypes
<1>3. PrintedOK(M, R, x, g) /\ Consecutive(M, typed[s][d])
  BY AtParts DEF ReceiverOK
<1> HIDE DEF M, R, x
<1>4. Len(M) \in Nat /\ p \in Nat /\ p <= Len(M)
  BY <1>2, <1>3 DEF PrintedOK
<1>5. /\ \A m \in 0 .. Len(M) : EndOf(M, m) \in Nat /\ EndOf(M, m) <= typed[s][d]
      /\ \A l, m \in 0 .. Len(M) : l < m => EndOf(M, l) < EndOf(M, m)
  BY <1>2, <1>3, EndOfType
<1>6. x = <<>>
  <2>1. SUFFICES ASSUME x # <<>> PROVE FALSE
    OBVIOUS
  <2>2. p < Len(M) /\ g < EndOf(M, p + 1)
    BY <1>3, <2>1 DEF PrintedOK
  <2>3. p + 1 \in 0 .. Len(M)
    BY <1>4, <2>2
  <2> QED BY <1>2, <1>5, <2>2, <2>3
<1>7. g = EndOf(M, p)
  <2>1. g = EndOf(M, p) + Len(x) /\ Len(<<>>) = 0
    BY <1>3 DEF PrintedOK
  <2>2. p \in 0 .. Len(M)
    BY <1>4
  <2> QED BY <1>5, <1>6, <2>1, <2>2
<1>8. p = Len(M)
  <2>1. EndOf(M, Len(M)) = typed[s][d]
    BY <1>3 DEF Consecutive
  <2>2. p \in 0 .. Len(M) /\ Len(M) \in 0 .. Len(M)
    BY <1>4
  <2>3. EndOf(M, p) \in Nat /\ (p < Len(M) => EndOf(M, p) < EndOf(M, Len(M)))
    BY <1>5, <2>2
  <2>4. ~(p < Len(M))
    BY <1>7, <2>1, <2>3, <1>3 DEF Consecutive
  <2> QED BY <1>4, <2>4
<1>9. \A i \in 1 .. p : R[i] = M[i]
  BY <1>3 DEF PrintedOK
<1>10. R = M
  <2>1. Len(R) = Len(M) /\ \A i \in 1 .. Len(M) : R[i] = M[i]
    BY <1>8, <1>9
  <2>2. R = [i \in 1 .. Len(M) |-> R[i]] /\ M = [i \in 1 .. Len(M) |-> M[i]]
    BY <1>2, <2>1
  <2> QED BY <2>1, <2>2
<1> QED BY <1>10 DEF M, R

LEMMA CleanExitFact ==
  ASSUME OneWayTraffic, Inv, ExitIdle
  PROVE  CleanExit
<1> SUFFICES ASSUME stage = "exited", NEW s, NEW d, <<s, d>> \in Pairs
             PROVE  printed[d][s] = issued[s][d]
  <2>1. \A p \in Pairs : p = <<p[1], p[2]>>
    BY ConfigAssumption
  <2> QED BY <2>1 DEF CleanExit
<1>1. PICK a, g, t, n \in 0 .. typed[s][d] : At(s, d, a, g, t, n)
  BY InvCounts
<1>2. s \in Hosts
  BY <1>1, AtPair
<1>3. /\ input_cmdlist[s] = <<>> /\ ~active[s]
      /\ active[s] = Busy(send_window[s], buffered_outframes[s])
  BY <1>2 DEF Inv, Rested, ExitIdle
<1>4. g = typed[s][d]
  BY <1>1, <1>3, AllDelivered
<1> QED BY <1>1, <1>4, AllPrinted

\* graceful_exit (run_main.c) looks at the active flags only, and a host sets
\* its own at the end of its turn: yet when the program exits every message has
\* been printed.
THEOREM CleanExitAlways ==
  ASSUME OneWayTraffic
  PROVE  Spec => []CleanExit
<1>1. Init => ExitIdle
  BY DEF Init, ExitIdle
<1>2. ExitIdle /\ [Next]_vars => ExitIdle'
  BY ExitNext
<1>3. Inv /\ ExitIdle => CleanExit
  BY CleanExitFact
<1> QED BY <1>1, <1>2, <1>3, InvAlways, PTL DEF Spec

\* Every piece is in one of the messages.
LEMMA PieceMessage ==
  ASSUME NEW M \in Seq(Seq(Nat)), NEW last \in Nat, Consecutive(M, last),
         NEW k \in 1 .. last
  PROVE  \E m \in 1 .. Len(M) :
           /\ EndOf(M, m - 1) < k /\ k <= EndOf(M, m)
           /\ k - EndOf(M, m - 1) \in DOMAIN M[m] /\ M[m][k - EndOf(M, m - 1)] = k
<1> DEFINE S == {m \in 0 .. Len(M) : k <= EndOf(M, m)}
<1>1. Len(M) \in Nat /\ EndOf(M, 0) = 0 /\ \A m \in 0 .. Len(M) : EndOf(M, m) \in Nat
  BY EndOfType
<1>2. EndOf(M, Len(M)) = last
  BY DEF Consecutive
<1>3. Len(M) \in S /\ S \in SUBSET Nat
  BY <1>1, <1>2
<1>4. \E m \in S : \A l \in S : m <= l
  <2> HIDE DEF S
  <2> QED BY <1>3, LeastElement
<1>5. PICK m \in 0 .. Len(M) : k <= EndOf(M, m) /\ \A l \in S : m <= l
  BY <1>4
<1>6. m # 0
  BY <1>1, <1>5
<1>7. m \in 1 .. Len(M) /\ m - 1 \in 0 .. Len(M) /\ m - 1 < m
  BY <1>1, <1>5, <1>6
<1>8. EndOf(M, m - 1) < k
  <2>1. m - 1 \notin S
    BY <1>5, <1>7
  <2>2. EndOf(M, m - 1) \in Nat
    BY <1>1, <1>7
  <2> QED BY <1>7, <2>1, <2>2
<1>9. M[m] = [i \in 1 .. EndOf(M, m) - EndOf(M, m - 1) |-> EndOf(M, m - 1) + i]
  BY <1>7 DEF Consecutive
<1>10. EndOf(M, m - 1) \in Nat /\ EndOf(M, m) \in Nat
  BY <1>1, <1>5, <1>7
<1>11. k - EndOf(M, m - 1) \in 1 .. EndOf(M, m) - EndOf(M, m - 1)
  BY <1>5, <1>8, <1>10
<1>12. k - EndOf(M, m - 1) \in DOMAIN M[m] /\ M[m][k - EndOf(M, m - 1)] = k
  BY <1>9, <1>10, <1>11
<1> QED BY <1>5, <1>7, <1>8, <1>12

\* The commands hold the pieces that have no number yet.
LEMMA CommandPieces ==
  ASSUME NEW d, NEW M \in Seq(Seq(Nat)), NEW last \in Nat, Consecutive(M, last),
         NEW c \in Seq(Cmd), NEW n \in Nat, CommandsOK(d, M, c, n),
         NEW k \in n + 1 .. last
  PROVE  \E e \in ElementsOf(c) : e.dst_id = d /\ k \in ElementsOf(e.message)
<1>1. k \in 1 .. last
  OBVIOUS
<1>2. PICK m \in 1 .. Len(M) :
        /\ EndOf(M, m - 1) < k /\ k <= EndOf(M, m)
        /\ k - EndOf(M, m - 1) \in DOMAIN M[m] /\ M[m][k - EndOf(M, m - 1)] = k
  BY <1>1, PieceMessage
<1>3. PICK b : b = Len(M) - Len(c)
  OBVIOUS
<1>4. b \in 0 .. Len(M) /\ n = EndOf(M, b) /\ Len(M) = b + Len(c) /\ Len(c) \in Nat
  BY <1>3 DEF CommandsOK
<1>5. b < m
  <2>1. m \in 0 .. Len(M)
    OBVIOUS
  <2>2. EndOf(M, b) \in Nat /\ EndOf(M, m) \in Nat
    BY <1>4, <2>1, EndOfType
  <2>3. EndOf(M, b) < EndOf(M, m)
    BY <1>2, <1>4, <2>2
  <2> QED BY <1>4, <2>1, <2>3, EndOfType
<1>6. m - b \in 1 .. Len(c) /\ b + (m - b) = m
  BY <1>4, <1>5
<1>7. c[m - b] = [dst_id |-> d, message |-> M[m]]
  <2>1. \A i \in 1 .. Len(c) : c[i] = [dst_id |-> d, message |-> M[b + i]]
    BY <1>3 DEF CommandsOK
  <2> QED BY <1>6, <2>1
<1>8. c[m - b] \in ElementsOf(c)
  BY <1>6 DEF ElementsOf
<1>9. k \in ElementsOf(M[m])
  BY <1>2 DEF ElementsOf
<1>10. PICK e : e = c[m - b]
  OBVIOUS
<1>11. e.dst_id = d /\ e.message = M[m]
  BY <1>7, <1>10
<1>12. e \in ElementsOf(c) /\ k \in ElementsOf(e.message)
  BY <1>8, <1>9, <1>10, <1>11
<1> QED BY <1>11, <1>12

\* The three places of a piece that its sender holds.
LEMMA HeldParts ==
  ASSUME NEW s, NEW d
  PROVE  /\ \A c \in ElementsOf(input_cmdlist[s]) : \A k \in ElementsOf(c.message) :
              c.dst_id = d => k \in Held(s, d)
         /\ \A f \in ElementsOf(buffered_outframes[s]) :
              f.dst_id = d => f.data \in Held(s, d)
         /\ \A q \in Occupied(send_window[s]) :
              send_window[s][q].dst_id = d => send_window[s][q].data \in Held(s, d)
<1>1. ASSUME NEW c \in ElementsOf(input_cmdlist[s]), NEW k \in ElementsOf(c.message),
             c.dst_id = d
      PROVE  k \in Held(s, d)
  BY <1>1 DEF Held
<1>2. ASSUME NEW f \in ElementsOf(buffered_outframes[s]), f.dst_id = d
      PROVE  f.data \in Held(s, d)
  BY <1>2 DEF Held
<1>3. ASSUME NEW q \in Occupied(send_window[s]), send_window[s][q].dst_id = d
      PROVE  send_window[s][q].data \in Held(s, d)
  BY <1>3 DEF Held
<1> QED BY <1>1, <1>2, <1>3

LEMMA NothingLostFact ==
  ASSUME OneWayTraffic, Inv
  PROVE  NothingLost
<1> SUFFICES ASSUME NEW s, NEW d, <<s, d>> \in Pairs, NEW k \in 1 .. typed[s][d]
             PROVE  k \in Delivered(s, d) \cup Held(s, d)
  <2>1. \A p \in Pairs : p = <<p[1], p[2]>>
    BY ConfigAssumption
  <2> QED BY <2>1 DEF NothingLost
<1>1. PICK a, g, t, n \in 0 .. typed[s][d] : At(s, d, a, g, t, n)
  BY InvCounts
<1>2. /\ a \in Nat /\ g \in Nat /\ t \in Nat /\ n \in Nat
      /\ a <= g /\ g <= t /\ t <= n
  BY <1>1, AtCounts
<1>3. s \in Hosts /\ d \in Hosts /\ TypeInv
  BY <1>1, AtPair
<1>4. /\ typed[s][d] \in Nat /\ issued[s][d] \in Seq(Seq(Nat))
      /\ input_cmdlist[s] \in Seq(Cmd) /\ buffered_outframes[s] \in Seq(Frame)
  BY <1>3, HostTypes
<1>5. /\ CommandsOK(d, issued[s][d], input_cmdlist[s], n)
      /\ BufferOK(s, d, issued[s][d], buffered_outframes[s], t, n)
      /\ WindowOK(s, d, issued[s][d], send_window[s], a, t)
      /\ Consecutive(issued[s][d], typed[s][d])
  BY <1>1, AtParts DEF SenderOK
<1>6. CASE k <= g
  <2>1. Delivered(s, d) = 1 .. g
    BY <1>1, AtParts DEF ReceiverOK
  <2> QED BY <1>2, <1>4, <1>6, <2>1
<1>7. CASE g < k /\ k <= t
  <2>1. k \in a + 1 .. t
    BY <1>2, <1>4, <1>7
  <2>2. PICK i \in Occupied(send_window[s]) : send_window[s][i].data = k
    BY <1>5, <2>1 DEF WindowOK
  <2>3. send_window[s][i].dst_id = d
    BY <1>5 DEF WindowOK, Genuine, DataOf
  <2> QED BY <2>2, <2>3, HeldParts
<1>8. CASE t < k /\ k <= n
  <2>1. k - t \in 1 .. Len(buffered_outframes[s]) /\ t + (k - t) = k
    BY <1>2, <1>4, <1>5, <1>8 DEF BufferOK
  <2>2. PICK b : b = buffered_outframes[s][k - t]
    OBVIOUS
  <2>3. b.data = k /\ b.dst_id = d
    BY <1>5, <2>1, <2>2 DEF BufferOK, Genuine, DataOf
  <2>4. b \in ElementsOf(buffered_outframes[s])
    BY <1>4, <2>1, <2>2 DEF ElementsOf
  <2> QED BY <2>3, <2>4, HeldParts
<1>9. CASE n < k
  <2>1. k \in n + 1 .. typed[s][d]
    BY <1>2, <1>4, <1>9
  <2>2. PICK e \in ElementsOf(input_cmdlist[s]) :
          e.dst_id = d /\ k \in ElementsOf(e.message)
    BY <1>2, <1>4, <1>5, <2>1, CommandPieces
  <2> QED BY <2>2, HeldParts
<1> QED BY <1>2, <1>4, <1>6, <1>7, <1>8, <1>9

\* No piece is lost: whatever the switch corrupts or drops, and whatever an ack
\* frees, a piece the receiver has not delivered is still with its sender, as a
\* command, buffered or in the window.
THEOREM NothingLostAlways ==
  ASSUME OneWayTraffic
  PROVE  Spec => []NothingLost
<1>1. Inv => NothingLost
  BY NothingLostFact
<1> QED BY <1>1, InvAlways, PTL

-----------------------------------------------------------------------------
(* The refinement of the transport. *)

\* What a receiver has printed after a step is the beginning of what was
\* issued.
LEMMA PrintedNext ==
  ASSUME Inv', NEW s, NEW d, <<s, d>> \in Pairs
  PROVE  /\ Len(printed'[d][s]) <= Len(issued'[s][d])
         /\ \A i \in 1 .. Len(printed'[d][s]) : printed'[d][s][i] = issued'[s][d][i]
<1>1. Reached(s, d)'
  <2>1. PICK p \in Pairs : p = <<s, d>>
    OBVIOUS
  <2>2. \A q \in Pairs : Reached(q[1], q[2])'
    BY DEF Inv
  <2> QED BY <2>1, <2>2
<1>2. PICK a \in Nat, g \in Nat, t \in Nat, n \in Nat : Progress(s, d, a, g, t, n)'
  BY <1>1 DEF Reached
<1>3. PrintedOK(issued[s][d], printed[d][s], emptyCharArray[d][s], g)'
  BY <1>2 DEF Progress, ReceiverOK
<1> QED BY <1>3 DEF PrintedOK

\* A line typed is a message of the transport.
LEMMA TypedMessage ==
  ASSUME TypeInv, NEW p \in Pairs, UserMsg(p[1], p[2])
  PROVE  Promise!Next
<1>1. p[1] \in Hosts /\ p[2] \in Hosts
  BY ConfigAssumption
<1>2. PICK n \in 1 .. MaxFragments :
        /\ typed[p[1]][p[2]] + n <= MaxPieces
        /\ issued' = [issued EXCEPT ![p[1]][p[2]] = Append(@, Pieces(p[1], p[2], n))]
        /\ printed' = printed
  BY DEF UserMsg, receiverVars
<1>3. typed[p[1]][p[2]] \in Nat
  BY <1>1, HostTypes
<1>4. typed[p[1]][p[2]] \in 0 .. MaxPieces
  BY <1>2, <1>3, ConfigAssumption
<1>5. Pieces(p[1], p[2], n) \in Messages
  BY <1>4 DEF Pieces, Messages
<1>6. Promise!Type(p[1], p[2], Pieces(p[1], p[2], n))
  BY <1>2 DEF Promise!Type
<1> QED BY <1>1, <1>5, <1>6 DEF Promise!Next

\* A message printed is the oldest one that was not.
LEMMA PrintedMessage ==
  ASSUME OneWayTraffic, Inv, Inv', NEW h \in Hosts, Deliver(h)
  PROVE  Promise!Next \/ UNCHANGED <<issued, printed>>
<1>1. PICK s : s = delivery.src_id
  OBVIOUS
<1>2. TypeInv /\ <<s, h>> \in Pairs
  BY <1>1 DEF Inv, Answerable, Deliver
<1>3. s \in Hosts
  BY <1>2, PairFacts
<1>4. issued' = issued
  BY DEF Deliver, historyVars
<1>5. PICK m : printed' = printed \/ printed' = [printed EXCEPT ![h][s] = Append(@, m)]
  <2>1. \E m : printed' = printed \/ printed' = [printed EXCEPT ![h][s] = Append(@, m)]
    BY <1>1, Zenon DEF Deliver
  <2> QED BY <2>1
<1>6. CASE printed' = [printed EXCEPT ![h][s] = Append(@, m)]
  <2>1. printed \in [Hosts -> [Hosts -> Seq(Seq(Nat))]]
    BY <1>2 DEF TypeInv, TypeOK, ReceiverTypeOK
  <2>2. PICK r : r = printed[h][s]
    OBVIOUS
  <2>3. r \in Seq(Seq(Nat)) /\ printed'[h][s] = Append(r, m)
    BY <1>3, <1>6, <2>1, <2>2
  <2>4. Len(Append(r, m)) = Len(r) + 1 /\ Append(r, m)[Len(r) + 1] = m /\ Len(r) \in Nat
    BY <2>3
  <2>5. Len(r) + 1 <= Len(issued[s][h]) /\ m = issued[s][h][Len(r) + 1]
    <3>1. Len(r) + 1 \in 1 .. Len(r) + 1
      BY <2>4
    <3>2. PICK y : y = printed'[h][s]
      OBVIOUS
    <3>3. /\ Len(y) <= Len(issued'[s][h])
          /\ \A i \in 1 .. Len(y) : y[i] = issued'[s][h][i]
      BY <1>2, <3>2, PrintedNext
    <3>4. y = Append(r, m)
      BY <2>3, <3>2
    <3>5. Len(y) = Len(r) + 1 /\ y[Len(r) + 1] = m
      BY <2>4, <3>4
    <3> QED BY <1>4, <3>1, <3>3, <3>5
  <2>6. Len(r) < Len(issued[s][h])
    <3>1. issued[s][h] \in Seq(Seq(Nat))
      BY <1>2, <1>3, HostTypes
    <3>2. Len(issued[s][h]) \in Nat
      BY <3>1
    <3> QED BY <2>4, <2>5, <3>2
  <2>7. Promise!Deliver(s, h)
    BY <1>4, <1>6, <2>2, <2>5, <2>6 DEF Promise!Deliver
  <2> QED BY <1>3, <2>7 DEF Promise!Next
<1> QED BY <1>4, <1>5, <1>6

LEMMA TransportStep ==
  ASSUME OneWayTraffic, Inv, Inv', [Next]_vars
  PROVE  Promise!Next \/ UNCHANGED <<issued, printed>>
<1>1. ASSUME NEW h \in Hosts, Wake(h) \/ Sleep(h) \/ VisitReceiver(h)
      PROVE  UNCHANGED <<issued, printed>>
  BY <1>1 DEF Wake, Sleep, VisitReceiver, historyVars, receiverVars
<1>2. CASE SendersDone \/ DataDone \/ ReceiversDone \/ GracefulExit \/ NoMoreInput
           \/ UserExit \/ InputEof \/ ServeIngress \/ SendAck
  BY <1>2 DEF SendersDone, DataDone, ReceiversDone, GracefulExit, NoMoreInput, UserExit,
     StartRound, InputEof, ServeIngress, SendAck, historyVars, receiverVars
<1>3. ASSUME NEW h \in Hosts,
             \/ HandleInputCmd(h) \/ DropAck(h) \/ AcceptAck(h) \/ HandleOutgoing(h)
             \/ ForwardFrame(h) \/ Corrupted(h) \/ Unstored(h) \/ Store(h)
      PROVE  UNCHANGED <<issued, printed>>
  BY <1>3 DEF HandleInputCmd, DropAck, AcceptAck, HandleOutgoing, ForwardFrame, Corrupted,
     Unstored, Store, historyVars, receiverVars
<1>4. CASE UNCHANGED vars
  BY <1>4 DEF vars, historyVars, receiverVars
<1>5. TypeInv
  BY DEF Inv
<1> QED BY <1>1, <1>2, <1>3, <1>4, <1>5, TypedMessage, PrintedMessage, Steps DEF Moves

\* The program implements the transport: at every receiver the messages of its
\* sender come out whole, once each and in the order they were typed, however
\* the switch loses, delays and corrupts frames.
THEOREM TransportImplemented ==
  ASSUME OneWayTraffic
  PROVE  Spec => ImplementsTransport
<1>1. Init => Promise!Init
  BY DEF Init, Promise!Init
<1>2. Inv /\ Inv' /\ [Next]_vars => Promise!Next \/ UNCHANGED <<issued, printed>>
  BY TransportStep
<1> QED BY <1>1, <1>2, InvAlways, PTL DEF Spec, ImplementsTransport, Promise!Spec

-----------------------------------------------------------------------------
(***************************************************************************)
(* A turn sends no frame twice: a queue starts the turn empty, the frames  *)
(* of the window are all different and not in the buffer, and a slot is    *)
(* not resent both by fast retransmission and for its timeout.             *)
(***************************************************************************)
NoRepeat(q) == \A i, j \in DOMAIN q : q[i] = q[j] => i = j

LEMMA NoRepeatConcat ==
  ASSUME NEW S, NEW p \in Seq(S), NEW q \in Seq(S), NoRepeat(p), NoRepeat(q),
         ElementsOf(p) \cap ElementsOf(q) = {}
  PROVE  NoRepeat(p \o q)
<1>1. /\ Len(p) \in Nat /\ Len(q) \in Nat /\ p \o q \in Seq(S)
      /\ Len(p \o q) = Len(p) + Len(q)
      /\ \A i \in 1 .. Len(p) : (p \o q)[i] = p[i]
      /\ \A i \in 1 .. Len(q) : (p \o q)[Len(p) + i] = q[i]
  BY ConcatFacts
<1>2. DOMAIN p = 1 .. Len(p) /\ DOMAIN q = 1 .. Len(q)
      /\ DOMAIN (p \o q) = 1 .. Len(p) + Len(q)
  BY <1>1
<1>3. \A i \in DOMAIN p, j \in DOMAIN q : p[i] # q[j]
  BY DEF ElementsOf
<1>4. ASSUME NEW i \in 1 .. Len(p) + Len(q), NEW j \in 1 .. Len(p) + Len(q), i <= j,
             (p \o q)[i] = (p \o q)[j]
      PROVE  i = j
  <2>1. CASE j <= Len(p)
    <3>1. i \in 1 .. Len(p) /\ j \in 1 .. Len(p)
      BY <1>1, <1>4, <2>1
    <3>2. p[i] = p[j]
      BY <1>1, <1>4, <3>1
    <3> QED BY <1>2, <3>1, <3>2 DEF NoRepeat
  <2>2. CASE i > Len(p)
    <3>1. PICK k \in 1 .. Len(q), l \in 1 .. Len(q) : i = Len(p) + k /\ j = Len(p) + l
      <4>1. i - Len(p) \in 1 .. Len(q) /\ j - Len(p) \in 1 .. Len(q)
        BY <1>1, <1>4, <2>2
      <4>2. i = Len(p) + (i - Len(p)) /\ j = Len(p) + (j - Len(p))
        BY <1>1, <1>4
      <4> QED BY <4>1, <4>2
    <3>2. q[k] = q[l]
      BY <1>1, <1>4, <3>1
    <3> QED BY <1>2, <3>1, <3>2 DEF NoRepeat
  <2>3. CASE i <= Len(p) /\ j > Len(p)
    <3>1. i \in 1 .. Len(p)
      BY <1>1, <1>4, <2>3
    <3>2. PICK l \in 1 .. Len(q) : j = Len(p) + l
      <4>1. j - Len(p) \in 1 .. Len(q) /\ j = Len(p) + (j - Len(p))
        BY <1>1, <1>4, <2>3
      <4> QED BY <4>1
    <3>3. p[i] = q[l]
      BY <1>1, <1>4, <3>1, <3>2
    <3> QED BY <1>2, <1>3, <3>1, <3>3
  <2> QED BY <1>1, <1>4, <2>1, <2>2, <2>3
<1>5. ASSUME NEW i \in 1 .. Len(p) + Len(q), NEW j \in 1 .. Len(p) + Len(q),
             (p \o q)[i] = (p \o q)[j]
      PROVE  i = j
  <2>1. i <= j \/ j <= i
    BY <1>1
  <2> QED BY <1>4, <1>5, <2>1
<1> QED BY <1>2, <1>5 DEF NoRepeat

\* The frames of a window w are all different.
AllDifferent(w) == \A q, r \in Occupied(w) : w[q] = w[r] => q = r

\* Some frames of a window, in slot order.
LEMMA InSlotOrder ==
  ASSUME NEW w \in [Slots -> Frame \cup {NoFrame}], AllDifferent(w),
         NEW S \in SUBSET Occupied(w),
         NEW x, x = [i \in DOMAIN Ascending(S) |-> w[Ascending(S)[i]]]
  PROVE  x \in Seq(Frame) /\ NoRepeat(x) /\ ElementsOf(x) \subseteq {w[q] : q \in S}
<1>1. PICK a : a = Ascending(S)
  OBVIOUS
<1>2. PICK n : n = Cardinality(S)
  OBVIOUS
<1>3. /\ n \in Nat /\ a \in [1 .. n -> S]
      /\ \A j, k \in 1 .. n : a[j] = a[k] => j = k
  <2>1. S \in SUBSET Slots
    BY DEF Occupied
  <2> QED BY <1>1, <1>2, <2>1, AscendingType
<1>4. \A q \in S : q \in Occupied(w) /\ w[q] \in Frame
  BY DEF Occupied, HasFrame
<1>5. DOMAIN x = 1 .. n /\ \A i \in 1 .. n : a[i] \in S /\ x[i] = w[a[i]]
  BY <1>1, <1>3
<1>6. x \in Seq(Frame)
  <2>1. x = [i \in 1 .. n |-> w[a[i]]] /\ \A i \in 1 .. n : w[a[i]] \in Frame
    BY <1>1, <1>3, <1>4, <1>5
  <2> QED BY <1>3, <2>1
<1>7. NoRepeat(x)
  BY <1>3, <1>4, <1>5 DEF NoRepeat, AllDifferent
<1>8. ElementsOf(x) \subseteq {w[q] : q \in S}
  BY <1>5 DEF ElementsOf
<1> QED BY <1>6, <1>7, <1>8

\* What a host holds is all different: the frames of its window and of its
\* buffer carry different pieces of the text for its one receiver.
LEMMA HeldDifferent ==
  ASSUME OneWayTraffic, Inv, NEW h \in Hosts, NEW w, w = send_window[h],
         NEW b, b = buffered_outframes[h]
  PROVE  /\ AllDifferent(w) /\ NoRepeat(b)
         /\ \A q \in Occupied(w), i \in DOMAIN b : w[q] # b[i]
<1>1. TypeInv /\ Routing
  BY DEF Inv
<1>2. b \in Seq(Frame)
  BY <1>1, HostTypes
<1>3. DOMAIN b = 1 .. Len(b) /\ Len(b) \in Nat
  BY <1>2
<1>4. CASE \E d : <<h, d>> \in Pairs
  <2>1. PICK d : <<h, d>> \in Pairs
    BY <1>4
  <2>2. PICK a, g, t, n \in 0 .. typed[h][d] : At(h, d, a, g, t, n)
    BY <2>1, InvCounts
  <2>3. t \in Nat
    BY <2>2, AtCounts
  <2>4. /\ WindowOK(h, d, issued[h][d], w, a, t)
        /\ BufferOK(h, d, issued[h][d], b, t, n)
    BY <2>2, AtParts DEF SenderOK
  <2>5. AllDifferent(w)
    BY <2>4 DEF WindowOK, AllDifferent
  <2>6. \A i \in 1 .. Len(b) : b[i].data = t + i
    BY <2>4 DEF BufferOK
  <2>7. NoRepeat(b)
    <3>1. ASSUME NEW i \in 1 .. Len(b), NEW j \in 1 .. Len(b), b[i] = b[j]
          PROVE  i = j
      <4>1. t + i = t + j
        BY <2>6, <3>1
      <4> QED BY <1>3, <2>3, <4>1
    <3> QED BY <1>3, <3>1 DEF NoRepeat
  <2>8. ASSUME NEW q \in Occupied(w), NEW i \in 1 .. Len(b), w[q] = b[i]
        PROVE  FALSE
    <3>1. w[q].data <= t
      BY <2>4 DEF WindowOK
    <3>2. b[i].data = t + i
      BY <2>6
    <3>3. t + i <= t
      BY <2>8, <3>1, <3>2
    <3> QED BY <1>3, <2>3, <3>3
  <2> QED BY <1>3, <2>5, <2>7, <2>8
<1>5. CASE ~ \E d : <<h, d>> \in Pairs
  <2>1. Occupied(w) = {}
    <3>1. \A q \in Occupied(send_window[h]) : <<h, send_window[h][q].dst_id>> \in Pairs
      BY <1>1 DEF Routing
    <3> QED BY <1>5, <3>1
  <2>2. ElementsOf(b) = {}
    <3>1. \A f \in ElementsOf(buffered_outframes[h]) : <<h, f.dst_id>> \in Pairs
      BY <1>1 DEF Routing
    <3> QED BY <1>5, <3>1
  <2>3. DOMAIN b = {}
    BY <2>2 DEF ElementsOf
  <2> QED BY <2>1, <2>3 DEF AllDifferent, NoRepeat
<1> QED BY <1>4, <1>5

LEMMA TurnNoRepeat ==
  ASSUME OneWayTraffic, Inv, NEW h \in Hosts, HandleOutgoing(h), outgoing_frames[h] = <<>>
  PROVE  /\ NoRepeat(outgoing_frames'[h])
         /\ \A g \in Hosts : g # h => outgoing_frames'[g] = outgoing_frames[g]
<1>1. PICK w, b : w = send_window[h] /\ b = buffered_outframes[h]
  OBVIOUS
<1>2. PICK x : x = [i \in DOMAIN Ascending(FastRetransmit(h)) |->
                      w[Ascending(FastRetransmit(h))[i]]]
  OBVIOUS
<1>3. PICK y : y = [i \in DOMAIN Ascending(TimedOut(h)) |-> w[Ascending(TimedOut(h))[i]]]
  OBVIOUS
<1>4. PICK n \in 0 .. Len(b) :
        outgoing_frames' = [outgoing_frames EXCEPT ![h] = ((@ \o x) \o y) \o SubSeq(b, 1, n)]
  <2> DEFINE w0 == send_window[h]
             b0 == buffered_outframes[h]
             fast == Ascending(FastRetransmit(h))
             late == Ascending(TimedOut(h))
             x0 == [i \in DOMAIN fast |-> w0[fast[i]]]
             y0 == [i \in DOMAIN late |-> w0[late[i]]]
  <2>1. PICK n \in 0 .. Len(b0) :
          outgoing_frames' = [outgoing_frames EXCEPT ![h] = @ \o x0 \o y0 \o SubSeq(b0, 1, n)]
    BY Zenon DEF HandleOutgoing
  <2>2. x0 = x /\ y0 = y /\ b0 = b
    BY Zenon, <1>1, <1>2, <1>3
  <2> HIDE DEF x0, y0, b0
  <2> QED BY <2>1, <2>2
<1>5. PICK z : z = SubSeq(b, 1, n)
  OBVIOUS
<1>6. TypeInv
  BY DEF Inv
<1>7. /\ w \in [Slots -> Frame \cup {NoFrame}] /\ b \in Seq(Frame)
      /\ outgoing_frames \in [Hosts -> Seq(Frame)]
  <2>1. w \in [Slots -> Frame \cup {NoFrame}] /\ b \in Seq(Frame)
    BY <1>1, <1>6, HostTypes
  <2> QED BY <1>6, <2>1, QueueTypes
<1>8. /\ AllDifferent(w) /\ NoRepeat(b)
      /\ \A q \in Occupied(w), i \in DOMAIN b : w[q] # b[i]
  BY <1>1, HeldDifferent
<1>9. /\ FastRetransmit(h) \in SUBSET Occupied(w) /\ TimedOut(h) \in SUBSET Occupied(w)
      /\ FastRetransmit(h) \cap TimedOut(h) = {}
  BY <1>1 DEF FastRetransmit, TimedOut
<1>10. /\ x \in Seq(Frame) /\ NoRepeat(x)
       /\ ElementsOf(x) \subseteq {w[q] : q \in FastRetransmit(h)}
  BY <1>2, <1>7, <1>8, <1>9, InSlotOrder
<1>11. /\ y \in Seq(Frame) /\ NoRepeat(y)
       /\ ElementsOf(y) \subseteq {w[q] : q \in TimedOut(h)}
  BY <1>3, <1>7, <1>8, <1>9, InSlotOrder
<1>12. z \in Seq(Frame) /\ Len(z) = n /\ \A k \in 1 .. n : z[k] = b[k]
  BY <1>5, <1>7
<1>13. DOMAIN z = 1 .. n /\ \A k \in 1 .. n : k \in DOMAIN b
  BY <1>7, <1>12
<1>14. NoRepeat(z) /\ ElementsOf(z) \subseteq {b[i] : i \in DOMAIN b}
  BY <1>8, <1>12, <1>13 DEF NoRepeat, ElementsOf
<1>15. ElementsOf(x) \cap ElementsOf(y) = {}
  BY <1>8, <1>9, <1>10, <1>11 DEF AllDifferent
<1>16. x \o y \in Seq(Frame) /\ NoRepeat(x \o y)
  BY <1>10, <1>11, <1>15, NoRepeatConcat, ConcatFacts
<1>17. PICK u : u = x \o y
  OBVIOUS
<1>18. ElementsOf(u) \cap ElementsOf(z) = {}
  <2>1. ElementsOf(u) = ElementsOf(x) \cup ElementsOf(y)
    BY <1>10, <1>11, <1>17, ElementsConcat
  <2>2. ElementsOf(u) \subseteq {w[q] : q \in Occupied(w)}
    BY <1>9, <1>10, <1>11, <2>1
  <2> QED BY <1>8, <1>14, <2>2
<1>19. NoRepeat(u \o z)
  <2>1. u \in Seq(Frame) /\ NoRepeat(u)
    BY <1>16, <1>17
  <2> QED BY <1>12, <1>14, <1>18, <2>1, NoRepeatConcat
<1>20. outgoing_frames'[h] = ((<<>> \o x) \o y) \o z
  BY <1>4, <1>5, <1>7
<1>21. <<>> \o x = x
  BY <1>10
<1>22. outgoing_frames'[h] = u \o z
  BY <1>17, <1>20, <1>21
<1>23. \A g \in Hosts : g # h => outgoing_frames'[g] = outgoing_frames[g]
  BY <1>4, <1>7
<1> QED BY <1>19, <1>22, <1>23

\* Between two halves of a round no host is being visited, and the senders
\* start from empty queues.
TurnsOK ==
  /\ stage \in {"input", "data", "acks"} => cur = NoHost
  /\ stage = "senders" => cur \notin todo
  /\ stage \in {"input", "senders"} =>
       \A h \in Hosts :
         /\ NoRepeat(outgoing_frames[h])
         /\ stage = "input" \/ h \in todo \/ cur = h => outgoing_frames[h] = <<>>

LEMMA EmptyNoRepeat == NoRepeat(<<>>)
BY DEF NoRepeat

LEMMA TurnsNext ==
  ASSUME OneWayTraffic, Inv, TurnsOK, [Next]_vars
  PROVE  TurnsOK'
<1>1. TypeInv
  BY DEF Inv
<1>2. NoHost \notin Hosts /\ todo \subseteq Hosts
  BY <1>1, HostsFacts DEF TypeInv, TypeOK, LoopTypeOK
<1>3. ASSUME NEW h \in Hosts, HandleOutgoing(h) PROVE TurnsOK'
  <2>1. /\ stage = "senders" /\ cur = h /\ stage' = stage /\ cur' = NoHost /\ todo' = todo
    BY <1>3 DEF HandleOutgoing
  <2>2. outgoing_frames[h] = <<>> /\ h \notin todo
    BY <2>1 DEF TurnsOK
  <2>3. /\ NoRepeat(outgoing_frames'[h])
        /\ \A g \in Hosts : g # h => outgoing_frames'[g] = outgoing_frames[g]
    BY <1>3, <2>2, TurnNoRepeat
  <2>4. ASSUME NEW g \in Hosts
        PROVE  /\ NoRepeat(outgoing_frames'[g])
               /\ g \in todo => outgoing_frames'[g] = <<>>
    <3>1. CASE g = h
      BY <2>2, <2>3, <3>1
    <3>2. CASE g # h
      BY <2>1, <2>3, <3>2 DEF TurnsOK
    <3> QED BY <3>1, <3>2
  <2> QED BY <1>2, <2>1, <2>4 DEF TurnsOK
<1>4. ASSUME NEW h \in Hosts, Wake(h) \/ Sleep(h) PROVE TurnsOK'
  <2>1. /\ stage = "senders" /\ stage' = stage /\ h \in todo /\ todo' = todo \ {h}
        /\ cur = NoHost /\ cur' \in {h, NoHost}
        /\ outgoing_frames' = outgoing_frames
    BY <1>4 DEF Wake, Sleep
  <2> QED BY <1>2, <2>1 DEF TurnsOK
<1>5. CASE GracefulExit
  <2>1. /\ stage = "acks" /\ \A h \in Hosts : outgoing_frames[h] = <<>>
        /\ stage' \in {"input", "exited", "senders"} /\ cur' = cur
        /\ todo' = IF stage' = "senders" THEN Hosts ELSE {}
        /\ outgoing_frames' = outgoing_frames
    BY <1>5 DEF GracefulExit
  <2> QED BY <1>2, <2>1, EmptyNoRepeat DEF TurnsOK
<1>6. CASE NoMoreInput \/ UserExit
  <2>1. /\ stage = "input" /\ stage' = "senders" /\ todo' = Hosts /\ cur' = cur
        /\ outgoing_frames' = outgoing_frames
    BY <1>6 DEF NoMoreInput, UserExit, StartRound
  <2> QED BY <1>2, <2>1 DEF TurnsOK
<1>7. CASE SendersDone \/ DataDone \/ ReceiversDone \/ InputEof
  BY <1>7 DEF TurnsOK, SendersDone, DataDone, ReceiversDone, InputEof
<1>8. ASSUME NEW h \in Hosts,
             ForwardFrame(h) \/ VisitReceiver(h) \/ Corrupted(h) \/ Unstored(h)
               \/ Store(h) \/ Deliver(h)
      PROVE  TurnsOK'
  <2>1. \/ stage = "data" /\ stage' \in {"data", "aborted"} /\ cur' = cur
        \/ stage' = "receivers"
    BY <1>8 DEF ForwardFrame, VisitReceiver, Corrupted, Unstored, Store, Deliver, Popping
  <2> QED BY <2>1 DEF TurnsOK
<1>9. CASE ServeIngress \/ SendAck
  <2>1. stage \in {"data", "acks"} /\ stage' \in {"data", "acks", "aborted"} /\ cur' = cur
    BY <1>9 DEF ServeIngress, SendAck
  <2> QED BY <2>1 DEF TurnsOK
<1>10. CASE UNCHANGED <<stage, cur, todo, outgoing_frames>>
  BY <1>10 DEF TurnsOK
<1>11. ASSUME NEW h \in Hosts, HandleInputCmd(h) \/ DropAck(h) \/ AcceptAck(h)
       PROVE  UNCHANGED <<stage, cur, todo, outgoing_frames>>
  BY <1>11 DEF HandleInputCmd, DropAck, AcceptAck, loopVars
<1>12. CASE \E p \in Pairs : UserMsg(p[1], p[2])
  BY <1>10, <1>12 DEF UserMsg, loopVars
<1>13. CASE UNCHANGED vars
  BY <1>10, <1>13 DEF vars, loopVars
<1> QED BY <1>3, <1>4, <1>5, <1>6, <1>7, <1>8, <1>9, <1>10, <1>11, <1>12, <1>13, Steps
        DEF Moves

\* A frame that is due for fast retransmission and for its timeout in the same
\* turn is sent once, and no two frames of a queue are copies of each other.
THEOREM OneCopyPerTurnAlways ==
  ASSUME OneWayTraffic
  PROVE  Spec => []OneCopyPerTurn
<1>1. Init => TurnsOK
  BY EmptyNoRepeat DEF Init, TurnsOK
<1>2. Inv /\ TurnsOK /\ [Next]_vars => TurnsOK'
  BY TurnsNext
<1>3. TurnsOK => OneCopyPerTurn
  BY DEF TurnsOK, OneCopyPerTurn, NoRepeat
<1> QED BY <1>1, <1>2, <1>3, InvAlways, PTL DEF Spec
=============================================================================
