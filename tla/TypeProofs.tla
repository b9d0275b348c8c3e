----------------------------- MODULE TypeProofs -----------------------------
(***************************************************************************)
(* Type correctness of the whole program, for any number of hosts, window  *)
(* size, rate, capacity and range of sequence numbers.                     *)
(***************************************************************************)
EXTENDS TritonTalk, SeqNumProofs, FiniteSetTheorems

LEMMA HostsFacts == Hosts \subseteq Nat /\ NoHost \in Nat /\ NoHost \notin Hosts
BY ConfigAssumption DEF Hosts, NoHost

LEMMA SlotsFinite == IsFiniteSet(Slots) /\ Slots \subseteq Nat
BY FS_Interval, ConfigAssumption DEF Slots

\* TypeOK is not inductive: the delivery loop reads a slot it must find full.
DeliveryOK ==
  \/ delivery = NotDelivering
  \/ /\ stage = "receivers"
     /\ cur \in Hosts /\ delivery.src_id \in Hosts
     /\ HasFrame(receive_window[cur][delivery.src_id],
                 NFE[cur][delivery.src_id] % window_size)

TypeInv == TypeOK /\ DeliveryOK

LEMMA AllVars ==
  ASSUME UNCHANGED vars, TypeInv
  PROVE  TypeInv'
BY DEF vars, loopVars, senderVars, receiverVars, switchVars, historyVars, TypeInv,
       TypeOK, DeliveryOK, LoopTypeOK, QueuesTypeOK, SenderTypeOK, ReceiverTypeOK,
       SwitchTypeOK, HistoryTypeOK

-----------------------------------------------------------------------------
(* The smallest element of a set of naturals, and its elements in order. *)

LEMMA FirstIn ==
  ASSUME NEW S \in SUBSET Hosts, S # {}
  PROVE  First(S) \in S
<1>1. \E m \in S : \A k \in S : m <= k
  BY HostsFacts, LeastElement
<1> QED BY <1>1 DEF First

\* There is a k-th element for every k up to the number of elements: the
\* smallest m with k elements up to m.
LEMMA NthIn ==
  ASSUME NEW S \in SUBSET Slots, NEW k \in 1 .. Cardinality(S)
  PROVE  Nth(S, k) \in S /\ Cardinality({r \in S : r <= Nth(S, k)}) = k
<1> DEFINE Upto(m) == {r \in S : r <= m}
           Enough == {m \in Nat : Cardinality(Upto(m)) >= k}
<1>1. IsFiniteSet(S) /\ Cardinality(S) \in Nat /\ k \in Nat /\ k > 0
  <2>1. IsFiniteSet(S)
    BY SlotsFinite, FS_Subset
  <2>2. Cardinality(S) \in Nat
    BY <2>1, FS_CardinalityType
  <2> QED BY <2>1, <2>2
<1>2. \A r \in S : r \in Nat
  BY SlotsFinite
<1>3. \A m \in Nat : IsFiniteSet(Upto(m)) /\ Cardinality(Upto(m)) \in Nat
  <2> TAKE m \in Nat
  <2> Upto(m) \subseteq S
    OBVIOUS
  <2> HIDE DEF Upto
  <2> QED BY <1>1, FS_Subset, FS_CardinalityType
<1>4. window_size \in Enough
  <2>0. \A r \in S : r <= window_size
    BY ConfigAssumption DEF Slots
  <2>1. Upto(window_size) = S
    BY <2>0
  <2> QED BY <1>1, <2>1, ConfigAssumption
<1>5. PICK m \in Nat : /\ Cardinality(Upto(m)) >= k
                       /\ \A i \in Nat : Cardinality(Upto(i)) >= k => m <= i
  <2>1. Enough \in SUBSET Nat /\ Enough # {}
    BY <1>4
  <2>2. \E m \in Enough : \A i \in Enough : m <= i
    <3> HIDE DEF Enough
    <3> QED BY <2>1, LeastElement
  <2> QED BY <2>2
<1>6. \A i \in Nat : i < m => Cardinality(Upto(i)) < k
  <2> HIDE DEF Upto
  <2> QED BY <1>1, <1>3, <1>5
\* Without m there would be k elements already below it.
<1>7. m \in S
  <2> SUFFICES ASSUME m \notin S PROVE FALSE
    OBVIOUS
  <2>1. CASE m = 0
    <3>1. Upto(m) = {}
      BY <1>2, <2>1
    <3> QED BY <1>1, <1>5, <3>1, FS_EmptySet
  <2>2. CASE m > 0
    <3>1. m - 1 \in Nat /\ m - 1 < m
      BY <2>2
    <3>2. \A r \in S : r <= m <=> r <= m - 1
      BY <1>2, <3>1
    <3>3. Upto(m) = Upto(m - 1)
      BY <3>2
    <3> HIDE DEF Upto
    <3> QED BY <1>1, <1>3, <1>5, <1>6, <3>1, <3>3
  <2> QED BY <2>1, <2>2
<1>8. Cardinality(Upto(m)) = k
  <2> DEFINE Below == {r \in S : r < m}
  <2>0. (\A r \in S : r <= m <=> r < m \/ r = m) /\ ~(m < m)
    BY <1>2
  <2>1. Upto(m) = Below \cup {m} /\ m \notin Below
    BY <1>7, <2>0
  <2>2. IsFiniteSet(Below) /\ Cardinality(Below) \in Nat
    <3> Below \subseteq S
      OBVIOUS
    <3> HIDE DEF Below
    <3> QED BY <1>1, FS_Subset, FS_CardinalityType
  <2>3. Cardinality(Upto(m)) = Cardinality(Below) + 1
    <3> HIDE DEF Below, Upto
    <3> QED BY <2>1, <2>2, FS_AddElement
  <2>4. CASE m = 0
    <3>1. Below = {}
      BY <1>2, <2>4
    <3> QED BY <1>1, <1>5, <2>3, <3>1, FS_EmptySet
  <2>5. CASE m > 0
    <3>1. m - 1 \in Nat /\ m - 1 < m
      BY <2>5
    <3>2. \A r \in S : r < m <=> r <= m - 1
      BY <1>2, <3>1
    <3>3. Below = Upto(m - 1)
      BY <3>2
    <3> HIDE DEF Below, Upto
    <3> QED BY <1>1, <1>3, <1>5, <1>6, <2>3, <3>1, <3>3
  <2> QED BY <2>4, <2>5
<1> QED BY <1>7, <1>8 DEF Nth

LEMMA AscendingType ==
  ASSUME NEW S \in SUBSET Slots
  PROVE  /\ Cardinality(S) \in Nat
         /\ Ascending(S) \in [1 .. Cardinality(S) -> S]
         /\ \A j, k \in 1 .. Cardinality(S) :
              Ascending(S)[j] = Ascending(S)[k] => j = k
<1>1. Cardinality(S) \in Nat
  BY SlotsFinite, FS_Subset, FS_CardinalityType
<1>2. \A k \in 1 .. Cardinality(S) :
        Nth(S, k) \in S /\ Cardinality({r \in S : r <= Nth(S, k)}) = k
  BY NthIn
<1>3. \A j, k \in 1 .. Cardinality(S) : Nth(S, j) = Nth(S, k) => j = k
  BY Zenon, <1>2
<1> QED BY <1>1, <1>2, <1>3 DEF Ascending

LEMMA BusyBoolean ==
  ASSUME NEW w, NEW b
  PROVE  Busy(w, b) \in BOOLEAN
BY DEF Busy

\* Appending to a queue and popping it.
LEMMA AppendType ==
  ASSUME NEW A, NEW q \in [Hosts -> Seq(A)], NEW h \in Hosts, NEW a \in A
  PROVE  [q EXCEPT ![h] = Append(@, a)] \in [Hosts -> Seq(A)]
OBVIOUS

LEMMA PopType ==
  ASSUME NEW A, NEW q \in [Hosts -> Seq(A)], NEW h \in Hosts, q[h] # <<>>
  PROVE  Head(q[h]) \in A /\ [q EXCEPT ![h] = Tail(@)] \in [Hosts -> Seq(A)]
OBVIOUS

LEMMA AckType ==
  ASSUME NEW h \in Hosts, NEW g \in Hosts, NEW n \in Int
  PROVE  Ack(h, g, n) \in Frame
BY Uint8Type, SeqNumAssumption DEF Ack, Frame, SeqNums

LEMMA CopiesType ==
  ASSUME NEW f \in Frame, NEW c \in Copies(f)
  PROVE  c \in Frame
BY DEF Copies, Frame

-----------------------------------------------------------------------------
(* The steps that only move the program counter of the main loop. *)

LEMMA StartRoundType ==
  ASSUME TypeInv, NEW exiting \in BOOLEAN, StartRound(exiting)
  PROVE  TypeInv'
BY DEF StartRound, Stages, TypeInv, TypeOK, DeliveryOK, LoopTypeOK, QueuesTypeOK, SenderTypeOK, ReceiverTypeOK,
       SwitchTypeOK, HistoryTypeOK, loopVars, senderVars, receiverVars, switchVars,
       historyVars

LEMMA InputEofType ==
  ASSUME TypeInv, InputEof
  PROVE  TypeInv'
BY DEF InputEof, Stages, TypeInv, TypeOK, DeliveryOK, LoopTypeOK, QueuesTypeOK, SenderTypeOK, ReceiverTypeOK,
       SwitchTypeOK, HistoryTypeOK, loopVars, senderVars, receiverVars, switchVars,
       historyVars

LEMMA GracefulExitType ==
  ASSUME TypeInv, GracefulExit
  PROVE  TypeInv'
BY DEF GracefulExit, Stages, TypeInv, TypeOK, DeliveryOK, LoopTypeOK, QueuesTypeOK, SenderTypeOK, ReceiverTypeOK,
       SwitchTypeOK, HistoryTypeOK, loopVars, senderVars, receiverVars, switchVars,
       historyVars

LEMMA SleepType ==
  ASSUME TypeInv, NEW h \in Hosts, Sleep(h)
  PROVE  TypeInv'
<1>1. PICK b \in BOOLEAN : active' = [active EXCEPT ![h] = b]
  BY BusyBoolean DEF Sleep
<1> QED
  BY <1>1 DEF Sleep, TypeInv, TypeOK, DeliveryOK, LoopTypeOK, QueuesTypeOK, SenderTypeOK,
       ReceiverTypeOK, SwitchTypeOK, HistoryTypeOK, loopVars, senderVars, receiverVars,
       switchVars, historyVars

LEMMA WakeType ==
  ASSUME TypeInv, NEW h \in Hosts, Wake(h)
  PROVE  TypeInv'
<1>1. expired' \subseteq Slots
  BY DEF Wake
<1>2. dups' \in [Hosts -> Nat]
  BY DEF Wake
<1>3. /\ stage = "senders" /\ todo' = todo \ {h} /\ cur' = h
      /\ UNCHANGED <<stage, senderVars, receiverVars, switchVars, historyVars,
                     active, glb_exit_main, input_cmdlist, incoming_frames,
                     outgoing_frames>>
  BY DEF Wake
<1> QED
  BY <1>1, <1>2, <1>3 DEF TypeInv, TypeOK, DeliveryOK, LoopTypeOK, QueuesTypeOK, SenderTypeOK,
       ReceiverTypeOK, SwitchTypeOK, HistoryTypeOK, loopVars, senderVars, receiverVars,
       switchVars, historyVars

LEMMA SendersDoneType ==
  ASSUME TypeInv, SendersDone
  PROVE  TypeInv'
BY DEF SendersDone, Stages, TypeInv, TypeOK, DeliveryOK, LoopTypeOK, QueuesTypeOK, SenderTypeOK, ReceiverTypeOK,
       SwitchTypeOK, HistoryTypeOK, loopVars, senderVars, receiverVars, switchVars,
       historyVars

LEMMA DataDoneType ==
  ASSUME TypeInv, DataDone
  PROVE  TypeInv'
BY DEF DataDone, Stages, TypeInv, TypeOK, DeliveryOK, LoopTypeOK, QueuesTypeOK, SenderTypeOK, ReceiverTypeOK,
       SwitchTypeOK, HistoryTypeOK, loopVars, senderVars, receiverVars, switchVars,
       historyVars

LEMMA ReceiversDoneType ==
  ASSUME TypeInv, ReceiversDone
  PROVE  TypeInv'
BY HostsFacts DEF ReceiversDone, Stages, TypeInv, TypeOK, DeliveryOK, LoopTypeOK, QueuesTypeOK, SenderTypeOK, ReceiverTypeOK,
       SwitchTypeOK, HistoryTypeOK, loopVars, senderVars, receiverVars, switchVars,
       historyVars

LEMMA VisitReceiverType ==
  ASSUME TypeInv, NEW h \in Hosts, VisitReceiver(h)
  PROVE  TypeInv'
BY HostsFacts DEF VisitReceiver, TypeInv, TypeOK, DeliveryOK, LoopTypeOK, QueuesTypeOK, SenderTypeOK, ReceiverTypeOK,
       SwitchTypeOK, HistoryTypeOK, loopVars, senderVars, receiverVars, switchVars,
       historyVars

-----------------------------------------------------------------------------
(* The steps that move frames and commands between queues. *)

LEMMA DropAckType ==
  ASSUME TypeInv, NEW h \in Hosts, DropAck(h)
  PROVE  TypeInv'
<1>1. incoming_frames' \in [Hosts -> Seq(Frame)]
  BY PopType DEF DropAck, AckReady, TypeInv, TypeOK, QueuesTypeOK
<1>2. UNCHANGED <<loopVars, senderVars, receiverVars, switchVars, historyVars,
                  active, glb_exit_main, input_cmdlist, outgoing_frames>>
  BY DEF DropAck
<1> QED
  BY <1>1, <1>2 DEF TypeInv, TypeOK, DeliveryOK, LoopTypeOK, QueuesTypeOK, SenderTypeOK,
       ReceiverTypeOK, SwitchTypeOK, HistoryTypeOK, loopVars, senderVars, receiverVars,
       switchVars, historyVars

LEMMA CorruptedType ==
  ASSUME TypeInv, NEW h \in Hosts, Corrupted(h)
  PROVE  TypeInv'
<1>1. incoming_frames' \in [Hosts -> Seq(Frame)]
  BY PopType DEF Corrupted, Popping, TypeInv, TypeOK, QueuesTypeOK
<1>2. delivery = NotDelivering
  BY DEF Corrupted, Popping
<1>3. cur' = NoHost
      /\ UNCHANGED <<stage, todo, expired, dups, senderVars, receiverVars, switchVars,
                  historyVars, active, glb_exit_main, input_cmdlist, outgoing_frames>>
  BY DEF Corrupted
<1> QED
  BY <1>1, <1>2, <1>3 DEF TypeInv, TypeOK, DeliveryOK, LoopTypeOK, QueuesTypeOK, SenderTypeOK,
       ReceiverTypeOK, SwitchTypeOK, HistoryTypeOK, loopVars, senderVars, receiverVars,
       switchVars, historyVars

LEMMA ServeIngressType ==
  ASSUME TypeInv, ServeIngress
  PROVE  TypeInv'
<1> DEFINE i == First(Serviceable)
           f == Head(ingress[i])
<1>1. i \in Hosts /\ ingress[i] # <<>>
  BY FirstIn DEF ServeIngress, Serviceable
<1>2. f \in Frame /\ ingress' \in [Hosts -> Seq(Frame)]
  <2>1. ingress' = [ingress EXCEPT ![i] = Tail(@)]
    BY DEF ServeIngress
  <2> QED BY <1>1, <2>1, PopType DEF TypeInv, TypeOK, SwitchTypeOK
<1>3. /\ stage = "data"
      /\ UNCHANGED <<todo, cur, expired, dups, senderVars, receiverVars, historyVars,
                     active, glb_exit_main, input_cmdlist, outgoing_frames>>
  BY DEF ServeIngress
<1>4. stage' \in Stages
  BY DEF ServeIngress, Stages
<1>5. accepted' \in [Hosts -> Nat]
  BY DEF ServeIngress, TypeInv, TypeOK, SwitchTypeOK
<1>6. incoming_frames' \in [Hosts -> Seq(Frame)]
  <2>1. CASE incoming_frames' = incoming_frames
    BY <2>1 DEF TypeInv, TypeOK, QueuesTypeOK
  <2>2. CASE Sane(f)
    <3>1. PICK copy \in Copies(f) :
            incoming_frames' = [incoming_frames EXCEPT ![f.dst_id] = Append(@, copy)]
      BY <2>2 DEF ServeIngress
    <3>2. copy \in Frame /\ f.dst_id \in Hosts
      BY <1>2, CopiesType DEF Frame
    <3> QED BY <3>1, <3>2, AppendType DEF TypeInv, TypeOK, QueuesTypeOK
  <2> QED BY <2>1, <2>2 DEF ServeIngress
<1> QED
  BY <1>2, <1>3, <1>4, <1>5, <1>6 DEF TypeInv, TypeOK, DeliveryOK, LoopTypeOK, QueuesTypeOK, SenderTypeOK,
       ReceiverTypeOK, SwitchTypeOK, HistoryTypeOK, loopVars, senderVars, receiverVars,
       switchVars, historyVars

LEMMA SendAckType ==
  ASSUME TypeInv, SendAck
  PROVE  TypeInv'
<1> DEFINE waiting == {g \in Hosts : outgoing_frames[g] # <<>>}
           h == First(waiting)
           f == Head(outgoing_frames[h])
<1>1. h \in Hosts /\ outgoing_frames[h] # <<>>
  BY FirstIn DEF SendAck
<1>2. f \in Frame /\ outgoing_frames' \in [Hosts -> Seq(Frame)]
  <2>1. outgoing_frames' = [outgoing_frames EXCEPT ![h] = Tail(@)]
    BY DEF SendAck
  <2> QED BY <1>1, <2>1, PopType DEF TypeInv, TypeOK, QueuesTypeOK
<1>3. /\ stage = "acks"
      /\ UNCHANGED <<todo, cur, expired, dups, senderVars, receiverVars, switchVars,
                     historyVars, active, glb_exit_main, input_cmdlist>>
  BY DEF SendAck
<1>4. stage' \in Stages
  BY DEF SendAck, Stages
<1>5. incoming_frames' \in [Hosts -> Seq(Frame)]
  <2>1. CASE incoming_frames' = incoming_frames
    BY <2>1 DEF TypeInv, TypeOK, QueuesTypeOK
  <2>2. CASE Sane(f)
    <3>1. PICK copy \in Copies(f) :
            incoming_frames' = [incoming_frames EXCEPT ![f.dst_id] = Append(@, copy)]
      BY <2>2 DEF SendAck
    <3>2. copy \in Frame /\ f.dst_id \in Hosts
      BY <1>2, CopiesType DEF Frame
    <3> QED BY <3>1, <3>2, AppendType DEF TypeInv, TypeOK, QueuesTypeOK
  <2> QED BY <2>1, <2>2 DEF SendAck
<1> QED
  BY <1>2, <1>3, <1>4, <1>5 DEF TypeInv, TypeOK, DeliveryOK, LoopTypeOK, QueuesTypeOK, SenderTypeOK,
       ReceiverTypeOK, SwitchTypeOK, HistoryTypeOK, loopVars, senderVars, receiverVars,
       switchVars, historyVars

LEMMA ForwardFrameType ==
  ASSUME TypeInv, NEW h \in Hosts, ForwardFrame(h)
  PROVE  TypeInv'
<1> DEFINE f == Head(outgoing_frames[h])
<1>1. f \in Frame /\ outgoing_frames' \in [Hosts -> Seq(Frame)]
  BY PopType DEF ForwardFrame, TypeInv, TypeOK, QueuesTypeOK
<1>2. f.dst_id \in Hosts
  BY <1>1 DEF Frame
<1>3. /\ stage = "data"
      /\ UNCHANGED <<cur, expired, dups, senderVars, receiverVars, historyVars,
                     active, glb_exit_main, input_cmdlist>>
  BY DEF ForwardFrame
<1>4. stage' \in Stages
  BY DEF ForwardFrame, TypeInv, TypeOK, LoopTypeOK, Stages
<1>5. todo' \subseteq Hosts
  BY DEF ForwardFrame, PassAfter, TypeInv, TypeOK, LoopTypeOK
<1>6. accepted' \in [Hosts -> Nat]
  <2>1. \/ UNCHANGED accepted
        \/ accepted' = [accepted EXCEPT ![f.dst_id] = @ + 1]
    BY DEF ForwardFrame
  <2>2. accepted \in [Hosts -> Nat]
    BY DEF TypeInv, TypeOK, SwitchTypeOK
  <2> HIDE DEF f
  <2> QED BY <1>2, <2>1, <2>2
<1>7. ingress' \in [Hosts -> Seq(Frame)]
  <2>1. \/ UNCHANGED ingress
        \/ ingress' = [ingress EXCEPT ![f.dst_id] = Append(@, f)]
    BY DEF ForwardFrame
  <2>2. ingress \in [Hosts -> Seq(Frame)]
    BY DEF TypeInv, TypeOK, SwitchTypeOK
  <2>3. f \in Frame /\ f.dst_id \in Hosts
    BY <1>1, <1>2
  <2> HIDE DEF f
  <2>4. [ingress EXCEPT ![f.dst_id] = Append(@, f)] \in [Hosts -> Seq(Frame)]
    BY <2>2, <2>3, AppendType
  <2> QED BY <2>1, <2>2, <2>4
<1>8. incoming_frames' \in [Hosts -> Seq(Frame)]
  <2>1. CASE incoming_frames' = incoming_frames
    BY <2>1 DEF TypeInv, TypeOK, QueuesTypeOK
  <2>2. CASE \E copy \in Copies(f) : incoming_frames' =
               [incoming_frames EXCEPT ![f.dst_id] = Append(@, copy)]
    BY <1>1, <1>2, <2>2, CopiesType, AppendType DEF TypeInv, TypeOK, QueuesTypeOK
  <2> QED BY <2>1, <2>2 DEF ForwardFrame
<1> QED
  BY <1>1, <1>3, <1>4, <1>5, <1>6, <1>7, <1>8 DEF TypeInv, TypeOK, DeliveryOK, LoopTypeOK, QueuesTypeOK, SenderTypeOK,
       ReceiverTypeOK, SwitchTypeOK, HistoryTypeOK, loopVars, senderVars, receiverVars,
       switchVars, historyVars

LEMMA UserMsgType ==
  ASSUME TypeInv, NEW s \in Hosts, NEW d \in Hosts, UserMsg(s, d)
  PROVE  TypeInv'
<1>1. PICK n \in 1 .. MaxFragments :
        /\ stage = "input"
        /\ input_cmdlist' = [input_cmdlist EXCEPT ![s] =
             Append(@, [dst_id |-> d, message |-> Pieces(s, d, n)])]
        /\ typed' = [typed EXCEPT ![s][d] = @ + n]
        /\ issued' = [issued EXCEPT ![s][d] = Append(@, Pieces(s, d, n))]
        /\ UNCHANGED <<loopVars, senderVars, receiverVars, switchVars, active,
                       glb_exit_main, incoming_frames, outgoing_frames>>
  BY DEF UserMsg
<1>2. n \in Nat /\ typed[s][d] \in Nat
  BY ConfigAssumption DEF TypeInv, TypeOK, HistoryTypeOK
<1>3. Pieces(s, d, n) \in Seq(Nat)
  BY <1>2 DEF Pieces
<1>4. input_cmdlist' \in [Hosts -> Seq(Cmd)]
  <2>1. [dst_id |-> d, message |-> Pieces(s, d, n)] \in Cmd
    BY <1>3 DEF Cmd
  <2> QED BY <1>1, <2>1, AppendType DEF TypeInv, TypeOK, QueuesTypeOK
<1>5. typed' \in [Hosts -> [Hosts -> Nat]]
  BY <1>1, <1>2 DEF TypeInv, TypeOK, HistoryTypeOK
<1>6. issued' \in [Hosts -> [Hosts -> Seq(Seq(Nat))]]
  BY <1>1, <1>3 DEF TypeInv, TypeOK, HistoryTypeOK
<1> QED
  BY <1>1, <1>4, <1>5, <1>6 DEF TypeInv, TypeOK, DeliveryOK, LoopTypeOK, QueuesTypeOK, SenderTypeOK,
       ReceiverTypeOK, SwitchTypeOK, HistoryTypeOK, loopVars, senderVars, receiverVars,
       switchVars, historyVars

-----------------------------------------------------------------------------
(* The steps of a sender. *)

LEMMA HandleInputCmdType ==
  ASSUME TypeInv, NEW h \in Hosts, HandleInputCmd(h)
  PROVE  TypeInv'
<1> DEFINE cmd == Head(input_cmdlist[h])
           g   == cmd.dst_id
<1>1. cmd \in Cmd /\ input_cmdlist' \in [Hosts -> Seq(Cmd)]
  BY PopType DEF HandleInputCmd, TypeInv, TypeOK, QueuesTypeOK
<1>2. g \in Hosts /\ cmd.message \in Seq(Nat) /\ LFS[h][g] \in SeqNums
  BY <1>1 DEF Cmd, TypeInv, TypeOK, SenderTypeOK
<1>3. LFS[h][g] \in Nat /\ Len(cmd.message) \in Nat
  <2> HIDE DEF g, cmd
  <2> QED BY <1>2 DEF SeqNums
<1>4. LFS' \in [Hosts -> [Hosts -> SeqNums]]
  <2>1. LFS' = [LFS EXCEPT ![h][g] = uint8(@ + Len(cmd.message))]
    BY DEF HandleInputCmd
  <2>2. uint8(LFS[h][g] + Len(cmd.message)) \in SeqNums
    <3> HIDE DEF g, cmd
    <3> QED BY <1>3, Uint8Type
  <2> HIDE DEF g, cmd
  <2> QED BY <1>2, <2>1, <2>2 DEF TypeInv, TypeOK, SenderTypeOK
<1>5. Fragments(h, cmd) \in Seq(Frame)
  <2>1. Len(cmd.message) \in Nat
    BY <1>3
  <2>2. ASSUME NEW i \in 1 .. Len(cmd.message) PROVE Fragments(h, cmd)[i] \in Frame
    <3>1. uint8(LFS[h][g] + i) \in SeqNums
      <4> HIDE DEF g, cmd
      <4> QED BY <1>3, Uint8Type
    <3>2. 0 \in SeqNums
      BY SeqNumAssumption DEF SeqNums
    <3>3. i - 1 \in Nat /\ Len(cmd.message) - i \in Nat /\ cmd.message[i] \in Nat
      BY <1>2, <2>1
    <3> QED BY <1>2, <3>1, <3>2, <3>3 DEF Fragments, Frame
  <2>3. Fragments(h, cmd) = [i \in 1 .. Len(cmd.message) |-> Fragments(h, cmd)[i]]
    BY DEF Fragments
  <2> QED BY <2>1, <2>2, <2>3
<1>6. buffered_outframes' \in [Hosts -> Seq(Frame)]
  <2>1. buffered_outframes' = [buffered_outframes EXCEPT ![h] = @ \o Fragments(h, cmd)]
    BY DEF HandleInputCmd
  <2> QED BY <1>5, <2>1 DEF TypeInv, TypeOK, SenderTypeOK
<1>7. /\ stage = "senders"
      /\ UNCHANGED <<loopVars, receiverVars, switchVars, historyVars, active,
                     send_window, timeout, wait, LAR, cc, glb_exit_main,
                     incoming_frames, outgoing_frames>>
  BY DEF HandleInputCmd
<1> QED
  BY <1>1, <1>4, <1>6, <1>7 DEF TypeInv, TypeOK, DeliveryOK, LoopTypeOK, QueuesTypeOK, SenderTypeOK,
       ReceiverTypeOK, SwitchTypeOK, HistoryTypeOK, loopVars, senderVars, receiverVars,
       switchVars, historyVars

\* The congestion controller stays within the naturals.
LEMMA InitCCType == InitCC(window_size) \in CongestionControl
BY ConfigAssumption, CwndUnitAssumption DEF InitCC, CongestionControl, CCStates

LEMMA CCUpdateType ==
  ASSUME NEW c \in CongestionControl, NEW w \in Nat, NEW t \in Nat, NEW st \in CCStates
  PROVE  /\ [c EXCEPT !.cwnd = w] \in CongestionControl
         /\ [c EXCEPT !.ssthresh = t, !.cwnd = w] \in CongestionControl
         /\ [c EXCEPT !.state = st, !.cwnd = w] \in CongestionControl
         /\ [c EXCEPT !.cwnd = w, !.state = st] \in CongestionControl
<1>1. \A d \in CongestionControl : /\ [d EXCEPT !.cwnd = w] \in CongestionControl
                                   /\ [d EXCEPT !.ssthresh = t] \in CongestionControl
                                   /\ [d EXCEPT !.state = st] \in CongestionControl
  BY DEF CongestionControl
<1>2. /\ [c EXCEPT !.ssthresh = t, !.cwnd = w] = [[c EXCEPT !.ssthresh = t] EXCEPT !.cwnd = w]
      /\ [c EXCEPT !.state = st, !.cwnd = w] = [[c EXCEPT !.state = st] EXCEPT !.cwnd = w]
      /\ [c EXCEPT !.cwnd = w, !.state = st] = [[c EXCEPT !.cwnd = w] EXCEPT !.state = st]
  OBVIOUS
<1> QED
  BY <1>1, <1>2

LEMMA CountDuplicateType ==
  ASSUME NEW c \in CongestionControl, NEW n \in Nat
  PROVE  CountDuplicate(c, n) \in CongestionControl
<1>1. c.cwnd \in Nat /\ c.cwnd \div 2 \in Nat
  BY DEF CongestionControl
<1>2. c.cwnd \div 2 + 3 * CWND_UNIT \in Nat /\ c.cwnd + CWND_UNIT \in Nat
  BY <1>1, CwndUnitAssumption
<1>3. n \notin {3, 4} /\ ~(n > 4) => CountDuplicate(c, n) = c
  BY DEF CountDuplicate
<1>4. CASE n = 3
  BY <1>1, <1>2, <1>4, CCUpdateType DEF CountDuplicate, CCStates
<1>5. CASE n = 4
  BY <1>1, <1>2, <1>5, CCUpdateType DEF CountDuplicate, CCStates
<1>6. CASE n > 4
  BY <1>1, <1>2, <1>6, CCUpdateType DEF CountDuplicate, CCStates
<1> QED
  BY <1>3, <1>4, <1>5, <1>6

LEMMA GrowType ==
  ASSUME NEW c \in CongestionControl, NEW larger \in BOOLEAN
  PROVE  Grow(c, larger) \in CongestionControl
<1> DEFINE step == (CWND_UNIT * CWND_UNIT) \div c.cwnd
<1>1. c.cwnd \in Nat /\ c.ssthresh \in Nat /\ CWND_UNIT \in Nat
  BY CwndUnitAssumption DEF CongestionControl
<1>2. CASE c.cwnd <= c.ssthresh
  BY <1>1, <1>2 DEF Grow, CongestionControl
<1>3. CASE c.cwnd > c.ssthresh
  <2>1. c.cwnd + step \in Nat
    <3>1. CWND_UNIT * CWND_UNIT \in Nat
      BY <1>1
    <3>2. c.cwnd > 0
      BY <1>1, <1>3
    <3> QED BY <1>1, <3>1, <3>2
  <2>2. [c EXCEPT !.cwnd = c.cwnd + step, !.state = "AIMD"] \in CongestionControl
    BY <2>1, CCUpdateType DEF CCStates
  <2>3. \/ Grow(c, larger) = [c EXCEPT !.cwnd = c.cwnd + step, !.state = "AIMD"]
        \/ Grow(c, larger) = c
    BY <1>1, <1>3 DEF Grow
  <2> QED BY <2>2, <2>3
<1> QED
  BY <1>1, <1>2, <1>3

LEMMA OnAckType ==
  ASSUME NEW c \in CongestionControl, NEW n \in Nat, NEW larger \in BOOLEAN
  PROVE  OnAck(c, n, larger) \in CongestionControl
BY CountDuplicateType, GrowType DEF OnAck

LEMMA AcceptAckType ==
  ASSUME TypeInv, NEW h \in Hosts, AcceptAck(h)
  PROVE  TypeInv'
<1> DEFINE f     == Head(incoming_frames[h])
           g     == f.src_id
           freed == Acked(send_window[h], f)
           dup   == IF f.ack_num = LAR[h][g] THEN 1 ELSE 0
<1>1. f \in Frame /\ incoming_frames' \in [Hosts -> Seq(Frame)]
  BY PopType DEF AcceptAck, AckReady, TypeInv, TypeOK, QueuesTypeOK
<1>2. g \in Hosts /\ f.ack_num \in SeqNums
  BY <1>1 DEF Frame
<1>3. dups[g] + dup \in Nat
  BY <1>2 DEF TypeInv, TypeOK, LoopTypeOK
<1>4. dups' \in [Hosts -> Nat]
  <2>1. dups' = [dups EXCEPT ![g] = @ + dup]
    BY DEF AcceptAck
  <2> HIDE DEF g, dup
  <2> QED BY <1>2, <1>3, <2>1 DEF TypeInv, TypeOK, LoopTypeOK
<1>5. cc' \in [Hosts -> [Hosts -> CongestionControl]]
  <2>1. cc' = [cc EXCEPT ![h][g] = OnAck(@, dups[g] + dup, f.ack_num > LAR[h][g])]
    BY DEF AcceptAck
  <2>2. (f.ack_num > LAR[h][g]) \in BOOLEAN
    OBVIOUS
  <2>3. cc[h][g] \in CongestionControl
    BY <1>2 DEF TypeInv, TypeOK, SenderTypeOK
  <2>4. OnAck(cc[h][g], dups[g] + dup, f.ack_num > LAR[h][g]) \in CongestionControl
    BY <1>3, <2>2, <2>3, OnAckType
  <2> HIDE DEF g, dup, f
  <2> QED BY <1>2, <2>1, <2>4 DEF TypeInv, TypeOK, SenderTypeOK
<1>6. send_window' \in [Hosts -> [Slots -> Frame \cup {NoFrame}]]
  <2>1. send_window' = [send_window EXCEPT ![h] =
                          [q \in Slots |-> IF q \in freed THEN NoFrame ELSE @[q]]]
    BY DEF AcceptAck
  <2> HIDE DEF freed
  <2> QED BY <2>1 DEF TypeInv, TypeOK, SenderTypeOK
<1>7. timeout' \in [Hosts -> [Slots -> BOOLEAN]]
  <2>1. timeout' = [timeout EXCEPT ![h] = [q \in Slots |-> q \notin freed /\ @[q]]]
    BY DEF AcceptAck
  <2> HIDE DEF freed
  <2> QED BY <2>1 DEF TypeInv, TypeOK, SenderTypeOK
<1>8. LAR' \in [Hosts -> [Hosts -> SeqNums]]
  <2>1. LAR' = [LAR EXCEPT ![h][g] = f.ack_num]
    BY DEF AcceptAck
  <2> HIDE DEF f
  <2> QED BY <1>2, <2>1 DEF TypeInv, TypeOK, SenderTypeOK
<1>9. /\ stage = "senders"
      /\ UNCHANGED <<stage, todo, cur, expired, receiverVars, switchVars,
                     historyVars, active, buffered_outframes, wait, LFS,
                     glb_exit_main, input_cmdlist, outgoing_frames>>
  BY DEF AcceptAck, AckReady
<1> QED
  BY <1>1, <1>4, <1>5, <1>6, <1>7, <1>8, <1>9 DEF TypeInv, TypeOK, DeliveryOK, LoopTypeOK, QueuesTypeOK, SenderTypeOK,
       ReceiverTypeOK, SwitchTypeOK, HistoryTypeOK, loopVars, senderVars, receiverVars,
       switchVars, historyVars

LEMMA OnFastRetransmitType ==
  ASSUME NEW c \in CongestionControl
  PROVE  OnFastRetransmit(c) \in CongestionControl
BY CCUpdateType DEF OnFastRetransmit, CongestionControl

LEMMA CCAfterResendType ==
  ASSUME TypeInv, NEW h \in Hosts
  PROVE  CCAfterResend(h) \in [Hosts -> CongestionControl]
<1>1. \A g \in Hosts : cc[h][g] \in CongestionControl
  BY DEF TypeInv, TypeOK, SenderTypeOK
<1>2. \A g \in Hosts : OnFastRetransmit(cc[h][g]) \in CongestionControl
  BY <1>1, OnFastRetransmitType
<1> QED
  BY <1>1, <1>2 DEF CCAfterResend

LEMMA HandleOutgoingType ==
  ASSUME TypeInv, NEW h \in Hosts, HandleOutgoing(h)
  PROVE  TypeInv'
<1> DEFINE w    == send_window[h]
           buf  == buffered_outframes[h]
           Free == Slots \ Occupied(w)
           Fast == FastRetransmit(h)
           Late == TimedOut(h)
           waiting == wait[h] /\ Occupied(w) # {}
           fast == Ascending(Fast)
           late == Ascending(Late)
           free == Ascending(Free)
           filled(n) == {free[k] : k \in 1 .. n}
           w2(n) == [q \in Slots |->
                       IF q \in filled(n)
                       THEN buf[CHOOSE k \in 1 .. n : free[k] = q] ELSE w[q]]
           rest(n) == SubSeq(buf, n + 1, Len(buf))
<1>1. w \in [Slots -> Frame \cup {NoFrame}] /\ buf \in Seq(Frame) /\ timeout[h] \in [Slots -> BOOLEAN]
  BY DEF TypeInv, TypeOK, SenderTypeOK
<1>2. \A q \in Occupied(w) : q \in Slots /\ w[q] \in Frame
  BY <1>1 DEF Occupied, HasFrame
<1>3. Fast \subseteq Occupied(w) /\ Late \subseteq Occupied(w) /\ Free \subseteq Slots
  BY DEF FastRetransmit, TimedOut
<1>4. ASSUME NEW S \in SUBSET Occupied(w)
      PROVE  [i \in DOMAIN Ascending(S) |-> w[Ascending(S)[i]]] \in Seq(Frame)
  <2>1. S \subseteq Slots
    BY <1>2
  <2>2. Cardinality(S) \in Nat /\ Ascending(S) \in [1 .. Cardinality(S) -> S]
    BY <2>1, AscendingType
  <2>3. \A i \in 1 .. Cardinality(S) : w[Ascending(S)[i]] \in Frame
    BY <1>2, <2>2
  <2> HIDE DEF w
  <2> QED BY <2>2, <2>3
<1>5. PICK n \in 0 .. Len(buf) :
        /\ stage = "senders"
        /\ cc' = [cc EXCEPT ![h] = CCAfterResend(h)]
        /\ outgoing_frames' = [outgoing_frames EXCEPT ![h] =
               @ \o [i \in DOMAIN fast |-> w[fast[i]]]
                 \o [i \in DOMAIN late |-> w[late[i]]]
                 \o SubSeq(buf, 1, n)]
        /\ buffered_outframes' = [buffered_outframes EXCEPT ![h] = rest(n)]
        /\ send_window' = [send_window EXCEPT ![h] = w2(n)]
        /\ timeout' = [timeout EXCEPT ![h] =
               [q \in Slots |-> \/ q \in Fast \cup Late \cup filled(n)
                                \/ @[q] /\ q \notin expired]]
        /\ wait' = [wait EXCEPT ![h] =
               waiting \/ (n > 0 /\ OtherReceiverNext(buf, n))]
        /\ active' = [active EXCEPT ![h] = Busy(w2(n), rest(n))]
        /\ cur' = NoHost
        /\ expired' = {}
        /\ dups' = [g \in Hosts |-> 0]
        /\ UNCHANGED <<stage, todo, LAR, LFS, receiverVars, switchVars,
                       historyVars, glb_exit_main, input_cmdlist,
                       incoming_frames>>
  BY Zenon DEF HandleOutgoing
<1>6. SubSeq(buf, 1, n) \in Seq(Frame) /\ rest(n) \in Seq(Frame)
  BY <1>1
<1>7. outgoing_frames' \in [Hosts -> Seq(Frame)]
  <2>1. /\ [i \in DOMAIN fast |-> w[fast[i]]] \in Seq(Frame)
        /\ [i \in DOMAIN late |-> w[late[i]]] \in Seq(Frame)
    BY <1>3, <1>4
  <2>2. outgoing_frames \in [Hosts -> Seq(Frame)]
    BY DEF TypeInv, TypeOK, QueuesTypeOK
  <2> DEFINE a == [i \in DOMAIN fast |-> w[fast[i]]]
             b == [i \in DOMAIN late |-> w[late[i]]]
             c == SubSeq(buf, 1, n)
  <2>3. outgoing_frames[h] \o a \o b \o c \in Seq(Frame)
    <3> HIDE DEF a, b, c
    <3> QED BY <1>6, <2>1, <2>2 DEF a, b, c
  <2> QED BY <1>5, <2>2, <2>3
<1>8. send_window' \in [Hosts -> [Slots -> Frame \cup {NoFrame}]]
  <2>1. ASSUME NEW q \in filled(n)
        PROVE  buf[CHOOSE k \in 1 .. n : free[k] = q] \in Frame
    <3>1. PICK k \in 1 .. n : free[k] = q
      BY <2>1
    <3>2. (CHOOSE j \in 1 .. n : free[j] = q) \in 1 .. n
      BY <3>1
    <3> HIDE DEF buf, free
    <3> QED BY <1>1, <3>2
  <2>2. w2(n) \in [Slots -> Frame \cup {NoFrame}]
    <3> HIDE DEF buf, free, filled, w
    <3> QED BY <1>1, <2>1
  <2> HIDE DEF w2
  <2> QED BY <1>5, <2>2 DEF TypeInv, TypeOK, SenderTypeOK
<1>9. buffered_outframes' \in [Hosts -> Seq(Frame)]
  <2> HIDE DEF rest
  <2> QED BY <1>5, <1>6 DEF TypeInv, TypeOK, SenderTypeOK
<1>10. timeout' \in [Hosts -> [Slots -> BOOLEAN]]
  <2> HIDE DEF filled, Fast, Late
  <2> QED BY <1>5 DEF TypeInv, TypeOK, SenderTypeOK
<1>11. wait' \in [Hosts -> BOOLEAN]
  <2> DEFINE b == waiting \/ (n > 0 /\ OtherReceiverNext(buf, n))
  <2>1. b \in BOOLEAN /\ wait' = [wait EXCEPT ![h] = b]
    BY <1>5
  <2> HIDE DEF b
  <2> QED BY <2>1 DEF TypeInv, TypeOK, SenderTypeOK
<1>12. active' \in [Hosts -> BOOLEAN]
  <2> DEFINE b == Busy(w2(n), rest(n))
  <2>1. b \in BOOLEAN /\ active' = [active EXCEPT ![h] = b]
    BY <1>5, BusyBoolean
  <2> HIDE DEF b
  <2> QED BY <2>1 DEF TypeInv, TypeOK, LoopTypeOK
<1>13. cc' \in [Hosts -> [Hosts -> CongestionControl]]
  BY <1>5, CCAfterResendType DEF TypeInv, TypeOK, SenderTypeOK
<1>14. /\ stage = "senders" /\ cur' = NoHost /\ expired' = {}
       /\ dups' = [g \in Hosts |-> 0]
       /\ UNCHANGED <<stage, todo, LAR, LFS, receiverVars, switchVars, historyVars,
                      glb_exit_main, input_cmdlist, incoming_frames>>
  BY <1>5
<1> HIDE DEF w, buf, Free, Fast, Late, waiting, fast, late, free, filled, w2, rest
<1> QED
  BY <1>7, <1>8, <1>9, <1>10, <1>11, <1>12, <1>13, <1>14 DEF TypeInv, TypeOK, DeliveryOK, LoopTypeOK, QueuesTypeOK, SenderTypeOK,
       ReceiverTypeOK, SwitchTypeOK, HistoryTypeOK, loopVars, senderVars, receiverVars,
       switchVars, historyVars

-----------------------------------------------------------------------------
(* The steps of a receiver. *)

LEMMA SlotOf ==
  ASSUME NEW n \in SeqNums
  PROVE  n % window_size \in Slots
BY ConfigAssumption, SeqNumAssumption DEF SeqNums, Slots

LEMMA FrameIsNotEmpty ==
  ASSUME NEW f \in Frame
  PROVE  f # NoFrame
<1>1. "src_id" \in DOMAIN f /\ "src_id" \notin DOMAIN NoFrame
  BY DEF Frame, NoFrame
<1> QED
  BY <1>1

LEMMA LastAckType ==
  ASSUME TypeInv, NEW h \in Hosts, NEW f \in Frame
  PROVE  LastAck(h, f) \in Frame
<1>1. f.src_id \in Hosts /\ f.dst_id \in Hosts
  BY DEF Frame
<1>2. NFE[h][f.src_id] \in SeqNums
  BY <1>1 DEF TypeInv, TypeOK, ReceiverTypeOK
<1>3. NFE[h][f.src_id] - 1 \in Int
  BY <1>2 DEF SeqNums
<1> QED
  BY <1>1, <1>3, AckType DEF LastAck

LEMMA UnstoredType ==
  ASSUME TypeInv, NEW h \in Hosts, Unstored(h)
  PROVE  TypeInv'
<1> DEFINE f == Head(incoming_frames[h])
<1>1. f \in Frame /\ incoming_frames' \in [Hosts -> Seq(Frame)]
  BY PopType DEF Unstored, Popping, TypeInv, TypeOK, QueuesTypeOK
<1>2. outgoing_frames' \in [Hosts -> Seq(Frame)]
  <2>1. \/ UNCHANGED outgoing_frames
        \/ outgoing_frames' = [outgoing_frames EXCEPT ![h] = Append(@, LastAck(h, f))]
    BY DEF Unstored
  <2>2. LastAck(h, f) \in Frame
    BY <1>1, LastAckType
  <2>3. outgoing_frames \in [Hosts -> Seq(Frame)]
    BY DEF TypeInv, TypeOK, QueuesTypeOK
  <2>4. [outgoing_frames EXCEPT ![h] = Append(@, LastAck(h, f))] \in [Hosts -> Seq(Frame)]
    BY <2>2, <2>3, AppendType
  <2> QED BY <2>1, <2>3, <2>4
<1>3. cur' \in Hosts \cup {NoHost} /\ delivery = NotDelivering
  BY DEF Unstored, Popping, NextVisit
<1>4. UNCHANGED <<stage, todo, expired, dups, senderVars, receiverVars,
                  switchVars, historyVars, active, glb_exit_main, input_cmdlist>>
  BY DEF Unstored
<1> QED
  BY <1>1, <1>2, <1>3, <1>4 DEF TypeInv, TypeOK, DeliveryOK, LoopTypeOK, QueuesTypeOK, SenderTypeOK,
       ReceiverTypeOK, SwitchTypeOK, HistoryTypeOK, loopVars, senderVars, receiverVars,
       switchVars, historyVars

\* A frame stored in the slot that is delivered next starts a delivery: this
\* is what DeliveryOK keeps.
LEMMA StoreType ==
  ASSUME TypeInv, NEW h \in Hosts, Store(h)
  PROVE  TypeInv'
<1> DEFINE f    == Head(incoming_frames[h])
           g    == f.src_id
           slot == f.seq_num % window_size
<1>1. f \in Frame /\ incoming_frames' \in [Hosts -> Seq(Frame)]
  BY PopType DEF Store, Popping, TypeInv, TypeOK, QueuesTypeOK
<1>2. g \in Hosts /\ f.seq_num \in SeqNums /\ f # NoFrame
  BY <1>1, FrameIsNotEmpty DEF Frame
<1>3. slot \in Slots
  BY <1>2, SlotOf
<1>4. /\ receive_window' = [receive_window EXCEPT ![h][g][slot] = f]
      /\ UNCHANGED <<stage, todo, expired, dups, senderVars, NFE, emptyCharArray,
                     printed, switchVars, historyVars, active, glb_exit_main,
                     input_cmdlist>>
  BY DEF Store
<1>5. /\ receive_window' \in [Hosts -> [Hosts -> [Slots -> Frame \cup {NoFrame}]]]
      /\ receive_window'[h][g][slot] = f
  <2> receive_window \in [Hosts -> [Hosts -> [Slots -> Frame \cup {NoFrame}]]]
    BY DEF TypeInv, TypeOK, ReceiverTypeOK
  <2> HIDE DEF f, slot
  <2> QED BY <1>1, <1>2, <1>3, <1>4
<1>6. outgoing_frames' \in [Hosts -> Seq(Frame)]
  <2>1. \/ UNCHANGED outgoing_frames
        \/ outgoing_frames' = [outgoing_frames EXCEPT ![h] = Append(@, LastAck(h, f))]
    BY DEF Store
  <2>2. LastAck(h, f) \in Frame
    BY <1>1, LastAckType
  <2>3. outgoing_frames \in [Hosts -> Seq(Frame)]
    BY DEF TypeInv, TypeOK, QueuesTypeOK
  <2>4. [outgoing_frames EXCEPT ![h] = Append(@, LastAck(h, f))] \in [Hosts -> Seq(Frame)]
    BY <2>2, <2>3, AppendType
  <2> QED BY <2>1, <2>3, <2>4
<1>7. cur' \in Hosts \cup {NoHost}
  BY DEF Store, NextVisit
<1>8. DeliveryOK' /\ delivery' \in [pre_seq : Int, src_id : Hosts \cup {NoHost},
                                    seq_num : SeqNums]
  <2>1. CASE NFE[h][g] = f.seq_num
    <3>1. /\ delivery' = [src_id |-> g, seq_num |-> f.seq_num,
                          pre_seq |-> f.seq_num - 1]
          /\ cur' = h /\ stage' = "receivers" /\ NFE' = NFE
      BY <2>1 DEF Store, NextVisit, Popping
    <3>2. delivery'.src_id = g /\ f.seq_num - 1 \in Int
      BY <1>2, <3>1 DEF SeqNums
    <3>3. HasFrame(receive_window'[h][g], NFE'[h][g] % window_size)
      <4> HIDE DEF f
      <4> QED BY <1>2, <1>5, <2>1, <3>1 DEF HasFrame
    <3>4. DeliveryOK'
      <4> HIDE DEF f
      <4> QED BY <1>2, <3>1, <3>2, <3>3 DEF DeliveryOK
    <3>5. delivery' \in [pre_seq : Int, src_id : Hosts \cup {NoHost}, seq_num : SeqNums]
      <4> HIDE DEF f
      <4> QED BY <1>2, <3>1, <3>2
    <3> QED BY <3>4, <3>5
  <2>2. CASE NFE[h][g] # f.seq_num
    <3>1. delivery' = NotDelivering
      BY <2>2 DEF Store
    <3>2. 0 \in SeqNums
      BY SeqNumAssumption DEF SeqNums
    <3> QED BY <3>1, <3>2 DEF DeliveryOK, NotDelivering
  <2> QED BY <2>1, <2>2
<1> HIDE DEF f, g, slot
<1> QED
  BY <1>1, <1>4, <1>5, <1>6, <1>7, <1>8 DEF TypeInv, TypeOK, LoopTypeOK, QueuesTypeOK, SenderTypeOK,
       ReceiverTypeOK, SwitchTypeOK, HistoryTypeOK, loopVars, senderVars, receiverVars,
       switchVars, historyVars

LEMMA AssembleType ==
  ASSUME NEW b \in Seq(Nat), NEW f \in Frame
  PROVE  Assemble(b, f) \in Seq(Nat)
<1>1. f.starting_index + 1 \in Nat /\ f.data \in Nat
  BY DEF Frame
<1>2. \A i \in DOMAIN b : b[i] \in Nat
  OBVIOUS
<1> QED
  BY <1>1, <1>2 DEF Assemble

LEMMA DeliverType ==
  ASSUME TypeInv, NEW h \in Hosts, Deliver(h)
  PROVE  TypeInv'
<1> DEFINE g     == delivery.src_id
           nfe   == NFE[h][g]
           slot  == nfe % window_size
           f     == receive_window[h][g][slot]
           text  == Assemble(emptyCharArray[h][g], f)
           rest  == [receive_window[h][g] EXCEPT ![slot] = NoFrame]
           again == Deliverable(rest, uint8(nfe + 1), delivery.seq_num)
<1>1. /\ stage = "receivers" /\ cur = h
      /\ receive_window' = [receive_window EXCEPT ![h][g] = rest]
      /\ printed' = IF f.remaining = 0
                    THEN [printed EXCEPT ![h][g] = Append(@, text)] ELSE printed
      /\ emptyCharArray' = [emptyCharArray EXCEPT ![h][g] =
                              IF f.remaining = 0 THEN <<>> ELSE text]
      /\ outgoing_frames' = [outgoing_frames EXCEPT ![h] = Append(@, Ack(h, g, nfe))]
      /\ NFE' = [NFE EXCEPT ![h][g] = uint8(nfe + 1)]
      /\ delivery' = IF again THEN [delivery EXCEPT !.pre_seq = delivery.seq_num]
                     ELSE NotDelivering
      /\ cur' = IF again \/ incoming_frames[h] # <<>> THEN h ELSE NoHost
      /\ UNCHANGED <<stage, todo, expired, dups, senderVars, switchVars,
                     historyVars, active, glb_exit_main, input_cmdlist,
                     incoming_frames>>
  BY DEF Deliver
<1>2. g \in Hosts /\ HasFrame(receive_window[h][g], slot)
  BY DEF Deliver, TypeInv, DeliveryOK
<1>3. nfe \in SeqNums /\ nfe \in Nat
  BY <1>2 DEF SeqNums, TypeInv, TypeOK, ReceiverTypeOK
<1>4. slot \in Slots
  BY <1>3, SlotOf
<1>5. f \in Frame
  BY <1>2, <1>4 DEF HasFrame, TypeInv, TypeOK, ReceiverTypeOK
<1>6. text \in Seq(Nat)
  BY <1>2, <1>5, AssembleType DEF TypeInv, TypeOK, ReceiverTypeOK
<1>7. uint8(nfe + 1) \in SeqNums
  <2> HIDE DEF nfe
  <2> QED BY <1>3, Uint8Type
<1>8. rest \in [Slots -> Frame \cup {NoFrame}]
  <2>1. receive_window[h][g] \in [Slots -> Frame \cup {NoFrame}]
    BY <1>2 DEF TypeInv, TypeOK, ReceiverTypeOK
  <2> HIDE DEF g, slot
  <2> QED BY <2>1
<1>9. Ack(h, g, nfe) \in Frame
  BY <1>2, <1>3, AckType
<1>10. DeliveryOK' /\ delivery' \in [pre_seq : Int, src_id : Hosts \cup {NoHost},
                                     seq_num : SeqNums]
  <2>1. delivery \in [pre_seq : Int, src_id : Hosts \cup {NoHost}, seq_num : SeqNums]
    BY DEF TypeInv, TypeOK, ReceiverTypeOK
  <2>2. CASE again
    <3>1. /\ delivery' = [delivery EXCEPT !.pre_seq = delivery.seq_num]
          /\ cur' = h /\ stage' = "receivers"
      BY <1>1, <2>2
    <3>2. delivery'.src_id = g
      BY <2>1, <3>1
    <3>3. HasFrame(rest, uint8(nfe + 1) % window_size)
      BY <2>2 DEF Deliverable
    <3>4. receive_window'[h][g] = rest /\ NFE'[h][g] = uint8(nfe + 1)
      <4> HIDE DEF g, nfe, rest
      <4> QED BY <1>1, <1>2 DEF TypeInv, TypeOK, ReceiverTypeOK
    <3>5. DeliveryOK'
      <4> HIDE DEF g, nfe, rest
      <4> QED BY <1>2, <3>1, <3>2, <3>3, <3>4 DEF DeliveryOK
    <3>6. delivery' \in [pre_seq : Int, src_id : Hosts \cup {NoHost}, seq_num : SeqNums]
      BY <2>1, <3>1 DEF SeqNums
    <3> QED BY <3>5, <3>6
  <2>3. CASE ~again
    <3>1. delivery' = NotDelivering
      BY <1>1, <2>3
    <3>2. 0 \in SeqNums
      BY SeqNumAssumption DEF SeqNums
    <3> QED BY <3>1, <3>2 DEF DeliveryOK, NotDelivering
  <2> QED BY <2>2, <2>3
<1> HIDE DEF g, nfe, slot, f, text, rest, again
<1>11. receive_window' \in [Hosts -> [Hosts -> [Slots -> Frame \cup {NoFrame}]]]
  BY <1>1, <1>2, <1>8 DEF TypeInv, TypeOK, ReceiverTypeOK
<1>12. printed' \in [Hosts -> [Hosts -> Seq(Seq(Nat))]]
  BY <1>1, <1>2, <1>6 DEF TypeInv, TypeOK, ReceiverTypeOK
<1>13. emptyCharArray' \in [Hosts -> [Hosts -> Seq(Nat)]]
  BY <1>1, <1>2, <1>6 DEF TypeInv, TypeOK, ReceiverTypeOK
<1>14. NFE' \in [Hosts -> [Hosts -> SeqNums]]
  BY <1>1, <1>2, <1>7 DEF TypeInv, TypeOK, ReceiverTypeOK
<1>15. outgoing_frames' \in [Hosts -> Seq(Frame)]
  BY <1>1, <1>9, AppendType DEF TypeInv, TypeOK, QueuesTypeOK
<1>16. cur' \in Hosts \cup {NoHost}
  BY <1>1
<1> QED
  BY <1>1, <1>10, <1>11, <1>12, <1>13, <1>14, <1>15, <1>16
  DEF TypeInv, TypeOK, LoopTypeOK, QueuesTypeOK, SenderTypeOK,
       ReceiverTypeOK, SwitchTypeOK, HistoryTypeOK, loopVars, senderVars, receiverVars,
       switchVars, historyVars

-----------------------------------------------------------------------------

LEMMA InitType == Init => TypeInv
<1> SUFFICES ASSUME Init PROVE TypeInv
  OBVIOUS
<1>1. uint8(-1) \in SeqNums /\ 0 \in SeqNums
  BY Uint8Type, SeqNumAssumption DEF SeqNums
<1>2. LoopTypeOK
  BY DEF Init, LoopTypeOK, Stages
<1>3. QueuesTypeOK
  BY DEF Init, QueuesTypeOK
<1>4. SenderTypeOK
  BY <1>1, InitCCType DEF Init, SenderTypeOK
<1>5. ReceiverTypeOK /\ DeliveryOK
  BY <1>1 DEF Init, ReceiverTypeOK, DeliveryOK, NotDelivering
<1>6. SwitchTypeOK
  BY DEF Init, SwitchTypeOK
<1>7. HistoryTypeOK
  BY DEF Init, HistoryTypeOK
<1> QED
  BY <1>2, <1>3, <1>4, <1>5, <1>6, <1>7 DEF TypeInv, TypeOK

LEMMA NextType ==
  ASSUME TypeInv, [Next]_vars
  PROVE  TypeInv'
<1>1. CASE RunSenders
  BY <1>1, WakeType, SleepType, HandleInputCmdType, DropAckType, AcceptAckType,
     HandleOutgoingType, SendersDoneType DEF RunSenders
<1>2. CASE SendDataFrames
  BY <1>2, ServeIngressType, ForwardFrameType, DataDoneType DEF SendDataFrames
<1>3. CASE RunReceivers
  BY <1>3, VisitReceiverType, CorruptedType, UnstoredType, StoreType, DeliverType,
     ReceiversDoneType DEF RunReceivers
<1>4. CASE SendAck
  BY <1>4, SendAckType
<1>5. CASE GracefulExit
  BY <1>5, GracefulExitType
<1>6. CASE Input
  <2>1. \A p \in Pairs : p[1] \in Hosts /\ p[2] \in Hosts
    BY ConfigAssumption
  <2> QED
    BY <1>6, <2>1, UserMsgType, StartRoundType, InputEofType
       DEF Input, NoMoreInput, UserExit
<1>7. CASE UNCHANGED vars
  BY <1>7, AllVars
<1> QED
  BY <1>1, <1>2, <1>3, <1>4, <1>5, <1>6, <1>7 DEF Next, Program

\* No variable of the program ever leaves its type, for any number of hosts,
\* window, rate and range of sequence numbers: in particular every sequence
\* number stays in the 8 bits of a uint8_t, the congestion windows never become
\* negative, and the delivery loop only reads slots that hold a frame.
THEOREM TypeCorrect == Spec => []TypeOK
<1>1. TypeInv => TypeOK
  BY DEF TypeInv
<1>2. TypeInv /\ [Next]_vars => TypeInv'
  BY NextType
<1> QED
  BY <1>1, <1>2, InitType, PTL DEF Spec
=============================================================================
