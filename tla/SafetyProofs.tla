---------------------------- MODULE SafetyProofs ----------------------------
(***************************************************************************)
(* Four safety properties of the senders, for any number of hosts, window  *)
(* size, rate, capacity and range of sequence numbers: the deadlines, the  *)
(* floor of the congestion window, how far a turn overruns it, and the     *)
(* receivers that share a window.                                          *)
(***************************************************************************)
EXTENDS TypeProofs, MCFanOut

(***************************************************************************)
(* Every slot that holds a frame has a deadline.  Only two steps touch     *)
(* the windows and the deadlines: an ack empties slots, and the last step  *)
(* of a turn resends, fills, and sets the deadlines.                       *)
(***************************************************************************)
LEMMA DeadlinesAccept ==
  ASSUME TypeInv, SlotsHaveDeadlines, NEW h \in Hosts, AcceptAck(h)
  PROVE  SlotsHaveDeadlines'
<1> DEFINE freed == Acked(send_window[h], Head(incoming_frames[h]))
<1>1. /\ send_window' = [send_window EXCEPT ![h] =
           [q \in Slots |-> IF q \in freed THEN NoFrame ELSE @[q]]]
      /\ timeout' = [timeout EXCEPT ![h] = [q \in Slots |-> q \notin freed /\ @[q]]]
  BY DEF AcceptAck
<1>2. /\ send_window \in [Hosts -> [Slots -> Frame \cup {NoFrame}]]
      /\ timeout \in [Hosts -> [Slots -> BOOLEAN]]
  BY DEF TypeInv, TypeOK, SenderTypeOK
<1> HIDE DEF freed
<1>3. ASSUME NEW g \in Hosts, NEW q \in Slots
      PROVE  timeout'[g][q] <=> HasFrame(send_window'[g], q)
  <2>1. CASE g = h
    <3>1. /\ timeout'[g][q] <=> q \notin freed /\ timeout[g][q]
          /\ send_window'[g][q] = IF q \in freed THEN NoFrame ELSE send_window[g][q]
      BY <1>1, <1>2, <2>1
    <3> QED BY <3>1 DEF SlotsHaveDeadlines, HasFrame
  <2>2. CASE g # h
    <3>1. timeout'[g] = timeout[g] /\ send_window'[g] = send_window[g]
      BY <1>1, <1>2, <2>2
    <3> QED BY <3>1 DEF SlotsHaveDeadlines
  <2> QED BY <2>1, <2>2
<1> QED
  BY <1>3 DEF SlotsHaveDeadlines

LEMMA DeadlinesOutgoing ==
  ASSUME TypeInv, SlotsHaveDeadlines, NEW h \in Hosts, HandleOutgoing(h)
  PROVE  SlotsHaveDeadlines'
<1> DEFINE w    == send_window[h]
           buf  == buffered_outframes[h]
           Free == Slots \ Occupied(w)
           Fast == FastRetransmit(h)
           Late == TimedOut(h)
           free == Ascending(Free)
           filled(n) == {free[k] : k \in 1 .. n}
           w2(n) == [q \in Slots |->
                       IF q \in filled(n)
                       THEN buf[CHOOSE k \in 1 .. n : free[k] = q] ELSE w[q]]
           armed(n) == [q \in Slots |-> \/ q \in Fast \cup Late \cup filled(n)
                                        \/ timeout[h][q] /\ q \notin expired]
<1>1. PICK n \in 0 .. Len(buf) :
        /\ FillCount(h, buf, Cardinality(Free), wait[h] /\ Occupied(w) # {}, n)
        /\ send_window' = [send_window EXCEPT ![h] = w2(n)]
        /\ timeout' = [timeout EXCEPT ![h] =
               [q \in Slots |-> \/ q \in Fast \cup Late \cup filled(n)
                                \/ @[q] /\ q \notin expired]]
  BY Zenon DEF HandleOutgoing
<1>2. /\ send_window \in [Hosts -> [Slots -> Frame \cup {NoFrame}]]
      /\ timeout \in [Hosts -> [Slots -> BOOLEAN]]
      /\ buf \in Seq(Frame)
  BY DEF TypeInv, TypeOK, SenderTypeOK
<1>3. Fast \subseteq Occupied(w) /\ Late \subseteq Occupied(w)
  BY DEF FastRetransmit, TimedOut
<1>4. filled(n) \subseteq Free
  <2>1. n <= Cardinality(Free)
    BY <1>1 DEF FillCount
  <2>2. Cardinality(Free) \in Nat /\ free \in [1 .. Cardinality(Free) -> Free]
    BY AscendingType
  <2> HIDE DEF Free, free
  <2> QED BY <2>1, <2>2
<1>5. \A q \in filled(n) : w2(n)[q] # NoFrame
  <2> TAKE q \in filled(n)
  <2>1. PICK k \in 1 .. n : free[k] = q
    OBVIOUS
  <2>2. (CHOOSE j \in 1 .. n : free[j] = q) \in 1 .. n
    BY <2>1
  <2>3. buf[CHOOSE j \in 1 .. n : free[j] = q] \in Frame
    <3> HIDE DEF buf, free
    <3> QED BY <1>2, <2>2
  <2>4. w2(n)[q] = buf[CHOOSE j \in 1 .. n : free[j] = q]
    <3> q \in Slots
      BY <1>4
    <3> QED OBVIOUS
  <2> QED BY <2>3, <2>4, FrameIsNotEmpty
\* A slot that is neither resent nor filled keeps its deadline, because it is
\* resent when it has none or when it is expired.
<1>6. ASSUME NEW q \in Slots PROVE armed(n)[q] <=> HasFrame(w2(n), q)
  <2>1. timeout[h][q] <=> q \in Occupied(w)
    BY DEF SlotsHaveDeadlines, Occupied
  <2>2. CASE q \in filled(n)
    BY <1>5, <2>2 DEF HasFrame
  <2>3. CASE q \notin filled(n)
    <3>1. HasFrame(w2(n), q) <=> q \in Occupied(w)
      BY <2>3 DEF HasFrame, Occupied
    <3>2. CASE q \in Occupied(w)
      <4>1. q \in Fast \/ q \in Late \/ (timeout[h][q] /\ q \notin expired)
        BY <3>2 DEF TimedOut
      <4> QED BY <3>1, <3>2, <4>1
    <3>3. CASE q \notin Occupied(w)
      BY <1>3, <2>1, <2>3, <3>1, <3>3
    <3> QED BY <3>2, <3>3
  <2> QED BY <2>2, <2>3
<1>7. timeout' = [timeout EXCEPT ![h] = armed(n)]
  BY <1>1
<1>8. \A g \in Hosts : timeout'[g] = IF g = h THEN armed(n) ELSE timeout[g]
  <2> HIDE DEF armed
  <2> QED BY <1>2, <1>7
<1>9. \A g \in Hosts : send_window'[g] = IF g = h THEN w2(n) ELSE send_window[g]
  <2> HIDE DEF w2
  <2> QED BY <1>1, <1>2
<1> HIDE DEF w2, armed
<1> QED
  BY <1>6, <1>8, <1>9 DEF SlotsHaveDeadlines

LEMMA DeadlinesUnchanged ==
  ASSUME SlotsHaveDeadlines, UNCHANGED <<send_window, timeout>>
  PROVE  SlotsHaveDeadlines'
BY DEF SlotsHaveDeadlines

LEMMA DeadlinesNext ==
  ASSUME TypeInv, SlotsHaveDeadlines, [Next]_vars
  PROVE  SlotsHaveDeadlines'
<1>1. ASSUME NEW h \in Hosts, AcceptAck(h) PROVE SlotsHaveDeadlines'
  BY <1>1, DeadlinesAccept
<1>2. ASSUME NEW h \in Hosts, HandleOutgoing(h) PROVE SlotsHaveDeadlines'
  BY <1>2, DeadlinesOutgoing
<1>3. CASE /\ ~ \E h \in Hosts : AcceptAck(h) \/ HandleOutgoing(h)
  <2>1. UNCHANGED <<send_window, timeout>>
    BY <1>3 DEF Next, Program, Input, RunSenders, SendDataFrames, RunReceivers, Wake,
       Sleep, HandleInputCmd, DropAck, SendersDone, ServeIngress, ForwardFrame, DataDone,
       VisitReceiver, Corrupted, Unstored, Store, Deliver, ReceiversDone, SendAck,
       GracefulExit, UserMsg, NoMoreInput, UserExit, StartRound, InputEof, vars,
       senderVars
  <2> QED BY <2>1, DeadlinesUnchanged
<1> QED
  BY <1>1, <1>2, <1>3

\* A frame that waits for its ack always has a deadline, so its host is woken
\* for it again whatever the switch does; a slot without a frame has none.
THEOREM DeadlinesCorrect == Spec => []SlotsHaveDeadlines
<1>1. Init => SlotsHaveDeadlines
  BY DEF Init, SlotsHaveDeadlines, HasFrame
<1>2. TypeInv /\ SlotsHaveDeadlines /\ [Next]_vars => SlotsHaveDeadlines'
  BY DeadlinesNext
<1>3. TypeInv /\ [Next]_vars => TypeInv'
  BY NextType
<1> QED
  BY <1>1, <1>2, <1>3, InitType, PTL DEF Spec

-----------------------------------------------------------------------------
(***************************************************************************)
(* The floor of the congestion window.  ssthresh is half of the window at  *)
(* the third duplicate ack, and becomes the window at a fast retransmit:   *)
(* the floor holds because a window smaller than a frame is never halved.  *)
(* Such a window is one that a fast retransmit has left behind; the acks   *)
(* of the same turn before the third duplicate have each let it grow.      *)
(***************************************************************************)
Half == CWND_UNIT \div 2

Grown(c) == c.cwnd >= CWND_UNIT

FloorOK(c) == c.ssthresh >= Half /\ (Grown(c) \/ c.cwnd = c.ssthresh)

CwndInv ==
  /\ \A h, g \in Hosts : FloorOK(cc[h][g])
  /\ \A g \in Hosts : dups[g] > 0 =>
       stage = "senders" /\ cur \in Hosts /\ Grown(cc[cur][g])

LEMMA HalfType == Half \in Nat /\ Half <= CWND_UNIT
BY CwndUnitAssumption DEF Half

LEMMA CountDuplicateFloor ==
  ASSUME NEW c \in CongestionControl, NEW n \in Nat, FloorOK(c), n = 3 => Grown(c)
  PROVE  FloorOK(CountDuplicate(c, n))
<1>1. c.cwnd \in Nat /\ c.ssthresh \in Nat /\ CWND_UNIT \in Nat
  BY CwndUnitAssumption DEF CongestionControl
<1>2. CASE n = 3
  <2> DEFINE d == [c EXCEPT !.ssthresh = c.cwnd \div 2,
                            !.cwnd = c.cwnd \div 2 + 3 * CWND_UNIT]
  <2>1. CountDuplicate(c, n) = d
    BY <1>2 DEF CountDuplicate
  <2>2. d.ssthresh = c.cwnd \div 2 /\ d.cwnd = c.cwnd \div 2 + 3 * CWND_UNIT
    BY DEF CongestionControl
  <2>3. c.cwnd \div 2 >= CWND_UNIT \div 2 /\ c.cwnd \div 2 \in Nat
    BY <1>1, <1>2 DEF Grown
  <2> HIDE DEF d
  <2> QED BY <1>1, <2>1, <2>2, <2>3 DEF FloorOK, Grown, Half
<1>3. CASE n >= 4
  <2>1. /\ CountDuplicate(c, n).cwnd = c.cwnd + CWND_UNIT
        /\ CountDuplicate(c, n).ssthresh = c.ssthresh
    <3>1. CASE n = 4
      <4> DEFINE d == [c EXCEPT !.state = "FRFT", !.cwnd = @ + CWND_UNIT]
      <4>1. CountDuplicate(c, n) = d
        BY <3>1 DEF CountDuplicate
      <4>2. d.cwnd = c.cwnd + CWND_UNIT /\ d.ssthresh = c.ssthresh
        BY DEF CongestionControl
      <4> QED BY <4>1, <4>2
    <3>2. CASE n > 4
      BY <3>2 DEF CountDuplicate, CongestionControl
    <3> QED BY <1>3, <3>1, <3>2
  <2> QED BY <1>1, <2>1 DEF FloorOK, Grown
<1>4. CASE n < 3
  BY <1>4 DEF CountDuplicate
<1> QED
  BY <1>2, <1>3, <1>4

LEMMA GrowFloor ==
  ASSUME NEW c \in CongestionControl, NEW larger \in BOOLEAN, FloorOK(c)
  PROVE  FloorOK(Grow(c, larger)) /\ Grown(Grow(c, larger))
<1> DEFINE step == (CWND_UNIT * CWND_UNIT) \div c.cwnd
<1>1. c.cwnd \in Nat /\ c.ssthresh \in Nat /\ CWND_UNIT \in Nat
  BY CwndUnitAssumption DEF CongestionControl
<1>2. CASE c.cwnd <= c.ssthresh
  <2>1. Grow(c, larger).cwnd = c.cwnd + CWND_UNIT /\ Grow(c, larger).ssthresh = c.ssthresh
    BY <1>2 DEF Grow, CongestionControl
  <2> QED BY <1>1, <2>1 DEF FloorOK, Grown
<1>3. CASE c.cwnd > c.ssthresh
  <2>1. Grown(c)
    BY <1>1, <1>3 DEF FloorOK
  <2>2. CASE larger
    <3>1. step \in Nat
      <4>1. CWND_UNIT * CWND_UNIT \in Nat /\ c.cwnd > 0
        BY <1>1, <1>3
      <4> QED BY <1>1, <4>1
    <3> DEFINE d == [c EXCEPT !.cwnd = @ + step, !.state = "AIMD"]
    <3>2. Grow(c, larger) = d
      BY <1>1, <1>3, <2>2 DEF Grow
    <3>3. d.cwnd = c.cwnd + step /\ d.ssthresh = c.ssthresh
      BY DEF CongestionControl
    <3> HIDE DEF d, step
    <3> QED BY <1>1, <2>1, <3>1, <3>2, <3>3 DEF FloorOK, Grown
  <2>3. CASE ~larger
    BY <1>1, <1>3, <2>1, <2>3 DEF Grow
  <2> QED BY <2>2, <2>3
<1> QED
  BY <1>1, <1>2, <1>3

\* The second duplicate of a turn comes after the first, so that the window is
\* at least a frame when the third halves it.
LEMMA CwndAccept ==
  ASSUME TypeInv, CwndInv, NEW h \in Hosts, AcceptAck(h)
  PROVE  CwndInv'
<1> DEFINE f   == Head(incoming_frames[h])
           g   == f.src_id
           dup == IF f.ack_num = LAR[h][g] THEN 1 ELSE 0
           larger == f.ack_num > LAR[h][g]
           new == OnAck(cc[h][g], dups[g] + dup, larger)
<1>1. g \in Hosts
  <2>1. f \in Frame
    BY PopType DEF AcceptAck, AckReady, TypeInv, TypeOK, QueuesTypeOK
  <2> QED BY <2>1 DEF Frame
<1>2. /\ stage = "senders" /\ cur = h /\ UNCHANGED <<stage, cur>>
      /\ dups' = [dups EXCEPT ![g] = @ + dup]
      /\ cc' = [cc EXCEPT ![h][g] = new]
  BY DEF AcceptAck, AckReady
<1>3. dup \in {0, 1} /\ larger \in BOOLEAN
  OBVIOUS
<1>4. /\ cc \in [Hosts -> [Hosts -> CongestionControl]]
      /\ dups \in [Hosts -> Nat]
  BY DEF TypeInv, TypeOK, SenderTypeOK, LoopTypeOK
<1> HIDE DEF f, g, dup, larger
<1>5. FloorOK(new) /\ Grown(new)
  <2>1. cc[h][g] \in CongestionControl /\ dups[g] + dup \in Nat
    BY <1>1, <1>3, <1>4
  <2>2. FloorOK(cc[h][g])
    BY <1>1 DEF CwndInv
  <2>3. dups[g] + dup = 3 => Grown(cc[h][g])
    <3>1. dups[g] + dup = 3 => dups[g] > 0
      BY <1>1, <1>3, <1>4
    <3> QED BY <1>1, <1>2, <3>1 DEF CwndInv
  <2>4. FloorOK(CountDuplicate(cc[h][g], dups[g] + dup))
    BY <2>1, <2>2, <2>3, CountDuplicateFloor
  <2>5. CountDuplicate(cc[h][g], dups[g] + dup) \in CongestionControl
    BY <2>1, CountDuplicateType
  <2> QED BY <1>3, <2>4, <2>5, GrowFloor DEF OnAck
<1> HIDE DEF new
<1>6. \A i, j \in Hosts : cc'[i][j] = IF i = h /\ j = g THEN new ELSE cc[i][j]
  BY <1>1, <1>2, <1>4
<1>7. \A i, j \in Hosts : FloorOK(cc'[i][j])
  BY <1>5, <1>6 DEF CwndInv
<1>8. \A j \in Hosts : j # g => dups'[j] = dups[j]
  BY <1>1, <1>2, <1>4
<1>9. \A j \in Hosts : dups'[j] > 0 => Grown(cc'[h][j])
  BY <1>2, <1>5, <1>6, <1>8 DEF CwndInv
<1> QED
  BY <1>2, <1>7, <1>9 DEF CwndInv, FloorOK, Grown

LEMMA CwndOutgoing ==
  ASSUME TypeInv, CwndInv, NEW h \in Hosts, HandleOutgoing(h)
  PROVE  CwndInv'
<1>1. cc' = [cc EXCEPT ![h] = CCAfterResend(h)] /\ dups' = [g \in Hosts |-> 0]
  BY DEF HandleOutgoing
<1>2. cc \in [Hosts -> [Hosts -> CongestionControl]]
  BY DEF TypeInv, TypeOK, SenderTypeOK
<1>3. \A g \in Hosts : FloorOK(CCAfterResend(h)[g])
  <2> TAKE g \in Hosts
  <2>1. FloorOK(cc[h][g])
    BY DEF CwndInv
  <2>2. FloorOK(OnFastRetransmit(cc[h][g]))
    <3>1. cc[h][g] \in CongestionControl
      BY <1>2
    <3>2. /\ OnFastRetransmit(cc[h][g]).cwnd = cc[h][g].ssthresh
          /\ OnFastRetransmit(cc[h][g]).ssthresh = cc[h][g].ssthresh
      BY <3>1 DEF OnFastRetransmit, CongestionControl
    <3> QED BY <2>1, <3>2 DEF FloorOK
  <2> QED BY <2>1, <2>2 DEF CCAfterResend
<1>4. \A i, j \in Hosts : cc'[i][j] = IF i = h THEN CCAfterResend(h)[j] ELSE cc[i][j]
  <2> HIDE DEF CCAfterResend
  <2> QED BY <1>1, <1>2
<1>5. \A i, j \in Hosts : FloorOK(cc'[i][j])
  BY <1>3, <1>4 DEF CwndInv
<1> QED
  BY <1>1, <1>5 DEF CwndInv, FloorOK, Grown

LEMMA CwndWake ==
  ASSUME CwndInv, NEW h \in Hosts, Wake(h)
  PROVE  CwndInv'
<1>1. UNCHANGED cc /\ dups' = [g \in Hosts |-> 0]
  BY DEF Wake, senderVars
<1> QED
  BY <1>1 DEF CwndInv, FloorOK, Grown

LEMMA CwndUnchanged ==
  ASSUME CwndInv, UNCHANGED <<cc, dups>>,
         \/ UNCHANGED <<stage, cur>>
         \/ stage # "senders"
         \/ cur \notin Hosts
  PROVE  CwndInv'
BY DEF CwndInv, FloorOK, Grown

LEMMA CwndNext ==
  ASSUME TypeInv, CwndInv, [Next]_vars
  PROVE  CwndInv'
<1>1. ASSUME NEW h \in Hosts, AcceptAck(h) PROVE CwndInv'
  BY <1>1, CwndAccept
<1>2. ASSUME NEW h \in Hosts, HandleOutgoing(h) PROVE CwndInv'
  BY <1>2, CwndOutgoing
<1>3. ASSUME NEW h \in Hosts, Wake(h) PROVE CwndInv'
  BY <1>3, CwndWake
<1>4. CASE ~ \E h \in Hosts : AcceptAck(h) \/ HandleOutgoing(h) \/ Wake(h)
  <2>1. UNCHANGED <<cc, dups>>
    BY <1>4 DEF Next, Program, Input, RunSenders, SendDataFrames, RunReceivers, Sleep,
       HandleInputCmd, DropAck, SendersDone, ServeIngress, ForwardFrame, DataDone,
       VisitReceiver, Corrupted, Unstored, Store, Deliver, ReceiversDone, SendAck,
       GracefulExit, UserMsg, NoMoreInput, UserExit, StartRound, InputEof, vars,
       senderVars, loopVars
  <2>2. \/ UNCHANGED <<stage, cur>>
        \/ stage # "senders"
        \/ cur \notin Hosts
    BY <1>4, HostsFacts DEF Next, Program, Input, RunSenders, SendDataFrames,
       RunReceivers, Popping, AckReady, Sleep,
       HandleInputCmd, DropAck, SendersDone, ServeIngress, ForwardFrame, DataDone,
       VisitReceiver, Corrupted, Unstored, Store, Deliver, ReceiversDone, SendAck,
       GracefulExit, UserMsg, NoMoreInput, UserExit, StartRound, InputEof, vars, loopVars
  <2> QED BY <2>1, <2>2, CwndUnchanged
<1> QED
  BY <1>1, <1>2, <1>3, <1>4

\* The congestion window of a sender never falls below half a frame, although
\* the code halves it for every ack accepted while three duplicates of a turn
\* are counted, and although a fast retransmit sets it to the halved value.
THEOREM CwndFloorCorrect == Spec => []CwndFloor
<1>1. Init => CwndInv
  <2>1. FloorOK(InitCC(window_size))
    BY ConfigAssumption, CwndUnitAssumption DEF InitCC, FloorOK, Grown, Half
  <2> QED BY <2>1 DEF Init, CwndInv
<1>2. TypeInv /\ CwndInv /\ [Next]_vars => CwndInv'
  BY CwndNext
<1>3. TypeInv /\ CwndInv => CwndFloor
  <2>1. ASSUME TypeInv, CwndInv, NEW h \in Hosts, NEW g \in Hosts
        PROVE  cc[h][g].cwnd >= Half
    <3>1. cc[h][g] \in CongestionControl /\ FloorOK(cc[h][g])
      BY <2>1 DEF TypeInv, TypeOK, SenderTypeOK, CwndInv
    <3> QED BY <3>1, HalfType, CwndUnitAssumption DEF FloorOK, Grown, CongestionControl
  <2> QED BY <2>1 DEF CwndFloor, Half
<1>4. TypeInv /\ [Next]_vars => TypeInv'
  BY NextType
<1> QED
  BY <1>1, <1>2, <1>3, <1>4, InitType, PTL DEF Spec

-----------------------------------------------------------------------------
(***************************************************************************)
(* A turn overruns the congestion window by one frame at most.  The loop   *)
(* that fills the window looks at the frame behind the one it has popped:  *)
(* all the frames of a turn but the first have passed that test.           *)
(***************************************************************************)
LEMMA AtMostOne ==
  ASSUME NEW x, NEW S, S \subseteq {x}
  PROVE  Cardinality(S) <= 1
<1>1. S = {} \/ S = {x}
  OBVIOUS
<1>2. Cardinality({x}) = 1
  BY FS_Singleton
<1>3. Cardinality({}) = 0
  BY FS_EmptySet
<1> QED BY <1>1, <1>2, <1>3

\* Inside the congestion window end, seen from lar.
Inside(lar, n, end) == seq_num_diff(lar, n) > 0 /\ seq_num_diff(n, end) >= 0

\* What is inside an end that was computed in 8 bits is no farther away than the
\* true one, however often the end has wrapped around.
LEMMA InsideIsNear ==
  ASSUME NEW lar \in SeqNums, NEW n \in SeqNums, NEW frames \in Nat,
         Inside(lar, n, uint8(lar + frames))
  PROVE  seq_num_diff(lar, n) \in 1 .. frames
<1> DEFINE N   == MAX_SEQ_NUM + 1
           end == uint8(lar + frames)
<1>1. lar + frames \in Int /\ N \in Nat \ {0}
  BY SeqNumAssumption DEF SeqNums
<1>2. end \in SeqNums
  BY <1>1, Uint8Type
<1>3. PICK q \in Int : lar + frames = q * N + end
  BY <1>1, Uint8Quotient
<1>4. seq_num_diff(lar, n) > 0 /\ seq_num_diff(n, end) >= 0
  BY DEF Inside
<1>5. lar + frames = end \/ lar + frames >= N + end
  <2>1. CASE q = 0
    BY <1>1, <1>2, <1>3, <2>1 DEF SeqNums
  <2>2. CASE q >= 1
    <3>1. q * N >= N
      BY <1>1, <2>2
    <3> QED BY <1>1, <1>2, <1>3, <3>1 DEF SeqNums
  <2>3. CASE q <= -1
    <3>1. q * N <= -N
      BY <1>1, <2>3
    <3> QED BY <1>1, <1>2, <1>3, <3>1, SeqNumAssumption DEF SeqNums
  <2> QED BY <2>1, <2>2, <2>3
<1> HIDE DEF end
<1> QED
  BY <1>2, <1>4, <1>5, HalfBounds, SeqNumAssumption DEF seq_num_diff, SeqNums

\* The frames of a turn but the first, as the fill loop sees them.
LEMMA LaterInside ==
  ASSUME TypeInv, NEW h \in Hosts, NEW buf, NEW free, NEW waiting, NEW n \in Nat,
         buf = buffered_outframes[h], FillCount(h, buf, free, waiting, n),
         NEW k \in 2 .. n
  PROVE  LET g == buf[k].dst_id
         IN  /\ g \in Hosts
             /\ seq_num_diff(LAR[h][g], buf[k].seq_num)
                  \in 1 .. WholeFrames(CCAfterResend(h)[g])
<1>1. buf \in Seq(Frame)
  BY DEF TypeInv, TypeOK, SenderTypeOK
<1>2. k - 1 \in 1 .. n - 1 /\ (k - 1) + 1 = k
  OBVIOUS
<1>3. ~StopsAfter(h, buf, k - 1) /\ n <= Len(buf) /\ Len(buf) \in Nat
  BY <1>1, <1>2 DEF FillCount
<1>4. ~OtherReceiverNext(buf, k - 1) /\ ~OutsideCwndNext(h, buf, k - 1)
  BY <1>3 DEF StopsAfter
<1>5. k - 1 < Len(buf) /\ k \in 1 .. Len(buf)
  BY <1>2, <1>3
<1>6. buf[k - 1].dst_id = buf[k].dst_id
  BY <1>2, <1>4, <1>5 DEF OtherReceiverNext
<1>7. buf[k] \in Frame
  BY <1>1, <1>5
<1>8. buf[k].dst_id \in Hosts
  BY <1>7 DEF Frame
<1> DEFINE g      == buf[k].dst_id
           frames == WholeFrames(CCAfterResend(h)[g])
<1>9. Inside(LAR[h][g], buf[k].seq_num, uint8(LAR[h][g] + frames))
  BY <1>2, <1>4, <1>5, <1>6, <1>8 DEF OutsideCwndNext, Inside
<1>10. LAR[h][g] \in SeqNums /\ buf[k].seq_num \in SeqNums
  BY <1>7, <1>8 DEF TypeInv, TypeOK, SenderTypeOK, Frame
<1>11. frames \in Nat
  <2>1. CCAfterResend(h)[g].cwnd \in Nat
    BY <1>8 DEF TypeInv, TypeOK, SenderTypeOK, CCAfterResend, OnFastRetransmit,
       CongestionControl
  <2> QED BY <2>1, CwndUnitAssumption DEF WholeFrames
<1> HIDE DEF frames
<1> QED BY <1>8, <1>9, <1>10, <1>11, InsideIsNear DEF frames

LEMMA OverrunOutgoing ==
  ASSUME TypeInv, NEW h \in Hosts, HandleOutgoing(h)
  PROVE  Cardinality(Overrun(h)) <= 1
<1> DEFINE w    == send_window[h]
           buf  == buffered_outframes[h]
           Free == Slots \ Occupied(w)
           free == Ascending(Free)
           filled(n) == {free[k] : k \in 1 .. n}
           w2(n) == [q \in Slots |->
                       IF q \in filled(n)
                       THEN buf[CHOOSE k \in 1 .. n : free[k] = q] ELSE w[q]]
<1>1. PICK n \in 0 .. Len(buf) :
        /\ FillCount(h, buf, Cardinality(Free), wait[h] /\ Occupied(w) # {}, n)
        /\ send_window' = [send_window EXCEPT ![h] = w2(n)]
        /\ cc' = [cc EXCEPT ![h] = CCAfterResend(h)]
  BY Zenon DEF HandleOutgoing
<1>2. /\ send_window \in [Hosts -> [Slots -> Frame \cup {NoFrame}]]
      /\ cc \in [Hosts -> [Hosts -> CongestionControl]]
      /\ buf \in Seq(Frame)
  BY DEF TypeInv, TypeOK, SenderTypeOK
<1>3. send_window'[h] = w2(n) /\ cc'[h] = CCAfterResend(h)
  <2> HIDE DEF w2
  <2> QED BY <1>1, <1>2
<1>4. n \in Nat
  BY <1>1, <1>2
<1>5. ASSUME NEW q \in Overrun(h) PROVE q = free[1]
  <2>1. q \in Occupied(w2(n)) /\ q \notin Occupied(w)
    BY <1>3 DEF Overrun
  <2>2. q \in Slots /\ q \in filled(n)
    BY <2>1 DEF Occupied, HasFrame
  <2>3. PICK k \in 1 .. n : k = CHOOSE j \in 1 .. n : free[j] = q
    <3>1. \E j \in 1 .. n : free[j] = q
      BY <2>2
    <3> QED BY <3>1
  <2>4. free[k] = q
    BY <2>2, <2>3
  <2>5. w2(n)[q] = buf[k]
    BY <2>2, <2>3
  <2>6. PICK f : f = buf[k]
    OBVIOUS
  <2>7. seq_num_diff(LAR[h][f.dst_id], f.seq_num)
          \notin 1 .. WholeFrames(CCAfterResend(h)[f.dst_id])
    <3>1. send_window'[h][q] = f
      BY <1>3, <2>5, <2>6
    <3> HIDE DEF w, buf, Free, free, filled, w2
    <3> QED BY <1>3, <3>1 DEF Overrun
  <2>8. k \notin 2 .. n
    <3> HIDE DEF Free, free, filled, w2
    <3> QED BY <1>1, <1>4, <2>6, <2>7, LaterInside
  <2>9. k = 1
    BY <1>4, <2>8
  <2> QED BY <2>4, <2>9
<1>6. Overrun(h) \subseteq {free[1]}
  BY <1>5
<1> QED BY <1>6, AtMostOne

LEMMA OverrunNext ==
  ASSUME TypeInv, [Next]_vars, NEW g \in Hosts
  PROVE  Cardinality(Overrun(g)) <= 1
<1>1. CASE Occupied(send_window'[g]) \subseteq Occupied(send_window[g])
  <2>1. Overrun(g) = {}
    BY <1>1 DEF Overrun
  <2> QED BY <2>1, FS_EmptySet
<1>2. send_window \in [Hosts -> [Slots -> Frame \cup {NoFrame}]]
  BY DEF TypeInv, TypeOK, SenderTypeOK
<1>3. ASSUME NEW h \in Hosts, AcceptAck(h)
      PROVE  Occupied(send_window'[g]) \subseteq Occupied(send_window[g])
  <2> DEFINE freed == Acked(send_window[h], Head(incoming_frames[h]))
  <2>1. send_window' = [send_window EXCEPT ![h] =
           [q \in Slots |-> IF q \in freed THEN NoFrame ELSE @[q]]]
    BY <1>3 DEF AcceptAck
  <2> HIDE DEF freed
  <2>2. \A q \in Slots :
          send_window'[g][q] = IF g = h /\ q \in freed THEN NoFrame ELSE send_window[g][q]
    BY <1>2, <2>1
  <2> QED BY <2>2 DEF Occupied, HasFrame
<1>4. ASSUME NEW h \in Hosts, HandleOutgoing(h), g # h
      PROVE  send_window'[g] = send_window[g]
  <2>1. PICK w : send_window' = [send_window EXCEPT ![h] = w]
    BY <1>4 DEF HandleOutgoing
  <2> QED BY <1>2, <1>4, <2>1
<1>5. CASE ~ \E h \in Hosts : AcceptAck(h) \/ HandleOutgoing(h)
  <2>1. UNCHANGED send_window
    BY <1>5 DEF Next, Program, Input, RunSenders, SendDataFrames, RunReceivers, Wake,
       Sleep, HandleInputCmd, DropAck, SendersDone, ServeIngress, ForwardFrame, DataDone,
       VisitReceiver, Corrupted, Unstored, Store, Deliver, ReceiversDone, SendAck,
       GracefulExit, UserMsg, NoMoreInput, UserExit, StartRound, InputEof, vars,
       senderVars
  <2> QED BY <1>1, <2>1
<1>6. CASE \E h \in Hosts : HandleOutgoing(h)
  <2>1. PICK h \in Hosts : HandleOutgoing(h)
    BY <1>6
  <2>2. CASE g = h
    BY <2>1, <2>2, OverrunOutgoing
  <2>3. CASE g # h
    BY <1>1, <1>4, <2>1, <2>3
  <2> QED BY <2>2, <2>3
<1> QED
  BY <1>1, <1>3, <1>5, <1>6

\* The fill loop looks at the congestion window one frame late (sender.c:364) and
\* computes its end in 8 bits (sender.c:382): a turn overruns it all the same by
\* one frame at most, and only by the first frame it moves.
THEOREM OverrunByOneCorrect == Spec => OverrunByOne
<1>1. TypeInv /\ [Next]_vars => \A h \in Hosts : Cardinality(Overrun(h)) <= 1
  BY OverrunNext
<1>2. TypeInv /\ [Next]_vars => TypeInv'
  BY NextType
<1> QED
  BY <1>1, <1>2, InitType, PTL DEF Spec, OverrunByOne

-----------------------------------------------------------------------------
(***************************************************************************)
(* One window serves all the receivers of a host, and wait keeps them      *)
(* apart as long as what is typed waits together in the buffer: MCSpec has *)
(* a user who types only while no host holds a frame.                      *)
(***************************************************************************)
\* The window w of a host and the buffer behind it: one receiver, and if the
\* next frame is for another one, the host waits.
KeptApart(w, buf, waits) ==
  /\ \A q, r \in Occupied(w) : w[q].dst_id = w[r].dst_id
  /\ waits \/ buf = <<>> \/ \A q \in Occupied(w) : w[q].dst_id = buf[1].dst_id

\* Commands only come while the window is empty.
ReceiversApart ==
  \A h \in Hosts :
    /\ KeptApart(send_window[h], buffered_outframes[h], wait[h])
    /\ input_cmdlist[h] # <<>> => Occupied(send_window[h]) = {}

LEMMA EmptyWindowApart ==
  ASSUME NEW w, Occupied(w) = {}, NEW buf, NEW waits
  PROVE  KeptApart(w, buf, waits)
BY DEF KeptApart

\* The frames that enter in one turn are for one receiver: the loop stops
\* where the next is for another.
LEMMA OneReceiverFilled ==
  ASSUME NEW h \in Hosts, NEW buf \in Seq(Frame), NEW free, NEW waiting,
         NEW n \in 1 .. Len(buf), FillCount(h, buf, free, waiting, n)
  PROVE  \A k \in 1 .. n : buf[k].dst_id = buf[1].dst_id
<1> DEFINE Other == {k \in 1 .. n : buf[k].dst_id # buf[1].dst_id}
<1>1. SUFFICES ASSUME Other # {} PROVE FALSE
  OBVIOUS
<1>2. n \in Nat /\ Len(buf) \in Nat /\ n <= Len(buf)
  OBVIOUS
<1>3. Other \in SUBSET Nat
  BY <1>2
<1>4. PICK m \in Other : \A k \in Other : m <= k
  BY <1>1, <1>3, LeastElement
<1>5. m \in 2 .. n
  <2>1. m \in 1 .. n /\ m # 1
    BY <1>4
  <2> QED BY <2>1, <1>2
<1>6. m - 1 \in 1 .. n - 1 /\ (m - 1) + 1 = m /\ m - 1 < Len(buf)
  BY <1>2, <1>5
<1>7. buf[m - 1].dst_id = buf[1].dst_id
  <2>1. m - 1 \in 1 .. n /\ ~(m <= m - 1)
    BY <1>2, <1>5
  <2> QED BY <2>1, <1>4
<1>8. ~OtherReceiverNext(buf, m - 1)
  BY <1>6 DEF FillCount, StopsAfter
<1>9. buf[m].dst_id = buf[m - 1].dst_id
  BY <1>6, <1>8 DEF OtherReceiverNext
<1> QED BY <1>4, <1>7, <1>9

\* The window after a turn.
LEMMA ApartOutgoing ==
  ASSUME TypeInv, ReceiversApart, NEW h \in Hosts, HandleOutgoing(h)
  PROVE  ReceiversApart'
<1> DEFINE w    == send_window[h]
           buf  == buffered_outframes[h]
           Free == Slots \ Occupied(w)
           free == Ascending(Free)
           waiting == wait[h] /\ Occupied(w) # {}
           filled(n) == {free[k] : k \in 1 .. n}
           w2(n) == [q \in Slots |->
                       IF q \in filled(n)
                       THEN buf[CHOOSE k \in 1 .. n : free[k] = q] ELSE w[q]]
           rest(n) == SubSeq(buf, n + 1, Len(buf))
<1>1. PICK n \in 0 .. Len(buf) :
        /\ FillCount(h, buf, Cardinality(Free), waiting, n)
        /\ buffered_outframes' = [buffered_outframes EXCEPT ![h] = rest(n)]
        /\ send_window' = [send_window EXCEPT ![h] = w2(n)]
        /\ wait' = [wait EXCEPT ![h] = waiting \/ (n > 0 /\ OtherReceiverNext(buf, n))]
        /\ input_cmdlist[h] = <<>> /\ input_cmdlist' = input_cmdlist
  BY Zenon DEF HandleOutgoing
<1>2. /\ send_window \in [Hosts -> [Slots -> Frame \cup {NoFrame}]]
      /\ buffered_outframes \in [Hosts -> Seq(Frame)]
      /\ wait \in [Hosts -> BOOLEAN]
  BY DEF TypeInv, TypeOK, SenderTypeOK
<1>3. buf \in Seq(Frame) /\ w \in [Slots -> Frame \cup {NoFrame}]
  BY <1>2
<1>4. n \in Nat /\ Len(buf) \in Nat /\ n <= Len(buf)
  BY <1>1, <1>3
<1>5. KeptApart(w, buf, wait[h])
  BY DEF ReceiversApart
<1>6. KeptApart(w2(n), rest(n), waiting \/ (n > 0 /\ OtherReceiverNext(buf, n)))
  <2>1. CASE n = 0
    <3>1. filled(n) = {}
      BY <2>1
    <3>2. w2(n) = w
      <4> HIDE DEF w, buf, free, filled
      <4> QED BY <1>3, <3>1
    <3>3. rest(n) = buf
      <4> HIDE DEF buf
      <4> QED BY <1>3, <2>1
    <3>4. CASE Occupied(w) = {}
      <4> HIDE DEF w, w2, rest, waiting, buf
      <4> QED BY <3>2, <3>4, EmptyWindowApart
    <3>5. CASE Occupied(w) # {}
      <4>1. waiting = wait[h]
        BY <1>2, <3>5
      <4> HIDE DEF w, w2, rest, waiting, buf
      <4> QED BY <1>5, <2>1, <3>2, <3>3, <4>1 DEF KeptApart
    <3> QED BY <3>4, <3>5
  <2>2. CASE n > 0
    <3>1. \A k \in 1 .. n : buf[k].dst_id = buf[1].dst_id
      <4>1. n \in 1 .. Len(buf)
        BY <1>4, <2>2
      <4> HIDE DEF buf, Free, waiting
      <4> QED BY <1>1, <1>3, <4>1, OneReceiverFilled
    <3>2. Occupied(w) = {} \/ ~wait[h]
      BY <1>1, <2>2 DEF FillCount
    <3>3. buf # <<>>
      BY <1>4, <2>2
    <3>4. \A q \in Occupied(w) : w[q].dst_id = buf[1].dst_id
      <4> HIDE DEF w, buf
      <4> QED BY <1>5, <3>2, <3>3 DEF KeptApart
    <3>5. ASSUME NEW q \in Occupied(w2(n))
          PROVE  w2(n)[q].dst_id = buf[1].dst_id
      <4>1. q \in Slots /\ w2(n)[q] # NoFrame
        BY <3>5 DEF Occupied, HasFrame
      <4>2. CASE q \in filled(n)
        <5>1. \E k \in 1 .. n : free[k] = q
          BY <4>2
        <5>2. (CHOOSE k \in 1 .. n : free[k] = q) \in 1 .. n
          BY <5>1
        <5>3. w2(n)[q] = buf[CHOOSE k \in 1 .. n : free[k] = q]
          BY <4>1, <4>2
        <5> HIDE DEF w2, free, filled, buf
        <5> QED BY <3>1, <5>2, <5>3
      <4>3. CASE q \notin filled(n)
        <5>1. w2(n)[q] = w[q]
          BY <4>1, <4>3
        <5> HIDE DEF w2, w, filled, buf
        <5> QED BY <3>4, <4>1, <5>1 DEF Occupied, HasFrame
      <4> QED BY <4>2, <4>3
    <3>6. CASE OtherReceiverNext(buf, n)
      <4> HIDE DEF w2, buf, rest, waiting
      <4> QED BY <2>2, <3>5, <3>6 DEF KeptApart
    <3>7. CASE ~OtherReceiverNext(buf, n)
      <4>1. CASE n = Len(buf)
        <5>1. rest(n) = <<>>
          <6> HIDE DEF buf
          <6> QED BY <1>3, <1>4, <4>1
        <5> HIDE DEF w2, buf, rest, waiting
        <5> QED BY <3>5, <5>1 DEF KeptApart
      <4>2. CASE n < Len(buf)
        <5>1. rest(n)[1] = buf[n + 1]
          <6> HIDE DEF buf
          <6> QED BY <1>3, <1>4, <4>2
        <5>2. buf[n + 1].dst_id = buf[n].dst_id
          BY <3>7, <4>2 DEF OtherReceiverNext
        <5>3. buf[n].dst_id = buf[1].dst_id
          BY <1>4, <2>2, <3>1
        <5> HIDE DEF w2, buf, rest, waiting
        <5> QED BY <3>5, <5>1, <5>2, <5>3 DEF KeptApart
      <4> QED BY <1>4, <4>1, <4>2
    <3> QED BY <3>6, <3>7
  <2> QED BY <1>4, <2>1, <2>2
<1>7. /\ send_window'[h] = w2(n) /\ buffered_outframes'[h] = rest(n)
      /\ wait'[h] = (waiting \/ (n > 0 /\ OtherReceiverNext(buf, n)))
  <2> DEFINE waits == waiting \/ (n > 0 /\ OtherReceiverNext(buf, n))
  <2>1. wait' = [wait EXCEPT ![h] = waits]
    BY <1>1
  <2> HIDE DEF w2, rest, waits
  <2>2. wait'[h] = waits /\ send_window'[h] = w2(n) /\ buffered_outframes'[h] = rest(n)
    BY <1>1, <1>2, <2>1
  <2> QED BY <2>2 DEF waits
<1>8. ASSUME NEW g \in Hosts
      PROVE  /\ KeptApart(send_window'[g], buffered_outframes'[g], wait'[g])
             /\ input_cmdlist'[g] # <<>> => Occupied(send_window'[g]) = {}
  <2>1. CASE g = h
    <3> HIDE DEF w2, rest, waiting, buf
    <3> QED BY <1>1, <1>6, <1>7, <2>1
  <2>2. CASE g # h
    <3>1. /\ send_window'[g] = send_window[g] /\ wait'[g] = wait[g]
          /\ buffered_outframes'[g] = buffered_outframes[g]
          /\ input_cmdlist'[g] = input_cmdlist[g]
      <4> HIDE DEF w2, rest, waiting, buf
      <4> QED BY <1>1, <1>2, <2>2
    <3> QED BY <3>1 DEF ReceiversApart
  <2> QED BY <2>1, <2>2
<1> QED BY <1>8 DEF ReceiversApart, KeptApart

\* A window that has lost some frames.
LEMMA FewerApart ==
  ASSUME NEW v, NEW w, NEW buf, NEW waits, KeptApart(w, buf, waits),
         Occupied(v) \subseteq Occupied(w), \A q \in Occupied(v) : v[q] = w[q]
  PROVE  KeptApart(v, buf, waits)
<1>1. \A q, r \in Occupied(v) : v[q].dst_id = v[r].dst_id
  BY DEF KeptApart
<1>2. CASE waits \/ buf = <<>>
  BY <1>1, <1>2 DEF KeptApart
<1>3. CASE \A q \in Occupied(w) : w[q].dst_id = buf[1].dst_id
  BY <1>1, <1>3 DEF KeptApart
<1> QED BY <1>2, <1>3 DEF KeptApart

LEMMA ApartAccept ==
  ASSUME TypeInv, ReceiversApart, NEW h \in Hosts, AcceptAck(h)
  PROVE  ReceiversApart'
<1> DEFINE freed == Acked(send_window[h], Head(incoming_frames[h]))
<1>1. /\ send_window' = [send_window EXCEPT ![h] =
           [q \in Slots |-> IF q \in freed THEN NoFrame ELSE @[q]]]
      /\ UNCHANGED <<buffered_outframes, wait, input_cmdlist>>
  BY DEF AcceptAck
<1>2. send_window \in [Hosts -> [Slots -> Frame \cup {NoFrame}]]
  BY DEF TypeInv, TypeOK, SenderTypeOK
<1> HIDE DEF freed
<1>3. ASSUME NEW g \in Hosts
      PROVE  /\ Occupied(send_window'[g]) \subseteq Occupied(send_window[g])
             /\ \A q \in Occupied(send_window'[g]) : send_window'[g][q] = send_window[g][q]
  <2>1. \A q \in Slots :
          send_window'[g][q] = IF g = h /\ q \in freed THEN NoFrame ELSE send_window[g][q]
    BY <1>1, <1>2
  <2> QED BY <2>1 DEF Occupied, HasFrame
<1>4. ASSUME NEW g \in Hosts
      PROVE  /\ KeptApart(send_window'[g], buffered_outframes[g], wait[g])
             /\ input_cmdlist[g] # <<>> => Occupied(send_window'[g]) = {}
  <2>1. /\ KeptApart(send_window[g], buffered_outframes[g], wait[g])
        /\ input_cmdlist[g] # <<>> => Occupied(send_window[g]) = {}
    BY DEF ReceiversApart
  <2> QED BY <1>3, <2>1, FewerApart
<1>5. \A g \in Hosts :
        /\ KeptApart(send_window'[g], buffered_outframes'[g], wait'[g])
        /\ input_cmdlist'[g] # <<>> => Occupied(send_window'[g]) = {}
  BY <1>1, <1>4
<1> QED BY <1>5 DEF ReceiversApart, KeptApart

LEMMA ApartInput ==
  ASSUME TypeInv, ReceiversApart, NEW h \in Hosts, HandleInputCmd(h)
  PROVE  ReceiversApart'
<1>1. /\ input_cmdlist[h] # <<>> /\ send_window' = send_window /\ wait' = wait
      /\ input_cmdlist' = [input_cmdlist EXCEPT ![h] = Tail(@)]
  BY DEF HandleInputCmd
<1>2. PICK b : buffered_outframes' = [buffered_outframes EXCEPT ![h] = b]
  BY DEF HandleInputCmd
<1>3. /\ buffered_outframes \in [Hosts -> Seq(Frame)]
      /\ input_cmdlist \in [Hosts -> Seq(Cmd)]
  BY DEF TypeInv, TypeOK, SenderTypeOK, QueuesTypeOK
<1>4. Occupied(send_window[h]) = {}
  BY <1>1 DEF ReceiversApart
<1>5. ASSUME NEW g \in Hosts
      PROVE  /\ KeptApart(send_window'[g], buffered_outframes'[g], wait'[g])
             /\ input_cmdlist'[g] # <<>> => Occupied(send_window'[g]) = {}
  <2>1. CASE g = h
    BY <1>1, <1>4, <2>1, EmptyWindowApart
  <2>2. CASE g # h
    <3>1. /\ buffered_outframes'[g] = buffered_outframes[g]
          /\ input_cmdlist'[g] = input_cmdlist[g]
      BY <1>1, <1>2, <1>3, <2>2
    <3> QED BY <1>1, <3>1 DEF ReceiversApart
  <2> QED BY <2>1, <2>2
<1> QED BY <1>5 DEF ReceiversApart, KeptApart

LEMMA ApartTyped ==
  ASSUME TypeInv, ReceiversApart, NEW p \in Pairs, UserMsg(p[1], p[2]),
         typed' # typed =>
           \A h \in Hosts : ~Busy(send_window[h], buffered_outframes[h])
  PROVE  ReceiversApart'
<1>1. p[1] \in Hosts /\ p[2] \in Hosts
  BY ConfigAssumption
<1>2. typed' # typed
  <2>1. PICK n \in 1 .. MaxFragments : typed' = [typed EXCEPT ![p[1]][p[2]] = @ + n]
    BY Zenon DEF UserMsg
  <2>2. typed \in [Hosts -> [Hosts -> Nat]]
    BY DEF TypeInv, TypeOK, HistoryTypeOK
  <2>3. n > 0 /\ typed[p[1]][p[2]] \in Nat /\ typed'[p[1]][p[2]] = typed[p[1]][p[2]] + n
    BY <1>1, <2>1, <2>2
  <2> QED BY <2>3
<1>3. UNCHANGED <<send_window, buffered_outframes, wait>>
  BY DEF UserMsg, senderVars
<1>4. \A h \in Hosts : Occupied(send_window[h]) = {}
  BY <1>2 DEF Busy
<1> QED BY <1>3, <1>4, EmptyWindowApart DEF ReceiversApart, KeptApart

LEMMA ApartNext ==
  ASSUME TypeInv, ReceiversApart, [MCNext]_vars
  PROVE  ReceiversApart'
<1>1. CASE \E h \in Hosts : AcceptAck(h) \/ HandleOutgoing(h) \/ HandleInputCmd(h)
  BY <1>1, ApartAccept, ApartOutgoing, ApartInput
<1>2. CASE MCNext /\ \E p \in Pairs : UserMsg(p[1], p[2])
  BY <1>2, ApartTyped DEF MCNext
<1>3. CASE UNCHANGED <<send_window, buffered_outframes, wait, input_cmdlist>>
  BY <1>3 DEF ReceiversApart, KeptApart
<1>4. CASE /\ ~ \E h \in Hosts : AcceptAck(h) \/ HandleOutgoing(h) \/ HandleInputCmd(h)
           /\ ~ \E p \in Pairs : UserMsg(p[1], p[2])
  <2>1. UNCHANGED <<send_window, buffered_outframes, wait, input_cmdlist>>
    BY <1>4 DEF MCNext, Next, Program, Input, RunSenders, SendDataFrames, RunReceivers,
       Wake, Sleep, DropAck, SendersDone, ServeIngress, ForwardFrame, DataDone,
       VisitReceiver, Corrupted, Unstored, Store, Deliver, ReceiversDone, SendAck,
       GracefulExit, NoMoreInput, UserExit, StartRound, InputEof, vars, senderVars
  <2> QED BY <1>3, <2>1
<1>5. MCNext \/ UNCHANGED <<send_window, buffered_outframes, wait, input_cmdlist>>
  BY DEF vars, senderVars
<1> QED BY <1>1, <1>2, <1>3, <1>4, <1>5

\* The window of a host never mixes receivers, so no cumulative ack frees a
\* frame of another one, as long as the user types only while nothing is
\* outstanding: whichever hosts talk to which, and whatever is lost.
THEOREM OneReceiverWhenTypedIdle == MCSpec => []OneReceiverInWindow
<1>1. Init => ReceiversApart
  BY DEF Init, ReceiversApart, KeptApart, Occupied, HasFrame
<1>2. TypeInv /\ [MCNext]_vars => TypeInv'
  BY NextType DEF MCNext
<1>3. TypeInv /\ ReceiversApart /\ [MCNext]_vars => ReceiversApart'
  BY ApartNext
<1>4. ReceiversApart => OneReceiverInWindow
  BY DEF ReceiversApart, KeptApart, OneReceiverInWindow
<1> QED BY <1>1, <1>2, <1>3, <1>4, InitType, PTL DEF MCSpec
=============================================================================
