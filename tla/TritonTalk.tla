----------------------------- MODULE TritonTalk -----------------------------
(***************************************************************************)
(* The whole program: the main loop of main.c with the input handling and  *)
(* the exit of run_main.c around the senders, the switch and the           *)
(* receivers, and the properties of the whole.                             *)
(***************************************************************************)
EXTENDS Sender, Receiver, Switch

(***************************************************************************)
(* handle_input: check_input reads all the lines there are; it is one      *)
(* action per line, and NoMoreInput when select finds no further one.      *)
(***************************************************************************)
Pieces(s, d, n) == [i \in 1 .. n |-> typed[s][d] + i]

UserMsg(s, d) ==
  \E n \in 1 .. MaxFragments :
    LET message == Pieces(s, d, n)
    IN  /\ stage = "input"
        /\ typed[s][d] + n <= MaxPieces
        /\ input_cmdlist' = [input_cmdlist EXCEPT ![s] =
             Append(@, [dst_id |-> d, message |-> message])]
        /\ typed' = [typed EXCEPT ![s][d] = @ + n]
        /\ issued' = [issued EXCEPT ![s][d] = Append(@, message)]
        /\ UNCHANGED <<loopVars, senderVars, receiverVars, switchVars, active,
                       glb_exit_main, incoming_frames, outgoing_frames>>

StartRound(exiting) ==
  /\ stage = "input"
  /\ stage' = "senders" /\ todo' = Hosts /\ glb_exit_main' = exiting
  /\ UNCHANGED <<cur, expired, dups, senderVars, receiverVars, switchVars,
                 historyVars, active, input_cmdlist, incoming_frames,
                 outgoing_frames>>

NoMoreInput == StartRound(FALSE)

\* "exit" ends check_input there and then, and no input is read any more.
UserExit == StartRound(TRUE)

\* At the end of the input handle_input ends the program.
InputEof ==
  /\ stage = "input"
  /\ stage' = "aborted"
  /\ UNCHANGED <<todo, cur, expired, dups, senderVars, receiverVars, switchVars,
                 historyVars, active, glb_exit_main, input_cmdlist,
                 incoming_frames, outgoing_frames>>

\* send_ack_frames has emptied the queues: graceful_exit, and the next round.
GracefulExit ==
  /\ stage = "acks" /\ \A h \in Hosts : outgoing_frames[h] = <<>>
  /\ stage' = IF ~glb_exit_main THEN "input"
              ELSE IF \A h \in Hosts : ~active[h] THEN "exited" ELSE "senders"
  /\ todo' = IF stage' = "senders" THEN Hosts ELSE {}
  /\ UNCHANGED <<cur, expired, dups, senderVars, receiverVars, switchVars,
                 historyVars, active, glb_exit_main, input_cmdlist,
                 incoming_frames, outgoing_frames>>

\* The process has ended.
Ended == stage \in {"exited", "aborted"}

Program ==
  RunSenders \/ SendDataFrames \/ RunReceivers \/ SendAck \/ GracefulExit

Input == (\E p \in Pairs : UserMsg(p[1], p[2]))
         \/ NoMoreInput \/ UserExit \/ InputEof

Next == Program \/ Input \/ (Ended /\ UNCHANGED vars)

Spec == Init /\ [][Next]_vars

(***************************************************************************)
(* Fairness.  The main loop never blocks, the user stops typing for a      *)
(* while (select returns), and time passes: a deadline that stays set is   *)
(* found expired.                                                          *)
(***************************************************************************)
Fairness ==
  /\ WF_vars(Program \/ Input)
  /\ \A h \in Hosts : \A q \in Slots : SF_vars(Wake(h) /\ q \in expired')

\* While a round takes less than the 10 ms between two deadlines, a turn finds
\* one deadline passed at most: SendTimers!SelectiveRetransmission.  A deadline
\* that stays set is then found expired alone.
SelectiveFairness ==
  /\ WF_vars(Program \/ Input)
  /\ \A h \in Hosts : \A q \in Slots : SF_vars(Wake(h) /\ expired' = {q})

-----------------------------------------------------------------------------
(* Safety *)

ElementsOf(s) == {s[i] : i \in DOMAIN s}

\* The pieces from s that d has delivered to a finished or unfinished message.
Delivered(s, d) ==
  ElementsOf(emptyCharArray[d][s])
    \cup UNION {ElementsOf(m) : m \in ElementsOf(printed[d][s])}

\* The pieces for d that s still holds: typed, numbered, or sent and unacked.
Held(s, d) ==
  (UNION {ElementsOf(c.message) :
            c \in {e \in ElementsOf(input_cmdlist[s]) : e.dst_id = d}})
    \cup {f.data : f \in {e \in ElementsOf(buffered_outframes[s]) : e.dst_id = d}}
    \cup {send_window[s][q].data :
            q \in {r \in Occupied(send_window[s]) : send_window[s][r].dst_id = d}}

\* No piece is lost: whatever the switch corrupts or drops and whatever an ack
\* frees, a piece the receiver has not delivered is still with its sender.
NothingLost ==
  \A p \in Pairs :
    1 .. typed[p[1]][p[2]] \subseteq Delivered(p[1], p[2]) \cup Held(p[1], p[2])

\* A frame waiting for its ack has a deadline, and only such a frame has one:
\* otherwise nothing would wake its host for it again.
SlotsHaveDeadlines ==
  \A h \in Hosts : \A q \in Slots : timeout[h][q] <=> HasFrame(send_window[h], q)

\* The program exits only when every message has been printed.
CleanExit ==
  stage = "exited" => \A p \in Pairs : printed[p[2]][p[1]] = issued[p[1]][p[2]]

\* Data frames on their way to d, as the switch or the receiver holds them.
OnTheWay(d) ==
  {f \in ElementsOf(ingress[d]) \cup ElementsOf(incoming_frames[d])
           \cup UNION {ElementsOf(outgoing_frames[h]) : h \in Hosts} :
     f.intact /\ f.is_ack = 0 /\ f.dst_id = d}

\* The 8-bit number of every frame under way tells the receiver exactly how
\* far the frame is ahead of or behind the one it expects, so an old frame
\* is never taken for a new one after the numbers wrap around.
SeqNumsUnambiguous ==
  \A d \in Hosts : \A f \in OnTheWay(d) :
    seq_num_diff(NFE[d][f.src_id], f.seq_num)
      = f.data - (Cardinality(Delivered(f.src_id, d)) + 1)

\* What a sender takes for acknowledged the receiver has delivered, and it
\* lags behind by no more than a window.
AckedIsDelivered ==
  \A p \in Pairs :
    seq_num_diff(uint8(LAR[p[1]][p[2]] + 1), NFE[p[2]][p[1]]) \in 0 .. window_size

\* receiver.c:10: a corrupted frame is dropped and the handler moves on, so that
\* no intact data frame is left in the queue when the receivers are done.
NoFrameLeftBehind ==
  \A h \in Hosts : stage = "acks" =>
    \A f \in ElementsOf(incoming_frames[h]) : f.is_ack = 1 \/ ~f.intact

\* LAR only moves forward on the circle of sequence numbers: an old ack never
\* takes the sender back.
LarNeverBack ==
  [][\A h, g \in Hosts : seq_num_diff(LAR[h][g], LAR'[h][g]) >= 0]_vars

\* An intact ack for a frame of the window is accepted, however far LFS has run
\* ahead of LAR with frames that are only buffered; it would be sent again and
\* rejected again forever otherwise.
UsefulAckAccepted ==
  \A h \in Hosts : \A f \in ElementsOf(incoming_frames[h]) :
    stage = "senders" /\ f.intact /\ f.is_ack = 1 /\ Acked(send_window[h], f) # {}
      => ~AckRejected(f.ack_num, LAR[h][f.src_id], LFS[h][f.src_id])

\* A window full of frames the receiver has delivered can be cleared: the ack
\* the receiver answers every copy of them with passes the test of the sender.
\* Otherwise the sender resends them, and the receiver acks them, for ever.
WindowCanClear ==
  \A h, g \in Hosts :
    /\ Occupied(send_window[h]) = Slots
    /\ \A q \in Slots : /\ send_window[h][q].dst_id = g
                        /\ send_window[h][q].data \in Delivered(h, g)
    => ~AckRejected(uint8(NFE[g][h] - 1), LAR[h][g], LFS[h][g])

\* One window serves all the receivers of a host, one at a time: the frames
\* in it have one destination.
OneReceiverInWindow ==
  \A h \in Hosts : \A q, r \in Occupied(send_window[h]) :
    send_window[h][q].dst_id = send_window[h][r].dst_id

\* A turn sends no frame twice, although a lost frame may be due both for fast
\* retransmission and for its timeout.
OneCopyPerTurn ==
  stage = "senders" /\ cur = NoHost =>
    \A h \in Hosts : \A i, j \in DOMAIN outgoing_frames[h] :
      outgoing_frames[h][i] = outgoing_frames[h][j] => i = j

\* The congestion window never falls below half a frame (rounded down to the
\* units it is counted in), however often it is halved in a turn.
CwndFloor == \A h, g \in Hosts : cc[h][g].cwnd >= CWND_UNIT \div 2

\* The frames a turn of h moves into its window that lie farther ahead of the
\* last ack than the congestion window of their receiver is long.
Overrun(h) ==
  {q \in Occupied(send_window'[h]) \ Occupied(send_window[h]) :
     LET f == send_window'[h][q]
     IN  seq_num_diff(LAR[h][f.dst_id], f.seq_num)
           \notin 1 .. WholeFrames(cc'[h][f.dst_id])}

\* The congestion window is looked at one frame late, and its end is computed
\* in 8 bits: a turn overruns it all the same by one frame at most, also where
\* the end wraps around or the window is longer than a turn of the numbers.
OverrunByOne == [][\A h \in Hosts : Cardinality(Overrun(h)) <= 1]_vars

-----------------------------------------------------------------------------
(* Liveness *)

\* Every message is printed in the end, unless the program ends in an error.
EveryMessagePrinted ==
  \A p \in Pairs : \A k \in 1 .. MaxPieces :
    Len(issued[p[1]][p[2]]) >= k
      ~> Len(printed[p[2]][p[1]]) >= k \/ stage = "aborted"

\* After "exit" the program comes to an end.
ExitEnds == glb_exit_main ~> Ended

-----------------------------------------------------------------------------
(* Refinement *)

\* The program implements the transport it is meant to be: messages come out
\* whole, once and in order.
Messages ==
  {[i \in 1 .. n |-> k + i] : k \in 0 .. MaxPieces, n \in 1 .. MaxFragments}

Promise == INSTANCE Transport WITH Ends <- Hosts, Message <- Messages

ImplementsTransport == Promise!Spec
=============================================================================
