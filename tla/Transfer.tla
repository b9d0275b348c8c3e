------------------------------ MODULE Transfer ------------------------------
(***************************************************************************)
(* Why a one-way transfer works: an invariant over unbounded frame         *)
(* numbers.  The number of a frame is the piece it carries; the program    *)
(* itself sees 8 bits of it.  For every pair of hosts there are four       *)
(* counts, each up to the next one but for the last two, which may tie:    *)
(*                                                                         *)
(*   acked     pieces whose ack the sender has accepted                    *)
(*   got       pieces the receiver has delivered                           *)
(*   sent      pieces that have entered the window of the sender           *)
(*   numbered  pieces that have been given a sequence number               *)
(*                                                                         *)
(* The module has definitions only; it is what TransferProofs proves.      *)
(***************************************************************************)
EXTENDS TritonTalk

\* What the invariant needs of an instance: a host types to one other host
\* only, which does not answer, and the window is at most HALF_SEQ_NUM (127).
\* The runs both_ways, data_as_ack, mixed_window and wide_window are about
\* instances that are not of this kind.
OneWayTraffic ==
  /\ \A p, q \in Pairs : (p[1] = q[1] => p = q) /\ p # <<q[2], q[1]>>
  /\ window_size <= HALF_SEQ_NUM

-----------------------------------------------------------------------------
(* Order of the frames in queues; R is a set of pairs of frames. *)

Sorted(q, R) == \A i, j \in DOMAIN q : i < j => <<q[i], q[j]>> \in R

Before(p, q, R) == \A e \in ElementsOf(p), f \in ElementsOf(q) : <<e, f>> \in R

\* Three queues that frames pass through one after the other, r first.
InLine(p, q, r, R) ==
  /\ Sorted(p, R) /\ Sorted(q, R) /\ Sorted(r, R)
  /\ Before(p, q, R) /\ Before(p, r, R) /\ Before(q, r, R)

\* They hold frames of G only.
Line(G, R, p, q, r) ==
  /\ ElementsOf(p) \cup ElementsOf(q) \cup ElementsOf(r) \subseteq G
  /\ InLine(p, q, r, R)

-----------------------------------------------------------------------------
(* The messages of a pair (M is what was issued for it) and the place of a *)
(* frame in them.                                                          *)

\* The last piece of the m-th message.
EndOf(M, m) == IF m = 0 THEN 0 ELSE M[m][Len(M[m])]

\* The messages hold the pieces 1 .. last, one after the other.
Consecutive(M, last) ==
  /\ \A m \in 1 .. Len(M) :
       /\ M[m] # <<>>
       /\ M[m] = [i \in 1 .. EndOf(M, m) - EndOf(M, m - 1) |-> EndOf(M, m - 1) + i]
  /\ \A l, m \in 0 .. Len(M) : l < m => EndOf(M, l) < EndOf(M, m)
  /\ EndOf(M, Len(M)) = last

DataOf(s, d, f) == f.is_ack = 0 /\ f.src_id = s /\ f.dst_id = d

\* f carries a piece of the m-th message, and says which.
PieceOf(M, m, f) ==
  /\ EndOf(M, m - 1) < f.data /\ f.data <= EndOf(M, m)
  /\ f.starting_index = f.data - EndOf(M, m - 1) - 1
  /\ f.remaining = EndOf(M, m) - f.data

Genuine(s, d, M, f) ==
  /\ DataOf(s, d, f)
  /\ f.seq_num = uint8(f.data - 1) /\ f.ack_num = 0
  /\ \E m \in 1 .. Len(M) : PieceOf(M, m, f)

-----------------------------------------------------------------------------
(* The sender: the window w holds acked + 1 .. sent, the buffer b          *)
(* sent + 1 .. numbered and the commands c the rest.                       *)

CommandsOK(d, M, c, numbered) ==
  /\ Len(c) <= Len(M)
  /\ numbered = EndOf(M, Len(M) - Len(c))
  /\ \A i \in 1 .. Len(c) :
       c[i] = [dst_id |-> d, message |-> M[Len(M) - Len(c) + i]]

BufferOK(s, d, M, b, sent, numbered) ==
  /\ numbered = sent + Len(b)
  /\ \A i \in 1 .. Len(b) :
       b[i].data = sent + i /\ Genuine(s, d, M, b[i])

WindowOK(s, d, M, w, acked, sent) ==
  /\ \A q \in Occupied(w) :
       acked < w[q].data /\ w[q].data <= sent /\ Genuine(s, d, M, w[q])
  /\ \A k \in acked + 1 .. sent : \E q \in Occupied(w) : w[q].data = k
  /\ \A q, r \in Occupied(w) : w[q].data = w[r].data => q = r

SenderOK(s, d, acked, sent, numbered) ==
  /\ LAR[s][d] = uint8(acked - 1)
  /\ LFS[s][d] = uint8(numbered - 1)
  /\ CommandsOK(d, issued[s][d], input_cmdlist[s], numbered)
  /\ BufferOK(s, d, issued[s][d], buffered_outframes[s], sent, numbered)
  /\ WindowOK(s, d, issued[s][d], send_window[s], acked, sent)

-----------------------------------------------------------------------------
(* The receiver: it has printed the first messages and holds the beginning *)
(* of the next one, the text.                                              *)

PrintedOK(M, messages, text, got) ==
  LET p == Len(messages)
  IN  /\ p <= Len(M)
      /\ \A i \in 1 .. p : messages[i] = M[i]
      /\ got = EndOf(M, p) + Len(text)
      /\ text # <<>> => p < Len(M) /\ got < EndOf(M, p + 1)
      /\ \A i \in 1 .. Len(text) : text[i] = EndOf(M, p) + i

\* The frames stored are ahead of those delivered, by at most a window.
StoreOK(s, d, M, w, got, sent) ==
  \A q \in Occupied(w) : /\ got < w[q].data /\ w[q].data <= sent
                         /\ w[q].data <= got + window_size
                         /\ w[q].seq_num % window_size = q
                         /\ Genuine(s, d, M, w[q])

\* While a delivery that began with number first is under way the frame that
\* is next is in its slot, and all the stored ones are less than a window ahead
\* of the first.
DeliveringOK(w, next, first, got) ==
  /\ first <= next
  /\ w[next % window_size].data = got + 1
  /\ \A q \in Occupied(w) : w[q].data <= got + window_size - (next - first)

ReceiverOK(s, d, got, sent) ==
  /\ NFE[d][s] = uint8(got)
  /\ Delivered(s, d) = 1 .. got
  /\ PrintedOK(issued[s][d], printed[d][s], emptyCharArray[d][s], got)
  /\ StoreOK(s, d, issued[s][d], receive_window[d][s], got, sent)
  /\ delivery # NotDelivering /\ cur = d /\ delivery.src_id = s =>
       DeliveringOK(receive_window[d][s], NFE[d][s], delivery.seq_num, got)

-----------------------------------------------------------------------------
(* The data frames under way: a frame may be old, but what was sent before *)
(* it is less than a window ahead of it.                                   *)

DataOrder(s, d) ==
  {p \in Frame \X Frame :
     DataOf(s, d, p[1]) /\ DataOf(s, d, p[2]) => p[1].data < p[2].data + window_size}

DataFrames(s, d, M, w, got, sent) ==
  {f \in Frame : DataOf(s, d, f) =>
     /\ Genuine(s, d, M, f)
     /\ f.data <= sent /\ got < f.data + window_size
     /\ \A q \in Occupied(w) : w[q].data < f.data + window_size}

DataLineOK(s, d, got, sent) ==
  Line(DataFrames(s, d, issued[s][d], receive_window[d][s], got, sent), DataOrder(s, d),
       incoming_frames[d], ingress[d], outgoing_frames[s])

-----------------------------------------------------------------------------
(* The acks under way, from d to s: they acknowledge acked .. got pieces,  *)
(* in that order.                                                          *)

AckOf(s, d, f) == f.is_ack = 1 /\ f.src_id = d /\ f.dst_id = s

\* The number of pieces an ack of n acknowledges, when acked of them are.
Acknowledges(acked, n) == acked + uint8(n + 1 - acked)

AckOrder(s, d, acked) ==
  {p \in Frame \X Frame :
     AckOf(s, d, p[1]) /\ AckOf(s, d, p[2])
       => Acknowledges(acked, p[1].ack_num) <= Acknowledges(acked, p[2].ack_num)}

AckFrames(s, d, acked, got) ==
  {f \in Frame : AckOf(s, d, f) => Acknowledges(acked, f.ack_num) <= got}

AckLineOK(s, d, acked, got) ==
  Line(AckFrames(s, d, acked, got), AckOrder(s, d, acked),
       incoming_frames[s], <<>>, outgoing_frames[d])

-----------------------------------------------------------------------------
(* All of it. *)

Progress(s, d, acked, got, sent, numbered) ==
  /\ acked <= got /\ got <= sent /\ sent <= numbered
  /\ SenderOK(s, d, acked, sent, numbered)
  /\ ReceiverOK(s, d, got, sent)
  /\ DataLineOK(s, d, got, sent)
  /\ AckLineOK(s, d, acked, got)
  /\ Consecutive(issued[s][d], typed[s][d])

\* What travels, travels between the hosts of a pair: data one way, acks the
\* other.
OnPair(f) == IF f.is_ack = 1 THEN <<f.dst_id, f.src_id>> \in Pairs
             ELSE <<f.src_id, f.dst_id>> \in Pairs

Routing ==
  \A h \in Hosts :
    /\ \A f \in ElementsOf(incoming_frames[h]) : OnPair(f) /\ f.dst_id = h
    /\ \A f \in ElementsOf(ingress[h]) : OnPair(f) /\ f.dst_id = h /\ f.is_ack = 0
    /\ \A f \in ElementsOf(outgoing_frames[h]) : OnPair(f) /\ f.src_id = h
    /\ \A c \in ElementsOf(input_cmdlist[h]) : <<h, c.dst_id>> \in Pairs
    /\ \A f \in ElementsOf(buffered_outframes[h]) : <<h, f.dst_id>> \in Pairs
    /\ \A q \in Occupied(send_window[h]) : <<h, send_window[h][q].dst_id>> \in Pairs

\* The first half of a round moves data frames, the second half acks.
Phases ==
  \A h \in Hosts : \A f \in ElementsOf(outgoing_frames[h]) :
    \/ stage \in {"senders", "data"} /\ f.is_ack = 0
    \/ stage \in {"receivers", "acks"} /\ f.is_ack = 1
    \/ stage = "aborted"

\* Towards a host it never types to, the LAR of a host is the initial one or
\* the 0 that a data frame read as an ack has left.
IdleLAR ==
  \A h, g \in Hosts : <<h, g>> \notin Pairs => LAR[h][g] \in {uint8(-1), 0}

\* A host that has had its turn has no command left and knows if it is busy.
Rested ==
  \A h \in Hosts :
    \/ stage \in {"data", "receivers", "acks", "exited"}
    \/ stage = "senders" /\ cur # h /\ h \notin todo
    => /\ input_cmdlist[h] = <<>>
       /\ active[h] = Busy(send_window[h], buffered_outframes[h])

\* A receiver delivers what the sender of its pair has sent, and answers it.
Answerable == delivery # NotDelivering => <<delivery.src_id, cur>> \in Pairs

TransferInv ==
  /\ Routing /\ Phases /\ IdleLAR /\ Rested /\ Answerable
  /\ \A p \in Pairs :
       \E numbered \in 0 .. typed[p[1]][p[2]] : \E sent \in 0 .. numbered :
         \E got \in 0 .. sent : \E acked \in 0 .. got :
           Progress(p[1], p[2], acked, got, sent, numbered)
=============================================================================
