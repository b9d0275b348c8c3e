----------------------------- MODULE WireProofs ------------------------------
(***************************************************************************)
(* The queues of Wire stay rings.  A frame has a CRC of 0 in               *)
(* incoming_frames just when the switch has not altered it.  And what is   *)
(* printed is what was typed: every frame of every message has its place,  *)
(* and no frames are under way but those of two neighbouring places.       *)
(***************************************************************************)
EXTENDS WireFacts

LEMMA StepKeepsQueues == SoundLists(lists) /\ [Next]_vars => SoundLists(lists)'
<1> SUFFICES ASSUME SoundLists(lists), [Next]_vars
             PROVE  SoundLists(lists')
  OBVIOUS
<1> USE QueueNames
<1>1. ASSUME NEW msg_length \in MsgLengths, Type(msg_length)
      PROVE  SoundLists(lists')
  BY <1>1, AppendFresh DEF Type, new_node
<1>2. CASE PopCmd
  BY <1>2, PopKeepsQueues DEF PopCmd
<1>3. CASE CutFrame
  BY <1>3, AppendFresh DEF CutFrame, new_node
<1>4. CASE FillSlot
  BY <1>4, PopThenAppend DEF FillSlot
<1>5. CASE Resend
  BY <1>5, AppendFresh DEF Resend, new_node
<1>6. ASSUME NEW index \in 0 .. MAX_FRAME_SIZE, SendFrame(index)
      PROVE  SoundLists(lists')
  BY <1>6, PopThenAppend DEF SendFrame
<1>7. CASE Receive
  BY <1>7, PopKeepsQueues DEF Receive
<1>8. CASE Acked
  BY <1>8 DEF Acked
<1>9. CASE UNCHANGED vars
  BY <1>9 DEF vars
<1> QED BY <1>1, <1>2, <1>3, <1>4, <1>5, <1>6, <1>7, <1>8, <1>9 DEF Next

\* Each queue of the program is at all times a ring of the nodes appended to
\* it and not popped yet, in order (util.c), whatever the number of nodes.
THEOREM QueuesAreRingsCorrect == Spec => []QueuesAreRings
<1>1. Init => SoundLists(lists)
  BY EmptyQueues DEF Init
<1>2. SoundLists(lists) => QueuesAreRings
  BY DEF SoundLists, QueuesAreRings
<1> QED BY <1>1, <1>2, StepKeepsQueues, PTL DEF Spec

-----------------------------------------------------------------------------
(***************************************************************************)
(* What the queues hold: messages, then frames that lack a CRC, then frames *)
(* that have one, then frames of which the altered ones are corrupted.     *)
(***************************************************************************)
Messages == UNION {[1 .. n -> Byte] : n \in MsgLengths}
Unsealed == {f \in Frames : f.crc = 0}
Whole    == {f \in Frames : ~Corrupted(f)}

QueuesHold(ls, alt) ==
  /\ \A i \in 1 .. Size(ls, input_cmdlist) : At(ls, input_cmdlist, i) \in Messages
  /\ \A i \in 1 .. Size(ls, buffered_outframes) : At(ls, buffered_outframes, i) \in Unsealed
  /\ \A i \in 1 .. Size(ls, outgoing_frames) : At(ls, outgoing_frames, i) \in Whole
  /\ \A i \in 1 .. Size(ls, incoming_frames) :
       /\ At(ls, incoming_frames, i) \in Frames
       /\ Corrupted(At(ls, incoming_frames, i)) <=> ls.chain[incoming_frames][i] \in alt

Command(c) ==
  /\ c \in [message : Messages, i : Nat]
  /\ c.i < num_frames(Len(c.message))

WireInv ==
  /\ SoundLists(lists)
  /\ QueuesHold(lists, altered)
  /\ \A a \in altered : \E i \in 1 .. Size(lists, incoming_frames) :
       a = lists.chain[incoming_frames][i]
  /\ LFS \in SeqNums /\ NFE \in SeqNums
  /\ cutting = NULL \/ Command(cutting)
  /\ slot = NULL \/ slot \in Whole
  /\ typed \in Seq(Messages)

LEMMA Distinct ==
  /\ input_cmdlist # buffered_outframes /\ input_cmdlist # outgoing_frames
  /\ input_cmdlist # incoming_frames /\ buffered_outframes # outgoing_frames
  /\ buffered_outframes # incoming_frames /\ outgoing_frames # incoming_frames
BY WireAssumption

LEMMA SeqNumsAreBytes == SeqNums = Byte
<1>1. MAX_SEQ_NUM = 255
  BY WireAssumption
<1> QED BY <1>1 DEF SeqNums, Byte

LEMMA MessageType ==
  ASSUME NEW msg_length \in MsgLengths, NEW k \in Nat
  PROVE  Message(msg_length, k) \in Messages
<1>1. \A i \in 1 .. msg_length : 33 + ((i + 40 * k) % 90) \in Byte /\ NUL \in Byte
  BY DEF Byte, NUL
<1>2. Message(msg_length, k) \in [1 .. msg_length -> Byte]
  BY <1>1 DEF Message, NUL, Byte
<1> QED BY <1>2 DEF Messages

LEMMA MessageLength ==
  ASSUME NEW message \in Messages
  PROVE  /\ Len(message) \in MsgLengths /\ Len(message) \in 1 .. USHORT_MAX
         /\ \A i \in 1 .. Len(message) : message[i] \in Byte
         /\ num_frames(Len(message)) \in Nat \ {0}
<1>1. PICK n \in MsgLengths : message \in [1 .. n -> Byte]
  BY DEF Messages
<1>2. n \in Nat \ {0} /\ n \in 1 .. USHORT_MAX
  BY WireAssumption
<1>3. Len(message) = n
  BY <1>1, <1>2
<1>4. num_frames(n) \in Nat \ {0}
  <2>1. \A p \in Nat \ {0} : (n + p - 1) \div p \in Nat /\ (n + p - 1) \div p >= 1
    <3> SUFFICES ASSUME NEW p \in Nat \ {0}
                 PROVE  (n + p - 1) \div p \in Nat /\ (n + p - 1) \div p >= 1
      OBVIOUS
    <3> DEFINE m == n + p - 1
               q == m \div p
    <3>1. m \in Nat /\ m >= p
      BY <1>2
    <3> HIDE DEF m
    <3>2. q \in Nat /\ m % p \in 0 .. p - 1 /\ m = p * q + (m % p)
      BY <3>1, DivisionFacts
    <3> HIDE DEF q
    <3>3. q # 0
      BY <3>1, <3>2
    <3> QED BY <3>2, <3>3 DEF q, m
  <2> QED BY <2>1, FragmentAssumption DEF num_frames
<1> QED BY <1>1, <1>2, <1>3, <1>4

\* handle_input_cmds makes frames that have no CRC yet.
LEMMA FrameType ==
  ASSUME NEW c, Command(c), NEW seq_num \in SeqNums
  PROVE  Frame(c.message, c.i, seq_num) \in Unsealed
<1> DEFINE m == c.message
           i == c.i
           n == numbytes(Len(m), i)
           P == FRAME_PAYLOAD_SIZE
           d == [k \in 1 .. P |-> IF k <= n THEN m[i * P + k] ELSE 0]
           f == Frame(m, i, seq_num)
<1>1. m \in Messages /\ i \in Nat /\ i < num_frames(Len(m))
  BY DEF Command
<1>2. /\ Len(m) \in 1 .. USHORT_MAX /\ num_frames(Len(m)) \in Nat
      /\ \A k \in 1 .. Len(m) : m[k] \in Byte
  BY <1>1, MessageLength
<1>3. i \in 0 .. num_frames(Len(m)) - 1
  BY <1>1, <1>2
<1>4. /\ starting_index(i) = i * P /\ n \in 1 .. P
      /\ starting_index(i) + n + remaining_msg_bytes(Len(m), i) = Len(m)
  BY <1>2, <1>3, FragmentsCover
<1>5. P \in 1 .. 255 /\ USHORT_MAX \in Nat /\ Len(m) \in Nat /\ i \in Nat
  BY <1>1, <1>2, FragmentAssumption
<1>6. remaining_msg_bytes(Len(m), i) \in Short /\ starting_index(i) \in Short
  <2> HIDE DEF m, i, P
  <2>1. ASSUME NEW k \in Int PROVE uint16(k) \in Short
    BY <1>5 DEF uint16, Short
  <2>2. i * P \in Int /\ (i + 1) * P \in Int
    BY <1>5
  <2> DEFINE rest == Len(m) - (i + 1) * P
  <2>3. rest \in Int
    BY <1>5, <2>2
  <2> HIDE DEF rest
  <2>4. (IF rest > 0 THEN rest ELSE 0) \in Int
    BY <2>3
  <2> QED BY <2>1, <2>2, <2>4 DEF remaining_msg_bytes, starting_index, rest, P
<1>7. d \in [1 .. P -> Byte]
  <2>1. i * P \in Nat
    <3> HIDE DEF P, i
    <3> QED BY <1>1, <1>5
  <2>2. ASSUME NEW k \in 1 .. P, k <= n PROVE m[i * P + k] \in Byte
    <3> DEFINE start == i * P
               rest  == remaining_msg_bytes(Len(m), i)
    <3>1. start \in Nat /\ rest \in Nat /\ start + n + rest = Len(m)
      BY <1>4, <1>6, <2>1 DEF Short
    <3> HIDE DEF start, rest, n
    <3>2. start + k \in 1 .. Len(m)
      BY <1>4, <1>5, <2>2, <3>1
    <3> QED BY <1>2, <3>2 DEF start
  <2>3. 0 \in Byte
    BY DEF Byte
  <2> HIDE DEF n, m, i
  <2> QED BY <2>2, <2>3
<1>8. n \in Byte /\ seq_num \in Byte /\ 0 \in Byte /\ 1 \in Byte
  <2>1. \A k \in 1 .. P : k \in Byte
    BY <1>5 DEF Byte
  <2>2. 0 \in Byte /\ 1 \in Byte
    BY DEF Byte
  <2> QED BY <1>4, <2>1, <2>2, SeqNumsAreBytes
<1>9. f = [remaining_msg_bytes |-> remaining_msg_bytes(Len(m), i),
           dst_id |-> 1, src_id |-> 0, seq_num |-> seq_num, len |-> n,
           starting_index |-> starting_index(i), ack_num |-> 0, is_ack |-> 0,
           data |-> d, crc |-> 0]
  BY DEF Frame
<1> HIDE DEF f, d, n, m, i, P
<1>10. f \in Frames /\ f.crc = 0
  BY <1>6, <1>7, <1>8, <1>9 DEF Frames, P
<1> QED BY <1>10 DEF Unsealed, f, m, i

LEMMA InitWire == Init => WireInv
<1> SUFFICES ASSUME Init PROVE WireInv
  OBVIOUS
<1>1. \A l \in Queue : Size(lists, l) = 0
  BY DEF Init, NoLists, Size
<1>2. QueuesHold(lists, altered)
  BY <1>1, QueueNames DEF QueuesHold
<1>3. LFS \in SeqNums /\ NFE \in SeqNums
  BY Uint8Type, SeqNumAssumption DEF Init, SeqNums
<1> QED BY <1>2, <1>3, EmptyQueues DEF Init, WireInv

LEMMA TypeWire ==
  ASSUME WireInv, NEW msg_length \in MsgLengths, Type(msg_length)
  PROVE  WireInv'
<1> DEFINE message == Message(msg_length, Len(typed))
           after == ll_append_node(lists, input_cmdlist, new_node, message)
<1>1. /\ Fresh(lists) # {} /\ lists' = after
      /\ UNCHANGED <<cutting, LFS, slot, NFE, altered>>
  BY DEF Type
<1>2. message \in Messages
  BY MessageType DEF WireInv
<1>6. typed' \in Seq(Messages)
  BY <1>2 DEF Type, WireInv
<1> HIDE DEF message
<1>3. /\ SoundLists(lists')
      /\ \A m \in Queue : Size(lists, m) \in Nat
      /\ Size(lists', input_cmdlist) = Size(lists, input_cmdlist) + 1
      /\ At(lists', input_cmdlist, Size(lists, input_cmdlist) + 1) = message
      /\ \A m \in Queue : \A i \in 1 .. Size(lists, m) :
           At(lists', m, i) = At(lists, m, i) /\ lists'.chain[m][i] = lists.chain[m][i]
      /\ \A m \in Queue \ {input_cmdlist} : Size(lists', m) = Size(lists, m)
  BY <1>1, QueueNames, AppendedQueues DEF WireInv, new_node
<1> HIDE DEF after
<1>4. QueuesHold(lists', altered')
  <2>1. \A i \in 1 .. Size(lists', input_cmdlist) : At(lists', input_cmdlist, i) \in Messages
    BY <1>2, <1>3, QueueNames DEF WireInv, QueuesHold
  <2> QED BY SMTT(30), <1>1, <1>3, <2>1, QueueNames, Distinct DEF WireInv, QueuesHold
<1>5. \A a \in altered' : \E i \in 1 .. Size(lists', incoming_frames) :
        a = lists'.chain[incoming_frames][i]
  BY <1>1, <1>3, QueueNames, Distinct DEF WireInv
<1> QED BY <1>1, <1>3, <1>4, <1>5, <1>6 DEF WireInv, Command

LEMMA PopCmdWire == ASSUME WireInv, PopCmd PROVE WireInv'
<1> DEFINE after == ll_pop_node(lists, input_cmdlist)
           message == ll_peek_node(lists, input_cmdlist)
<1>1. /\ NotEmpty(lists, input_cmdlist) /\ lists' = after
      /\ cutting' = [message |-> message, i |-> 0]
      /\ UNCHANGED <<LFS, slot, NFE, altered, typed>>
  BY DEF PopCmd
<1> HIDE DEF after, message
<1>2. /\ SoundLists(lists')
      /\ \A m \in Queue : Size(lists, m) \in Nat
      /\ Size(lists, input_cmdlist) >= 1
      /\ Size(lists', input_cmdlist) = Size(lists, input_cmdlist) - 1
      /\ message = At(lists, input_cmdlist, 1)
      /\ \A i \in 1 .. Size(lists, input_cmdlist) - 1 :
           At(lists', input_cmdlist, i) = At(lists, input_cmdlist, i + 1)
      /\ \A m \in Queue \ {input_cmdlist} :
           /\ Size(lists', m) = Size(lists, m)
           /\ \A i \in 1 .. Size(lists, m) :
                At(lists', m, i) = At(lists, m, i) /\ lists'.chain[m][i] = lists.chain[m][i]
  BY <1>1, QueueNames, PoppedQueues DEF WireInv, after, message
<1>3. message \in Messages
  BY <1>2, QueueNames DEF WireInv, QueuesHold
<1>4. Command(cutting')
  BY <1>1, <1>3, MessageLength DEF Command
<1>5. \A i \in 1 .. Size(lists', input_cmdlist) : At(lists', input_cmdlist, i) \in Messages
  <2> SUFFICES ASSUME NEW i \in 1 .. Size(lists, input_cmdlist) - 1
               PROVE  At(lists', input_cmdlist, i) \in Messages
    BY <1>2
  <2>1. i + 1 \in 1 .. Size(lists, input_cmdlist)
    BY <1>2, QueueNames
  <2> QED BY <1>2, <2>1 DEF WireInv, QueuesHold
<1>6. QueuesHold(lists', altered')
  <2>1. \A i \in 1 .. Size(lists', buffered_outframes) :
          At(lists', buffered_outframes, i) \in Unsealed
    BY <1>2, QueueNames, Distinct DEF WireInv, QueuesHold
  <2>2. \A i \in 1 .. Size(lists', outgoing_frames) :
          At(lists', outgoing_frames, i) \in Whole
    BY <1>2, QueueNames, Distinct DEF WireInv, QueuesHold
  <2>3. \A i \in 1 .. Size(lists', incoming_frames) :
          /\ At(lists', incoming_frames, i) \in Frames
          /\ Corrupted(At(lists', incoming_frames, i))
               <=> lists'.chain[incoming_frames][i] \in altered'
    BY <1>1, <1>2, QueueNames, Distinct DEF WireInv, QueuesHold
  <2> QED BY <1>5, <2>1, <2>2, <2>3 DEF QueuesHold
<1>7. \A a \in altered' : \E i \in 1 .. Size(lists', incoming_frames) :
        a = lists'.chain[incoming_frames][i]
  BY <1>1, <1>2, QueueNames, Distinct DEF WireInv
<1> QED BY <1>1, <1>2, <1>4, <1>6, <1>7 DEF WireInv

LEMMA CutFrameWire == ASSUME WireInv, CutFrame PROVE WireInv'
<1> DEFINE f == Frame(cutting.message, cutting.i, LFS')
           after == ll_append_node(lists, buffered_outframes, new_node, f)
<1>1. /\ Fresh(lists) # {} /\ lists' = after /\ LFS' = uint8(LFS + 1)
      /\ UNCHANGED <<slot, NFE, altered, typed>> /\ cutting # NULL
      /\ cutting' = IF cutting.i + 1 = num_frames(Len(cutting.message)) THEN NULL
                    ELSE [cutting EXCEPT !.i = @ + 1]
  BY DEF CutFrame
<1>2. LFS' \in SeqNums /\ Command(cutting)
  BY <1>1, Uint8Type DEF WireInv, SeqNums
<1>3. f \in Unsealed
  BY <1>2, FrameType
<1> HIDE DEF f
<1>4. /\ SoundLists(lists')
      /\ \A m \in Queue : Size(lists, m) \in Nat
      /\ Size(lists', buffered_outframes) = Size(lists, buffered_outframes) + 1
      /\ At(lists', buffered_outframes, Size(lists, buffered_outframes) + 1) = f
      /\ \A m \in Queue : \A i \in 1 .. Size(lists, m) :
           At(lists', m, i) = At(lists, m, i) /\ lists'.chain[m][i] = lists.chain[m][i]
      /\ \A m \in Queue \ {buffered_outframes} : Size(lists', m) = Size(lists, m)
  BY <1>1, QueueNames, AppendedQueues DEF WireInv, new_node
<1> HIDE DEF after
<1>5. cutting' = NULL \/ Command(cutting')
  <2>1. /\ cutting \in [message : Messages, i : Nat]
        /\ cutting.i < num_frames(Len(cutting.message))
        /\ num_frames(Len(cutting.message)) \in Nat
    BY <1>2, MessageLength DEF Command
  <2>2. CASE cutting.i + 1 # num_frames(Len(cutting.message))
    <3>1. cutting' = [cutting EXCEPT !.i = cutting.i + 1]
      BY <1>1, <2>2
    <3>2. /\ cutting' \in [message : Messages, i : Nat]
          /\ cutting'.message = cutting.message /\ cutting'.i = cutting.i + 1
      BY <2>1, <3>1
    <3>3. cutting'.i < num_frames(Len(cutting'.message))
      BY <2>1, <2>2, <3>2
    <3> QED BY <3>2, <3>3 DEF Command
  <2> QED BY <1>1, <2>2
<1>6. \A i \in 1 .. Size(lists', buffered_outframes) :
        At(lists', buffered_outframes, i) \in Unsealed
  BY <1>3, <1>4, QueueNames DEF WireInv, QueuesHold
<1>7. QueuesHold(lists', altered')
  BY <1>1, <1>4, <1>6, QueueNames, Distinct DEF WireInv, QueuesHold
<1>8. \A a \in altered' : \E i \in 1 .. Size(lists', incoming_frames) :
        a = lists'.chain[incoming_frames][i]
  BY <1>1, <1>4, QueueNames, Distinct DEF WireInv
<1> QED BY <1>1, <1>2, <1>4, <1>5, <1>7, <1>8 DEF WireInv

LEMMA ResendWire == ASSUME WireInv, Resend PROVE WireInv'
<1> DEFINE after == ll_append_node(lists, outgoing_frames, new_node, slot)
<1>1. /\ Fresh(lists) # {} /\ lists' = after /\ slot \in Whole
      /\ UNCHANGED <<cutting, LFS, slot, NFE, altered, typed>>
  BY DEF Resend, WireInv
<1>2. /\ SoundLists(lists')
      /\ \A m \in Queue : Size(lists, m) \in Nat
      /\ Size(lists', outgoing_frames) = Size(lists, outgoing_frames) + 1
      /\ At(lists', outgoing_frames, Size(lists, outgoing_frames) + 1) = slot
      /\ \A m \in Queue : \A i \in 1 .. Size(lists, m) :
           At(lists', m, i) = At(lists, m, i) /\ lists'.chain[m][i] = lists.chain[m][i]
      /\ \A m \in Queue \ {outgoing_frames} : Size(lists', m) = Size(lists, m)
  BY <1>1, QueueNames, AppendedQueues DEF WireInv, new_node
<1> HIDE DEF after
<1>3. \A i \in 1 .. Size(lists', outgoing_frames) : At(lists', outgoing_frames, i) \in Whole
  BY <1>1, <1>2, QueueNames DEF WireInv, QueuesHold
<1>4. QueuesHold(lists', altered')
  BY <1>1, <1>2, <1>3, QueueNames, Distinct DEF WireInv, QueuesHold
<1>5. \A a \in altered' : \E i \in 1 .. Size(lists', incoming_frames) :
        a = lists'.chain[incoming_frames][i]
  BY <1>1, <1>2, QueueNames, Distinct DEF WireInv
<1> QED BY <1>1, <1>2, <1>4, <1>5 DEF WireInv, Command

\* A pop from one queue, then an append to another.
LEMMA MovedQueues ==
  ASSUME NEW ls, SoundLists(ls), NEW l \in Queue, NotEmpty(ls, l),
         NEW m \in Queue, m # l, NEW v
  PROVE  LET popped == ll_pop_node(ls, l)
             node   == CHOOSE a \in Fresh(popped) : TRUE
             after  == ll_append_node(popped, m, node, v)
         IN  /\ SoundLists(after)
             /\ \A q \in Queue : Size(ls, q) \in Nat
             /\ Size(ls, l) >= 1 /\ Size(after, l) = Size(ls, l) - 1
             /\ ll_peek_node(ls, l) = At(ls, l, 1)
             /\ \A i \in 1 .. Size(ls, l) - 1 :
                  /\ At(after, l, i) = At(ls, l, i + 1)
                  /\ after.chain[l][i] = ls.chain[l][i + 1]
             /\ Size(after, m) = Size(ls, m) + 1
             /\ At(after, m, Size(ls, m) + 1) = v
             /\ after.chain[m][Size(ls, m) + 1] = node
             /\ \A i \in 1 .. Size(ls, m) : ls.chain[m][i] # node
             /\ \A q \in Queue \ {l} : \A i \in 1 .. Size(ls, q) :
                  At(after, q, i) = At(ls, q, i) /\ after.chain[q][i] = ls.chain[q][i]
             /\ \A q \in Queue \ {l, m} : Size(after, q) = Size(ls, q)
<1> DEFINE popped == ll_pop_node(ls, l)
           node   == CHOOSE a \in Fresh(popped) : TRUE
           after  == ll_append_node(popped, m, node, v)
<1>1. /\ SoundLists(popped) /\ Fresh(popped) # {}
      /\ \A q \in Queue : Size(ls, q) \in Nat
      /\ Size(ls, l) >= 1 /\ Size(popped, l) = Size(ls, l) - 1
      /\ ll_peek_node(ls, l) = At(ls, l, 1)
      /\ \A i \in 1 .. Size(ls, l) - 1 :
           At(popped, l, i) = At(ls, l, i + 1) /\ popped.chain[l][i] = ls.chain[l][i + 1]
      /\ \A q \in Queue \ {l} :
           /\ Size(popped, q) = Size(ls, q)
           /\ \A i \in 1 .. Size(ls, q) :
                At(popped, q, i) = At(ls, q, i) /\ popped.chain[q][i] = ls.chain[q][i]
  BY PoppedQueues
<1> HIDE DEF popped
<1>2. /\ SoundLists(after)
      /\ \A q \in Queue : Size(popped, q) \in Nat
      /\ Size(after, m) = Size(popped, m) + 1
      /\ At(after, m, Size(popped, m) + 1) = v
      /\ after.chain[m][Size(popped, m) + 1] = node
      /\ \A q \in Queue : \A i \in 1 .. Size(popped, q) :
           /\ At(after, q, i) = At(popped, q, i)
           /\ after.chain[q][i] = popped.chain[q][i]
           /\ after.chain[q][i] # node
      /\ \A q \in Queue \ {m} : Size(after, q) = Size(popped, q)
  BY <1>1, AppendedQueues
<1> HIDE DEF node, after
<1>3. Size(popped, m) = Size(ls, m)
  BY <1>1
<1>4. \A i \in 1 .. Size(ls, l) - 1 :
        At(after, l, i) = At(ls, l, i + 1) /\ after.chain[l][i] = ls.chain[l][i + 1]
  BY <1>1, <1>2
<1>5. \A q \in Queue \ {l} : \A i \in 1 .. Size(ls, q) :
        /\ At(after, q, i) = At(ls, q, i) /\ after.chain[q][i] = ls.chain[q][i]
        /\ after.chain[q][i] # node
  BY <1>1, <1>2
<1>6. \A q \in Queue \ {l, m} : Size(after, q) = Size(ls, q)
  BY <1>1, <1>2
<1>7. \A i \in 1 .. Size(ls, m) : ls.chain[m][i] # node
  BY <1>5
<1>8. Size(after, l) = Size(ls, l) - 1
  BY <1>1, <1>2
<1>9. /\ Size(after, m) = Size(ls, m) + 1 /\ At(after, m, Size(ls, m) + 1) = v
      /\ after.chain[m][Size(ls, m) + 1] = node
  BY <1>2, <1>3
<1> QED BY <1>1, <1>2, <1>4, <1>5, <1>6, <1>7, <1>8, <1>9 DEF popped, node, after

LEMMA FillSlotWire == ASSUME WireInv, FillSlot PROVE WireInv'
<1> DEFINE f      == ll_peek_node(lists, buffered_outframes)
           popped == ll_pop_node(lists, buffered_outframes)
           node   == CHOOSE a \in Fresh(popped) : TRUE
           after  == ll_append_node(popped, outgoing_frames, node, WithCrc(f))
<1>1. /\ NotEmpty(lists, buffered_outframes) /\ lists' = after
      /\ slot' = WithCrc(f)
      /\ UNCHANGED <<cutting, LFS, NFE, altered, typed>>
  BY DEF FillSlot, InSlot
<1>2. /\ SoundLists(after)
      /\ \A q \in Queue : Size(lists, q) \in Nat
      /\ Size(lists, buffered_outframes) >= 1
      /\ Size(after, buffered_outframes) = Size(lists, buffered_outframes) - 1
      /\ f = At(lists, buffered_outframes, 1)
      /\ \A i \in 1 .. Size(lists, buffered_outframes) - 1 :
           At(after, buffered_outframes, i) = At(lists, buffered_outframes, i + 1)
      /\ Size(after, outgoing_frames) = Size(lists, outgoing_frames) + 1
      /\ At(after, outgoing_frames, Size(lists, outgoing_frames) + 1) = WithCrc(f)
      /\ \A q \in Queue \ {buffered_outframes} : \A i \in 1 .. Size(lists, q) :
           At(after, q, i) = At(lists, q, i) /\ after.chain[q][i] = lists.chain[q][i]
      /\ \A q \in Queue \ {buffered_outframes, outgoing_frames} :
           Size(after, q) = Size(lists, q)
  BY SMTT(30), <1>1, QueueNames, Distinct, MovedQueues DEF WireInv
<1> HIDE DEF f, popped, node, after
<1>3. f \in Unsealed
  BY <1>2, QueueNames DEF WireInv, QueuesHold
<1>4. WithCrc(f) \in Whole
  BY <1>3, SealedFrameIsWhole DEF Unsealed, Whole
<1>5. \A i \in 1 .. Size(lists', buffered_outframes) :
        At(lists', buffered_outframes, i) \in Unsealed
  <2> SUFFICES ASSUME NEW i \in 1 .. Size(lists, buffered_outframes) - 1
               PROVE  At(lists', buffered_outframes, i) \in Unsealed
    BY <1>1, <1>2
  <2>1. i + 1 \in 1 .. Size(lists, buffered_outframes)
    BY <1>2, QueueNames
  <2> QED BY <1>1, <1>2, <2>1 DEF WireInv, QueuesHold
<1>6. \A i \in 1 .. Size(lists', outgoing_frames) : At(lists', outgoing_frames, i) \in Whole
  BY <1>1, <1>2, <1>4, QueueNames, Distinct DEF WireInv, QueuesHold
<1>7. QueuesHold(lists', altered')
  BY SMTT(30), <1>1, <1>2, <1>5, <1>6, QueueNames, Distinct DEF WireInv, QueuesHold
<1>8. \A a \in altered' : \E i \in 1 .. Size(lists', incoming_frames) :
        a = lists'.chain[incoming_frames][i]
  BY <1>1, <1>2, QueueNames, Distinct DEF WireInv
<1> QED BY <1>1, <1>2, <1>4, <1>7, <1>8 DEF WireInv, Command

LEMMA SendFrameWire ==
  ASSUME WireInv, NEW index \in 0 .. MAX_FRAME_SIZE, SendFrame(index)
  PROVE  WireInv'
<1> DEFINE f      == ll_peek_node(lists, outgoing_frames)
           popped == ll_pop_node(lists, outgoing_frames)
           node   == CHOOSE a \in Fresh(popped) : TRUE
           g      == Inverted(f, index)
           after  == ll_append_node(popped, incoming_frames, node, g)
           n      == Size(lists, incoming_frames)
<1>1. /\ NotEmpty(lists, outgoing_frames) /\ lists' = after
      /\ altered' = IF index = 0 THEN altered ELSE altered \cup {node}
      /\ UNCHANGED <<cutting, LFS, slot, NFE, typed>>
  BY DEF SendFrame
<1>2. /\ SoundLists(after)
      /\ \A q \in Queue : Size(lists, q) \in Nat
      /\ Size(lists, outgoing_frames) >= 1
      /\ Size(after, outgoing_frames) = Size(lists, outgoing_frames) - 1
      /\ f = At(lists, outgoing_frames, 1)
      /\ \A i \in 1 .. Size(lists, outgoing_frames) - 1 :
           At(after, outgoing_frames, i) = At(lists, outgoing_frames, i + 1)
      /\ Size(after, incoming_frames) = n + 1
      /\ At(after, incoming_frames, n + 1) = g
      /\ after.chain[incoming_frames][n + 1] = node
      /\ \A i \in 1 .. n : lists.chain[incoming_frames][i] # node
      /\ \A q \in Queue \ {outgoing_frames} : \A i \in 1 .. Size(lists, q) :
           At(after, q, i) = At(lists, q, i) /\ after.chain[q][i] = lists.chain[q][i]
      /\ \A q \in Queue \ {outgoing_frames, incoming_frames} :
           Size(after, q) = Size(lists, q)
  BY <1>1, QueueNames, Distinct, MovedQueues DEF WireInv
<1> HIDE DEF f, popped, node, after, g
<1>3. f \in Whole
  BY <1>2, QueueNames DEF WireInv, QueuesHold
<1>4. g \in Frames /\ (Corrupted(g) <=> index # 0)
  <2>1. CASE index = 0
    BY <1>3, <2>1 DEF g, Inverted, Whole
  <2>2. CASE index # 0
    <3>1. index \in 1 .. MAX_FRAME_SIZE
      BY <2>2, FrameSize
    <3> QED BY <1>3, <2>2, <3>1, InvertedFrameIsCorrupted DEF g, Whole
  <2> QED BY <2>1, <2>2
<1>5. node \notin altered
  BY <1>2 DEF WireInv
<1>6. \A i \in 1 .. Size(lists', outgoing_frames) : At(lists', outgoing_frames, i) \in Whole
  <2> SUFFICES ASSUME NEW i \in 1 .. Size(lists, outgoing_frames) - 1
               PROVE  At(lists', outgoing_frames, i) \in Whole
    BY <1>1, <1>2
  <2>1. i + 1 \in 1 .. Size(lists, outgoing_frames)
    BY <1>2, QueueNames
  <2> QED BY <1>1, <1>2, <2>1 DEF WireInv, QueuesHold
<1>7. n \in Nat
  BY <1>2, QueueNames
<1>8. ASSUME NEW i \in 1 .. n + 1
      PROVE  /\ At(lists', incoming_frames, i) \in Frames
             /\ Corrupted(At(lists', incoming_frames, i))
                  <=> lists'.chain[incoming_frames][i] \in altered'
  <2>1. CASE i = n + 1
    BY <1>1, <1>2, <1>4, <1>5, <2>1
  <2>2. CASE i # n + 1
    <3>1. i \in 1 .. n
      BY <1>7, <2>2
    <3>2. /\ At(lists', incoming_frames, i) = At(lists, incoming_frames, i)
          /\ lists'.chain[incoming_frames][i] = lists.chain[incoming_frames][i]
          /\ lists.chain[incoming_frames][i] # node
      BY <1>1, <1>2, <3>1, QueueNames, Distinct
    <3>3. /\ At(lists, incoming_frames, i) \in Frames
          /\ Corrupted(At(lists, incoming_frames, i))
               <=> lists.chain[incoming_frames][i] \in altered
      BY <3>1 DEF WireInv, QueuesHold
    <3> QED BY <1>1, <3>2, <3>3
  <2> QED BY <2>1, <2>2
<1>9. QueuesHold(lists', altered')
  <2>1. \A i \in 1 .. Size(lists', incoming_frames) :
          /\ At(lists', incoming_frames, i) \in Frames
          /\ Corrupted(At(lists', incoming_frames, i))
               <=> lists'.chain[incoming_frames][i] \in altered'
    BY <1>1, <1>2, <1>8
  <2>2. /\ \A i \in 1 .. Size(lists', input_cmdlist) : At(lists', input_cmdlist, i) \in Messages
        /\ \A i \in 1 .. Size(lists', buffered_outframes) :
             At(lists', buffered_outframes, i) \in Unsealed
    BY <1>1, <1>2, QueueNames, Distinct DEF WireInv, QueuesHold
  <2> QED BY <1>6, <2>1, <2>2 DEF QueuesHold
<1>10. \A a \in altered' : \E i \in 1 .. Size(lists', incoming_frames) :
         a = lists'.chain[incoming_frames][i]
  <2>1. ASSUME NEW a \in altered
        PROVE  \E i \in 1 .. n + 1 : a = lists'.chain[incoming_frames][i]
    <3>1. PICK i \in 1 .. n : a = lists.chain[incoming_frames][i]
      BY DEF WireInv
    <3>2. a = lists'.chain[incoming_frames][i] /\ i \in 1 .. n + 1
      BY <1>1, <1>2, <1>7, <3>1, QueueNames, Distinct
    <3> QED BY <3>2
  <2>2. n + 1 \in 1 .. n + 1 /\ node = lists'.chain[incoming_frames][n + 1]
    BY <1>1, <1>2, <1>7
  <2> QED BY <1>1, <1>2, <2>1, <2>2
<1> QED BY <1>1, <1>2, <1>9, <1>10 DEF WireInv, Command

LEMMA ReceiveWire == ASSUME WireInv, Receive PROVE WireInv'
<1> DEFINE after == ll_pop_node(lists, incoming_frames)
           n     == Size(lists, incoming_frames)
           first == lists.chain[incoming_frames][1]
<1>1. /\ NotEmpty(lists, incoming_frames) /\ lists' = after
      /\ altered' = altered \ {lists.head[incoming_frames]}
      /\ UNCHANGED <<cutting, LFS, slot, typed>>
  BY DEF Receive
<1>2. NFE' \in SeqNums
  <2>1. NFE' = NFE \/ NFE' = uint8(NFE + 1)
    BY DEF Receive, Assemble
  <2>2. NFE \in SeqNums
    BY DEF WireInv
  <2>3. NFE + 1 \in Int
    BY <2>2, WireAssumption DEF SeqNums
  <2>4. uint8(NFE + 1) \in SeqNums
    BY <2>3, Uint8Type
  <2> QED BY <2>1, <2>2, <2>4
<1>3. /\ SoundLists(lists')
      /\ \A q \in Queue : Size(lists, q) \in Nat
      /\ n >= 1 /\ Size(lists', incoming_frames) = n - 1
      /\ lists.head[incoming_frames] = first
      /\ \A i \in 1 .. n - 1 :
           /\ At(lists', incoming_frames, i) = At(lists, incoming_frames, i + 1)
           /\ lists'.chain[incoming_frames][i] = lists.chain[incoming_frames][i + 1]
           /\ lists'.chain[incoming_frames][i] # first
      /\ \A q \in Queue \ {incoming_frames} :
           /\ Size(lists', q) = Size(lists, q)
           /\ \A i \in 1 .. Size(lists, q) : At(lists', q, i) = At(lists, q, i)
  BY <1>1, QueueNames, PoppedQueues DEF WireInv
<1>4. n \in Nat
  BY <1>3, QueueNames
<1> HIDE DEF after, n, first
<1>5. ASSUME NEW i \in 1 .. n - 1
      PROVE  /\ At(lists', incoming_frames, i) \in Frames
             /\ Corrupted(At(lists', incoming_frames, i))
                  <=> lists'.chain[incoming_frames][i] \in altered'
  <2>1. i + 1 \in 1 .. n
    BY <1>4
  <2>2. /\ At(lists, incoming_frames, i + 1) \in Frames
        /\ Corrupted(At(lists, incoming_frames, i + 1))
             <=> lists.chain[incoming_frames][i + 1] \in altered
    BY <2>1 DEF WireInv, QueuesHold, n
  <2> QED BY <1>1, <1>3, <2>2
<1>6. QueuesHold(lists', altered')
  BY <1>3, <1>5, QueueNames, Distinct DEF WireInv, QueuesHold
<1>7. ASSUME NEW a \in altered'
      PROVE  \E i \in 1 .. Size(lists', incoming_frames) :
               a = lists'.chain[incoming_frames][i]
  <2>1. PICK i \in 1 .. n : a = lists.chain[incoming_frames][i]
    BY <1>1, <1>7 DEF WireInv, n
  <2>2. i # 1
    BY <1>1, <1>3, <1>7, <2>1 DEF first
  <2>3. i - 1 \in 1 .. n - 1 /\ (i - 1) + 1 = i
    BY <1>4, <2>2
  <2> QED BY <1>3, <2>1, <2>3
<1> QED BY <1>1, <1>2, <1>3, <1>6, <1>7 DEF WireInv, Command

LEMMA StepWire == WireInv /\ [Next]_vars => WireInv'
<1> SUFFICES ASSUME WireInv, [Next]_vars PROVE WireInv'
  OBVIOUS
<1>1. CASE Acked
  BY <1>1 DEF Acked, WireInv, QueuesHold, Command
<1>2. CASE UNCHANGED vars
  BY <1>2 DEF vars, WireInv, QueuesHold, Command
<1> QED
  BY <1>1, <1>2, TypeWire, PopCmdWire, CutFrameWire, FillSlotWire, ResendWire,
     SendFrameWire, ReceiveWire DEF Next

\* The CRC of a frame the receiver takes from incoming_frames differs from 0
\* if and only if the switch has inverted one of its bytes (receiver.c,
\* switch.c, compute_crc8), for messages of any lengths and frames of any size.
THEOREM CorruptionDetectedCorrect == Spec => []CorruptionDetected
<1>1. WireInv => CorruptionDetected
  <2> SUFFICES ASSUME WireInv, NEW i \in DOMAIN lists.chain[incoming_frames]
               PROVE  LET a == lists.chain[incoming_frames][i]
                      IN  Corrupted(lists.heap[a].value) <=> a \in altered
    BY DEF CorruptionDetected
  <2>1. i \in 1 .. Size(lists, incoming_frames)
    <3>1. lists.chain[incoming_frames] \in Seq(Address)
      BY QueueNames DEF WireInv, SoundLists
    <3> QED BY <3>1 DEF Size
  <2> QED BY <2>1 DEF WireInv, QueuesHold, At
<1> QED BY <1>1, InitWire, StepWire, PTL DEF Spec

-----------------------------------------------------------------------------
(***************************************************************************)
(* The four queues as sequences of what they hold.                         *)
(***************************************************************************)
Contents(ls, l) == [i \in 1 .. Size(ls, l) |-> At(ls, l, i)]

Cmds   == Contents(lists, input_cmdlist)
Buffer == Contents(lists, buffered_outframes)
Out    == Contents(lists, outgoing_frames)
In     == Contents(lists, incoming_frames)

\* One element more at the end, and one less at the start.
Added(s, t, v) ==
  /\ Len(t) = Len(s) + 1 /\ t[Len(s) + 1] = v
  /\ \A i \in 1 .. Len(s) : t[i] = s[i]

Removed(s, t) ==
  /\ Len(s) >= 1 /\ Len(t) = Len(s) - 1
  /\ \A i \in 1 .. Len(s) - 1 : t[i] = s[i + 1]

LEMMA ContentsFacts ==
  ASSUME NEW ls, NEW l, Size(ls, l) \in Nat
  PROVE  /\ Len(Contents(ls, l)) = Size(ls, l)
         /\ \A i \in 1 .. Size(ls, l) : Contents(ls, l)[i] = At(ls, l, i)
BY DEF Contents

LEMMA SameContents ==
  ASSUME NEW ls, NEW after, NEW l, Size(after, l) = Size(ls, l),
         \A i \in 1 .. Size(ls, l) : At(after, l, i) = At(ls, l, i)
  PROVE  Contents(after, l) = Contents(ls, l)
BY DEF Contents

LEMMA AddedContents ==
  ASSUME NEW ls, NEW after, NEW l, NEW v, Size(ls, l) \in Nat,
         Size(after, l) = Size(ls, l) + 1, At(after, l, Size(ls, l) + 1) = v,
         \A i \in 1 .. Size(ls, l) : At(after, l, i) = At(ls, l, i)
  PROVE  Added(Contents(ls, l), Contents(after, l), v)
<1>1. Size(after, l) \in Nat
  OBVIOUS
<1>2. /\ Len(Contents(ls, l)) = Size(ls, l)
      /\ \A i \in 1 .. Size(ls, l) : Contents(ls, l)[i] = At(ls, l, i)
  BY ContentsFacts
<1>3. /\ Len(Contents(after, l)) = Size(after, l)
      /\ \A i \in 1 .. Size(after, l) : Contents(after, l)[i] = At(after, l, i)
  BY <1>1, ContentsFacts
<1> QED BY <1>2, <1>3 DEF Added

LEMMA RemovedContents ==
  ASSUME NEW ls, NEW after, NEW l, Size(ls, l) \in Nat, Size(ls, l) >= 1,
         Size(after, l) = Size(ls, l) - 1,
         \A i \in 1 .. Size(ls, l) - 1 : At(after, l, i) = At(ls, l, i + 1)
  PROVE  Removed(Contents(ls, l), Contents(after, l))
<1>1. Size(after, l) \in Nat
  OBVIOUS
<1>2. /\ Len(Contents(ls, l)) = Size(ls, l)
      /\ \A i \in 1 .. Size(ls, l) : Contents(ls, l)[i] = At(ls, l, i)
  BY ContentsFacts
<1>3. /\ Len(Contents(after, l)) = Size(after, l)
      /\ \A i \in 1 .. Size(after, l) : Contents(after, l)[i] = At(after, l, i)
  BY <1>1, ContentsFacts
<1> QED BY <1>2, <1>3 DEF Removed

\* What WireInv says of the sequences.
LEMMA QueueContents ==
  ASSUME WireInv
  PROVE  /\ \A l \in Queue : Size(lists, l) \in Nat
         /\ Len(Cmds) \in Nat /\ Len(Buffer) \in Nat
         /\ Len(Out) \in Nat /\ Len(In) \in Nat
         /\ \A i \in 1 .. Len(Cmds) : Cmds[i] \in Messages
         /\ \A i \in 1 .. Len(Buffer) : Buffer[i] \in Unsealed
         /\ \A i \in 1 .. Len(Out) : Out[i] \in Whole
         /\ \A i \in 1 .. Len(In) : In[i] \in Frames
<1>1. \A l \in Queue : Size(lists, l) \in Nat
  BY DEF WireInv, SoundLists, Size
<1>2. \A l \in Queue : /\ Len(Contents(lists, l)) = Size(lists, l)
                       /\ \A i \in 1 .. Size(lists, l) : Contents(lists, l)[i] = At(lists, l, i)
  BY <1>1, ContentsFacts
<1>3. QueuesHold(lists, altered)
  BY DEF WireInv
<1> QED BY <1>1, <1>2, <1>3, QueueNames DEF QueuesHold, Cmds, Buffer, Out, In

LEMMA AppendContents ==
  ASSUME NEW ls, SoundLists(ls), NEW l \in Queue, Fresh(ls) # {}, NEW v
  PROVE  LET after == ll_append_node(ls, l, CHOOSE a \in Fresh(ls) : TRUE, v)
         IN  /\ Added(Contents(ls, l), Contents(after, l), v)
             /\ \A m \in Queue \ {l} : Contents(after, m) = Contents(ls, m)
<1> DEFINE after == ll_append_node(ls, l, CHOOSE a \in Fresh(ls) : TRUE, v)
<1>1. /\ \A m \in Queue : Size(ls, m) \in Nat
      /\ Size(after, l) = Size(ls, l) + 1 /\ At(after, l, Size(ls, l) + 1) = v
      /\ \A m \in Queue : \A i \in 1 .. Size(ls, m) : At(after, m, i) = At(ls, m, i)
      /\ \A m \in Queue \ {l} : Size(after, m) = Size(ls, m)
  BY AppendedQueues
<1> HIDE DEF after
<1>2. Added(Contents(ls, l), Contents(after, l), v)
  BY <1>1, AddedContents
<1>3. \A m \in Queue \ {l} : Contents(after, m) = Contents(ls, m)
  BY <1>1, SameContents
<1> QED BY <1>2, <1>3 DEF after

LEMMA PopContents ==
  ASSUME NEW ls, SoundLists(ls), NEW l \in Queue, NotEmpty(ls, l)
  PROVE  LET after == ll_pop_node(ls, l)
         IN  /\ Removed(Contents(ls, l), Contents(after, l))
             /\ ll_peek_node(ls, l) = Contents(ls, l)[1]
             /\ \A m \in Queue \ {l} : Contents(after, m) = Contents(ls, m)
             /\ SoundLists(after) /\ Fresh(after) # {}
<1> DEFINE after == ll_pop_node(ls, l)
<1>1. /\ \A m \in Queue : Size(ls, m) \in Nat
      /\ Size(ls, l) >= 1 /\ Size(after, l) = Size(ls, l) - 1
      /\ ll_peek_node(ls, l) = At(ls, l, 1)
      /\ \A i \in 1 .. Size(ls, l) - 1 : At(after, l, i) = At(ls, l, i + 1)
      /\ \A m \in Queue \ {l} :
           /\ Size(after, m) = Size(ls, m)
           /\ \A i \in 1 .. Size(ls, m) : At(after, m, i) = At(ls, m, i)
      /\ SoundLists(after) /\ Fresh(after) # {}
  BY PoppedQueues
<1> HIDE DEF after
<1>2. Removed(Contents(ls, l), Contents(after, l))
  BY <1>1, RemovedContents
<1>3. \A m \in Queue \ {l} : Contents(after, m) = Contents(ls, m)
  BY <1>1, SameContents
<1>4. Contents(ls, l)[1] = At(ls, l, 1)
  BY <1>1, ContentsFacts
<1> QED BY <1>1, <1>2, <1>3, <1>4 DEF after

LEMMA MoveContents ==
  ASSUME NEW ls, SoundLists(ls), NEW l \in Queue, NotEmpty(ls, l),
         NEW m \in Queue, m # l, NEW v
  PROVE  LET popped == ll_pop_node(ls, l)
             after  == ll_append_node(popped, m, CHOOSE a \in Fresh(popped) : TRUE, v)
         IN  /\ Removed(Contents(ls, l), Contents(after, l))
             /\ ll_peek_node(ls, l) = Contents(ls, l)[1]
             /\ Added(Contents(ls, m), Contents(after, m), v)
             /\ \A q \in Queue \ {l, m} : Contents(after, q) = Contents(ls, q)
<1> DEFINE popped == ll_pop_node(ls, l)
           after  == ll_append_node(popped, m, CHOOSE a \in Fresh(popped) : TRUE, v)
<1>1. /\ Removed(Contents(ls, l), Contents(popped, l))
      /\ ll_peek_node(ls, l) = Contents(ls, l)[1]
      /\ \A q \in Queue \ {l} : Contents(popped, q) = Contents(ls, q)
      /\ SoundLists(popped) /\ Fresh(popped) # {}
  BY PopContents
<1> HIDE DEF popped
<1>2. /\ Added(Contents(popped, m), Contents(after, m), v)
      /\ \A q \in Queue \ {m} : Contents(after, q) = Contents(popped, q)
  BY <1>1, AppendContents
<1> HIDE DEF after
<1> QED BY <1>1, <1>2 DEF popped, after

\* What the actions do to the queues.
LEMMA TypeContents ==
  ASSUME WireInv, NEW msg_length \in MsgLengths, Type(msg_length)
  PROVE  /\ Added(Cmds, Cmds', Message(msg_length, Len(typed)))
         /\ Buffer' = Buffer /\ Out' = Out /\ In' = In
BY QueueNames, Distinct, AppendContents DEF WireInv, Type, new_node, Cmds, Buffer, Out, In

LEMMA CutContents ==
  ASSUME WireInv, CutFrame
  PROVE  /\ Added(Buffer, Buffer', Frame(cutting.message, cutting.i, LFS'))
         /\ Cmds' = Cmds /\ Out' = Out /\ In' = In
BY QueueNames, Distinct, AppendContents DEF WireInv, CutFrame, new_node, Cmds, Buffer, Out, In

LEMMA ResendContents ==
  ASSUME WireInv, Resend
  PROVE  /\ Added(Out, Out', slot)
         /\ Cmds' = Cmds /\ Buffer' = Buffer /\ In' = In
BY QueueNames, Distinct, AppendContents DEF WireInv, Resend, new_node, Cmds, Buffer, Out, In

LEMMA PopCmdContents ==
  ASSUME WireInv, PopCmd
  PROVE  /\ Removed(Cmds, Cmds') /\ ll_peek_node(lists, input_cmdlist) = Cmds[1]
         /\ Buffer' = Buffer /\ Out' = Out /\ In' = In
BY QueueNames, Distinct, PopContents DEF WireInv, PopCmd, Cmds, Buffer, Out, In

LEMMA ReceiveContents ==
  ASSUME WireInv, Receive
  PROVE  /\ Removed(In, In') /\ ll_peek_node(lists, incoming_frames) = In[1]
         /\ Cmds' = Cmds /\ Buffer' = Buffer /\ Out' = Out
BY QueueNames, Distinct, PopContents DEF WireInv, Receive, Cmds, Buffer, Out, In

LEMMA FillContents ==
  ASSUME WireInv, FillSlot
  PROVE  /\ Removed(Buffer, Buffer') /\ slot' = WithCrc(Buffer[1])
         /\ Added(Out, Out', WithCrc(Buffer[1]))
         /\ Cmds' = Cmds /\ In' = In
BY QueueNames, Distinct, MoveContents DEF WireInv, FillSlot, InSlot, Cmds, Buffer, Out, In

LEMMA SendContents ==
  ASSUME WireInv, NEW index \in 0 .. MAX_FRAME_SIZE, SendFrame(index)
  PROVE  /\ Removed(Out, Out') /\ Added(In, In', Inverted(Out[1], index))
         /\ Cmds' = Cmds /\ Buffer' = Buffer
BY QueueNames, Distinct, MoveContents DEF WireInv, SendFrame, Cmds, Buffer, Out, In

-----------------------------------------------------------------------------
(***************************************************************************)
(* Every frame has a place in what was typed: the frame i of the message   *)
(* k.  The places of the frames that were cut follow one another, and seq  *)
(* holds them, and at its end the place of the frame to be cut next.       *)
(***************************************************************************)
Texts == {m \in Messages : m[Len(m)] = NUL /\ \A b \in 1 .. Len(m) - 1 : m[b] # NUL}

Place == [k : Nat \ {0}, i : Nat]

After(t, p) ==
  IF p.i + 1 = num_frames(Len(t[p.k])) THEN [k |-> p.k + 1, i |-> 0]
  ELSE [k |-> p.k, i |-> p.i + 1]

Within(t, p) == p.k <= Len(t) /\ p.i < num_frames(Len(t[p.k]))

Places(t, st) ==
  /\ st \in Seq(Place) /\ Len(st) >= 1 /\ st[1] = [k |-> 1, i |-> 0]
  /\ \A j \in 1 .. Len(st) - 1 : Within(t, st[j]) /\ st[j + 1] = After(t, st[j])

\* The j-th frame cut, without and with its CRC.
Cut(t, st, j)    == Frame(t[st[j].k], st[j].i, uint8(j - 1))
Sealed(t, st, j) == WithCrc(Cut(t, st, j))

\* The frames under way: the last the receiver has taken, and the one in
\* the slot of the sender.
InTransit(t, st, got, sent) == {Sealed(t, st, j) : j \in {got, sent} \ {0}}

\* All the messages typed but the first n wait.
Waiting(cmds, t, n) ==
  Len(cmds) = Len(t) - n /\ \A c \in 1 .. Len(cmds) : cmds[c] = t[n + c]

\* The commands that wait, and the one that is cut at the place p.
NextCut(p) ==
  \/ cutting = NULL /\ p.i = 0 /\ Waiting(Cmds, typed, p.k - 1)
  \/ /\ cutting = [message |-> typed[p.k], i |-> p.i]
     /\ Within(typed, p) /\ Waiting(Cmds, typed, p.k)

\* Nothing but frames under way and corrupted ones is in the two queues of
\* the line, and nothing is behind the new frame but copies of it.
Line(out, in, frames, new) ==
  /\ \A c \in 1 .. Len(out) : out[c] \in frames
  /\ \A c \in 1 .. Len(in) : Corrupted(in[c]) \/ in[c] \in frames
  /\ \A c, d \in 1 .. Len(in) :
       c < d /\ in[c] = new => Corrupted(in[d]) \/ in[d] = new
  /\ \A c \in 1 .. Len(in), d \in 1 .. Len(out) : in[c] = new => out[d] = new
  /\ \A c, d \in 1 .. Len(out) : c < d /\ out[c] = new => out[d] = new

\* The frames that are cut: numbers got + 1 .. of them are still to be taken,
\* sent + 1 .. to be sent.
Sending(t, st, got, sent, buf, out, in, sl) ==
  /\ \A c \in 1 .. Len(buf) : buf[c] = Cut(t, st, sent + c)
  /\ \/ sl = NULL /\ got = sent
     \/ sent >= 1 /\ sl = Sealed(t, st, sent)
  /\ Line(out, in, InTransit(t, st, got, sent), Sealed(t, st, sent))

FirstBytes(m, n) == [b \in 1 .. n |-> m[b]]

\* What the receiver has of the messages when p is the place of the frame
\* that is due.
Assembled(p) ==
  /\ p.k = Len(printed) + 1
  /\ \A k \in 1 .. Len(printed) : Append(printed[k], NUL) = typed[k]
  /\ p.i > 0 => emptyCharArray = FirstBytes(typed[p.k], p.i * FRAME_PAYLOAD_SIZE)

Follows(st, got, sent) ==
  /\ Places(typed, st)
  /\ got \in Nat /\ sent \in 0 .. Len(st) - 1 /\ got \in sent - 1 .. sent
  /\ NextCut(st[Len(st)])
  /\ LFS = uint8(Len(st) - 2) /\ Len(Buffer) = Len(st) - 1 - sent
  /\ Sending(typed, st, got, sent, Buffer, Out, In, slot)
  /\ NFE = uint8(got) /\ Assembled(st[got + 1])

MessageInv ==
  /\ typed \in Seq(Texts) /\ printed \in Seq(Seq(Byte))
  /\ \E st \in Seq(Place), got, sent \in Nat : Follows(st, got, sent)

LEMMA TextIsMessage ==
  ASSUME NEW t \in Seq(Texts), NEW k \in 1 .. Len(t)
  PROVE  /\ t[k] \in Messages /\ t[k] \in Texts
         /\ Len(t[k]) \in 1 .. USHORT_MAX /\ num_frames(Len(t[k])) \in Nat \ {0}
<1>1. t[k] \in Texts
  OBVIOUS
<1>2. t[k] \in Messages
  BY <1>1 DEF Texts
<1> QED BY <1>1, <1>2, MessageLength

LEMMA CutType ==
  ASSUME NEW t \in Seq(Texts), NEW st, Places(t, st), NEW j \in 1 .. Len(st) - 1
  PROVE  /\ Cut(t, st, j) \in Unsealed /\ Sealed(t, st, j) \in Whole
         /\ Sealed(t, st, j).seq_num = uint8(j - 1)
<1>1. st \in Seq(Place) /\ Within(t, st[j]) /\ j \in Nat
  BY DEF Places
<1>2. st[j] \in Place
  BY <1>1
<1>3. st[j].k \in 1 .. Len(t) /\ st[j].i \in Nat
  BY <1>1, <1>2 DEF Place, Within
<1>4. t[st[j].k] \in Messages
  BY <1>3, TextIsMessage
<1> DEFINE c == [message |-> t[st[j].k], i |-> st[j].i]
<1>5. Command(c)
  BY <1>1, <1>3, <1>4 DEF Command, Within
<1>6. uint8(j - 1) \in SeqNums
  BY <1>1, Uint8Type
<1>7. Frame(c.message, c.i, uint8(j - 1)) \in Unsealed
  <2> HIDE DEF c
  <2> QED BY <1>5, <1>6, FrameType
<1>8. Cut(t, st, j) \in Unsealed
  BY <1>7 DEF Cut
<1>9. Cut(t, st, j).seq_num = uint8(j - 1)
  BY DEF Cut, Frame
<1>10. ASSUME NEW f \in Unsealed
       PROVE  WithCrc(f) \in Whole /\ WithCrc(f).seq_num = f.seq_num
  <2>1. WithCrc(f) \in Whole
    BY SealedFrameIsWhole DEF Unsealed, Whole
  <2>2. WithCrc(f).seq_num = f.seq_num
    BY DEF WithCrc, Unsealed, Frames
  <2> QED BY <2>1, <2>2
<1> QED BY <1>8, <1>9, <1>10 DEF Sealed

\* Distances of at most one.
LEMMA NeighbourNumbers ==
  ASSUME NEW n \in Int
  PROVE  /\ seq_num_diff(uint8(n), uint8(n)) = 0
         /\ seq_num_diff(uint8(n), uint8(n - 1)) = -1
         /\ uint8(n) # uint8(n - 1)
         /\ uint8(uint8(n) + 1) = uint8(n + 1) /\ uint8(uint8(n) - 1) = uint8(n - 1)
<1>1. HALF_SEQ_NUM = 127
  BY WireAssumption DEF HALF_SEQ_NUM
<1>2. seq_num_diff(uint8(n), uint8(n + 0)) = 0
  BY <1>1, DistanceRecovered
<1>3. seq_num_diff(uint8(n), uint8(n + (-1))) = -1
  BY <1>1, DistanceRecovered
<1>4. n + 0 = n /\ n + (-1) = n - 1
  OBVIOUS
<1>5. uint8(uint8(n) + 1) = uint8(n + 1) /\ uint8(uint8(n) - 1) = uint8(n - 1)
  BY WireAssumption DEF uint8
<1> QED BY <1>2, <1>3, <1>4, <1>5

(***************************************************************************)
(* The line.                                                               *)
(***************************************************************************)
LEMMA LineResent ==
  ASSUME NEW out, NEW out2, NEW in, NEW frames, NEW new \in frames,
         Len(out) \in Nat, Line(out, in, frames, new), Added(out, out2, new)
  PROVE  Line(out2, in, frames, new)
<1>1. /\ Len(out2) = Len(out) + 1
      /\ \A c \in 1 .. Len(out2) : c \in 1 .. Len(out) \/ c = Len(out) + 1
      /\ out2[Len(out) + 1] = new /\ \A c \in 1 .. Len(out) : out2[c] = out[c]
  BY DEF Added
<1>2. \A c \in 1 .. Len(out2) : out2[c] \in frames
  BY <1>1 DEF Line
<1>3. \A c \in 1 .. Len(in), d \in 1 .. Len(out2) : in[c] = new => out2[d] = new
  BY <1>1 DEF Line
<1>4. ASSUME NEW c \in 1 .. Len(out2), NEW d \in 1 .. Len(out2), c < d, out2[c] = new
      PROVE  out2[d] = new
  <2>1. CASE d = Len(out) + 1
    BY <1>1, <2>1
  <2>2. CASE d # Len(out) + 1
    <3>1. c \in 1 .. Len(out) /\ d \in 1 .. Len(out)
      BY <1>1, <1>4, <2>2
    <3> QED BY <1>1, <1>4, <3>1 DEF Line
  <2> QED BY <2>1, <2>2
<1> QED BY <1>2, <1>3, <1>4 DEF Line

\* A frame that is sent for the first time.
LEMMA LineFilled ==
  ASSUME NEW out, NEW out2, NEW in, NEW frames, NEW old, NEW new,
         new \notin frames, ~Corrupted(new),
         Len(out) \in Nat, Line(out, in, frames, old), Added(out, out2, new)
  PROVE  Line(out2, in, frames \cup {new}, new)
<1>1. /\ Len(out2) = Len(out) + 1
      /\ \A c \in 1 .. Len(out2) : c \in 1 .. Len(out) \/ c = Len(out) + 1
      /\ out2[Len(out) + 1] = new /\ \A c \in 1 .. Len(out) : out2[c] = out[c]
  BY DEF Added
<1>2. /\ \A c \in 1 .. Len(out) : out[c] # new
      /\ \A c \in 1 .. Len(in) : in[c] # new
  BY DEF Line
<1>3. \A c \in 1 .. Len(out2) : out2[c] \in frames \cup {new}
  BY <1>1 DEF Line
<1>4. \A c, d \in 1 .. Len(out2) : c < d /\ out2[c] = new => out2[d] = new
  BY <1>1, <1>2
<1>5. \A c \in 1 .. Len(in) : Corrupted(in[c]) \/ in[c] \in frames \cup {new}
  BY DEF Line
<1> QED BY <1>2, <1>3, <1>4, <1>5 DEF Line

\* The switch takes a frame on, as it is or corrupted.
LEMMA LineSent ==
  ASSUME NEW out, NEW out2, NEW in, NEW in2, NEW frames, NEW new, NEW f,
         ~Corrupted(new), f = out[1] \/ Corrupted(f),
         Len(out) \in Nat, Len(in) \in Nat,
         Line(out, in, frames, new), Removed(out, out2), Added(in, in2, f)
  PROVE  Line(out2, in2, frames, new)
<1>1. /\ Len(in2) = Len(in) + 1
      /\ \A c \in 1 .. Len(in2) : c \in 1 .. Len(in) \/ c = Len(in) + 1
      /\ in2[Len(in) + 1] = f /\ \A c \in 1 .. Len(in) : in2[c] = in[c]
  BY DEF Added
<1>2. /\ 1 \in 1 .. Len(out)
      /\ \A c \in 1 .. Len(out2) : c + 1 \in 2 .. Len(out) /\ out2[c] = out[c + 1]
  BY DEF Removed
<1>3. f = new => \A d \in 1 .. Len(out2) : out2[d] = new
  <2>1. f = new => out[1] = new
    OBVIOUS
  <2>2. out[1] = new => \A d \in 2 .. Len(out) : out[d] = new
    BY <1>2 DEF Line
  <2> QED BY <1>2, <2>1, <2>2
<1>4. \A c \in 1 .. Len(out2) : out2[c] \in frames
  BY <1>2 DEF Line
<1>5. \A c \in 1 .. Len(in2) : Corrupted(in2[c]) \/ in2[c] \in frames
  BY <1>1, <1>2 DEF Line
<1>6. ASSUME NEW c \in 1 .. Len(in2), NEW d \in 1 .. Len(in2), c < d, in2[c] = new
      PROVE  Corrupted(in2[d]) \/ in2[d] = new
  <2>1. c \in 1 .. Len(in) /\ in[c] = new
    BY <1>1, <1>6
  <2>2. CASE d = Len(in) + 1
    BY <1>1, <1>2, <2>1, <2>2 DEF Line
  <2>3. CASE d # Len(in) + 1
    BY <1>1, <1>6, <2>1, <2>3 DEF Line
  <2> QED BY <2>2, <2>3
<1>7. ASSUME NEW c \in 1 .. Len(in2), NEW d \in 1 .. Len(out2), in2[c] = new
      PROVE  out2[d] = new
  <2>1. CASE c = Len(in) + 1
    BY <1>1, <1>3, <1>7, <2>1
  <2>2. CASE c # Len(in) + 1
    <3>1. c \in 1 .. Len(in) /\ in[c] = new
      BY <1>1, <1>7, <2>2
    <3>2. d + 1 \in 1 .. Len(out) /\ out2[d] = out[d + 1]
      BY <1>2
    <3> QED BY <3>1, <3>2 DEF Line
  <2> QED BY <2>1, <2>2
<1>8. ASSUME NEW c \in 1 .. Len(out2), NEW d \in 1 .. Len(out2), c < d, out2[c] = new
      PROVE  out2[d] = new
  <2>1. /\ c + 1 \in 1 .. Len(out) /\ d + 1 \in 1 .. Len(out) /\ c + 1 < d + 1
        /\ out2[c] = out[c + 1] /\ out2[d] = out[d + 1]
    BY <1>2, <1>8
  <2> QED BY <1>8, <2>1 DEF Line
<1> QED BY <1>4, <1>5, <1>6, <1>7, <1>8 DEF Line

\* With no frame under way there is nothing in the two queues but corrupted
\* frames.
LEMMA LineEmpty ==
  ASSUME NEW out, NEW in, NEW frames, NEW new, NEW new2, frames = {},
         Len(out) \in Nat, Line(out, in, frames, new)
  PROVE  Line(out, in, frames, new2)
BY DEF Line

\* The receiver takes a frame off.
LEMMA LineReceived ==
  ASSUME NEW out, NEW in, NEW in2, NEW frames, NEW new,
         Len(in) \in Nat, Line(out, in, frames, new), Removed(in, in2)
  PROVE  Line(out, in2, frames, new)
<1>1. \A c \in 1 .. Len(in2) : c + 1 \in 2 .. Len(in) /\ in2[c] = in[c + 1]
  BY DEF Removed
<1>2. /\ \A c \in 1 .. Len(out) : out[c] \in frames
      /\ \A c, d \in 1 .. Len(out) : c < d /\ out[c] = new => out[d] = new
  BY DEF Line
<1>3. ASSUME NEW c \in 1 .. Len(in2)
      PROVE  /\ Corrupted(in2[c]) \/ in2[c] \in frames
             /\ in2[c] = new => \A d \in 1 .. Len(out) : out[d] = new
  <2>1. c + 1 \in 1 .. Len(in) /\ in2[c] = in[c + 1]
    BY <1>1
  <2> QED BY <2>1 DEF Line
<1>4. ASSUME NEW c \in 1 .. Len(in2), NEW d \in 1 .. Len(in2), c < d, in2[c] = new
      PROVE  Corrupted(in2[d]) \/ in2[d] = new
  <2>1. /\ c + 1 \in 1 .. Len(in) /\ d + 1 \in 1 .. Len(in) /\ c + 1 < d + 1
        /\ in2[c] = in[c + 1] /\ in2[d] = in[d + 1]
    BY <1>1, <1>4
  <2> QED BY <1>4, <2>1 DEF Line
<1> QED BY <1>2, <1>3, <1>4 DEF Line

\* Once the new frame has been taken, no other is left.
LEMMA LineTaken ==
  ASSUME NEW out, NEW in, NEW in2, NEW frames, NEW new, in[1] = new,
         Len(in) \in Nat, Line(out, in, frames, new), Removed(in, in2)
  PROVE  Line(out, in2, {new}, new)
<1>1. /\ 1 \in 1 .. Len(in)
      /\ \A c \in 1 .. Len(in2) : c + 1 \in 2 .. Len(in) /\ in2[c] = in[c + 1]
  BY DEF Removed
<1>2. \A c \in 1 .. Len(in2) : Corrupted(in2[c]) \/ in2[c] = new
  <2> SUFFICES ASSUME NEW c \in 1 .. Len(in2) PROVE Corrupted(in2[c]) \/ in2[c] = new
    OBVIOUS
  <2>1. c + 1 \in 1 .. Len(in) /\ 1 < c + 1 /\ in2[c] = in[c + 1]
    BY <1>1
  <2> QED BY <1>1, <2>1 DEF Line
<1>3. \A d \in 1 .. Len(out) : out[d] = new
  BY <1>1 DEF Line
<1> QED BY <1>2, <1>3 DEF Line

-----------------------------------------------------------------------------
(***************************************************************************)
(* The steps: each keeps the frames in their places.                       *)
(***************************************************************************)

LEMMA TextType ==
  ASSUME NEW msg_length \in MsgLengths, NEW k \in Nat
  PROVE  Message(msg_length, k) \in Texts
<1> DEFINE m == Message(msg_length, k)
<1>1. m \in Messages
  BY MessageType
<1>2. msg_length \in Nat /\ Len(m) = msg_length /\ msg_length >= 1
  BY WireAssumption DEF Message
<1>3. m[Len(m)] = NUL
  BY <1>2 DEF Message
<1>4. \A b \in 1 .. Len(m) - 1 : m[b] # NUL
  BY <1>2 DEF Message, NUL
<1> QED BY <1>1, <1>3, <1>4 DEF Texts

\* What is to be sent only depends on the frames cut.
LEMMA SendingKept ==
  ASSUME NEW t, NEW t2, NEW st, NEW st2, NEW n \in Nat,
         NEW got \in Nat, NEW sent \in 0 .. n, got <= sent,
         NEW buf, NEW out, NEW in, NEW sl, Len(out) \in Nat, Len(buf) = n - sent,
         \A j \in 1 .. n : Cut(t2, st2, j) = Cut(t, st, j),
         Sending(t, st, got, sent, buf, out, in, sl)
  PROVE  Sending(t2, st2, got, sent, buf, out, in, sl)
<1>1. \A j \in 1 .. n :
        Cut(t2, st2, j) = Cut(t, st, j) /\ Sealed(t2, st2, j) = Sealed(t, st, j)
  BY DEF Sealed
<1>2. InTransit(t2, st2, got, sent) = InTransit(t, st, got, sent)
  <2>1. \A j \in {got, sent} \ {0} : j \in 1 .. n
    OBVIOUS
  <2> QED BY <1>1, <2>1 DEF InTransit
<1>3. \A c \in 1 .. Len(buf) : buf[c] = Cut(t2, st2, sent + c)
  BY <1>1 DEF Sending
<1>4. \/ sl = NULL /\ got = sent
      \/ sent >= 1 /\ sl = Sealed(t2, st2, sent)
  BY <1>1 DEF Sending
<1>5. Line(out, in, InTransit(t2, st2, got, sent), Sealed(t2, st2, sent))
  <2>1. CASE sent = 0
    <3>1. InTransit(t, st, got, sent) = {}
      BY <2>1 DEF InTransit
    <3> QED BY <1>2, <3>1, LineEmpty DEF Sending
  <2>2. CASE sent # 0
    BY <1>1, <1>2, <2>2 DEF Sending
  <2> QED BY <2>1, <2>2
<1> QED BY <1>3, <1>4, <1>5 DEF Sending

LEMMA PlacesType ==
  ASSUME NEW t, NEW st, Places(t, st)
  PROVE  /\ st \in Seq(Place) /\ Len(st) \in Nat /\ Len(st) >= 1
         /\ \A j \in 1 .. Len(st) :
              st[j] \in Place /\ st[j].k \in Nat \ {0} /\ st[j].i \in Nat
<1>1. st \in Seq(Place) /\ Len(st) >= 1
  BY DEF Places
<1>2. \A j \in 1 .. Len(st) : st[j] \in Place
  BY <1>1
<1> QED BY <1>1, <1>2 DEF Place

LEMMA PlaceCut ==
  ASSUME NEW t, Len(t) \in Nat, NEW st, Places(t, st), NEW j \in 1 .. Len(st) - 1
  PROVE  /\ st[j].k \in 1 .. Len(t) /\ st[j].i \in Nat
         /\ st[j].i < num_frames(Len(t[st[j].k])) /\ st[j + 1] = After(t, st[j])
<1>1. st[j].k \in Nat \ {0} /\ st[j].i \in Nat
  BY PlacesType
<1>2. Within(t, st[j]) /\ st[j + 1] = After(t, st[j])
  BY DEF Places
<1> QED BY <1>1, <1>2 DEF Within

\* The places do not change when the messages typed grow.
LEMMA PlacesGrow ==
  ASSUME NEW t, Len(t) \in Nat, NEW st, Places(t, st), NEW t2, Len(t2) = Len(t) + 1,
         \A k \in 1 .. Len(t) : t2[k] = t[k]
  PROVE  /\ Places(t2, st)
         /\ \A j \in 1 .. Len(st) - 1 : t2[st[j].k] = t[st[j].k]
<1>1. ASSUME NEW j \in 1 .. Len(st) - 1
      PROVE  /\ t2[st[j].k] = t[st[j].k] /\ Within(t2, st[j])
             /\ st[j + 1] = After(t2, st[j])
  <2>1. /\ st[j].k \in 1 .. Len(t)
        /\ st[j].i < num_frames(Len(t[st[j].k])) /\ st[j + 1] = After(t, st[j])
    BY PlaceCut
  <2>2. t2[st[j].k] = t[st[j].k]
    BY <2>1
  <2> QED BY <2>1, <2>2 DEF Within, After
<1> QED BY <1>1 DEF Places

LEMMA WaitingAdded ==
  ASSUME NEW cmds, NEW cmds2, NEW t, NEW t2, NEW v, NEW n \in Nat,
         Len(cmds) \in Nat, Len(t) \in Nat,
         Added(cmds, cmds2, v), Added(t, t2, v), Waiting(cmds, t, n)
  PROVE  Waiting(cmds2, t2, n)
<1>1. Len(cmds2) = Len(cmds) + 1 /\ Len(t2) = Len(t) + 1 /\ Len(cmds) = Len(t) - n
  BY DEF Added, Waiting
<1>2. ASSUME NEW c \in 1 .. Len(cmds2) PROVE cmds2[c] = t2[n + c]
  <2>1. CASE c = Len(cmds) + 1
    <3>1. n + c = Len(t) + 1
      BY <1>1, <2>1
    <3> QED BY <2>1, <3>1 DEF Added
  <2>2. CASE c # Len(cmds) + 1
    <3>1. c \in 1 .. Len(cmds) /\ n + c \in 1 .. Len(t)
      BY <1>1, <2>2
    <3>2. cmds[c] = t[n + c]
      BY <3>1 DEF Waiting
    <3> QED BY <3>1, <3>2 DEF Added
  <2> QED BY <2>1, <2>2
<1>3. Len(cmds2) = Len(t2) - n
  BY <1>1
<1> QED BY <1>2, <1>3 DEF Waiting

LEMMA WaitingRemoved ==
  ASSUME NEW cmds, NEW cmds2, NEW t, NEW n \in Nat, Len(cmds) \in Nat, Len(t) \in Nat,
         Removed(cmds, cmds2), Waiting(cmds, t, n)
  PROVE  Waiting(cmds2, t, n + 1) /\ cmds[1] = t[n + 1] /\ n + 1 \in 1 .. Len(t)
<1>1. Len(cmds2) = Len(cmds) - 1 /\ Len(cmds) = Len(t) - n /\ Len(cmds) >= 1
  BY DEF Removed, Waiting
<1>2. ASSUME NEW c \in 1 .. Len(cmds2) PROVE cmds2[c] = t[(n + 1) + c]
  <2>1. /\ c \in 1 .. Len(cmds) - 1 /\ c + 1 \in 1 .. Len(cmds)
        /\ n + (c + 1) = (n + 1) + c
    BY <1>1
  <2>2. cmds2[c] = cmds[c + 1]
    BY <2>1 DEF Removed
  <2>3. cmds[c + 1] = t[n + (c + 1)]
    BY <2>1 DEF Waiting
  <2> QED BY <2>1, <2>2, <2>3
<1>3. Len(cmds2) = Len(t) - (n + 1) /\ 1 \in 1 .. Len(cmds) /\ n + 1 \in 1 .. Len(t)
  BY <1>1
<1> QED BY <1>2, <1>3 DEF Waiting

LEMMA FollowsFacts ==
  ASSUME WireInv, typed \in Seq(Texts), NEW st, NEW got \in Nat, NEW sent \in Nat,
         Follows(st, got, sent)
  PROVE  LET last == st[Len(st)]
             due  == st[got + 1]
         IN  /\ Places(typed, st) /\ NextCut(last) /\ Assembled(due)
             /\ sent \in 0 .. Len(st) - 1 /\ got \in sent - 1 .. sent
             /\ LFS = uint8(Len(st) - 2) /\ Len(Buffer) = Len(st) - 1 - sent
             /\ Sending(typed, st, got, sent, Buffer, Out, In, slot)
             /\ NFE = uint8(got)
             /\ Len(typed) \in Nat /\ Len(st) \in Nat /\ Len(st) >= 1
             /\ last \in Place /\ last.k \in Nat \ {0} /\ last.i \in Nat
             /\ got + 1 \in 1 .. Len(st)
             /\ due \in Place /\ due.k \in Nat \ {0} /\ due.i \in Nat
             /\ due.k <= Len(typed) + 1 /\ (due.i > 0 => due.k <= Len(typed))
<1> DEFINE last == st[Len(st)]
           due  == st[got + 1]
<1>1. /\ Places(typed, st) /\ NextCut(last) /\ Assembled(due)
      /\ sent \in 0 .. Len(st) - 1 /\ got \in sent - 1 .. sent
      /\ LFS = uint8(Len(st) - 2) /\ Len(Buffer) = Len(st) - 1 - sent
      /\ Sending(typed, st, got, sent, Buffer, Out, In, slot)
      /\ NFE = uint8(got)
  BY DEF Follows
<1>2. Len(st) \in Nat /\ Len(st) >= 1 /\ Len(typed) \in Nat
  BY <1>1, PlacesType
<1>3. Len(st) \in 1 .. Len(st) /\ got + 1 \in 1 .. Len(st)
  BY <1>1, <1>2
<1>4. /\ last \in Place /\ last.k \in Nat \ {0} /\ last.i \in Nat
      /\ due \in Place /\ due.k \in Nat \ {0} /\ due.i \in Nat
  BY <1>1, <1>3, PlacesType
<1>5. last.k <= Len(typed) + 1 /\ (last.i > 0 => last.k <= Len(typed))
  <2> HIDE DEF last
  <2>1. Len(Cmds) \in Nat
    BY QueueContents
  <2>2. CASE last.i = 0 /\ Waiting(Cmds, typed, last.k - 1)
    <3>1. Len(Cmds) = Len(typed) - (last.k - 1)
      BY <2>2 DEF Waiting
    <3> QED BY <1>2, <1>4, <2>1, <2>2, <3>1
  <2>3. CASE Within(typed, last)
    BY <1>2, <1>4, <2>3 DEF Within
  <2> QED BY <1>1, <2>2, <2>3 DEF NextCut
<1>6. due.k <= Len(typed) + 1 /\ (due.i > 0 => due.k <= Len(typed))
  <2>1. CASE got + 1 = Len(st)
    BY <1>5, <2>1
  <2>2. CASE got + 1 # Len(st)
    <3>1. got + 1 \in 1 .. Len(st) - 1
      BY <1>2, <1>3, <2>2
    <3>2. due.k \in 1 .. Len(typed)
      BY <1>1, <1>2, <3>1, PlaceCut
    <3> QED BY <1>2, <3>2
  <2> QED BY <2>1, <2>2
<1> HIDE DEF last, due
<1> QED BY <1>1, <1>2, <1>3, <1>4, <1>6 DEF last, due

LEMMA TypeFollows ==
  ASSUME WireInv, typed \in Seq(Texts), NEW st, NEW got \in Nat, NEW sent \in Nat,
         Follows(st, got, sent), NEW msg_length \in MsgLengths, Type(msg_length)
  PROVE  typed' \in Seq(Texts) /\ Follows(st, got, sent)'
<1> DEFINE m    == Message(msg_length, Len(typed))
           last == st[Len(st)]
           due  == st[got + 1]
<1>1. /\ Added(Cmds, Cmds', m) /\ Buffer' = Buffer /\ Out' = Out /\ In' = In
      /\ typed' = Append(typed, m)
      /\ UNCHANGED <<cutting, LFS, slot, NFE, emptyCharArray, printed>>
  BY TypeContents DEF Type
<1>2. m \in Texts
  BY TextType
<1> HIDE DEF m
<1>3. /\ Places(typed, st) /\ NextCut(last) /\ Assembled(due)
      /\ sent \in 0 .. Len(st) - 1 /\ got \in sent - 1 .. sent
      /\ LFS = uint8(Len(st) - 2) /\ Len(Buffer) = Len(st) - 1 - sent
      /\ Sending(typed, st, got, sent, Buffer, Out, In, slot)
      /\ NFE = uint8(got)
  BY DEF Follows
<1>4. /\ Len(typed) \in Nat /\ Len(st) \in Nat /\ Len(st) >= 1
      /\ last.k \in Nat \ {0} /\ last.i \in Nat
      /\ got + 1 \in 1 .. Len(st) /\ due.k \in Nat \ {0} /\ due.i \in Nat
      /\ due.k <= Len(typed) + 1 /\ (due.i > 0 => due.k <= Len(typed))
  BY FollowsFacts
<1>5. /\ typed' \in Seq(Texts) /\ Len(typed') = Len(typed) + 1
      /\ typed'[Len(typed) + 1] = m
      /\ \A k \in 1 .. Len(typed) : typed'[k] = typed[k]
  BY <1>1, <1>2
<1>6. Places(typed', st) /\ \A j \in 1 .. Len(st) - 1 : typed'[st[j].k] = typed[st[j].k]
  BY SMTT(30), <1>3, <1>4, <1>5, PlacesGrow
<1>7. NextCut(last)'
  <2>1. Len(Cmds) \in Nat /\ Added(typed, typed', m)
    BY <1>4, <1>5, QueueContents DEF Added
  <2>2. last.k \in Nat /\ last.k - 1 \in Nat
    BY <1>4
  <2> HIDE DEF last
  <2>3. CASE cutting = NULL /\ last.i = 0 /\ Waiting(Cmds, typed, last.k - 1)
    <3>1. Waiting(Cmds', typed', last.k - 1)
      BY <1>1, <1>4, <2>1, <2>2, <2>3, WaitingAdded
    <3> QED BY <1>1, <2>3, <3>1 DEF NextCut
  <2>4. CASE /\ cutting = [message |-> typed[last.k], i |-> last.i]
             /\ Within(typed, last) /\ Waiting(Cmds, typed, last.k)
    <3>1. Waiting(Cmds', typed', last.k)
      BY <1>1, <1>4, <2>1, <2>2, <2>4, WaitingAdded
    <3>2. last.k \in 1 .. Len(typed)
      BY <1>4, <2>4 DEF Within
    <3>3. typed'[last.k] = typed[last.k] /\ Within(typed', last)
      BY <1>4, <1>5, <2>4, <3>2 DEF Within
    <3> QED BY <1>1, <2>4, <3>1, <3>3 DEF NextCut
  <2> QED BY <1>3, <2>3, <2>4 DEF NextCut
<1>8. Sending(typed', st, got, sent, Buffer', Out', In', slot')
  <2> DEFINE n == Len(st) - 1
  <2>1. n \in Nat /\ sent \in 0 .. n /\ got <= sent /\ Len(Buffer) = n - sent
    BY <1>3, <1>4
  <2>2. Len(Out) \in Nat
    BY QueueContents
  <2>3. \A j \in 1 .. n : Cut(typed', st, j) = Cut(typed, st, j)
    BY <1>6 DEF Cut
  <2> HIDE DEF n
  <2>4. Sending(typed', st, got, sent, Buffer, Out, In, slot)
    BY <1>3, <2>1, <2>2, <2>3, SendingKept
  <2> QED BY <1>1, <2>4
<1>9. Assembled(due)'
  <2>1. printed' = printed /\ emptyCharArray' = emptyCharArray
    BY <1>1
  <2>2. /\ due.k = Len(printed) + 1
        /\ \A k \in 1 .. Len(printed) : Append(printed[k], NUL) = typed[k]
        /\ due.i > 0 =>
             emptyCharArray = FirstBytes(typed[due.k], due.i * FRAME_PAYLOAD_SIZE)
    BY <1>3 DEF Assembled
  <2>4. \A k \in 1 .. Len(printed) : k \in 1 .. Len(typed)
    BY <1>4, <2>2
  <2>5. due.i > 0 => typed'[due.k] = typed[due.k]
    BY <1>4, <1>5
  <2>6. \A k \in 1 .. Len(printed) : Append(printed[k], NUL) = typed'[k]
    BY <1>5, <2>2, <2>4
  <2> HIDE DEF due
  <2> QED BY <2>1, <2>2, <2>5, <2>6 DEF Assembled
<1> QED BY <1>1, <1>3, <1>5, <1>6, <1>7, <1>8, <1>9 DEF Follows

LEMMA MessageIsSequence ==
  ASSUME NEW m \in Messages PROVE m \in Seq(Byte)
<1>1. PICK n \in MsgLengths : m \in [1 .. n -> Byte]
  BY DEF Messages
<1>2. n \in Nat
  BY WireAssumption
<1> QED BY <1>1, <1>2

\* A command that is being cut is told from none.
LEMMA CutIsNotNull ==
  ASSUME typed \in Seq(Texts), NEW p \in Place, Within(typed, p)
  PROVE  [message |-> typed[p.k], i |-> p.i] # NULL
<1>1. p.k \in 1 .. Len(typed) /\ p.i \in Nat
  BY DEF Place, Within
<1>2. typed[p.k] \in Seq(Byte)
  BY <1>1, TextIsMessage, MessageIsSequence
<1>3. [message |-> typed[p.k], i |-> p.i] \in Cuttings
  BY <1>1, <1>2 DEF Cuttings
<1> QED BY <1>3, WireAssumption

LEMMA PopCmdFollows ==
  ASSUME WireInv, typed \in Seq(Texts), NEW st, NEW got \in Nat, NEW sent \in Nat,
         Follows(st, got, sent), PopCmd
  PROVE  Follows(st, got, sent)'
<1> DEFINE last == st[Len(st)]
           due  == st[got + 1]
<1>1. /\ Removed(Cmds, Cmds') /\ Buffer' = Buffer /\ Out' = Out /\ In' = In
      /\ cutting = NULL /\ cutting' = [message |-> Cmds[1], i |-> 0]
      /\ UNCHANGED <<LFS, slot, NFE, emptyCharArray, typed, printed>>
  BY PopCmdContents DEF PopCmd
<1>2. /\ Places(typed, st) /\ NextCut(last) /\ Assembled(due)
      /\ last \in Place /\ last.k \in Nat \ {0} /\ Len(typed) \in Nat
  BY FollowsFacts
<1> HIDE DEF last, due
<1>3. last.i = 0 /\ Waiting(Cmds, typed, last.k - 1)
  BY <1>1, <1>2, CutIsNotNull DEF NextCut
<1>4. Waiting(Cmds', typed, last.k) /\ Cmds[1] = typed[last.k] /\ last.k \in 1 .. Len(typed)
  <2>1. last.k - 1 \in Nat /\ (last.k - 1) + 1 = last.k /\ Len(Cmds) \in Nat
    BY <1>2, QueueContents
  <2> QED BY <1>1, <1>2, <1>3, <2>1, WaitingRemoved
<1>5. Within(typed, last)
  <2>1. num_frames(Len(typed[last.k])) \in Nat \ {0}
    BY <1>4, TextIsMessage
  <2>2. last.k <= Len(typed) /\ 0 < num_frames(Len(typed[last.k]))
    BY <1>2, <1>4, <2>1
  <2> QED BY <1>3, <2>2 DEF Within
<1>6. NextCut(last)'
  BY <1>1, <1>3, <1>4, <1>5 DEF NextCut
<1>7. Assembled(due)'
  BY <1>1, <1>2 DEF Assembled
<1> QED BY <1>1, <1>6, <1>7 DEF Follows, last, due

LEMMA CutFollows ==
  ASSUME WireInv, typed \in Seq(Texts), NEW st, NEW got \in Nat, NEW sent \in Nat,
         Follows(st, got, sent), CutFrame
  PROVE  \E st2 \in Seq(Place) : Follows(st2, got, sent)'
<1> DEFINE last == st[Len(st)]
           due  == st[got + 1]
           n    == Len(st) - 1
<1>1. /\ Added(Buffer, Buffer', Frame(cutting.message, cutting.i, LFS'))
      /\ Cmds' = Cmds /\ Out' = Out /\ In' = In
      /\ cutting # NULL /\ LFS' = uint8(LFS + 1)
      /\ cutting' = IF cutting.i + 1 = num_frames(Len(cutting.message)) THEN NULL
                    ELSE [cutting EXCEPT !.i = @ + 1]
      /\ UNCHANGED <<slot, NFE, emptyCharArray, typed, printed>>
  BY CutContents DEF CutFrame
<1>2. /\ Places(typed, st) /\ NextCut(last) /\ Assembled(due)
      /\ sent \in 0 .. n /\ got \in sent - 1 .. sent
      /\ LFS = uint8(Len(st) - 2) /\ Len(Buffer) = n - sent
      /\ Sending(typed, st, got, sent, Buffer, Out, In, slot)
      /\ NFE = uint8(got)
      /\ Len(typed) \in Nat /\ Len(st) \in Nat /\ Len(st) >= 1 /\ n \in Nat
      /\ last \in Place /\ last.k \in Nat \ {0} /\ last.i \in Nat
      /\ got + 1 \in 1 .. Len(st)
  <2>1. /\ Places(typed, st) /\ NextCut(last) /\ Assembled(due)
        /\ sent \in 0 .. Len(st) - 1 /\ got \in sent - 1 .. sent
        /\ LFS = uint8(Len(st) - 2) /\ Len(Buffer) = Len(st) - 1 - sent
        /\ Sending(typed, st, got, sent, Buffer, Out, In, slot)
        /\ NFE = uint8(got)
    BY DEF Follows
  <2>2. /\ Len(typed) \in Nat /\ Len(st) \in Nat /\ Len(st) >= 1
        /\ last \in Place /\ last.k \in Nat \ {0} /\ last.i \in Nat
        /\ got + 1 \in 1 .. Len(st)
    BY FollowsFacts
  <2>3. n \in Nat
    BY <2>2
  <2> HIDE DEF last, due
  <2> QED BY <2>1, <2>2, <2>3
<1>3. /\ cutting = [message |-> typed[last.k], i |-> last.i]
      /\ Within(typed, last) /\ Waiting(Cmds, typed, last.k)
  <2> HIDE DEF last
  <2> QED BY <1>1, <1>2 DEF NextCut
<1>4. PICK next \in Place : next = After(typed, last)
  <2> HIDE DEF last
  <2>1. After(typed, last) \in Place
    BY <1>2 DEF After, Place
  <2> QED BY <2>1
<1>5. st \in Seq(Place)
  BY <1>2, PlacesType
<1>6. PICK st2 \in Seq(Place) :
        /\ Len(st2) = Len(st) + 1 /\ st2[Len(st) + 1] = next
        /\ \A j \in 1 .. Len(st) : st2[j] = st[j]
  <2>1. Append(st, next) \in Seq(Place)
    BY <1>5
  <2>2. /\ Len(Append(st, next)) = Len(st) + 1 /\ Append(st, next)[Len(st) + 1] = next
        /\ \A j \in 1 .. Len(st) : Append(st, next)[j] = st[j]
    BY <1>5
  <2> QED BY <2>1, <2>2
<1>7. Places(typed, st2)
  <2>1. ASSUME NEW j \in 1 .. Len(st2) - 1
        PROVE  Within(typed, st2[j]) /\ st2[j + 1] = After(typed, st2[j])
    <3>1. CASE j = Len(st)
      BY <1>2, <1>3, <1>4, <1>6, <3>1
    <3>2. CASE j # Len(st)
      <4>1. j \in 1 .. Len(st) - 1 /\ j \in 1 .. Len(st) /\ j + 1 \in 1 .. Len(st)
        BY <1>2, <1>6, <3>2
      <4>2. Within(typed, st[j]) /\ st[j + 1] = After(typed, st[j])
        BY <1>2, <4>1 DEF Places
      <4> QED BY <1>6, <4>1, <4>2
    <3> QED BY <3>1, <3>2
  <2>2. 1 \in 1 .. Len(st) /\ st[1] = [k |-> 1, i |-> 0]
    BY <1>2 DEF Places
  <2>3. st2[1] = [k |-> 1, i |-> 0] /\ Len(st2) >= 1
    BY <1>2, <1>6, <2>2
  <2> QED BY <1>6, <2>1, <2>3 DEF Places
<1>8. NextCut(next)'
  <2> DEFINE c == num_frames(Len(typed[last.k]))
  <2>1. c \in Nat /\ last.i < c
    <3>1. last.k \in 1 .. Len(typed)
      <4> HIDE DEF last
      <4> QED BY <1>2, <1>3 DEF Within
    <3>2. c \in Nat
      <4> HIDE DEF last
      <4> QED BY <3>1, TextIsMessage
    <3> QED BY <1>3, <3>2 DEF Within
  <2> HIDE DEF last
  <2>2. CASE last.i + 1 = c
    <3>1. next = [k |-> last.k + 1, i |-> 0]
      BY <1>4, <2>2 DEF After
    <3>2. cutting' = NULL
      BY <1>1, <1>3, <2>2
    <3>3. Waiting(Cmds', typed', next.k - 1) /\ next.i = 0
      <4>1. next.k - 1 = last.k
        BY <1>2, <3>1
      <4> QED BY <1>1, <1>3, <3>1, <4>1
    <3> QED BY <3>2, <3>3 DEF NextCut
  <2>3. CASE last.i + 1 # c
    <3>1. next = [k |-> last.k, i |-> last.i + 1]
      BY <1>4, <2>3 DEF After
    <3>2. cutting' = [message |-> typed[last.k], i |-> last.i + 1]
      BY <1>1, <1>3, <2>3
    <3>3. Within(typed, next)
      BY SMTT(30), <1>2, <1>3, <2>1, <2>3, <3>1 DEF Within
    <3> QED BY <1>1, <1>3, <3>1, <3>2, <3>3 DEF NextCut
  <2> QED BY <2>2, <2>3
<1>9. LFS' = uint8(Len(st2) - 2) /\ LFS' = uint8(Len(st) - 1)
  <2>1. Len(st) - 2 \in Int /\ (Len(st) - 2) + 1 = Len(st) - 1 /\ Len(st2) - 2 = Len(st) - 1
    BY <1>2, <1>6
  <2>2. uint8(uint8(Len(st) - 2) + 1) = uint8(Len(st) - 1)
    BY <2>1, NeighbourNumbers
  <2> QED BY <1>1, <1>2, <2>1, <2>2
<1>10. Sending(typed, st2, got, sent, Buffer', Out, In, slot)
  <2>1. \A j \in 1 .. n : Cut(typed, st2, j) = Cut(typed, st, j)
    BY SMTT(30), <1>2, <1>6 DEF Cut
  <2>2. Len(Out) \in Nat /\ got <= sent /\ Len(Buffer) \in Nat
    BY <1>2, QueueContents
  <2>3. Cut(typed, st2, n + 1) = Frame(cutting.message, cutting.i, LFS')
    <3>1. st2[n + 1] = last /\ n + 1 - 1 = Len(st) - 1
      BY <1>2, <1>6
    <3> HIDE DEF last
    <3>2. cutting.message = typed[last.k] /\ cutting.i = last.i
      BY <1>3
    <3> QED BY <1>9, <3>1, <3>2 DEF Cut
  <2> HIDE DEF n
  <2>4. Sending(typed, st2, got, sent, Buffer, Out, In, slot)
    BY <1>2, <2>1, <2>2, SendingKept
  <2>5. ASSUME NEW c \in 1 .. Len(Buffer') PROVE Buffer'[c] = Cut(typed, st2, sent + c)
    <3>1. CASE c = Len(Buffer) + 1
      <4>1. sent + c = n + 1
        BY SMTT(30), <1>2, <3>1
      <4> QED BY <1>1, <2>3, <3>1, <4>1 DEF Added
    <3>2. CASE c # Len(Buffer) + 1
      <4>1. c \in 1 .. Len(Buffer) /\ Buffer'[c] = Buffer[c]
        BY <1>1, <2>2, <3>2 DEF Added
      <4> QED BY <2>4, <4>1 DEF Sending
    <3> QED BY <3>1, <3>2
  <2> QED BY <2>4, <2>5 DEF Sending
<1>11. Assembled(st2[got + 1])'
  <2>1. st2[got + 1] = due
    BY <1>2, <1>6
  <2> HIDE DEF due
  <2>2. Assembled(due)'
    BY <1>1, <1>2 DEF Assembled
  <2> QED BY <2>1, <2>2
<1>12. sent \in 0 .. Len(st2) - 1 /\ Len(Buffer') = Len(st2) - 1 - sent
  <2>1. Len(Buffer') = Len(Buffer) + 1
    BY <1>1 DEF Added
  <2> QED BY <1>2, <1>6, <2>1
<1>13. Follows(st2, got, sent)'
  <2>1. NextCut(st2[Len(st2)])'
    BY <1>6, <1>8
  <2>2. NFE' = uint8(got) /\ got \in sent - 1 .. sent
    BY <1>1, <1>2
  <2>3. /\ typed' = typed /\ Out' = Out /\ In' = In /\ slot' = slot
        /\ LFS' = uint8(Len(st2) - 2)
    BY <1>1, <1>9
  <2> QED BY <1>7, <1>10, <1>11, <1>12, <2>1, <2>2, <2>3 DEF Follows
<1> QED BY <1>13

\* A step that changes only the line and the slot.
LEMMA OtherwiseFollows ==
  ASSUME WireInv, typed \in Seq(Texts), NEW st, NEW got \in Nat, NEW sent \in Nat,
         Follows(st, got, sent), Cmds' = Cmds, Len(Buffer') = Len(Buffer),
         UNCHANGED <<cutting, LFS, NFE, emptyCharArray, typed, printed>>,
         Sending(typed, st, got, sent, Buffer', Out', In', slot')
  PROVE  Follows(st, got, sent)'
<1>1. Assembled(st[got + 1])' /\ NextCut(st[Len(st)])'
  BY DEF Follows, Assembled, NextCut
<1> QED BY <1>1 DEF Follows

LEMMA ResendFollows ==
  ASSUME WireInv, typed \in Seq(Texts), NEW st, NEW got \in Nat, NEW sent \in Nat,
         Follows(st, got, sent), Resend
  PROVE  Follows(st, got, sent)'
<1> DEFINE new    == Sealed(typed, st, sent)
           frames == InTransit(typed, st, got, sent)
<1>1. /\ Added(Out, Out', slot) /\ Cmds' = Cmds /\ Buffer' = Buffer /\ In' = In
      /\ slot # NULL
      /\ UNCHANGED <<cutting, LFS, slot, NFE, emptyCharArray, typed, printed>>
  BY ResendContents DEF Resend
<1>2. Sending(typed, st, got, sent, Buffer, Out, In, slot)
  BY FollowsFacts
<1>3. sent >= 1 /\ slot = new /\ Line(Out, In, frames, new)
  BY <1>1, <1>2 DEF Sending
<1>4. new \in frames
  BY <1>3 DEF InTransit
<1> HIDE DEF new, frames
<1>5. Len(Out) \in Nat
  BY QueueContents
<1>6. Line(Out', In, frames, new)
  BY <1>1, <1>3, <1>4, <1>5, LineResent
<1>7. Sending(typed, st, got, sent, Buffer', Out', In', slot')
  BY <1>1, <1>2, <1>6 DEF Sending, new, frames
<1> QED BY <1>1, <1>7, OtherwiseFollows

LEMMA SendFollows ==
  ASSUME WireInv, typed \in Seq(Texts), NEW st, NEW got \in Nat, NEW sent \in Nat,
         Follows(st, got, sent), NEW index \in 0 .. MAX_FRAME_SIZE, SendFrame(index)
  PROVE  Follows(st, got, sent)'
<1> DEFINE new    == Sealed(typed, st, sent)
           frames == InTransit(typed, st, got, sent)
           f      == Inverted(Out[1], index)
<1>1. /\ Removed(Out, Out') /\ Added(In, In', f) /\ Cmds' = Cmds /\ Buffer' = Buffer
      /\ UNCHANGED <<cutting, LFS, slot, NFE, emptyCharArray, typed, printed>>
  BY SendContents DEF SendFrame
<1>2. /\ Sending(typed, st, got, sent, Buffer, Out, In, slot)
      /\ Places(typed, st) /\ sent \in 0 .. Len(st) - 1 /\ got \in sent - 1 .. sent
  BY FollowsFacts
<1>3. Line(Out, In, frames, new)
  BY <1>2 DEF Sending
<1>4. Len(Out) \in Nat /\ Len(In) \in Nat /\ 1 \in 1 .. Len(Out) /\ Out[1] \in Whole
  <2>1. /\ Len(Out) \in Nat /\ Len(In) \in Nat
        /\ \A i \in 1 .. Len(Out) : Out[i] \in Whole
    BY QueueContents
  <2>2. 1 \in 1 .. Len(Out)
    BY <1>1, <2>1 DEF Removed
  <2> QED BY <2>1, <2>2
<1>5. sent # 0
  <2>1. frames # {}
    BY <1>3, <1>4 DEF Line
  <2>2. sent = 0 => got = 0
    BY <1>2
  <2>3. sent = 0 => frames = {}
    BY <2>2 DEF InTransit
  <2> QED BY <2>1, <2>3
<1>6. ~Corrupted(new)
  <2>1. sent \in 1 .. Len(st) - 1
    BY <1>2, <1>5
  <2>2. new \in Whole
    BY <1>2, <2>1, CutType
  <2> QED BY <2>2 DEF Whole
<1>7. f = Out[1] \/ Corrupted(f)
  <2>1. CASE index = 0
    BY <2>1 DEF Inverted
  <2>2. CASE index # 0
    <3>1. index \in 1 .. MAX_FRAME_SIZE
      BY <2>2, FrameSize
    <3> QED BY <1>4, <3>1, InvertedFrameIsCorrupted DEF Whole
  <2> QED BY <2>1, <2>2
<1> HIDE DEF new, frames, f
<1>8. Line(Out', In', frames, new)
  BY <1>1, <1>3, <1>4, <1>6, <1>7, LineSent
<1>9. Sending(typed, st, got, sent, Buffer', Out', In', slot')
  BY <1>1, <1>2, <1>8 DEF Sending, new, frames
<1> QED BY <1>1, <1>9, OtherwiseFollows

LEMMA FillFollows ==
  ASSUME WireInv, typed \in Seq(Texts), NEW st, NEW got \in Nat, NEW sent \in Nat,
         Follows(st, got, sent), FillSlot
  PROVE  Follows(st, got, sent + 1)'
<1> DEFINE old    == Sealed(typed, st, sent)
           new    == Sealed(typed, st, sent + 1)
           frames == InTransit(typed, st, got, sent)
<1>1. /\ Removed(Buffer, Buffer') /\ slot' = WithCrc(Buffer[1])
      /\ Added(Out, Out', WithCrc(Buffer[1])) /\ Cmds' = Cmds /\ In' = In
      /\ slot = NULL
      /\ UNCHANGED <<cutting, LFS, NFE, emptyCharArray, typed, printed>>
  BY FillContents DEF FillSlot
<1>2. /\ Sending(typed, st, got, sent, Buffer, Out, In, slot)
      /\ Places(typed, st) /\ NextCut(st[Len(st)]) /\ Assembled(st[got + 1])
      /\ sent \in 0 .. Len(st) - 1 /\ got \in sent - 1 .. sent
      /\ LFS = uint8(Len(st) - 2) /\ Len(Buffer) = Len(st) - 1 - sent
      /\ NFE = uint8(got) /\ Len(st) \in Nat
  BY FollowsFacts
<1>3. /\ Len(Buffer) >= 1 /\ Len(Buffer') = Len(Buffer) - 1
      /\ \A c \in 1 .. Len(Buffer) - 1 : Buffer'[c] = Buffer[c + 1]
  BY <1>1 DEF Removed
<1>4. sent + 1 \in 1 .. Len(st) - 1 /\ Len(Buffer) \in Nat
  BY <1>2, <1>3, QueueContents
<1>5. WithCrc(Buffer[1]) = new
  <2>1. 1 \in 1 .. Len(Buffer)
    BY <1>3, <1>4
  <2>2. Buffer[1] = Cut(typed, st, sent + 1)
    BY <1>2, <2>1 DEF Sending
  <2> QED BY <2>2 DEF Sealed
<1>6. sent # 0 => old \in Whole /\ old.seq_num = uint8(sent - 1)
  <2>1. sent # 0 => sent \in 1 .. Len(st) - 1
    BY <1>2
  <2> QED BY <1>2, <2>1, CutType
<1>7. new \in Whole /\ new.seq_num = uint8(sent)
  <2>1. (sent + 1) - 1 = sent
    OBVIOUS
  <2> QED BY <1>2, <1>4, <2>1, CutType
<1> HIDE DEF new, old
<1>8. got = sent
  <2>1. CASE sent >= 1 /\ slot = old
    <3>1. slot \in Frames
      BY <1>6, <2>1 DEF Whole
    <3> QED BY <1>1, <3>1, WireAssumption
  <2>2. (slot = NULL /\ got = sent) \/ (sent >= 1 /\ slot = old)
    BY <1>2 DEF Sending, old
  <2> QED BY <2>1, <2>2
<1>9. frames \subseteq {old} /\ (sent = 0 => frames = {})
  BY <1>8 DEF InTransit, old
<1>10. new \notin frames
  <2>1. uint8(sent) # uint8(sent - 1)
    BY NeighbourNumbers
  <2> HIDE DEF frames
  <2> QED BY <1>6, <1>7, <1>9, <2>1
<1>11. frames \cup {new} = InTransit(typed, st, got, sent + 1)
  <2>1. {got, sent + 1} \ {0} = ({got, sent} \ {0}) \cup {sent + 1}
    BY <1>8
  <2> QED BY <2>1 DEF InTransit, new
<1>12. Line(Out', In, frames \cup {new}, new)
  <2>1. Line(Out, In, frames, old)
    BY <1>2 DEF Sending, old
  <2>2. ~Corrupted(new)
    BY <1>7 DEF Whole
  <2>3. Added(Out, Out', new) /\ Len(Out) \in Nat
    BY <1>1, <1>5, QueueContents
  <2> HIDE DEF frames
  <2> QED BY <1>10, <2>1, <2>2, <2>3, LineFilled
<1>13. ASSUME NEW c \in 1 .. Len(Buffer') PROVE Buffer'[c] = Cut(typed, st, (sent + 1) + c)
  <2>1. c \in 1 .. Len(Buffer) - 1 /\ c + 1 \in 1 .. Len(Buffer)
    BY <1>3, <1>4
  <2>2. Buffer[c + 1] = Cut(typed, st, sent + (c + 1))
    BY <1>2, <2>1 DEF Sending
  <2>3. sent + (c + 1) = (sent + 1) + c
    BY <2>1
  <2> QED BY <1>3, <2>1, <2>2, <2>3
<1>14. Sending(typed, st, got, sent + 1, Buffer', Out', In', slot')
  <2>1. sent + 1 >= 1 /\ slot' = new
    BY <1>1, <1>5
  <2> HIDE DEF frames
  <2> QED BY <1>1, <1>11, <1>12, <1>13, <2>1 DEF Sending, new
<1>15. /\ sent + 1 \in 0 .. Len(st) - 1 /\ got \in (sent + 1) - 1 .. sent + 1
       /\ Len(Buffer') = Len(st) - 1 - (sent + 1)
  BY <1>2, <1>3, <1>4, <1>8
<1>16. Assembled(st[got + 1])' /\ NextCut(st[Len(st)])'
  BY <1>1, <1>2 DEF Assembled, NextCut
<1> QED BY <1>1, <1>2, <1>14, <1>15, <1>16 DEF Follows

LEMMA AckedFollows ==
  ASSUME WireInv, typed \in Seq(Texts), NEW st, NEW got \in Nat, NEW sent \in Nat,
         Follows(st, got, sent), Acked
  PROVE  Follows(st, got, sent)'
<1> DEFINE old == Sealed(typed, st, sent)
<1>1. /\ UNCHANGED <<Cmds, Buffer, Out, In>>
      /\ slot # NULL /\ slot' = NULL
      /\ seq_num_diff(slot.seq_num, uint8(NFE - 1)) >= 0
      /\ UNCHANGED <<cutting, LFS, NFE, emptyCharArray, typed, printed>>
  BY DEF Acked, Cmds, Buffer, Out, In
<1>2. /\ Sending(typed, st, got, sent, Buffer, Out, In, slot)
      /\ Places(typed, st) /\ NFE = uint8(got)
      /\ sent \in 0 .. Len(st) - 1 /\ got \in sent - 1 .. sent
  BY FollowsFacts
<1>3. sent >= 1 /\ slot = old
  BY <1>1, <1>2 DEF Sending
<1>4. slot.seq_num = uint8(sent - 1)
  <2>1. sent \in 1 .. Len(st) - 1
    BY <1>2, <1>3
  <2> QED BY <1>2, <1>3, <2>1, CutType
<1>5. uint8(NFE - 1) = uint8(got - 1)
  BY <1>2, NeighbourNumbers
<1>6. got = sent
  <2>1. CASE got = sent - 1
    <3>1. seq_num_diff(uint8(sent - 1), uint8((sent - 1) - 1)) = -1
      <4>1. sent - 1 \in Int
        OBVIOUS
      <4> QED BY <4>1, NeighbourNumbers
    <3>2. seq_num_diff(slot.seq_num, uint8(NFE - 1)) = -1
      BY <1>4, <1>5, <2>1, <3>1
    <3> QED BY <1>1, <3>2
  <2> QED BY <1>2, <2>1
<1>7. Sending(typed, st, got, sent, Buffer', Out', In', slot')
  BY <1>1, <1>2, <1>6 DEF Sending
<1> QED BY <1>1, <1>7, OtherwiseFollows

-----------------------------------------------------------------------------
(***************************************************************************)
(* The receiver puts a message together.                                   *)
(***************************************************************************)
LEMMA CopiedBehind ==
  ASSUME NEW m, NEW start \in Nat, NEW n \in Nat, NEW array, NEW data,
         start > 0 => array = FirstBytes(m, start),
         \A k \in 1 .. n : data[k] = m[start + k]
  PROVE  Copied(realloc(array, start + n), start, data, n)
           = FirstBytes(m, start + n)
<1> DEFINE a == realloc(array, start + n)
           c == Copied(a, start, data, n)
<1>1. DOMAIN a = 1 .. start + n /\ \A k \in 1 .. start : a[k] = m[k]
  <2>1. DOMAIN a = 1 .. start + n
    BY DEF realloc
  <2>2. ASSUME NEW k \in 1 .. start PROVE a[k] = m[k]
    <3>1. array = [b \in 1 .. start |-> m[b]] /\ k \in 1 .. start + n
      BY DEF FirstBytes
    <3>2. Len(array) = start /\ array[k] = m[k]
      BY <3>1
    <3> QED BY <3>1, <3>2 DEF realloc
  <2> QED BY <2>1, <2>2
<1> HIDE DEF a
<1>2. c = [k \in 1 .. start + n |->
             IF k - start \in 1 .. n THEN data[k - start] ELSE a[k]]
  BY <1>1 DEF Copied
<1>3. ASSUME NEW k \in 1 .. start + n
      PROVE  (IF k - start \in 1 .. n THEN data[k - start] ELSE a[k]) = m[k]
  <2>1. CASE k - start \in 1 .. n
    <3>1. start + (k - start) = k
      OBVIOUS
    <3> QED BY <2>1, <3>1
  <2>2. CASE k - start \notin 1 .. n
    <3>1. k \in 1 .. start
      BY <2>2
    <3> QED BY <1>1, <2>2, <3>1
  <2> QED BY <2>1, <2>2
<1> QED BY <1>2, <1>3 DEF c, a, FirstBytes

\* What is printed is the message without its NUL.
LEMMA StringOfText ==
  ASSUME NEW m \in Texts
  PROVE  AsString(m) \in Seq(Byte) /\ Append(AsString(m), NUL) = m
<1>1. /\ m \in Seq(Byte) /\ Len(m) \in Nat \ {0} /\ m[Len(m)] = NUL
      /\ \A b \in 1 .. Len(m) - 1 : m[b] # NUL
  BY MessageIsSequence, MessageLength DEF Texts
<1> DEFINE n == Len(m)
           IsEnd(k) == m[k] = NUL /\ \A b \in 1 .. k - 1 : m[b] # NUL
           end == CHOOSE k \in DOMAIN m : IsEnd(k)
<1>2. DOMAIN m = 1 .. n /\ n \in 1 .. n
  BY <1>1
<1>3. IsEnd(n)
  BY <1>1
<1>4. ASSUME NEW k \in 1 .. n, IsEnd(k) PROVE k = n
  <2>1. m[k] = NUL
    BY <1>4
  <2>2. k \notin 1 .. n - 1
    BY SMTT(30), <1>1, <2>1
  <2> HIDE DEF IsEnd
  <2> QED BY <1>1, <2>2
<1>5. end = n
  <2> HIDE DEF IsEnd
  <2>1. end \in DOMAIN m /\ IsEnd(end)
    BY <1>2, <1>3
  <2> QED BY <1>2, <1>4, <2>1
<1>6. AsString(m) = SubSeq(m, 1, end - 1)
  BY <1>1, <1>2 DEF AsString
<1> HIDE DEF end
<1>7. AsString(m) = SubSeq(m, 1, n - 1)
  BY <1>5, <1>6
<1>8. SubSeq(m, 1, n - 1) \in Seq(Byte) /\ Len(SubSeq(m, 1, n - 1)) = n - 1
      /\ \A b \in 1 .. n - 1 : SubSeq(m, 1, n - 1)[b] = m[b]
  <2>1. n - 1 \in Nat /\ n - 1 <= Len(m) /\ \A b \in 1 .. n - 1 : b \in 1 .. Len(m)
    BY <1>1
  <2>2. \A k \in Nat : k <= Len(m) => Len(SubSeq(m, 1, k)) = k
    BY <1>1
  <2>3. \A k \in Nat : k <= Len(m) => \A b \in 1 .. k : SubSeq(m, 1, k)[b] = m[b]
    BY <1>1
  <2>4. \A k \in Nat : k <= Len(m) => SubSeq(m, 1, k) \in Seq(Byte)
    BY <1>1
  <2> HIDE DEF n
  <2> QED BY <2>1, <2>2, <2>3, <2>4
<1> DEFINE s == SubSeq(m, 1, n - 1)
<1> HIDE DEF s
<1>9. Append(s, NUL) = m
  <2>1. s \in Seq(Byte) /\ Len(s) = n - 1 /\ \A b \in 1 .. n - 1 : s[b] = m[b]
    BY <1>8 DEF s
  <2>2. NUL \in Byte
    BY DEF NUL, Byte
  <2>3. /\ Append(s, NUL) \in Seq(Byte) /\ Len(Append(s, NUL)) = n
        /\ \A b \in 1 .. n : Append(s, NUL)[b] = m[b]
    BY <1>1, <2>1, <2>2
  <2> QED BY <1>1, <2>3
<1> QED BY <1>7, <1>8, <1>9 DEF s

\* The frame i of a message joins the frames before it, and the last of them
\* completes the message.
LEMMA FrameJoins ==
  ASSUME NEW m \in Texts, NEW i \in Nat, i < num_frames(Len(m)), NEW seq_num, NEW array,
         i > 0 => array = FirstBytes(m, i * FRAME_PAYLOAD_SIZE)
  PROVE  LET f == WithCrc(Frame(m, i, seq_num))
             a == Copied(realloc(array, f.starting_index + f.len),
                         f.starting_index, f.data, f.len)
         IN  IF f.remaining_msg_bytes = 0
             THEN i + 1 = num_frames(Len(m)) /\ a = m
             ELSE /\ i + 1 # num_frames(Len(m))
                  /\ a = FirstBytes(m, (i + 1) * FRAME_PAYLOAD_SIZE)
<1> DEFINE P == FRAME_PAYLOAD_SIZE
           f == WithCrc(Frame(m, i, seq_num))
           n == numbytes(Len(m), i)
           start == i * P
           data == [k \in 1 .. P |-> IF k <= n THEN m[i * P + k] ELSE 0]
           rest == remaining_msg_bytes(Len(m), i)
           last == i + 1 = num_frames(Len(m))
           array2 == Copied(realloc(array, start + n), start, data, n)
<1>1. m \in Messages
  BY DEF Texts
<1>2. Len(m) \in 1 .. USHORT_MAX /\ num_frames(Len(m)) \in Nat \ {0}
  BY <1>1, MessageLength
<1>3. i \in 0 .. num_frames(Len(m)) - 1
  BY <1>2
<1>4. /\ starting_index(i) = start /\ n \in 1 .. P
      /\ starting_index(i) + n + rest = Len(m)
      /\ rest = 0 <=> i = num_frames(Len(m)) - 1
      /\ i + 1 < num_frames(Len(m)) => starting_index(i + 1) = starting_index(i) + n
  BY <1>2, <1>3, FragmentsCover
<1>5. P \in Nat \ {0} /\ start \in Nat /\ start + P = (i + 1) * P
  <2>1. P \in Nat \ {0}
    BY FragmentAssumption
  <2> HIDE DEF P
  <2> QED BY <2>1
<1>6. /\ f.starting_index = start /\ f.len = n /\ f.data = data
      /\ f.remaining_msg_bytes = rest
  BY <1>4 DEF WithCrc, Frame
<1>7. i > 0 => start > 0
  <2> HIDE DEF P
  <2> QED BY <1>5
<1>8. array2 = FirstBytes(m, start + n)
  <2>1. start > 0 => array = FirstBytes(m, start)
    <3>1. start > 0 => i > 0
      <4>1. i = 0 => start = 0
        BY <1>5
      <4> HIDE DEF start
      <4> QED BY <4>1
    <3> QED BY <3>1
  <2>2. \A k \in 1 .. n : data[k] = m[start + k]
    <3>1. n \in Nat /\ \A k \in 1 .. n : k \in 1 .. P /\ k <= n
      BY <1>4, <1>5
    <3> QED BY <3>1
  <2>3. start \in Nat /\ n \in Nat
    BY <1>4, <1>5
  <2> HIDE DEF start, data, n
  <2> QED BY <2>1, <2>2, <2>3, CopiedBehind
<1>9. Copied(realloc(array, f.starting_index + f.len), f.starting_index, f.data, f.len)
        = array2
  <2> HIDE DEF f
  <2> QED BY <1>6
<1> HIDE DEF array2, f, data
<1>10. CASE rest = 0
  <2>1. last
    BY <1>2, <1>4, <1>10
  <2>2. start + n = Len(m)
    <3> HIDE DEF start, n, rest, P
    <3> QED BY <1>4, <1>5, <1>10
  <2>3. FirstBytes(m, Len(m)) = m
    BY <1>1, <1>2, MessageIsSequence DEF FirstBytes
  <2>4. array2 = m
    BY <1>8, <2>2, <2>3
  <2> QED BY <1>6, <1>9, <1>10, <2>1, <2>4 DEF f
<1>11. CASE rest # 0
  <2>1. ~last /\ i + 1 < num_frames(Len(m))
    BY <1>2, <1>3, <1>4, <1>11
  <2>2. start + n = (i + 1) * P
    <3>1. i + 1 \in 0 .. num_frames(Len(m)) - 1
      BY <1>2, <1>3, <2>1
    <3>2. starting_index(i + 1) = (i + 1) * P
      BY <1>2, <3>1, FragmentsCover
    <3> QED BY <1>4, <2>1, <3>2
  <2>3. array2 = FirstBytes(m, (i + 1) * P)
    BY <1>8, <2>2
  <2> QED BY <1>6, <1>9, <1>11, <2>1, <2>3 DEF f
<1> QED BY <1>10, <1>11

\* A frame that is due and joins those before.
LEMMA AssembleFollows ==
  ASSUME typed \in Seq(Texts), printed \in Seq(Seq(Byte)),
         NEW p, p.k \in 1 .. Len(typed), p.i \in Nat,
         p.i < num_frames(Len(typed[p.k])),
         NEW seq_num, Assemble(WithCrc(Frame(typed[p.k], p.i, seq_num))), typed' = typed,
         Assembled(p)
  PROVE  printed' \in Seq(Seq(Byte)) /\ \A q : q = After(typed, p) => Assembled(q)'
<1> DEFINE m == typed[p.k]
           f == WithCrc(Frame(m, p.i, seq_num))
           array == Copied(realloc(emptyCharArray, f.starting_index + f.len),
                           f.starting_index, f.data, f.len)
           last == f.remaining_msg_bytes = 0
           complete == p.i + 1 = num_frames(Len(m))
<1>1. m \in Texts /\ p.i \in Nat /\ p.i < num_frames(Len(m))
  BY TextIsMessage
<1>2. /\ p.k = Len(printed) + 1
      /\ \A k \in 1 .. Len(printed) : Append(printed[k], NUL) = typed[k]
      /\ p.i > 0 => emptyCharArray = FirstBytes(m, p.i * FRAME_PAYLOAD_SIZE)
  BY DEF Assembled
<1>3. /\ printed' = IF last THEN Append(printed, AsString(array)) ELSE printed
      /\ emptyCharArray' = IF last THEN [array EXCEPT ![1] = NUL] ELSE array
  BY DEF Assemble
<1>4. IF last THEN complete /\ array = m
      ELSE ~complete /\ array = FirstBytes(m, (p.i + 1) * FRAME_PAYLOAD_SIZE)
  <2> HIDE DEF m
  <2> QED BY <1>1, <1>2, FrameJoins
<1> HIDE DEF array, last, complete, f
<1>5. CASE last
  <2>1. /\ printed' = Append(printed, AsString(m)) /\ complete
        /\ AsString(m) \in Seq(Byte) /\ Append(AsString(m), NUL) = m
    BY <1>1, <1>3, <1>4, <1>5, StringOfText
  <2>2. /\ printed' \in Seq(Seq(Byte)) /\ Len(printed') = Len(printed) + 1
        /\ printed'[Len(printed) + 1] = AsString(m)
        /\ \A k \in 1 .. Len(printed) : printed'[k] = printed[k]
    <3> HIDE DEF m
    <3> QED BY <2>1
  <2>3. After(typed, p) = [k |-> p.k + 1, i |-> 0]
    BY <2>1 DEF After, complete
  <2>4. ASSUME NEW k \in 1 .. Len(printed') PROVE Append(printed'[k], NUL) = typed[k]
    <3>1. CASE k = p.k
      BY <1>2, <2>1, <2>2, <3>1
    <3>2. CASE k # p.k
      <4>1. k \in 1 .. Len(printed)
        BY <1>2, <2>2, <3>2
      <4> QED BY <1>2, <2>2, <4>1
    <3> QED BY <3>1, <3>2
  <2>5. ASSUME NEW q, q = After(typed, p) PROVE Assembled(q)'
    <3>1. q.k = Len(printed') + 1 /\ q.i = 0
      BY <1>2, <2>2, <2>3, <2>5
    <3> QED BY <2>4, <3>1 DEF Assembled
  <2> QED BY <2>2, <2>5
<1>6. CASE ~last
  <2>1. /\ printed' = printed /\ ~complete
        /\ emptyCharArray' = FirstBytes(m, (p.i + 1) * FRAME_PAYLOAD_SIZE)
    BY <1>3, <1>4, <1>6
  <2>2. After(typed, p) = [k |-> p.k, i |-> p.i + 1]
    BY <2>1 DEF After, complete
  <2>3. ASSUME NEW q, q = After(typed, p) PROVE Assembled(q)'
    <3>1. q.k = p.k /\ q.i = p.i + 1
      BY <2>2, <2>3
    <3>2. emptyCharArray' = FirstBytes(typed[q.k], q.i * FRAME_PAYLOAD_SIZE)
      BY <2>1, <3>1
    <3> QED BY <1>2, <2>1, <3>1, <3>2 DEF Assembled
  <2> QED BY <2>1, <2>3
<1> QED BY <1>5, <1>6

LEMMA ReceiveFollows ==
  ASSUME WireInv, typed \in Seq(Texts), printed \in Seq(Seq(Byte)),
         NEW st, NEW got \in Nat, NEW sent \in Nat, Follows(st, got, sent), Receive
  PROVE  /\ printed' \in Seq(Seq(Byte))
         /\ Follows(st, got, sent)' \/ Follows(st, sent, sent)'
<1> DEFINE new    == Sealed(typed, st, sent)
           frames == InTransit(typed, st, got, sent)
           f      == In[1]
<1>1. /\ Removed(In, In') /\ Cmds' = Cmds /\ Buffer' = Buffer /\ Out' = Out
      /\ IF ~Corrupted(f) /\ seq_num_diff(NFE, f.seq_num) = 0 THEN Assemble(f)
         ELSE UNCHANGED <<NFE, emptyCharArray, printed>>
      /\ UNCHANGED <<cutting, LFS, slot, typed>>
  BY ReceiveContents DEF Receive
<1>2. /\ Sending(typed, st, got, sent, Buffer, Out, In, slot)
      /\ Places(typed, st) /\ NextCut(st[Len(st)]) /\ Assembled(st[got + 1])
      /\ sent \in 0 .. Len(st) - 1 /\ got \in sent - 1 .. sent
      /\ LFS = uint8(Len(st) - 2) /\ Len(Buffer) = Len(st) - 1 - sent
      /\ NFE = uint8(got) /\ Len(st) \in Nat /\ Len(typed) \in Nat
  BY FollowsFacts
<1>3. Line(Out, In, frames, new)
  BY <1>2 DEF Sending
<1>4. Len(In) \in Nat /\ 1 \in 1 .. Len(In)
  <2>1. Len(In) \in Nat
    BY QueueContents
  <2> QED BY <1>1, <2>1 DEF Removed
<1> HIDE DEF new, frames
<1>5. CASE ~(~Corrupted(f) /\ seq_num_diff(NFE, f.seq_num) = 0)
  <2>1. Line(Out, In', frames, new)
    BY <1>1, <1>3, <1>4, LineReceived
  <2>2. Sending(typed, st, got, sent, Buffer', Out', In', slot')
    BY <1>1, <1>2, <2>1 DEF Sending, new, frames
  <2>3. UNCHANGED <<cutting, LFS, NFE, emptyCharArray, typed, printed>>
    BY <1>1, <1>5
  <2>4. Follows(st, got, sent)'
    BY <1>1, <2>2, <2>3, OtherwiseFollows
  <2> QED BY <2>3, <2>4
<1>6. CASE ~Corrupted(f) /\ seq_num_diff(NFE, f.seq_num) = 0
  <2>1. \A j \in 1 .. sent : Sealed(typed, st, j).seq_num = uint8(j - 1)
    <3>1. \A j \in 1 .. sent : j \in 1 .. Len(st) - 1
      BY <1>2
    <3> QED BY <1>2, <3>1, CutType
  <2>2. f \in frames
    BY <1>3, <1>4, <1>6 DEF Line
  <2>3. PICK j \in {got, sent} \ {0} : f = Sealed(typed, st, j)
    BY <2>2 DEF frames, InTransit
  <2>4. j \in 1 .. sent /\ f.seq_num = uint8(j - 1)
    BY <1>2, <2>1, <2>3
  <2>5. j # got
    <3>1. seq_num_diff(uint8(got), uint8(got - 1)) = -1
      BY NeighbourNumbers
    <3>2. seq_num_diff(uint8(got), f.seq_num) = 0
      BY <1>2, <1>6
    <3> QED BY <2>4, <3>1, <3>2
  <2>6. j = sent /\ sent = got + 1 /\ sent \in 1 .. Len(st) - 1
    BY <1>2, <2>3, <2>4, <2>5
  <2>7. f = new
    BY <2>3, <2>6 DEF new
  <2>8. Line(Out, In', {new}, new)
    BY <1>1, <1>3, <1>4, <2>7, LineTaken
  <2>9. InTransit(typed, st, sent, sent) = {new}
    BY <2>6 DEF InTransit, new
  <2>10. Sending(typed, st, sent, sent, Buffer', Out', In', slot')
    <3>1. sent >= 1 /\ slot = new
      BY <1>2, <2>6 DEF Sending, new
    <3>2. \A c \in 1 .. Len(Buffer) : Buffer[c] = Cut(typed, st, sent + c)
      BY <1>2 DEF Sending
    <3> QED BY <1>1, <2>8, <2>9, <3>1, <3>2 DEF Sending, new
  <2>11. Assemble(f)
    BY <1>1, <1>6
  <2>12. /\ st[sent].k \in 1 .. Len(typed) /\ st[sent].i \in Nat
         /\ st[sent].i < num_frames(Len(typed[st[sent].k]))
         /\ st[sent + 1] = After(typed, st[sent])
    BY <1>2, <2>6, PlaceCut
  <2>13. printed' \in Seq(Seq(Byte)) /\ Assembled(st[sent + 1])'
    <3>1. f = WithCrc(Frame(typed[st[sent].k], st[sent].i, uint8(sent - 1)))
      BY <2>7 DEF new, Sealed, Cut
    <3>2. Assembled(st[sent])
      BY <1>2, <2>6
    <3> DEFINE p == st[sent]
               seq_num == uint8(sent - 1)
    <3>3. /\ p.k \in 1 .. Len(typed) /\ p.i \in Nat
          /\ p.i < num_frames(Len(typed[p.k])) /\ st[sent + 1] = After(typed, p)
          /\ Assemble(WithCrc(Frame(typed[p.k], p.i, seq_num))) /\ typed' = typed
          /\ Assembled(p)
      BY <1>1, <2>11, <2>12, <3>1, <3>2
    <3> HIDE DEF p, seq_num, f
    <3> QED BY <3>3, AssembleFollows
  <2>14. NFE' = uint8(sent)
    <3>1. NFE' = uint8(NFE + 1)
      BY <2>11 DEF Assemble
    <3>2. uint8(uint8(got) + 1) = uint8(got + 1)
      BY NeighbourNumbers
    <3> QED BY <1>2, <2>6, <3>1, <3>2
  <2>15. NextCut(st[Len(st)])'
    BY <1>1, <1>2 DEF NextCut
  <2>16. sent \in sent - 1 .. sent
    BY <2>6
  <2> QED BY <1>1, <1>2, <2>10, <2>13, <2>14, <2>15, <2>16 DEF Follows
<1> QED BY <1>5, <1>6

-----------------------------------------------------------------------------
LEMMA InitMessages == Init => MessageInv
<1> SUFFICES ASSUME Init PROVE MessageInv
  OBVIOUS
<1> DEFINE p  == [k |-> 1, i |-> 0]
           st == <<p>>
<1>1. /\ typed = <<>> /\ printed = <<>> /\ cutting = NULL /\ slot = NULL
      /\ LFS = uint8(-1) /\ NFE = 0 /\ lists = NoLists
  BY DEF Init
<1>2. p \in Place /\ p.k = 1 /\ p.i = 0
  BY DEF Place
<1> HIDE DEF p
<1>3. st \in Seq(Place) /\ Len(st) = 1 /\ st[1] = p
  BY <1>2
<1> HIDE DEF st
<1>4. Len(Cmds) = 0 /\ Len(Buffer) = 0 /\ Len(Out) = 0 /\ Len(In) = 0
  <2>1. \A l \in Queue : Size(lists, l) = 0
    BY <1>1, QueueNames DEF NoLists, Size
  <2> QED BY <2>1, QueueNames, ContentsFacts DEF Cmds, Buffer, Out, In
<1>5. Places(typed, st)
  BY <1>3 DEF Places, p
<1>6. NextCut(p)
  BY <1>1, <1>2, <1>4 DEF NextCut, Waiting
<1>7. Sending(typed, st, 0, 0, Buffer, Out, In, slot)
  BY <1>1, <1>4 DEF Sending, Line
<1>8. Assembled(p)
  BY <1>1, <1>2 DEF Assembled
<1>9. NFE = uint8(0)
  BY <1>1, WireAssumption DEF uint8
<1>10. Follows(st, 0, 0)
  <2>1. /\ st[Len(st)] = p /\ st[0 + 1] = p /\ Len(st) - 2 = -1 /\ Len(st) - 1 = 0
        /\ 0 \in 0 - 1 .. 0 /\ 0 \in 0 .. Len(st) - 1 /\ Len(Buffer) = Len(st) - 1 - 0
    BY <1>3, <1>4
  <2> QED BY <1>1, <1>5, <1>6, <1>7, <1>8, <1>9, <2>1 DEF Follows
<1>11. typed \in Seq(Texts) /\ printed \in Seq(Seq(Byte))
  BY <1>1
<1> QED BY <1>3, <1>10, <1>11 DEF MessageInv

LEMMA StepMessages == WireInv /\ MessageInv /\ [Next]_vars => MessageInv'
<1> SUFFICES ASSUME WireInv, MessageInv, [Next]_vars PROVE MessageInv'
  OBVIOUS
<1>1. typed \in Seq(Texts) /\ printed \in Seq(Seq(Byte))
  BY DEF MessageInv
<1>2. PICK st \in Seq(Place), got \in Nat, sent \in Nat : Follows(st, got, sent)
  BY DEF MessageInv
<1>3. CASE \E msg_length \in MsgLengths : Type(msg_length)
  <2>1. typed' \in Seq(Texts) /\ Follows(st, got, sent)'
    BY <1>1, <1>2, <1>3, TypeFollows
  <2>2. printed' = printed
    BY <1>3 DEF Type
  <2> QED BY <1>1, <2>1, <2>2 DEF MessageInv
<1>4. CASE PopCmd
  <2>1. Follows(st, got, sent)' /\ UNCHANGED <<typed, printed>>
    BY <1>1, <1>2, <1>4, PopCmdFollows DEF PopCmd
  <2> QED BY <1>1, <2>1 DEF MessageInv
<1>5. CASE CutFrame
  <2>1. PICK st2 \in Seq(Place) : Follows(st2, got, sent)'
    BY <1>1, <1>2, <1>5, CutFollows
  <2>2. UNCHANGED <<typed, printed>>
    BY <1>5 DEF CutFrame
  <2> QED BY <1>1, <2>1, <2>2 DEF MessageInv
<1>6. CASE FillSlot
  <2>1. Follows(st, got, sent + 1)' /\ UNCHANGED <<typed, printed>>
    BY <1>1, <1>2, <1>6, FillFollows DEF FillSlot
  <2> QED BY <1>1, <2>1 DEF MessageInv
<1>7. CASE Resend
  <2>1. Follows(st, got, sent)' /\ UNCHANGED <<typed, printed>>
    BY <1>1, <1>2, <1>7, ResendFollows DEF Resend
  <2> QED BY <1>1, <2>1 DEF MessageInv
<1>8. CASE \E index \in 0 .. MAX_FRAME_SIZE : SendFrame(index)
  <2>1. Follows(st, got, sent)'
    BY <1>1, <1>2, <1>8, SendFollows
  <2>2. UNCHANGED <<typed, printed>>
    BY <1>8 DEF SendFrame
  <2> QED BY <1>1, <2>1, <2>2 DEF MessageInv
<1>9. CASE Receive
  <2>1. /\ printed' \in Seq(Seq(Byte))
        /\ Follows(st, got, sent)' \/ Follows(st, sent, sent)'
    BY <1>1, <1>2, <1>9, ReceiveFollows
  <2>2. typed' = typed
    BY <1>9 DEF Receive
  <2> QED BY <1>1, <2>1, <2>2 DEF MessageInv
<1>10. CASE Acked
  <2>1. Follows(st, got, sent)' /\ UNCHANGED <<typed, printed>>
    BY <1>1, <1>2, <1>10, AckedFollows DEF Acked
  <2> QED BY <1>1, <2>1 DEF MessageInv
<1>11. CASE UNCHANGED vars
  <2>1. /\ UNCHANGED <<lists, cutting, LFS, slot, NFE, emptyCharArray, typed, printed>>
        /\ UNCHANGED <<Cmds, Buffer, Out, In>>
    BY <1>11 DEF vars, Cmds, Buffer, Out, In
  <2>2. Follows(st, got, sent)'
    BY <1>2, <2>1 DEF Follows, NextCut, Assembled
  <2> QED BY <1>1, <2>1, <2>2 DEF MessageInv
<1> QED
  BY <1>3, <1>4, <1>5, <1>6, <1>7, <1>8, <1>9, <1>10, <1>11 DEF Next

\* What the receiver prints (handle_incoming_frames) is what was typed at the
\* sender (check_input), every byte of every message and all in order, however
\* often a frame is sent again and whichever of them the switch corrupts, for
\* messages of any lengths up to USHORT_MAX and payloads of any size.
THEOREM MessagesWholeCorrect == Spec => []MessagesWhole
<1>1. WireInv /\ MessageInv => MessagesWhole
  <2> SUFFICES ASSUME WireInv, MessageInv PROVE MessagesWhole
    OBVIOUS
  <2>1. typed \in Seq(Texts) /\ printed \in Seq(Seq(Byte))
    BY DEF MessageInv
  <2>2. PICK st \in Seq(Place), got \in Nat, sent \in Nat : Follows(st, got, sent)
    BY DEF MessageInv
  <2> DEFINE due == st[got + 1]
  <2>3. Assembled(due) /\ due.k <= Len(typed) + 1 /\ Len(typed) \in Nat
    BY <2>1, <2>2, FollowsFacts
  <2>4. /\ due.k = Len(printed) + 1
        /\ \A k \in 1 .. Len(printed) : Append(printed[k], NUL) = typed[k]
    BY <2>3 DEF Assembled
  <2>5. Len(printed) \in Nat /\ DOMAIN printed = 1 .. Len(printed)
    BY <2>1
  <2> HIDE DEF due
  <2> QED BY <2>3, <2>4, <2>5 DEF MessagesWhole
<1> QED BY <1>1, InitWire, StepWire, InitMessages, StepMessages, PTL DEF Spec
=============================================================================
