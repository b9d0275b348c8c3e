-------------------------------- MODULE Wire ---------------------------------
(***************************************************************************)
(* The way of messages from one host to another, byte by byte: how they    *)
(* are cut into frames, what a frame is made of, how its CRC tells that    *)
(* the switch has inverted a byte, and how the receiver puts the bytes     *)
(* together again.  The window has one slot; windows, acks and deadlines   *)
(* are the subject of TritonTalk, and here an ack of a frame that was      *)
(* accepted simply arrives at some time (Acked).                           *)
(*                                                                         *)
(* Every action but Type is one iteration of the loop of its handler, and  *)
(* does one pop, one append or one of each.                                *)
(***************************************************************************)
EXTENDS LinkedList, Fragment, SeqNum

CONSTANTS
  input_cmdlist, buffered_outframes, outgoing_frames, incoming_frames,
  MsgLengths,       \* the lengths of a message, its NUL included
  MaxMessages,      \* bound
  MaxInFlight,      \* bound: frames in outgoing_frames and incoming_frames
  MaxFaults         \* bound: corrupted frames in incoming_frames

VARIABLES
  lists,            \* the queues of the hosts
  cutting,          \* the loop of handle_input_cmds: its command, and i
  LFS,
  slot,             \* send_window[0].frame
  NFE,
  emptyCharArray,   \* the message received so far
  typed,            \* history: the messages entered
  printed,          \* history: the messages printed
  altered           \* history: the nodes of frames the switch has corrupted

vars == <<lists, cutting, LFS, slot, NFE, emptyCharArray, typed, printed, altered>>

Byte  == 0 .. 255
Short == 0 .. USHORT_MAX

\* The packed struct Frame_t.
Frames ==
  [remaining_msg_bytes : Short, dst_id : Byte, src_id : Byte,
   seq_num : Byte, len : Byte, starting_index : Short, ack_num : Byte,
   is_ack : Byte, data : [1 .. FRAME_PAYLOAD_SIZE -> Byte], crc : Byte]

\* A command and the number of its frames that are cut.
Cuttings == [message : Seq(Byte), i : Nat]

ASSUME WireAssumption ==
  /\ Queue = {input_cmdlist, buffered_outframes, outgoing_frames, incoming_frames}
  /\ input_cmdlist \notin {buffered_outframes, outgoing_frames, incoming_frames}
  /\ buffered_outframes \notin {outgoing_frames, incoming_frames}
  /\ outgoing_frames # incoming_frames
  /\ MAX_SEQ_NUM = 255 /\ USHORT_MAX + 1 = 256 * 256
  /\ MsgLengths \subseteq 1 .. USHORT_MAX
  /\ NULL \notin Frames /\ NULL \notin Cuttings

Init ==
  /\ lists = NoLists
  /\ cutting = NULL /\ slot = NULL
  /\ LFS = uint8(-1) /\ NFE = 0
  /\ emptyCharArray = <<>>
  /\ typed = <<>> /\ printed = <<>>
  /\ altered = {}

-----------------------------------------------------------------------------
(***************************************************************************)
(* A frame, its bytes and their CRC.                                       *)
(***************************************************************************)
MAX_FRAME_SIZE == 11 + FRAME_PAYLOAD_SIZE

\* The bytes of a frame, on a machine that is little-endian.
convert_frame_to_char(f) ==
  << f.remaining_msg_bytes % 256, f.remaining_msg_bytes \div 256,
     f.dst_id, f.src_id, f.seq_num, f.len,
     f.starting_index % 256, f.starting_index \div 256,
     f.ack_num, f.is_ack >> \o f.data \o << f.crc >>

convert_char_to_frame(b) ==
  [remaining_msg_bytes |-> b[1] + 256 * b[2],
   dst_id |-> b[3], src_id |-> b[4], seq_num |-> b[5], len |-> b[6],
   starting_index |-> b[7] + 256 * b[8], ack_num |-> b[9], is_ack |-> b[10],
   data |-> SubSeq(b, 11, MAX_FRAME_SIZE - 1), crc |-> b[MAX_FRAME_SIZE]]

\* remainder ^ generator, where the generator is 0x07.
XorGenerator(remainder) == 8 * (remainder \div 8) + 7 - (remainder % 8)

\* The remainder after one more bit, and after the eight bits of a byte, from
\* bit 7 to bit 0: functions, which TLC evaluates once.
ShiftedIn ==
  [remainder \in 0 .. 255 |-> [bit \in 0 .. 1 |->
     LET shifted == (2 * remainder + bit) % 256
     IN  IF remainder >= 128 THEN XorGenerator(shifted) ELSE shifted]]

Weight == <<128, 64, 32, 16, 8, 4, 2, 1>>

AfterByte ==
  [remainder \in 0 .. 255 |-> [byte \in 0 .. 255 |->
     LET after[j \in 0 .. 8] ==
           IF j = 0 THEN remainder
           ELSE ShiftedIn[after[j - 1]][(byte \div Weight[j]) % 2]
     IN  after[8]]]

compute_crc8(char_buf) ==
  LET after[i \in 1 .. MAX_FRAME_SIZE] ==
        IF i = 1 THEN char_buf[1] ELSE AfterByte[after[i - 1]][char_buf[i]]
  IN  after[MAX_FRAME_SIZE]

WithCrc(f) == [f EXCEPT !.crc = compute_crc8(convert_frame_to_char(f))]

\* ~ on the byte at an index, or nothing when the index is 0.
Inverted(f, index) ==
  LET b == convert_frame_to_char(f)
  IN  IF index = 0 THEN f
      ELSE convert_char_to_frame([b EXCEPT ![index] = 255 - @])

-----------------------------------------------------------------------------
(***************************************************************************)
(* Memory of the receiver and strings.                                     *)
(***************************************************************************)
NUL == 0
Garbage == -1     \* what memory holds before it is written

realloc(array, size) ==
  [k \in 1 .. size |-> IF k <= Len(array) THEN array[k] ELSE Garbage]

\* memcpy(array + start, data, n).
Copied(array, start, data, n) ==
  [k \in DOMAIN array |-> IF k - start \in 1 .. n THEN data[k - start] ELSE array[k]]

\* The characters printf("%s") prints: to the first NUL, and on into memory
\* that is not the array's when there is none.
AsString(array) ==
  IF \E k \in DOMAIN array : array[k] = NUL
  THEN LET end == CHOOSE k \in DOMAIN array :
                    array[k] = NUL /\ \A i \in 1 .. k - 1 : array[i] # NUL
       IN  SubSeq(array, 1, end - 1)
  ELSE Append(array, Garbage)

\* The k-th message, of which any two bytes less than 90 apart differ.
Message(msg_length, k) ==
  [i \in 1 .. msg_length |-> IF i = msg_length THEN NUL ELSE 33 + ((i + 40 * k) % 90)]

-----------------------------------------------------------------------------
\* malloc: which of the free addresses it returns makes no difference.
new_node == CHOOSE a \in Fresh(lists) : TRUE

\* The frame i of a message, of either branch of handle_input_cmds.
Frame(message, i, seq_num) ==
  LET n == numbytes(Len(message), i)
  IN  [remaining_msg_bytes |-> remaining_msg_bytes(Len(message), i),
       dst_id |-> 1, src_id |-> 0, seq_num |-> seq_num, len |-> n,
       starting_index |-> starting_index(i), ack_num |-> 0, is_ack |-> 0,
       data |-> [k \in 1 .. FRAME_PAYLOAD_SIZE |->
                   IF k <= n THEN message[i * FRAME_PAYLOAD_SIZE + k] ELSE 0],
       crc |-> 0]

\* check_input
Type(msg_length) ==
  /\ Len(typed) < MaxMessages /\ Fresh(lists) # {}
  /\ LET message == Message(msg_length, Len(typed))
     IN  /\ lists' = ll_append_node(lists, input_cmdlist, new_node, message)
         /\ typed' = Append(typed, message)
  /\ UNCHANGED <<cutting, LFS, slot, NFE, emptyCharArray, printed, altered>>

\* handle_input_cmds: the command, then its frames.
PopCmd ==
  /\ cutting = NULL /\ NotEmpty(lists, input_cmdlist)
  /\ cutting' = [message |-> ll_peek_node(lists, input_cmdlist), i |-> 0]
  /\ lists' = ll_pop_node(lists, input_cmdlist)
  /\ UNCHANGED <<LFS, slot, NFE, emptyCharArray, typed, printed, altered>>

CutFrame ==
  /\ cutting # NULL /\ Fresh(lists) # {}
  /\ LFS' = uint8(LFS + 1)
  /\ lists' = ll_append_node(lists, buffered_outframes, new_node,
                             Frame(cutting.message, cutting.i, LFS'))
  /\ cutting' = IF cutting.i + 1 = num_frames(Len(cutting.message)) THEN NULL
                ELSE [cutting EXCEPT !.i = @ + 1]
  /\ UNCHANGED <<slot, NFE, emptyCharArray, typed, printed, altered>>

InSlot_BeforeCrc(f) == f

\* The slot's copy of the frame is made first, and gets its crc later.
InSlot(f) == WithCrc(f)

\* handle_outgoing_frames: a buffered frame moves into the free slot.
FillSlot ==
  /\ cutting = NULL /\ slot = NULL /\ NotEmpty(lists, buffered_outframes)
  /\ LET f == ll_peek_node(lists, buffered_outframes)
         popped == ll_pop_node(lists, buffered_outframes)
     IN  /\ slot' = InSlot(f)
         /\ lists' = ll_append_node(popped, outgoing_frames,
                                    CHOOSE a \in Fresh(popped) : TRUE, WithCrc(f))
  /\ UNCHANGED <<cutting, LFS, NFE, emptyCharArray, typed, printed, altered>>

InFlight == Len(lists.chain[outgoing_frames]) + Len(lists.chain[incoming_frames])

\* handle_outgoing_frames: the frame in the slot has timed out, or is lost.
Resend ==
  /\ cutting = NULL /\ slot # NULL
  /\ InFlight < MaxInFlight /\ Fresh(lists) # {}
  /\ lists' = ll_append_node(lists, outgoing_frames, new_node, slot)
  /\ UNCHANGED <<cutting, LFS, slot, NFE, emptyCharArray, typed, printed, altered>>

\* The switch: send_frame inverts the byte at an index, or none.
SendFrame(index) ==
  /\ cutting = NULL /\ NotEmpty(lists, outgoing_frames)
  /\ index # 0 => Cardinality(altered) < MaxFaults
  /\ LET f == ll_peek_node(lists, outgoing_frames)
         popped == ll_pop_node(lists, outgoing_frames)
         new == CHOOSE a \in Fresh(popped) : TRUE
     IN  /\ lists' = ll_append_node(popped, incoming_frames, new, Inverted(f, index))
         /\ altered' = IF index = 0 THEN altered ELSE altered \cup {new}
  /\ UNCHANGED <<cutting, LFS, slot, NFE, emptyCharArray, typed, printed>>

Corrupted(f) == compute_crc8(convert_frame_to_char(f)) # 0

\* The frame that is due: its bytes join those before, and the last frame of
\* the message prints it.
Assemble(f) ==
  LET array == Copied(realloc(emptyCharArray, f.starting_index + f.len),
                      f.starting_index, f.data, f.len)
      last  == f.remaining_msg_bytes = 0
  IN  /\ printed' = IF last THEN Append(printed, AsString(array)) ELSE printed
      /\ emptyCharArray' = IF last THEN [array EXCEPT ![1] = NUL] ELSE array
      /\ NFE' = uint8(NFE + 1)

\* handle_incoming_frames of the receiver.  altered keeps only live nodes.
Receive ==
  /\ cutting = NULL /\ NotEmpty(lists, incoming_frames)
  /\ LET f == ll_peek_node(lists, incoming_frames)
     IN  IF ~Corrupted(f) /\ seq_num_diff(NFE, f.seq_num) = 0 THEN Assemble(f)
         ELSE UNCHANGED <<NFE, emptyCharArray, printed>>
  /\ lists' = ll_pop_node(lists, incoming_frames)
  /\ altered' = altered \ {lists.head[incoming_frames]}
  /\ UNCHANGED <<cutting, LFS, slot, typed>>

\* handle_incoming_acks, at an ack of all the receiver has accepted.
Acked ==
  /\ cutting = NULL /\ slot # NULL
  /\ seq_num_diff(slot.seq_num, uint8(NFE - 1)) >= 0
  /\ slot' = NULL
  /\ UNCHANGED <<lists, cutting, LFS, NFE, emptyCharArray, typed, printed, altered>>

Next ==
  \/ \E msg_length \in MsgLengths : Type(msg_length)
  \/ PopCmd \/ CutFrame \/ FillSlot \/ Resend
  \/ \E index \in 0 .. MAX_FRAME_SIZE : SendFrame(index)
  \/ Receive \/ Acked

Spec == Init /\ [][Next]_vars

-----------------------------------------------------------------------------
\* The queues share one heap, and pointers are all there is to hold them
\* apart: each stays a ring of exactly the nodes appended to it, in order.
QueuesAreRings == Queues(lists)

\* A byte the switch inverts, be it of the header, of the data or of the CRC
\* itself, makes the CRC of the frame differ from 0; that of any other frame,
\* sent for the first time or again, is 0.
CorruptionDetected ==
  \A i \in DOMAIN lists.chain[incoming_frames] :
    LET a == lists.chain[incoming_frames][i]
    IN  Corrupted(lists.heap[a].value) <=> a \in altered

\* What is printed is what was typed, every byte of every message, in order.
MessagesWhole ==
  /\ Len(printed) <= Len(typed)
  /\ \A k \in DOMAIN printed : Append(printed[k], NUL) = typed[k]
=============================================================================
