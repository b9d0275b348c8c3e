------------------------------ MODULE Fragment -------------------------------
(***************************************************************************)
(* How handle_input_cmds cuts a message of msg_length bytes, its NUL       *)
(* included, into frames, and how wide the fields are that say so.         *)
(***************************************************************************)
EXTENDS Integers

CONSTANTS FRAME_PAYLOAD_SIZE,   \* 53
          USHORT_MAX            \* 65535, the width of uint16_t

ASSUME FragmentAssumption ==
  /\ FRAME_PAYLOAD_SIZE \in 1 .. 255
  /\ USHORT_MAX \in Nat /\ USHORT_MAX >= FRAME_PAYLOAD_SIZE

uint16(n) == n % (USHORT_MAX + 1)

\* ceil(msg_length / FRAME_PAYLOAD_SIZE); one frame for a message that fits.
num_frames(msg_length) ==
  (msg_length + FRAME_PAYLOAD_SIZE - 1) \div FRAME_PAYLOAD_SIZE

starting_index(i) == uint16(i * FRAME_PAYLOAD_SIZE)

remaining_msg_bytes(msg_length, i) ==
  LET rest == msg_length - (i + 1) * FRAME_PAYLOAD_SIZE
  IN  uint16(IF rest > 0 THEN rest ELSE 0)

numbytes_WithoutNul(msg_length, i) ==
  IF remaining_msg_bytes(msg_length, i) > 0 THEN FRAME_PAYLOAD_SIZE
  ELSE (msg_length - 1 - i * FRAME_PAYLOAD_SIZE) % 256

\* numbytes and len are uint8_t.
numbytes(msg_length, i) ==
  IF remaining_msg_bytes(msg_length, i) > 0 THEN FRAME_PAYLOAD_SIZE
  ELSE (msg_length - i * FRAME_PAYLOAD_SIZE) % 256
=============================================================================
