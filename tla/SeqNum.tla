------------------------------- MODULE SeqNum -------------------------------
(***************************************************************************)
(* Arithmetic on the 8-bit sequence numbers of the protocol (util.c,       *)
(* common.h).  MAX_SEQ_NUM is 255 in the program; every definition below   *)
(* is stated for an arbitrary MAX_SEQ_NUM, so that the wrap-around happens *)
(* after a handful of frames in the instances TLC checks.                  *)
(***************************************************************************)
EXTENDS Integers

CONSTANT MAX_SEQ_NUM

ASSUME SeqNumAssumption == MAX_SEQ_NUM \in Nat /\ MAX_SEQ_NUM >= 3

SeqNums == 0 .. MAX_SEQ_NUM

(***************************************************************************)
(* Operators named <definition>_<mistake> here and in the other modules    *)
(* are what a definition would be after a plausible mistake in its code.   *)
(* Nothing refers to them; the runs of this directory tell each from the   *)
(* right one.                                                              *)
(***************************************************************************)
uint8_NoOverflow(n) == IF n < 0 THEN n + MAX_SEQ_NUM + 1 ELSE n

uint8_OneValueShort(n) == n % MAX_SEQ_NUM

\* The conversion of an int to uint8_t on assignment to LAR, LFS, NFE, ...
uint8(n) == n % (MAX_SEQ_NUM + 1)

\* 127 in util.c.
HALF_SEQ_NUM == MAX_SEQ_NUM \div 2

\* How far x2 lies ahead of x1 on the circle of sequence numbers.
seq_num_diff(x1, x2) ==
  LET diff == x2 - x1
  IN  IF diff > HALF_SEQ_NUM THEN diff - (MAX_SEQ_NUM + 1)
      ELSE IF diff < -HALF_SEQ_NUM THEN diff + (MAX_SEQ_NUM + 1)
      ELSE diff

abs(n) == IF n < 0 THEN -n ELSE n

\* With the parenthesis where it was probably meant to be.
AckRejected_BothAbs(ack, lar, lfs) ==
  abs(seq_num_diff(ack, lar)) + abs(seq_num_diff(ack, lfs))
    > abs(seq_num_diff(lar, lfs))

\* sender.c:90.  The parenthesis of the first abs closes after the whole
\* comparison, so the distance from ack to LAR enters with its sign.
AckRejected(ack, lar, lfs) ==
  seq_num_diff(ack, lar) + abs(seq_num_diff(ack, lfs))
    > abs(seq_num_diff(lar, lfs))
=============================================================================
