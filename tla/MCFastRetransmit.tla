-------------------------- MODULE MCFastRetransmit --------------------------
(***************************************************************************)
(* One long message through a port that lets four of the five frames of a  *)
(* window in: the fifth is lost and the frames behind it cause the four    *)
(* duplicate acks of a fast retransmission.                                *)
(***************************************************************************)
EXTENDS TritonTalk

CONSTANT MaxExpiries   \* bound: turns of a host that find a deadline passed

VARIABLE expiries

OneWay == {<<0, 1>>}

MCInit == Init /\ expiries = 0

MCNext ==
  /\ Next
  /\ typed' # typed => typed'[0][1] = MaxPieces
  /\ expiries' = expiries + (IF expired = {} /\ expired' # {} THEN 1 ELSE 0)
  /\ expiries' <= MaxExpiries

MCSpec == MCInit /\ [][MCNext]_<<vars, expiries>>

=============================================================================
