----------------------------- MODULE MCBothWays -----------------------------
(***************************************************************************)
(* Two hosts talk to each other.  Host 0 sends one message long enough for *)
(* its numbers to wrap; host 1 answers, at any time, with a message of two *)
(* frames: if the first arrives corrupted, the second is left behind it    *)
(* and host 0 reads it as an ack of 0, before, at or after its wrap.       *)
(***************************************************************************)
EXTENDS MCFaults

CONSTANTS
  FirstPieces,    \* the pieces of the first message of host 0
  AnswerPieces    \* the pieces host 1 sends

BothWays == {<<0, 1>>, <<1, 0>>}

MCNext ==
  /\ Next
  /\ typed'[0][1] \in {0, FirstPieces, MaxPieces}
  /\ typed'[1][0] \in {0, AnswerPieces}
  /\ FewFaults

MCSpec == Init /\ faults = 0 /\ [][MCNext]_<<vars, faults>>
=============================================================================
