----------------------------- MODULE MCLiveness -----------------------------
(***************************************************************************)
(* One host sends two messages over a line that corrupts finitely many     *)
(* frames; the second is long enough for the numbers to wrap.              *)
(***************************************************************************)
EXTENDS MCFaults

CONSTANT FirstPieces   \* the pieces of the first message

OneWay == {<<0, 1>>}

MCNext == Next /\ typed'[0][1] \in {0, FirstPieces, MaxPieces} /\ FewFaults

MCSpec == Init /\ faults = 0 /\ [][MCNext]_<<vars, faults>> /\ Fairness
=============================================================================
