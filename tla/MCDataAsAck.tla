---------------------------- MODULE MCDataAsAck -----------------------------
(***************************************************************************)
(* Two hosts talk to each other: host 1 has two messages, host 0 a long    *)
(* conversation, typed as the earlier messages arrive.  Only frames for    *)
(* host 0 are corrupted.  LFS stays less than half a turn ahead of LAR, as *)
(* it does with 256 numbers unless very much is typed ahead.               *)
(***************************************************************************)
EXTENDS TritonTalk

CONSTANTS
  MaxAhead,      \* bound: pieces host 0 types ahead of what is delivered
  MaxAnswers,    \* bound: pieces host 1 types
  MaxFaults,     \* bound: corrupted frames in a behaviour
  MaxExpiries    \* bound: deadlines that pass

VARIABLES faults, expiries

BothWays == {<<0, 1>>, <<1, 0>>}

NewFaults(h) ==
  Cardinality({i \in DOMAIN incoming_frames'[h] :
                 /\ i > Len(incoming_frames[h])
                 /\ ~incoming_frames'[h][i].intact})

NewExpiries == IF cur = NoHost THEN Cardinality(expired') ELSE 0

MCNext ==
  /\ Next
  /\ typed'[0][1] # typed[0][1] =>
       typed'[0][1] <= Cardinality(Delivered(0, 1)) + MaxAhead
  /\ typed'[1][0] <= MaxAnswers
  /\ NewFaults(1) = 0
  /\ faults' = faults + NewFaults(0) /\ faults' <= MaxFaults
  /\ expiries' = expiries + NewExpiries /\ expiries' <= MaxExpiries

MCSpec ==
  Init /\ faults = 0 /\ expiries = 0 /\ [][MCNext]_<<vars, faults, expiries>>
=============================================================================
