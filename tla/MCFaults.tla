------------------------------ MODULE MCFaults ------------------------------
(* A line that corrupts a bounded number of frames. *)
EXTENDS TritonTalk

CONSTANT MaxFaults   \* bound: corrupted frames in a behaviour

VARIABLE faults

Arrived(h) == Len(incoming_frames'[h]) > Len(incoming_frames[h])

NewFaults ==
  Cardinality({h \in Hosts :
    Arrived(h) /\ ~incoming_frames'[h][Len(incoming_frames'[h])].intact})

FewFaults == faults' = faults + NewFaults /\ faults' <= MaxFaults
=============================================================================
