------------------------------ MODULE MCFanIn -------------------------------
(* Two hosts talk to a third one, whose port lets one frame in per round. *)
EXTENDS Transfer

FanIn == {<<0, 2>>, <<1, 2>>}

MCSpec == Spec /\ SelectiveFairness
=============================================================================
