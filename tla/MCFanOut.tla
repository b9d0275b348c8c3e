------------------------------ MODULE MCFanOut ------------------------------
(***************************************************************************)
(* One host talks to two others (and once in a while to itself).  Its user *)
(* types only while nothing is outstanding, so that all the messages a     *)
(* window has to be shared for are in the buffer before the first is sent. *)
(***************************************************************************)
EXTENDS TritonTalk

FanOut == {<<0, 1>>, <<0, 2>>, <<0, 0>>}

TwoReceivers == {<<0, 1>>, <<0, 2>>}

MCNext ==
  /\ Next
  /\ typed' # typed =>
       \A h \in Hosts : ~Busy(send_window[h], buffered_outframes[h])

MCSpec == Init /\ [][MCNext]_vars
=============================================================================
