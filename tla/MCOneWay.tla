------------------------------ MODULE MCOneWay ------------------------------
(* One host talks to another; nobody answers but with acks. *)
EXTENDS TritonTalk

OneWay == {<<0, 1>>}
=============================================================================
