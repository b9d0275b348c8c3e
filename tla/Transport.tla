----------------------------- MODULE Transport ------------------------------
(***************************************************************************)
(* What the simulator promises its user: the messages typed for a pair of  *)
(* hosts come out at the receiver whole, once each and in the order they   *)
(* were typed, the pairs being independent of each other.                  *)
(***************************************************************************)
EXTENDS Naturals, Sequences

CONSTANTS Ends, Message

VARIABLES issued, printed

Init ==
  /\ issued = [s \in Ends |-> [d \in Ends |-> <<>>]]
  /\ printed = [d \in Ends |-> [s \in Ends |-> <<>>]]

\* The user types a message m from s to d.
Type(s, d, m) ==
  /\ issued' = [issued EXCEPT ![s][d] = Append(@, m)]
  /\ UNCHANGED printed

\* d prints the oldest message from s it has not printed yet.
Deliver(s, d) ==
  /\ Len(printed[d][s]) < Len(issued[s][d])
  /\ printed' = [printed EXCEPT ![d][s] =
                   Append(@, issued[s][d][Len(printed[d][s]) + 1])]
  /\ UNCHANGED issued

Next ==
  \E s, d \in Ends : (\E m \in Message : Type(s, d, m)) \/ Deliver(s, d)

Spec == Init /\ [][Next]_<<issued, printed>>
=============================================================================
