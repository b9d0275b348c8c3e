----------------------------- MODULE Congestion -----------------------------
(***************************************************************************)
(* The congestion controller one host keeps per receiver (struct           *)
(* CongestionControl, and the arithmetic on it in sender.c).  cwnd and     *)
(* ssthresh are doubles counted in frames; here they are integers counted  *)
(* in units of 1/CWND_UNIT frame, rounded down.                            *)
(***************************************************************************)
EXTENDS Integers

CONSTANT CWND_UNIT

ASSUME CwndUnitAssumption == CWND_UNIT \in Nat /\ CWND_UNIT >= 2

CCStates == {"SS", "AIMD", "FRFT"}

CongestionControl == [cwnd : Nat, ssthresh : Nat, state : CCStates]

InitCC_CwndNotSet(window_size) ==
  [cwnd |-> 0, ssthresh |-> window_size * CWND_UNIT, state |-> "SS"]

InitCC(window_size) ==
  [cwnd |-> CWND_UNIT, ssthresh |-> window_size * CWND_UNIT, state |-> "SS"]

\* The loss reaction to an accepted ack, dups being the number of duplicate
\* acks of this receiver seen so far in the round, this one included.  It is
\* taken for every accepted ack: an ack that is not a duplicate leaves dups
\* where it was, and so halves the window again when dups is 3.
CountDuplicate(c, dups) ==
  CASE dups = 3 -> [c EXCEPT !.ssthresh = c.cwnd \div 2,
                             !.cwnd = c.cwnd \div 2 + 3 * CWND_UNIT]
    [] dups = 4 -> [c EXCEPT !.state = "FRFT", !.cwnd = @ + CWND_UNIT]
    [] dups > 4 -> [c EXCEPT !.cwnd = @ + CWND_UNIT]
    [] OTHER    -> c

\* The growth after it: one frame per ack up to ssthresh, then 1/cwnd for an
\* ack whose number is the larger one.
Grow(c, larger) ==
  IF c.cwnd <= c.ssthresh THEN [c EXCEPT !.cwnd = @ + CWND_UNIT]
  ELSE IF larger
       THEN [c EXCEPT !.cwnd = @ + (CWND_UNIT * CWND_UNIT) \div c.cwnd,
                      !.state = "AIMD"]
       ELSE c

OnAck(c, dups, larger) == Grow(CountDuplicate(c, dups), larger)

\* The window shrinks to ssthresh when the lost frame is retransmitted.
OnFastRetransmit(c) == [c EXCEPT !.cwnd = c.ssthresh]

\* Whole frames the window is worth (the truncation at sender.c:382).
WholeFrames(c) == c.cwnd \div CWND_UNIT
=============================================================================
