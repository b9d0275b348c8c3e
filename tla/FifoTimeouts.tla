---------------------------- MODULE FifoTimeouts -----------------------------
(***************************************************************************)
(* What the deadlines of a send window promise (the comment at             *)
(* sender.c:486-497): frames time out in the order they were last sent.    *)
(***************************************************************************)
EXTENDS Naturals, FiniteSets

CONSTANT Slots

VARIABLES
  held,      \* the slots that hold a frame
  older,     \* <<q, r>> when the frame of q was last sent before that of r
  lost       \* the slots that have timed out and are not resent yet

Init == held = {} /\ older = {} /\ lost = {}

Among(S) == older \cap (S \X S)

\* Acks empty some slots.
Cancel(S) ==
  /\ held' = held \ S /\ older' = Among(held \ S) /\ lost' = lost \ S

\* Some slots have timed out now, and with a slot all those sent before it.
Expire(S) ==
  /\ lost \subseteq S /\ \A p \in older : p[2] \in S => p[1] \in S
  /\ lost' = S /\ UNCHANGED <<held, older>>

\* Frames are sent or sent again, the lost ones among them: the frame of q
\* is the turn[q]-th to leave.
Send(S, turn) ==
  /\ lost \subseteq S /\ lost' = {}
  /\ held' = held \cup S
  /\ older' = Among(held \ S) \cup ((held \ S) \X S)
                \cup {p \in S \X S : turn[p[1]] < turn[p[2]]}

Turns(S) ==
  {turn \in [S -> 0 .. Cardinality(S) - 1] :
     \A q, r \in S : turn[q] = turn[r] => q = r}

Next ==
  \/ \E S \in SUBSET held : Cancel(S) \/ Expire(S)
  \/ \E S \in SUBSET Slots : \E turn \in Turns(S) : Send(S, turn)

Spec == Init /\ [][Next]_<<held, older, lost>>
=============================================================================
