----------------------------- MODULE SendTimers ------------------------------
(***************************************************************************)
(* The deadlines of the send window of one host, in microseconds, through  *)
(* the turns the host gets in run_senders (sender.c).  Sender only knows   *)
(* whether a deadline has passed; here is what decides it.                 *)
(*                                                                         *)
(* Everything else a turn depends on is left open: whether a command or a  *)
(* frame has arrived, which slots the acks free, which frames are due for  *)
(* fast retransmission and how many buffered frames may leave.  The clock  *)
(* may stand still between two turns, jump ahead, or be set back.          *)
(***************************************************************************)
EXTENDS Timeval, FiniteSets

CONSTANTS
  window_size,
  TIMEOUT_INTERVAL_USEC,
  GAP_USEC,              \* the 10000 of sender.c:301, 326 and 457
  MaxSec                 \* bound: seconds a behaviour takes

ASSUME TimersAssumption ==
  /\ window_size \in Nat \ {0}
  /\ TIMEOUT_INTERVAL_USEC \in Nat \ {0} /\ GAP_USEC \in Nat \ {0}
  /\ MaxSec \in Nat

Slots == 0 .. window_size - 1

VARIABLES
  stage,            \* the handler that comes next, "idle" between two turns
  curr_timeval,     \* the clock as read at the start of the turn
  frame,            \* the slots that hold a frame
  timeout,          \* the deadline of a slot, or NULL
  latest_timeout,
  previous,         \* history: the clock as read at the last turn that ended
  older             \* history: <<q, r>> when q was last sent before r

vars == <<stage, curr_timeval, frame, timeout, latest_timeout, previous, older>>

NULL == [null |-> TRUE]

HasDeadline == {q \in Slots : timeout[q] # NULL}

Init ==
  /\ stage = "idle"
  /\ latest_timeout \in [tv_sec : {0}, tv_usec : 0 .. USEC_PER_SEC - 1]
  /\ curr_timeval = latest_timeout /\ previous = latest_timeout
  /\ frame = {} /\ timeout = [q \in Slots |-> NULL] /\ older = {}

-----------------------------------------------------------------------------
\* The slots host_get_next_expiring_timeval may point to.
NextExpiring_Latest ==
  {q \in HasDeadline :
     \A r \in HasDeadline : timeval_usecdiff(timeout[q], timeout[r]) <= 0}

NextExpiring ==
  {q \in HasDeadline :
     \A r \in HasDeadline : timeval_usecdiff(timeout[q], timeout[r]) >= 0}

\* The time t is the deadline of slot q or later.
Passed(t, q) == timeval_usecdiff(t, timeout[q]) <= 0

reached_timeout(t) == \E q \in NextExpiring : Passed(t, q)

\* Without a command or an incoming frame the host wakes only for a deadline.
Sleep(t) ==
  /\ stage = "idle" /\ ~reached_timeout(t)
  /\ curr_timeval' = t /\ previous' = t
  /\ UNCHANGED <<stage, frame, timeout, latest_timeout, older>>

Wake(t, incoming_frames_cmds) ==
  /\ stage = "idle" /\ latest_timeout.tv_sec < MaxSec
  /\ incoming_frames_cmds \/ reached_timeout(t)
  /\ curr_timeval' = t
  /\ stage' = "acks"
  /\ UNCHANGED <<frame, timeout, latest_timeout, previous, older>>

Among(S) == older \cap (S \X S)

\* handle_incoming_acks frees some slots, and with the frame goes its deadline.
HandleAcks(freed) ==
  /\ stage = "acks"
  /\ frame' = frame \ freed /\ older' = Among(frame \ freed)
  /\ timeout' = [q \in Slots |-> IF q \in freed THEN NULL ELSE timeout[q]]
  /\ stage' = "timedout"
  /\ UNCHANGED <<curr_timeval, latest_timeout, previous>>

\* The deadlines handle_timedout_frames clears.
Due == {q \in HasDeadline : Passed(curr_timeval, q)}

HandleTimedout ==
  /\ stage = "timedout"
  /\ timeout' = [q \in Slots |-> IF q \in Due THEN NULL ELSE timeout[q]]
  /\ stage' = "outgoing"
  /\ UNCHANGED <<curr_timeval, frame, latest_timeout, previous, older>>

-----------------------------------------------------------------------------
(***************************************************************************)
(* handle_outgoing_frames: frames leave in three loops over the window,    *)
(* first those due for fast retransmission, then those without a deadline, *)
(* then the n buffered frames that move into the lowest free slots.        *)
(***************************************************************************)
Before(q, S) == Cardinality({r \in S : r < q})

Late(fast) == (frame \ HasDeadline) \ fast

Filled(n) == {q \in Slots \ frame : Before(q, Slots \ frame) < n}

\* How many frames leave before that of slot q.
Position(q, fast, n) ==
  CASE q \in fast       -> Before(q, fast)
    [] q \in Late(fast) -> Cardinality(fast) + Before(q, Late(fast))
    [] OTHER            -> Cardinality(fast) + Cardinality(Late(fast))
                             + Before(q, Filled(n))

Sent(fast, n) == fast \cup Late(fast) \cup Filled(n)

Start_ClockOnly == curr_timeval

\* The time the deadlines count from.
Start ==
  IF timeval_usecdiff(curr_timeval, latest_timeout) > 0
  THEN latest_timeout ELSE curr_timeval

Deadline_SameForAll(q, fast, n) ==
  timeval_usecplus(Start, TIMEOUT_INTERVAL_USEC)

Deadline(q, fast, n) ==
  timeval_usecplus(Start, TIMEOUT_INTERVAL_USEC + Position(q, fast, n) * GAP_USEC)

HandleOutgoing(fast, n) ==
  /\ stage = "outgoing"
  /\ frame' = frame \cup Filled(n)
  /\ timeout' = [q \in Slots |-> IF q \in Sent(fast, n)
                                 THEN Deadline(q, fast, n) ELSE timeout[q]]
  /\ latest_timeout' =
       timeval_usecplus(Start, Cardinality(Sent(fast, n)) * GAP_USEC)
  /\ LET sent == Sent(fast, n)
         kept == frame \ sent
     IN  older' = Among(kept) \cup (kept \X sent)
                    \cup {p \in sent \X sent :
                           Position(p[1], fast, n) < Position(p[2], fast, n)}
  /\ previous' = curr_timeval
  /\ stage' = "idle"
  /\ UNCHANGED curr_timeval

Clock == [tv_sec : 0 .. MaxSec, tv_usec : 0 .. USEC_PER_SEC - 1]

Next ==
  \/ \E t \in Clock : Sleep(t) \/ \E incoming \in BOOLEAN : Wake(t, incoming)
  \/ \E freed \in SUBSET frame : HandleAcks(freed)
  \/ HandleTimedout
  \/ \E fast \in SUBSET frame, n \in 0 .. window_size : HandleOutgoing(fast, n)

Spec == Init /\ [][Next]_vars

-----------------------------------------------------------------------------
\* Every time is normalised: less than a second of microseconds.
TypeOK ==
  /\ stage \in {"idle", "acks", "timedout", "outgoing"}
  /\ curr_timeval \in Timeval /\ latest_timeout \in Timeval /\ previous \in Timeval
  /\ frame \subseteq Slots
  /\ timeout \in [Slots -> Timeval \cup {NULL}]

\* No deadline that a turn found passed is left behind: a host that sleeps,
\* or has finished its turn, has only deadlines in the future.
NoneOverdue ==
  stage = "idle" => \A q \in HasDeadline : ~Passed(curr_timeval, q)

\* The 10 ms between frames enable selective retransmission (the comment at
\* sender.c:441): while the turns of a host are less than that apart, no turn
\* finds more than one deadline passed, whatever frames the turns before sent
\* and resent.
SelectiveRetransmission ==
  stage = "timedout" /\ timeval_usecdiff(previous, curr_timeval) < GAP_USEC
    => \A q, r \in Due : q = r

TimerQueue == INSTANCE FifoTimeouts WITH held <- frame, lost <- frame \ HasDeadline

\* Frames time out in the order they were last sent (the comment at
\* sender.c:486), over any number of turns and any behaviour of the clock.
InOrderSent == TimerQueue!Spec
=============================================================================
