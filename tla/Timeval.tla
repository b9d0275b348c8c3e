------------------------------ MODULE Timeval -------------------------------
(***************************************************************************)
(* struct timeval and the arithmetic on it in util.c.  USEC_PER_SEC is     *)
(* 1000000 in the program and a handful in the instances TLC checks, so    *)
(* that microseconds carry into seconds.                                   *)
(***************************************************************************)
EXTENDS Integers

CONSTANT USEC_PER_SEC

ASSUME UsecAssumption == USEC_PER_SEC \in Nat \ {0}

Timeval == [tv_sec : Nat, tv_usec : 0 .. USEC_PER_SEC - 1]

\* How many microseconds finish_time lies after start_time.
timeval_usecdiff(start_time, finish_time) ==
  (finish_time.tv_sec - start_time.tv_sec) * USEC_PER_SEC
    + (finish_time.tv_usec - start_time.tv_usec)

timeval_usecplus_CarriesTooLate(t, usec) ==
  LET new_us == t.tv_usec + usec
  IN  IF new_us > USEC_PER_SEC
      THEN [tv_sec  |-> t.tv_sec + new_us \div USEC_PER_SEC,
            tv_usec |-> new_us % USEC_PER_SEC]
      ELSE [t EXCEPT !.tv_usec = new_us]

\* The time usec microseconds after t.
timeval_usecplus(t, usec) ==
  LET new_us == t.tv_usec + usec
  IN  IF new_us >= USEC_PER_SEC
      THEN [tv_sec  |-> t.tv_sec + new_us \div USEC_PER_SEC,
            tv_usec |-> new_us % USEC_PER_SEC]
      ELSE [t EXCEPT !.tv_usec = new_us]
=============================================================================
