---------------------------- MODULE TimerProofs -----------------------------
(***************************************************************************)
(* The deadlines of a host, for every window size, timeout, spacing and    *)
(* length of a second, and for every behaviour of the clock.               *)
(***************************************************************************)
EXTENDS SendTimers, FiniteSetTheorems, TLAPS, WellFoundedInduction

usec(t) == t.tv_sec * USEC_PER_SEC + t.tv_usec

-----------------------------------------------------------------------------
(* The arithmetic of util.c is that of the integers. *)

LEMMA UsecType ==
  ASSUME NEW t \in Timeval
  PROVE  t.tv_sec \in Nat /\ t.tv_usec \in Nat /\ usec(t) \in Nat
<1>1. t.tv_sec \in Nat /\ t.tv_usec \in Nat
  BY UsecAssumption DEF Timeval
<1>2. t.tv_sec * USEC_PER_SEC \in Nat
  BY <1>1, UsecAssumption
<1> QED BY <1>1, <1>2 DEF usec

LEMMA DiffIsDistance ==
  ASSUME NEW s \in Timeval, NEW t \in Timeval
  PROVE  timeval_usecdiff(s, t) = usec(t) - usec(s)
<1>1. \A a, b, k \in Int : (b - a) * k = b * k - a * k
  OBVIOUS
<1>2. (t.tv_sec - s.tv_sec) * USEC_PER_SEC
        = t.tv_sec * USEC_PER_SEC - s.tv_sec * USEC_PER_SEC
  BY <1>1, UsecType, UsecAssumption
<1>3. t.tv_sec * USEC_PER_SEC \in Int /\ s.tv_sec * USEC_PER_SEC \in Int
  BY UsecType, UsecAssumption
<1> QED BY <1>2, <1>3, UsecType DEF timeval_usecdiff, usec

LEMMA PlusAdds ==
  ASSUME NEW t \in Timeval, NEW n \in Nat
  PROVE  timeval_usecplus(t, n) \in Timeval /\ usec(timeval_usecplus(t, n)) = usec(t) + n
<1> DEFINE new == t.tv_usec + n
           q   == new \div USEC_PER_SEC
           r   == new % USEC_PER_SEC
<1>1. /\ t.tv_sec \in Nat /\ t.tv_usec \in 0 .. USEC_PER_SEC - 1
      /\ t = [tv_sec |-> t.tv_sec, tv_usec |-> t.tv_usec]
  BY DEF Timeval
<1>2. new \in Nat /\ USEC_PER_SEC \in Nat /\ USEC_PER_SEC > 0
  BY <1>1, UsecAssumption
<1>3. q \in Nat /\ r \in 0 .. USEC_PER_SEC - 1 /\ new = USEC_PER_SEC * q + r
  <2> HIDE DEF new
  <2> QED BY <1>2
<1>4. CASE new >= USEC_PER_SEC
  <2>1. timeval_usecplus(t, n) = [tv_sec |-> t.tv_sec + q, tv_usec |-> r]
    BY <1>4 DEF timeval_usecplus
  <2>2. timeval_usecplus(t, n) \in Timeval
    <3> HIDE DEF q, r
    <3> QED BY <2>1, <1>1, <1>3 DEF Timeval
  <2>3. usec(timeval_usecplus(t, n)) = (t.tv_sec + q) * USEC_PER_SEC + r
    <3> HIDE DEF q, r
    <3> QED BY <2>1 DEF usec
  <2>4. \A a, b, k \in Int : (a + b) * k = a * k + k * b
    OBVIOUS
  <2>5. (t.tv_sec + q) * USEC_PER_SEC = t.tv_sec * USEC_PER_SEC + USEC_PER_SEC * q
    <3> HIDE DEF q
    <3> QED BY <2>4, <1>1, <1>2, <1>3
  <2>6. t.tv_sec * USEC_PER_SEC \in Int /\ USEC_PER_SEC * q \in Int
    <3> HIDE DEF q
    <3> QED BY <1>1, <1>2, <1>3
  <2> HIDE DEF q, r
  <2> QED BY <2>2, <2>3, <2>5, <2>6, <1>1, <1>3 DEF usec
<1>5. CASE ~(new >= USEC_PER_SEC)
  <2>1. timeval_usecplus(t, n) = [t EXCEPT !.tv_usec = new]
    BY <1>5 DEF timeval_usecplus
  <2>2. timeval_usecplus(t, n) = [tv_sec |-> t.tv_sec, tv_usec |-> new]
    BY <2>1, <1>1 DEF Timeval
  <2>3. t.tv_sec * USEC_PER_SEC \in Int
    BY <1>1, <1>2
  <2> QED BY <2>2, <2>3, <1>1, <1>2, <1>5 DEF usec, Timeval
<1> QED BY <1>4, <1>5

-----------------------------------------------------------------------------
(* The frames of a turn take the positions 0, 1, 2, ... in the order they   *)
(* leave: no two the same, none beyond their number.                        *)

LEMMA SlotsFinite == IsFiniteSet(Slots) /\ Slots \subseteq Nat
BY FS_Interval, TimersAssumption DEF Slots

LEMMA BeforeBounds ==
  ASSUME NEW S \in SUBSET Slots, NEW q \in S
  PROVE  /\ Cardinality(S) \in Nat
         /\ Before(q, S) \in Nat /\ Before(q, S) < Cardinality(S)
<1>1. IsFiniteSet(S) /\ Cardinality(S) \in Nat /\ q \in Nat
  BY SlotsFinite, FS_Subset, FS_CardinalityType
<1>2. IsFiniteSet(S \ {q}) /\ Cardinality(S \ {q}) = Cardinality(S) - 1
  BY <1>1, FS_RemoveElement
<1>3. {r \in S : r < q} \in SUBSET (S \ {q})
  BY <1>1
<1>4. /\ IsFiniteSet({r \in S : r < q})
      /\ Cardinality({r \in S : r < q}) <= Cardinality(S \ {q})
  BY <1>2, <1>3, FS_Subset
<1>5. Cardinality({r \in S : r < q}) \in Nat
  BY <1>4, FS_CardinalityType
<1> QED BY <1>1, <1>2, <1>4, <1>5 DEF Before

LEMMA BeforeIncreases ==
  ASSUME NEW S \in SUBSET Slots, NEW q \in S, NEW r \in S, q < r
  PROVE  Before(q, S) < Before(r, S)
<1> DEFINE A == {k \in S : k < q}
           B == {k \in S : k < r}
<1>1. IsFiniteSet(A) /\ IsFiniteSet(B)
  BY SlotsFinite, FS_Subset
<1>2. IsFiniteSet(A \cup {q}) /\ Cardinality(A \cup {q}) = Cardinality(A) + 1
  <2>1. q \notin A
    BY SlotsFinite
  <2> QED BY <1>1, <2>1, FS_AddElement
<1>3. A \cup {q} \in SUBSET B
  <2>1. S \subseteq Nat
    BY SlotsFinite
  <2>2. \A k \in S : k < q => k < r
    BY <2>1
  <2> QED BY <2>2
<1>4. Cardinality(A \cup {q}) <= Cardinality(B)
  BY <1>1, <1>3, FS_Subset
<1>5. Cardinality(A) \in Nat /\ Cardinality(B) \in Nat
  BY <1>1, FS_CardinalityType
<1> QED BY <1>2, <1>4, <1>5 DEF Before

LEMMA BeforeInjective ==
  ASSUME NEW S \in SUBSET Slots, NEW q \in S, NEW r \in S, q # r
  PROVE  Before(q, S) # Before(r, S)
<1>1. q < r \/ r < q
  BY SlotsFinite
<1> QED BY <1>1, BeforeIncreases, BeforeBounds

LEMMA DisjointUnion ==
  ASSUME NEW S, NEW T, IsFiniteSet(S), IsFiniteSet(T), S \cap T = {}
  PROVE  /\ IsFiniteSet(S \cup T)
         /\ Cardinality(S \cup T) = Cardinality(S) + Cardinality(T)
<1>1. /\ IsFiniteSet(S \cup T)
      /\ Cardinality(S \cup T)
           = Cardinality(S) + Cardinality(T) - Cardinality(S \cap T)
  BY FS_Union
<1>2. Cardinality(S \cap T) = 0
  BY FS_EmptySet
<1>3. Cardinality(S) \in Nat /\ Cardinality(T) \in Nat
  BY FS_CardinalityType
<1> QED BY <1>1, <1>2, <1>3

LEMMA PositionsDistinct ==
  ASSUME NEW fast \in SUBSET frame, NEW n \in Nat, frame \subseteq Slots,
         NEW q \in Sent(fast, n)
  PROVE  /\ Cardinality(Sent(fast, n)) \in Nat
         /\ Position(q, fast, n) \in Nat
         /\ Position(q, fast, n) < Cardinality(Sent(fast, n))
         /\ \A r \in Sent(fast, n) :
              r # q => Position(q, fast, n) # Position(r, fast, n)
<1> DEFINE F == fast
           L == Late(fast)
           B == Filled(n)
           S == Sent(fast, n)
<1>1. F \in SUBSET Slots /\ L \in SUBSET Slots /\ B \in SUBSET Slots
  BY DEF Late, Filled
<1>2. F \cap L = {} /\ (F \cup L) \cap B = {} /\ S = (F \cup L) \cup B
  BY DEF Late, Filled, Sent
<1>3. IsFiniteSet(F) /\ IsFiniteSet(L) /\ IsFiniteSet(B)
  BY <1>1, SlotsFinite, FS_Subset
<1>4. Cardinality(F) \in Nat /\ Cardinality(L) \in Nat /\ Cardinality(B) \in Nat
  BY <1>3, FS_CardinalityType
<1>5. IsFiniteSet(F \cup L) /\ Cardinality(F \cup L) = Cardinality(F) + Cardinality(L)
  BY <1>2, <1>3, DisjointUnion
<1>6. Cardinality(S) = Cardinality(F) + Cardinality(L) + Cardinality(B)
  <2>1. Cardinality((F \cup L) \cup B) = Cardinality(F \cup L) + Cardinality(B)
    BY <1>2, <1>3, <1>5, DisjointUnion
  <2> QED BY <2>1, <1>2, <1>5
<1>7. \A s \in S :
        \/ s \in F /\ Position(s, fast, n) = Before(s, F)
        \/ s \in L /\ Position(s, fast, n) = Cardinality(F) + Before(s, L)
        \/ s \in B /\ Position(s, fast, n) = Cardinality(F) + Cardinality(L) + Before(s, B)
  BY <1>2 DEF Position
<1>8. /\ \A s \in F : Before(s, F) \in Nat /\ Before(s, F) < Cardinality(F)
      /\ \A s \in L : Before(s, L) \in Nat /\ Before(s, L) < Cardinality(L)
      /\ \A s \in B : Before(s, B) \in Nat /\ Before(s, B) < Cardinality(B)
  BY <1>1, BeforeBounds
<1>9. /\ \A s, r \in F : r # s => Before(s, F) # Before(r, F)
      /\ \A s, r \in L : r # s => Before(s, L) # Before(r, L)
      /\ \A s, r \in B : r # s => Before(s, B) # Before(r, B)
  BY <1>1, BeforeInjective
<1> HIDE DEF F, L, B, S
<1>10. q \in S
  BY DEF S
<1>11. Position(q, fast, n) \in Nat /\ Position(q, fast, n) < Cardinality(S)
  BY <1>4, <1>6, <1>7, <1>8, <1>10
<1>12. ASSUME NEW r \in S, r # q
       PROVE  Position(q, fast, n) # Position(r, fast, n)
  BY <1>4, <1>7, <1>8, <1>9, <1>10, <1>12
<1> QED BY <1>4, <1>6, <1>11, <1>12 DEF S

-----------------------------------------------------------------------------
(***************************************************************************)
(* The inductive invariant.  Deadlines are GAP_USEC apart because the next *)
(* turn counts from latest_timeout or later, and no deadline is later than *)
(* that by TIMEOUT_INTERVAL_USEC or more.                                  *)
(***************************************************************************)
Spaced ==
  \A q, r \in HasDeadline :
    q # r => \/ usec(timeout[q]) + GAP_USEC <= usec(timeout[r])
             \/ usec(timeout[r]) + GAP_USEC <= usec(timeout[q])

NoneBeyond ==
  \A q \in HasDeadline :
    usec(timeout[q]) + GAP_USEC <= usec(latest_timeout) + TIMEOUT_INTERVAL_USEC

NoneMissed ==
  /\ stage \in {"idle", "outgoing"} =>
       \A q \in HasDeadline : usec(timeout[q]) > usec(curr_timeval)
  /\ stage \in {"acks", "timedout"} =>
       \A q \in HasDeadline : usec(timeout[q]) > usec(previous)
  /\ stage = "idle" => previous = curr_timeval

TimerInv ==
  TypeOK /\ HasDeadline \subseteq frame /\ Spaced /\ NoneBeyond /\ NoneMissed

LEMMA DeadlineType ==
  ASSUME TypeOK, NEW q \in HasDeadline
  PROVE  q \in Slots /\ timeout[q] \in Timeval /\ usec(timeout[q]) \in Nat
BY UsecType DEF TypeOK, HasDeadline

LEMMA NullIsNoTime ==
  ASSUME NEW t \in Timeval
  PROVE  t # NULL
<1>1. "tv_sec" \in DOMAIN t /\ "tv_sec" \notin DOMAIN NULL
  BY DEF Timeval, NULL
<1> QED BY <1>1

LEMMA InitInv == Init => TimerInv
<1> SUFFICES ASSUME Init PROVE TimerInv
  OBVIOUS
<1>1. latest_timeout \in Timeval
  BY DEF Init, Timeval
<1>2. HasDeadline = {}
  BY DEF Init, HasDeadline
<1> QED BY <1>1, <1>2 DEF Init, TimerInv, TypeOK, Spaced, NoneBeyond, NoneMissed

LEMMA LeastElement ==
  ASSUME NEW S \in SUBSET Nat, S # {}
  PROVE  \E m \in S : \A k \in S : m <= k
<1> DEFINE R == {ss \in Nat \X Nat : ss[1] < ss[2]}
<1>1. IsWellFoundedOn(R, Nat)
  BY NatLessThanWellFounded DEF OpToRel
<1>2. PICK m \in S : \A k \in S : <<k, m>> \notin R
  <2> HIDE DEF R
  <2> QED BY <1>1, WFMin
<1>3. ASSUME NEW k \in S, k < m PROVE FALSE
  <2>1. <<k, m>> \in Nat \X Nat /\ <<k, m>>[1] < <<k, m>>[2]
    BY <1>3
  <2>2. <<k, m>> \in R
    BY <2>1
  <2> QED BY <1>2, <2>2
<1>4. \A k \in S : m <= k
  BY <1>3
<1> QED BY <1>4

\* The host sleeps only if the earliest deadline, and so every one, is ahead.
LEMMA EarliestDecides ==
  ASSUME TypeOK, NEW t \in Timeval, ~reached_timeout(t), NEW q \in HasDeadline
  PROVE  usec(timeout[q]) > usec(t)
<1> DEFINE T == {usec(timeout[r]) : r \in HasDeadline}
<1>1. T \in SUBSET Nat /\ T # {}
  BY DeadlineType
<1>2. PICK m \in T : \A k \in T : m <= k
  BY <1>1, LeastElement
<1>3. PICK e \in HasDeadline : m = usec(timeout[e])
  BY <1>2
<1>4. \A r \in HasDeadline : usec(timeout[e]) <= usec(timeout[r])
  BY <1>2, <1>3
<1>5. \A r \in HasDeadline : timeval_usecdiff(timeout[e], timeout[r]) >= 0
  BY <1>4, DeadlineType, DiffIsDistance
<1>6. e \in NextExpiring
  BY <1>5 DEF NextExpiring
<1>7. ~(timeval_usecdiff(t, timeout[e]) <= 0)
  BY <1>6 DEF reached_timeout, Passed
<1>8. usec(timeout[e]) > usec(t)
  BY <1>7, DeadlineType, DiffIsDistance, UsecType
<1> QED BY <1>4, <1>8, DeadlineType, UsecType

LEMMA ClockType == Clock \subseteq Timeval
BY TimersAssumption DEF Clock, Timeval

LEMMA SleepInv ==
  ASSUME TimerInv, NEW t \in Clock, Sleep(t)
  PROVE  TimerInv'
<1>1. t \in Timeval
  BY ClockType
<1>2. TypeOK' /\ HasDeadline' = HasDeadline
  BY <1>1 DEF TimerInv, TypeOK, Sleep, HasDeadline
<1>3. \A q \in HasDeadline : usec(timeout[q]) > usec(t)
  BY <1>1, EarliestDecides DEF Sleep, TimerInv
<1> QED BY <1>2, <1>3 DEF TimerInv, Sleep, Spaced, NoneBeyond, NoneMissed, usec

LEMMA WakeInv ==
  ASSUME TimerInv, NEW t \in Clock, NEW incoming \in BOOLEAN, Wake(t, incoming)
  PROVE  TimerInv'
<1>1. t \in Timeval
  BY ClockType
<1>2. TypeOK' /\ HasDeadline' = HasDeadline
  BY <1>1 DEF TimerInv, TypeOK, Wake, HasDeadline
<1> QED BY <1>2 DEF TimerInv, Wake, Spaced, NoneBeyond, NoneMissed, usec

LEMMA HandleAcksInv ==
  ASSUME TimerInv, NEW freed \in SUBSET frame, HandleAcks(freed)
  PROVE  TimerInv'
<1>1. TypeOK'
  BY DEF TimerInv, TypeOK, HandleAcks
<1>2. HasDeadline' = HasDeadline \ freed
  BY DEF HandleAcks, HasDeadline
<1>3. \A q \in HasDeadline' : q \in HasDeadline /\ timeout'[q] = timeout[q]
  BY <1>2 DEF HandleAcks, HasDeadline
<1>4. HasDeadline' \subseteq frame'
  BY <1>2 DEF HandleAcks, TimerInv
<1> QED BY <1>1, <1>3, <1>4
        DEF TimerInv, HandleAcks, Spaced, NoneBeyond, NoneMissed, usec

LEMMA HandleTimedoutInv ==
  ASSUME TimerInv, HandleTimedout
  PROVE  TimerInv'
<1>1. TypeOK'
  BY DEF TimerInv, TypeOK, HandleTimedout
<1>2. HasDeadline' = HasDeadline \ Due
  BY DEF HandleTimedout, HasDeadline
<1>3. \A q \in HasDeadline' : q \in HasDeadline /\ timeout'[q] = timeout[q]
  BY <1>2 DEF HandleTimedout, HasDeadline
<1>4. \A q \in HasDeadline' : usec(timeout[q]) > usec(curr_timeval)
  <2> SUFFICES ASSUME NEW q \in HasDeadline'
               PROVE  usec(timeout[q]) > usec(curr_timeval)
    OBVIOUS
  <2>1. q \in HasDeadline /\ ~(timeval_usecdiff(curr_timeval, timeout[q]) <= 0)
    BY <1>2 DEF Due, Passed
  <2>2. curr_timeval \in Timeval /\ timeout[q] \in Timeval
    BY <2>1, DeadlineType DEF TimerInv, TypeOK
  <2> QED BY <2>1, <2>2, DiffIsDistance, UsecType
<1> QED BY <1>1, <1>2, <1>3, <1>4
        DEF TimerInv, HandleTimedout, Spaced, NoneBeyond, NoneMissed, usec

-----------------------------------------------------------------------------
LEMMA StartFacts ==
  ASSUME TypeOK
  PROVE  /\ Start \in Timeval /\ usec(Start) \in Nat
         /\ usec(latest_timeout) <= usec(Start) /\ usec(curr_timeval) <= usec(Start)
<1>1. curr_timeval \in Timeval /\ latest_timeout \in Timeval
  BY DEF TypeOK
<1>2. timeval_usecdiff(curr_timeval, latest_timeout)
        = usec(latest_timeout) - usec(curr_timeval)
  BY <1>1, DiffIsDistance
<1>3. /\ usec(curr_timeval) \in Nat /\ usec(latest_timeout) \in Nat
      /\ Start = curr_timeval \/ Start = latest_timeout
  BY <1>1, UsecType DEF Start
<1>4. CASE timeval_usecdiff(curr_timeval, latest_timeout) > 0
  <2>1. Start = latest_timeout
    BY <1>4 DEF Start
  <2> QED BY <2>1, <1>1, <1>2, <1>3, <1>4
<1>5. CASE ~(timeval_usecdiff(curr_timeval, latest_timeout) > 0)
  <2>1. Start = curr_timeval
    BY <1>5 DEF Start
  <2> QED BY <2>1, <1>1, <1>2, <1>3, <1>5
<1> QED BY <1>4, <1>5

\* k frames take k gaps: one more frame, at least one more gap.
LEMMA Gaps ==
  ASSUME NEW j \in Nat, NEW k \in Nat, j < k
  PROVE  /\ j * GAP_USEC \in Nat /\ k * GAP_USEC \in Nat
         /\ j * GAP_USEC + GAP_USEC <= k * GAP_USEC
<1>1. \A a \in Nat : a * GAP_USEC \in Nat
  BY TimersAssumption
<1>2. PICK d \in Nat : k = j + 1 + d
  <2>1. k - j - 1 \in Nat /\ k = j + 1 + (k - j - 1)
    OBVIOUS
  <2> QED BY <2>1
<1>3. \A a, b, g \in Int : (a + 1 + b) * g = a * g + g + b * g
  OBVIOUS
<1>4. k * GAP_USEC = j * GAP_USEC + GAP_USEC + d * GAP_USEC
  BY <1>2, <1>3, TimersAssumption
<1> QED BY <1>1, <1>2, <1>4, TimersAssumption

LEMMA DeadlineValue ==
  ASSUME TypeOK, NEW fast \in SUBSET frame, NEW n \in Nat, NEW q \in Sent(fast, n)
  PROVE  /\ Deadline(q, fast, n) \in Timeval
         /\ usec(Deadline(q, fast, n))
              = usec(Start) + TIMEOUT_INTERVAL_USEC + Position(q, fast, n) * GAP_USEC
<1>1. Position(q, fast, n) \in Nat
  BY PositionsDistinct DEF TypeOK
<1>2. Position(q, fast, n) * GAP_USEC \in Nat
  BY <1>1, TimersAssumption
<1>3. TIMEOUT_INTERVAL_USEC + Position(q, fast, n) * GAP_USEC \in Nat
  BY <1>2, TimersAssumption
<1>4. /\ Deadline(q, fast, n) \in Timeval
      /\ usec(Deadline(q, fast, n))
           = usec(Start) + (TIMEOUT_INTERVAL_USEC + Position(q, fast, n) * GAP_USEC)
  BY <1>3, PlusAdds, StartFacts DEF Deadline
<1> QED BY <1>2, <1>4, StartFacts, TimersAssumption

LEMMA HandleOutgoingInv ==
  ASSUME TimerInv, NEW fast \in SUBSET frame, NEW n \in 0 .. window_size,
         HandleOutgoing(fast, n)
  PROVE  TimerInv'
<1> DEFINE S    == Sent(fast, n)
           base == usec(Start)
           pos(q) == Position(q, fast, n)
           due(q) == usec(timeout'[q])
<1>1. /\ TypeOK /\ frame \subseteq Slots /\ n \in Nat
      /\ S \subseteq Slots /\ S \subseteq frame'
  BY DEF TimerInv, TypeOK, HandleOutgoing, Sent, Late, Filled
<1>2. /\ base \in Nat /\ usec(latest_timeout) <= base /\ usec(curr_timeval) <= base
      /\ usec(latest_timeout) \in Nat /\ usec(curr_timeval) \in Nat
  BY <1>1, StartFacts, UsecType DEF TypeOK
<1>3. Cardinality(S) \in Nat
  <2>1. IsFiniteSet(S)
    BY <1>1, SlotsFinite, FS_Subset
  <2> QED BY <2>1, FS_CardinalityType
<1>4. /\ latest_timeout' \in Timeval
      /\ usec(latest_timeout') = base + Cardinality(S) * GAP_USEC
      /\ usec(latest_timeout)' = usec(latest_timeout')
  <2>1. Cardinality(S) * GAP_USEC \in Nat
    BY <1>3, TimersAssumption
  <2> QED BY <2>1, <1>1, PlusAdds, StartFacts DEF HandleOutgoing, usec
<1>5. \A q \in S : /\ timeout'[q] \in Timeval /\ pos(q) \in Nat
                   /\ pos(q) < Cardinality(S) /\ pos(q) * GAP_USEC \in Nat
                   /\ due(q) = base + TIMEOUT_INTERVAL_USEC + pos(q) * GAP_USEC
  <2> SUFFICES ASSUME NEW q \in S
               PROVE  /\ timeout'[q] \in Timeval /\ pos(q) \in Nat
                      /\ pos(q) < Cardinality(S) /\ pos(q) * GAP_USEC \in Nat
                      /\ due(q) = base + TIMEOUT_INTERVAL_USEC + pos(q) * GAP_USEC
    OBVIOUS
  <2>1. timeout'[q] = Deadline(q, fast, n)
    BY <1>1 DEF HandleOutgoing
  <2>2. pos(q) \in Nat /\ pos(q) < Cardinality(S)
    BY <1>1, PositionsDistinct
  <2>3. pos(q) * GAP_USEC \in Nat
    BY <2>2, TimersAssumption
  <2> QED BY <2>1, <2>2, <2>3, <1>1, DeadlineValue
<1>6. \A q \in HasDeadline' :
        \/ q \in S
        \/ /\ q \in HasDeadline /\ timeout'[q] = timeout[q] /\ due(q) \in Nat
           /\ due(q) > usec(curr_timeval)
           /\ due(q) + GAP_USEC <= usec(latest_timeout) + TIMEOUT_INTERVAL_USEC
  <2> SUFFICES ASSUME NEW q \in HasDeadline', q \notin S
               PROVE  /\ q \in HasDeadline /\ timeout'[q] = timeout[q] /\ due(q) \in Nat
                      /\ due(q) > usec(curr_timeval)
                      /\ due(q) + GAP_USEC
                           <= usec(latest_timeout) + TIMEOUT_INTERVAL_USEC
    OBVIOUS
  <2>1. q \in HasDeadline /\ timeout'[q] = timeout[q]
    BY DEF HandleOutgoing, HasDeadline
  <2>2. stage = "outgoing"
    BY DEF HandleOutgoing
  <2> QED BY <2>1, <2>2, <1>1, DeadlineType DEF TimerInv, NoneBeyond, NoneMissed
<1>7. TypeOK'
  <2>1. timeout' \in [Slots -> Timeval \cup {NULL}]
    BY <1>1, <1>5 DEF HandleOutgoing, TypeOK
  <2>2. frame' \subseteq Slots
    BY <1>1 DEF HandleOutgoing, Filled
  <2> QED BY <2>1, <2>2, <1>1, <1>4 DEF HandleOutgoing, TypeOK
<1>8. HasDeadline' \subseteq frame'
  BY <1>1, <1>6 DEF TimerInv, HandleOutgoing
<1> USE TimersAssumption
<1>9. Spaced'
  <2> SUFFICES ASSUME NEW q \in HasDeadline', NEW r \in HasDeadline', q # r
               PROVE  due(q) + GAP_USEC <= due(r) \/ due(r) + GAP_USEC <= due(q)
    BY DEF Spaced, usec
  <2> HIDE DEF S, base, pos
  <2>1. CASE q \in S /\ r \in S
    <3>1. pos(q) # pos(r)
      BY <2>1, <1>1, PositionsDistinct DEF S, pos
    <3>2. pos(q) < pos(r) \/ pos(r) < pos(q)
      BY <2>1, <3>1, <1>5
    <3>3. \/ pos(q) * GAP_USEC + GAP_USEC <= pos(r) * GAP_USEC
          \/ pos(r) * GAP_USEC + GAP_USEC <= pos(q) * GAP_USEC
      BY <2>1, <3>2, <1>5, Gaps
    <3> QED BY <2>1, <3>3, <1>2, <1>5
  <2>2. CASE q \in S /\ r \notin S
    BY <2>2, <1>2, <1>5, <1>6
  <2>3. CASE q \notin S /\ r \in S
    BY <2>3, <1>2, <1>5, <1>6
  <2>4. CASE q \notin S /\ r \notin S
    <3>1. /\ q \in HasDeadline /\ r \in HasDeadline
          /\ timeout'[q] = timeout[q] /\ timeout'[r] = timeout[r]
      BY <2>4, <1>6
    <3> QED BY <3>1 DEF TimerInv, Spaced
  <2> QED BY <2>1, <2>2, <2>3, <2>4
<1>10. NoneBeyond'
  <2> SUFFICES ASSUME NEW q \in HasDeadline'
               PROVE  due(q) + GAP_USEC <= usec(latest_timeout') + TIMEOUT_INTERVAL_USEC
    BY DEF NoneBeyond, usec
  <2> HIDE DEF S, base, pos
  <2>1. CASE q \in S
    <3>1. /\ Cardinality(S) * GAP_USEC \in Nat
          /\ pos(q) * GAP_USEC + GAP_USEC <= Cardinality(S) * GAP_USEC
      BY <2>1, <1>3, <1>5, Gaps
    <3> QED BY <2>1, <3>1, <1>2, <1>4, <1>5
  <2>2. CASE q \notin S
    <3>1. Cardinality(S) * GAP_USEC \in Nat
      BY <1>3
    <3> QED BY <2>2, <3>1, <1>2, <1>4, <1>6
  <2> QED BY <2>1, <2>2
<1>11. NoneMissed'
  <2>1. stage' = "idle" /\ curr_timeval' = curr_timeval /\ previous' = curr_timeval
    BY DEF HandleOutgoing
  <2>2. \A q \in HasDeadline' : due(q) > usec(curr_timeval)
    <3> HIDE DEF S, base, pos
    <3> QED BY <1>2, <1>5, <1>6
  <2> QED BY <2>1, <2>2 DEF NoneMissed, usec
<1> QED BY <1>7, <1>8, <1>9, <1>10, <1>11 DEF TimerInv

LEMMA StepInv == TimerInv /\ [Next]_vars => TimerInv'
<1> SUFFICES ASSUME TimerInv, [Next]_vars PROVE TimerInv'
  OBVIOUS
<1>1. CASE UNCHANGED vars
  BY <1>1 DEF vars, TimerInv, TypeOK, HasDeadline, Spaced, NoneBeyond, NoneMissed, usec
<1>2. CASE Next
  BY <1>2, SleepInv, WakeInv, HandleAcksInv, HandleTimedoutInv, HandleOutgoingInv DEF Next
<1> QED BY <1>1, <1>2

LEMMA TimersCorrect == Spec => []TimerInv
BY InitInv, StepInv, PTL DEF Spec

-----------------------------------------------------------------------------
\* Seconds and microseconds stay normalised through every addition.
THEOREM TimersTypeCorrect == Spec => []TypeOK
<1>1. TimerInv => TypeOK
  BY DEF TimerInv
<1> QED BY <1>1, TimersCorrect, PTL

\* A host that sleeps has no deadline that has passed: looking at the one slot
\* host_get_next_expiring_timeval returns is enough.
THEOREM NoneOverdueCorrect == Spec => []NoneOverdue
<1>1. TimerInv => NoneOverdue
  <2> SUFFICES ASSUME TimerInv, stage = "idle", NEW q \in HasDeadline
               PROVE  ~(timeval_usecdiff(curr_timeval, timeout[q]) <= 0)
    BY DEF NoneOverdue, Passed
  <2>1. usec(timeout[q]) > usec(curr_timeval)
    BY DEF TimerInv, NoneMissed
  <2>2. curr_timeval \in Timeval /\ timeout[q] \in Timeval
    BY DeadlineType DEF TimerInv, TypeOK
  <2> QED BY <2>1, <2>2, DiffIsDistance, UsecType
<1> QED BY <1>1, TimersCorrect, PTL

\* Turns less than the spacing apart find at most one deadline passed.
THEOREM SelectiveRetransmissionCorrect == Spec => []SelectiveRetransmission
<1>1. TimerInv => SelectiveRetransmission
  <2> SUFFICES ASSUME TimerInv, stage = "timedout",
                      timeval_usecdiff(previous, curr_timeval) < GAP_USEC,
                      NEW q \in Due, NEW r \in Due, q # r
               PROVE  FALSE
    BY DEF SelectiveRetransmission
  <2>1. /\ q \in HasDeadline /\ timeval_usecdiff(curr_timeval, timeout[q]) <= 0
        /\ r \in HasDeadline /\ timeval_usecdiff(curr_timeval, timeout[r]) <= 0
    BY DEF Due, Passed
  <2>2. /\ previous \in Timeval /\ curr_timeval \in Timeval
        /\ timeout[q] \in Timeval /\ timeout[r] \in Timeval
    BY <2>1, DeadlineType DEF TimerInv, TypeOK
  <2>3. /\ usec(previous) \in Nat /\ usec(curr_timeval) \in Nat
        /\ usec(timeout[q]) \in Nat /\ usec(timeout[r]) \in Nat
    BY <2>2, UsecType
  <2>4. /\ usec(curr_timeval) - usec(previous) < GAP_USEC
        /\ usec(timeout[q]) <= usec(curr_timeval)
        /\ usec(timeout[r]) <= usec(curr_timeval)
    BY <2>1, <2>2, <2>3, DiffIsDistance
  <2>5. usec(timeout[q]) > usec(previous) /\ usec(timeout[r]) > usec(previous)
    BY <2>1 DEF TimerInv, NoneMissed
  <2>6. \/ usec(timeout[q]) + GAP_USEC <= usec(timeout[r])
        \/ usec(timeout[r]) + GAP_USEC <= usec(timeout[q])
    BY <2>1 DEF TimerInv, Spaced
  <2> QED BY <2>3, <2>4, <2>5, <2>6, TimersAssumption
<1> QED BY <1>1, TimersCorrect, PTL

-----------------------------------------------------------------------------
(***************************************************************************)
(* The deadlines implement a queue of timeouts.  Of two frames with a      *)
(* deadline, the one sent before has the earlier one: what a turn sends    *)
(* gets deadlines beyond those that are left, in the order it leaves.      *)
(***************************************************************************)
OrderInv ==
  /\ older \subseteq frame \X frame
  /\ stage # "outgoing" => frame \subseteq HasDeadline
  /\ \A p \in older :
       p[1] \in HasDeadline /\ p[2] \in HasDeadline
         => usec(timeout[p[1]]) < usec(timeout[p[2]])

LEMMA InitOrder == Init => OrderInv /\ TimerQueue!Init
BY DEF Init, OrderInv, TimerQueue!Init

\* A step that leaves the frames, their deadlines and their order alone.
LEMMA SameOrder ==
  ASSUME OrderInv, UNCHANGED <<frame, timeout, older>>, stage' # "outgoing" => stage # "outgoing"
  PROVE  OrderInv' /\ UNCHANGED <<frame, older, frame \ HasDeadline>>
BY DEF OrderInv, HasDeadline, usec

LEMMA HandleAcksOrder ==
  ASSUME TimerInv, OrderInv, NEW freed \in SUBSET frame, HandleAcks(freed)
  PROVE  OrderInv' /\ TimerQueue!Cancel(freed)
<1>1. /\ frame' = frame \ freed /\ older' = older \cap (frame' \X frame')
      /\ stage = "acks" /\ stage' = "timedout"
  BY DEF HandleAcks, Among
<1>2. HasDeadline' = HasDeadline \ freed
  BY DEF HandleAcks, HasDeadline
<1>3. \A q \in HasDeadline' : q \in HasDeadline /\ timeout'[q] = timeout[q]
  BY <1>2 DEF HandleAcks, HasDeadline
<1>4. frame' \subseteq HasDeadline'
  BY <1>1, <1>2 DEF OrderInv
<1>5. ASSUME NEW p \in older', p[1] \in HasDeadline', p[2] \in HasDeadline'
      PROVE  usec(timeout'[p[1]]) < usec(timeout'[p[2]])
  <2>1. p \in older
    BY <1>1
  <2> QED BY <1>3, <1>5, <2>1 DEF OrderInv
<1>6. OrderInv'
  <2>1. older' \subseteq frame' \X frame'
    BY <1>1
  <2> QED BY <1>4, <1>5, <2>1 DEF OrderInv, usec
<1>7. (frame \ HasDeadline)' = (frame \ HasDeadline) \ freed
  BY <1>1, <1>2
<1>8. TimerQueue!Cancel(freed)
  BY <1>1, <1>7 DEF TimerQueue!Cancel, TimerQueue!Among
<1> QED BY <1>6, <1>8

LEMMA HandleTimedoutOrder ==
  ASSUME TimerInv, OrderInv, HandleTimedout
  PROVE  OrderInv' /\ \E S \in SUBSET frame : TimerQueue!Expire(S)
<1>1. /\ stage = "timedout" /\ stage' = "outgoing" /\ UNCHANGED <<frame, older>>
      /\ HasDeadline \subseteq frame /\ TypeOK
  BY DEF HandleTimedout, TimerInv
<1>2. HasDeadline' = HasDeadline \ Due
  BY DEF HandleTimedout, HasDeadline
<1>3. \A q \in HasDeadline' : q \in HasDeadline /\ timeout'[q] = timeout[q]
  BY <1>2 DEF HandleTimedout, HasDeadline
<1>4. OrderInv'
  <2>1. ASSUME NEW p \in older, p[1] \in HasDeadline', p[2] \in HasDeadline'
        PROVE  usec(timeout'[p[1]]) < usec(timeout'[p[2]])
    BY <1>3, <2>1 DEF OrderInv
  <2>2. older \subseteq frame \X frame
    BY DEF OrderInv
  <2> QED BY <1>1, <2>1, <2>2 DEF OrderInv, usec
<1>5. frame = HasDeadline
  BY <1>1 DEF OrderInv
<1>6. (frame \ HasDeadline)' = Due
  BY <1>1, <1>2, <1>5 DEF Due
<1>7. ASSUME NEW p \in older, p[2] \in Due PROVE p[1] \in Due
  <2>1. p[1] \in HasDeadline /\ p[2] \in HasDeadline
    BY <1>5 DEF OrderInv
  <2>2. usec(timeout[p[1]]) < usec(timeout[p[2]])
    BY <2>1 DEF OrderInv
  <2>3. /\ timeout[p[1]] \in Timeval /\ timeout[p[2]] \in Timeval
        /\ curr_timeval \in Timeval
    BY <1>1, <2>1, DeadlineType DEF TypeOK
  <2>4. usec(timeout[p[2]]) <= usec(curr_timeval)
    <3>1. timeval_usecdiff(curr_timeval, timeout[p[2]]) <= 0
      BY <1>7 DEF Due, Passed
    <3> QED BY <2>3, <3>1, DiffIsDistance, UsecType
  <2>5. timeval_usecdiff(curr_timeval, timeout[p[1]]) <= 0
    BY <2>2, <2>3, <2>4, DiffIsDistance, UsecType
  <2> QED BY <2>1, <2>5 DEF Due, Passed
<1>8. TimerQueue!Expire(Due)
  BY <1>1, <1>5, <1>6, <1>7 DEF TimerQueue!Expire
<1>9. Due \in SUBSET frame
  BY <1>5 DEF Due
<1> QED BY <1>4, <1>8, <1>9

LEMMA HandleOutgoingOrder ==
  ASSUME TimerInv, OrderInv, NEW fast \in SUBSET frame, NEW n \in 0 .. window_size,
         HandleOutgoing(fast, n)
  PROVE  /\ OrderInv'
         /\ \E S \in SUBSET Slots : \E turn \in TimerQueue!Turns(S) :
              TimerQueue!Send(S, turn)
<1> DEFINE S    == Sent(fast, n)
           kept == frame \ S
           turn == [q \in S |-> Position(q, fast, n)]
<1>1. /\ TypeOK /\ frame \subseteq Slots /\ n \in Nat /\ HasDeadline \subseteq frame
      /\ stage = "outgoing" /\ stage' = "idle" /\ frame' = frame \cup S
      /\ S \in SUBSET Slots
      /\ older' = (older \cap (kept \X kept)) \cup (kept \X S)
                    \cup {p \in S \X S : Position(p[1], fast, n) < Position(p[2], fast, n)}
  <2>1. frame' = frame \cup S /\ S \in SUBSET Slots /\ frame \subseteq Slots
    BY DEF HandleOutgoing, Sent, Late, Filled, TimerInv, TypeOK
  <2> QED BY <2>1 DEF HandleOutgoing, TimerInv, Among
<1>2. frame \ HasDeadline \subseteq S
  BY DEF Sent, Late
<1>3. ASSUME NEW q \in S
      PROVE  /\ timeout'[q] \in Timeval /\ Position(q, fast, n) \in Nat
             /\ Position(q, fast, n) < Cardinality(S)
             /\ \A r \in S : r # q => Position(q, fast, n) # Position(r, fast, n)
             /\ usec(timeout'[q])
                  = usec(Start) + TIMEOUT_INTERVAL_USEC + Position(q, fast, n) * GAP_USEC
  <2>1. timeout'[q] = Deadline(q, fast, n)
    BY <1>1 DEF HandleOutgoing
  <2> QED BY <2>1, <1>1, PositionsDistinct, DeadlineValue
<1>4. Cardinality(S) \in Nat
  <2>1. IsFiniteSet(S)
    BY <1>1, SlotsFinite, FS_Subset
  <2> QED BY <2>1, FS_CardinalityType
<1>5. \A q \in S : q \in HasDeadline'
  <2> SUFFICES ASSUME NEW q \in S PROVE timeout'[q] # NULL
    BY <1>1 DEF HasDeadline
  <2> QED BY <1>3, NullIsNoTime
<1>6. \A q \in Slots \ S : timeout'[q] = timeout[q]
  BY DEF HandleOutgoing
<1>7. \A q \in kept : q \in HasDeadline /\ q \in HasDeadline' /\ timeout'[q] = timeout[q]
  BY <1>1, <1>2, <1>6 DEF HasDeadline
<1>8. frame' \subseteq HasDeadline'
  BY <1>1, <1>5, <1>7
<1>9. /\ usec(Start) \in Nat /\ usec(latest_timeout) <= usec(Start)
      /\ usec(latest_timeout) \in Nat
  BY <1>1, StartFacts, UsecType DEF TypeOK
<1>10. \A q \in kept : /\ usec(timeout'[q]) \in Nat
                       /\ usec(timeout'[q]) + GAP_USEC
                            <= usec(latest_timeout) + TIMEOUT_INTERVAL_USEC
  BY <1>1, <1>7, DeadlineType DEF TimerInv, NoneBeyond
<1> USE TimersAssumption
<1>11. \A q \in S : Position(q, fast, n) * GAP_USEC \in Nat
  BY <1>3
<1>12. ASSUME NEW q \in kept, NEW r \in S PROVE usec(timeout'[q]) < usec(timeout'[r])
  <2> HIDE DEF S, kept
  <2>1. usec(timeout'[r]) >= usec(Start) + TIMEOUT_INTERVAL_USEC
    BY <1>3, <1>9, <1>11
  <2> QED BY <1>9, <1>10, <2>1, <1>3, <1>11
<1>13. ASSUME NEW q \in S, NEW r \in S, Position(q, fast, n) < Position(r, fast, n)
       PROVE  usec(timeout'[q]) < usec(timeout'[r])
  <2>1. Position(q, fast, n) * GAP_USEC + GAP_USEC <= Position(r, fast, n) * GAP_USEC
    BY <1>3, <1>13, Gaps
  <2> HIDE DEF S
  <2> QED BY <1>3, <1>9, <1>11, <2>1
<1>14. ASSUME NEW p \in older'
       PROVE  usec(timeout'[p[1]]) < usec(timeout'[p[2]])
  <2>1. CASE p \in older /\ p[1] \in kept /\ p[2] \in kept
    <3>1. usec(timeout[p[1]]) < usec(timeout[p[2]])
      BY <1>7, <2>1 DEF OrderInv
    <3> QED BY <1>7, <2>1, <3>1
  <2>2. CASE p[1] \in kept /\ p[2] \in S
    BY <1>12, <2>2
  <2>3. CASE p[1] \in S /\ p[2] \in S /\ Position(p[1], fast, n) < Position(p[2], fast, n)
    BY <1>13, <2>3
  <2>4. \/ p \in older /\ p[1] \in kept /\ p[2] \in kept
        \/ p[1] \in kept /\ p[2] \in S
        \/ p[1] \in S /\ p[2] \in S /\ Position(p[1], fast, n) < Position(p[2], fast, n)
    <3> HIDE DEF S, kept
    <3> QED BY <1>1
  <2> QED BY <2>1, <2>2, <2>3, <2>4
<1>15. OrderInv'
  <2>1. older' \subseteq frame' \X frame'
    <3>1. kept \subseteq frame' /\ S \subseteq frame'
      BY <1>1
    <3> HIDE DEF S, kept
    <3> QED BY <1>1, <3>1
  <2> QED BY <1>8, <1>14, <2>1 DEF OrderInv, usec
<1>16. turn \in TimerQueue!Turns(S)
  <2>1. \A q \in S : Position(q, fast, n) \in 0 .. Cardinality(S) - 1
    BY <1>3, <1>4
  <2>2. turn \in [S -> 0 .. Cardinality(S) - 1]
    <3> HIDE DEF S
    <3> QED BY <2>1
  <2>3. \A q, r \in S : turn[q] = turn[r] => q = r
    <3> HIDE DEF S
    <3> QED BY <1>3
  <2>4. TimerQueue!Cardinality(S) = Cardinality(S)
    BY DEF TimerQueue!Cardinality, Cardinality
  <2> HIDE DEF S, turn
  <2> QED BY <2>2, <2>3, <2>4 DEF TimerQueue!Turns
<1>17. (frame \ HasDeadline)' = {}
  BY <1>8
<1>18. TimerQueue!Send(S, turn)
  <2>1. {p \in S \X S : Position(p[1], fast, n) < Position(p[2], fast, n)}
          = {p \in S \X S : turn[p[1]] < turn[p[2]]}
    <3> HIDE DEF S
    <3> QED OBVIOUS
  <2> HIDE DEF S, turn
  <2> QED BY <1>1, <1>2, <1>17, <2>1 DEF TimerQueue!Send, TimerQueue!Among, S
<1> HIDE DEF S, turn
<1> QED BY <1>1, <1>15, <1>16, <1>18

LEMMA StepOrder ==
  ASSUME TimerInv, OrderInv, [Next]_vars
  PROVE  /\ OrderInv'
         /\ TimerQueue!Next \/ UNCHANGED <<frame, older, frame \ HasDeadline>>
<1>1. CASE UNCHANGED vars
  BY <1>1, SameOrder DEF vars
<1>2. CASE \E t \in Clock : Sleep(t) \/ \E incoming \in BOOLEAN : Wake(t, incoming)
  BY <1>2, SameOrder DEF Sleep, Wake
<1>3. CASE \E freed \in SUBSET frame : HandleAcks(freed)
  BY <1>3, HandleAcksOrder DEF TimerQueue!Next
<1>4. CASE HandleTimedout
  BY <1>4, HandleTimedoutOrder DEF TimerQueue!Next
<1>5. CASE \E fast \in SUBSET frame, n \in 0 .. window_size : HandleOutgoing(fast, n)
  BY <1>5, HandleOutgoingOrder DEF TimerQueue!Next
<1> QED BY <1>1, <1>2, <1>3, <1>4, <1>5 DEF Next

\* Frames time out in the order they were last sent: the microseconds of the
\* deadlines implement a plain queue, whatever the clock does.
THEOREM InOrderSentCorrect == Spec => InOrderSent
<1>1. Init => OrderInv /\ TimerQueue!Init
  BY InitOrder
<1>2. TimerInv /\ OrderInv /\ [Next]_vars
        => OrderInv' /\ [TimerQueue!Next]_<<frame, older, frame \ HasDeadline>>
  BY StepOrder
<1> QED BY <1>1, <1>2, TimersCorrect, PTL DEF Spec, InOrderSent, TimerQueue!Spec
=============================================================================
