---------------------------- MODULE SeqNumProofs ----------------------------
(***************************************************************************)
(* What the 8-bit arithmetic guarantees, for every MAX_SEQ_NUM, and two    *)
(* facts about the order of the naturals that other proofs rest on.        *)
(***************************************************************************)
EXTENDS SeqNum, TLAPS, WellFoundedInduction

LEMMA LeastElement ==
  ASSUME NEW S \in SUBSET Nat, S # {}
  PROVE  \E m \in S : \A k \in S : m <= k
<1> DEFINE R == {ss \in Nat \X Nat : ss[1] < ss[2]}
<1>1. IsWellFoundedOn(R, Nat)
  BY NatLessThanWellFounded DEF OpToRel
<1>2. PICK m \in S : \A k \in S : <<k, m>> \notin R
  <2> HIDE DEF R
  <2> QED BY <1>1, WFMin
<1>3. ASSUME NEW k \in S, k < m PROVE FALSE
  <2>1. <<k, m>> \in Nat \X Nat /\ <<k, m>>[1] < <<k, m>>[2]
    BY <1>3
  <2>2. <<k, m>> \in R
    BY <2>1
  <2> QED BY <1>2, <2>2
<1>4. \A k \in S : m <= k
  BY <1>3
<1> QED BY <1>4

\* Induction from m to n, on the set of the numbers of which a fact is true.
LEMMA IntervalInduction ==
  ASSUME NEW m \in Nat, NEW n \in Nat, NEW T, m <= n => m \in T,
         \A i \in m + 1 .. n : i - 1 \in T => i \in T
  PROVE  m .. n \subseteq T
<1> DEFINE S == (m .. n) \ T
<1>1. SUFFICES ASSUME S # {} PROVE FALSE
  OBVIOUS
<1>2. S \in SUBSET Nat
  OBVIOUS
<1>3. PICK k \in S : \A i \in S : k <= i
  BY <1>1, <1>2, LeastElement
<1>4. k \in m .. n /\ k \notin T /\ k # m
  OBVIOUS
<1>5. k - 1 \in m .. n /\ k - 1 \notin S /\ k \in m + 1 .. n
  BY <1>3, <1>4
<1> QED BY <1>4, <1>5

-----------------------------------------------------------------------------
LEMMA HalfBounds ==
  /\ HALF_SEQ_NUM \in Nat
  /\ 2 * HALF_SEQ_NUM <= MAX_SEQ_NUM
  /\ MAX_SEQ_NUM <= 2 * HALF_SEQ_NUM + 1
BY SeqNumAssumption DEF HALF_SEQ_NUM

LEMMA Uint8Type == ASSUME NEW n \in Int PROVE uint8(n) \in SeqNums
BY SeqNumAssumption DEF uint8, SeqNums

\* The quotient that uint8 cuts off.
LEMMA Uint8Quotient ==
  ASSUME NEW n \in Int
  PROVE  \E q \in Int : n = q * (MAX_SEQ_NUM + 1) + uint8(n)
<1>1. n = (n \div (MAX_SEQ_NUM + 1)) * (MAX_SEQ_NUM + 1) + uint8(n)
  BY SeqNumAssumption DEF uint8
<1>2. n \div (MAX_SEQ_NUM + 1) \in Int
  BY SeqNumAssumption
<1> QED BY <1>1, <1>2

LEMMA Uint8Unique ==
  ASSUME NEW n \in Int, NEW q \in Int, NEW r \in SeqNums,
         n = q * (MAX_SEQ_NUM + 1) + r
  PROVE  uint8(n) = r
BY SeqNumAssumption DEF uint8, SeqNums

LEMMA Uint8Identity == ASSUME NEW r \in SeqNums PROVE uint8(r) = r
BY SeqNumAssumption DEF uint8, SeqNums

LEMMA SeqNumDiffType ==
  ASSUME NEW x1 \in SeqNums, NEW x2 \in SeqNums
  PROVE  seq_num_diff(x1, x2) \in Int
BY HalfBounds, SeqNumAssumption DEF seq_num_diff, SeqNums

\* Stepping forward by k and wrapping once, or not at all.
LEMMA Uint8Step ==
  ASSUME NEW n \in Int, NEW k \in 0 .. MAX_SEQ_NUM
  PROVE  \/ uint8(n + k) = uint8(n) + k
         \/ uint8(n + k) = uint8(n) + k - (MAX_SEQ_NUM + 1)
<1> DEFINE N == MAX_SEQ_NUM + 1
           r == uint8(n)
<1>1. PICK q \in Int : n = q * N + r
  BY Uint8Quotient
<1>2. r \in SeqNums
  BY Uint8Type
<1>3. CASE r + k <= MAX_SEQ_NUM
  <2>1. r + k \in SeqNums
    BY <1>2, <1>3, SeqNumAssumption DEF SeqNums
  <2>2. n + k = q * N + (r + k)
    <3> DEFINE m == q * N
    <3>1. m \in Int
      BY SeqNumAssumption
    <3> HIDE DEF m
    <3> QED BY <1>1, <1>2, <3>1 DEF m, SeqNums
  <2>3. n + k \in Int
    BY SeqNumAssumption
  <2> HIDE DEF r
  <2> QED BY <2>1, <2>2, <2>3, Uint8Unique DEF r
<1>4. CASE r + k > MAX_SEQ_NUM
  <2>1. r + k - N \in SeqNums
    BY <1>2, <1>4, SeqNumAssumption DEF SeqNums
  <2>2. n + k = (q + 1) * N + (r + k - N)
    <3> DEFINE m == q * N
    <3>1. m \in Int /\ (q + 1) * N = m + N /\ n = m + r
      BY <1>1, SeqNumAssumption
    <3> HIDE DEF m, r
    <3> QED BY <1>2, <3>1, SeqNumAssumption DEF SeqNums
  <2>3. q + 1 \in Int /\ n + k \in Int
    BY SeqNumAssumption
  <2> HIDE DEF r
  <2> QED BY <2>1, <2>2, <2>3, Uint8Unique DEF r
<1> QED BY <1>2, <1>3, <1>4, SeqNumAssumption DEF SeqNums

LEMMA Uint8StepBack ==
  ASSUME NEW n \in Int, NEW k \in 0 .. MAX_SEQ_NUM
  PROVE  \/ uint8(n - k) = uint8(n) - k
         \/ uint8(n - k) = uint8(n) - k + (MAX_SEQ_NUM + 1)
<1>1. n - k \in Int /\ (n - k) + k = n
  BY SeqNumAssumption
<1>2. uint8(n) \in SeqNums /\ uint8(n - k) \in SeqNums
  BY <1>1, Uint8Type
<1>3. \/ uint8((n - k) + k) = uint8(n - k) + k
      \/ uint8((n - k) + k) = uint8(n - k) + k - (MAX_SEQ_NUM + 1)
  BY <1>1, Uint8Step
<1> QED BY <1>1, <1>2, <1>3, SeqNumAssumption DEF SeqNums

(***************************************************************************)
(* seq_num_diff recovers the distance of two frame numbers from the 8 bits *)
(* a frame carries, whenever they are at most half a turn apart.           *)
(***************************************************************************)
THEOREM DistanceRecovered ==
  ASSUME NEW n \in Int, NEW k \in -HALF_SEQ_NUM .. HALF_SEQ_NUM
  PROVE  seq_num_diff(uint8(n), uint8(n + k)) = k
<1> USE SeqNumAssumption, HalfBounds
<1>1. uint8(n) \in SeqNums /\ uint8(n + k) \in SeqNums
  BY Uint8Type
<1>2. CASE k >= 0
  <2>1. k \in 0 .. MAX_SEQ_NUM
    BY <1>2
  <2>2. \/ uint8(n + k) = uint8(n) + k
        \/ uint8(n + k) = uint8(n) + k - (MAX_SEQ_NUM + 1)
    BY <2>1, Uint8Step
  <2> QED BY <1>1, <1>2, <2>2 DEF seq_num_diff, SeqNums
<1>3. CASE k < 0
  <2>1. -k \in 0 .. MAX_SEQ_NUM /\ n + k = n - (-k)
    BY <1>3
  <2>2. \/ uint8(n - (-k)) = uint8(n) - (-k)
        \/ uint8(n - (-k)) = uint8(n) - (-k) + (MAX_SEQ_NUM + 1)
    BY <2>1, Uint8StepBack
  <2>3. \/ uint8(n + k) = uint8(n) + k
        \/ uint8(n + k) = uint8(n) + k + (MAX_SEQ_NUM + 1)
    BY <1>1, <2>1, <2>2 DEF SeqNums
  <2> QED BY <1>1, <1>3, <2>3 DEF seq_num_diff, SeqNums
<1> QED BY <1>2, <1>3

(***************************************************************************)
(* An ack up to half a turn ahead of LAR passes the test of sender.c:90,   *)
(* whatever LFS is: a sender that has buffered more than half a turn of    *)
(* frames does not reject the acks it waits for.  With both distances      *)
(* taken absolutely (AckRejected_BothAbs) this fails.                      *)
(***************************************************************************)
THEOREM AheadAckAccepted ==
  ASSUME NEW n \in Int, NEW k \in 0 .. HALF_SEQ_NUM, NEW lfs \in SeqNums
  PROVE  ~AckRejected(uint8(n + k), uint8(n), lfs)
<1> USE SeqNumAssumption, HalfBounds
<1> DEFINE lar == uint8(n)
           ack == uint8(n + k)
<1>1. lar \in SeqNums /\ ack \in SeqNums
  BY Uint8Type
<1>2. k \in 0 .. MAX_SEQ_NUM
  OBVIOUS
<1>3. ack = lar + k \/ ack = lar + k - (MAX_SEQ_NUM + 1)
  BY <1>2, Uint8Step
<1> HIDE DEF lar, ack
<1>4. seq_num_diff(ack, lar) = -k
  BY <1>1, <1>3 DEF seq_num_diff, SeqNums
<1>5. abs(seq_num_diff(ack, lfs)) <= k + abs(seq_num_diff(lar, lfs))
  <2>1. CASE ack = lar + k
    BY <1>1, <2>1 DEF seq_num_diff, SeqNums, abs
  <2>2. CASE ack = lar + k - (MAX_SEQ_NUM + 1)
    BY <1>1, <2>2 DEF seq_num_diff, SeqNums, abs
  <2> QED BY <1>3, <2>1, <2>2
<1>6. seq_num_diff(ack, lfs) \in Int /\ seq_num_diff(lar, lfs) \in Int
  BY <1>1, SeqNumDiffType
<1> QED BY <1>4, <1>5, <1>6 DEF AckRejected, lar, ack, abs
=============================================================================
