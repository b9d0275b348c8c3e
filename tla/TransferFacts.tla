--------------------------- MODULE TransferFacts ----------------------------
(***************************************************************************)
(* What the proof of TransferInv needs to know of queues and of sequence   *)
(* numbers.                                                                *)
(***************************************************************************)
EXTENDS Transfer, TypeProofs

-----------------------------------------------------------------------------
(* Queues of frames: their elements and their order. *)

LEMMA ElementsIn ==
  ASSUME NEW S, NEW q \in Seq(S)
  PROVE  ElementsOf(q) \subseteq S
BY DEF ElementsOf

LEMMA ElementsEmpty == ElementsOf(<<>>) = {}
BY DEF ElementsOf

LEMMA ElementsAppend ==
  ASSUME NEW S, NEW q \in Seq(S), NEW f \in S
  PROVE  ElementsOf(Append(q, f)) = ElementsOf(q) \cup {f}
<1>1. /\ DOMAIN q = 1 .. Len(q) /\ Len(q) \in Nat
      /\ DOMAIN Append(q, f) = 1 .. Len(q) + 1
      /\ \A i \in 1 .. Len(q) : Append(q, f)[i] = q[i]
      /\ Append(q, f)[Len(q) + 1] = f
  OBVIOUS
<1>2. 1 .. Len(q) + 1 = 1 .. Len(q) \cup {Len(q) + 1}
  BY <1>1
<1> QED BY <1>1, <1>2 DEF ElementsOf

LEMMA ElementsPop ==
  ASSUME NEW S, NEW q \in Seq(S), q # <<>>
  PROVE  /\ Head(q) \in ElementsOf(q)
         /\ ElementsOf(Tail(q)) \subseteq ElementsOf(q)
<1>1. Len(q) > 0 /\ Head(q) = q[1] /\ Len(Tail(q)) = Len(q) - 1
  OBVIOUS
<1>2. \A i \in 1 .. Len(q) - 1 : Tail(q)[i] = q[i + 1]
  OBVIOUS
<1> QED BY <1>1, <1>2 DEF ElementsOf

LEMMA ConcatFacts ==
  ASSUME NEW S, NEW p \in Seq(S), NEW q \in Seq(S)
  PROVE  /\ Len(p) \in Nat /\ Len(q) \in Nat
         /\ p \o q \in Seq(S) /\ Len(p \o q) = Len(p) + Len(q)
         /\ \A i \in 1 .. Len(p) : (p \o q)[i] = p[i]
         /\ \A i \in 1 .. Len(q) : (p \o q)[Len(p) + i] = q[i]
OBVIOUS

LEMMA ElementsConcat ==
  ASSUME NEW S, NEW p \in Seq(S), NEW q \in Seq(S)
  PROVE  ElementsOf(p \o q) = ElementsOf(p) \cup ElementsOf(q)
<1>1. /\ Len(p) \in Nat /\ Len(q) \in Nat /\ Len(p \o q) = Len(p) + Len(q)
      /\ DOMAIN p = 1 .. Len(p) /\ DOMAIN q = 1 .. Len(q)
      /\ DOMAIN (p \o q) = 1 .. Len(p) + Len(q)
  OBVIOUS
<1>2. /\ \A i \in 1 .. Len(p) : (p \o q)[i] = p[i]
      /\ \A i \in 1 .. Len(q) : (p \o q)[Len(p) + i] = q[i]
  OBVIOUS
<1>3. ASSUME NEW i \in 1 .. Len(p) + Len(q)
      PROVE  (p \o q)[i] \in ElementsOf(p) \cup ElementsOf(q)
  <2>1. CASE i <= Len(p)
    BY <1>1, <1>2, <2>1 DEF ElementsOf
  <2>2. CASE i > Len(p)
    <3>1. i - Len(p) \in 1 .. Len(q) /\ Len(p) + (i - Len(p)) = i
      BY <1>1, <2>2
    <3>2. (p \o q)[i] = q[i - Len(p)]
      BY <1>2, <3>1
    <3> QED BY <1>1, <3>1, <3>2 DEF ElementsOf
  <2> QED BY <1>1, <2>1, <2>2
<1>4. ElementsOf(p) \subseteq ElementsOf(p \o q)
  BY <1>1, <1>2 DEF ElementsOf
<1>5. ElementsOf(q) \subseteq ElementsOf(p \o q)
  <2>1. ASSUME NEW i \in 1 .. Len(q) PROVE q[i] \in ElementsOf(p \o q)
    <3>1. Len(p) + i \in DOMAIN (p \o q) /\ (p \o q)[Len(p) + i] = q[i]
      BY <1>1, <1>2
    <3> QED BY <3>1 DEF ElementsOf
  <2> QED BY <1>1, <2>1 DEF ElementsOf
<1> QED BY <1>1, <1>3, <1>4, <1>5 DEF ElementsOf

LEMMA SortedAppend ==
  ASSUME NEW S, NEW q \in Seq(S), NEW f \in S, NEW R, Sorted(q, R),
         \A e \in ElementsOf(q) : <<e, f>> \in R
  PROVE  Sorted(Append(q, f), R)
<1>1. /\ DOMAIN q = 1 .. Len(q) /\ Len(q) \in Nat
      /\ DOMAIN Append(q, f) = 1 .. Len(q) + 1
      /\ \A i \in 1 .. Len(q) : Append(q, f)[i] = q[i] /\ q[i] \in ElementsOf(q)
      /\ Append(q, f)[Len(q) + 1] = f
  BY DEF ElementsOf
<1>2. ASSUME NEW i \in 1 .. Len(q) + 1, NEW j \in 1 .. Len(q) + 1, i < j
      PROVE  <<Append(q, f)[i], Append(q, f)[j]>> \in R
  <2>1. i \in 1 .. Len(q)
    BY <1>1, <1>2
  <2>2. CASE j = Len(q) + 1
    BY <1>1, <2>1, <2>2
  <2>3. CASE j # Len(q) + 1
    <3>1. j \in 1 .. Len(q)
      BY <1>1, <2>3
    <3> QED BY <1>1, <1>2, <2>1, <3>1 DEF Sorted
  <2> QED BY <2>2, <2>3
<1> QED BY <1>1, <1>2 DEF Sorted

LEMMA SortedPop ==
  ASSUME NEW S, NEW q \in Seq(S), q # <<>>, NEW R, Sorted(q, R)
  PROVE  /\ Sorted(Tail(q), R)
         /\ \A e \in ElementsOf(Tail(q)) : <<Head(q), e>> \in R
<1>1. /\ Len(q) \in Nat /\ Len(q) > 0 /\ Head(q) = q[1]
      /\ DOMAIN q = 1 .. Len(q) /\ DOMAIN Tail(q) = 1 .. Len(q) - 1
      /\ \A i \in 1 .. Len(q) - 1 : Tail(q)[i] = q[i + 1]
  OBVIOUS
<1>2. \A i, j \in 1 .. Len(q) : i < j => <<q[i], q[j]>> \in R
  BY <1>1 DEF Sorted
<1>3. \A i \in 1 .. Len(q) - 1 : i + 1 \in 1 .. Len(q) /\ 1 < i + 1
  BY <1>1
<1>4. 1 \in 1 .. Len(q)
  BY <1>1
<1>5. \A i, j \in 1 .. Len(q) - 1 : i < j => i + 1 < j + 1
  OBVIOUS
<1> QED BY <1>1, <1>2, <1>3, <1>4, <1>5 DEF Sorted, ElementsOf

LEMMA SortedEmpty == ASSUME NEW R PROVE Sorted(<<>>, R)
BY DEF Sorted

\* Appending frames that follow everything in the queue and each other.
LEMMA SortedConcat ==
  ASSUME NEW S, NEW p \in Seq(S), NEW q \in Seq(S), NEW R, Sorted(p, R), Sorted(q, R),
         Before(p, q, R)
  PROVE  Sorted(p \o q, R)
<1>1. /\ Len(p) \in Nat /\ Len(q) \in Nat
      /\ DOMAIN p = 1 .. Len(p) /\ DOMAIN q = 1 .. Len(q)
      /\ DOMAIN (p \o q) = 1 .. Len(p) + Len(q)
  OBVIOUS
<1>2. /\ \A i \in 1 .. Len(p) : (p \o q)[i] = p[i]
      /\ \A i \in 1 .. Len(q) : (p \o q)[Len(p) + i] = q[i]
  OBVIOUS
<1>3. \A j \in 1 .. Len(p) + Len(q) : j > Len(p) =>
        j - Len(p) \in 1 .. Len(q) /\ (p \o q)[j] = q[j - Len(p)]
  <2> TAKE j \in 1 .. Len(p) + Len(q)
  <2> HAVE j > Len(p)
  <2>1. j - Len(p) \in 1 .. Len(q) /\ Len(p) + (j - Len(p)) = j
    BY <1>1
  <2> QED BY <1>2, <2>1
<1>4. ASSUME NEW i \in 1 .. Len(p) + Len(q), NEW j \in 1 .. Len(p) + Len(q), i < j
      PROVE  <<(p \o q)[i], (p \o q)[j]>> \in R
  <2>1. CASE j <= Len(p)
    <3>1. i \in 1 .. Len(p) /\ j \in 1 .. Len(p)
      BY <1>1, <1>4, <2>1
    <3> QED BY <1>1, <1>2, <1>4, <3>1 DEF Sorted
  <2>2. CASE i <= Len(p) /\ j > Len(p)
    <3>1. i \in 1 .. Len(p)
      BY <1>1, <2>2
    <3>2. p[i] \in ElementsOf(p) /\ q[j - Len(p)] \in ElementsOf(q)
      BY <1>1, <1>3, <2>2, <3>1 DEF ElementsOf
    <3> QED BY <1>2, <1>3, <2>2, <3>1, <3>2 DEF Before
  <2>3. CASE i > Len(p)
    <3>1. j > Len(p) /\ i - Len(p) < j - Len(p)
      BY <1>1, <1>4, <2>3
    <3>2. /\ i - Len(p) \in 1 .. Len(q) /\ (p \o q)[i] = q[i - Len(p)]
          /\ j - Len(p) \in 1 .. Len(q) /\ (p \o q)[j] = q[j - Len(p)]
      BY <1>3, <2>3, <3>1
    <3> QED BY <1>1, <3>1, <3>2 DEF Sorted
  <2>4. Len(p) \in Nat /\ i \in Int /\ j \in Int
    BY <1>1
  <2>5. j <= Len(p) \/ (i <= Len(p) /\ j > Len(p)) \/ i > Len(p)
    BY <2>4
  <2> QED BY <2>1, <2>2, <2>3, <2>5
<1> QED BY <1>1, <1>4 DEF Sorted

-----------------------------------------------------------------------------
(* What may happen to queues in line. *)

\* e stands where f stands in the order R on S.
Like(e, f, S, R) ==
  \A x \in S : /\ <<f, x>> \in R => <<e, x>> \in R
               /\ <<x, f>> \in R => <<x, e>> \in R

\* e has no place in the order R on S: it goes with everything.
Indifferent(e, S, R) == \A x \in S : <<e, x>> \in R /\ <<x, e>> \in R

LEMMA InLinePop ==
  ASSUME NEW S, NEW p \in Seq(S), NEW q \in Seq(S), NEW r \in Seq(S), NEW R,
         InLine(p, q, r, R)
  PROVE  /\ p # <<>> => InLine(Tail(p), q, r, R)
         /\ r # <<>> => InLine(p, q, Tail(r), R)
<1>1. ASSUME p # <<>> PROVE InLine(Tail(p), q, r, R)
  <2>1. ElementsOf(Tail(p)) \subseteq ElementsOf(p) /\ Sorted(Tail(p), R)
    BY <1>1, ElementsPop, SortedPop DEF InLine
  <2> QED BY <2>1 DEF InLine, Before
<1>2. ASSUME r # <<>> PROVE InLine(p, q, Tail(r), R)
  <2>1. ElementsOf(Tail(r)) \subseteq ElementsOf(r) /\ Sorted(Tail(r), R)
    BY <1>2, ElementsPop, SortedPop DEF InLine
  <2> QED BY <2>1 DEF InLine, Before
<1> QED BY <1>1, <1>2

\* The frame that leaves the second queue, or a copy of it, enters the first.
LEMMA InLineServe ==
  ASSUME NEW S, NEW p \in Seq(S), NEW q \in Seq(S), NEW r \in Seq(S), NEW R,
         InLine(p, q, r, R), q # <<>>, NEW e \in S, Like(e, Head(q), S, R)
  PROVE  InLine(Append(p, e), Tail(q), r, R)
<1>1. /\ Head(q) \in ElementsOf(q)
      /\ ElementsOf(Tail(q)) \subseteq ElementsOf(q)
      /\ Sorted(Tail(q), R)
      /\ \A x \in ElementsOf(Tail(q)) : <<Head(q), x>> \in R
  BY ElementsPop, SortedPop DEF InLine
<1>2. ElementsOf(Append(p, e)) = ElementsOf(p) \cup {e}
  BY ElementsAppend
<1>3. /\ ElementsOf(p) \subseteq S /\ ElementsOf(q) \subseteq S /\ ElementsOf(r) \subseteq S
  BY ElementsIn
<1>4. /\ \A x \in ElementsOf(p) : <<x, e>> \in R
      /\ \A x \in ElementsOf(Tail(q)) \cup ElementsOf(r) : <<e, x>> \in R
  BY <1>1, <1>3 DEF Like, InLine, Before
<1>5. Sorted(Append(p, e), R)
  BY <1>4, SortedAppend DEF InLine
<1> QED BY <1>1, <1>2, <1>4, <1>5 DEF InLine, Before

\* The frame that leaves the third queue enters the second one.
LEMMA InLineQueue ==
  ASSUME NEW S, NEW p \in Seq(S), NEW q \in Seq(S), NEW r \in Seq(S), NEW R,
         InLine(p, q, r, R), r # <<>>
  PROVE  InLine(p, Append(q, Head(r)), Tail(r), R)
<1> DEFINE e == Head(r)
<1>1. /\ e \in ElementsOf(r) /\ e \in S
      /\ ElementsOf(Tail(r)) \subseteq ElementsOf(r)
      /\ Sorted(Tail(r), R)
      /\ \A x \in ElementsOf(Tail(r)) : <<e, x>> \in R
  BY ElementsPop, ElementsIn, SortedPop DEF InLine
<1> HIDE DEF e
<1>2. ElementsOf(Append(q, e)) = ElementsOf(q) \cup {e}
  BY <1>1, ElementsAppend
<1>3. \A x \in ElementsOf(p) \cup ElementsOf(q) : <<x, e>> \in R
  BY <1>1 DEF InLine, Before
<1>4. Sorted(Append(q, e), R)
  BY <1>1, <1>3, SortedAppend DEF InLine
<1>5. InLine(p, Append(q, e), Tail(r), R)
  BY <1>1, <1>2, <1>3, <1>4 DEF InLine, Before
<1> QED BY <1>5 DEF e

\* It, or a copy of it, enters the first one when the second one is empty.
LEMMA InLinePass ==
  ASSUME NEW S, NEW p \in Seq(S), NEW r \in Seq(S), NEW R,
         InLine(p, <<>>, r, R), r # <<>>, NEW e \in S, Like(e, Head(r), S, R)
  PROVE  InLine(Append(p, e), <<>>, Tail(r), R)
<1>1. /\ Head(r) \in ElementsOf(r)
      /\ ElementsOf(Tail(r)) \subseteq ElementsOf(r)
      /\ Sorted(Tail(r), R)
      /\ \A x \in ElementsOf(Tail(r)) : <<Head(r), x>> \in R
  BY ElementsPop, SortedPop DEF InLine
<1>2. ElementsOf(Append(p, e)) = ElementsOf(p) \cup {e}
  BY ElementsAppend
<1>3. /\ ElementsOf(p) \subseteq S /\ ElementsOf(r) \subseteq S
  BY ElementsIn
<1>4. /\ \A x \in ElementsOf(p) : <<x, e>> \in R
      /\ \A x \in ElementsOf(Tail(r)) : <<e, x>> \in R
  BY <1>1, <1>3 DEF Like, InLine, Before
<1>5. Sorted(Append(p, e), R)
  BY <1>4, SortedAppend DEF InLine
<1> QED BY <1>1, <1>2, <1>4, <1>5, ElementsEmpty, SortedEmpty DEF InLine, Before

\* A frame of no concern enters one of the queues.
LEMMA InLineMix ==
  ASSUME NEW S, NEW p \in Seq(S), NEW q \in Seq(S), NEW r \in Seq(S), NEW R,
         InLine(p, q, r, R), NEW e \in S, Indifferent(e, S, R)
  PROVE  /\ InLine(Append(p, e), q, r, R)
         /\ InLine(p, Append(q, e), r, R)
         /\ InLine(p, q, Append(r, e), R)
<1>1. /\ ElementsOf(Append(p, e)) = ElementsOf(p) \cup {e}
      /\ ElementsOf(Append(q, e)) = ElementsOf(q) \cup {e}
      /\ ElementsOf(Append(r, e)) = ElementsOf(r) \cup {e}
  BY ElementsAppend
<1>2. /\ ElementsOf(p) \subseteq S /\ ElementsOf(q) \subseteq S /\ ElementsOf(r) \subseteq S
  BY ElementsIn
<1>3. \A x \in ElementsOf(p) \cup ElementsOf(q) \cup ElementsOf(r) :
        <<e, x>> \in R /\ <<x, e>> \in R
  BY <1>2 DEF Indifferent
<1>4. Sorted(Append(p, e), R) /\ Sorted(Append(q, e), R) /\ Sorted(Append(r, e), R)
  BY <1>3, SortedAppend DEF InLine
<1> QED BY <1>1, <1>3, <1>4 DEF InLine, Before

\* Frames that follow everything in the queues are appended to the last one.
LEMMA InLineExtend ==
  ASSUME NEW S, NEW p \in Seq(S), NEW q \in Seq(S), NEW r \in Seq(S), NEW R,
         InLine(p, q, r, R), NEW new \in Seq(S), Sorted(new, R),
         \A x \in ElementsOf(p) \cup ElementsOf(q) \cup ElementsOf(r),
            y \in ElementsOf(new) : <<x, y>> \in R
  PROVE  InLine(p, q, r \o new, R)
<1>1. ElementsOf(r \o new) = ElementsOf(r) \cup ElementsOf(new)
  BY ElementsConcat
<1>2. Sorted(r \o new, R)
  BY SortedConcat DEF InLine, Before
<1> QED BY <1>1, <1>2 DEF InLine, Before

-----------------------------------------------------------------------------
(* The same for queues in line that hold frames of G.  The switch may hand *)
(* on a copy of a frame: in Closed(G, R) it can take the frame's place.    *)

Closed(G, R) ==
  \A f \in G : \A e \in Copies(f) : e \in G /\ Like(e, f, Frame, R)

Neutral(e, G, R) == e \in G /\ Indifferent(e, Frame, R)

LEMMA LinePop ==
  ASSUME NEW p \in Seq(Frame), NEW q \in Seq(Frame), NEW r \in Seq(Frame), NEW G, NEW R,
         Line(G, R, p, q, r)
  PROVE  /\ p # <<>> => Line(G, R, Tail(p), q, r)
         /\ r # <<>> => Line(G, R, p, q, Tail(r))
<1>1. ASSUME p # <<>> PROVE Line(G, R, Tail(p), q, r)
  BY <1>1, ElementsPop, InLinePop DEF Line
<1>2. ASSUME r # <<>> PROVE Line(G, R, p, q, Tail(r))
  BY <1>2, ElementsPop, InLinePop DEF Line
<1> QED BY <1>1, <1>2

LEMMA LineServe ==
  ASSUME NEW p \in Seq(Frame), NEW q \in Seq(Frame), NEW r \in Seq(Frame), NEW G, NEW R,
         G \subseteq Frame, Closed(G, R), Line(G, R, p, q, r),
         q # <<>>, NEW e \in Copies(Head(q))
  PROVE  Line(G, R, Append(p, e), Tail(q), r)
<1>1. Head(q) \in G /\ ElementsOf(Tail(q)) \subseteq ElementsOf(q)
  BY ElementsPop DEF Line
<1>2. e \in G /\ e \in Frame /\ Like(e, Head(q), Frame, R)
  BY <1>1 DEF Closed
<1>3. InLine(Append(p, e), Tail(q), r, R)
  BY <1>2, InLineServe DEF Line
<1>4. ElementsOf(Append(p, e)) = ElementsOf(p) \cup {e}
  BY <1>2, ElementsAppend
<1> QED BY <1>1, <1>2, <1>3, <1>4 DEF Line

LEMMA LineQueue ==
  ASSUME NEW p \in Seq(Frame), NEW q \in Seq(Frame), NEW r \in Seq(Frame), NEW G, NEW R,
         Line(G, R, p, q, r), r # <<>>
  PROVE  Line(G, R, p, Append(q, Head(r)), Tail(r))
<1>1. Head(r) \in ElementsOf(r) /\ ElementsOf(Tail(r)) \subseteq ElementsOf(r)
  BY ElementsPop
<1>2. ElementsOf(Append(q, Head(r))) = ElementsOf(q) \cup {Head(r)}
  BY ElementsAppend
<1>3. InLine(p, Append(q, Head(r)), Tail(r), R)
  BY InLineQueue DEF Line
<1> QED BY <1>1, <1>2, <1>3 DEF Line

LEMMA LinePass ==
  ASSUME NEW p \in Seq(Frame), NEW r \in Seq(Frame), NEW G, NEW R,
         G \subseteq Frame, Closed(G, R), Line(G, R, p, <<>>, r),
         r # <<>>, NEW e \in Copies(Head(r))
  PROVE  Line(G, R, Append(p, e), <<>>, Tail(r))
<1>1. Head(r) \in G /\ ElementsOf(Tail(r)) \subseteq ElementsOf(r)
  BY ElementsPop DEF Line
<1>2. e \in G /\ e \in Frame /\ Like(e, Head(r), Frame, R)
  BY <1>1 DEF Closed
<1>3. InLine(Append(p, e), <<>>, Tail(r), R)
  BY <1>2, InLinePass DEF Line
<1>4. ElementsOf(Append(p, e)) = ElementsOf(p) \cup {e}
  BY <1>2, ElementsAppend
<1> QED BY <1>1, <1>2, <1>3, <1>4 DEF Line

LEMMA LineMix ==
  ASSUME NEW p \in Seq(Frame), NEW q \in Seq(Frame), NEW r \in Seq(Frame), NEW G, NEW R,
         Line(G, R, p, q, r), NEW e \in Frame, Neutral(e, G, R)
  PROVE  /\ Line(G, R, Append(p, e), q, r)
         /\ Line(G, R, p, Append(q, e), r)
         /\ Line(G, R, p, q, Append(r, e))
<1>1. /\ ElementsOf(Append(p, e)) = ElementsOf(p) \cup {e}
      /\ ElementsOf(Append(q, e)) = ElementsOf(q) \cup {e}
      /\ ElementsOf(Append(r, e)) = ElementsOf(r) \cup {e}
  BY ElementsAppend
<1>2. /\ InLine(Append(p, e), q, r, R)
      /\ InLine(p, Append(q, e), r, R)
      /\ InLine(p, q, Append(r, e), R)
  BY InLineMix DEF Line, Neutral
<1> QED BY <1>1, <1>2 DEF Line, Neutral

LEMMA LineExtend ==
  ASSUME NEW p \in Seq(Frame), NEW q \in Seq(Frame), NEW r \in Seq(Frame), NEW G, NEW R,
         Line(G, R, p, q, r), NEW new \in Seq(Frame),
         ElementsOf(new) \subseteq G, Sorted(new, R),
         \A x \in ElementsOf(p) \cup ElementsOf(q) \cup ElementsOf(r),
            y \in ElementsOf(new) : <<x, y>> \in R
  PROVE  Line(G, R, p, q, r \o new)
<1>1. ElementsOf(r \o new) = ElementsOf(r) \cup ElementsOf(new)
  BY ElementsConcat
<1>2. InLine(p, q, r \o new, R)
  BY InLineExtend DEF Line
<1> QED BY <1>1, <1>2 DEF Line

LEMMA LineExtendNeutral ==
  ASSUME NEW p \in Seq(Frame), NEW q \in Seq(Frame), NEW r \in Seq(Frame), NEW G, NEW R,
         Line(G, R, p, q, r), NEW new \in Seq(Frame),
         \A y \in ElementsOf(new) : Neutral(y, G, R)
  PROVE  Line(G, R, p, q, r \o new)
<1>1. /\ ElementsOf(p) \subseteq Frame /\ ElementsOf(q) \subseteq Frame
      /\ ElementsOf(r) \subseteq Frame /\ ElementsOf(new) \subseteq Frame
  BY ElementsIn
<1>2. ElementsOf(new) \subseteq G /\ \A x \in Frame, y \in ElementsOf(new) : <<x, y>> \in R
  BY DEF Neutral, Indifferent
<1>3. Sorted(new, R)
  BY <1>1, <1>2 DEF Sorted, ElementsOf
<1> QED BY <1>1, <1>2, <1>3, LineExtend

\* The frames may be held to more, or to other, requirements.
LEMMA LineGoods ==
  ASSUME NEW p, NEW q, NEW r, NEW G, NEW H, NEW R, Line(G, R, p, q, r),
         \A f \in ElementsOf(p) \cup ElementsOf(q) \cup ElementsOf(r) : f \in G => f \in H
  PROVE  Line(H, R, p, q, r)
BY DEF Line

LEMMA CopyFields ==
  ASSUME NEW f \in Frame, NEW e \in Copies(f)
  PROVE  /\ e \in Frame /\ e.is_ack = f.is_ack /\ e.src_id = f.src_id
         /\ e.dst_id = f.dst_id /\ e.seq_num = f.seq_num /\ e.ack_num = f.ack_num
         /\ e.data = f.data /\ e.starting_index = f.starting_index
         /\ e.remaining = f.remaining
BY DEF Copies, Frame

\* The data frames of a pair, and the frames that are none of its.
LEMMA DataClosed ==
  ASSUME NEW s, NEW d, NEW M, NEW w, NEW g, NEW t
  PROVE  Closed(DataFrames(s, d, M, w, g, t), DataOrder(s, d))
<1> DEFINE G == DataFrames(s, d, M, w, g, t)
<1>1. SUFFICES ASSUME NEW f \in G, NEW e \in Copies(f)
               PROVE  e \in G /\ Like(e, f, Frame, DataOrder(s, d))
  BY DEF Closed
<1>2. f \in Frame
  BY DEF DataFrames
<1>3. /\ e \in Frame /\ e.is_ack = f.is_ack /\ e.src_id = f.src_id
      /\ e.dst_id = f.dst_id /\ e.seq_num = f.seq_num /\ e.ack_num = f.ack_num
      /\ e.data = f.data /\ e.starting_index = f.starting_index
      /\ e.remaining = f.remaining
  BY <1>2, CopyFields
<1>4. DataOf(s, d, e) <=> DataOf(s, d, f)
  BY <1>3 DEF DataOf
<1>5. Genuine(s, d, M, f) => Genuine(s, d, M, e)
  BY <1>3, <1>4 DEF Genuine, PieceOf
<1>6. e \in G
  BY <1>3, <1>4, <1>5 DEF DataFrames
<1>7. Like(e, f, Frame, DataOrder(s, d))
  BY <1>2, <1>3, <1>4 DEF Like, DataOrder
<1> QED BY <1>6, <1>7

LEMMA DataNeutral ==
  ASSUME NEW s, NEW d, NEW M, NEW w, NEW g, NEW t, NEW e \in Frame, ~DataOf(s, d, e)
  PROVE  Neutral(e, DataFrames(s, d, M, w, g, t), DataOrder(s, d))
BY DEF Neutral, Indifferent, DataFrames, DataOrder

LEMMA AckClosed ==
  ASSUME NEW s, NEW d, NEW a, NEW g
  PROVE  Closed(AckFrames(s, d, a, g), AckOrder(s, d, a))
<1> DEFINE G == AckFrames(s, d, a, g)
<1>1. SUFFICES ASSUME NEW f \in G, NEW e \in Copies(f)
               PROVE  e \in G /\ Like(e, f, Frame, AckOrder(s, d, a))
  BY DEF Closed
<1>2. f \in Frame
  BY DEF AckFrames
<1>3. /\ e \in Frame /\ e.is_ack = f.is_ack /\ e.src_id = f.src_id
      /\ e.dst_id = f.dst_id /\ e.ack_num = f.ack_num
  BY <1>2, CopyFields
<1>4. AckOf(s, d, e) <=> AckOf(s, d, f)
  BY <1>3 DEF AckOf
<1>5. e \in G
  BY <1>3, <1>4 DEF AckFrames
<1>6. Like(e, f, Frame, AckOrder(s, d, a))
  BY <1>2, <1>3, <1>4 DEF Like, AckOrder
<1> QED BY <1>5, <1>6

LEMMA AckNeutral ==
  ASSUME NEW s, NEW d, NEW a, NEW g, NEW e \in Frame, ~AckOf(s, d, e)
  PROVE  Neutral(e, AckFrames(s, d, a, g), AckOrder(s, d, a))
BY DEF Neutral, Indifferent, AckFrames, AckOrder

-----------------------------------------------------------------------------
(* Numbers modulo MAX_SEQ_NUM + 1. *)

LEMMA NonZeroMultiple ==
  ASSUME NEW k \in Int, NEW w \in Nat, w > 0, k * w < w, -w < k * w
  PROVE  k = 0
<1>1. CASE k >= 1
  <2>1. PICK j \in Nat : k = j + 1
    <3> k - 1 \in Nat /\ k = (k - 1) + 1
      BY <1>1
    <3> QED OBVIOUS
  <2>2. k * w = j * w + w /\ j * w \in Nat
    BY <2>1
  <2> QED BY <2>2
<1>2. CASE k <= -1
  <2>1. PICK j \in Nat : k = -(j + 1)
    <3> -k - 1 \in Nat /\ k = -((-k - 1) + 1)
      BY <1>2
    <3> QED OBVIOUS
  <2>2. k * w = -(j * w) - w /\ j * w \in Nat
    BY <2>1
  <2> QED BY <2>2
<1> QED BY <1>1, <1>2

\* Numbers with one remainder that are less than the modulus apart are equal.
LEMMA SameRemainder ==
  ASSUME NEW w \in Nat, w > 0, NEW x \in Int, NEW y \in Int, x % w = y % w,
         x - y < w, y - x < w
  PROVE  x = y
<1> DEFINE qx == x \div w
           qy == y \div w
<1>1. qx \in Int /\ qy \in Int /\ x % w \in Int
  OBVIOUS
<1>2. x = qx * w + (x % w) /\ y = qy * w + (y % w)
  OBVIOUS
<1> HIDE DEF qx, qy
<1>3. qx * w \in Int /\ qy * w \in Int /\ (qx - qy) * w = qx * w - qy * w
  BY <1>1
<1>4. (qx - qy) * w = x - y
  BY <1>1, <1>2, <1>3
<1>5. qx - qy = 0
  BY <1>1, <1>4, NonZeroMultiple
<1> QED BY <1>1, <1>2, <1>5

LEMMA Uint8Injective ==
  ASSUME NEW n \in Int, NEW m \in Int, uint8(n) = uint8(m),
         n - m <= MAX_SEQ_NUM, m - n <= MAX_SEQ_NUM
  PROVE  n = m
<1>1. MAX_SEQ_NUM + 1 \in Nat /\ MAX_SEQ_NUM + 1 > 0
  BY SeqNumAssumption
<1>2. n - m < MAX_SEQ_NUM + 1 /\ m - n < MAX_SEQ_NUM + 1
  BY SeqNumAssumption
<1> QED BY <1>1, <1>2, SameRemainder DEF uint8

\* A number cut to 8 bits in the middle of a sum.
LEMMA Uint8Absorbs ==
  ASSUME NEW n \in Int, NEW k \in Int
  PROVE  uint8(uint8(n) + k) = uint8(n + k)
<1> DEFINE N == MAX_SEQ_NUM + 1
           r == uint8(n)
           u == uint8(r + k)
<1>1. r \in Int /\ N \in Int
  BY Uint8Type, SeqNumAssumption DEF SeqNums
<1>2. PICK q \in Int : n = q * N + r
  BY Uint8Quotient
<1>3. PICK p \in Int : r + k = p * N + u
  <2> HIDE DEF r
  <2> QED BY <1>1, Uint8Quotient
<1>4. u \in SeqNums /\ u \in Int
  <2> HIDE DEF r
  <2> QED BY <1>1, Uint8Type, SeqNumAssumption DEF SeqNums
<1> HIDE DEF r, u
<1>5. /\ q * N \in Int /\ p * N \in Int /\ (q + p) * N = q * N + p * N
  BY <1>1
<1>6. n + k = (q + p) * N + u
  BY <1>1, <1>2, <1>3, <1>4, <1>5
<1>7. uint8(n + k) = u
  BY <1>4, <1>6, Uint8Unique
<1> QED BY <1>7 DEF r, u

LEMMA AcknowledgesType ==
  ASSUME NEW a \in Int, NEW n \in Int
  PROVE  /\ Acknowledges(a, n) \in Int
         /\ a <= Acknowledges(a, n) /\ Acknowledges(a, n) <= a + MAX_SEQ_NUM
BY Uint8Type, SeqNumAssumption DEF Acknowledges, SeqNums

\* The number of pieces an ack stands for, from the 8 bits it has.
LEMMA AcknowledgesCount ==
  ASSUME NEW a \in Int, NEW c \in Int, a <= c, c <= a + MAX_SEQ_NUM
  PROVE  Acknowledges(a, uint8(c - 1)) = c
<1>1. uint8(c - 1) \in Int
  BY Uint8Type DEF SeqNums
<1>2. uint8(c - 1) + 1 - a = uint8(c - 1) + (1 - a) /\ (c - 1) + (1 - a) = c - a
  BY <1>1
<1>3. uint8(uint8(c - 1) + (1 - a)) = uint8((c - 1) + (1 - a))
  BY Uint8Absorbs
<1>4. c - a \in SeqNums
  BY SeqNumAssumption DEF SeqNums
<1>5. uint8(uint8(c - 1) + 1 - a) = c - a
  BY <1>2, <1>3, <1>4, Uint8Identity
<1> QED BY <1>5 DEF Acknowledges

\* ... and back.
LEMMA AcknowledgesNumber ==
  ASSUME NEW a \in Int, NEW n \in SeqNums
  PROVE  uint8(Acknowledges(a, n) - 1) = n
<1> DEFINE r == uint8(n + 1 - a)
<1>1. r \in Int /\ n \in Int
  BY Uint8Type DEF SeqNums
<1>2. Acknowledges(a, n) - 1 = r + (a - 1)
  <2> HIDE DEF r
  <2>1. Acknowledges(a, n) = a + r
    BY DEF Acknowledges, r
  <2> QED BY <1>1, <2>1
<1>3. uint8(r + (a - 1)) = uint8((n + 1 - a) + (a - 1))
  BY <1>1, Uint8Absorbs
<1>4. (n + 1 - a) + (a - 1) = n
  BY <1>1
<1> QED BY <1>2, <1>3, <1>4, Uint8Identity

-----------------------------------------------------------------------------
(* The messages of a pair. *)

LEMMA EndOfType ==
  ASSUME NEW M \in Seq(Seq(Nat)), NEW last \in Nat, Consecutive(M, last)
  PROVE  /\ Len(M) \in Nat
         /\ \A m \in 0 .. Len(M) : EndOf(M, m) \in Nat /\ EndOf(M, m) <= last
         /\ EndOf(M, 0) = 0
         /\ \A l, m \in 0 .. Len(M) : l < m => EndOf(M, l) < EndOf(M, m)
         /\ \A l, m \in 0 .. Len(M) : EndOf(M, l) < EndOf(M, m) => l < m
<1>1. Len(M) \in Nat /\ EndOf(M, 0) = 0
  BY DEF EndOf
<1>2. ASSUME NEW m \in 1 .. Len(M) PROVE EndOf(M, m) \in Nat
  <2>1. M[m] \in Seq(Nat) /\ M[m] # <<>>
    <3>1. M[m] # <<>>
      BY Zenon DEF Consecutive
    <3> QED BY <3>1
  <2>2. M[m][Len(M[m])] \in Nat
    BY <2>1
  <2> QED BY <2>2 DEF EndOf
<1>3. \A m \in 0 .. Len(M) : EndOf(M, m) \in Nat
  <2> TAKE m \in 0 .. Len(M)
  <2>1. m = 0 \/ m \in 1 .. Len(M)
    BY <1>1
  <2> QED BY <1>1, <1>2, <2>1
<1>4. /\ \A l, m \in 0 .. Len(M) : l < m => EndOf(M, l) < EndOf(M, m)
      /\ EndOf(M, Len(M)) = last
  BY DEF Consecutive
<1>5. ASSUME NEW m \in 0 .. Len(M) PROVE EndOf(M, m) <= last
  <2>1. Len(M) \in 0 .. Len(M) /\ (m = Len(M) \/ m < Len(M))
    BY <1>1
  <2> QED BY <1>3, <1>4, <2>1
<1>6. ASSUME NEW l \in 0 .. Len(M), NEW m \in 0 .. Len(M), EndOf(M, l) < EndOf(M, m)
      PROVE  l < m
  <2>1. l < m \/ l = m \/ m < l
    BY <1>1
  <2>2. EndOf(M, l) \in Nat /\ EndOf(M, m) \in Nat
    BY <1>3
  <2> QED BY <1>4, <1>6, <2>1, <2>2
<1> QED BY <1>1, <1>3, <1>4, <1>5, <1>6

\* A message issued: the next n pieces.
LEMMA IssueMessages ==
  ASSUME NEW M \in Seq(Seq(Nat)), NEW last \in Nat, Consecutive(M, last),
         NEW n \in Nat, n > 0
  PROVE  LET N == Append(M, [i \in 1 .. n |-> last + i])
         IN  /\ Consecutive(N, last + n)
             /\ N \in Seq(Seq(Nat)) /\ Len(N) = Len(M) + 1
             /\ \A m \in 1 .. Len(M) : N[m] = M[m]
             /\ N[Len(M) + 1] = [i \in 1 .. n |-> last + i]
             /\ \A m \in 0 .. Len(M) : EndOf(N, m) = EndOf(M, m)
<1> DEFINE new == [i \in 1 .. n |-> last + i]
           N   == Append(M, new)
<1>1. new \in Seq(Nat) /\ Len(new) = n /\ new[n] = last + n /\ new # <<>>
  <2>1. \A i \in 1 .. n : last + i \in Nat
    OBVIOUS
  <2>2. n \in 1 .. n /\ new[n] = last + n
    OBVIOUS
  <2>3. new \in Seq(Nat) /\ Len(new) = n
    BY <2>1
  <2>4. new # <<>>
    <3> HIDE DEF new
    <3> QED BY <2>3
  <2> QED BY <2>2, <2>3, <2>4
<1> HIDE DEF new
<1>2. Len(M) \in Nat
  OBVIOUS
<1>3. /\ N \in Seq(Seq(Nat)) /\ Len(N) = Len(M) + 1
      /\ \A m \in 1 .. Len(M) : N[m] = M[m]
      /\ N[Len(M) + 1] = new
  BY <1>1
<1> HIDE DEF N
<1>4. \A m \in 0 .. Len(M) : EndOf(N, m) = EndOf(M, m)
  BY <1>2, <1>3 DEF EndOf
<1>5. EndOf(N, Len(M) + 1) = last + n
  BY <1>1, <1>2, <1>3 DEF EndOf
<1>6. /\ \A m \in 0 .. Len(M) : EndOf(M, m) \in Nat /\ EndOf(M, m) <= last
      /\ \A l, m \in 0 .. Len(M) : l < m => EndOf(M, l) < EndOf(M, m)
      /\ EndOf(M, Len(M)) = last
  BY EndOfType DEF Consecutive
<1>7. Consecutive(N, last + n)
  <2>1. ASSUME NEW m \in 1 .. Len(N)
        PROVE  /\ N[m] # <<>>
               /\ N[m] = [i \in 1 .. EndOf(N, m) - EndOf(N, m - 1)
                            |-> EndOf(N, m - 1) + i]
    <3>1. CASE m \in 1 .. Len(M)
      <4>1. m - 1 \in 0 .. Len(M) /\ m \in 0 .. Len(M)
        BY <1>2, <3>1
      <4>2. M[m] # <<>> /\ M[m] = [i \in 1 .. EndOf(M, m) - EndOf(M, m - 1)
                                     |-> EndOf(M, m - 1) + i]
        BY <3>1 DEF Consecutive
      <4>3. N[m] = M[m] /\ EndOf(N, m) = EndOf(M, m) /\ EndOf(N, m - 1) = EndOf(M, m - 1)
        BY <1>3, <1>4, <3>1, <4>1
      <4> QED BY <4>2, <4>3
    <3>2. CASE m = Len(M) + 1
      <4>1. m - 1 = Len(M) /\ Len(M) \in 0 .. Len(M)
        BY <1>2, <3>2
      <4>2. EndOf(N, m) = last + n /\ EndOf(N, m - 1) = last
        BY <1>4, <1>5, <1>6, <3>2, <4>1
      <4>3. EndOf(N, m) - EndOf(N, m - 1) = n
        BY <4>2
      <4>4. N[m] = [i \in 1 .. n |-> last + i]
        BY <1>3, <3>2 DEF new
      <4> QED BY <1>1, <1>3, <3>2, <4>2, <4>3, <4>4
    <3> QED BY <1>2, <1>3, <3>1, <3>2
  <2>2. ASSUME NEW l \in 0 .. Len(N), NEW m \in 0 .. Len(N), l < m
        PROVE  EndOf(N, l) < EndOf(N, m)
    <3>1. l \in 0 .. Len(M) /\ (m \in 0 .. Len(M) \/ m = Len(M) + 1)
      BY <1>2, <1>3, <2>2
    <3>2. EndOf(N, l) = EndOf(M, l) /\ EndOf(M, l) \in Nat /\ EndOf(M, l) <= last
      BY <1>4, <1>6, <3>1
    <3>3. CASE m \in 0 .. Len(M)
      BY <1>4, <1>6, <2>2, <3>1, <3>2, <3>3
    <3>4. CASE m = Len(M) + 1
      BY <1>5, <3>2, <3>4
    <3> QED BY <3>1, <3>3, <3>4
  <2> QED BY <1>3, <1>5, <2>1, <2>2 DEF Consecutive
<1> QED BY <1>3, <1>4, <1>7 DEF N, new

LEMMA IssueGenuine ==
  ASSUME NEW M \in Seq(Seq(Nat)), NEW N \in Seq(Seq(Nat)), Len(N) >= Len(M),
         \A m \in 0 .. Len(M) : EndOf(N, m) = EndOf(M, m),
         NEW s, NEW d, NEW f, Genuine(s, d, M, f)
  PROVE  Genuine(s, d, N, f)
<1>1. PICK m \in 1 .. Len(M) : PieceOf(M, m, f)
  BY DEF Genuine
<1>2. m \in 0 .. Len(M) /\ m - 1 \in 0 .. Len(M) /\ m \in 1 .. Len(N)
  OBVIOUS
<1>3. PieceOf(N, m, f)
  BY <1>1, <1>2 DEF PieceOf
<1> QED BY <1>2, <1>3 DEF Genuine

\* The commands of the host: one more, or one less.
LEMMA IssueCommand ==
  ASSUME NEW d, NEW M \in Seq(Seq(Nat)), NEW N \in Seq(Seq(Nat)), NEW m \in Seq(Nat),
         Len(N) = Len(M) + 1, \A i \in 1 .. Len(M) : N[i] = M[i],
         \A i \in 0 .. Len(M) : EndOf(N, i) = EndOf(M, i), N[Len(M) + 1] = m,
         NEW c \in Seq(Cmd), NEW n, CommandsOK(d, M, c, n),
         [dst_id |-> d, message |-> m] \in Cmd
  PROVE  CommandsOK(d, N, Append(c, [dst_id |-> d, message |-> m]), n)
<1> DEFINE x == [dst_id |-> d, message |-> m]
           b == Append(c, x)
<1>1. /\ Len(M) \in Nat /\ Len(c) \in Nat /\ Len(c) <= Len(M)
      /\ n = EndOf(M, Len(M) - Len(c))
      /\ \A i \in 1 .. Len(c) : c[i] = [dst_id |-> d, message |-> M[Len(M) - Len(c) + i]]
  BY DEF CommandsOK
<1>2. /\ Len(b) = Len(c) + 1 /\ b[Len(c) + 1] = x
      /\ \A i \in 1 .. Len(c) : b[i] = c[i]
  OBVIOUS
<1> HIDE DEF b
<1>3. Len(N) - Len(b) = Len(M) - Len(c) /\ Len(M) - Len(c) \in 0 .. Len(M)
  BY <1>1, <1>2
<1>4. ASSUME NEW i \in 1 .. Len(b)
      PROVE  b[i] = [dst_id |-> d, message |-> N[Len(N) - Len(b) + i]]
  <2>1. CASE i \in 1 .. Len(c)
    <3>1. Len(M) - Len(c) + i \in 1 .. Len(M)
      BY <1>1, <2>1
    <3> QED BY <1>1, <1>2, <1>3, <2>1, <3>1
  <2>2. CASE i = Len(c) + 1
    <3>1. Len(N) - Len(b) + i = Len(M) + 1
      BY <1>1, <1>2, <1>3, <2>2
    <3> QED BY <1>2, <2>2, <3>1
  <2> QED BY <1>1, <1>2, <2>1, <2>2
<1>5. Len(b) <= Len(N)
  BY <1>1, <1>2
<1>6. CommandsOK(d, N, b, n)
  BY <1>1, <1>3, <1>4, <1>5 DEF CommandsOK
<1> QED BY <1>6 DEF b

LEMMA TakeCommand ==
  ASSUME NEW d, NEW M \in Seq(Seq(Nat)), NEW last \in Nat, Consecutive(M, last),
         NEW c \in Seq(Cmd), c # <<>>, NEW n \in Nat, CommandsOK(d, M, c, n)
  PROVE  LET k == Len(M) - Len(c)
         IN  /\ k + 1 \in 1 .. Len(M) /\ n = EndOf(M, k)
             /\ Head(c) = [dst_id |-> d, message |-> M[k + 1]]
             /\ Len(M[k + 1]) = EndOf(M, k + 1) - n
             /\ M[k + 1] = [i \in 1 .. EndOf(M, k + 1) - n |-> n + i]
             /\ n < EndOf(M, k + 1) /\ EndOf(M, k + 1) \in Nat
             /\ EndOf(M, k + 1) <= last
             /\ CommandsOK(d, M, Tail(c), EndOf(M, k + 1))
<1> DEFINE k == Len(M) - Len(c)
<1>1. /\ Len(M) \in Nat /\ Len(c) \in Nat /\ Len(c) > 0 /\ Len(c) <= Len(M)
      /\ n = EndOf(M, k)
      /\ \A i \in 1 .. Len(c) : c[i] = [dst_id |-> d, message |-> M[k + i]]
  BY DEF CommandsOK
<1>2. k \in Nat /\ k \in 0 .. Len(M) /\ k + 1 \in 1 .. Len(M) /\ k + 1 \in 0 .. Len(M)
      /\ (k + 1) - 1 = k /\ k < k + 1
  BY <1>1
<1>3. Head(c) = [dst_id |-> d, message |-> M[k + 1]]
  <2>1. Head(c) = c[1] /\ 1 \in 1 .. Len(c)
    BY <1>1
  <2> HIDE DEF k
  <2> QED BY <1>1, <2>1
<1>4. /\ EndOf(M, k + 1) \in Nat /\ EndOf(M, k) < EndOf(M, k + 1)
      /\ EndOf(M, k + 1) <= last
  <2> HIDE DEF k
  <2> QED BY <1>2, EndOfType
<1>5. M[k + 1] = [i \in 1 .. EndOf(M, k + 1) - n |-> n + i]
  <2> HIDE DEF k
  <2> QED BY <1>1, <1>2 DEF Consecutive
<1>6. Len(M[k + 1]) = EndOf(M, k + 1) - n
  <2> HIDE DEF k
  <2>1. EndOf(M, k + 1) - n \in Nat
    BY <1>1, <1>4
  <2> QED BY <1>5, <2>1
<1>7. CommandsOK(d, M, Tail(c), EndOf(M, k + 1))
  <2>1. /\ Len(Tail(c)) = Len(c) - 1
        /\ \A i \in 1 .. Len(c) - 1 : Tail(c)[i] = c[i + 1]
    BY <1>1
  <2>2. Len(M) - Len(Tail(c)) = k + 1
    BY <1>1, <2>1
  <2>3. \A i \in 1 .. Len(c) - 1 : i + 1 \in 1 .. Len(c) /\ k + (i + 1) = (k + 1) + i
    BY <1>1
  <2> HIDE DEF k
  <2> QED BY <1>1, <2>1, <2>2, <2>3 DEF CommandsOK
<1> QED BY <1>1, <1>2, <1>3, <1>4, <1>5, <1>6, <1>7

\* Its pieces become numbered frames at the end of the buffer.
FragmentsOf(s, d, n, e, new) ==
  /\ Len(new) = e - n
  /\ \A i \in 1 .. e - n :
       /\ new[i].src_id = s /\ new[i].dst_id = d
       /\ new[i].is_ack = 0 /\ new[i].ack_num = 0
       /\ new[i].seq_num = uint8(n + i - 1) /\ new[i].data = n + i
       /\ new[i].starting_index = i - 1 /\ new[i].remaining = (e - n) - i

LEMMA PieceArithmetic ==
  ASSUME NEW n \in Nat, NEW e \in Nat, NEW i \in 1 .. e - n
  PROVE  /\ n + i - 1 = (n + i) - 1 /\ i - 1 = (n + i) - n - 1
         /\ (e - n) - i = e - (n + i) /\ n < n + i /\ n + i <= e
OBVIOUS

LEMMA BufferFragments ==
  ASSUME NEW s, NEW d, NEW M, NEW k \in Nat, k + 1 \in 1 .. Len(M),
         NEW b \in Seq(Frame), NEW t \in Nat, NEW n \in Nat, NEW e \in Nat,
         BufferOK(s, d, M, b, t, n), n = EndOf(M, k), e = EndOf(M, k + 1), n < e,
         NEW new \in Seq(Frame), FragmentsOf(s, d, n, e, new)
  PROVE  BufferOK(s, d, M, b \o new, t, e)
<1> DEFINE l == Len(b)
           c == b \o new
<1>1. /\ l \in Nat /\ n = t + l
      /\ \A i \in 1 .. l : b[i].data = t + i /\ Genuine(s, d, M, b[i])
  BY DEF BufferOK
<1>2. /\ Len(c) = l + (e - n)
      /\ \A i \in 1 .. l : c[i] = b[i]
      /\ \A i \in 1 .. e - n : c[l + i] = new[i]
  <2>1. Len(new) = e - n
    BY DEF FragmentsOf
  <2>2. /\ Len(b \o new) = Len(b) + Len(new)
        /\ \A i \in 1 .. Len(b) : (b \o new)[i] = b[i]
        /\ \A i \in 1 .. Len(new) : (b \o new)[Len(b) + i] = new[i]
    BY ConcatFacts
  <2> QED BY <2>1, <2>2
<1>3. ASSUME NEW i \in 1 .. e - n PROVE new[i].data = n + i /\ Genuine(s, d, M, new[i])
  <2>1. /\ DataOf(s, d, new[i])
        /\ new[i].seq_num = uint8(n + i - 1) /\ new[i].ack_num = 0
        /\ new[i].data = n + i /\ new[i].starting_index = i - 1
        /\ new[i].remaining = (e - n) - i
    BY DEF FragmentsOf, DataOf
  <2>2. n + i - 1 = (n + i) - 1 /\ i - 1 = (n + i) - n - 1 /\ (e - n) - i = e - (n + i)
        /\ n < n + i /\ n + i <= e
    BY PieceArithmetic
  <2>3. (k + 1) - 1 = k
    OBVIOUS
  <2>4. PieceOf(M, k + 1, new[i])
    BY <2>1, <2>2, <2>3 DEF PieceOf
  <2> QED BY <2>1, <2>2, <2>4 DEF Genuine
<1> HIDE DEF l, c
<1>4. ASSUME NEW i \in 1 .. l + (e - n)
      PROVE  c[i].data = t + i /\ Genuine(s, d, M, c[i])
  <2>1. CASE i <= l
    BY <1>1, <1>2, <2>1
  <2>2. CASE i > l
    <3>1. i - l \in 1 .. e - n /\ l + (i - l) = i /\ n + (i - l) = t + i
      BY <1>1, <2>2
    <3>2. c[i] = new[i - l]
      BY <1>2, <3>1
    <3> QED BY <1>3, <3>1, <3>2
  <2> QED BY <1>1, <2>1, <2>2
<1>5. e = t + (l + (e - n))
  BY <1>1
<1> QED BY <1>2, <1>4, <1>5 DEF BufferOK, c

-----------------------------------------------------------------------------
(* The window of the sender. *)

\* It holds no more pieces than it has slots.
LEMMA WindowBound ==
  ASSUME NEW s, NEW d, NEW M, NEW w \in [Slots -> Frame \cup {NoFrame}],
         NEW a \in Nat, NEW t \in Nat, a <= t, WindowOK(s, d, M, w, a, t)
  PROVE  t <= a + window_size
<1> DEFINE O == Occupied(w)
           h == [q \in O |-> w[q].data]
<1>1. IsFiniteSet(Slots) /\ Cardinality(Slots) = window_size
  BY FS_Interval, ConfigAssumption DEF Slots
<1>2. IsFiniteSet(O) /\ Cardinality(O) <= window_size /\ Cardinality(O) \in Nat
  <2>1. O \subseteq Slots
    BY DEF Occupied
  <2> HIDE DEF O
  <2> QED BY <1>1, <2>1, FS_Subset, FS_CardinalityType
<1>3. /\ \A q \in O : a < w[q].data /\ w[q].data <= t
      /\ \A k \in a + 1 .. t : \E q \in O : w[q].data = k
  BY DEF WindowOK
<1>4. \A q \in O : w[q].data \in a + 1 .. t
  <2>1. \A q \in O : w[q] \in Frame
    BY DEF Occupied, HasFrame
  <2> HIDE DEF O
  <2> QED BY <1>3, <2>1 DEF Frame
<1>5. h \in Surjection(O, a + 1 .. t)
  <2> HIDE DEF O
  <2> QED BY <1>3, <1>4 DEF Surjection
<1>6. Cardinality(a + 1 .. t) <= Cardinality(O)
  <2> HIDE DEF O, h
  <2> QED BY <1>2, <1>5, FS_Surjection
<1>7. Cardinality(a + 1 .. t) = t - a
  <2>1. Cardinality(a + 1 .. t) = IF a + 1 > t THEN 0 ELSE t - (a + 1) + 1
    BY FS_Interval
  <2> QED BY <2>1
<1> HIDE DEF O
<1> QED BY <1>2, <1>6, <1>7, ConfigAssumption

LEMMA WindowFrames ==
  ASSUME NEW w \in [Slots -> Frame \cup {NoFrame}], NEW q \in Occupied(w)
  PROVE  q \in Slots /\ w[q] \in Frame /\ w[q] # NoFrame
BY DEF Occupied, HasFrame

\* An ack of c pieces frees the slots of those that were not acknowledged.
UpTo(w, c) == {q \in Occupied(w) : w[q].data <= c}

Cleared(w, freed) == [q \in Slots |-> IF q \in freed THEN NoFrame ELSE w[q]]

LEMMA WindowFree ==
  ASSUME NEW s, NEW d, NEW M, NEW w \in [Slots -> Frame \cup {NoFrame}],
         NEW a \in Nat, NEW t \in Nat, WindowOK(s, d, M, w, a, t),
         NEW c \in Nat, a <= c
  PROVE  WindowOK(s, d, M, Cleared(w, UpTo(w, c)), c, t)
<1> DEFINE freed == UpTo(w, c)
           x == Cleared(w, freed)
<1>0. freed = {q \in Occupied(w) : w[q].data <= c}
  BY DEF UpTo
<1> HIDE DEF freed
<1>1. Occupied(x) = Occupied(w) \ freed /\ \A q \in Occupied(x) : x[q] = w[q]
  BY <1>0 DEF Occupied, HasFrame, Cleared
<1> HIDE DEF x
<1>2. \A q \in Occupied(w) : w[q].data \in Nat
  BY WindowFrames DEF Frame
<1>3. \A q \in Occupied(x) : c < x[q].data
  BY <1>0, <1>1, <1>2
<1>4. ASSUME NEW k \in c + 1 .. t PROVE \E q \in Occupied(x) : x[q].data = k
  <2>1. k \in a + 1 .. t /\ ~(k <= c)
    OBVIOUS
  <2>2. PICK q \in Occupied(w) : w[q].data = k
    BY <2>1 DEF WindowOK
  <2> QED BY <1>0, <1>1, <2>1, <2>2
<1>5. WindowOK(s, d, M, x, c, t)
  BY <1>1, <1>3, <1>4 DEF WindowOK
<1> QED BY <1>5 DEF x, freed

\* The first m frames of the buffer enter free slots.
Filled(w, b, m, free) ==
  [q \in Slots |-> IF q \in {free[k] : k \in 1 .. m}
                   THEN b[CHOOSE k \in 1 .. m : free[k] = q] ELSE w[q]]

FreeSlots(w, m, free) ==
  /\ \A k \in 1 .. m : free[k] \in Slots \ Occupied(w)
  /\ \A j, k \in 1 .. m : free[j] = free[k] => j = k

Filling(s, d, M, w, b, a, t, n, m, free) ==
  /\ w \in [Slots -> Frame \cup {NoFrame}] /\ b \in Seq(Frame)
  /\ a \in Nat /\ t \in Nat /\ n \in Nat /\ a <= t
  /\ WindowOK(s, d, M, w, a, t) /\ BufferOK(s, d, M, b, t, n)
  /\ m \in 0 .. Len(b) /\ FreeSlots(w, m, free)

LEMMA WindowFill ==
  ASSUME NEW s, NEW d, NEW M, NEW w, NEW b, NEW a, NEW t, NEW n, NEW m, NEW free,
         Filling(s, d, M, w, b, a, t, n, m, free)
  PROVE  /\ WindowOK(s, d, M, Filled(w, b, m, free), a, t + m)
         /\ BufferOK(s, d, M, SubSeq(b, m + 1, Len(b)), t + m, n)
         /\ \A k \in 1 .. m : \E q \in Occupied(Filled(w, b, m, free)) :
              b[k] = Filled(w, b, m, free)[q]
         /\ \A q \in Occupied(w) : /\ q \in Occupied(Filled(w, b, m, free))
                                   /\ Filled(w, b, m, free)[q] = w[q]
<1> DEFINE x == Filled(w, b, m, free)
<1>a. /\ w \in [Slots -> Frame \cup {NoFrame}] /\ b \in Seq(Frame)
      /\ a \in Nat /\ t \in Nat /\ n \in Nat /\ a <= t /\ m \in 0 .. Len(b)
  BY DEF Filling
<1>b. WindowOK(s, d, M, w, a, t) /\ BufferOK(s, d, M, b, t, n)
  BY DEF Filling
<1>c. /\ \A k \in 1 .. m : free[k] \in Slots \ Occupied(w)
      /\ \A j, k \in 1 .. m : free[j] = free[k] => j = k
  BY DEF Filling, FreeSlots
<1> USE <1>a
<1>1. /\ Len(b) \in Nat /\ n = t + Len(b) /\ m \in Nat
      /\ \A k \in 1 .. Len(b) : b[k].data = t + k /\ Genuine(s, d, M, b[k])
      /\ \A k \in 1 .. m : k \in 1 .. Len(b)
  BY <1>b DEF BufferOK
<1>2. \A k \in 1 .. Len(b) : b[k] \in Frame /\ b[k] # NoFrame
  BY FrameIsNotEmpty
<1>3. ASSUME NEW k \in 1 .. m
      PROVE  free[k] \in Slots /\ x[free[k]] = b[k] /\ free[k] \in Occupied(x)
  <2>1. free[k] \in Slots
    BY <1>c
  <2>2. (CHOOSE j \in 1 .. m : free[j] = free[k]) = k
    BY <1>c
  <2>3. x[free[k]] = b[k]
    BY <2>1, <2>2 DEF Filled
  <2> QED BY <1>1, <1>2, <2>1, <2>3 DEF Occupied, HasFrame
<1>4. ASSUME NEW q \in Occupied(w) PROVE q \in Occupied(x) /\ x[q] = w[q]
  <2>1. q \in Slots /\ w[q] # NoFrame
    BY DEF Occupied, HasFrame
  <2>2. q \notin {free[k] : k \in 1 .. m}
    BY <1>c
  <2>3. x[q] = w[q]
    BY <2>1, <2>2 DEF Filled
  <2> QED BY <2>1, <2>3 DEF Occupied, HasFrame
<1>5. ASSUME NEW q \in Occupied(x)
      PROVE  q \in Occupied(w) \/ \E k \in 1 .. m : free[k] = q
  <2>1. q \in Slots /\ x[q] # NoFrame
    BY DEF Occupied, HasFrame
  <2>2. CASE q \in {free[k] : k \in 1 .. m}
    BY <2>2
  <2>3. CASE q \notin {free[k] : k \in 1 .. m}
    <3>1. x[q] = w[q]
      BY <2>1, <2>3 DEF Filled
    <3> QED BY <2>1, <3>1 DEF Occupied, HasFrame
  <2> QED BY <2>2, <2>3
<1> HIDE DEF x
<1>6. /\ \A q \in Occupied(w) : /\ a < w[q].data /\ w[q].data <= t
                                /\ Genuine(s, d, M, w[q])
      /\ \A k \in a + 1 .. t : \E q \in Occupied(w) : w[q].data = k
      /\ \A q, r \in Occupied(w) : w[q].data = w[r].data => q = r
  BY <1>b DEF WindowOK
<1>7. \A q \in Occupied(w) : w[q].data \in Nat
  BY WindowFrames DEF Frame
<1>8. WindowOK(s, d, M, x, a, t + m)
  <2>1. ASSUME NEW q \in Occupied(x)
        PROVE  /\ a < x[q].data /\ x[q].data <= t + m
               /\ Genuine(s, d, M, x[q])
    <3>1. CASE q \in Occupied(w)
      <4>1. x[q] = w[q] /\ a < w[q].data /\ w[q].data <= t /\ Genuine(s, d, M, w[q])
        BY <1>4, <1>6, <3>1
      <4>2. w[q].data \in Nat
        BY <1>7, <3>1
      <4> QED BY <1>1, <4>1, <4>2
    <3>2. ASSUME NEW k \in 1 .. m, free[k] = q
          PROVE  /\ a < x[q].data /\ x[q].data <= t + m
                 /\ Genuine(s, d, M, x[q])
      <4>1. x[q] = b[k] /\ b[k].data = t + k /\ Genuine(s, d, M, b[k])
        BY <1>1, <1>3, <3>2
      <4> QED BY <1>1, <4>1
    <3> QED BY <1>5, <3>1, <3>2
  <2>2. ASSUME NEW k \in a + 1 .. t + m PROVE \E q \in Occupied(x) : x[q].data = k
    <3>1. CASE k <= t
      <4>1. k \in a + 1 .. t
        BY <3>1
      <4>2. PICK q \in Occupied(w) : w[q].data = k
        BY <1>6, <4>1
      <4> QED BY <1>4, <4>2
    <3>2. CASE k > t
      <4>1. k - t \in 1 .. m /\ t + (k - t) = k
        BY <1>1, <3>2
      <4>2. x[free[k - t]] = b[k - t] /\ free[k - t] \in Occupied(x)
        BY <1>3, <4>1
      <4>3. b[k - t].data = k
        BY <1>1, <4>1
      <4> QED BY <4>2, <4>3
    <3> QED BY <1>1, <3>1, <3>2
  <2>3. ASSUME NEW q \in Occupied(x), NEW r \in Occupied(x), x[q].data = x[r].data
        PROVE  q = r
    <3>1. \A k \in 1 .. m : x[free[k]].data = t + k
      BY <1>1, <1>3
    <3>2. \A p \in Occupied(w) : x[p].data = w[p].data /\ w[p].data <= t /\ w[p].data \in Nat
      BY <1>4, <1>6, <1>7
    <3>3. CASE q \in Occupied(w) /\ r \in Occupied(w)
      BY <1>6, <2>3, <3>2, <3>3
    <3>4. ASSUME NEW j \in 1 .. m, NEW k \in 1 .. m, free[j] = q, free[k] = r
          PROVE  q = r
      <4>1. x[free[j]].data = x[free[k]].data
        BY <2>3, <3>4
      <4>3. t + j = t + k
        BY <3>1, <4>1
      <4>2. j = k
        BY <4>3
      <4> QED BY <3>4, <4>2
    <3>5. ASSUME NEW j \in 1 .. m, free[j] = q, r \in Occupied(w) PROVE FALSE
      <4>1. t + j = x[r].data /\ x[r].data <= t /\ x[r].data \in Nat
        BY <2>3, <3>1, <3>2, <3>5
      <4> QED BY <4>1
    <3>6. ASSUME NEW j \in 1 .. m, free[j] = r, q \in Occupied(w) PROVE FALSE
      <4>1. t + j = x[q].data /\ x[q].data <= t /\ x[q].data \in Nat
        BY <2>3, <3>1, <3>2, <3>6
      <4> QED BY <4>1
    <3> QED BY <1>5, <3>3, <3>4, <3>5, <3>6
  <2> QED BY <2>1, <2>2, <2>3 DEF WindowOK
<1>9. BufferOK(s, d, M, SubSeq(b, m + 1, Len(b)), t + m, n)
  <2>1. /\ Len(SubSeq(b, m + 1, Len(b))) = Len(b) - m
        /\ \A i \in 1 .. Len(b) - m : SubSeq(b, m + 1, Len(b))[i] = b[m + i]
    BY <1>1
  <2>2. n = (t + m) + (Len(b) - m)
    BY <1>1
  <2>3. \A i \in 1 .. Len(b) - m : m + i \in 1 .. Len(b) /\ t + (m + i) = (t + m) + i
    BY <1>1
  <2> QED BY <1>1, <2>1, <2>2, <2>3 DEF BufferOK
<1> QED BY <1>3, <1>4, <1>8, <1>9 DEF x

-----------------------------------------------------------------------------
(* The acks. *)

\* An ack of more pieces than any before it.
LEMMA AckAppend ==
  ASSUME NEW s, NEW d, NEW a \in Int, NEW g \in Int, NEW c \in Int, g <= c,
         NEW p \in Seq(Frame), NEW r \in Seq(Frame),
         Line(AckFrames(s, d, a, g), AckOrder(s, d, a), p, <<>>, r),
         NEW e \in Frame, Acknowledges(a, e.ack_num) = c
  PROVE  Line(AckFrames(s, d, a, c), AckOrder(s, d, a), p, <<>>, Append(r, e))
<1>1. ASSUME NEW f \in AckFrames(s, d, a, g)
      PROVE  f \in AckFrames(s, d, a, c) /\ <<f, e>> \in AckOrder(s, d, a)
  <2>1. f \in Frame /\ f.ack_num \in Int
    BY DEF AckFrames, Frame, SeqNums
  <2>2. Acknowledges(a, f.ack_num) \in Int
    BY <2>1, AcknowledgesType
  <2>3. AckOf(s, d, f) => Acknowledges(a, f.ack_num) <= g
    BY <1>1 DEF AckFrames
  <2>4. AckOf(s, d, f) => Acknowledges(a, f.ack_num) <= c
    BY <2>2, <2>3
  <2> QED BY <2>1, <2>3, <2>4 DEF AckFrames, AckOrder
<1>2. Line(AckFrames(s, d, a, c), AckOrder(s, d, a), p, <<>>, r)
  <2>1. \A f \in ElementsOf(p) \cup ElementsOf(<<>>) \cup ElementsOf(r) :
          f \in AckFrames(s, d, a, g) => f \in AckFrames(s, d, a, c)
    BY <1>1
  <2> QED BY <2>1, LineGoods
<1>3. /\ \A f \in ElementsOf(p) \cup ElementsOf(r) : <<f, e>> \in AckOrder(s, d, a)
      /\ ElementsOf(<<>>) = {}
  <2>1. ElementsOf(p) \subseteq Frame /\ ElementsOf(r) \subseteq Frame
    BY ElementsIn
  <2>2. ElementsOf(p) \cup ElementsOf(r) \subseteq AckFrames(s, d, a, g)
    BY DEF Line
  <2> QED BY <1>1, <2>1, <2>2, ElementsEmpty
<1>4. e \in AckFrames(s, d, a, c)
  BY DEF AckFrames
<1>5. ElementsOf(Append(r, e)) = ElementsOf(r) \cup {e}
  BY ElementsAppend
<1>6. Sorted(Append(r, e), AckOrder(s, d, a))
  BY <1>2, <1>3, SortedAppend DEF Line, InLine
<1> QED BY <1>2, <1>3, <1>4, <1>5, <1>6 DEF Line, InLine, Before

\* When an ack of c pieces has been accepted those behind it still mean what
\* they meant, and come in the order they came in.
LEMMA AckAccept ==
  ASSUME NEW s, NEW d, NEW a \in Int, NEW g \in Int, g <= a + MAX_SEQ_NUM,
         NEW p \in Seq(Frame), NEW r \in Seq(Frame), p # <<>>, AckOf(s, d, Head(p)),
         Line(AckFrames(s, d, a, g), AckOrder(s, d, a), p, <<>>, r)
  PROVE  LET c == Acknowledges(a, Head(p).ack_num)
         IN  /\ a <= c /\ c <= g /\ c \in Int
             /\ uint8(c - 1) = Head(p).ack_num
             /\ Line(AckFrames(s, d, c, g), AckOrder(s, d, c), Tail(p), <<>>, r)
<1> DEFINE f == Head(p)
           c == Acknowledges(a, f.ack_num)
           E == ElementsOf(Tail(p)) \cup ElementsOf(r)
<1>1. f \in Frame /\ f.ack_num \in SeqNums /\ f.ack_num \in Int
  <2>1. f \in Frame
    OBVIOUS
  <2> QED BY <2>1 DEF Frame, SeqNums
<1>2. f \in ElementsOf(p) /\ f \in AckFrames(s, d, a, g)
  BY ElementsPop DEF Line
<1>3. c \in Int /\ a <= c /\ c <= g /\ uint8(c - 1) = f.ack_num
  <2>1. c <= g
    BY <1>2 DEF AckFrames
  <2> HIDE DEF f
  <2> QED BY <1>1, <2>1, AcknowledgesType, AcknowledgesNumber
<1>4. E \subseteq Frame /\ E \subseteq AckFrames(s, d, a, g)
  <2>1. ElementsOf(Tail(p)) \subseteq ElementsOf(p)
    BY ElementsPop
  <2>2. ElementsOf(p) \subseteq Frame /\ ElementsOf(r) \subseteq Frame
    BY ElementsIn
  <2> QED BY <2>1, <2>2 DEF Line
<1>5. \A e \in E : <<f, e>> \in AckOrder(s, d, a)
  <2>1. \A e \in ElementsOf(Tail(p)) : <<f, e>> \in AckOrder(s, d, a)
    BY SortedPop DEF Line, InLine
  <2>2. \A e \in ElementsOf(r) : <<f, e>> \in AckOrder(s, d, a)
    BY <1>2 DEF Line, InLine, Before
  <2> QED BY <2>1, <2>2
<1>6. ASSUME NEW e \in E, AckOf(s, d, e)
      PROVE  Acknowledges(c, e.ack_num) = Acknowledges(a, e.ack_num)
  <2> DEFINE x == Acknowledges(a, e.ack_num)
  <2>1. e \in Frame /\ e.ack_num \in SeqNums /\ e.ack_num \in Int
    BY <1>4 DEF Frame, SeqNums
  <2>2. x \in Int /\ uint8(x - 1) = e.ack_num
    BY <2>1, AcknowledgesType, AcknowledgesNumber
  <2>3. c <= x
    BY <1>5, <1>6 DEF AckOrder
  <2>4. x <= g
    BY <1>4, <1>6 DEF AckFrames
  <2> HIDE DEF x, c, f
  <2>5. x <= c + MAX_SEQ_NUM
    BY <1>3, <2>2, <2>4, SeqNumAssumption
  <2>6. Acknowledges(c, uint8(x - 1)) = x
    BY <1>3, <2>2, <2>3, <2>5, AcknowledgesCount
  <2> QED BY <2>2, <2>6 DEF x
<1> HIDE DEF c, f
<1>7. E \subseteq AckFrames(s, d, c, g)
  BY <1>4, <1>6 DEF AckFrames
<1>8. ASSUME NEW x \in E, NEW y \in E, <<x, y>> \in AckOrder(s, d, a)
      PROVE  <<x, y>> \in AckOrder(s, d, c)
  BY <1>4, <1>6, <1>8 DEF AckOrder
<1>9. InLine(Tail(p), <<>>, r, AckOrder(s, d, a))
  <2>1. <<>> \in Seq(Frame)
    OBVIOUS
  <2>2. InLine(p, <<>>, r, AckOrder(s, d, a))
    BY DEF Line
  <2> QED BY <2>1, <2>2, InLinePop
<1> DEFINE T == Tail(p)
<1>10. /\ \A i \in DOMAIN T : T[i] \in E
       /\ \A i \in DOMAIN r : r[i] \in E
       /\ ElementsOf(T) \subseteq E /\ ElementsOf(r) \subseteq E
  BY DEF ElementsOf
<1> HIDE DEF E, T
<1>11. InLine(T, <<>>, r, AckOrder(s, d, c))
  <2>1. Sorted(T, AckOrder(s, d, c)) /\ Sorted(r, AckOrder(s, d, c))
    BY <1>8, <1>9, <1>10 DEF InLine, Sorted, T
  <2>2. Before(T, r, AckOrder(s, d, c))
    BY <1>8, <1>9, <1>10 DEF InLine, Before, T
  <2>3. Before(T, <<>>, AckOrder(s, d, c)) /\ Before(<<>>, r, AckOrder(s, d, c))
    BY ElementsEmpty DEF Before
  <2> QED BY <2>1, <2>2, <2>3, SortedEmpty DEF InLine
<1>12. Line(AckFrames(s, d, c, g), AckOrder(s, d, c), T, <<>>, r)
  BY <1>7, <1>11, ElementsEmpty DEF Line, E, T
<1> QED BY <1>3, <1>12 DEF c, f, T

-----------------------------------------------------------------------------
(* The data frames, at the receiver. *)

\* Eight bits tell the receiver how far a frame is ahead or behind.
LEMMA FlyingDistance ==
  ASSUME window_size <= HALF_SEQ_NUM, NEW s, NEW d, NEW M, NEW w,
         NEW a \in Nat, NEW g \in Nat, NEW t \in Nat, a <= g, t <= a + window_size,
         NEW f \in DataFrames(s, d, M, w, g, t), DataOf(s, d, f)
  PROVE  /\ seq_num_diff(uint8(g), f.seq_num) = f.data - (g + 1)
         /\ uint8(g) = f.seq_num <=> f.data = g + 1
<1>1. /\ f \in Frame /\ Genuine(s, d, M, f) /\ f.data <= t /\ g < f.data + window_size
  BY DEF DataFrames
<1>2. f.data \in Nat
  BY <1>1 DEF Frame
<1>3. f.seq_num = uint8(f.data - 1)
  BY <1>1 DEF Genuine
<1>4. HALF_SEQ_NUM \in Nat /\ window_size \in Nat
  BY HalfBounds, ConfigAssumption
<1> DEFINE k == f.data - (g + 1)
<1>5. k \in Int /\ k \in -HALF_SEQ_NUM .. HALF_SEQ_NUM /\ g + k = f.data - 1
  BY <1>1, <1>2, <1>4
<1> HIDE DEF k
<1>6. seq_num_diff(uint8(g), uint8(g + k)) = k
  BY <1>5, DistanceRecovered
<1>7. seq_num_diff(uint8(g), f.seq_num) = f.data - (g + 1)
  BY <1>3, <1>5, <1>6 DEF k
<1>8. uint8(g) = f.seq_num => f.data = g + 1
  <2>1. uint8(g) \in Int
    BY Uint8Type DEF SeqNums
  <2>2. seq_num_diff(uint8(g), uint8(g)) = 0
    <3> DEFINE u == uint8(g)
    <3> HIDE DEF u
    <3>1. u \in Int
      BY <2>1 DEF u
    <3>2. seq_num_diff(u, u) = 0
      BY <1>4, <3>1 DEF seq_num_diff
    <3> QED BY <3>2 DEF u
  <2> QED BY <1>2, <1>7, <2>2
<1>9. f.data = g + 1 => uint8(g) = f.seq_num
  <2>1. f.data = g + 1 => f.data - 1 = g
    OBVIOUS
  <2> QED BY <1>3, <2>1
<1> QED BY <1>7, <1>8, <1>9

\* Storing a frame: what follows it on the line is not much older than it.
LEMMA LineStore ==
  ASSUME NEW s, NEW d, NEW M, NEW w \in [Slots -> Frame \cup {NoFrame}], NEW g, NEW t,
         NEW p \in Seq(Frame), NEW q \in Seq(Frame), NEW r \in Seq(Frame),
         Line(DataFrames(s, d, M, w, g, t), DataOrder(s, d), p, q, r),
         p # <<>>, DataOf(s, d, Head(p)), NEW slot \in Slots
  PROVE  LET x == [w EXCEPT ![slot] = Head(p)]
         IN  Line(DataFrames(s, d, M, x, g, t), DataOrder(s, d), Tail(p), q, r)
<1> DEFINE f == Head(p)
           x == [w EXCEPT ![slot] = f]
<1>1. f \in Frame
  OBVIOUS
<1>2. Line(DataFrames(s, d, M, w, g, t), DataOrder(s, d), Tail(p), q, r)
  BY LinePop
<1>3. \A e \in ElementsOf(Tail(p)) \cup ElementsOf(q) \cup ElementsOf(r) :
        <<f, e>> \in DataOrder(s, d)
  <2>1. \A e \in ElementsOf(Tail(p)) : <<f, e>> \in DataOrder(s, d)
    BY SortedPop DEF Line, InLine
  <2>2. \A e \in ElementsOf(q) \cup ElementsOf(r) : <<f, e>> \in DataOrder(s, d)
    BY ElementsPop DEF Line, InLine, Before
  <2> QED BY <2>1, <2>2
<1>4. \A i \in Occupied(x) : x[i] = f \/ (i \in Occupied(w) /\ x[i] = w[i])
  BY DEF Occupied, HasFrame
<1> HIDE DEF x
<1>5. ASSUME NEW e \in ElementsOf(Tail(p)) \cup ElementsOf(q) \cup ElementsOf(r),
             e \in DataFrames(s, d, M, w, g, t)
      PROVE  e \in DataFrames(s, d, M, x, g, t)
  <2>1. DataOf(s, d, e) => f.data < e.data + window_size
    BY <1>3 DEF DataOrder
  <2> HIDE DEF f
  <2> QED BY <1>4, <1>5, <2>1 DEF DataFrames
<1>6. Line(DataFrames(s, d, M, x, g, t), DataOrder(s, d), Tail(p), q, r)
  <2>1. \A e \in ElementsOf(Tail(p)) \cup ElementsOf(q) \cup ElementsOf(r) :
          e \in DataFrames(s, d, M, w, g, t) => e \in DataFrames(s, d, M, x, g, t)
    BY <1>5
  <2> QED BY <1>2, <2>1, LineGoods
<1> QED BY <1>6 DEF x

LEMMA StoreFrame ==
  ASSUME NEW s, NEW d, NEW M, NEW w \in [Slots -> Frame \cup {NoFrame}],
         NEW g \in Nat, NEW t \in Nat, StoreOK(s, d, M, w, g, t),
         NEW f \in Frame, Genuine(s, d, M, f), g < f.data, f.data <= t,
         f.data <= g + window_size
  PROVE  StoreOK(s, d, M, [w EXCEPT ![f.seq_num % window_size] = f], g, t)
<1> DEFINE slot == f.seq_num % window_size
           x == [w EXCEPT ![slot] = f]
<1>1. slot \in Slots
  BY SlotOf DEF Frame
<1>2. \A q \in Occupied(x) : \/ q = slot /\ x[q] = f
                             \/ q \in Occupied(w) /\ x[q] = w[q]
  BY <1>1 DEF Occupied, HasFrame
<1> HIDE DEF x
<1>3. StoreOK(s, d, M, x, g, t)
  BY <1>2 DEF StoreOK
<1> QED BY <1>3 DEF x

-----------------------------------------------------------------------------
(* The delivery of the next frame. *)

LEMMA NextPlace ==
  ASSUME NEW g \in Nat, NEW e \in Nat, NEW l \in Nat, g = e + l
  PROVE  /\ (g + 1) - e - 1 = l /\ (g + 1) - e = l + 1
         /\ \A x \in Nat : x - (g + 1) = 0 => x = g + 1
OBVIOUS

\* The frame is the next piece of the message the receiver is assembling.
LEMMA AssembleNext ==
  ASSUME NEW M \in Seq(Seq(Nat)), NEW last \in Nat, Consecutive(M, last),
         NEW messages \in Seq(Seq(Nat)), NEW text \in Seq(Nat), NEW g \in Nat,
         PrintedOK(M, messages, text, g),
         NEW s, NEW d, NEW f \in Frame, Genuine(s, d, M, f), f.data = g + 1
  PROVE  LET p   == Len(messages)
             new == Assemble(text, f)
         IN  /\ p + 1 \in 1 .. Len(M)
             /\ new \in Seq(Nat) /\ Len(new) = Len(text) + 1
             /\ \A i \in 1 .. Len(text) : new[i] = text[i]
             /\ new[Len(text) + 1] = g + 1
             /\ f.remaining = 0 =>
                  /\ new = M[p + 1]
                  /\ PrintedOK(M, Append(messages, new), <<>>, g + 1)
             /\ f.remaining # 0 => PrintedOK(M, messages, new, g + 1)
<1> DEFINE p == Len(messages)
           l == Len(text)
           new == Assemble(text, f)
<1>1. p \in Nat /\ l \in Nat /\ p <= Len(M) /\ Len(M) \in Nat /\ g = EndOf(M, p) + l
  BY DEF PrintedOK
<1>14. text # <<>> => p < Len(M) /\ g < EndOf(M, p + 1)
  BY DEF PrintedOK
<1>15. /\ \A i \in 1 .. p : messages[i] = M[i]
       /\ \A i \in 1 .. l : text[i] = EndOf(M, p) + i
  BY DEF PrintedOK
<1>2. PICK m \in 1 .. Len(M) : PieceOf(M, m, f)
  BY DEF Genuine
<1>3. /\ EndOf(M, m - 1) < g + 1 /\ g + 1 <= EndOf(M, m)
      /\ f.starting_index = (g + 1) - EndOf(M, m - 1) - 1
      /\ f.remaining = EndOf(M, m) - (g + 1)
  BY <1>2 DEF PieceOf
<1>4. /\ \A i \in 0 .. Len(M) : EndOf(M, i) \in Nat
      /\ \A i, j \in 0 .. Len(M) : EndOf(M, i) < EndOf(M, j) => i < j
  BY EndOfType
<1>5. /\ p \in 0 .. Len(M) /\ m \in 0 .. Len(M) /\ m - 1 \in 0 .. Len(M) /\ m \in Nat
      /\ EndOf(M, p) \in Nat /\ EndOf(M, m) \in Nat /\ EndOf(M, m - 1) \in Nat
  BY <1>1, <1>4
<1> HIDE DEF p, l
<1>6. p < m
  BY <1>1, <1>3, <1>4, <1>5
<1>7. m = p + 1
  <2>1. CASE text = <<>>
    <3>1. l = 0
      BY <2>1 DEF l
    <3>2. ~(p < m - 1)
      <4> SUFFICES ASSUME p < m - 1 PROVE FALSE
        OBVIOUS
      <4>1. EndOf(M, p) < EndOf(M, m - 1)
        BY <1>5, EndOfType
      <4> QED BY <1>1, <1>3, <1>5, <3>1, <4>1
    <3> QED BY <1>1, <1>5, <1>6, <3>2
  <2>2. CASE text # <<>>
    <3>1. p + 1 \in 0 .. Len(M) /\ EndOf(M, p + 1) \in Nat /\ g < EndOf(M, p + 1)
      <4>1. p + 1 \in 0 .. Len(M)
        BY <1>1, <1>14, <2>2
      <4> QED BY <1>4, <1>14, <2>2, <4>1
    <3>2. EndOf(M, m - 1) < EndOf(M, p + 1)
      BY <1>3, <1>5, <3>1
    <3>3. m - 1 < p + 1
      BY <1>4, <1>5, <3>1, <3>2
    <3> QED BY <1>1, <1>5, <1>6, <3>3
  <2> QED BY <2>1, <2>2
<1>8. f.starting_index = l /\ m - 1 = p /\ f.remaining = EndOf(M, p + 1) - (g + 1)
  <2>1. m - 1 = p
    BY <1>1, <1>7
  <2>2. EndOf(M, m - 1) = EndOf(M, p) /\ EndOf(M, m) = EndOf(M, p + 1)
    BY <1>7, <2>1
  <2>3. (g + 1) - EndOf(M, p) - 1 = l
    <3>1. EndOf(M, p) \in Nat /\ l \in Nat /\ g = EndOf(M, p) + l
      BY <1>1, <1>5
    <3>2. \A gg, ee, ll \in Nat : gg = ee + ll => (gg + 1) - ee - 1 = ll
      BY NextPlace
    <3> QED BY Zenon, <3>1, <3>2
  <2> QED BY <1>3, <2>1, <2>2, <2>3
<1>9. /\ new \in Seq(Nat) /\ Len(new) = l + 1
      /\ \A i \in 1 .. l : new[i] = text[i]
      /\ new[l + 1] = g + 1
  <2>1. new \in Seq(Nat)
    BY AssembleType
  <2>2. DOMAIN new = 1 .. l + 1
    BY <1>8 DEF Assemble
  <2>3. Len(new) = l + 1
    <3> HIDE DEF new
    <3> QED BY <1>1, <2>1, <2>2
  <2>4. \A i \in 1 .. l : new[i] = text[i]
    <3>1. \A i \in 1 .. l : i \in 1 .. l + 1 /\ i # l + 1 /\ i \in DOMAIN text
      BY <1>1 DEF l
    <3> QED BY <1>8, <3>1 DEF Assemble
  <2>5. new[l + 1] = g + 1
    BY <1>1, <1>8 DEF Assemble
  <2> QED BY <2>1, <2>3, <2>4, <2>5
<1> HIDE DEF new
<1>10. \A i \in 1 .. l + 1 : new[i] = EndOf(M, p) + i
  <2>1. \A i \in 1 .. l : new[i] = EndOf(M, p) + i
    BY <1>9, <1>15
  <2>2. new[l + 1] = EndOf(M, p) + (l + 1)
    BY <1>1, <1>5, <1>9
  <2>3. \A i \in 1 .. l + 1 : i \in 1 .. l \/ i = l + 1
    BY <1>1
  <2> QED BY <2>1, <2>2, <2>3
<1>11. p + 1 \in 1 .. Len(M) /\ EndOf(M, p + 1) \in Nat
  BY <1>1, <1>5, <1>7
<1>12. ASSUME f.remaining = 0
       PROVE  /\ new = M[p + 1]
              /\ PrintedOK(M, Append(messages, new), <<>>, g + 1)
  <2>1. EndOf(M, p + 1) = g + 1 /\ EndOf(M, p + 1) - EndOf(M, p) = l + 1
    <3>1. EndOf(M, p + 1) = g + 1
      <4>1. EndOf(M, p + 1) - (g + 1) = 0
        BY <1>8, <1>12
      <4> QED BY <1>11, <4>1
    <3>2. (g + 1) - EndOf(M, p) = l + 1
      BY <1>1, <1>5
    <3> QED BY <3>1, <3>2
  <2>2. M[p + 1] = [i \in 1 .. l + 1 |-> EndOf(M, p) + i]
    <3>1. (p + 1) - 1 = p
      BY <1>1
    <3>2. M[p + 1] = [i \in 1 .. EndOf(M, p + 1) - EndOf(M, (p + 1) - 1)
                        |-> EndOf(M, (p + 1) - 1) + i]
      BY <1>11 DEF Consecutive
    <3> QED BY <2>1, <3>1, <3>2
  <2>3. new = [i \in 1 .. l + 1 |-> new[i]]
    BY <1>9
  <2>4. new = M[p + 1]
    BY <1>10, <2>2, <2>3
  <2> DEFINE b == Append(messages, new)
  <2>5. /\ Len(b) = p + 1 /\ b[p + 1] = new
        /\ \A i \in 1 .. p : b[i] = messages[i]
    BY <1>9 DEF p
  <2> HIDE DEF b
  <2>6. \A i \in 1 .. p + 1 : b[i] = M[i]
    <3>1. \A i \in 1 .. p : b[i] = M[i]
      BY <1>15, <2>5
    <3>2. \A i \in 1 .. p + 1 : i \in 1 .. p \/ i = p + 1
      BY <1>1
    <3> QED BY <2>4, <2>5, <3>1, <3>2
  <2>7. PrintedOK(M, b, <<>>, g + 1)
    BY <1>11, <2>1, <2>5, <2>6 DEF PrintedOK
  <2> QED BY <2>4, <2>7 DEF b
<1>13. ASSUME f.remaining # 0 PROVE PrintedOK(M, messages, new, g + 1)
  <2>1. g + 1 < EndOf(M, p + 1)
    BY <1>3, <1>7, <1>8, <1>11, <1>13
  <2>2. g + 1 = EndOf(M, p) + (l + 1)
    BY <1>1, <1>5
  <2>3. p < Len(M)
    BY <1>1, <1>11
  <2> QED BY <1>1, <1>9, <1>10, <1>15, <2>1, <2>2, <2>3 DEF PrintedOK, p
<1> QED BY <1>9, <1>11, <1>12, <1>13 DEF p, l, new

\* What is left in the window, and the frames under way, once it is delivered.
LEMMA DeliverStore ==
  ASSUME NEW s, NEW d, NEW M, NEW w \in [Slots -> Frame \cup {NoFrame}],
         NEW g \in Nat, NEW t \in Nat, StoreOK(s, d, M, w, g, t),
         NEW slot \in Occupied(w), slot = uint8(g) % window_size, w[slot].data = g + 1
  PROVE  LET x == [w EXCEPT ![slot] = NoFrame]
         IN  /\ StoreOK(s, d, M, x, g + 1, t)
             /\ DataFrames(s, d, M, w, g, t) \subseteq DataFrames(s, d, M, x, g + 1, t)
<1> DEFINE x == [w EXCEPT ![slot] = NoFrame]
<1>1. \A q \in Occupied(x) : q \in Occupied(w) /\ q # slot /\ x[q] = w[q]
  BY DEF Occupied, HasFrame
<1> HIDE DEF x
<1>2. \A q \in Occupied(w) : w[q] \in Frame /\ w[q].data \in Nat
  BY WindowFrames DEF Frame
<1>3. ASSUME NEW q \in Occupied(x) PROVE w[q].data # g + 1
  <2> SUFFICES ASSUME w[q].data = g + 1 PROVE FALSE
    OBVIOUS
  <2>1. w[q].seq_num % window_size = q /\ w[q].seq_num = uint8(w[q].data - 1)
    BY <1>1 DEF StoreOK, Genuine
  <2>2. w[q].data - 1 = g
    OBVIOUS
  <2> QED BY <1>1, <2>1, <2>2
<1>4. StoreOK(s, d, M, x, g + 1, t)
  <2>1. ASSUME NEW q \in Occupied(x)
        PROVE  /\ g + 1 < x[q].data /\ x[q].data <= g + 1 + window_size
               /\ x[q] = w[q] /\ q \in Occupied(w)
    BY <1>1, <1>2, <1>3, ConfigAssumption DEF StoreOK
  <2> QED BY <2>1 DEF StoreOK
<1>5. ASSUME NEW f \in DataFrames(s, d, M, w, g, t)
      PROVE  f \in DataFrames(s, d, M, x, g + 1, t)
  <2>1. DataOf(s, d, f) => g + 1 < f.data + window_size
    BY DEF DataFrames
  <2> QED BY <1>1, <2>1 DEF DataFrames
<1> QED BY <1>4, <1>5 DEF x

\* If the loop goes on it is with the frame behind it, and the numbers have not
\* wrapped around since the delivery began.
LEMMA DeliverNext ==
  ASSUME window_size <= HALF_SEQ_NUM, NEW s, NEW d, NEW M,
         NEW w \in [Slots -> Frame \cup {NoFrame}], NEW g \in Nat, NEW t \in Nat,
         NEW first \in SeqNums, first <= uint8(g),
         \A q \in Occupied(w) : w[q].data <= g + window_size - (uint8(g) - first),
         StoreOK(s, d, M, w, g + 1, t),
         Deliverable(w, uint8(g + 1), first)
  PROVE  DeliveringOK(w, uint8(g + 1), first, g + 1)
<1> DEFINE u == uint8(g)
           v == uint8(g + 1)
           slot == v % window_size
           y == w[slot]
           j == y.data - (g + 1)
<1>1. /\ window_size \in Nat /\ window_size > 0 /\ HALF_SEQ_NUM \in Nat
      /\ 2 * HALF_SEQ_NUM <= MAX_SEQ_NUM /\ MAX_SEQ_NUM \in Nat
  BY ConfigAssumption, SeqNumAssumption, HalfBounds
<1>2. u \in SeqNums /\ u \in Nat /\ u <= MAX_SEQ_NUM /\ v \in SeqNums
      /\ first \in Nat /\ first <= u
  BY Uint8Type, SeqNumAssumption DEF SeqNums
<1>3. slot \in Slots /\ slot \in Occupied(w) /\ first < y.seq_num
  <2>1. slot \in Slots
    <3> HIDE DEF v
    <3> QED BY <1>2, SlotOf
  <2> QED BY <2>1 DEF Deliverable, Occupied
<1>4. y \in Frame /\ y.data \in Nat
  <2> HIDE DEF slot
  <2> QED BY <1>3, WindowFrames DEF Frame
<1>5. /\ g + 1 < y.data /\ y.seq_num % window_size = slot
      /\ y.seq_num = uint8(y.data - 1)
      /\ y.data <= g + window_size - (u - first)
  <2> HIDE DEF slot
  <2> QED BY <1>3 DEF StoreOK, Genuine
<1>6. j \in Nat /\ j >= 1 /\ j <= window_size - 1 - (u - first) /\ y.data - 1 = g + j
  <2> HIDE DEF y, u
  <2> QED BY <1>1, <1>2, <1>4, <1>5
<1>7. j \in 0 .. MAX_SEQ_NUM /\ 1 \in 0 .. MAX_SEQ_NUM
  <2> HIDE DEF y, u, j
  <2> QED BY <1>1, <1>2, <1>6
<1> HIDE DEF y, j
<1>8. y.seq_num = u + j \/ y.seq_num = u + j - (MAX_SEQ_NUM + 1)
  BY <1>5, <1>6, <1>7, Uint8Step
<1>9. v = u + 1 \/ v = u + 1 - (MAX_SEQ_NUM + 1)
  BY <1>7, Uint8Step
<1> HIDE DEF u, v
<1>10. y.seq_num = u + j /\ y.seq_num <= MAX_SEQ_NUM /\ y.seq_num \in Nat
  <2>1. y.seq_num \in SeqNums
    BY <1>4 DEF Frame
  <2>2. y.seq_num \in Nat /\ y.seq_num <= MAX_SEQ_NUM
    BY <1>1, <2>1 DEF SeqNums
  <2> QED BY <1>1, <1>2, <1>3, <1>6, <1>8, <2>2
<1>11. v = u + 1
  <2>1. v \in Nat
    BY <1>2 DEF SeqNums
  <2> QED BY <1>1, <1>2, <1>6, <1>9, <1>10, <2>1
<1>12. j = 1
  <2>1. (u + j) % window_size = (u + 1) % window_size
    BY <1>5, <1>10, <1>11
  <2>2. (u + j) - (u + 1) < window_size /\ (u + 1) - (u + j) < window_size
    BY <1>1, <1>2, <1>6
  <2>3. u + j \in Int /\ u + 1 \in Int
    BY <1>2, <1>6
  <2>4. u + j = u + 1
    BY <1>1, <2>1, <2>2, <2>3, SameRemainder
  <2> QED BY <1>2, <1>6, <2>4
<1>13. y.data = (g + 1) + 1
  BY <1>4, <1>12 DEF j
<1>14. first <= v /\ g + window_size - (u - first) = (g + 1) + window_size - (v - first)
  BY <1>1, <1>2, <1>11
<1>15. \A q \in Occupied(w) : w[q].data <= (g + 1) + window_size - (v - first)
  BY <1>14 DEF u
<1>16. DeliveringOK(w, v, first, g + 1)
  BY <1>13, <1>14, <1>15 DEF DeliveringOK, y
<1> QED BY <1>16 DEF v

-----------------------------------------------------------------------------
(* The queues of all the hosts: one of them changes. *)

LEMMA PopAny ==
  ASSUME NEW Q \in [Hosts -> Seq(Frame)], NEW h \in Hosts, NEW x \in Hosts,
         Q[h] # <<>>, NEW G, NEW R, NEW p \in Seq(Frame), NEW q \in Seq(Frame)
  PROVE  LET P == [Q EXCEPT ![h] = Tail(@)]
         IN  /\ Line(G, R, Q[x], p, q) => Line(G, R, P[x], p, q)
             /\ Line(G, R, p, q, Q[x]) => Line(G, R, p, q, P[x])
<1> DEFINE P == [Q EXCEPT ![h] = Tail(@)]
<1>1. Q[x] \in Seq(Frame) /\ P[x] = IF x = h THEN Tail(Q[x]) ELSE Q[x]
  OBVIOUS
<1> HIDE DEF P
<1>2. CASE x # h
  BY <1>1, <1>2 DEF P
<1>3. CASE x = h
  BY <1>1, <1>3, LinePop DEF P
<1> QED BY <1>2, <1>3

LEMMA MixAny ==
  ASSUME NEW Q \in [Hosts -> Seq(Frame)], NEW h \in Hosts, NEW x \in Hosts,
         NEW e \in Frame, NEW G, NEW R, x = h => Neutral(e, G, R),
         NEW p \in Seq(Frame), NEW q \in Seq(Frame)
  PROVE  LET P == [Q EXCEPT ![h] = Append(@, e)]
         IN  /\ Line(G, R, Q[x], p, q) => Line(G, R, P[x], p, q)
             /\ Line(G, R, p, Q[x], q) => Line(G, R, p, P[x], q)
             /\ Line(G, R, p, q, Q[x]) => Line(G, R, p, q, P[x])
<1> DEFINE P == [Q EXCEPT ![h] = Append(@, e)]
<1>1. Q[x] \in Seq(Frame) /\ P[x] = IF x = h THEN Append(Q[x], e) ELSE Q[x]
  OBVIOUS
<1> HIDE DEF P
<1>2. CASE x # h
  BY <1>1, <1>2 DEF P
<1>3. CASE x = h
  BY <1>1, <1>3, LineMix DEF P
<1> QED BY <1>2, <1>3
=============================================================================
