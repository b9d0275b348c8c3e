------------------------------ MODULE WireFacts ------------------------------
(***************************************************************************)
(* Facts about the operators of Wire, for every payload size, every frame, *)
(* every message and any number of queues and nodes.  What the CRC-8 of a  *)
(* frame is worth: the remainder of eight more bits is linear in what was  *)
(* there before, bit by bit, so two buffers that differ in one byte have   *)
(* two different remainders, and a byte of CRC makes the remainder 0.      *)
(* Appending a node to one of several queues that share a heap, and        *)
(* popping one, keeps every one of them a ring of the nodes it should      *)
(* hold.  And the frames a message is cut into cover it.                   *)
(***************************************************************************)
EXTENDS Wire, SeqNumProofs

-----------------------------------------------------------------------------
(***************************************************************************)
(* The CRC on bits.  A byte is eight bits; shifting a bit in is linear over *)
(* them as long as what was shifted in before is not shifted out again.    *)
(***************************************************************************)
Bit  == {0, 1}
Bits == [0 .. 7 -> Bit]

ValueOf(b) == b[0] + 2 * b[1] + 4 * b[2] + 8 * b[3]
                + 16 * b[4] + 32 * b[5] + 64 * b[6] + 128 * b[7]

Xor(b, c) == [k \in 0 .. 7 |-> IF b[k] = c[k] THEN 0 ELSE 1]

Shift(b, bit) == [k \in 0 .. 7 |-> IF k = 0 THEN bit ELSE b[k - 1]]

Generator == [k \in 0 .. 7 |-> IF k <= 2 THEN 1 ELSE 0]

Stepped(b, bit) ==
  IF b[7] = 1 THEN Xor(Shift(b, bit), Generator) ELSE Shift(b, bit)

LEMMA BitsAre ==
  ASSUME NEW b \in Bits
  PROVE  /\ b[0] \in Bit /\ b[1] \in Bit /\ b[2] \in Bit /\ b[3] \in Bit
         /\ b[4] \in Bit /\ b[5] \in Bit /\ b[6] \in Bit /\ b[7] \in Bit
BY DEF Bits

LEMMA Indices ==
  \A k \in 0 .. 7 : k = 0 \/ k = 1 \/ k = 2 \/ k = 3 \/ k = 4 \/ k = 5 \/ k = 6 \/ k = 7
OBVIOUS

LEMMA ValueIsByte == ASSUME NEW b \in Bits PROVE ValueOf(b) \in Byte
BY SMTT(30), BitsAre DEF ValueOf, Byte, Bit

LEMMA ByteHasBits ==
  ASSUME NEW x \in Byte
  PROVE  \E b \in Bits : x = ValueOf(b)
<1> DEFINE Half(n) == n \div 2
           x1 == Half(x)
           x2 == Half(x1)
           x3 == Half(x2)
           x4 == Half(x3)
           x5 == Half(x4)
           x6 == Half(x5)
           x7 == Half(x6)
           b  == [k \in 0 .. 7 |->
                    (IF k = 0 THEN x ELSE IF k = 1 THEN x1 ELSE IF k = 2 THEN x2
                     ELSE IF k = 3 THEN x3 ELSE IF k = 4 THEN x4
                     ELSE IF k = 5 THEN x5 ELSE IF k = 6 THEN x6 ELSE x7) % 2]
<1>1. \A n \in Nat : Half(n) \in Nat /\ n = 2 * Half(n) + (n % 2) /\ n % 2 \in Bit
  BY DEF Bit
<1>2. x \in Nat /\ x <= 255
  BY DEF Byte
<1> HIDE DEF Half
<1>3. /\ x1 \in Nat /\ x = 2 * x1 + (x % 2) /\ x % 2 \in Bit
      /\ x2 \in Nat /\ x1 = 2 * x2 + (x1 % 2) /\ x1 % 2 \in Bit
      /\ x3 \in Nat /\ x2 = 2 * x3 + (x2 % 2) /\ x2 % 2 \in Bit
      /\ x4 \in Nat /\ x3 = 2 * x4 + (x3 % 2) /\ x3 % 2 \in Bit
      /\ x5 \in Nat /\ x4 = 2 * x5 + (x4 % 2) /\ x4 % 2 \in Bit
      /\ x6 \in Nat /\ x5 = 2 * x6 + (x5 % 2) /\ x5 % 2 \in Bit
      /\ x7 \in Nat /\ x6 = 2 * x7 + (x6 % 2) /\ x6 % 2 \in Bit
      /\ x7 % 2 \in Bit
  BY <1>1, <1>2
<1> HIDE DEF x1, x2, x3, x4, x5, x6, x7
<1>4. x7 <= 1
  BY <1>2, <1>3 DEF Bit
<1>5. x7 % 2 = x7
  BY <1>3, <1>4
<1>6. /\ b[0] = x % 2 /\ b[1] = x1 % 2 /\ b[2] = x2 % 2 /\ b[3] = x3 % 2
      /\ b[4] = x4 % 2 /\ b[5] = x5 % 2 /\ b[6] = x6 % 2 /\ b[7] = x7 % 2
  OBVIOUS
<1>7. b \in Bits
  <2>1. \A k \in 0 .. 7 : b[k] \in Bit
    <3> HIDE DEF b
    <3> QED BY <1>3, <1>6, Indices
  <2> QED BY <2>1 DEF Bits
<1>8. x = ValueOf(b)
  <2> HIDE DEF b
  <2> QED BY <1>2, <1>3, <1>5, <1>6 DEF ValueOf, Bit
<1> QED BY <1>7, <1>8

LEMMA ValueUnique ==
  ASSUME NEW b \in Bits, NEW c \in Bits, ValueOf(b) = ValueOf(c)
  PROVE  b = c
<1> DEFINE b6 == b[6] + 2 * b[7]
           b5 == b[5] + 2 * b6
           b4 == b[4] + 2 * b5
           b3 == b[3] + 2 * b4
           b2 == b[2] + 2 * b3
           b1 == b[1] + 2 * b2
           c6 == c[6] + 2 * c[7]
           c5 == c[5] + 2 * c6
           c4 == c[4] + 2 * c5
           c3 == c[3] + 2 * c4
           c2 == c[2] + 2 * c3
           c1 == c[1] + 2 * c2
<1>1. /\ b[0] = c[0] /\ b[1] = c[1] /\ b[2] = c[2] /\ b[3] = c[3]
      /\ b[4] = c[4] /\ b[5] = c[5] /\ b[6] = c[6] /\ b[7] = c[7]
  <2>1. /\ b1 \in Nat /\ b2 \in Nat /\ b3 \in Nat /\ b4 \in Nat /\ b5 \in Nat /\ b6 \in Nat
        /\ c1 \in Nat /\ c2 \in Nat /\ c3 \in Nat /\ c4 \in Nat /\ c5 \in Nat /\ c6 \in Nat
        /\ b[7] \in Nat /\ c[7] \in Nat
    <3>1. b[7] \in Nat /\ c[7] \in Nat
      BY BitsAre DEF Bit
    <3>2. \A x \in Bit, m \in Nat : x + 2 * m \in Nat
      BY DEF Bit
    <3>3. b6 \in Nat /\ c6 \in Nat
      BY <3>1, <3>2, BitsAre
    <3> HIDE DEF b6, c6
    <3>4. b5 \in Nat /\ c5 \in Nat
      BY <3>2, <3>3, BitsAre
    <3> HIDE DEF b5, c5
    <3>5. b4 \in Nat /\ c4 \in Nat
      BY <3>2, <3>4, BitsAre
    <3> HIDE DEF b4, c4
    <3>6. b3 \in Nat /\ c3 \in Nat
      BY <3>2, <3>5, BitsAre
    <3> HIDE DEF b3, c3
    <3>7. b2 \in Nat /\ c2 \in Nat
      BY <3>2, <3>6, BitsAre
    <3> HIDE DEF b2, c2
    <3>8. b1 \in Nat /\ c1 \in Nat
      BY <3>2, <3>7, BitsAre
    <3> QED BY <3>1, <3>3, <3>4, <3>5, <3>6, <3>7, <3>8
  <2>2. \A x, y \in Bit, m, n \in Nat : x + 2 * m = y + 2 * n => x = y /\ m = n
    BY DEF Bit
  <2>3. b[0] + 2 * b1 = c[0] + 2 * c1
    BY SMTT(30), BitsAre DEF ValueOf, Bit
  <2> HIDE DEF b1, c1
  <2>4. b[0] = c[0] /\ b1 = c1
    BY <2>1, <2>2, <2>3, BitsAre
  <2> HIDE DEF b2, c2
  <2>5. b[1] = c[1] /\ b2 = c2
    BY <2>1, <2>2, <2>4, BitsAre DEF b1, c1
  <2> HIDE DEF b3, c3
  <2>6. b[2] = c[2] /\ b3 = c3
    BY <2>1, <2>2, <2>5, BitsAre DEF b2, c2
  <2> HIDE DEF b4, c4
  <2>7. b[3] = c[3] /\ b4 = c4
    BY <2>1, <2>2, <2>6, BitsAre DEF b3, c3
  <2> HIDE DEF b5, c5
  <2>8. b[4] = c[4] /\ b5 = c5
    BY <2>1, <2>2, <2>7, BitsAre DEF b4, c4
  <2> HIDE DEF b6, c6
  <2>9. b[5] = c[5] /\ b6 = c6
    BY <2>1, <2>2, <2>8, BitsAre DEF b5, c5
  <2>10. b[6] = c[6] /\ b[7] = c[7]
    BY <2>1, <2>2, <2>9, BitsAre DEF b6, c6
  <2> QED BY <2>4, <2>5, <2>6, <2>7, <2>8, <2>9, <2>10
<1>2. \A k \in 0 .. 7 : b[k] = c[k]
  BY <1>1, Indices
<1> QED BY <1>2 DEF Bits

LEMMA XorType == ASSUME NEW b, NEW c PROVE Xor(b, c) \in Bits
BY DEF Xor, Bits, Bit

LEMMA ShiftType ==
  ASSUME NEW b \in Bits, NEW bit \in Bit PROVE Shift(b, bit) \in Bits
BY DEF Shift, Bits

LEMMA SteppedType ==
  ASSUME NEW b \in Bits, NEW bit \in Bit PROVE Stepped(b, bit) \in Bits
BY XorType, ShiftType DEF Stepped

LEMMA GeneratorBits ==
  ASSUME NEW b \in Bits
  PROVE  XorGenerator(ValueOf(b)) = ValueOf(Xor(b, Generator))
<1> DEFINE c == Xor(b, Generator)
           high == b[3] + 2 * b[4] + 4 * b[5] + 8 * b[6] + 16 * b[7]
           low  == b[0] + 2 * b[1] + 4 * b[2]
<1>1. /\ c[0] = (IF b[0] = 1 THEN 0 ELSE 1) /\ c[1] = (IF b[1] = 1 THEN 0 ELSE 1)
      /\ c[2] = (IF b[2] = 1 THEN 0 ELSE 1)
      /\ c[3] = (IF b[3] = 0 THEN 0 ELSE 1) /\ c[4] = (IF b[4] = 0 THEN 0 ELSE 1)
      /\ c[5] = (IF b[5] = 0 THEN 0 ELSE 1) /\ c[6] = (IF b[6] = 0 THEN 0 ELSE 1)
      /\ c[7] = (IF b[7] = 0 THEN 0 ELSE 1)
  BY DEF Xor, Generator
<1>2. ValueOf(b) = 8 * high + low /\ high \in Nat /\ low \in 0 .. 7
  BY BitsAre DEF ValueOf, Bit
<1> HIDE DEF c
<1>3. ValueOf(c) = 8 * high + 7 - low
  BY <1>1, BitsAre DEF ValueOf, Bit
<1> HIDE DEF high, low
<1>4. ValueOf(b) \div 8 = high /\ ValueOf(b) % 8 = low
  BY <1>2
<1> QED BY <1>2, <1>3, <1>4 DEF XorGenerator, c

LEMMA ShiftBits ==
  ASSUME NEW b \in Bits, NEW bit \in Bit
  PROVE  /\ (2 * ValueOf(b) + bit) % 256 = ValueOf(Shift(b, bit))
         /\ ValueOf(b) >= 128 <=> b[7] = 1
<1> DEFINE c == Shift(b, bit)
           low == b[0] + 2 * b[1] + 4 * b[2] + 8 * b[3] + 16 * b[4] + 32 * b[5] + 64 * b[6]
<1>1. /\ c[0] = bit /\ c[1] = b[0] /\ c[2] = b[1] /\ c[3] = b[2]
      /\ c[4] = b[3] /\ c[5] = b[4] /\ c[6] = b[5] /\ c[7] = b[6]
  BY DEF Shift
<1>2. ValueOf(b) = 128 * b[7] + low /\ low \in 0 .. 127 /\ b[7] \in Bit
  BY BitsAre DEF ValueOf, Bit
<1> HIDE DEF c
<1>3. ValueOf(c) = 2 * low + bit
  BY <1>1, BitsAre DEF ValueOf, Bit
<1> HIDE DEF low
<1>4. 2 * low + bit \in 0 .. 255
  BY <1>2 DEF Bit
<1>5. (2 * ValueOf(b) + bit) % 256 = 2 * low + bit
  <2>1. CASE b[7] = 0
    BY <1>2, <1>4, <2>1 DEF Bit
  <2>2. CASE b[7] = 1
    <3>1. 2 * ValueOf(b) + bit = 256 + (2 * low + bit)
      BY <1>2, <2>2 DEF Bit
    <3> HIDE DEF Bit
    <3> DEFINE m == 2 * low + bit
    <3>2. m \in 0 .. 255
      BY <1>4
    <3> HIDE DEF m
    <3>3. (256 + m) % 256 = m
      BY <3>2
    <3> QED BY <3>1, <3>3 DEF m
  <2> QED BY <1>2, <2>1, <2>2 DEF Bit
<1>6. ValueOf(b) >= 128 <=> b[7] = 1
  BY <1>2 DEF Bit
<1> QED BY <1>3, <1>5, <1>6 DEF c

\* One round of the loop over the bits of a byte.
LEMMA ShiftedInBits ==
  ASSUME NEW b \in Bits, NEW bit \in Bit
  PROVE  ShiftedIn[ValueOf(b)][bit] = ValueOf(Stepped(b, bit))
<1>1. ValueOf(b) \in 0 .. 255 /\ bit \in 0 .. 1
  BY ValueIsByte DEF Byte, Bit
<1> DEFINE shifted == (2 * ValueOf(b) + bit) % 256
<1>2. ShiftedIn[ValueOf(b)][bit]
        = IF ValueOf(b) >= 128 THEN XorGenerator(shifted) ELSE shifted
  BY <1>1 DEF ShiftedIn
<1>3. shifted = ValueOf(Shift(b, bit))
  BY ShiftBits
<1>4. XorGenerator(shifted) = ValueOf(Xor(Shift(b, bit), Generator))
  BY <1>3, ShiftType, GeneratorBits
<1> HIDE DEF shifted
<1> QED BY <1>2, <1>3, <1>4, ShiftBits DEF Stepped

\* Two remainders stay apart: the lowest bit of the generator is set, and tells
\* whether a bit was shifted out.
LEMMA SteppedApart ==
  ASSUME NEW b \in Bits, NEW c \in Bits, NEW bit \in Bit,
         Stepped(b, bit) = Stepped(c, bit)
  PROVE  b = c
<1>1. ASSUME NEW d \in Bits
      PROVE  \A k \in 0 .. 7 : Stepped(d, bit)[k] =
               IF d[7] = 1 /\ k <= 2
               THEN IF (IF k = 0 THEN bit ELSE d[k - 1]) = 1 THEN 0 ELSE 1
               ELSE IF k = 0 THEN bit ELSE d[k - 1]
  BY DEF Stepped, Xor, Shift, Generator, Bits, Bit
<1>2. b[7] = c[7]
  BY <1>1, BitsAre DEF Bit
<1>3. \A k \in 1 .. 7 : b[k - 1] = c[k - 1]
  <2> SUFFICES ASSUME NEW k \in 1 .. 7 PROVE b[k - 1] = c[k - 1]
    OBVIOUS
  <2>1. k \in 0 .. 7 /\ k # 0 /\ k - 1 \in 0 .. 7
    OBVIOUS
  <2>2. b[k - 1] \in Bit /\ c[k - 1] \in Bit
    BY <2>1 DEF Bits
  <2> QED BY <1>1, <1>2, <2>1, <2>2 DEF Bit
<1>4. \A k \in 0 .. 7 : b[k] = c[k]
  <2>1. \A k \in 0 .. 6 : k + 1 \in 1 .. 7 /\ (k + 1) - 1 = k
    OBVIOUS
  <2>2. \A k \in 0 .. 6 : b[k] = c[k]
    BY <1>3, <2>1
  <2> QED BY <1>2, <2>2
<1> QED BY <1>4 DEF Bits

LEMMA SteppedLinear ==
  ASSUME NEW b \in Bits, NEW c \in Bits, c[7] = 0, NEW bit \in Bit
  PROVE  Stepped(Xor(b, c), bit) = Xor(Stepped(b, 0), Shift(c, bit))
<1> DEFINE x == Stepped(Xor(b, c), bit)
           y == Xor(Stepped(b, 0), Shift(c, bit))
<1>1. x \in Bits /\ y \in Bits
  BY XorType, SteppedType
<1>2. Xor(b, c)[7] = b[7]
  BY BitsAre DEF Xor, Bit
<1>3. ASSUME NEW k \in 0 .. 7 PROVE x[k] = y[k]
  <2>1. CASE k = 0
    BY <1>2, <2>1, BitsAre DEF Stepped, Xor, Shift, Generator, Bit
  <2>2. CASE k # 0
    <3>1. k - 1 \in 0 .. 7 /\ b[k - 1] \in Bit /\ c[k - 1] \in Bit
      BY <2>2 DEF Bits
    <3>2. Xor(b, c)[k - 1] = IF b[k - 1] = c[k - 1] THEN 0 ELSE 1
      BY <3>1 DEF Xor
    <3>3. Shift(Xor(b, c), bit)[k] = Xor(b, c)[k - 1] /\ Shift(b, 0)[k] = b[k - 1]
          /\ Shift(c, bit)[k] = c[k - 1]
      BY <2>2 DEF Shift
    <3>4. x[k] = IF b[7] = 1 /\ k <= 2
                 THEN IF Xor(b, c)[k - 1] = 1 THEN 0 ELSE 1 ELSE Xor(b, c)[k - 1]
      <4>1. CASE b[7] = 1
        <5>1. x = Xor(Shift(Xor(b, c), bit), Generator)
          BY <1>2, <4>1 DEF Stepped
        <5>2. x[k] = IF Shift(Xor(b, c), bit)[k] = Generator[k] THEN 0 ELSE 1
          BY <5>1 DEF Xor
        <5> QED BY <3>2, <3>3, <4>1, <5>2 DEF Generator
      <4>2. CASE b[7] # 1
        BY <1>2, <3>3, <4>2 DEF Stepped
      <4> QED BY <4>1, <4>2
    <3>5. Stepped(b, 0)[k] = IF b[7] = 1 /\ k <= 2
                             THEN IF b[k - 1] = 1 THEN 0 ELSE 1 ELSE b[k - 1]
      <4>1. CASE b[7] = 1
        <5>1. Stepped(b, 0)[k] = IF Shift(b, 0)[k] = Generator[k] THEN 0 ELSE 1
          BY <4>1 DEF Stepped, Xor
        <5> QED BY <3>1, <3>3, <4>1, <5>1 DEF Generator, Bit
      <4>2. CASE b[7] # 1
        BY <3>3, <4>2 DEF Stepped
      <4> QED BY <4>1, <4>2
    <3>6. y[k] = IF Stepped(b, 0)[k] = c[k - 1] THEN 0 ELSE 1
      BY <3>3 DEF Xor
    <3> HIDE DEF x, y
    <3> QED BY <3>1, <3>2, <3>4, <3>5, <3>6 DEF Bit
  <2> QED BY <2>1, <2>2
<1> HIDE DEF x, y
<1> QED BY <1>1, <1>3 DEF Bits, x, y

\* A function from an interval to the bytes may be defined by its first value and a step.
LEMMA ByteRecursion ==
  ASSUME NEW m \in Nat, NEW n \in Nat, m <= n, NEW first \in Byte,
         NEW step \in [Byte \X (m + 1 .. n) -> Byte]
  PROVE  \E f \in [m .. n -> Byte] :
           /\ f[m] = first
           /\ \A i \in m + 1 .. n : f[i] = step[<<f[i - 1], i>>]
<1> DEFINE T == {k \in m .. n : \E f \in [m .. k -> Byte] :
                   /\ f[m] = first
                   /\ \A i \in m + 1 .. k : f[i] = step[<<f[i - 1], i>>]}
<1>1. m \in T
  <2>1. [i \in m .. m |-> first] \in [m .. m -> Byte] /\ [i \in m .. m |-> first][m] = first
    OBVIOUS
  <2>2. m + 1 .. m = {} /\ m \in m .. n
    OBVIOUS
  <2> QED BY <2>1, <2>2
<1>2. ASSUME NEW k \in m + 1 .. n, k - 1 \in T PROVE k \in T
  <2>1. PICK f \in [m .. k - 1 -> Byte] :
               /\ f[m] = first
               /\ \A i \in m + 1 .. k - 1 : f[i] = step[<<f[i - 1], i>>]
    BY <1>2
  <2> DEFINE last == step[<<f[k - 1], k>>]
             g == [i \in m .. k |-> IF i = k THEN last ELSE f[i]]
  <2>2. k \in Nat /\ k - 1 \in m .. k - 1 /\ k \in m .. n
    OBVIOUS
  <2>3. last \in Byte
    BY <2>2
  <2> HIDE DEF last
  <2>4. g \in [m .. k -> Byte]
    BY <2>2, <2>3
  <2>5. g[m] = first
    BY <2>1, <2>2
  <2>6. ASSUME NEW i \in m + 1 .. k PROVE g[i] = step[<<g[i - 1], i>>]
    <3>1. g[i - 1] = f[i - 1]
      BY <2>2
    <3>2. CASE i = k
      BY <2>2, <3>1, <3>2 DEF last
    <3>3. CASE i # k
      BY <2>1, <2>2, <3>1, <3>3
    <3> QED BY <3>2, <3>3
  <2> HIDE DEF g
  <2> QED BY <2>2, <2>4, <2>5, <2>6
<1> HIDE DEF T
<1>3. m .. n \subseteq T
  BY <1>1, <1>2, IntervalInduction
<1>4. n \in T
  BY <1>3
<1> QED BY <1>4 DEF T

-----------------------------------------------------------------------------
(***************************************************************************)
(* The eight rounds for a byte.                                            *)
(***************************************************************************)
Rounds(remainder, byte) ==
  LET after[j \in 0 .. 8] ==
        IF j = 0 THEN remainder
        ELSE ShiftedIn[after[j - 1]][(byte \div Weight[j]) % 2]
  IN  after

LEMMA ShiftedInType ==
  ASSUME NEW r \in Byte, NEW bit \in Bit
  PROVE  ShiftedIn[r][bit] \in Byte
<1>1. PICK b \in Bits : r = ValueOf(b)
  BY ByteHasBits
<1> QED BY <1>1, ShiftedInBits, SteppedType, ValueIsByte

\* The bit that comes next is that of the weight.
LEMMA BitOfByte ==
  ASSUME NEW b \in Bits, NEW j \in 1 .. 8
  PROVE  (ValueOf(b) \div Weight[j]) % 2 = b[8 - j]
<1> DEFINE v == ValueOf(b)
<1>1. /\ \A x \in Bit, m \in Nat : (x + 2 * m) % 2 = x
      /\ \A n \in Nat : n \div 1 = n
  BY DEF Bit
<1>2. /\ b[0] \in Bit /\ b[1] \in Bit /\ b[2] \in Bit /\ b[3] \in Bit
      /\ b[4] \in Bit /\ b[5] \in Bit /\ b[6] \in Bit /\ b[7] \in Bit
  BY BitsAre
<1>3. /\ v \div 128 = b[7]
      /\ v \div 64 = b[6] + 2 * b[7]
      /\ v \div 32 = b[5] + 2 * (b[6] + 2 * b[7])
      /\ v \div 16 = b[4] + 2 * (b[5] + 2 * b[6] + 4 * b[7])
      /\ v \div 8 = b[3] + 2 * (b[4] + 2 * b[5] + 4 * b[6] + 8 * b[7])
      /\ v \div 4 = b[2] + 2 * (b[3] + 2 * b[4] + 4 * b[5] + 8 * b[6] + 16 * b[7])
      /\ v \div 2 = b[1] + 2 * (b[2] + 2 * b[3] + 4 * b[4] + 8 * b[5] + 16 * b[6] + 32 * b[7])
      /\ v \div 1 = b[0] + 2 * (b[1] + 2 * b[2] + 4 * b[3] + 8 * b[4] + 16 * b[5] + 32 * b[6] + 64 * b[7])
  BY SMTT(30), <1>2 DEF ValueOf, Bit
<1>4. /\ (v \div 128) % 2 = b[7] /\ (v \div 64) % 2 = b[6] /\ (v \div 32) % 2 = b[5]
      /\ (v \div 16) % 2 = b[4] /\ (v \div 8) % 2 = b[3] /\ (v \div 4) % 2 = b[2]
      /\ (v \div 2) % 2 = b[1] /\ (v \div 1) % 2 = b[0]
  BY SMTT(30), <1>2, <1>3 DEF Bit
<1>5. j = 1 \/ j = 2 \/ j = 3 \/ j = 4 \/ j = 5 \/ j = 6 \/ j = 7 \/ j = 8
  OBVIOUS
<1> HIDE DEF v
<1>6. (v \div Weight[j]) % 2 = b[8 - j]
  BY <1>4, <1>5 DEF Weight
<1> QED BY <1>6 DEF v

LEMMA BitType ==
  ASSUME NEW byte \in Byte, NEW j \in 1 .. 8
  PROVE  (byte \div Weight[j]) % 2 \in Bit
<1>1. PICK b \in Bits : byte = ValueOf(b)
  BY ByteHasBits
<1>2. 8 - j \in 0 .. 7
  OBVIOUS
<1> QED BY <1>1, <1>2, BitOfByte DEF Bits

LEMMA RoundsAre ==
  ASSUME NEW r \in Byte, NEW byte \in Byte
  PROVE  /\ Rounds(r, byte) \in [0 .. 8 -> Byte]
         /\ Rounds(r, byte)[0] = r
         /\ \A j \in 1 .. 8 : Rounds(r, byte)[j] =
              ShiftedIn[Rounds(r, byte)[j - 1]][(byte \div Weight[j]) % 2]
<1> DEFINE Bitj(j) == (byte \div Weight[j]) % 2
           Rec(f) == f = [j \in 0 .. 8 |-> IF j = 0 THEN r ELSE ShiftedIn[f[j - 1]][Bitj(j)]]
           step == [p \in Byte \X (0 + 1 .. 8) |-> ShiftedIn[p[1]][Bitj(p[2])]]
           round == Rounds(r, byte)
<1>1. round = CHOOSE f : Rec(f)
  BY DEF Rounds
<1>2. \A j \in 1 .. 8 : Bitj(j) \in Bit
  BY BitType
<1> HIDE DEF Bitj
<1>3. step \in [Byte \X (0 + 1 .. 8) -> Byte]
  BY <1>2, ShiftedInType
<1>4. PICK f \in [0 .. 8 -> Byte] :
        f[0] = r /\ \A i \in 0 + 1 .. 8 : f[i] = step[<<f[i - 1], i>>]
  <2> HIDE DEF step
  <2>1. 0 \in Nat /\ 8 \in Nat /\ 0 <= 8
    OBVIOUS
  <2>2. \A first \in Byte, g \in [Byte \X (0 + 1 .. 8) -> Byte] :
          \E f \in [0 .. 8 -> Byte] :
            f[0] = first /\ \A i \in 0 + 1 .. 8 : f[i] = g[<<f[i - 1], i>>]
    BY <2>1, ByteRecursion, Zenon
  <2>3. \A g \in [Byte \X (0 + 1 .. 8) -> Byte] :
          \E f \in [0 .. 8 -> Byte] :
            f[0] = r /\ \A i \in 0 + 1 .. 8 : f[i] = g[<<f[i - 1], i>>]
    BY <2>2, Zenon
  <2> QED BY <1>3, <2>3, Zenon
<1>5. ASSUME NEW i \in 1 .. 8 PROVE f[i] = ShiftedIn[f[i - 1]][Bitj(i)]
  <2>1. f[i - 1] \in Byte /\ i \in 0 + 1 .. 8
    OBVIOUS
  <2>2. step[<<f[i - 1], i>>] = ShiftedIn[f[i - 1]][Bitj(i)]
    BY <2>1
  <2> QED BY <1>4, <2>1, <2>2
<1> HIDE DEF step
<1>6. Rec(f)
  <2>1. \A j \in 0 .. 8 : f[j] = IF j = 0 THEN r ELSE ShiftedIn[f[j - 1]][Bitj(j)]
    BY <1>4, <1>5
  <2> QED BY <2>1
<1>7. Rec(round)
  <2> HIDE DEF Rec, round
  <2> QED BY <1>1, <1>6
<1> HIDE DEF round
<1>8. round[0] = r /\ \A j \in 1 .. 8 : round[j] = ShiftedIn[round[j - 1]][Bitj(j)]
  BY <1>7
<1>9. DOMAIN round = 0 .. 8 /\ round = [j \in 0 .. 8 |-> round[j]]
  BY <1>7
<1>10. \A j \in 0 .. 8 : round[j] \in Byte
  <2> DEFINE T == {j \in 0 .. 8 : round[j] \in Byte}
  <2>1. 0 \in T
    BY <1>8
  <2>2. ASSUME NEW i \in 0 + 1 .. 8, i - 1 \in T PROVE i \in T
    BY <1>2, <1>8, <2>2, ShiftedInType
  <2>3. 0 .. 8 \subseteq T
    <3> HIDE DEF T
    <3> QED BY <2>1, <2>2, IntervalInduction
  <2> QED BY <2>3
<1>11. round \in [0 .. 8 -> Byte]
  BY <1>9, <1>10
<1> QED BY <1>8, <1>11 DEF round, Bitj

LEMMA AfterByteIs ==
  ASSUME NEW r \in Byte, NEW byte \in Byte
  PROVE  AfterByte[r][byte] = Rounds(r, byte)[8] /\ AfterByte[r][byte] \in Byte
<1>1. AfterByte[r][byte] = Rounds(r, byte)[8]
  BY DEF AfterByte, Rounds, Byte
<1> QED BY SMTT(30), <1>1, RoundsAre

\* What is shifted in of a byte before round j + 1.
Entered(c, j) == [k \in 0 .. 7 |-> IF k < j THEN c[k + 8 - j] ELSE 0]

Zero == [k \in 0 .. 7 |-> 0]

LEMMA EnteredFacts ==
  ASSUME NEW c \in Bits
  PROVE  /\ \A j \in 0 .. 8 : Entered(c, j) \in Bits
         /\ Entered(c, 0) = Zero /\ Entered(c, 8) = c
         /\ \A j \in 1 .. 8 : /\ Entered(c, j - 1)[7] = 0
                              /\ Shift(Entered(c, j - 1), c[8 - j]) = Entered(c, j)
<1>1. ASSUME NEW j \in 0 .. 8 PROVE Entered(c, j) \in Bits
  <2>1. ASSUME NEW k \in 0 .. 7, k < j PROVE c[k + 8 - j] \in Bit
    <3>1. k + 8 - j \in 0 .. 7
      BY <2>1
    <3> QED BY <3>1 DEF Bits
  <2> QED BY <2>1 DEF Entered, Bits, Bit
<1>2. Entered(c, 0) = Zero
  BY DEF Entered, Zero
<1>3. Entered(c, 8) = c
  <2>1. \A k \in 0 .. 7 : Entered(c, 8)[k] = c[k]
    BY DEF Entered
  <2> QED BY <1>1, <2>1 DEF Bits
<1>4. ASSUME NEW j \in 1 .. 8
      PROVE  /\ Entered(c, j - 1)[7] = 0
             /\ Shift(Entered(c, j - 1), c[8 - j]) = Entered(c, j)
  <2>1. Entered(c, j - 1)[7] = 0
    BY DEF Entered
  <2>2. ASSUME NEW k \in 0 .. 7
        PROVE  Shift(Entered(c, j - 1), c[8 - j])[k] = Entered(c, j)[k]
    <3>1. CASE k = 0
      BY <3>1 DEF Shift, Entered
    <3>2. CASE k # 0
      <4>1. k - 1 \in 0 .. 7 /\ (k - 1) + 8 - (j - 1) = k + 8 - j /\ (k - 1 < j - 1 <=> k < j)
        BY <3>2
      <4>2. Shift(Entered(c, j - 1), c[8 - j])[k] = Entered(c, j - 1)[k - 1]
        BY <3>2 DEF Shift
      <4> QED BY <4>1, <4>2 DEF Entered
    <3> QED BY <3>1, <3>2
  <2> QED BY <2>1, <2>2 DEF Shift, Entered
<1> QED BY <1>1, <1>2, <1>3, <1>4

LEMMA XorFacts ==
  ASSUME NEW b \in Bits
  PROVE  /\ Xor(b, Zero) = b /\ Xor(b, b) = Zero
         /\ \A c \in Bits : Xor(b, c) = b => c = Zero
         /\ \A c, d \in Bits : Xor(b, c) = Xor(b, d) => c = d
<1>1. \A k \in 0 .. 7 : b[k] \in Bit
  BY DEF Bits
<1>2. Xor(b, Zero) = b
  <2>1. \A k \in 0 .. 7 : Xor(b, Zero)[k] = b[k]
    BY <1>1 DEF Xor, Zero, Bit
  <2> QED BY <2>1, XorType DEF Bits
<1>3. Xor(b, b) = Zero
  BY DEF Xor, Zero
<1>4. ASSUME NEW c \in Bits, NEW d \in Bits, Xor(b, c) = Xor(b, d)
      PROVE  c = d
  <2>1. \A k \in 0 .. 7 : c[k] \in Bit /\ d[k] \in Bit
    BY DEF Bits
  <2>2. \A k \in 0 .. 7 : (b[k] = c[k]) <=> (b[k] = d[k])
    <3> SUFFICES ASSUME NEW k \in 0 .. 7 PROVE (b[k] = c[k]) <=> (b[k] = d[k])
      OBVIOUS
    <3>1. Xor(b, c)[k] = Xor(b, d)[k]
      BY <1>4
    <3> QED BY <3>1 DEF Xor
  <2>3. \A k \in 0 .. 7 : c[k] = d[k]
    BY <1>1, <2>1, <2>2 DEF Bit
  <2> QED BY <2>3 DEF Bits
<1>5. Zero \in Bits
  BY DEF Zero, Bits, Bit
<1> QED BY <1>2, <1>3, <1>4, <1>5

\* A byte is added to the remainder that its eight rounds would leave of 0.
LEMMA RoundsLinear ==
  ASSUME NEW r \in Byte, NEW c \in Bits
  PROVE  \E b \in Bits : /\ AfterByte[r][0] = ValueOf(b)
                         /\ AfterByte[r][ValueOf(c)] = ValueOf(Xor(b, c))
<1> DEFINE x == Rounds(r, ValueOf(c))
           y == Rounds(r, 0)
           T == {j \in 0 .. 8 : \E b \in Bits : /\ y[j] = ValueOf(b)
                                               /\ x[j] = ValueOf(Xor(b, Entered(c, j)))}
<1>1. ValueOf(c) \in Byte /\ 0 \in Byte /\ Zero \in Bits /\ ValueOf(Zero) = 0
  BY ValueIsByte DEF Byte, Zero, Bits, Bit, ValueOf
<1>2. /\ x[0] = r /\ y[0] = r
      /\ \A j \in 1 .. 8 : /\ x[j] = ShiftedIn[x[j - 1]][c[8 - j]]
                           /\ y[j] = ShiftedIn[y[j - 1]][0]
  <2>1. \A j \in 1 .. 8 : (0 \div Weight[j]) % 2 = 0
    <3> SUFFICES ASSUME NEW j \in 1 .. 8 PROVE (0 \div Weight[j]) % 2 = 0
      OBVIOUS
    <3>1. 8 - j \in 0 .. 7
      OBVIOUS
    <3> QED BY <1>1, <3>1, BitOfByte DEF Zero
  <2>2. \A j \in 1 .. 8 : (ValueOf(c) \div Weight[j]) % 2 = c[8 - j]
    BY BitOfByte
  <2>3. /\ x[0] = r
        /\ \A j \in 1 .. 8 : x[j] = ShiftedIn[x[j - 1]][(ValueOf(c) \div Weight[j]) % 2]
    BY <1>1, RoundsAre
  <2>4. /\ y[0] = r
        /\ \A j \in 1 .. 8 : y[j] = ShiftedIn[y[j - 1]][(0 \div Weight[j]) % 2]
    BY <1>1, RoundsAre
  <2> HIDE DEF x, y
  <2> QED BY <2>1, <2>2, <2>3, <2>4
<1> HIDE DEF x, y
<1>3. 0 \in T
  <2>1. PICK b \in Bits : r = ValueOf(b)
    BY ByteHasBits
  <2>2. Xor(b, Entered(c, 0)) = b
    BY EnteredFacts, XorFacts
  <2> QED BY <1>2, <2>1, <2>2
<1>4. ASSUME NEW j \in 0 + 1 .. 8, j - 1 \in T PROVE j \in T
  <2>1. PICK b \in Bits : y[j - 1] = ValueOf(b) /\ x[j - 1] = ValueOf(Xor(b, Entered(c, j - 1)))
    BY <1>4
  <2> DEFINE e == Entered(c, j - 1)
  <2>2. /\ j \in 1 .. 8 /\ j - 1 \in 0 .. 8 /\ 8 - j \in 0 .. 7
        /\ e \in Bits /\ e[7] = 0 /\ Shift(e, c[8 - j]) = Entered(c, j)
    <3>1. j \in 1 .. 8 /\ j - 1 \in 0 .. 8 /\ 8 - j \in 0 .. 7
      OBVIOUS
    <3> QED BY <3>1, EnteredFacts
  <2>3. c[8 - j] \in Bit /\ 0 \in Bit
    BY <2>2 DEF Bits, Bit
  <2>4. y[j] = ValueOf(Stepped(b, 0))
    BY <1>2, <2>1, <2>2, <2>3, ShiftedInBits
  <2> HIDE DEF e
  <2>5. x[j] = ValueOf(Stepped(Xor(b, e), c[8 - j]))
    BY <1>2, <2>1, <2>2, <2>3, ShiftedInBits, XorType DEF e
  <2>6. x[j] = ValueOf(Xor(Stepped(b, 0), Entered(c, j)))
    BY <2>2, <2>3, <2>5, SteppedLinear
  <2> QED BY <2>2, <2>3, <2>4, <2>6, SteppedType
<1>5. 8 \in T
  <2> HIDE DEF T
  <2>1. 0 .. 8 \subseteq T
    BY <1>3, <1>4, IntervalInduction
  <2> QED BY <2>1
<1>6. PICK b \in Bits : y[8] = ValueOf(b) /\ x[8] = ValueOf(Xor(b, c))
  BY <1>5, EnteredFacts
<1> QED BY SMTT(30), <1>1, <1>6, AfterByteIs DEF x, y

\* The remainder is 0 after a byte of its own value, and different bytes leave
\* different remainders.
LEMMA AfterByteOfByte ==
  ASSUME NEW r \in Byte
  PROVE  /\ AfterByte[r][AfterByte[r][0]] = 0
         /\ \A c, d \in Byte : AfterByte[r][c] = AfterByte[r][d] => c = d
<1>1. PICK b \in Bits : AfterByte[r][0] = ValueOf(b)
  <2>1. Zero \in Bits
    BY DEF Zero, Bits, Bit
  <2> QED BY <2>1, RoundsLinear
<1>2. ASSUME NEW c \in Bits PROVE AfterByte[r][ValueOf(c)] = ValueOf(Xor(b, c))
  <2>1. PICK a \in Bits : /\ AfterByte[r][0] = ValueOf(a)
                          /\ AfterByte[r][ValueOf(c)] = ValueOf(Xor(a, c))
    BY RoundsLinear
  <2> QED BY <1>1, <2>1, ValueUnique
<1>3. ValueOf(Zero) = 0
  BY DEF ValueOf, Zero
<1>4. AfterByte[r][AfterByte[r][0]] = 0
  BY <1>1, <1>2, <1>3, XorFacts
<1>5. ASSUME NEW c \in Byte, NEW d \in Byte, AfterByte[r][c] = AfterByte[r][d]
      PROVE  c = d
  <2>1. PICK u \in Bits, v \in Bits : c = ValueOf(u) /\ d = ValueOf(v)
    BY ByteHasBits
  <2>2. Xor(b, u) = Xor(b, v)
    BY <1>2, <1>5, <2>1, XorType, ValueUnique
  <2> QED BY <2>1, <2>2, XorFacts
<1> QED BY <1>4, <1>5

\* Remainders that differ before a byte differ after it.
LEMMA RemaindersApart ==
  ASSUME NEW r \in Byte, NEW s \in Byte, NEW byte \in Byte,
         AfterByte[r][byte] = AfterByte[s][byte]
  PROVE  r = s
<1> DEFINE x == Rounds(r, byte)
           y == Rounds(s, byte)
           T == {j \in 0 .. 8 : x[8 - j] = y[8 - j]}
<1>1. /\ x \in [0 .. 8 -> Byte] /\ y \in [0 .. 8 -> Byte] /\ x[0] = r /\ y[0] = s
      /\ \A j \in 1 .. 8 : /\ x[j] = ShiftedIn[x[j - 1]][(byte \div Weight[j]) % 2]
                           /\ y[j] = ShiftedIn[y[j - 1]][(byte \div Weight[j]) % 2]
  BY RoundsAre
<1>2. x[8] = y[8]
  BY AfterByteIs
<1> HIDE DEF x, y
<1>3. 0 \in T
  BY <1>2
<1>4. ASSUME NEW i \in 0 + 1 .. 8, i - 1 \in T PROVE i \in T
  <2> DEFINE j == 9 - i
  <2>1. j \in 1 .. 8 /\ j - 1 \in 0 .. 8 /\ 8 - (i - 1) = j /\ 8 - i = j - 1 /\ i \in 0 .. 8
    OBVIOUS
  <2>2. x[j] = y[j]
    BY <1>4, <2>1
  <2> HIDE DEF j
  <2>3. (byte \div Weight[j]) % 2 \in Bit
    BY <2>1, BitType
  <2> DEFINE bit == (byte \div Weight[j]) % 2
  <2>4. ShiftedIn[x[j - 1]][bit] = ShiftedIn[y[j - 1]][bit]
    BY <1>1, <2>1, <2>2
  <2> HIDE DEF bit
  <2>5. PICK u \in Bits, v \in Bits : x[j - 1] = ValueOf(u) /\ y[j - 1] = ValueOf(v)
    BY <1>1, <2>1, ByteHasBits
  <2>6. ValueOf(Stepped(u, bit)) = ValueOf(Stepped(v, bit))
    BY <2>3, <2>4, <2>5, ShiftedInBits DEF bit
  <2>7. u = v
    BY <2>3, <2>6, SteppedType, ValueUnique, SteppedApart DEF bit
  <2>8. x[8 - i] = y[8 - i]
    BY <2>1, <2>5, <2>7
  <2> QED BY <2>1, <2>8
<1>5. 0 .. 8 \subseteq T
  <2> HIDE DEF T
  <2> QED BY <1>3, <1>4, IntervalInduction
<1>6. x[8 - 8] = y[8 - 8]
  BY <1>5
<1> QED BY <1>1, <1>6

-----------------------------------------------------------------------------
(***************************************************************************)
(* The CRC of the bytes of a frame.                                        *)
(***************************************************************************)
Buffers == [1 .. MAX_FRAME_SIZE -> Byte]

Remainders(buf) ==
  LET after[i \in 1 .. MAX_FRAME_SIZE] ==
        IF i = 1 THEN buf[1] ELSE AfterByte[after[i - 1]][buf[i]]
  IN  after

LEMMA FrameSize == MAX_FRAME_SIZE \in Nat /\ MAX_FRAME_SIZE >= 12
BY FragmentAssumption DEF MAX_FRAME_SIZE

LEMMA RemaindersAre ==
  ASSUME NEW buf \in Buffers
  PROVE  /\ Remainders(buf) \in [1 .. MAX_FRAME_SIZE -> Byte]
         /\ Remainders(buf)[1] = buf[1]
         /\ \A i \in 2 .. MAX_FRAME_SIZE :
              Remainders(buf)[i] = AfterByte[Remainders(buf)[i - 1]][buf[i]]
         /\ compute_crc8(buf) = Remainders(buf)[MAX_FRAME_SIZE]
<1> DEFINE n == MAX_FRAME_SIZE
           Rec(f) == f = [i \in 1 .. n |-> IF i = 1 THEN buf[1] ELSE AfterByte[f[i - 1]][buf[i]]]
           step == [p \in Byte \X (1 + 1 .. n) |-> AfterByte[p[1]][buf[p[2]]]]
           after == Remainders(buf)
<1>1. after = CHOOSE f : Rec(f)
  BY DEF Remainders
<1>2. compute_crc8(buf) = after[n]
  BY DEF Remainders, compute_crc8
<1>3. n \in Nat /\ 1 <= n /\ 1 \in Nat /\ \A i \in 1 .. n : buf[i] \in Byte
  BY FrameSize DEF Buffers
<1> HIDE DEF n
<1>4. step \in [Byte \X (1 + 1 .. n) -> Byte]
  <2>1. ASSUME NEW r \in Byte, NEW i \in 1 + 1 .. n PROVE AfterByte[r][buf[i]] \in Byte
    BY <1>3, AfterByteIs
  <2> QED BY <2>1
<1> HIDE DEF step
<1>5. PICK f \in [1 .. n -> Byte] :
        f[1] = buf[1] /\ \A i \in 1 + 1 .. n : f[i] = step[<<f[i - 1], i>>]
  <2>1. \A first \in Byte, g \in [Byte \X (1 + 1 .. n) -> Byte] :
          \E f \in [1 .. n -> Byte] :
            f[1] = first /\ \A i \in 1 + 1 .. n : f[i] = g[<<f[i - 1], i>>]
    BY <1>3, ByteRecursion, Zenon
  <2>2. buf[1] \in Byte
    BY <1>3
  <2>3. \A g \in [Byte \X (1 + 1 .. n) -> Byte] :
          \E f \in [1 .. n -> Byte] :
            f[1] = buf[1] /\ \A i \in 1 + 1 .. n : f[i] = g[<<f[i - 1], i>>]
    BY <2>1, <2>2, Zenon
  <2> QED BY <1>4, <2>3, Zenon
<1>6. ASSUME NEW i \in 2 .. n PROVE f[i] = AfterByte[f[i - 1]][buf[i]]
  <2>1. f[i - 1] \in Byte /\ i \in 1 + 1 .. n
    BY <1>3
  <2>2. step[<<f[i - 1], i>>] = AfterByte[f[i - 1]][buf[i]]
    BY <2>1 DEF step
  <2> QED BY <1>5, <2>1, <2>2
<1>7. Rec(f)
  <2>1. \A i \in 1 .. n : f[i] = IF i = 1 THEN buf[1] ELSE AfterByte[f[i - 1]][buf[i]]
    BY <1>3, <1>5, <1>6
  <2> QED BY <2>1
<1>8. Rec(after)
  <2> HIDE DEF Rec, after
  <2> QED BY <1>1, <1>7
<1> HIDE DEF after
<1>9. /\ after[1] = buf[1]
      /\ \A i \in 2 .. n : after[i] = AfterByte[after[i - 1]][buf[i]]
      /\ DOMAIN after = 1 .. n /\ after = [i \in 1 .. n |-> after[i]]
  BY <1>3, <1>8
<1>10. \A i \in 1 .. n : after[i] \in Byte
  <2> DEFINE T == {i \in 1 .. n : after[i] \in Byte}
  <2>1. 1 \in T
    BY <1>3, <1>9
  <2>2. ASSUME NEW i \in 1 + 1 .. n, i - 1 \in T PROVE i \in T
    BY <1>3, <1>9, <2>2, AfterByteIs
  <2>3. 1 .. n \subseteq T
    <3> HIDE DEF T
    <3> QED BY <1>3, <2>1, <2>2, IntervalInduction
  <2> QED BY <2>3
<1>11. after \in [1 .. n -> Byte]
  BY <1>9, <1>10
<1> QED BY <1>2, <1>9, <1>11 DEF after, n

\* As long as the bytes are the same, so are the remainders.
LEMMA SamePrefix ==
  ASSUME NEW buf \in Buffers, NEW other \in Buffers, NEW k \in 1 .. MAX_FRAME_SIZE,
         \A i \in 1 .. k : buf[i] = other[i]
  PROVE  Remainders(buf)[k] = Remainders(other)[k]
<1> DEFINE T == {i \in 1 .. k : Remainders(buf)[i] = Remainders(other)[i]}
<1>1. k \in Nat /\ 1 \in Nat /\ 1 <= k /\ k <= MAX_FRAME_SIZE
  BY FrameSize
<1>2. 1 \in T
  BY <1>1, RemaindersAre
<1>3. ASSUME NEW i \in 1 + 1 .. k, i - 1 \in T PROVE i \in T
  <2>1. i \in 2 .. MAX_FRAME_SIZE /\ i \in 1 .. k
    BY <1>1, FrameSize
  <2> QED BY <1>3, <2>1, RemaindersAre
<1>4. 1 .. k \subseteq T
  <2> HIDE DEF T
  <2> QED BY <1>1, <1>2, <1>3, IntervalInduction
<1> QED BY <1>1, <1>4

\* The CRC in place of the last byte, which was 0, makes the CRC 0.
LEMMA CrcOfSealed ==
  ASSUME NEW buf \in Buffers, buf[MAX_FRAME_SIZE] = 0
  PROVE  LET whole == [buf EXCEPT ![MAX_FRAME_SIZE] = compute_crc8(buf)]
         IN  whole \in Buffers /\ compute_crc8(whole) = 0
<1> DEFINE n == MAX_FRAME_SIZE
           whole == [buf EXCEPT ![n] = compute_crc8(buf)]
<1>1. n \in 2 .. n /\ n \in 1 .. n /\ n - 1 \in 1 .. n
  BY FrameSize
<1> HIDE DEF n
<1>2. compute_crc8(buf) \in Byte
  BY <1>1, RemaindersAre DEF n
<1>3. whole \in Buffers /\ whole[n] = compute_crc8(buf)
      /\ \A i \in 1 .. n - 1 : whole[i] = buf[i]
  BY <1>1, <1>2 DEF Buffers, n
<1> HIDE DEF whole
<1> DEFINE r == Remainders(buf)[n - 1]
<1>4. Remainders(whole)[n - 1] = r
  BY <1>1, <1>3, SamePrefix DEF n
<1>5. r \in Byte
  BY <1>1, RemaindersAre DEF n
<1> HIDE DEF r
<1>6. compute_crc8(buf) = AfterByte[r][0]
  BY <1>1, RemaindersAre DEF n, r
<1>7. compute_crc8(whole) = AfterByte[r][compute_crc8(buf)]
  BY <1>1, <1>3, <1>4, RemaindersAre DEF n
<1>8. compute_crc8(whole) = 0
  BY <1>5, <1>6, <1>7, AfterByteOfByte
<1> QED BY <1>3, <1>8 DEF whole, n

\* One byte that changes changes the CRC.
LEMMA CrcOfChanged ==
  ASSUME NEW buf \in Buffers, NEW other \in Buffers, NEW k \in 1 .. MAX_FRAME_SIZE,
         buf[k] # other[k],
         \A i \in 1 .. MAX_FRAME_SIZE : i # k => buf[i] = other[i]
  PROVE  compute_crc8(buf) # compute_crc8(other)
<1> DEFINE n == MAX_FRAME_SIZE
           x == Remainders(buf)
           y == Remainders(other)
           T == {i \in k .. n : x[i] # y[i]}
<1>1. k \in Nat /\ n \in Nat /\ k \in 1 .. n /\ k <= n
  BY FrameSize
<1>2. \A i \in 1 .. n : x[i] \in Byte /\ y[i] \in Byte /\ buf[i] \in Byte /\ other[i] \in Byte
  BY RemaindersAre DEF Buffers
<1>3. /\ x[1] = buf[1] /\ y[1] = other[1]
      /\ \A i \in 2 .. n : /\ x[i] = AfterByte[x[i - 1]][buf[i]]
                           /\ y[i] = AfterByte[y[i - 1]][other[i]]
  BY RemaindersAre
<1>4. k \in T
  <2>1. CASE k = 1
    BY <1>1, <1>3, <2>1
  <2>2. CASE k # 1
    <3>1. k \in 2 .. n /\ k - 1 \in 1 .. n /\ \A i \in 1 .. k - 1 : i \in 1 .. n /\ i # k
      BY <1>1, <2>2
    <3>2. x[k - 1] = y[k - 1]
      BY <3>1, SamePrefix
    <3> HIDE DEF x, y
    <3> QED BY <1>1, <1>2, <1>3, <3>1, <3>2, AfterByteOfByte
  <2> QED BY <2>1, <2>2
<1> HIDE DEF x, y, n
<1>5. ASSUME NEW i \in k + 1 .. n, i - 1 \in T PROVE i \in T
  <2>1. i \in 2 .. n /\ i \in 1 .. n /\ i - 1 \in 1 .. n /\ i # k /\ i \in k .. n
    BY <1>1
  <2>2. buf[i] = other[i]
    BY <2>1 DEF n
  <2> QED BY <1>2, <1>3, <1>5, <2>1, <2>2, RemaindersApart
<1>6. k .. n \subseteq T
  <2> HIDE DEF T
  <2> QED BY <1>1, <1>4, <1>5, IntervalInduction
<1>7. x[n] # y[n]
  BY <1>1, <1>6
<1> QED BY <1>7, RemaindersAre DEF x, y, n

-----------------------------------------------------------------------------
(***************************************************************************)
(* A frame and its bytes.                                                  *)
(***************************************************************************)
Header(f) ==
  << f.remaining_msg_bytes % 256, f.remaining_msg_bytes \div 256,
     f.dst_id, f.src_id, f.seq_num, f.len,
     f.starting_index % 256, f.starting_index \div 256,
     f.ack_num, f.is_ack >>

LEMMA TwoBytes ==
  /\ \A n \in Short : n % 256 \in Byte /\ n \div 256 \in Byte
  /\ \A x, y \in Byte : /\ x + 256 * y \in Short
                        /\ (x + 256 * y) % 256 = x
                        /\ (x + 256 * y) \div 256 = y
<1>0. USHORT_MAX + 1 = 256 * 256 /\ USHORT_MAX \in Nat
  BY WireAssumption, FragmentAssumption
<1>1. ASSUME NEW n \in Short PROVE n % 256 \in Byte /\ n \div 256 \in Byte
  <2>1. n \in Nat /\ n <= USHORT_MAX
    BY <1>0 DEF Short
  <2>2. \A k \in Nat : k % 256 \in 0 .. 255 /\ k \div 256 \in Nat /\ 256 * (k \div 256) <= k
    OBVIOUS
  <2>3. n \div 256 \in Nat /\ 256 * (n \div 256) <= n
    BY <2>1, <2>2
  <2>4. n \div 256 <= 255
    BY <1>0, <2>1, <2>3
  <2> QED BY <2>1, <2>2, <2>3, <2>4 DEF Byte
<1>2. ASSUME NEW x \in Byte, NEW y \in Byte
      PROVE  /\ x + 256 * y \in Short
             /\ (x + 256 * y) % 256 = x
             /\ (x + 256 * y) \div 256 = y
  <2>1. x + 256 * y \in Nat /\ x + 256 * y <= USHORT_MAX
    BY <1>0 DEF Byte
  <2>2. (x + 256 * y) % 256 = x /\ (x + 256 * y) \div 256 = y
    BY DEF Byte
  <2> QED BY <1>0, <2>1, <2>2 DEF Short
<1> QED BY <1>1, <1>2

LEMMA SmallIndices ==
  \A i \in 1 .. 10 : \/ i = 1 \/ i = 2 \/ i = 3 \/ i = 4 \/ i = 5
                     \/ i = 6 \/ i = 7 \/ i = 8 \/ i = 9 \/ i = 10
OBVIOUS

LEMMA HeaderType ==
  ASSUME NEW f \in Frames
  PROVE  Header(f) \in Seq(Byte) /\ Len(Header(f)) = 10
<1>1. f.remaining_msg_bytes \in Short /\ f.starting_index \in Short
      /\ f.dst_id \in Byte /\ f.src_id \in Byte /\ f.seq_num \in Byte
      /\ f.len \in Byte /\ f.ack_num \in Byte /\ f.is_ack \in Byte
  BY DEF Frames
<1>2. f.remaining_msg_bytes % 256 \in Byte /\ f.remaining_msg_bytes \div 256 \in Byte
      /\ f.starting_index % 256 \in Byte /\ f.starting_index \div 256 \in Byte
  BY <1>1, TwoBytes
<1> QED BY <1>1, <1>2 DEF Header

LEMMA Concatenated ==
  ASSUME NEW s \in Seq(Byte), NEW t \in Seq(Byte)
  PROVE  /\ s \o t \in Seq(Byte) /\ Len(s \o t) = Len(s) + Len(t)
         /\ \A i \in 1 .. Len(s) : (s \o t)[i] = s[i]
         /\ \A k \in 1 .. Len(t) : (s \o t)[Len(s) + k] = t[k]
OBVIOUS

LEMMA FrameBytes ==
  ASSUME NEW f \in Frames
  PROVE  /\ convert_frame_to_char(f) \in Buffers
         /\ \A i \in 1 .. 10 : convert_frame_to_char(f)[i] = Header(f)[i]
         /\ \A k \in 1 .. FRAME_PAYLOAD_SIZE :
              convert_frame_to_char(f)[10 + k] = f.data[k]
         /\ convert_frame_to_char(f)[MAX_FRAME_SIZE] = f.crc
<1> DEFINE P == FRAME_PAYLOAD_SIZE
           h == Header(f)
           d == f.data
           c == << f.crc >>
           b == convert_frame_to_char(f)
<1>1. P \in Nat /\ P >= 1 /\ MAX_FRAME_SIZE = 11 + P
  BY FragmentAssumption DEF MAX_FRAME_SIZE
<1>2. h \in Seq(Byte) /\ Len(h) = 10
  BY HeaderType
<1>3. d \in Seq(Byte) /\ Len(d) = P
  <2>1. d \in [1 .. P -> Byte]
    BY DEF Frames
  <2> HIDE DEF d, P
  <2> QED BY <1>1, <2>1
<1>4. c \in Seq(Byte) /\ Len(c) = 1 /\ c[1] = f.crc
  BY DEF Frames
<1>5. b = (h \o d) \o c
  BY DEF convert_frame_to_char, Header
<1> HIDE DEF P, h, d, c, b
<1>6. /\ h \o d \in Seq(Byte) /\ Len(h \o d) = 10 + P
      /\ \A i \in 1 .. 10 : (h \o d)[i] = h[i]
      /\ \A k \in 1 .. P : (h \o d)[10 + k] = d[k]
  <2>1. /\ \A i \in 1 .. Len(h) : (h \o d)[i] = h[i]
        /\ \A k \in 1 .. Len(d) : (h \o d)[Len(h) + k] = d[k]
    BY <1>2, <1>3, Concatenated
  <2>2. h \o d \in Seq(Byte) /\ Len(h \o d) = Len(h) + Len(d)
    BY <1>2, <1>3, Concatenated
  <2> QED BY <1>2, <1>3, <2>1, <2>2
<1>7. /\ b \in Seq(Byte) /\ Len(b) = 11 + P /\ b[11 + P] = f.crc
      /\ \A i \in 1 .. 10 + P : b[i] = (h \o d)[i]
  <2> DEFINE s == h \o d
  <2>1. s \in Seq(Byte) /\ Len(s) = 10 + P
    BY <1>6
  <2> HIDE DEF s
  <2>2. /\ \A i \in 1 .. Len(s) : (s \o c)[i] = s[i]
        /\ \A k \in 1 .. Len(c) : (s \o c)[Len(s) + k] = c[k]
    BY <1>4, <2>1, Concatenated
  <2>3. s \o c \in Seq(Byte) /\ Len(s \o c) = Len(s) + Len(c)
    BY <1>4, <2>1, Concatenated
  <2>4. Len(s) + Len(c) = 11 + P /\ 1 \in 1 .. Len(c) /\ Len(s) + 1 = 11 + P
    BY <1>1, <1>4, <2>1
  <2>5. b = s \o c
    BY <1>5 DEF s
  <2>6. b[11 + P] = f.crc
    BY <1>4, <2>2, <2>4, <2>5
  <2>7. \A i \in 1 .. 10 + P : b[i] = s[i]
    BY <2>1, <2>2, <2>5
  <2> QED BY <2>3, <2>4, <2>5, <2>6, <2>7 DEF s
<1>8. b \in Buffers
  BY <1>1, <1>7 DEF Buffers
<1>9. /\ \A i \in 1 .. 10 : b[i] = h[i]
      /\ \A k \in 1 .. P : b[10 + k] = d[k]
  <2> DEFINE s == h \o d
  <2>1. /\ \A i \in 1 .. 10 : s[i] = h[i]
        /\ \A k \in 1 .. P : s[10 + k] = d[k]
        /\ \A i \in 1 .. 10 + P : b[i] = s[i]
    BY <1>6, <1>7
  <2> HIDE DEF s
  <2>2. /\ \A i \in 1 .. 10 : i \in 1 .. 10 + P
        /\ \A k \in 1 .. P : 10 + k \in 1 .. 10 + P
    BY <1>1
  <2> QED BY <2>1, <2>2
<1> QED BY <1>1, <1>7, <1>8, <1>9 DEF P, h, d, b

LEMMA FramesHaveSameBytes ==
  ASSUME NEW b \in Buffers, NEW c \in Buffers,
         \A i \in 1 .. 10 : b[i] = c[i],
         \A k \in 1 .. FRAME_PAYLOAD_SIZE : b[10 + k] = c[10 + k],
         b[MAX_FRAME_SIZE] = c[MAX_FRAME_SIZE]
  PROVE  b = c
<1>1. ASSUME NEW i \in 1 .. MAX_FRAME_SIZE PROVE b[i] = c[i]
  <2>1. \/ i \in 1 .. 10 \/ i = MAX_FRAME_SIZE
        \/ i - 10 \in 1 .. FRAME_PAYLOAD_SIZE /\ 10 + (i - 10) = i
    BY FragmentAssumption DEF MAX_FRAME_SIZE
  <2> QED BY <2>1
<1>2. b = [i \in 1 .. MAX_FRAME_SIZE |-> b[i]] /\ c = [i \in 1 .. MAX_FRAME_SIZE |-> c[i]]
  BY DEF Buffers
<1> QED BY <1>1, <1>2, Zenon

\* The two conversions are inverse to each other.
LEMMA RoundTrip ==
  ASSUME NEW b \in Buffers
  PROVE  /\ convert_char_to_frame(b) \in Frames
         /\ convert_frame_to_char(convert_char_to_frame(b)) = b
<1> DEFINE P == FRAME_PAYLOAD_SIZE
           n == MAX_FRAME_SIZE
           f == convert_char_to_frame(b)
           d == SubSeq(b, 11, n - 1)
<1>1. P \in Nat /\ P >= 1 /\ n = 11 + P
  BY FragmentAssumption DEF MAX_FRAME_SIZE
<1>2. /\ b[1] \in Byte /\ b[2] \in Byte /\ b[3] \in Byte /\ b[4] \in Byte
      /\ b[5] \in Byte /\ b[6] \in Byte /\ b[7] \in Byte /\ b[8] \in Byte
      /\ b[9] \in Byte /\ b[10] \in Byte /\ b[n] \in Byte
  <2>1. \A i \in 1 .. n : b[i] \in Byte
    BY DEF Buffers
  <2> HIDE DEF n, P
  <2> QED BY <1>1, <2>1
<1>3. d \in [1 .. P -> Byte] /\ \A k \in 1 .. P : d[k] = b[10 + k]
  <2>1. b \in Seq(Byte) /\ Len(b) = n
    <3> QED BY FrameSize DEF Buffers
  <2> HIDE DEF n, P
  <2>2. d \in Seq(Byte) /\ Len(d) = P
    BY <1>1, <2>1
  <2>3. \A k \in 1 .. P : d[k] = b[10 + k]
    BY <1>1, <2>1
  <2> HIDE DEF d
  <2> QED BY <2>2, <2>3
<1>4. f = [remaining_msg_bytes |-> b[1] + 256 * b[2],
           dst_id |-> b[3], src_id |-> b[4], seq_num |-> b[5], len |-> b[6],
           starting_index |-> b[7] + 256 * b[8], ack_num |-> b[9], is_ack |-> b[10],
           data |-> d, crc |-> b[n]]
  BY DEF convert_char_to_frame
<1> HIDE DEF f, d, n, P
<1>5. b[1] + 256 * b[2] \in Short /\ b[7] + 256 * b[8] \in Short
  BY <1>2, TwoBytes
<1>6. f \in Frames
  BY <1>2, <1>3, <1>4, <1>5 DEF Frames, P
<1>7. /\ f.remaining_msg_bytes % 256 = b[1] /\ f.remaining_msg_bytes \div 256 = b[2]
      /\ f.starting_index % 256 = b[7] /\ f.starting_index \div 256 = b[8]
  BY <1>2, <1>4, TwoBytes
<1>8. \A i \in 1 .. 10 : Header(f)[i] = b[i]
  <2>1. Header(f) = <<b[1], b[2], b[3], b[4], b[5], b[6], b[7], b[8], b[9], b[10]>>
    BY <1>4, <1>7 DEF Header
  <2> QED BY <2>1, SmallIndices
<1> DEFINE c == convert_frame_to_char(f)
<1>9. /\ c \in Buffers
      /\ \A i \in 1 .. 10 : c[i] = Header(f)[i]
      /\ \A k \in 1 .. FRAME_PAYLOAD_SIZE : c[10 + k] = f.data[k]
      /\ c[MAX_FRAME_SIZE] = f.crc
  BY <1>6, FrameBytes
<1>10. f.data = d /\ f.crc = b[n]
  BY <1>4
<1> HIDE DEF c
<1>11. c = b
  BY <1>3, <1>8, <1>9, <1>10, FramesHaveSameBytes DEF n, P
<1> QED BY <1>6, <1>11 DEF f, c

\* A frame that gets its CRC, as handle_outgoing_frames gives it, is whole.
THEOREM SealedFrameIsWhole ==
  ASSUME NEW f \in Frames, f.crc = 0
  PROVE  WithCrc(f) \in Frames /\ ~Corrupted(WithCrc(f))
<1> DEFINE b == convert_frame_to_char(f)
           v == compute_crc8(b)
           g == WithCrc(f)
<1>1. b \in Buffers /\ b[MAX_FRAME_SIZE] = 0
  BY FrameBytes
<1>2. v \in Byte
  BY <1>1, RemaindersAre, FrameSize
<1>3. g = [f EXCEPT !.crc = v]
  BY DEF WithCrc
<1> HIDE DEF b, v, g
<1>4. g \in Frames /\ g.crc = v /\ g.data = f.data /\ Header(g) = Header(f)
  BY <1>2, <1>3 DEF Frames, Header
<1> DEFINE c == convert_frame_to_char(g)
           whole == [b EXCEPT ![MAX_FRAME_SIZE] = v]
<1>5. whole \in Buffers /\ compute_crc8(whole) = 0
  BY <1>1, CrcOfSealed DEF v
<1>6. c = whole
  <2>1. /\ c \in Buffers
        /\ \A i \in 1 .. 10 : c[i] = Header(g)[i]
        /\ \A k \in 1 .. FRAME_PAYLOAD_SIZE : c[10 + k] = g.data[k]
        /\ c[MAX_FRAME_SIZE] = g.crc
    BY <1>4, FrameBytes
  <2>2. /\ \A i \in 1 .. 10 : b[i] = Header(f)[i]
        /\ \A k \in 1 .. FRAME_PAYLOAD_SIZE : b[10 + k] = f.data[k]
    BY FrameBytes DEF b
  <2>3. /\ whole[MAX_FRAME_SIZE] = v
        /\ \A i \in 1 .. MAX_FRAME_SIZE - 1 : whole[i] = b[i]
    BY <1>1, FrameSize DEF Buffers
  <2>4. /\ \A i \in 1 .. 10 : i \in 1 .. MAX_FRAME_SIZE - 1
        /\ \A k \in 1 .. FRAME_PAYLOAD_SIZE : 10 + k \in 1 .. MAX_FRAME_SIZE - 1
    BY FragmentAssumption DEF MAX_FRAME_SIZE
  <2> HIDE DEF c, whole
  <2>5. /\ \A i \in 1 .. 10 : c[i] = whole[i]
        /\ \A k \in 1 .. FRAME_PAYLOAD_SIZE : c[10 + k] = whole[10 + k]
        /\ c[MAX_FRAME_SIZE] = whole[MAX_FRAME_SIZE]
    BY <1>4, <2>1, <2>2, <2>3, <2>4
  <2> QED BY <1>5, <2>1, <2>5, FramesHaveSameBytes
<1> HIDE DEF c, whole
<1>7. compute_crc8(c) = 0
  BY <1>5, <1>6
<1> QED BY <1>4, <1>7 DEF Corrupted, c, g

\* The byte that send_frame inverts, wherever it is in the frame, makes a whole
\* frame a corrupted one.
THEOREM InvertedFrameIsCorrupted ==
  ASSUME NEW f \in Frames, ~Corrupted(f), NEW index \in 1 .. MAX_FRAME_SIZE
  PROVE  Inverted(f, index) \in Frames /\ Corrupted(Inverted(f, index))
<1> DEFINE b == convert_frame_to_char(f)
           c == [b EXCEPT ![index] = 255 - @]
<1>1. b \in Buffers /\ compute_crc8(b) = 0
  BY FrameBytes DEF Corrupted
<1>2. Inverted(f, index) = convert_char_to_frame(c)
  BY FrameSize DEF Inverted
<1> HIDE DEF b
<1>3. b[index] \in Byte /\ 255 - b[index] \in Byte /\ 255 - b[index] # b[index]
  <2>1. b[index] \in Byte
    BY <1>1 DEF Buffers
  <2>2. \A x \in Byte : 255 - x \in Byte /\ 255 - x # x
    BY DEF Byte
  <2> QED BY <2>1, <2>2
<1>4. /\ c \in Buffers /\ c[index] = 255 - b[index]
      /\ \A i \in 1 .. MAX_FRAME_SIZE : i # index => b[i] = c[i]
  BY <1>1, <1>3 DEF Buffers
<1> HIDE DEF c
<1>5. compute_crc8(c) # 0
  BY <1>1, <1>3, <1>4, CrcOfChanged
<1> QED BY <1>2, <1>4, <1>5, RoundTrip DEF Corrupted

-----------------------------------------------------------------------------
(***************************************************************************)
(* The queues.                                                             *)
(***************************************************************************)
\* Every address holds a node.
IsHeap(heap) ==
  heap = [a \in Address |-> Node(heap[a].prev, heap[a].next, heap[a].value)]

\* The queues, with the types of what they are made of.
SoundLists(ls) ==
  /\ IsHeap(ls.heap)
  /\ ls.head \in [Queue -> Address \cup {NULL}]
  /\ ls.chain \in [Queue -> Seq(Address)]
  /\ Queues(ls)

\* All queues are empty at the start.
LEMMA EmptyQueues == SoundLists(NoLists)
BY DEF SoundLists, NoLists, IsHeap, Node, Queues, Disjoint, Circular

-----------------------------------------------------------------------------
(***************************************************************************)
(* What the two functions do to a ring, node by node.                      *)
(***************************************************************************)

LEMMA NodeFields ==
  ASSUME NEW p, NEW n, NEW v
  PROVE  /\ Node(p, n, v).prev = p /\ Node(p, n, v).next = n
         /\ Node(p, n, v).value = v
         /\ \A q : [Node(p, n, v) EXCEPT !.prev = q] = Node(q, n, v)
         /\ \A q : [Node(p, n, v) EXCEPT !.next = q] = Node(p, q, v)
BY DEF Node

\* Appending to a queue that is not empty changes two pointers of its nodes.
LEMMA AppendedNodes ==
  ASSUME NEW heap, IsHeap(heap), NEW head \in Address, NEW v,
         NEW node \in Address, heap[head].prev \in Address,
         node # head, node # heap[head].prev
  PROVE  LET h == AppendedHeap(heap, head, node, v)
         IN  /\ IsHeap(h)
             /\ h[node].next = head
             /\ h[node].prev = heap[head].prev
             /\ \A a \in Address \ {node} :
                  /\ h[a].next = IF a = heap[head].prev THEN node ELSE heap[a].next
                  /\ h[a].prev = IF a = head THEN node ELSE heap[a].prev
<1> DEFINE last == heap[head].prev
           h1 == [heap EXCEPT ![head].prev = node]
           h2 == [h1 EXCEPT ![last].next = node]
           h3 == [h2 EXCEPT ![node] = Node(last, head, v)]
<1>1. AppendedHeap(heap, head, node, v) = h3
  BY AddressAssumption DEF AppendedHeap
<1>2. \A a \in Address : heap[a] = Node(heap[a].prev, heap[a].next, heap[a].value)
  BY DEF IsHeap
<1>3. DOMAIN heap = Address /\ DOMAIN h1 = Address /\ DOMAIN h2 = Address
      /\ DOMAIN h3 = Address
  BY DEF IsHeap
<1>4. \A a \in Address :
        h1[a] = Node(IF a = head THEN node ELSE heap[a].prev,
                     heap[a].next, heap[a].value)
  BY <1>2, <1>3 DEF Node
<1>5. ASSUME NEW a \in Address
      PROVE  h2[a] = Node(IF a = head THEN node ELSE heap[a].prev,
                          IF a = last THEN node ELSE heap[a].next, heap[a].value)
  <2> HIDE DEF h1
  <2>1. CASE a = last
    <3> DEFINE p == IF a = head THEN node ELSE heap[a].prev
    <3>1. h2[a] = [h1[a] EXCEPT !.next = node]
      BY <1>3, <2>1
    <3>2. h1[a] = Node(p, heap[a].next, heap[a].value)
      BY <1>4
    <3> HIDE DEF p, h2
    <3>3. h2[a] = Node(p, node, heap[a].value)
      BY <3>1, <3>2, NodeFields
    <3> QED BY <2>1, <3>3 DEF p
  <2>2. CASE a # last
    <3>1. h2[a] = h1[a]
      BY <1>3, <2>2
    <3> QED BY <1>4, <2>2, <3>1
  <2> QED BY <2>1, <2>2
<1>6. \A a \in Address :
        h3[a] = IF a = node THEN Node(last, head, v) ELSE h2[a]
  BY <1>3
<1> HIDE DEF h1, h2
<1>7. IsHeap(h3)
  <2>1. ASSUME NEW a \in Address
        PROVE  h3[a] = Node(h3[a].prev, h3[a].next, h3[a].value)
    <3> HIDE DEF h3
    <3>1. PICK p, n, w : h3[a] = Node(p, n, w)
      BY <1>5, <1>6
    <3> QED BY <3>1, NodeFields
  <2>2. h3 = [a \in Address |-> h3[a]]
    BY <1>3
  <2> HIDE DEF h3
  <2> QED BY <2>1, <2>2 DEF IsHeap
<1>8. /\ h3[node].next = head
      /\ h3[node].prev = last
      /\ \A a \in Address \ {node} :
           /\ h3[a].next = IF a = last THEN node ELSE heap[a].next
           /\ h3[a].prev = IF a = head THEN node ELSE heap[a].prev
  <2> HIDE DEF h3
  <2> QED BY <1>5, <1>6, NodeFields
<1> QED BY <1>1, <1>7, <1>8

\* Popping from a queue of two nodes or more closes the ring behind the head.
LEMMA PoppedNodes ==
  ASSUME NEW heap, IsHeap(heap), NEW head \in Address,
         heap[head].prev \in Address \ {head}, heap[head].next \in Address \ {head}
  PROVE  LET h == PoppedHeap(heap, head)
         IN  /\ IsHeap(h)
             /\ \A a \in Address \ {head} :
                  /\ h[a].next = IF a = heap[head].prev THEN heap[head].next
                                 ELSE heap[a].next
                  /\ h[a].prev = IF a = heap[head].next THEN heap[head].prev
                                 ELSE heap[a].prev
<1> DEFINE last == heap[head].prev
           new_head == heap[head].next
           h1 == [heap EXCEPT ![last].next = new_head]
           h2 == [h1 EXCEPT ![new_head].prev = last]
           h3 == [h2 EXCEPT ![head] = Node(NULL, NULL, NULL)]
<1>1. PoppedHeap(heap, head) = h3
  BY DEF PoppedHeap, Alone
<1>2. \A a \in Address : heap[a] = Node(heap[a].prev, heap[a].next, heap[a].value)
  BY DEF IsHeap
<1>3. DOMAIN heap = Address /\ DOMAIN h1 = Address /\ DOMAIN h2 = Address
      /\ DOMAIN h3 = Address
  BY DEF IsHeap
<1>4. ASSUME NEW a \in Address
      PROVE  h1[a] = Node(heap[a].prev, IF a = last THEN new_head ELSE heap[a].next,
                          heap[a].value)
  <2>1. CASE a = last
    <3>1. h1[a] = [heap[a] EXCEPT !.next = new_head]
      BY <1>3, <2>1
    <3> HIDE DEF h1
    <3>2. h1[a] = Node(heap[a].prev, new_head, heap[a].value)
      BY <1>2, <3>1, NodeFields
    <3> QED BY <2>1, <3>2
  <2>2. CASE a # last
    <3>1. h1[a] = heap[a]
      BY <1>3, <2>2
    <3> QED BY <1>2, <2>2, <3>1
  <2> QED BY <2>1, <2>2
<1>5. ASSUME NEW a \in Address
      PROVE  h2[a] = Node(IF a = new_head THEN last ELSE heap[a].prev,
                          IF a = last THEN new_head ELSE heap[a].next, heap[a].value)
  <2> HIDE DEF h1
  <2>1. CASE a = new_head
    <3> DEFINE n == IF a = last THEN new_head ELSE heap[a].next
    <3>1. h2[a] = [h1[a] EXCEPT !.prev = last]
      BY <1>3, <2>1
    <3>2. h1[a] = Node(heap[a].prev, n, heap[a].value)
      BY <1>4
    <3> HIDE DEF n, h2
    <3>3. h2[a] = Node(last, n, heap[a].value)
      BY <3>1, <3>2, NodeFields
    <3> QED BY <2>1, <3>3 DEF n
  <2>2. CASE a # new_head
    <3>1. h2[a] = h1[a]
      BY <1>3, <2>2
    <3> QED BY <1>4, <2>2, <3>1
  <2> QED BY <2>1, <2>2
<1>6. \A a \in Address :
        h3[a] = IF a = head THEN Node(NULL, NULL, NULL) ELSE h2[a]
  BY <1>3
<1> HIDE DEF h1, h2
<1>7. IsHeap(h3)
  <2>1. ASSUME NEW a \in Address
        PROVE  h3[a] = Node(h3[a].prev, h3[a].next, h3[a].value)
    <3> HIDE DEF h3
    <3>1. PICK p, n, w : h3[a] = Node(p, n, w)
      BY <1>5, <1>6
    <3> QED BY <3>1, NodeFields
  <2>2. h3 = [a \in Address |-> h3[a]]
    BY <1>3
  <2> HIDE DEF h3
  <2> QED BY <2>1, <2>2 DEF IsHeap
<1>8. \A a \in Address \ {head} :
        /\ h3[a].next = IF a = last THEN new_head ELSE heap[a].next
        /\ h3[a].prev = IF a = new_head THEN last ELSE heap[a].prev
  <2> HIDE DEF h3
  <2> QED BY <1>5, <1>6, NodeFields
<1> QED BY <1>1, <1>7, <1>8

\* A ring that shares no node with the one that changes stays as it is.
LEMMA RingUntouched ==
  ASSUME NEW heap, NEW h, NEW head, NEW chain \in Seq(Address),
         Circular(heap, head, chain),
         \A i \in DOMAIN chain : /\ h[chain[i]].next = heap[chain[i]].next
                                 /\ h[chain[i]].prev = heap[chain[i]].prev
  PROVE  Circular(h, head, chain)
BY DEF Circular

LEMMA RingAppended ==
  ASSUME NEW heap, IsHeap(heap), NEW head, NEW chain \in Seq(Address),
         Circular(heap, head, chain),
         \A i, j \in DOMAIN chain : chain[i] = chain[j] => i = j,
         NEW node \in Address, ~Holds(chain, node), NEW v
  PROVE  LET h == AppendedHeap(heap, head, node, v)
         IN  /\ IsHeap(h)
             /\ Circular(h, IF head = NULL THEN node ELSE head,
                         Append(chain, node))
             /\ \A a \in Address : a # node /\ ~Holds(chain, a)
                  => h[a].next = heap[a].next /\ h[a].prev = heap[a].prev
<1> DEFINE h == AppendedHeap(heap, head, node, v)
           longer == Append(chain, node)
           n == Len(chain)
<1>1. CASE chain = <<>>
  <2>1. h = [heap EXCEPT ![node] = Node(node, node, v)]
    BY <1>1 DEF Circular, AppendedHeap
  <2>2. DOMAIN heap = Address
    BY DEF IsHeap
  <2>3. h[node] = Node(node, node, v)
        /\ \A a \in Address \ {node} : h[a] = heap[a]
    BY <2>1, <2>2
  <2>4. h = [a \in Address |-> h[a]]
    BY <2>1, <2>2
  <2> HIDE DEF h
  <2>5. IsHeap(h)
    <3>1. ASSUME NEW a \in Address
          PROVE  h[a] = Node(h[a].prev, h[a].next, h[a].value)
      <4>1. CASE a = node
        BY <2>3, <4>1, NodeFields
      <4>2. CASE a # node
        BY <2>3, <4>2 DEF IsHeap
      <4> QED BY <4>1, <4>2
    <3> QED BY <2>4, <3>1 DEF IsHeap
  <2>6. longer = <<node>>
    BY <1>1
  <2>7. Circular(h, node, longer)
    BY <2>3, <2>6, NodeFields DEF Circular, Following, Preceding
  <2> QED BY <1>1, <2>3, <2>5, <2>7 DEF Circular, h
<1>2. CASE chain # <<>>
  <2>1. n \in Nat \ {0} /\ DOMAIN chain = 1 .. n /\ Len(chain) = n
    BY <1>2
  <2> HIDE DEF n
  <2>2. head = chain[1] /\ head \in Address /\ head # NULL
    BY <1>2, <2>1, AddressAssumption DEF Circular
  <2>3. heap[head].prev = chain[n] /\ chain[n] \in Address
    BY <2>1, <2>2 DEF Circular, Preceding
  <2>4. \A i \in 1 .. n : chain[i] # node /\ chain[i] \in Address
    BY <2>1 DEF Holds
  <2>5. /\ IsHeap(h)
        /\ h[node].next = head
        /\ h[node].prev = chain[n]
        /\ \A a \in Address \ {node} :
             /\ h[a].next = IF a = chain[n] THEN node ELSE heap[a].next
             /\ h[a].prev = IF a = head THEN node ELSE heap[a].prev
    BY <2>1, <2>2, <2>3, <2>4, AppendedNodes
  <2> HIDE DEF h
  <2>6. /\ longer \in Seq(Address) /\ Len(longer) = n + 1
        /\ DOMAIN longer = 1 .. n + 1 /\ longer[n + 1] = node
        /\ \A i \in 1 .. n : longer[i] = chain[i]
    BY <2>1
  <2> HIDE DEF longer
  <2>7. ASSUME NEW i \in 1 .. n + 1
        PROVE  /\ h[longer[i]].next = Following(longer, i)
               /\ h[longer[i]].prev = Preceding(longer, i)
    <3>1. CASE i = n + 1
      BY <2>1, <2>2, <2>5, <2>6, <3>1 DEF Following, Preceding
    <3>2. CASE i # n + 1
      <4>1. i \in 1 .. n /\ longer[i] = chain[i] /\ chain[i] \in Address \ {node}
        BY <2>1, <2>4, <2>6, <3>2
      <4>2. chain[i] = chain[n] <=> i = n
        <5>1. i \in DOMAIN chain /\ n \in DOMAIN chain
          BY <2>1, <4>1
        <5> QED BY <5>1
      <4>3. chain[i] = head <=> i = 1
        BY <2>1, <2>2, <4>1
      <4>4. heap[chain[i]].next = Following(chain, i)
            /\ heap[chain[i]].prev = Preceding(chain, i)
        BY <2>1, <4>1 DEF Circular
      <4>5. h[longer[i]].next = Following(longer, i)
        <5>1. CASE i = n
          <6>1. Following(longer, i) = node
            BY <2>1, <2>6, <5>1 DEF Following
          <6> QED BY <2>5, <4>1, <4>2, <5>1, <6>1
        <5>2. CASE i # n
          <6>1. i + 1 \in 1 .. n
            BY <2>1, <4>1, <5>2
          <6>2. Following(longer, i) = chain[i + 1] /\ Following(chain, i) = chain[i + 1]
            BY <2>1, <2>6, <4>1, <5>2, <6>1 DEF Following
          <6> QED BY <2>5, <4>1, <4>2, <4>4, <5>2, <6>2
        <5> QED BY <5>1, <5>2
      <4>6. h[longer[i]].prev = Preceding(longer, i)
        BY <2>1, <2>5, <2>6, <4>1, <4>3, <4>4 DEF Preceding
      <4> QED BY <4>5, <4>6
    <3> QED BY <3>1, <3>2
  <2>8. Circular(h, head, longer)
    BY <2>1, <2>2, <2>6, <2>7 DEF Circular
  <2>9. \A a \in Address : a # node /\ ~Holds(chain, a)
          => h[a].next = heap[a].next /\ h[a].prev = heap[a].prev
    BY <2>1, <2>2, <2>5 DEF Holds
  <2> QED BY <2>2, <2>5, <2>8, <2>9 DEF h, longer
<1> QED BY <1>1, <1>2

\* ll_append_node: the other queues stay as they are, and this one has the new
\* node at its end.
THEOREM AppendKeepsQueues ==
  ASSUME NEW ls, SoundLists(ls), NEW l \in Queue,
         NEW node \in Fresh(ls), NEW v
  PROVE  SoundLists(ll_append_node(ls, l, node, v))
<1> DEFINE after == ll_append_node(ls, l, node, v)
           heap == ls.heap
           head == ls.head
           chain == ls.chain
<1>1. node \in Address /\ \A m \in Queue : ~Holds(chain[m], node)
  BY DEF Fresh
<1>2. /\ IsHeap(heap) /\ head \in [Queue -> Address \cup {NULL}]
      /\ chain \in [Queue -> Seq(Address)] /\ Disjoint(chain)
      /\ \A m \in Queue : Circular(heap, head[m], chain[m])
  BY DEF SoundLists, Queues
<1>3. \A i, j \in DOMAIN chain[l] : chain[l][i] = chain[l][j] => i = j
  BY <1>2 DEF Disjoint
<1>4. /\ after.heap = AppendedHeap(heap, head[l], node, v)
      /\ after.head = [head EXCEPT ![l] = IF head[l] = NULL THEN node ELSE head[l]]
      /\ after.chain = [chain EXCEPT ![l] = Append(chain[l], node)]
  BY <1>2 DEF ll_append_node
<1> HIDE DEF after
<1>5. /\ IsHeap(after.heap)
      /\ Circular(after.heap, IF head[l] = NULL THEN node ELSE head[l],
                  Append(chain[l], node))
      /\ \A a \in Address : a # node /\ ~Holds(chain[l], a)
           => /\ after.heap[a].next = heap[a].next
              /\ after.heap[a].prev = heap[a].prev
  BY <1>1, <1>2, <1>3, <1>4, RingAppended
<1>6. /\ after.head \in [Queue -> Address \cup {NULL}]
      /\ after.chain \in [Queue -> Seq(Address)]
  BY <1>1, <1>2, <1>4
<1>7. Disjoint(after.chain)
  <2>1. /\ DOMAIN Append(chain[l], node) = 1 .. Len(chain[l]) + 1
        /\ DOMAIN chain[l] = 1 .. Len(chain[l]) /\ Len(chain[l]) \in Nat
        /\ Append(chain[l], node)[Len(chain[l]) + 1] = node
        /\ \A i \in 1 .. Len(chain[l]) : Append(chain[l], node)[i] = chain[l][i]
    BY <1>1, <1>2
  <2>2. ASSUME NEW m \in Queue, NEW k \in Queue,
               NEW i \in DOMAIN after.chain[m], NEW j \in DOMAIN after.chain[k],
               after.chain[m][i] = after.chain[k][j]
        PROVE  m = k /\ i = j
    BY <1>1, <1>2, <1>4, <2>1, <2>2 DEF Disjoint, Holds
  <2> QED BY <2>2 DEF Disjoint
<1>8. ASSUME NEW m \in Queue
      PROVE  Circular(after.heap, after.head[m], after.chain[m])
  <2>1. CASE m = l
    BY <1>2, <1>4, <1>5, <2>1
  <2>2. CASE m # l
    <3>1. after.head[m] = head[m] /\ after.chain[m] = chain[m]
      BY <1>2, <1>4, <2>2
    <3>2. \A i \in DOMAIN chain[m] :
            /\ chain[m][i] \in Address /\ chain[m][i] # node
            /\ ~Holds(chain[l], chain[m][i])
      BY <1>1, <1>2, <2>2 DEF Holds, Disjoint
    <3> QED BY <1>2, <1>5, <3>1, <3>2, RingUntouched
  <2> QED BY <2>1, <2>2
<1> QED BY <1>5, <1>6, <1>7, <1>8 DEF SoundLists, Queues, after

-----------------------------------------------------------------------------
LEMMA TailNodes ==
  ASSUME NEW chain \in Seq(Address), chain # <<>>
  PROVE  /\ Tail(chain) \in Seq(Address) /\ Len(chain) \in Nat \ {0}
         /\ DOMAIN chain = 1 .. Len(chain)
         /\ DOMAIN Tail(chain) = 1 .. Len(chain) - 1
         /\ Len(Tail(chain)) = Len(chain) - 1
         /\ \A i \in 1 .. Len(chain) - 1 : Tail(chain)[i] = chain[i + 1]
OBVIOUS

LEMMA RingPopped ==
  ASSUME NEW heap, IsHeap(heap), NEW head \in Address,
         NEW chain \in Seq(Address), Circular(heap, head, chain),
         \A i, j \in DOMAIN chain : chain[i] = chain[j] => i = j
  PROVE  LET h == PoppedHeap(heap, head)
         IN  /\ IsHeap(h)
             /\ Circular(h, IF Alone(heap, head) THEN NULL ELSE heap[head].next,
                         Tail(chain))
             /\ \A a \in Address : ~Holds(chain, a)
                  => h[a].next = heap[a].next /\ h[a].prev = heap[a].prev
<1> DEFINE h == PoppedHeap(heap, head)
           rest == Tail(chain)
           n == Len(chain)
<1>1. chain # <<>> /\ head = chain[1]
  BY AddressAssumption DEF Circular
<1>2. n \in Nat \ {0} /\ DOMAIN chain = 1 .. n /\ Len(chain) = n
      /\ rest \in Seq(Address) /\ DOMAIN rest = 1 .. n - 1 /\ Len(rest) = n - 1
      /\ \A i \in 1 .. n - 1 : rest[i] = chain[i + 1]
  BY <1>1, TailNodes
<1> HIDE DEF n, rest
<1>3. heap[head].prev = chain[n]
  BY <1>1, <1>2 DEF Circular, Preceding
<1>4. Alone(heap, head) <=> n = 1
  <2>1. 1 \in DOMAIN chain /\ n \in DOMAIN chain
    BY <1>2
  <2> QED BY <1>1, <1>3, <2>1 DEF Alone
<1>5. CASE n = 1
  <2>1. h = [heap EXCEPT ![head] = Node(NULL, NULL, NULL)]
    BY <1>4, <1>5 DEF PoppedHeap
  <2>2. DOMAIN heap = Address
    BY DEF IsHeap
  <2>3. h[head] = Node(NULL, NULL, NULL)
        /\ \A a \in Address \ {head} : h[a] = heap[a]
    BY <2>1, <2>2
  <2>4. h = [a \in Address |-> h[a]]
    BY <2>1, <2>2
  <2> HIDE DEF h
  <2>5. IsHeap(h)
    <3>1. ASSUME NEW a \in Address
          PROVE  h[a] = Node(h[a].prev, h[a].next, h[a].value)
      <4>1. CASE a = head
        BY <2>3, <4>1, NodeFields
      <4>2. CASE a # head
        BY <2>3, <4>2 DEF IsHeap
      <4> QED BY <4>1, <4>2
    <3> QED BY <2>4, <3>1 DEF IsHeap
  <2>6. rest = <<>>
    BY <1>2, <1>5
  <2>7. Circular(h, NULL, rest)
    BY <2>6 DEF Circular
  <2>8. \A a \in Address : ~Holds(chain, a) => h[a] = heap[a]
    BY <1>1, <1>2, <2>3 DEF Holds
  <2> QED BY <1>4, <1>5, <2>5, <2>7, <2>8 DEF h, rest
<1>6. CASE n # 1
  <2>1. heap[head].next = chain[2]
    BY <1>1, <1>2, <1>6 DEF Circular, Following
  <2>2. 1 \in DOMAIN chain /\ 2 \in DOMAIN chain /\ n \in DOMAIN chain
    BY <1>2, <1>6
  <2>3. chain[2] \in Address \ {head} /\ chain[n] \in Address \ {head}
    BY <1>1, <1>6, <2>2
  <2>4. /\ IsHeap(h)
        /\ \A a \in Address \ {head} :
             /\ h[a].next = IF a = chain[n] THEN chain[2] ELSE heap[a].next
             /\ h[a].prev = IF a = chain[2] THEN chain[n] ELSE heap[a].prev
    BY <1>3, <2>1, <2>3, PoppedNodes
  <2> HIDE DEF h
  <2>5. ASSUME NEW i \in 1 .. n - 1
        PROVE  /\ h[rest[i]].next = Following(rest, i)
               /\ h[rest[i]].prev = Preceding(rest, i)
    <3>1. i + 1 \in DOMAIN chain /\ rest[i] = chain[i + 1]
      BY <1>2
    <3>2. rest[i] \in Address \ {head}
      BY <1>1, <1>2, <2>2, <3>1
    <3>3. /\ chain[i + 1] = chain[n] <=> i = n - 1
          /\ chain[i + 1] = chain[2] <=> i = 1
      BY <1>2, <2>2, <3>1
    <3>4. heap[rest[i]].next = Following(chain, i + 1)
          /\ heap[rest[i]].prev = chain[i]
      BY <1>2, <3>1 DEF Circular, Preceding
    <3>5. h[rest[i]].next = Following(rest, i)
      <4>1. CASE i = n - 1
        <5>1. Following(rest, i) = chain[2]
          BY <1>2, <1>6, <4>1 DEF Following
        <5> QED BY <2>4, <3>1, <3>2, <3>3, <4>1, <5>1
      <4>2. CASE i # n - 1
        <5>1. i + 1 \in 1 .. n - 1
          BY <1>2, <4>2
        <5>2. Following(rest, i) = chain[i + 2] /\ Following(chain, i + 1) = chain[i + 2]
          BY <1>2, <4>2, <5>1 DEF Following
        <5> QED BY <2>4, <3>1, <3>2, <3>3, <3>4, <4>2, <5>2
      <4> QED BY <4>1, <4>2
    <3>6. h[rest[i]].prev = Preceding(rest, i)
      <4>1. CASE i = 1
        <5>1. Preceding(rest, i) = chain[n]
          BY <1>2, <1>6, <4>1 DEF Preceding
        <5> QED BY <2>4, <3>1, <3>2, <3>3, <4>1, <5>1
      <4>2. CASE i # 1
        <5>1. i - 1 \in 1 .. n - 1
          BY <1>2, <4>2
        <5>2. Preceding(rest, i) = chain[i]
          BY <1>2, <4>2, <5>1 DEF Preceding
        <5> QED BY <2>4, <3>1, <3>2, <3>3, <3>4, <4>2, <5>2
      <4> QED BY <4>1, <4>2
    <3> QED BY <3>5, <3>6
  <2>6. Circular(h, chain[2], rest)
    BY <1>2, <1>6, <2>5 DEF Circular
  <2>7. \A a \in Address : ~Holds(chain, a)
          => h[a].next = heap[a].next /\ h[a].prev = heap[a].prev
    BY <1>1, <2>2, <2>4 DEF Holds
  <2> QED BY <1>4, <1>6, <2>1, <2>4, <2>6, <2>7 DEF h, rest
<1> QED BY <1>5, <1>6

\* ll_pop_node: the other queues stay as they are, and this one loses its
\* oldest node.
THEOREM PopKeepsQueues ==
  ASSUME NEW ls, SoundLists(ls), NEW l \in Queue, NotEmpty(ls, l)
  PROVE  /\ SoundLists(ll_pop_node(ls, l))
         /\ ls.head[l] \in Fresh(ll_pop_node(ls, l))
<1> DEFINE after == ll_pop_node(ls, l)
           heap == ls.heap
           head == ls.head
           chain == ls.chain
<1>1. /\ IsHeap(heap) /\ head \in [Queue -> Address \cup {NULL}]
      /\ chain \in [Queue -> Seq(Address)] /\ Disjoint(chain)
      /\ \A m \in Queue : Circular(heap, head[m], chain[m])
  BY DEF SoundLists, Queues
<1>2. head[l] \in Address /\ chain[l] # <<>> /\ chain[l][1] = head[l]
  BY <1>1 DEF NotEmpty, Circular
<1>3. \A i, j \in DOMAIN chain[l] : chain[l][i] = chain[l][j] => i = j
  BY <1>1 DEF Disjoint
<1>4. /\ after.heap = PoppedHeap(heap, head[l])
      /\ after.head = [head EXCEPT ![l] = IF Alone(heap, head[l]) THEN NULL
                                          ELSE heap[head[l]].next]
      /\ after.chain = [chain EXCEPT ![l] = Tail(chain[l])]
  BY <1>1 DEF ll_pop_node
<1> HIDE DEF after
<1>5. /\ IsHeap(after.heap)
      /\ Circular(after.heap, IF Alone(heap, head[l]) THEN NULL ELSE heap[head[l]].next,
                  Tail(chain[l]))
      /\ \A a \in Address : ~Holds(chain[l], a)
           => /\ after.heap[a].next = heap[a].next
              /\ after.heap[a].prev = heap[a].prev
  BY <1>1, <1>2, <1>3, <1>4, RingPopped
<1>6. /\ Tail(chain[l]) \in Seq(Address) /\ Len(chain[l]) \in Nat \ {0}
      /\ DOMAIN chain[l] = 1 .. Len(chain[l])
      /\ DOMAIN Tail(chain[l]) = 1 .. Len(chain[l]) - 1
      /\ \A i \in 1 .. Len(chain[l]) - 1 : Tail(chain[l])[i] = chain[l][i + 1]
  BY <1>1, <1>2, TailNodes
<1>7. after.chain \in [Queue -> Seq(Address)]
  BY <1>1, <1>4, <1>6
<1>8. after.head \in [Queue -> Address \cup {NULL}]
  <2>1. ASSUME Circular(after.heap, after.head[l], Tail(chain[l]))
        PROVE  after.head[l] \in Address \cup {NULL}
    BY <1>6, <2>1 DEF Circular
  <2> QED BY <1>1, <1>4, <1>5, <2>1
<1>9. Disjoint(after.chain)
  <2>1. ASSUME NEW m \in Queue, NEW i \in DOMAIN after.chain[m]
        PROVE  LET k == IF m = l THEN i + 1 ELSE i
               IN  k \in DOMAIN chain[m] /\ after.chain[m][i] = chain[m][k]
    BY <1>1, <1>4, <1>6
  <2>2. ASSUME NEW m \in Queue, NEW i \in DOMAIN after.chain[m]
        PROVE  i \in Nat
    BY <1>7
  <2>3. ASSUME NEW m \in Queue, NEW k \in Queue,
               NEW i \in DOMAIN after.chain[m], NEW j \in DOMAIN after.chain[k],
               after.chain[m][i] = after.chain[k][j]
        PROVE  m = k /\ i = j
    BY <1>1, <2>1, <2>2, <2>3 DEF Disjoint
  <2> QED BY <2>3 DEF Disjoint
<1>10. ASSUME NEW m \in Queue
       PROVE  Circular(after.heap, after.head[m], after.chain[m])
  <2>1. CASE m = l
    BY <1>1, <1>4, <1>5, <2>1
  <2>2. CASE m # l
    <3>1. after.head[m] = head[m] /\ after.chain[m] = chain[m]
      BY <1>1, <1>4, <2>2
    <3>2. \A i \in DOMAIN chain[m] :
            chain[m][i] \in Address /\ ~Holds(chain[l], chain[m][i])
      BY <1>1, <2>2 DEF Holds, Disjoint
    <3> QED BY <1>1, <1>5, <3>1, <3>2, RingUntouched
  <2> QED BY <2>1, <2>2
<1>11. head[l] \in Fresh(after)
  <2>1. 1 \in DOMAIN chain[l]
    BY <1>6
  <2>2. ASSUME NEW m \in Queue, NEW i \in DOMAIN after.chain[m]
        PROVE  after.chain[m][i] # head[l]
    <3>1. CASE m = l
      <4>1. i \in 1 .. Len(chain[l]) - 1 /\ after.chain[m][i] = chain[l][i + 1]
        BY <1>1, <1>4, <1>6, <3>1
      <4>2. i + 1 \in DOMAIN chain[l] /\ i + 1 # 1
        BY <1>6, <4>1
      <4> QED BY <1>2, <1>3, <2>1, <4>1, <4>2
    <3>2. CASE m # l
      BY <1>1, <1>2, <1>4, <2>1, <3>2 DEF Disjoint
    <3> QED BY <3>1, <3>2
  <2> QED BY <1>2, <2>2 DEF Fresh, Holds
<1> QED BY <1>5, <1>7, <1>8, <1>9, <1>10, <1>11 DEF SoundLists, Queues, after

-----------------------------------------------------------------------------
(***************************************************************************)
(* The queues of Wire.                                                     *)
(***************************************************************************)

LEMMA QueueNames ==
  /\ input_cmdlist \in Queue /\ buffered_outframes \in Queue
  /\ outgoing_frames \in Queue /\ incoming_frames \in Queue
BY WireAssumption

\* An append to a node malloc returns.
LEMMA AppendFresh ==
  ASSUME NEW ls, SoundLists(ls), NEW l \in Queue, Fresh(ls) # {}, NEW v
  PROVE  SoundLists(ll_append_node(ls, l, CHOOSE a \in Fresh(ls) : TRUE, v))
<1>1. (CHOOSE a \in Fresh(ls) : TRUE) \in Fresh(ls)
  OBVIOUS
<1> QED BY <1>1, AppendKeepsQueues

\* A node that moves from one queue to another: one pop, then one append.
LEMMA PopThenAppend ==
  ASSUME NEW ls, SoundLists(ls), NEW l \in Queue, NotEmpty(ls, l),
         NEW m \in Queue, NEW v
  PROVE  LET popped == ll_pop_node(ls, l)
         IN  SoundLists(ll_append_node(popped, m, CHOOSE a \in Fresh(popped) : TRUE, v))
<1> DEFINE popped == ll_pop_node(ls, l)
<1>1. SoundLists(popped) /\ Fresh(popped) # {}
  BY PopKeepsQueues
<1> HIDE DEF popped
<1>2. SoundLists(ll_append_node(popped, m, CHOOSE a \in Fresh(popped) : TRUE, v))
  BY <1>1, AppendFresh
<1> QED BY <1>2 DEF popped

(***************************************************************************)
(* What the two functions do to the values in the queues.                  *)
(***************************************************************************)
Size(ls, l)  == Len(ls.chain[l])
At(ls, l, i) == ls.heap[ls.chain[l][i]].value

LEMMA ValueKept ==
  ASSUME NEW heap, DOMAIN heap = Address, NEW a \in Address, NEW p
  PROVE  LET g == [heap EXCEPT ![a].prev = p]
             h == [heap EXCEPT ![a].next = p]
         IN  /\ DOMAIN g = Address /\ DOMAIN h = Address
             /\ IsHeap(heap) => \A b \in Address : /\ g[b].value = heap[b].value
                                                   /\ h[b].value = heap[b].value
                                                   /\ g[b].next = heap[b].next
                                                   /\ h[b].prev = heap[b].prev
<1> DEFINE g == [heap EXCEPT ![a].prev = p]
           h == [heap EXCEPT ![a].next = p]
<1>1. DOMAIN g = Address /\ DOMAIN h = Address
  OBVIOUS
<1>2. ASSUME IsHeap(heap), NEW b \in Address
      PROVE  /\ g[b].value = heap[b].value /\ h[b].value = heap[b].value
             /\ g[b].next = heap[b].next /\ h[b].prev = heap[b].prev
  <2>1. heap[b] = Node(heap[b].prev, heap[b].next, heap[b].value)
    BY <1>2 DEF IsHeap
  <2>2. CASE b = a
    <3>1. g[b] = [heap[b] EXCEPT !.prev = p] /\ h[b] = [heap[b] EXCEPT !.next = p]
      BY <2>2
    <3>2. PICK q, n, v : heap[b] = Node(q, n, v)
      BY <2>1
    <3> HIDE DEF g, h
    <3>3. g[b] = Node(p, n, v) /\ h[b] = Node(q, p, v)
      BY <3>1, <3>2, NodeFields
    <3> QED BY <3>2, <3>3, NodeFields
  <2>3. CASE b # a
    BY <2>3
  <2> QED BY <2>2, <2>3
<1> QED BY <1>1, <1>2

LEMMA AppendedValue ==
  ASSUME NEW heap, IsHeap(heap), NEW head, head = NULL \/ head \in Address,
         head # NULL => heap[head].prev \in Address,
         NEW node \in Address, NEW v
  PROVE  LET h == AppendedHeap(heap, head, node, v)
         IN  /\ h[node].value = v
             /\ \A a \in Address \ {node} : h[a].value = heap[a].value
<1>0. DOMAIN heap = Address
  BY DEF IsHeap
<1>1. CASE head = NULL
  BY <1>0, <1>1, NodeFields DEF AppendedHeap
<1>2. CASE head # NULL
  <2> DEFINE last == heap[head].prev
             h1 == [heap EXCEPT ![head].prev = node]
             h2 == [h1 EXCEPT ![last].next = node]
             h3 == [h2 EXCEPT ![node] = Node(last, head, v)]
  <2>1. AppendedHeap(heap, head, node, v) = h3
    BY <1>2 DEF AppendedHeap
  <2>2. last \in Address /\ head \in Address
    BY <1>2
  <2>3. DOMAIN h1 = Address /\ DOMAIN h2 = Address
    BY <1>0
  <2>4. \A a \in Address : h1[a].value = heap[a].value
    <3> HIDE DEF h1
    <3> QED BY <1>0, <2>2, ValueKept DEF h1
  <2>5. \A a \in Address : h2[a].value = h1[a].value
    <3> SUFFICES ASSUME NEW a \in Address PROVE h2[a].value = h1[a].value
      OBVIOUS
    <3>1. CASE a = last
      <4>1. h2[a] = [h1[a] EXCEPT !.next = node]
        BY <2>3, <3>1
      <4>2. \E p, n, w : h1[a] = Node(p, n, w)
        <5>1. heap[a] = Node(heap[a].prev, heap[a].next, heap[a].value)
          BY DEF IsHeap
        <5>2. PICK p, n, w : heap[a] = Node(p, n, w)
          BY <5>1
        <5>3. CASE a = head
          <6>1. h1[a] = [heap[a] EXCEPT !.prev = node]
            BY <1>0, <5>3
          <6> HIDE DEF h1
          <6> QED BY <5>2, <6>1, NodeFields
        <5>4. CASE a # head
          <6>1. h1[a] = heap[a]
            BY <1>0, <5>4
          <6> QED BY <5>2, <6>1
        <5> QED BY <5>3, <5>4
      <4> HIDE DEF h1, h2
      <4> QED BY <4>1, <4>2, NodeFields
    <3>2. CASE a # last
      BY <2>3, <3>2
    <3> QED BY <3>1, <3>2
  <2>6. /\ h3[node] = Node(last, head, v)
        /\ \A a \in Address \ {node} : h3[a] = h2[a]
    BY <2>3
  <2> HIDE DEF h1, h2, h3
  <2> QED BY <2>1, <2>4, <2>5, <2>6, NodeFields
<1> QED BY <1>1, <1>2

LEMMA PoppedValue ==
  ASSUME NEW heap, IsHeap(heap), NEW head \in Address,
         heap[head].prev \in Address, heap[head].next \in Address
  PROVE  \A a \in Address \ {head} : PoppedHeap(heap, head)[a].value = heap[a].value
<1>0. DOMAIN heap = Address
  BY DEF IsHeap
<1>1. CASE Alone(heap, head)
  BY <1>0, <1>1 DEF PoppedHeap
<1>2. CASE ~Alone(heap, head)
  <2> DEFINE last == heap[head].prev
             next == heap[head].next
             h1 == [heap EXCEPT ![last].next = next]
             h2 == [h1 EXCEPT ![next].prev = last]
             h3 == [h2 EXCEPT ![head] = Node(NULL, NULL, NULL)]
  <2>1. PoppedHeap(heap, head) = h3
    BY <1>2 DEF PoppedHeap
  <2>2. DOMAIN h1 = Address /\ DOMAIN h2 = Address
    BY <1>0
  <2>3. ASSUME NEW a \in Address
        PROVE  \E p, n : h1[a] = Node(p, n, heap[a].value)
    <3>0. heap[a] = Node(heap[a].prev, heap[a].next, heap[a].value)
      BY DEF IsHeap
    <3>1. PICK p, n, v : heap[a] = Node(p, n, v) /\ v = heap[a].value
      BY <3>0
    <3>2. CASE a = last
      <4>1. h1[a] = [heap[a] EXCEPT !.next = next]
        BY <1>0, <3>2
      <4> HIDE DEF h1, next
      <4>2. h1[a] = Node(p, next, v)
        BY <3>1, <4>1, NodeFields
      <4> QED BY <3>1, <4>2
    <3>3. CASE a # last
      <4>1. h1[a] = heap[a]
        BY <1>0, <3>3
      <4> QED BY <3>1, <4>1
    <3> QED BY <3>2, <3>3
  <2>4. ASSUME NEW a \in Address
        PROVE  h2[a].value = heap[a].value
    <3>1. PICK p, n : h1[a] = Node(p, n, heap[a].value)
      BY <2>3
    <3>2. CASE a = next
      <4>1. h2[a] = [h1[a] EXCEPT !.prev = last]
        BY <2>2, <3>2
      <4> HIDE DEF h1, h2
      <4> QED BY <3>1, <4>1, NodeFields
    <3>3. CASE a # next
      <4>1. h2[a] = h1[a]
        BY <2>2, <3>3
      <4> HIDE DEF h1, h2
      <4> QED BY <3>1, <4>1, NodeFields
    <3> QED BY <3>2, <3>3
  <2>5. \A a \in Address \ {head} : h3[a] = h2[a]
    BY <2>2
  <2> HIDE DEF h1, h2, h3
  <2> QED BY <2>1, <2>4, <2>5
<1> QED BY <1>1, <1>2

\* The head of a queue and its neighbours.
LEMMA HeadFacts ==
  ASSUME NEW ls, SoundLists(ls), NEW l \in Queue
  PROVE  /\ ls.head[l] = NULL \/ ls.head[l] \in Address
         /\ NotEmpty(ls, l) <=> ls.chain[l] # <<>>
         /\ NotEmpty(ls, l) => /\ ls.head[l] \in Address
                               /\ ls.head[l] = ls.chain[l][1]
                               /\ ls.heap[ls.head[l]].prev \in Address
                               /\ ls.heap[ls.head[l]].next \in Address
<1> DEFINE chain == ls.chain[l]
           n == Len(chain)
<1>1. /\ ls.head[l] \in Address \cup {NULL} /\ chain \in Seq(Address)
      /\ Circular(ls.heap, ls.head[l], chain)
  BY DEF SoundLists, Queues
<1>2. NotEmpty(ls, l) <=> chain # <<>>
  <2>1. chain # <<>> => chain[1] \in Address
    <3> HIDE DEF chain
    <3> QED BY <1>1
  <2> QED BY <1>1, <2>1, AddressAssumption DEF NotEmpty, Circular
<1>3. ASSUME chain # <<>>
      PROVE  /\ ls.head[l] \in Address /\ ls.head[l] = chain[1]
             /\ ls.heap[ls.head[l]].prev \in Address
             /\ ls.heap[ls.head[l]].next \in Address
  <2> HIDE DEF chain
  <2>1. n \in Nat \ {0} /\ DOMAIN chain = 1 .. n /\ \A i \in 1 .. n : chain[i] \in Address
    BY <1>1, <1>3
  <2>2. ls.head[l] = chain[1] /\ 1 \in 1 .. n /\ n \in 1 .. n /\ Len(chain) = n
    BY <1>1, <1>3, <2>1 DEF Circular
  <2>3. /\ ls.heap[chain[1]].next = Following(chain, 1)
        /\ ls.heap[chain[1]].prev = Preceding(chain, 1)
    BY <1>1, <2>1, <2>2 DEF Circular
  <2> HIDE DEF n
  <2>4. Preceding(chain, 1) \in Address
    BY <2>1, <2>2 DEF Preceding
  <2>5. Following(chain, 1) \in Address
    <3>1. CASE n = 1
      BY <2>1, <2>2, <3>1 DEF Following
    <3>2. CASE n # 1
      BY <2>1, <2>2, <3>2 DEF Following
    <3> QED BY <3>1, <3>2
  <2> QED BY <2>1, <2>2, <2>3, <2>4, <2>5
<1> QED BY <1>1, <1>2, <1>3

LEMMA AppendedQueues ==
  ASSUME NEW ls, SoundLists(ls), NEW l \in Queue, Fresh(ls) # {}, NEW v
  PROVE  LET node  == CHOOSE a \in Fresh(ls) : TRUE
             after == ll_append_node(ls, l, node, v)
         IN  /\ SoundLists(after)
             /\ node \in Address /\ node \in Fresh(ls)
             /\ \A m \in Queue : Size(ls, m) \in Nat
             /\ Size(after, l) = Size(ls, l) + 1
             /\ At(after, l, Size(ls, l) + 1) = v
             /\ after.chain[l][Size(ls, l) + 1] = node
             /\ \A m \in Queue : \A i \in 1 .. Size(ls, m) :
                  /\ At(after, m, i) = At(ls, m, i)
                  /\ after.chain[m][i] = ls.chain[m][i]
                  /\ after.chain[m][i] # node
             /\ \A m \in Queue \ {l} : Size(after, m) = Size(ls, m)
<1> DEFINE node  == CHOOSE a \in Fresh(ls) : TRUE
           after == ll_append_node(ls, l, node, v)
           chain == ls.chain
<1>1. SoundLists(after)
  BY AppendFresh
<1>2. node \in Fresh(ls)
  OBVIOUS
<1> HIDE DEF node
<1>3. node \in Address /\ \A m \in Queue : \A i \in DOMAIN chain[m] : chain[m][i] # node
  BY <1>2 DEF Fresh, Holds
<1>4. /\ IsHeap(ls.heap) /\ ls.chain \in [Queue -> Seq(Address)]
  BY DEF SoundLists
<1>5. /\ after.heap = AppendedHeap(ls.heap, ls.head[l], node, v)
      /\ after.chain = [chain EXCEPT ![l] = Append(chain[l], node)]
  BY <1>4 DEF ll_append_node
<1> HIDE DEF after
<1>6. /\ after.heap[node].value = v
      /\ \A a \in Address \ {node} : after.heap[a].value = ls.heap[a].value
  <2>1. ls.head[l] # NULL => ls.heap[ls.head[l]].prev \in Address
    BY HeadFacts DEF NotEmpty
  <2>2. ls.head[l] = NULL \/ ls.head[l] \in Address
    BY HeadFacts
  <2> DEFINE h == AppendedHeap(ls.heap, ls.head[l], node, v)
  <2>3. IsHeap(ls.heap) /\ node \in Address
    BY <1>3, <1>4
  <2>4. /\ h[node].value = v
        /\ \A a \in Address \ {node} : h[a].value = ls.heap[a].value
    BY <2>1, <2>2, <2>3, AppendedValue
  <2> HIDE DEF h
  <2>5. after.heap = h
    BY <1>5 DEF h
  <2> QED BY <2>4, <2>5
<1>7. \A m \in Queue : /\ Len(chain[m]) \in Nat
                       /\ DOMAIN chain[m] = 1 .. Len(chain[m])
                       /\ \A i \in 1 .. Len(chain[m]) : chain[m][i] \in Address
  BY <1>4
<1>8. \A m \in Queue \ {l} : after.chain[m] = chain[m]
  BY <1>4, <1>5
<1>9. /\ after.chain[l] = Append(chain[l], node)
      /\ Len(after.chain[l]) = Len(chain[l]) + 1
      /\ after.chain[l][Len(chain[l]) + 1] = node
      /\ \A i \in 1 .. Len(chain[l]) : after.chain[l][i] = chain[l][i]
  <2>1. after.chain[l] = Append(chain[l], node)
    BY <1>4, <1>5
  <2>2. chain[l] \in Seq(Address)
    BY <1>4
  <2> QED BY <1>3, <2>1, <2>2
<1>10. ASSUME NEW m \in Queue, NEW i \in 1 .. Len(chain[m])
       PROVE  /\ after.heap[after.chain[m][i]].value = ls.heap[chain[m][i]].value
              /\ after.chain[m][i] = chain[m][i] /\ after.chain[m][i] # node
  <2>1. after.chain[m][i] = chain[m][i]
    BY <1>8, <1>9
  <2>2. chain[m][i] \in Address \ {node}
    BY <1>3, <1>7
  <2> QED BY <1>6, <2>1, <2>2
<1> QED BY <1>1, <1>2, <1>3, <1>6, <1>7, <1>8, <1>9, <1>10 DEF Size, At, node, after

LEMMA PoppedQueues ==
  ASSUME NEW ls, SoundLists(ls), NEW l \in Queue, NotEmpty(ls, l)
  PROVE  LET after == ll_pop_node(ls, l)
         IN  /\ SoundLists(after) /\ Fresh(after) # {}
             /\ \A m \in Queue : Size(ls, m) \in Nat
             /\ Size(ls, l) >= 1 /\ Size(after, l) = Size(ls, l) - 1
             /\ ll_peek_node(ls, l) = At(ls, l, 1)
             /\ ls.head[l] = ls.chain[l][1]
             /\ \A i \in 1 .. Size(ls, l) - 1 :
                  /\ At(after, l, i) = At(ls, l, i + 1)
                  /\ after.chain[l][i] = ls.chain[l][i + 1]
                  /\ after.chain[l][i] # ls.chain[l][1]
             /\ \A m \in Queue \ {l} :
                  /\ Size(after, m) = Size(ls, m)
                  /\ \A i \in 1 .. Size(ls, m) : /\ At(after, m, i) = At(ls, m, i)
                                                /\ after.chain[m][i] = ls.chain[m][i]
<1> DEFINE after == ll_pop_node(ls, l)
           chain == ls.chain
           head  == ls.head[l]
<1>1. SoundLists(after) /\ Fresh(after) # {}
  BY PopKeepsQueues
<1>2. /\ IsHeap(ls.heap) /\ chain \in [Queue -> Seq(Address)] /\ Disjoint(chain)
  BY DEF SoundLists, Queues
<1>3. /\ after.heap = PoppedHeap(ls.heap, head)
      /\ after.chain = [chain EXCEPT ![l] = Tail(chain[l])]
  BY <1>2 DEF ll_pop_node
<1> HIDE DEF after
<1>4. /\ head \in Address /\ head = chain[l][1] /\ chain[l] # <<>>
      /\ ls.heap[head].prev \in Address /\ ls.heap[head].next \in Address
  BY HeadFacts
<1>5. \A a \in Address \ {head} : after.heap[a].value = ls.heap[a].value
  BY <1>2, <1>3, <1>4, PoppedValue
<1>6. \A m \in Queue : /\ Len(chain[m]) \in Nat
                       /\ DOMAIN chain[m] = 1 .. Len(chain[m])
                       /\ \A i \in 1 .. Len(chain[m]) : chain[m][i] \in Address
  BY <1>2
<1>7. \A m \in Queue \ {l} : after.chain[m] = chain[m]
  BY <1>2, <1>3
<1>8. /\ Len(chain[l]) >= 1
      /\ Len(after.chain[l]) = Len(chain[l]) - 1
      /\ \A i \in 1 .. Len(chain[l]) - 1 : after.chain[l][i] = chain[l][i + 1]
  <2>1. after.chain[l] = Tail(chain[l]) /\ chain[l] \in Seq(Address)
    BY <1>2, <1>3
  <2> QED BY <1>4, <2>1, TailNodes
<1>9. ASSUME NEW m \in Queue, NEW i \in 1 .. Len(chain[m]), m # l \/ i # 1
      PROVE  chain[m][i] \in Address \ {head}
  <2>1. 1 \in DOMAIN chain[l] /\ i \in DOMAIN chain[m]
    BY <1>6, <1>8
  <2> QED BY <1>2, <1>4, <1>6, <1>9, <2>1 DEF Disjoint
<1>10. ASSUME NEW i \in 1 .. Len(chain[l]) - 1
       PROVE  /\ after.heap[after.chain[l][i]].value = ls.heap[chain[l][i + 1]].value
              /\ after.chain[l][i] = chain[l][i + 1]
              /\ after.chain[l][i] # chain[l][1]
  <2>1. i + 1 \in 1 .. Len(chain[l]) /\ i + 1 # 1
    BY <1>6
  <2>2. chain[l][i + 1] \in Address \ {head}
    BY <1>9, <2>1
  <2> QED BY <1>4, <1>5, <1>8, <2>2
<1>11. ASSUME NEW m \in Queue \ {l}, NEW i \in 1 .. Len(chain[m])
       PROVE  /\ after.heap[after.chain[m][i]].value = ls.heap[chain[m][i]].value
              /\ after.chain[m][i] = chain[m][i]
  <2>1. chain[m][i] \in Address \ {head}
    BY <1>9
  <2> QED BY <1>5, <1>7, <2>1
<1> QED
  BY <1>1, <1>4, <1>6, <1>7, <1>8, <1>10, <1>11 DEF Size, At, ll_peek_node, after

-----------------------------------------------------------------------------
(***************************************************************************)
(* The frames a message is cut into.                                       *)
(***************************************************************************)
LEMMA ProductGrows ==
  ASSUME NEW p \in Nat, NEW j \in Int, NEW k \in Int, j <= k
  PROVE  j * p <= k * p
<1>1. (k - j) * p >= 0
  <2>1. k - j \in Nat
    OBVIOUS
  <2> QED BY <2>1
<1>2. (k - j) * p = k * p - j * p
  OBVIOUS
<1> QED BY <1>1, <1>2

LEMMA DivisionFacts ==
  ASSUME NEW m \in Nat, NEW p \in Nat \ {0}
  PROVE  /\ m \div p \in Nat /\ m % p \in 0 .. p - 1
         /\ m = p * (m \div p) + (m % p)
OBVIOUS

\* No value wraps in the fields of the frames of a message that fits 16 bits.
LEMMA NoWrap ==
  /\ \A n \in 0 .. USHORT_MAX : uint16(n) = n
  /\ \A n \in 0 .. 255 : n % 256 = n
BY FragmentAssumption DEF uint16

\* handle_input_cmds cuts a message of up to USHORT_MAX bytes, its NUL included,
\* into frames that follow one another without gap or overlap, none of them
\* empty or longer than the payload: where a frame starts, what it holds and
\* what it says remains add up to the message, and only the last frame says
\* that nothing remains.
THEOREM FragmentsCover ==
  ASSUME NEW msg_length \in 1 .. USHORT_MAX,
         NEW i \in 0 .. num_frames(msg_length) - 1
  PROVE  /\ starting_index(i) = i * FRAME_PAYLOAD_SIZE
         /\ numbytes(msg_length, i) \in 1 .. FRAME_PAYLOAD_SIZE
         /\ starting_index(i) + numbytes(msg_length, i)
              + remaining_msg_bytes(msg_length, i) = msg_length
         /\ remaining_msg_bytes(msg_length, i) = 0
              <=> i = num_frames(msg_length) - 1
         /\ i + 1 < num_frames(msg_length) =>
              starting_index(i + 1) = starting_index(i) + numbytes(msg_length, i)
<1> DEFINE P == FRAME_PAYLOAD_SIZE
           N == num_frames(msg_length)
           start == i * P
           rest == msg_length - (i + 1) * P
<1>1. P \in 1 .. 255 /\ USHORT_MAX \in Nat /\ msg_length \in Nat \ {0}
      /\ msg_length <= USHORT_MAX
  BY FragmentAssumption
<1>2. N \in Nat /\ msg_length <= P * N /\ P * N < msg_length + P
  <2>1. msg_length + P - 1 \in Nat /\ P \in Nat \ {0}
    BY <1>1
  <2> HIDE DEF P
  <2>2. (msg_length + P - 1) \div P \in Nat
        /\ (msg_length + P - 1) % P \in 0 .. P - 1
        /\ msg_length + P - 1
             = P * ((msg_length + P - 1) \div P) + ((msg_length + P - 1) % P)
    BY <2>1, DivisionFacts
  <2>3. N = (msg_length + P - 1) \div P
    BY DEF num_frames, P
  <2> HIDE DEF N
  <2> QED BY <1>1, <2>1, <2>2, <2>3
<1>3. i \in Nat /\ i <= N - 1
  BY <1>2
<1> HIDE DEF N
<1>4. start \in Nat /\ (i + 1) * P = start + P /\ rest = msg_length - start - P
  <2> HIDE DEF P
  <2>1. i * P \in Nat /\ (i + 1) * P = i * P + P
    BY <1>1, <1>3
  <2> QED BY <1>1, <2>1
<1>5. start <= P * N - P
  <2> HIDE DEF P
  <2>1. i * P <= (N - 1) * P
    BY <1>1, <1>2, <1>3, ProductGrows
  <2>2. (N - 1) * P = P * N - P
    BY <1>1, <1>2
  <2> QED BY <2>1, <2>2
<1>6. starting_index(i) = start
  <2>1. start \in 0 .. USHORT_MAX
    <3> HIDE DEF P, start
    <3>1. P * N \in Nat
      BY <1>1, <1>2
    <3> QED BY <1>1, <1>2, <1>4, <1>5, <3>1
  <2> QED BY <2>1, NoWrap DEF starting_index
<1>7. P * N \in Int
  <2> HIDE DEF P
  <2> QED BY <1>1, <1>2
<1>8. CASE i = N - 1
  <2>1. start = P * N - P
    <3> HIDE DEF P
    <3> QED BY <1>1, <1>2, <1>8
  <2> HIDE DEF start
  <2>2. rest <= 0
    <3> HIDE DEF rest, P
    <3> QED BY <1>1, <1>2, <1>4, <1>7, <2>1
  <2>3. remaining_msg_bytes(msg_length, i) = 0
    BY <1>1, <2>2, NoWrap DEF remaining_msg_bytes
  <2>4. msg_length - start \in 1 .. P
    <3> HIDE DEF P
    <3> QED BY <1>1, <1>2, <1>4, <1>7, <2>1
  <2>5. numbytes(msg_length, i) = msg_length - start
    BY <1>1, <2>3, <2>4, NoWrap DEF numbytes, start
  <2> QED
    BY <1>1, <1>2, <1>4, <1>6, <1>8, <2>3, <2>4, <2>5 DEF N
<1>9. CASE i # N - 1
  <2>1. (i + 1) * P <= P * N - P
    <3> HIDE DEF P
    <3>1. (i + 1) * P <= (N - 1) * P
      BY <1>1, <1>2, <1>3, <1>9, ProductGrows
    <3>2. (N - 1) * P = P * N - P
      BY <1>1, <1>2
    <3> QED BY <3>1, <3>2
  <2> HIDE DEF start
  <2>2. rest \in 1 .. USHORT_MAX
    <3> HIDE DEF P, rest
    <3> QED BY <1>1, <1>2, <1>4, <1>7, <2>1
  <2>3. remaining_msg_bytes(msg_length, i) = rest
    BY <1>1, <2>2, NoWrap DEF remaining_msg_bytes
  <2>4. numbytes(msg_length, i) = P
    BY <2>2, <2>3 DEF numbytes
  <2>5. starting_index(i + 1) = start + P
    <3>1. start + P \in 0 .. USHORT_MAX
      <4> HIDE DEF P
      <4> QED BY <1>1, <1>2, <1>4, <1>7, <2>1
    <3>2. starting_index(i + 1) = uint16(start + P)
      BY <1>4 DEF starting_index
    <3> QED BY <3>1, <3>2, NoWrap
  <2> QED
    BY <1>1, <1>2, <1>4, <1>6, <1>9, <2>2, <2>3, <2>4, <2>5 DEF N
<1> QED BY <1>8, <1>9
=============================================================================
