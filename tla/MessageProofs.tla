--------------------------- MODULE MessageProofs ----------------------------
(***************************************************************************)
(* The codec and the sealing, for all keys, messages and packets: what is  *)
(* built parses as what it was built from, what is sealed opens and what   *)
(* is changed does not, and a transport packet arrives as it was sent.     *)
(* MCPrimitives checks the same properties of small ones.                  *)
(***************************************************************************)
EXTENDS MessageCalls, SequenceTheorems, TLAPS

-----------------------------------------------------------------------------
(* Sequences cut and joined *)

\* A sequence put before another is cut off again, from either side.
LEMMA CutConcat ==
  ASSUME NEW S, NEW s \in Seq(S), NEW t \in Seq(S)
  PROVE  /\ SubSeq(s \o t, 1, Len(s)) = s
         /\ SubSeq(s \o t, Len(s) + 1, Len(s) + Len(t)) = t
         /\ s \o t \in Seq(S) /\ Len(s \o t) = Len(s) + Len(t)
<1> DEFINE u == s \o t
<1>1. /\ u \in Seq(S) /\ Len(u) = Len(s) + Len(t) /\ Len(s) \in Nat /\ Len(t) \in Nat
      /\ \A i \in 1 .. Len(s) + Len(t) : u[i] = IF i <= Len(s) THEN s[i] ELSE t[i - Len(s)]
  BY ConcatProperties, LenProperties
<1> HIDE DEF u
<1>2. SubSeq(u, 1, Len(s)) = s
  <2>1. \A i \in 1 .. Len(s) : u[i] \in S
    BY <1>1, ElementOfSeq
  <2> DEFINE v == SubSeq(u, 1, Len(s))
  <2>2. /\ v \in Seq(S) /\ Len(v) = Len(s)
        /\ \A i \in 1 .. Len(s) : v[i] = u[i]
    BY <1>1, <2>1, SubSeqProperties
  <2> HIDE DEF v
  <2>3. \A i \in 1 .. Len(v) : v[i] = s[i]
    BY <1>1, <2>2
  <2>4. v = s
    BY <2>2, <2>3, SeqEqual
  <2> QED BY <2>4 DEF v
<1>3. SubSeq(u, Len(s) + 1, Len(s) + Len(t)) = t
  <2> DEFINE m == Len(s) + 1
             n == Len(s) + Len(t)
             v == SubSeq(u, m, n)
  <2>1. \A i \in m .. n : u[i] \in S
    BY <1>1, ElementOfSeq
  <2>2. m \in Int /\ n \in Int /\ n - m + 1 = Len(t) /\ (m <= n \/ Len(t) = 0)
    BY <1>1
  <2>3. /\ v \in Seq(S) /\ Len(v) = IF m <= n THEN n - m + 1 ELSE 0
        /\ \A i \in 1 .. n - m + 1 : v[i] = u[m + i - 1]
    <3> HIDE DEF m, n
    <3> QED BY <2>1, <2>2, SubSeqProperties
  <2>4. Len(v) = Len(t)
    BY <2>2, <2>3, <1>1
  <2> HIDE DEF v
  <2>5. ASSUME NEW i \in 1 .. Len(v) PROVE v[i] = t[i]
    <3>1. v[i] = u[m + i - 1] /\ m + i - 1 = Len(s) + i
      BY <2>2, <2>3, <2>4, <1>1
    <3>2. /\ Len(s) + i \in 1 .. Len(s) + Len(t) /\ ~ (Len(s) + i <= Len(s))
          /\ Len(s) + i - Len(s) = i
      BY <2>4, <1>1
    <3>3. u[Len(s) + i] = t[i]
      BY <3>2, <1>1
    <3> QED BY <3>1, <3>3
  <2>6. v = t
    BY <2>3, <2>4, <2>5, SeqEqual
  <2> QED BY <2>6 DEF v
<1> QED BY <1>1, <1>2, <1>3 DEF u

\* A sequence over a set is one over a larger set.
LEMMA Wider ==
  ASSUME NEW S, NEW T, S \subseteq T, NEW s \in Seq(S)
  PROVE  s \in Seq(T)
<1>1. Len(s) \in Nat /\ s \in [1 .. Len(s) -> S]
  BY LenProperties
<1>2. s \in [1 .. Len(s) -> T]
  BY <1>1
<1> QED BY <1>1, <1>2, SeqDef

\* A function on an initial segment is a sequence.
LEMMA AsSeq ==
  ASSUME NEW S, NEW n \in Nat, NEW f \in [1 .. n -> S]
  PROVE  f \in Seq(S) /\ Len(f) = n
  BY SeqDef

\* A part of a sequence.
LEMMA Part ==
  ASSUME NEW S, NEW s \in Seq(S), NEW a \in Nat \ {0}, NEW b \in Nat, a <= b + 1, b <= Len(s)
  PROVE  /\ SubSeq(s, a, b) \in Seq(S) /\ Len(SubSeq(s, a, b)) = b - a + 1
         /\ \A i \in 1 .. b - a + 1 : SubSeq(s, a, b)[i] = s[a + i - 1]
<1>1. \A i \in a .. b : s[i] \in S
  BY LenProperties, ElementOfSeq
<1>2. /\ SubSeq(s, a, b) \in Seq(S)
      /\ Len(SubSeq(s, a, b)) = IF a <= b THEN b - a + 1 ELSE 0
      /\ \A i \in 1 .. b - a + 1 : SubSeq(s, a, b)[i] = s[a + i - 1]
  BY <1>1, SubSeqProperties
<1> QED BY <1>2

-----------------------------------------------------------------------------
(* Buffers in parts *)

\* Joining three sequences, in either order.
Associates(s, t, u) == (s \o t) \o u = s \o (t \o u)

\* The order does not matter.
LEMMA Associated ==
  ASSUME NEW S, NEW s \in Seq(S), NEW t \in Seq(S), NEW u \in Seq(S)
  PROVE  Associates(s, t, u)
BY ConcatAssociative DEF Associates

\* Four values are a sequence of four.
LEMMA FourOf ==
  ASSUME NEW S, NEW a \in S, NEW b \in S, NEW c \in S, NEW d \in S
  PROVE  <<a, b, c, d>> \in Seq(S) /\ Len(<<a, b, c, d>>) = 4
OBVIOUS

\* A part of the first of two sequences is a part of both together.
LEMMA FirstPart ==
  ASSUME NEW S, NEW s \in Seq(S), NEW t \in Seq(S), NEW a \in Nat \ {0}, NEW b \in Nat,
         a <= b + 1, b <= Len(s)
  PROVE  SubSeq(s \o t, a, b) = SubSeq(s, a, b)
<1> DEFINE d == s \o t
           u == SubSeq(d, a, b)
           v == SubSeq(s, a, b)
<1>1. Len(s) \in Nat /\ Len(t) \in Nat
  BY LenProperties
<1>2. /\ d \in Seq(S) /\ Len(d) = Len(s) + Len(t)
      /\ \A i \in 1 .. Len(s) + Len(t) : d[i] = IF i <= Len(s) THEN s[i] ELSE t[i - Len(s)]
  BY ConcatProperties
<1> HIDE DEF d
<1>3. b <= Len(d)
  BY <1>1, <1>2
<1>4. /\ u \in Seq(S) /\ Len(u) = b - a + 1 /\ \A i \in 1 .. b - a + 1 : u[i] = d[a + i - 1]
  BY <1>2, <1>3, Part
<1>5. /\ v \in Seq(S) /\ Len(v) = b - a + 1 /\ \A i \in 1 .. b - a + 1 : v[i] = s[a + i - 1]
  BY Part
<1> HIDE DEF u, v
<1>6. ASSUME NEW i \in 1 .. Len(u) PROVE u[i] = v[i]
  <2> DEFINE j == a + i - 1
  <2>1. i \in 1 .. b - a + 1 /\ j \in 1 .. Len(s) + Len(t) /\ j <= Len(s)
    BY <1>1, <1>4
  <2>2. u[i] = d[j] /\ v[i] = s[j]
    BY <1>4, <1>5, <2>1
  <2> HIDE DEF j
  <2> QED BY <1>2, <2>1, <2>2
<1>7. u = v
  BY <1>4, <1>5, <1>6, SeqEqual
<1> QED BY <1>7 DEF u, v, d

\* The second of three sequences put together.
LEMMA MiddlePart ==
  ASSUME NEW S, NEW s \in Seq(S), NEW t \in Seq(S), NEW u \in Seq(S)
  PROVE  SubSeq((s \o t) \o u, Len(s) + 1, Len(s) + Len(t)) = t
<1>1. /\ s \o t \in Seq(S) /\ Len(s \o t) = Len(s) + Len(t)
      /\ SubSeq(s \o t, Len(s) + 1, Len(s) + Len(t)) = t
  BY CutConcat
<1> DEFINE c == s \o t
           k == Len(s) + 1
           l == Len(s) + Len(t)
<1>2. k \in Nat \ {0} /\ l \in Nat /\ k <= l + 1 /\ l <= Len(c)
  BY <1>1, LenProperties
<1> HIDE DEF c, k, l
<1>3. SubSeq(c \o u, k, l) = SubSeq(c, k, l)
  BY <1>1, <1>2, FirstPart DEF c
<1> QED BY <1>1, <1>3 DEF c, k, l

\* Four sequences put together, and the parts at their places.
Joined4(S, d, s1, s2, s3, s4) ==
  /\ d \in Seq(S) /\ Len(d) = Len(s1) + Len(s2) + Len(s3) + Len(s4)
  /\ take(d, 0, Len(s1)) = s1
  /\ take(d, Len(s1), Len(s2)) = s2
  /\ take(d, Len(s1) + Len(s2), Len(s3)) = s3
  /\ take(d, Len(s1) + Len(s2) + Len(s3), Len(s4)) = s4

\* Four sequences can be taken apart again.
LEMMA FourParts ==
  ASSUME NEW S, NEW s1 \in Seq(S), NEW s2 \in Seq(S), NEW s3 \in Seq(S), NEW s4 \in Seq(S)
  PROVE  Joined4(S, s1 \o s2 \o s3 \o s4, s1, s2, s3, s4)
<1> DEFINE n1 == Len(s1)
           n2 == Len(s2)
           n3 == Len(s3)
           n4 == Len(s4)
           p2 == s1 \o s2
           p3 == p2 \o s3
           d == p3 \o s4
<1>0. n1 \in Nat /\ n2 \in Nat /\ n3 \in Nat /\ n4 \in Nat
  BY LenProperties
<1>1. p2 \in Seq(S) /\ Len(p2) = n1 + n2
  BY CutConcat
<1>2. SubSeq(p3, n1 + 1, n1 + n2) = s2
  BY MiddlePart
<1>3. SubSeq(p2, 1, n1) = s1
  BY CutConcat
<1> HIDE DEF p2
<1>4. p3 \in Seq(S) /\ Len(p3) = Len(p2) + n3
  BY <1>1, CutConcat, Zenon
<1>5. SubSeq(d, n1 + n2 + 1, n1 + n2 + n3) = s3
  <2> DEFINE a == n1 + n2
  <2>1. a \in Nat /\ Len(p2) = a
    BY <1>0, <1>1
  <2> HIDE DEF a
  <2>2. p2 \in Seq(S)
    BY <1>1
  <2>3. SubSeq((p2 \o s3) \o s4, Len(p2) + 1, Len(p2) + Len(s3)) = s3
    BY <2>2, MiddlePart
  <2> QED BY <2>1, <2>3 DEF a
<1>6. SubSeq(p3, 1, n1) = s1
  <2>1. 1 \in Nat \ {0} /\ 1 <= n1 + 1 /\ n1 <= Len(p2)
    BY <1>0, <1>1
  <2>2. SubSeq(p2 \o s3, 1, n1) = SubSeq(p2, 1, n1)
    BY <1>0, <1>1, <2>1, FirstPart
  <2> QED BY <1>3, <2>2, Zenon
<1> HIDE DEF p3
<1> DEFINE m == n1 + n2 + n3
<1>7. Len(p3) = m /\ m \in Nat
  BY <1>0, <1>1, <1>4
<1>8. d \in Seq(S) /\ Len(d) = m + n4 /\ SubSeq(d, m + 1, m + n4) = s4
  <2>1. d \in Seq(S) /\ Len(d) = Len(p3) + n4 /\ SubSeq(d, Len(p3) + 1, Len(p3) + n4) = s4
    <3>1. p3 \in Seq(S)
      BY <1>4
    <3> QED BY <3>1, CutConcat
  <2> QED BY <1>7, <2>1
<1>9. SubSeq(d, 1, n1) = s1
  <2>1. 1 \in Nat \ {0} /\ 1 <= n1 + 1 /\ n1 <= Len(p3)
    BY <1>0, <1>7
  <2>2. SubSeq(p3 \o s4, 1, n1) = SubSeq(p3, 1, n1)
    BY <1>0, <1>4, <2>1, FirstPart
  <2> QED BY <1>6, <2>2, Zenon
<1>10. SubSeq(d, n1 + 1, n1 + n2) = s2
  <2> DEFINE a == n1 + 1
             b == n1 + n2
  <2>1. a \in Nat \ {0} /\ b \in Nat /\ a <= b + 1 /\ b <= Len(p3)
    BY <1>0, <1>7
  <2> HIDE DEF a, b
  <2>2. SubSeq(p3 \o s4, a, b) = SubSeq(p3, a, b)
    BY <1>4, <2>1, FirstPart
  <2> QED BY <1>2, <2>2, Zenon DEF a, b, p3
<1>11. 0 + 1 = 1 /\ 0 + n1 = n1 /\ n1 + n2 + n3 + n4 = m + n4
  BY <1>0
<1>12. take(d, 0, n1) = s1
  BY <1>9, <1>11, Zenon DEF take
<1> QED BY <1>5, <1>8, <1>10, <1>12 DEF Joined4, take, p2, p3

-----------------------------------------------------------------------------
(* Numbers on the wire *)

\* The lowest byte of a number, and the others.
LEMMA LowByte ==
  ASSUME NEW x \in Nat
  PROVE  /\ x \div 256 \in Nat /\ x % 256 \in 0 .. 255 /\ x = 256 * (x \div 256) + (x % 256)
         /\ x \div 65536 = (x \div 256) \div 256
         /\ x \div 16777216 = ((x \div 256) \div 256) \div 256
  BY Z3

\* An index is read as it was written.
LEMMA IndexSurvives ==
  ASSUME NEW x \in u32
  PROVE  /\ le_bytes4(x) \in Seq(u8) /\ Len(le_bytes4(x)) = 4
         /\ le_u32(le_bytes4(x)) = x
<1> DEFINE a == x \div 256
           b == a \div 256
           c == b \div 256
           xm == x % 256
           am == a % 256
           bm == b % 256
<1>0. x \in Nat /\ x < 65536 * 65536
  BY Z3 DEF u32
<1>1. /\ a \in Nat /\ x = 256 * a + xm /\ xm \in u8
      /\ b = x \div 65536 /\ c = x \div 16777216
  BY <1>0, LowByte DEF u8
<1>2. b \in Nat /\ a = 256 * b + am /\ am \in u8
  <2>1. a \in Nat
    BY <1>1
  <2> HIDE DEF a
  <2> QED BY <2>1, LowByte DEF u8
<1>3. c \in Nat /\ b = 256 * c + bm /\ bm \in u8
  <2>1. b \in Nat
    BY <1>2
  <2> HIDE DEF b
  <2> QED BY <2>1, LowByte DEF u8
<1>4. c < 256 /\ c % 256 = c /\ c \in u8
  <2> HIDE DEF a, b, c, xm, am, bm
  <2>1. c < 256
    BY <1>0, <1>1, <1>2, <1>3, Z3 DEF u8
  <2> QED BY <1>3, <2>1, Z3 DEF u8
<1>6. le_bytes4(x) = <<xm, am, bm, c>>
  BY <1>1, <1>4, Z3 DEF le_bytes4
<1> HIDE DEF a, b, c, xm, am, bm
<1>7. le_bytes4(x) \in Seq(u8) /\ Len(le_bytes4(x)) = 4
  <2>1. xm \in u8 /\ am \in u8 /\ bm \in u8 /\ c \in u8
    BY <1>1, <1>2, <1>3, <1>4, SMT
  <2>2. <<xm, am, bm, c>> \in Seq(u8) /\ Len(<<xm, am, bm, c>>) = 4
    BY <2>1, FourOf
  <2> QED BY <1>6, <2>2, Zenon
<1>8. le_u32(le_bytes4(x)) = xm + 256 * (am + 256 * (bm + 256 * c))
  BY <1>6 DEF le_u32
<1>9. x = xm + 256 * (am + 256 * (bm + 256 * c))
  BY <1>1, <1>2, <1>3, Z3 DEF u8
<1> QED BY <1>7, <1>8, <1>9

\* A counter is read as it was written.
LEMMA CounterSurvives ==
  ASSUME NEW x \in u64
  PROVE  /\ le_bytes8(x) \in Seq(u8) /\ Len(le_bytes8(x)) = 8
         /\ le_u64(le_bytes8(x)) = x
<1> DEFINE y == (x \div 65536) \div 65536
           a == x \div 256
           b == a \div 256
           c == b \div 256
           e == c \div 256
           xm == x % 256
           am == a % 256
           bm == b % 256
           cm == c % 256
           lo == <<xm, am, bm, cm>>
           hi == le_bytes4(y)
<1>0. x \in Nat /\ x < 65536 * 65536 * 65536 * 65536
  <2> DEFINE p == x \div 65536
             q == p \div 65536
             r == q \div 65536
  <2>1. x \in Nat /\ r < 65536
    BY DEF u64
  <2>2. p \in Nat /\ x < 65536 * p + 65536
    BY <2>1, Z3
  <2> HIDE DEF p
  <2>3. q \in Nat /\ p < 65536 * q + 65536
    BY <2>2, Z3
  <2> HIDE DEF q
  <2>4. r \in Nat /\ q < 65536 * r + 65536
    BY <2>3, Z3
  <2> HIDE DEF r
  <2>5. q < 65536 * 65536
    BY <2>1, <2>3, <2>4
  <2>6. p < 65536 * 65536 * 65536
    BY <2>2, <2>3, <2>5
  <2> DEFINE k == 65536 * 65536 * 65536
  <2>7. k \in Nat /\ p < k
    BY <2>6
  <2>8. k * 65536 = 65536 * 65536 * 65536 * 65536
    OBVIOUS
  <2> HIDE DEF k
  <2>9. x < k * 65536
    BY <2>1, <2>2, <2>7
  <2> QED BY <2>1, <2>8, <2>9
<1>1. /\ a \in Nat /\ x = 256 * a + xm /\ xm \in u8
      /\ b = x \div 65536 /\ c = x \div 16777216
  BY <1>0, LowByte DEF u8
<1>2. b \in Nat /\ a = 256 * b + am /\ am \in u8
  <2>1. a \in Nat
    BY <1>1
  <2> HIDE DEF a
  <2> QED BY <2>1, LowByte DEF u8
<1>3. c \in Nat /\ b = 256 * c + bm /\ bm \in u8 /\ b \div 65536 = (b \div 256) \div 256
  <2>1. b \in Nat
    BY <1>2
  <2> HIDE DEF b
  <2> QED BY <2>1, LowByte DEF u8
<1>4. e \in Nat /\ c = 256 * e + cm /\ cm \in u8
  <2>1. c \in Nat
    BY <1>3
  <2> HIDE DEF c
  <2> QED BY <2>1, LowByte DEF u8
<1>5. y = e
  BY <1>1, <1>3
<1>6. le_bytes4(x) = lo
  BY <1>1, Z3 DEF le_bytes4
<1> HIDE DEF a, b, c, e, xm, am, bm, cm, y
<1>7. y \in u32
  BY <1>0, <1>1, <1>2, <1>3, <1>4, <1>5, Z3 DEF u8, u32
<1>8. hi \in Seq(u8) /\ Len(hi) = 4 /\ le_u32(hi) = y
  BY <1>7, IndexSurvives
<1>9. lo \in Seq(u8) /\ Len(lo) = 4 /\ lo[1] = xm /\ lo[2] = am /\ lo[3] = bm /\ lo[4] = cm
  BY <1>1, <1>2, <1>3, <1>4
<1>10. le_bytes8(x) = lo \o hi
  BY <1>6, SMT DEF le_bytes8, y
<1> HIDE DEF lo, hi
<1>11. /\ lo \o hi \in Seq(u8) /\ Len(lo \o hi) = Len(lo) + Len(hi)
       /\ \A i \in 1 .. Len(lo) + Len(hi) : (lo \o hi)[i] = IF i <= Len(lo) THEN lo[i] ELSE hi[i - Len(lo)]
  BY <1>8, <1>9, ConcatProperties, Zenon
<1> DEFINE w == lo \o hi
<1>12. /\ w[1] = xm /\ w[2] = am /\ w[3] = bm /\ w[4] = cm
       /\ w[5] = hi[1] /\ w[6] = hi[2] /\ w[7] = hi[3] /\ w[8] = hi[4]
  BY <1>8, <1>9, <1>11
<1>13. hi[1] \in u8 /\ hi[2] \in u8 /\ hi[3] \in u8 /\ hi[4] \in u8
  BY <1>8, ElementOfSeq
<1> HIDE DEF w
<1> DEFINE h1 == hi[1]
           h2 == hi[2]
           h3 == hi[3]
           h4 == hi[4]
           h == h1 + 256 * (h2 + 256 * (h3 + 256 * h4))
<1>14. y = h
  BY <1>8 DEF le_u32
<1>15. le_u64(w) = xm + 256 * (am + 256 * (bm + 256 * (cm + 256 * h)))
  BY <1>12 DEF le_u64
<1> HIDE DEF h
<1>16. x = xm + 256 * (am + 256 * (bm + 256 * (cm + 256 * h)))
  BY <1>0, <1>1, <1>2, <1>3, <1>4, <1>5, <1>14, Z3 DEF u8
<1> QED BY <1>8, <1>9, <1>10, <1>11, <1>15, <1>16 DEF w

-----------------------------------------------------------------------------
(* The header of a transport message *)

\* The type, with its reserved bytes, and the header of a transport message.
Type(t) == <<t, 0, 0, 0>>
Header(index, counter) == Type(4) \o le_bytes4(index) \o le_bytes8(counter)

\* The four types are different words.
LEMMA Types ==
  /\ \A t \in 1 .. 4 : Type(t) \in Seq(u8) /\ Len(Type(t)) = 4
  /\ \A t \in 1 .. 4, k \in 1 .. 4 : Type(t) = Type(k) => t = k
  BY DEF Type, u8

\* How the parser reads a message of type 4.
LEMMA TransportCase ==
  ASSUME NEW d, type_word(d) = Type(4), Len(d) \in Nat, ~ (Len(d) < 32)
  PROVE  parse(d) = [kind |-> "TransportData", fields |-> TransportData(d),
                     ciphertext |-> SubSeq(d, 17, Len(d))]
<1>1. Type(4) # Type(1) /\ Type(4) # Type(2) /\ Type(4) # Type(3)
  BY Types
<1>2. ~ (Len(d) < 4)
  OBVIOUS
<1> QED BY <1>1, <1>2 DEF parse, Type, TRANSPORT_OVERHEAD

\* What follows a transport header is read as it was written.
LEMMA TransportParses ==
  ASSUME NEW S, u8 \subseteq S, NEW index \in u32, NEW counter \in u64,
         NEW w \in Seq(S), Len(w) >= 16
  PROVE  LET d == Header(index, counter) \o w
         IN  /\ d \in Seq(S) /\ Len(d) = 16 + Len(w)
             /\ parse(d) = [kind |-> "TransportData",
                            fields |-> [receiver_index |-> index, counter |-> counter],
                            ciphertext |-> w]
<1> DEFINE t == Type(4)
           i == le_bytes4(index)
           c == le_bytes8(counter)
           d == t \o i \o c \o w
<1>1. t \in Seq(u8) /\ Len(t) = 4 /\ i \in Seq(u8) /\ Len(i) = 4 /\ c \in Seq(u8) /\ Len(c) = 8
  BY Types, IndexSurvives, CounterSurvives
<1>2. le_u32(i) = index /\ le_u64(c) = counter
  BY IndexSurvives, CounterSurvives
<1> HIDE DEF t, i, c
<1>3. t \in Seq(S) /\ i \in Seq(S) /\ c \in Seq(S)
  BY <1>1, Wider
<1>4. Joined4(S, t \o i \o c \o w, t, i, c, w)
  BY <1>3, FourParts
<1>5. Len(w) \in Nat
  BY LenProperties
<1> HIDE DEF d
<1>6. /\ d \in Seq(S) /\ Len(d) = 16 + Len(w)
      /\ SubSeq(d, 1, 4) = t /\ take(d, 4, 4) = i /\ take(d, 8, 8) = c
      /\ SubSeq(d, 17, Len(d)) = w
  <2>1. /\ d \in Seq(S) /\ Len(d) = Len(t) + Len(i) + Len(c) + Len(w)
        /\ take(d, 0, Len(t)) = t /\ take(d, Len(t), Len(i)) = i
        /\ take(d, Len(t) + Len(i), Len(c)) = c
        /\ take(d, Len(t) + Len(i) + Len(c), Len(w)) = w
    BY <1>4, Zenon DEF Joined4, d
  <2>2. /\ Len(t) = 4 /\ Len(i) = 4 /\ Len(c) = 8 /\ 4 + 4 = 8 /\ 8 + 8 = 16
        /\ Len(d) = 16 + Len(w) /\ 0 + 1 = 1 /\ 0 + 4 = 4 /\ 16 + 1 = 17
    BY <1>1, <1>5, <2>1
  <2> QED BY <2>1, <2>2, Zenon DEF take
<1>7. type_word(d) = Type(4) /\ Len(d) \in Nat /\ ~ (Len(d) < 32)
  BY <1>5, <1>6 DEF type_word, t
<1>8. parse(d) = [kind |-> "TransportData", fields |-> TransportData(d),
                  ciphertext |-> SubSeq(d, 17, Len(d))]
  BY <1>7, TransportCase
<1>9. TransportData(d) = [receiver_index |-> index, counter |-> counter]
  BY <1>2, <1>6, Zenon DEF TransportData
<1> QED BY <1>6, <1>8, <1>9, Zenon DEF Header, d, t, i, c

-----------------------------------------------------------------------------
(* The messages that are built *)

\* A field stays where it is when more is written behind it.
LEMMA TakeKeeps ==
  ASSUME NEW S, NEW s \in Seq(S), NEW t \in Seq(S), NEW a \in Nat, NEW n \in Nat, a + n <= Len(s)
  PROVE  take(s \o t, a, n) = take(s, a, n)
<1> DEFINE k == a + 1
           l == a + n
<1>1. k \in Nat \ {0} /\ l \in Nat /\ k <= l + 1 /\ l <= Len(s)
  OBVIOUS
<1> HIDE DEF k, l
<1>2. SubSeq(s \o t, k, l) = SubSeq(s, k, l)
  BY <1>1, FirstPart
<1> QED BY <1>2 DEF take, k, l

\* The field that is written last.
LEMMA TakeLast ==
  ASSUME NEW S, NEW s \in Seq(S), NEW t \in Seq(S)
  PROVE  take(s \o t, Len(s), Len(t)) = t /\ s \o t \in Seq(S) /\ Len(s \o t) = Len(s) + Len(t)
  BY CutConcat DEF take

\* A message of seven parts, the field at each place.
Joined7(S, d, s1, s2, s3, s4, s5, s6, s7) ==
  LET k4 == Len(s1) + Len(s2) + Len(s3) + Len(s4)
      k5 == k4 + Len(s5)
      k6 == k5 + Len(s6)
  IN  /\ d \in Seq(S) /\ Len(d) = k6 + Len(s7)
      /\ take(d, 0, Len(s1)) = s1
      /\ take(d, Len(s1), Len(s2)) = s2
      /\ take(d, Len(s1) + Len(s2), Len(s3)) = s3
      /\ take(d, Len(s1) + Len(s2) + Len(s3), Len(s4)) = s4
      /\ take(d, k4, Len(s5)) = s5
      /\ take(d, k5, Len(s6)) = s6
      /\ take(d, k6, Len(s7)) = s7

\* The fields of a message put together are at their places.
LEMMA SevenParts ==
  ASSUME NEW S, NEW s1 \in Seq(S), NEW s2 \in Seq(S), NEW s3 \in Seq(S), NEW s4 \in Seq(S),
         NEW s5 \in Seq(S), NEW s6 \in Seq(S), NEW s7 \in Seq(S)
  PROVE  Joined7(S, s1 \o s2 \o s3 \o s4 \o s5 \o s6 \o s7, s1, s2, s3, s4, s5, s6, s7)
<1> DEFINE n1 == Len(s1)
           n2 == Len(s2)
           n3 == Len(s3)
           n4 == Len(s4)
           n5 == Len(s5)
           n6 == Len(s6)
           n7 == Len(s7)
           k2 == n1 + n2
           k3 == k2 + n3
           k4 == k3 + n4
           k5 == k4 + n5
           k6 == k5 + n6
           d4 == s1 \o s2 \o s3 \o s4
           d5 == d4 \o s5
           d6 == d5 \o s6
           d7 == d6 \o s7
<1>0. n1 \in Nat /\ n2 \in Nat /\ n3 \in Nat /\ n4 \in Nat /\ n5 \in Nat /\ n6 \in Nat /\ n7 \in Nat
  BY LenProperties
<1>1. /\ d4 \in Seq(S) /\ Len(d4) = k4
      /\ take(d4, 0, n1) = s1 /\ take(d4, n1, n2) = s2 /\ take(d4, k2, n3) = s3 /\ take(d4, k3, n4) = s4
  <2>1. Joined4(S, s1 \o s2 \o s3 \o s4, s1, s2, s3, s4)
    BY FourParts
  <2> QED BY <2>1, Zenon DEF Joined4
<1> HIDE DEF d4
<1>2. d5 \in Seq(S) /\ Len(d5) = k5 /\ take(d5, k4, n5) = s5
  <2>1. d4 \in Seq(S)
    BY <1>1
  <2>2. /\ d4 \o s5 \in Seq(S) /\ Len(d4 \o s5) = Len(d4) + Len(s5)
        /\ take(d4 \o s5, Len(d4), Len(s5)) = s5
    BY <2>1, TakeLast
  <2> QED BY <1>1, <2>2
<1> HIDE DEF d5
<1>3. d6 \in Seq(S) /\ Len(d6) = k6 /\ take(d6, k5, n6) = s6
  <2>1. d5 \in Seq(S)
    BY <1>2
  <2>2. /\ d5 \o s6 \in Seq(S) /\ Len(d5 \o s6) = Len(d5) + Len(s6)
        /\ take(d5 \o s6, Len(d5), Len(s6)) = s6
    BY <2>1, TakeLast
  <2> QED BY <1>2, <2>2
<1> HIDE DEF d6
<1>4. d7 \in Seq(S) /\ Len(d7) = k6 + n7 /\ take(d7, k6, n7) = s7
  <2>1. d6 \in Seq(S)
    BY <1>3
  <2>2. /\ d6 \o s7 \in Seq(S) /\ Len(d6 \o s7) = Len(d6) + Len(s7)
        /\ take(d6 \o s7, Len(d6), Len(s7)) = s7
    BY <2>1, TakeLast
  <2> QED BY <1>3, <2>2
<1> HIDE DEF d7
<1>5. /\ k2 \in Nat /\ k3 \in Nat /\ k4 \in Nat /\ k5 \in Nat /\ k6 \in Nat
      /\ 0 + n1 <= k4 /\ n1 + n2 <= k4 /\ k2 + n3 <= k4 /\ k3 + n4 <= k4
      /\ k4 <= k5 /\ k5 <= k6 /\ k4 + n5 <= k5 /\ k5 + n6 <= k6
  BY <1>0
<1> HIDE DEF n1, n2, n3, n4, n5, n6, n7, k2, k3, k4, k5, k6
<1>6. ASSUME NEW a \in Nat, NEW n \in Nat, a + n <= k6 PROVE take(d7, a, n) = take(d6, a, n)
  <2>1. d6 \in Seq(S) /\ a + n <= Len(d6)
    BY <1>3, <1>6
  <2> QED BY <2>1, TakeKeeps DEF d7
<1>7. ASSUME NEW a \in Nat, NEW n \in Nat, a + n <= k5 PROVE take(d6, a, n) = take(d5, a, n)
  <2>1. d5 \in Seq(S) /\ a + n <= Len(d5)
    BY <1>2, <1>7
  <2> QED BY <2>1, TakeKeeps DEF d6
<1>8. ASSUME NEW a \in Nat, NEW n \in Nat, a + n <= k4 PROVE take(d5, a, n) = take(d4, a, n)
  <2>1. d4 \in Seq(S) /\ a + n <= Len(d4)
    BY <1>1, <1>8
  <2> QED BY <2>1, TakeKeeps DEF d5
<1>9. ASSUME NEW a \in Nat, NEW n \in Nat, a + n <= k4 PROVE take(d7, a, n) = take(d4, a, n)
  <2>1. a + n <= k5 /\ a + n <= k6
    BY <1>5, <1>9
  <2> QED BY <1>6, <1>7, <1>8, <1>9, <2>1
<1>10. take(d7, k4, n5) = s5
  <2>1. k4 + n5 <= k6
    BY <1>0, <1>5
  <2> QED BY <1>0, <1>2, <1>5, <1>6, <1>7, <2>1
<1>11. take(d7, k5, n6) = s6
  BY <1>0, <1>3, <1>5, <1>6
<1>12. /\ take(d7, 0, n1) = s1 /\ take(d7, n1, n2) = s2 /\ take(d7, k2, n3) = s3 /\ take(d7, k3, n4) = s4
  <2>1. take(d7, 0, n1) = s1
    BY <1>0, <1>1, <1>5, <1>9
  <2>2. take(d7, n1, n2) = s2
    BY <1>0, <1>1, <1>5, <1>9
  <2>3. take(d7, k2, n3) = s3
    BY <1>0, <1>1, <1>5, <1>9
  <2>4. take(d7, k3, n4) = s4
    BY <1>0, <1>1, <1>5, <1>9
  <2> QED BY <2>1, <2>2, <2>3, <2>4
<1> QED
  BY <1>4, <1>10, <1>11, <1>12, Zenon
     DEF Joined7, n1, n2, n3, n4, n5, n6, n7, k2, k3, k4, k5, k6, d4, d5, d6, d7

\* The two MACs are zero, and are sixteen bytes each.
LEMMA ZeroMacs ==
  /\ zeros(16) \in Seq(u8) /\ Len(zeros(16)) = 16
  /\ zeros(32) = zeros(16) \o zeros(16)
<1> DEFINE z == zeros(16)
           y == zeros(32)
<1>1. z \in [1 .. 16 -> u8] /\ \A i \in 1 .. 16 : z[i] = 0
  BY DEF zeros, u8
<1>2. y \in [1 .. 32 -> u8] /\ \A i \in 1 .. 32 : y[i] = 0
  BY DEF zeros, u8
<1> HIDE DEF z, y
<1>3. z \in Seq(u8) /\ Len(z) = 16 /\ y \in Seq(u8) /\ Len(y) = 32
  <2>1. 16 \in Nat /\ 32 \in Nat
    OBVIOUS
  <2>2. z \in [1 .. 16 -> u8] /\ y \in [1 .. 32 -> u8]
    BY <1>1, <1>2
  <2>3. z \in Seq(u8) /\ Len(z) = 16
    BY <2>1, <2>2, AsSeq, Zenon
  <2>4. y \in Seq(u8) /\ Len(y) = 32
    BY <2>1, <2>2, AsSeq, Zenon
  <2> QED BY <2>3, <2>4
<1> DEFINE zz == z \o z
<1>4. /\ zz \in Seq(u8) /\ Len(zz) = Len(z) + Len(z)
      /\ \A i \in 1 .. Len(z) + Len(z) : zz[i] = IF i <= Len(z) THEN z[i] ELSE z[i - Len(z)]
  <2>1. z \in Seq(u8)
    BY <1>3
  <2> QED BY <2>1, ConcatProperties
<1> HIDE DEF zz
<1>5. Len(zz) = 32 /\ \A i \in 1 .. 32 : zz[i] = 0
  BY <1>1, <1>3, <1>4
<1>6. y = zz
  <2>1. Len(y) = Len(zz) /\ \A i \in 1 .. Len(y) : y[i] = zz[i]
    BY <1>2, <1>3, <1>5
  <2> QED BY <1>3, <1>4, <2>1, SeqEqual, Zenon
<1> QED BY <1>3, <1>6 DEF z, y, zz

\* mac_slots and the parts that the parser takes agree.
Slotted(d, k) ==
  /\ mac_slots(d).alpha = take(d, 0, k)
  /\ take(d, 0, k + 16) = mac_slots(d).alpha \o mac_slots(d).mac1
  /\ d = take(d, 0, k + 16) \o mac_slots(d).mac2

\* They agree in either handshake message, whose MACs begin at k.
LEMMA SlotsAgree ==
  ASSUME NEW S, NEW d \in Seq(S), NEW k \in Nat, Len(d) = k + 32, Len(d) \in {148, 92}
  PROVE  Slotted(d, k)
<1> DEFINE len == Len(d)
           a == SubSeq(d, 1, len - 32)
           b == SubSeq(d, len - 31, len - 16)
           c == SubSeq(d, len - 15, len)
<1>1. mac_slots(d).alpha = a /\ mac_slots(d).mac1 = b /\ mac_slots(d).mac2 = c
  BY DEF mac_slots, HANDSHAKE_INITIATION_LEN, HANDSHAKE_RESPONSE_LEN
<1>2. /\ len - 32 = k /\ len - 31 = k + 1 /\ len - 16 = k + 16 /\ len - 15 = k + 16 + 1
      /\ 0 + 1 = 1 /\ 0 + k = k /\ 0 + (k + 16) = k + 16
  OBVIOUS
<1>3. a \o b = SubSeq(d, 1, k + 16)
  <2> DEFINE l == k + 16
  <2>1. 1 \in 1 .. Len(d) + 1 /\ k \in 1 - 1 .. Len(d) /\ l \in k .. Len(d)
    OBVIOUS
  <2> HIDE DEF l
  <2>2. SubSeq(d, 1, k) \o SubSeq(d, k + 1, l) = SubSeq(d, 1, l)
    BY <2>1, ConcatAdjacentSubSeq
  <2> QED BY <1>2, <2>2 DEF l
<1>4. SubSeq(d, 1, k + 16) \o c = d
  <2> DEFINE l == k + 16
  <2>1. 1 \in 1 .. Len(d) + 1 /\ l \in 1 - 1 .. Len(d) /\ len \in l .. Len(d)
    OBVIOUS
  <2> HIDE DEF l, len
  <2>2. SubSeq(d, 1, l) \o SubSeq(d, l + 1, len) = SubSeq(d, 1, len)
    BY <2>1, ConcatAdjacentSubSeq
  <2>3. SubSeq(d, 1, len) = d
    BY SubSeqFull DEF len
  <2> QED BY <1>2, <2>2, <2>3 DEF l
<1> HIDE DEF len
<1> QED BY <1>1, <1>2, <1>3, <1>4, Zenon DEF Slotted, take

\* The length of a handshake message or cookie reply.
MessageLen(t) == CASE t = 1 -> 148 [] t = 2 -> 92 [] t = 3 -> 64

\* No message has another length.
LEMMA WrongLength ==
  ASSUME NEW d, NEW t \in 1 .. 3, type_word(d) = Type(t), Len(d) # MessageLen(t)
  PROVE  parse(d) = InvalidPacket
<1>1. Type(1) # Type(2) /\ Type(1) # Type(3) /\ Type(2) # Type(3)
  BY Types
<1>2. CASE t = 1
  BY <1>1, <1>2 DEF parse, Type, HANDSHAKE_INITIATION_LEN, MessageLen
<1>3. CASE t = 2
  BY <1>1, <1>3 DEF parse, Type, HANDSHAKE_RESPONSE_LEN, MessageLen
<1>4. CASE t = 3
  BY <1>1, <1>4 DEF parse, Type, COOKIE_REPLY_LEN, MessageLen
<1> QED BY <1>2, <1>3, <1>4

\* A message of none of the four types is refused.
LEMMA OtherType ==
  ASSUME NEW d, \A t \in 1 .. 4 : type_word(d) # Type(t)
  PROVE  parse(d) = InvalidPacket
<1>1. /\ type_word(d) # Type(1) /\ type_word(d) # Type(2)
      /\ type_word(d) # Type(3) /\ type_word(d) # Type(4)
  OBVIOUS
<1> QED BY <1>1 DEF parse, Type

\* The type, after a byte is appended to the message or cut off it.
LEMMA TypeKept ==
  ASSUME NEW S, NEW d \in Seq(S), Len(d) >= 5, 0 \in S
  PROVE  /\ type_word(d \o <<0>>) = type_word(d) /\ Len(d \o <<0>>) = Len(d) + 1
         /\ LET e == SubSeq(d, 1, Len(d) - 1)
            IN  type_word(e) = type_word(d) /\ Len(e) = Len(d) - 1
<1> DEFINE n == Len(d)
           z == <<0>>
           k == n - 1
           e == SubSeq(d, 1, k)
<1>1. n \in Nat /\ k \in Nat /\ k <= n /\ 1 <= k + 1 /\ 4 <= k /\ 4 <= n /\ 1 <= 4 + 1 /\ 1 \in Nat \ {0} /\ 4 \in Nat
      /\ k - 1 + 1 = k
  BY LenProperties
<1>2. z \in Seq(S) /\ Len(z) = 1
  OBVIOUS
<1> HIDE DEF z
<1>3. SubSeq(d \o z, 1, 4) = SubSeq(d, 1, 4)
  <2>1. z \in Seq(S) /\ 1 \in Nat \ {0} /\ 4 \in Nat /\ 1 <= 4 + 1 /\ 4 <= Len(d)
    BY <1>1, <1>2
  <2> QED BY <2>1, FirstPart
<1>4. Len(d \o z) = Len(d) + Len(z)
  <2>1. z \in Seq(S)
    BY <1>2
  <2> QED BY <2>1, CutConcat
<1>5. /\ e \in Seq(S) /\ Len(e) = k - 1 + 1 /\ \A i \in 1 .. k - 1 + 1 : e[i] = d[1 + i - 1]
  <2>1. 1 \in Nat \ {0} /\ k \in Nat /\ 1 <= k + 1 /\ k <= Len(d)
    BY <1>1
  <2> HIDE DEF k
  <2> QED BY <2>1, Part
<1> HIDE DEF e, k
<1> DEFINE u == SubSeq(e, 1, 4)
           v == SubSeq(d, 1, 4)
<1>6. /\ u \in Seq(S) /\ Len(u) = 4 - 1 + 1 /\ \A i \in 1 .. 4 - 1 + 1 : u[i] = e[1 + i - 1]
  <2>1. e \in Seq(S) /\ 1 \in Nat \ {0} /\ 4 \in Nat /\ 1 <= 4 + 1 /\ 4 <= Len(e)
    BY <1>1, <1>5
  <2> QED BY <2>1, Part
<1>7. /\ v \in Seq(S) /\ Len(v) = 4 - 1 + 1 /\ \A i \in 1 .. 4 - 1 + 1 : v[i] = d[1 + i - 1]
  <2>1. 1 \in Nat \ {0} /\ 4 \in Nat /\ 1 <= 4 + 1 /\ 4 <= Len(d)
    BY <1>1
  <2> QED BY <2>1, Part
<1> HIDE DEF u, v
<1>8. ASSUME NEW i \in 1 .. Len(u) PROVE u[i] = v[i]
  <2>1. i \in 1 .. 4 - 1 + 1 /\ 1 + i - 1 = i /\ i \in 1 .. k - 1 + 1
    BY <1>1, <1>6
  <2> QED BY <1>5, <1>6, <1>7, <2>1
<1>9. u = v
  BY <1>6, <1>7, <1>8, SeqEqual
<1> QED BY <1>1, <1>2, <1>3, <1>4, <1>5, <1>9 DEF type_word, u, v, e, k, z

\* A message with a reserved byte set is refused.
LEMMA ReservedRefused ==
  ASSUME NEW S, NEW d \in Seq(S), Len(d) >= 4, 1 \in S, NEW i \in 2 .. 4
  PROVE  parse([d EXCEPT ![i] = 1]) = InvalidPacket
<1> DEFINE e == [d EXCEPT ![i] = 1]
           u == SubSeq(e, 1, 4)
<1>1. Len(d) \in Nat /\ i \in 1 .. Len(d)
  BY LenProperties
<1>2. e \in Seq(S) /\ Len(e) = Len(d) /\ e[i] = 1
  BY <1>1, ExceptSeq
<1> HIDE DEF e
<1>3. \A j \in 1 .. 4 - 1 + 1 : u[j] = e[1 + j - 1]
  <2>1. e \in Seq(S) /\ 1 \in Nat \ {0} /\ 4 \in Nat /\ 1 <= 4 + 1 /\ 4 <= Len(e)
    BY <1>1, <1>2
  <2> QED BY <2>1, Part
<1> HIDE DEF u
<1>4. u[i] = 1
  <2>1. i \in 1 .. 4 - 1 + 1 /\ 1 + i - 1 = i
    OBVIOUS
  <2> QED BY <1>2, <1>3, <2>1
<1>5. ASSUME NEW t \in 1 .. 4 PROVE u # Type(t)
  <2>1. Type(t)[i] = 0
    BY DEF Type
  <2> QED BY <1>4, <2>1
<1>6. \A t \in 1 .. 4 : type_word(e) # Type(t)
  BY <1>5 DEF type_word, u
<1> QED BY <1>6, OtherType DEF e

\* What parse refuses: a reserved byte set, a type cut short, and a byte too many
\* or too few.
TypeSpoiled(d) ==
  /\ \A i \in 2 .. 4 : parse([d EXCEPT ![i] = 1]) = InvalidPacket
  /\ \A n \in 0 .. 3 : parse(SubSeq(d, 1, n)) = InvalidPacket
NotItsLength(d) ==
  parse(d \o <<0>>) = InvalidPacket /\ parse(SubSeq(d, 1, Len(d) - 1)) = InvalidPacket

\* A message whose type is changed or incomplete is refused.
LEMMA TypeRefused ==
  ASSUME NEW S, NEW d \in Seq(S), Len(d) >= 4, 1 \in S
  PROVE  TypeSpoiled(d)
<1>1. \A i \in 2 .. 4 : parse([d EXCEPT ![i] = 1]) = InvalidPacket
  BY ReservedRefused, Zenon
<1>2. ASSUME NEW n \in 0 .. 3 PROVE parse(SubSeq(d, 1, n)) = InvalidPacket
  <2> DEFINE c == SubSeq(d, 1, n)
  <2>1. 1 \in Nat \ {0} /\ n \in Nat /\ 1 <= n + 1 /\ n <= Len(d)
    BY LenProperties
  <2>2. Len(c) = n - 1 + 1
    BY <2>1, Part
  <2> HIDE DEF c
  <2>3. Len(c) < 4
    BY <2>2
  <2>4. parse(c) = InvalidPacket
    BY <2>3, Zenon DEF parse
  <2> QED BY <2>4 DEF c
<1> QED BY <1>1, <1>2, Zenon DEF TypeSpoiled

\* A message of a fixed length, with a byte appended or cut off, is refused.
LEMMA LengthRefused ==
  ASSUME NEW S, NEW d \in Seq(S), 0 \in S, NEW t \in 1 .. 3, type_word(d) = Type(t),
         Len(d) = MessageLen(t)
  PROVE  NotItsLength(d)
<1> DEFINE n == MessageLen(t)
           e == d \o <<0>>
           c == SubSeq(d, 1, Len(d) - 1)
<1>1. n \in Nat /\ n >= 5
  BY DEF MessageLen
<1>2. type_word(e) = Type(t) /\ Len(e) = Len(d) + 1 /\ type_word(c) = Type(t) /\ Len(c) = Len(d) - 1
  BY <1>1, TypeKept
<1> HIDE DEF n, e, c
<1>3. Len(e) # n /\ Len(c) # n
  BY <1>1, <1>2 DEF n
<1>4. parse(e) = InvalidPacket /\ parse(c) = InvalidPacket
  BY <1>2, <1>3, WrongLength DEF n
<1> QED BY <1>4 DEF NotItsLength, e, c

\* A message d that was read as it was written: its kind, and its fields F, which
\* are f's; and what a router is told of it.
ReadAs(kind, d, f, F) ==
  /\ kind # "InvalidPacket" /\ parse(d).kind = kind /\ parse(d).fields = F
  /\ \A name \in DOMAIN F \ {"mac1", "mac2"} : F[name] = f[name]
PeekedAs(kind, d, f, F) ==
  peek(d) = [kind |-> kind,
             fields |-> [n \in (DOMAIN F \ {"mac1", "mac2"}) \cap Numbers |-> f[n]]]

\* The router is told the same kind and numbers.
LEMMA PeekAgrees ==
  ASSUME NEW d, NEW f, NEW kind, NEW F, ReadAs(kind, d, f, F)
  PROVE  PeekedAs(kind, d, f, F)
<1> DEFINE m == parse(d)
           own == DOMAIN F \ {"mac1", "mac2"}
<1>1. m # InvalidPacket
  BY DEF InvalidPacket, ReadAs
<1>2. own \cap Numbers = DOMAIN F \cap Numbers
  BY DEF Numbers
<1>3. [n \in DOMAIN F \cap Numbers |-> F[n]] = [n \in own \cap Numbers |-> f[n]]
  <2>1. \A n \in own \cap Numbers : F[n] = f[n]
    BY DEF ReadAs
  <2> HIDE DEF own
  <2> QED BY <1>2, <2>1
<1>4. peek(d) = [kind |-> m.kind, fields |-> [n \in DOMAIN m.fields \cap Numbers |-> m.fields[n]]]
  BY <1>1, Zenon DEF peek
<1> QED BY <1>3, <1>4, Zenon DEF ReadAs, PeekedAs

\* The parts of a handshake message with its two zero MACs.
LEMMA HandshakeParts ==
  ASSUME NEW S, u8 \subseteq S, NEW s1 \in Seq(S), NEW s2 \in Seq(S), NEW s3 \in Seq(S),
         NEW s4 \in Seq(S), NEW s5 \in Seq(S)
  PROVE  Joined7(S, s1 \o s2 \o s3 \o s4 \o s5 \o zeros(32), s1, s2, s3, s4, s5, zeros(16), zeros(16))
<1> DEFINE z == zeros(16)
           y == zeros(32)
           d5 == s1 \o s2 \o s3 \o s4 \o s5
<1>1. z \in Seq(u8) /\ y = z \o z
  BY ZeroMacs
<1> HIDE DEF z, y
<1>2. z \in Seq(S)
  BY <1>1, Wider
<1>3. d5 \in Seq(S)
  <2> DEFINE d2 == s1 \o s2
             d3 == d2 \o s3
             d4 == d3 \o s4
  <2>1. d2 \in Seq(S)
    BY CutConcat
  <2> HIDE DEF d2
  <2>2. d3 \in Seq(S)
    BY <2>1, CutConcat
  <2> HIDE DEF d3
  <2>3. d4 \in Seq(S)
    BY <2>2, CutConcat
  <2> HIDE DEF d4
  <2>4. d4 \o s5 \in Seq(S)
    BY <2>3, CutConcat
  <2> QED BY <2>4 DEF d4, d3, d2
<1>4. Joined7(S, d5 \o z \o z, s1, s2, s3, s4, s5, z, z)
  BY <1>2, SevenParts, Zenon
<1> HIDE DEF d5
<1>5. (d5 \o z) \o z = d5 \o y
  <2>1. d5 \in Seq(S) /\ z \in Seq(S)
    BY <1>2, <1>3
  <2>2. Associates(d5, z, z)
    BY <2>1, Associated, Zenon
  <2> QED BY <1>1, <2>2, Zenon DEF Associates
<1> QED BY <1>4, <1>5, Zenon DEF d5, z, y

-----------------------------------------------------------------------------
(* The four kinds *)

\* The arguments of the four builders.
Initiation(Byte, f) ==
  /\ f["sender_index"] \in u32 /\ f["ephemeral"] \in Bytes(Byte, 32)
  /\ f["encrypted_static"] \in Bytes(Byte, 48) /\ f["encrypted_timestamp"] \in Bytes(Byte, 28)
Response(Byte, f) ==
  /\ f["sender_index"] \in u32 /\ f["receiver_index"] \in u32
  /\ f["ephemeral"] \in Bytes(Byte, 32) /\ f["encrypted_nothing"] \in Bytes(Byte, 16)
Reply(Byte, f) ==
  /\ f["receiver_index"] \in u32 /\ f["nonce"] \in Bytes(Byte, 24)
  /\ f["encrypted_cookie"] \in Bytes(Byte, 32)
Transport(f) == f["receiver_index"] \in u32 /\ f["counter"] \in u64

\* A field of a message with bytes of other kinds in it.
LEMMA BytesWider ==
  ASSUME NEW S, NEW Byte, Byte \subseteq S, NEW n, NEW s \in Bytes(Byte, n)
  PROVE  s \in Seq(S) /\ Len(s) = n
<1>1. s \in Seq(Byte) /\ Len(s) = n
  BY DEF Bytes
<1> QED BY <1>1, Wider

\* How the parser reads a handshake initiation of the right length.
LEMMA InitiationCase ==
  ASSUME NEW d, type_word(d) = Type(1), Len(d) = 148
  PROVE  parse(d) = [kind |-> "HandshakeInitiation", fields |-> HandshakeInitiation(d),
                     alpha |-> take(d, 0, 116), beta |-> take(d, 0, 116 + 16)]
<1>1. Type(1) # Type(2) /\ Type(1) # Type(3) /\ Type(1) # Type(4)
  BY Types
<1> QED BY <1>1 DEF parse, Type, HANDSHAKE_INITIATION_LEN

\* What the parser makes of a message d with the fields f.
InitiationRead(Byte, d, f) ==
  /\ d \in Seq(Byte \cup u8) /\ Len(d) = 148 /\ type_word(d) = Type(1)
  /\ parse(d) = [kind |-> "HandshakeInitiation",
                 fields |-> [sender_index |-> f["sender_index"],
                             ephemeral |-> f["ephemeral"],
                             encrypted_static |-> f["encrypted_static"],
                             encrypted_timestamp |-> f["encrypted_timestamp"],
                             mac1 |-> zeros(16), mac2 |-> zeros(16)],
                 alpha |-> take(d, 0, 116), beta |-> take(d, 0, 116 + 16)]

\* An initiation that fits is read as it was written.
LEMMA InitiationParses ==
  ASSUME NEW Byte, NEW out, NEW f, Initiation(Byte, f), ~ (Len(out) < 148)
  PROVE  InitiationRead(Byte, build_initiation(out, f), f)
<1> DEFINE S == Byte \cup u8
           index == f["sender_index"]
           t == Type(1)
           i == le_bytes4(index)
           e == f["ephemeral"]
           s == f["encrypted_static"]
           c == f["encrypted_timestamp"]
           z == zeros(16)
           d == t \o i \o e \o s \o c \o zeros(32)
<1>1. build_initiation(out, f) = d
  BY Zenon DEF build_initiation, HANDSHAKE_INITIATION_LEN, Type
<1>2. t \in Seq(S) /\ i \in Seq(S) /\ Len(t) = 4 /\ Len(i) = 4 /\ le_u32(i) = index /\ Len(z) = 16
  <2>1. index \in u32
    BY DEF Initiation
  <2> HIDE DEF index
  <2>2. t \in Seq(u8) /\ i \in Seq(u8) /\ Len(t) = 4 /\ Len(i) = 4 /\ le_u32(i) = index /\ Len(z) = 16
    BY <2>1, Types, IndexSurvives, ZeroMacs
  <2> HIDE DEF t, i, z
  <2>3. u8 \subseteq S
    OBVIOUS
  <2> HIDE DEF S
  <2> QED BY <2>2, <2>3, Wider
<1>3. /\ e \in Seq(S) /\ Len(e) = 32 /\ s \in Seq(S) /\ Len(s) = 48 /\ c \in Seq(S) /\ Len(c) = 28
  <2>1. e \in Bytes(Byte, 32) /\ s \in Bytes(Byte, 48) /\ c \in Bytes(Byte, 28)
    BY DEF Initiation
  <2>2. Byte \subseteq S
    OBVIOUS
  <2> HIDE DEF e, s, c, S
  <2>3. ASSUME NEW n, NEW x \in Bytes(Byte, n) PROVE x \in Seq(S) /\ Len(x) = n
    BY <2>2, BytesWider
  <2> QED BY <2>1, <2>3, Zenon
<1> HIDE DEF t, i, e, s, c
<1>4. Joined7(S, d, t, i, e, s, c, z, z)
  <2>1. u8 \subseteq S
    OBVIOUS
  <2> HIDE DEF S
  <2> QED BY <1>2, <1>3, <2>1, HandshakeParts, Zenon
<1> HIDE DEF d, S, z, index
<1>5. /\ d \in Seq(S) /\ Len(d) = 148 /\ SubSeq(d, 1, 4) = t /\ take(d, 4, 4) = i
      /\ take(d, 8, 32) = e /\ take(d, 40, 48) = s /\ take(d, 88, 28) = c
      /\ take(d, 116, 16) = z /\ take(d, 132, 16) = z
  <2>1. /\ Len(t) = 4 /\ Len(t) + Len(i) = 8 /\ Len(t) + Len(i) + Len(e) = 40
        /\ Len(t) + Len(i) + Len(e) + Len(s) = 88
        /\ Len(t) + Len(i) + Len(e) + Len(s) + Len(c) = 116
        /\ Len(t) + Len(i) + Len(e) + Len(s) + Len(c) + Len(z) = 132
        /\ Len(t) + Len(i) + Len(e) + Len(s) + Len(c) + Len(z) + Len(z) = 148
    BY <1>2, <1>3
  <2>2. /\ d \in Seq(S) /\ Len(d) = 148 /\ take(d, 0, Len(t)) = t /\ take(d, 4, Len(i)) = i
        /\ take(d, 8, Len(e)) = e /\ take(d, 40, Len(s)) = s /\ take(d, 88, Len(c)) = c
        /\ take(d, 116, Len(z)) = z /\ take(d, 132, Len(z)) = z
    BY <1>4, <2>1 DEF Joined7
  <2>3. take(d, 0, 4) = SubSeq(d, 1, 4)
    BY DEF take
  <2> QED BY <1>2, <1>3, <2>2, <2>3
<1>6. HandshakeInitiation(d) = [sender_index |-> index, ephemeral |-> e, encrypted_static |-> s,
                                encrypted_timestamp |-> c, mac1 |-> z, mac2 |-> z]
  BY <1>2, <1>5, Zenon DEF HandshakeInitiation
<1>7. type_word(d) = Type(1)
  BY <1>5 DEF type_word, t
<1>8. parse(d) = [kind |-> "HandshakeInitiation", fields |-> HandshakeInitiation(d),
                  alpha |-> take(d, 0, 116), beta |-> take(d, 0, 116 + 16)]
  BY <1>5, <1>7, InitiationCase
<1> QED BY <1>1, <1>5, <1>6, <1>7, <1>8, Zenon DEF InitiationRead, S, index, e, s, c, z

\* How the parser reads a handshake response of the right length.
LEMMA ResponseCase ==
  ASSUME NEW d, type_word(d) = Type(2), Len(d) = 92
  PROVE  parse(d) = [kind |-> "HandshakeResponse", fields |-> HandshakeResponse(d),
                     alpha |-> take(d, 0, 60), beta |-> take(d, 0, 60 + 16)]
<1>1. Type(2) # Type(1) /\ Type(2) # Type(3) /\ Type(2) # Type(4)
  BY Types
<1> QED BY <1>1 DEF parse, Type, HANDSHAKE_RESPONSE_LEN

\* What the parser makes of a message d with the fields f.
ResponseRead(Byte, d, f) ==
  /\ d \in Seq(Byte \cup u8) /\ Len(d) = 92 /\ type_word(d) = Type(2)
  /\ parse(d) = [kind |-> "HandshakeResponse",
                 fields |-> [sender_index |-> f["sender_index"],
                             receiver_index |-> f["receiver_index"],
                             ephemeral |-> f["ephemeral"],
                             encrypted_nothing |-> f["encrypted_nothing"],
                             mac1 |-> zeros(16), mac2 |-> zeros(16)],
                 alpha |-> take(d, 0, 60), beta |-> take(d, 0, 60 + 16)]

\* A response that fits is read as it was written.
LEMMA ResponseParses ==
  ASSUME NEW Byte, NEW out, NEW f, Response(Byte, f), ~ (Len(out) < 92)
  PROVE  ResponseRead(Byte, build_response(out, f), f)
<1> DEFINE S == Byte \cup u8
           index == f["sender_index"]
           peer == f["receiver_index"]
           t == Type(2)
           i == le_bytes4(index)
           r == le_bytes4(peer)
           e == f["ephemeral"]
           n == f["encrypted_nothing"]
           z == zeros(16)
           d == t \o i \o r \o e \o n \o zeros(32)
<1>1. build_response(out, f) = d
  BY Zenon DEF build_response, HANDSHAKE_RESPONSE_LEN, Type
<1>2. /\ t \in Seq(S) /\ i \in Seq(S) /\ r \in Seq(S) /\ Len(t) = 4 /\ Len(i) = 4 /\ Len(r) = 4
      /\ le_u32(i) = index /\ le_u32(r) = peer /\ Len(z) = 16
  <2>1. index \in u32 /\ peer \in u32
    BY DEF Response
  <2> HIDE DEF index, peer
  <2>2. /\ t \in Seq(u8) /\ i \in Seq(u8) /\ r \in Seq(u8) /\ Len(t) = 4 /\ Len(i) = 4 /\ Len(r) = 4
        /\ le_u32(i) = index /\ le_u32(r) = peer /\ Len(z) = 16
    BY <2>1, Types, IndexSurvives, ZeroMacs
  <2> HIDE DEF t, i, r, z
  <2>3. u8 \subseteq S
    OBVIOUS
  <2> HIDE DEF S
  <2> QED BY <2>2, <2>3, Wider
<1>3. e \in Seq(S) /\ Len(e) = 32 /\ n \in Seq(S) /\ Len(n) = 16
  <2>1. e \in Bytes(Byte, 32) /\ n \in Bytes(Byte, 16)
    BY DEF Response
  <2>2. Byte \subseteq S
    OBVIOUS
  <2> HIDE DEF e, n, S
  <2>3. ASSUME NEW k, NEW x \in Bytes(Byte, k) PROVE x \in Seq(S) /\ Len(x) = k
    BY <2>2, BytesWider
  <2> QED BY <2>1, <2>3, Zenon
<1> HIDE DEF t, i, r, e, n
<1>4. Joined7(S, d, t, i, r, e, n, z, z)
  <2>1. u8 \subseteq S
    OBVIOUS
  <2> HIDE DEF S
  <2> QED BY <1>2, <1>3, <2>1, HandshakeParts, Zenon
<1> HIDE DEF d, S, z, index, peer
<1>5. /\ d \in Seq(S) /\ Len(d) = 92 /\ SubSeq(d, 1, 4) = t /\ take(d, 4, 4) = i
      /\ take(d, 8, 4) = r /\ take(d, 12, 32) = e /\ take(d, 44, 16) = n
      /\ take(d, 60, 16) = z /\ take(d, 76, 16) = z
  <2>1. /\ Len(t) = 4 /\ Len(t) + Len(i) = 8 /\ Len(t) + Len(i) + Len(r) = 12
        /\ Len(t) + Len(i) + Len(r) + Len(e) = 44
        /\ Len(t) + Len(i) + Len(r) + Len(e) + Len(n) = 60
        /\ Len(t) + Len(i) + Len(r) + Len(e) + Len(n) + Len(z) = 76
        /\ Len(t) + Len(i) + Len(r) + Len(e) + Len(n) + Len(z) + Len(z) = 92
    BY <1>2, <1>3
  <2>2. /\ d \in Seq(S) /\ Len(d) = 92 /\ take(d, 0, Len(t)) = t /\ take(d, 4, Len(i)) = i
        /\ take(d, 8, Len(r)) = r /\ take(d, 12, Len(e)) = e /\ take(d, 44, Len(n)) = n
        /\ take(d, 60, Len(z)) = z /\ take(d, 76, Len(z)) = z
    BY <1>4, <2>1 DEF Joined7
  <2>3. take(d, 0, 4) = SubSeq(d, 1, 4)
    BY DEF take
  <2> QED BY <1>2, <1>3, <2>2, <2>3
<1>6. HandshakeResponse(d) = [sender_index |-> index, receiver_index |-> peer, ephemeral |-> e,
                              encrypted_nothing |-> n, mac1 |-> z, mac2 |-> z]
  BY <1>2, <1>5, Zenon DEF HandshakeResponse
<1>7. type_word(d) = Type(2)
  BY <1>5 DEF type_word, t
<1>8. parse(d) = [kind |-> "HandshakeResponse", fields |-> HandshakeResponse(d),
                  alpha |-> take(d, 0, 60), beta |-> take(d, 0, 60 + 16)]
  BY <1>5, <1>7, ResponseCase
<1> QED BY <1>1, <1>5, <1>6, <1>7, <1>8, Zenon DEF ResponseRead, S, index, peer, e, n, z

\* How the parser reads a cookie reply of the right length.
LEMMA ReplyCase ==
  ASSUME NEW d, type_word(d) = Type(3), Len(d) = 64
  PROVE  parse(d) = [kind |-> "CookieReply", fields |-> CookieReply(d)]
<1>1. Type(3) # Type(1) /\ Type(3) # Type(2) /\ Type(3) # Type(4)
  BY Types
<1> QED BY <1>1 DEF parse, Type, COOKIE_REPLY_LEN

\* What the parser makes of a message d with the fields f.
ReplyRead(Byte, d, f) ==
  /\ d \in Seq(Byte \cup u8) /\ Len(d) = 64 /\ type_word(d) = Type(3)
  /\ parse(d) = [kind |-> "CookieReply",
                 fields |-> [receiver_index |-> f["receiver_index"],
                             nonce |-> f["nonce"],
                             encrypted_cookie |-> f["encrypted_cookie"]]]

\* A cookie reply that fits is read as it was written.
LEMMA ReplyParses ==
  ASSUME NEW Byte, NEW out, NEW f, Reply(Byte, f), ~ (Len(out) < 64)
  PROVE  ReplyRead(Byte, build_cookie_reply(out, f), f)
<1> DEFINE S == Byte \cup u8
           index == f["receiver_index"]
           t == Type(3)
           i == le_bytes4(index)
           n == f["nonce"]
           c == f["encrypted_cookie"]
           d == t \o i \o n \o c
<1>1. build_cookie_reply(out, f) = d
  BY Zenon DEF build_cookie_reply, COOKIE_REPLY_LEN, Type
<1>2. t \in Seq(S) /\ i \in Seq(S) /\ Len(t) = 4 /\ Len(i) = 4 /\ le_u32(i) = index
  <2>1. index \in u32
    BY DEF Reply
  <2> HIDE DEF index
  <2>2. t \in Seq(u8) /\ i \in Seq(u8) /\ Len(t) = 4 /\ Len(i) = 4 /\ le_u32(i) = index
    BY <2>1, Types, IndexSurvives
  <2> HIDE DEF t, i
  <2>3. u8 \subseteq S
    OBVIOUS
  <2> HIDE DEF S
  <2> QED BY <2>2, <2>3, Wider
<1>3. n \in Seq(S) /\ Len(n) = 24 /\ c \in Seq(S) /\ Len(c) = 32
  <2>1. n \in Bytes(Byte, 24) /\ c \in Bytes(Byte, 32)
    BY DEF Reply
  <2>2. Byte \subseteq S
    OBVIOUS
  <2> HIDE DEF n, c, S
  <2>3. ASSUME NEW k, NEW x \in Bytes(Byte, k) PROVE x \in Seq(S) /\ Len(x) = k
    BY <2>2, BytesWider
  <2> QED BY <2>1, <2>3, Zenon
<1> HIDE DEF t, i, n, c, S, index
<1>4. Joined4(S, d, t, i, n, c)
  BY <1>2, <1>3, FourParts
<1> HIDE DEF d
<1>5. /\ d \in Seq(S) /\ Len(d) = 64 /\ SubSeq(d, 1, 4) = t /\ take(d, 4, 4) = i
      /\ take(d, 8, 24) = n /\ take(d, 32, 32) = c
  <2>1. /\ Len(t) = 4 /\ Len(t) + Len(i) = 8 /\ Len(t) + Len(i) + Len(n) = 32
        /\ Len(t) + Len(i) + Len(n) + Len(c) = 64
    BY <1>2, <1>3
  <2>2. /\ d \in Seq(S) /\ Len(d) = 64 /\ take(d, 0, Len(t)) = t /\ take(d, 4, Len(i)) = i
        /\ take(d, 8, Len(n)) = n /\ take(d, 32, Len(c)) = c
    BY <1>4, <2>1 DEF Joined4
  <2>3. take(d, 0, 4) = SubSeq(d, 1, 4)
    BY DEF take
  <2> QED BY <1>2, <1>3, <2>2, <2>3
<1>6. CookieReply(d) = [receiver_index |-> index, nonce |-> n, encrypted_cookie |-> c]
  BY <1>2, <1>5, Zenon DEF CookieReply
<1>7. type_word(d) = Type(3)
  BY <1>5 DEF type_word, t
<1>8. parse(d) = [kind |-> "CookieReply", fields |-> CookieReply(d)]
  BY <1>5, <1>7, ReplyCase
<1> QED BY <1>1, <1>5, <1>6, <1>7, <1>8, Zenon DEF ReplyRead, S, index, n, c

\* A message d is read as it was written, with its MACs where the sender put
\* them, and the parser refuses its variants.
Macs(d, F) ==
  /\ F["mac1"] = zeros(16) /\ F["mac2"] = zeros(16)
  /\ parse(d).alpha = mac_slots(d).alpha
  /\ parse(d).beta = mac_slots(d).alpha \o mac_slots(d).mac1
  /\ d = parse(d).beta \o mac_slots(d).mac2
Reads(kind, d, f, F) ==
  /\ ReadAs(kind, d, f, F)
  /\ kind \in {"HandshakeInitiation", "HandshakeResponse"} => Macs(d, F)
  /\ TypeSpoiled(d) /\ (kind # "TransportData" => NotItsLength(d))

\* That is all Parses asks for.
LEMMA ReadsBuilt ==
  ASSUME NEW kind, NEW out, NEW f, NEW F, Reads(kind, Builder(kind, out, f), f, F)
  PROVE  Parses(kind, out, f)
<1> DEFINE d == Builder(kind, out, f)
<1> HIDE DEF d
<1>1. Reads(kind, d, f, F)
  BY DEF d
<1>2. PeekedAs(kind, d, f, F)
  <2>1. ReadAs(kind, d, f, F)
    BY <1>1 DEF Reads
  <2> QED BY <2>1, PeekAgrees
<1> QED
  BY <1>1, <1>2, Zenon
     DEF Parses, Reads, ReadAs, PeekedAs, Macs, TypeSpoiled, NotItsLength, d

\* An initiation that fits.
LEMMA InitiationBuilt ==
  ASSUME NEW Byte, NEW out, NEW f, Initiation(Byte, f), ~ (Len(out) < 148)
  PROVE  \E F : Reads("HandshakeInitiation", build_initiation(out, f), f, F)
<1> DEFINE d == build_initiation(out, f)
           S == Byte \cup u8
           F == [sender_index |-> f["sender_index"], ephemeral |-> f["ephemeral"],
                 encrypted_static |-> f["encrypted_static"],
                 encrypted_timestamp |-> f["encrypted_timestamp"],
                 mac1 |-> zeros(16), mac2 |-> zeros(16)]
<1>1. /\ d \in Seq(S) /\ Len(d) = 148 /\ type_word(d) = Type(1)
      /\ parse(d) = [kind |-> "HandshakeInitiation", fields |-> F,
                     alpha |-> take(d, 0, 116), beta |-> take(d, 0, 116 + 16)]
  <2>1. InitiationRead(Byte, d, f)
    BY InitiationParses
  <2> QED BY <2>1, Zenon DEF InitiationRead
<1>2. 0 \in S /\ 1 \in S
  BY DEF u8
<1>3. \A name \in DOMAIN F \ {"mac1", "mac2"} : F[name] = f[name]
  OBVIOUS
<1>4. F["mac1"] = zeros(16) /\ F["mac2"] = zeros(16)
  OBVIOUS
<1> HIDE DEF d, S, F
<1>5. TypeSpoiled(d)
  <2>1. d \in Seq(S) /\ Len(d) >= 4
    BY <1>1
  <2> QED BY <1>2, <2>1, TypeRefused, Zenon
<1>6. NotItsLength(d)
  <2> DEFINE t == 1
  <2>1. t \in 1 .. 3 /\ MessageLen(t) = 148
    BY DEF MessageLen
  <2>2. type_word(d) = Type(t)
    BY <1>1
  <2> HIDE DEF t
  <2>3. d \in Seq(S) /\ 0 \in S /\ Len(d) = MessageLen(t)
    BY <1>1, <1>2, <2>1
  <2> QED BY <2>1, <2>2, <2>3, LengthRefused, Zenon
<1>7. Macs(d, F)
  <2>1. /\ mac_slots(d).alpha = take(d, 0, 116)
        /\ take(d, 0, 116 + 16) = mac_slots(d).alpha \o mac_slots(d).mac1
        /\ d = take(d, 0, 116 + 16) \o mac_slots(d).mac2
    <3> DEFINE k == 116
    <3>1. k \in Nat /\ Len(d) = k + 32 /\ Len(d) \in {148, 92}
      BY <1>1
    <3> HIDE DEF k
    <3>2. d \in Seq(S)
      BY <1>1
    <3>3. Slotted(d, k)
      BY <3>1, <3>2, SlotsAgree
    <3> QED BY <3>3, Zenon DEF Slotted, k
  <2>2. parse(d).alpha = take(d, 0, 116) /\ parse(d).beta = take(d, 0, 116 + 16)
    <3> DEFINE m == parse(d)
               a == take(d, 0, 116)
               b == take(d, 0, 116 + 16)
    <3>1. m = [kind |-> "HandshakeInitiation", fields |-> F, alpha |-> a, beta |-> b]
      BY <1>1
    <3> HIDE DEF m, a, b
    <3>2. m.alpha = a /\ m.beta = b
      BY <3>1
    <3> QED BY <3>2 DEF m, a, b
  <2> QED BY <1>4, <2>1, <2>2, Zenon DEF Macs
<1>8. parse(d).kind = "HandshakeInitiation" /\ parse(d).fields = F
  BY <1>1
<1>9. Reads("HandshakeInitiation", d, f, F)
  BY <1>3, <1>5, <1>6, <1>7, <1>8 DEF Reads, ReadAs
<1> QED BY <1>9 DEF d
\* A response that fits.
LEMMA ResponseBuilt ==
  ASSUME NEW Byte, NEW out, NEW f, Response(Byte, f), ~ (Len(out) < 92)
  PROVE  \E F : Reads("HandshakeResponse", build_response(out, f), f, F)
<1> DEFINE d == build_response(out, f)
           S == Byte \cup u8
           F == [sender_index |-> f["sender_index"], receiver_index |-> f["receiver_index"],
                 ephemeral |-> f["ephemeral"], encrypted_nothing |-> f["encrypted_nothing"],
                 mac1 |-> zeros(16), mac2 |-> zeros(16)]
<1>1. /\ d \in Seq(S) /\ Len(d) = 92 /\ type_word(d) = Type(2)
      /\ parse(d) = [kind |-> "HandshakeResponse", fields |-> F,
                     alpha |-> take(d, 0, 60), beta |-> take(d, 0, 60 + 16)]
  <2>1. ResponseRead(Byte, d, f)
    BY ResponseParses
  <2> QED BY <2>1, Zenon DEF ResponseRead
<1>2. 0 \in S /\ 1 \in S
  BY DEF u8
<1>3. \A name \in DOMAIN F \ {"mac1", "mac2"} : F[name] = f[name]
  OBVIOUS
<1>4. F["mac1"] = zeros(16) /\ F["mac2"] = zeros(16)
  OBVIOUS
<1> HIDE DEF d, S, F
<1>5. TypeSpoiled(d)
  <2>1. d \in Seq(S) /\ Len(d) >= 4
    BY <1>1
  <2> QED BY <1>2, <2>1, TypeRefused, Zenon
<1>6. NotItsLength(d)
  <2> DEFINE t == 2
  <2>1. t \in 1 .. 3 /\ MessageLen(t) = 92
    BY DEF MessageLen
  <2>2. type_word(d) = Type(t)
    BY <1>1
  <2> HIDE DEF t
  <2>3. d \in Seq(S) /\ 0 \in S /\ Len(d) = MessageLen(t)
    BY <1>1, <1>2, <2>1
  <2> QED BY <2>1, <2>2, <2>3, LengthRefused, Zenon
<1>7. Macs(d, F)
  <2>1. /\ mac_slots(d).alpha = take(d, 0, 60)
        /\ take(d, 0, 60 + 16) = mac_slots(d).alpha \o mac_slots(d).mac1
        /\ d = take(d, 0, 60 + 16) \o mac_slots(d).mac2
    <3> DEFINE k == 60
    <3>1. k \in Nat /\ Len(d) = k + 32 /\ Len(d) \in {148, 92}
      BY <1>1
    <3> HIDE DEF k
    <3>2. d \in Seq(S)
      BY <1>1
    <3>3. Slotted(d, k)
      BY <3>1, <3>2, SlotsAgree
    <3> QED BY <3>3, Zenon DEF Slotted, k
  <2>2. parse(d).alpha = take(d, 0, 60) /\ parse(d).beta = take(d, 0, 60 + 16)
    <3> DEFINE m == parse(d)
               a == take(d, 0, 60)
               b == take(d, 0, 60 + 16)
    <3>1. m = [kind |-> "HandshakeResponse", fields |-> F, alpha |-> a, beta |-> b]
      BY <1>1
    <3> HIDE DEF m, a, b
    <3>2. m.alpha = a /\ m.beta = b
      BY <3>1
    <3> QED BY <3>2 DEF m, a, b
  <2> QED BY <1>4, <2>1, <2>2, Zenon DEF Macs
<1>8. parse(d).kind = "HandshakeResponse" /\ parse(d).fields = F
  BY <1>1
<1>9. Reads("HandshakeResponse", d, f, F)
  BY <1>3, <1>5, <1>6, <1>7, <1>8 DEF Reads, ReadAs
<1> QED BY <1>9 DEF d
\* A cookie reply that fits.
LEMMA ReplyBuilt ==
  ASSUME NEW Byte, NEW out, NEW f, Reply(Byte, f), ~ (Len(out) < 64)
  PROVE  \E F : Reads("CookieReply", build_cookie_reply(out, f), f, F)
<1> DEFINE d == build_cookie_reply(out, f)
           S == Byte \cup u8
           F == [receiver_index |-> f["receiver_index"], nonce |-> f["nonce"],
                 encrypted_cookie |-> f["encrypted_cookie"]]
<1>1. /\ d \in Seq(S) /\ Len(d) = 64 /\ type_word(d) = Type(3)
      /\ parse(d) = [kind |-> "CookieReply", fields |-> F]
  <2>1. ReplyRead(Byte, d, f)
    BY ReplyParses
  <2> QED BY <2>1, Zenon DEF ReplyRead
<1>2. 0 \in S /\ 1 \in S
  BY DEF u8
<1>3. \A name \in DOMAIN F \ {"mac1", "mac2"} : F[name] = f[name]
  OBVIOUS
<1> HIDE DEF d, S, F
<1>4. TypeSpoiled(d)
  <2>1. d \in Seq(S) /\ Len(d) >= 4
    BY <1>1
  <2> QED BY <1>2, <2>1, TypeRefused, Zenon
<1>5. NotItsLength(d)
  <2> DEFINE t == 3
  <2>1. t \in 1 .. 3 /\ MessageLen(t) = 64
    BY DEF MessageLen
  <2>2. type_word(d) = Type(t)
    BY <1>1
  <2> HIDE DEF t
  <2>3. d \in Seq(S) /\ 0 \in S /\ Len(d) = MessageLen(t)
    BY <1>1, <1>2, <2>1
  <2> QED BY <2>1, <2>2, <2>3, LengthRefused, Zenon
<1>6. parse(d).kind = "CookieReply" /\ parse(d).fields = F
  BY <1>1
<1>7. Reads("CookieReply", d, f, F)
  BY <1>3, <1>4, <1>5, <1>6 DEF Reads, ReadAs
<1> QED BY <1>7 DEF d

\* A transport header, in front of what the buffer held.
LEMMA TransportBuilt ==
  ASSUME NEW Byte, NEW out \in Seq(Byte), NEW f, Transport(f), ~ (Len(out) < 32)
  PROVE  \E F : Reads("TransportData", write_transport_header(out, f), f, F)
<1> DEFINE S == Byte \cup u8
           index == f["receiver_index"]
           counter == f["counter"]
           n == Len(out)
           w == SubSeq(out, 17, n)
           d == Header(index, counter) \o w
           F == [receiver_index |-> f["receiver_index"], counter |-> f["counter"]]
<1>1. write_transport_header(out, f) = d
  BY Zenon DEF write_transport_header, Header, Type, TRANSPORT_OVERHEAD
<1>2. index \in u32 /\ counter \in u64
  BY DEF Transport
<1>3. w \in Seq(Byte) /\ Len(w) >= 16
  <2>1. n \in Nat /\ 17 \in Nat \ {0} /\ 17 <= n + 1 /\ n <= Len(out) /\ n - 17 + 1 >= 16
    BY LenProperties
  <2> HIDE DEF n
  <2>2. w \in Seq(Byte) /\ Len(w) = n - 17 + 1
    BY <2>1, Part
  <2> QED BY <2>1, <2>2
<1>4. u8 \subseteq S /\ Byte \subseteq S /\ 1 \in S
  BY DEF u8
<1>5. \A name \in DOMAIN F \ {"mac1", "mac2"} : F[name] = f[name]
  OBVIOUS
<1> HIDE DEF w, S
<1>6. w \in Seq(S)
  BY <1>3, <1>4, Wider
<1>7. /\ d \in Seq(S) /\ Len(d) = 16 + Len(w)
      /\ parse(d) = [kind |-> "TransportData", fields |-> F, ciphertext |-> w]
  <2> HIDE DEF index, counter
  <2>1. /\ d \in Seq(S) /\ Len(d) = 16 + Len(w)
        /\ parse(d) = [kind |-> "TransportData",
                       fields |-> [receiver_index |-> index, counter |-> counter],
                       ciphertext |-> w]
    BY <1>2, <1>3, <1>4, <1>6, TransportParses
  <2> QED BY <2>1, Zenon DEF index, counter
<1> HIDE DEF d, F
<1>8. TypeSpoiled(d)
  <2>1. d \in Seq(S) /\ Len(d) >= 4
    BY <1>3, <1>7, LenProperties
  <2> QED BY <1>4, <2>1, TypeRefused, Zenon
<1>9. parse(d).kind = "TransportData" /\ parse(d).fields = F
  BY <1>7
<1>10. Reads("TransportData", d, f, F)
  BY <1>5, <1>8, <1>9 DEF Reads, ReadAs
<1> QED BY <1>1, <1>10

\* Every message a builder writes is read as it was written: for every index,
\* counter and field, and every buffer, large enough or not.
THEOREM BuiltMessagesParse ==
  ASSUME NEW Byte, NEW out \in Seq(Byte), NEW kind, NEW f,
         \/ kind = "HandshakeInitiation" /\ Initiation(Byte, f)
         \/ kind = "HandshakeResponse" /\ Response(Byte, f)
         \/ kind = "CookieReply" /\ Reply(Byte, f)
         \/ kind = "TransportData" /\ Transport(f)
  PROVE  Parses(kind, out, f)
<1>1. CASE kind = "HandshakeInitiation" /\ Initiation(Byte, f)
  <2>1. Builder(kind, out, f) = build_initiation(out, f)
    BY <1>1 DEF Builder
  <2>2. CASE Len(out) < 148
    <3>1. Builder(kind, out, f) = BufferTooSmall
      BY <2>1, <2>2, Zenon DEF build_initiation, HANDSHAKE_INITIATION_LEN
    <3> QED BY <3>1, Zenon DEF Parses
  <2>3. CASE ~ (Len(out) < 148)
    <3>1. PICK F : Reads(kind, build_initiation(out, f), f, F)
      BY <1>1, <2>3, InitiationBuilt
    <3> QED BY <2>1, <3>1, ReadsBuilt
  <2> QED BY <2>2, <2>3
<1>2. CASE kind = "HandshakeResponse" /\ Response(Byte, f)
  <2>1. Builder(kind, out, f) = build_response(out, f)
    BY <1>2 DEF Builder
  <2>2. CASE Len(out) < 92
    <3>1. Builder(kind, out, f) = BufferTooSmall
      BY <2>1, <2>2, Zenon DEF build_response, HANDSHAKE_RESPONSE_LEN
    <3> QED BY <3>1, Zenon DEF Parses
  <2>3. CASE ~ (Len(out) < 92)
    <3>1. PICK F : Reads(kind, build_response(out, f), f, F)
      BY <1>2, <2>3, ResponseBuilt
    <3> QED BY <2>1, <3>1, ReadsBuilt
  <2> QED BY <2>2, <2>3
<1>3. CASE kind = "CookieReply" /\ Reply(Byte, f)
  <2>1. Builder(kind, out, f) = build_cookie_reply(out, f)
    BY <1>3 DEF Builder
  <2>2. CASE Len(out) < 64
    <3>1. Builder(kind, out, f) = BufferTooSmall
      BY <2>1, <2>2, Zenon DEF build_cookie_reply, COOKIE_REPLY_LEN
    <3> QED BY <3>1, Zenon DEF Parses
  <2>3. CASE ~ (Len(out) < 64)
    <3>1. PICK F : Reads(kind, build_cookie_reply(out, f), f, F)
      BY <1>3, <2>3, ReplyBuilt
    <3> QED BY <2>1, <3>1, ReadsBuilt
  <2> QED BY <2>2, <2>3
<1>4. CASE kind = "TransportData" /\ Transport(f)
  <2>1. Builder(kind, out, f) = write_transport_header(out, f)
    BY <1>4 DEF Builder
  <2>2. CASE Len(out) < 32
    <3>1. Builder(kind, out, f) = BufferTooSmall
      BY <2>1, <2>2, Zenon DEF write_transport_header, TRANSPORT_OVERHEAD
    <3> QED BY <3>1, Zenon DEF Parses
  <2>3. CASE ~ (Len(out) < 32)
    <3>1. PICK F : Reads(kind, write_transport_header(out, f), f, F)
      BY <1>4, <2>3, TransportBuilt
    <3> QED BY <2>1, <3>1, ReadsBuilt
  <2> QED BY <2>2, <2>3
<1> QED BY <1>1, <1>2, <1>3, <1>4

-----------------------------------------------------------------------------
(* Sealing and opening *)

\* A pad that is put on twice is off again.
LEMMA XoredTwice ==
  ASSUME NEW Byte, NEW c \in Plains(Byte), NEW p
  PROVE  /\ AEAD!xored(AEAD!xored(c, p), p) = c
         /\ AEAD!xored(c, p).pads = {p} /\ "pads" \in DOMAIN AEAD!xored(c, p)
<1>1. PICK b \in Byte : c = [byte |-> b, pads |-> {}]
  BY DEF Plains, AEAD!Plain
<1>2. AEAD!xored(c, p) = [byte |-> b, pads |-> {p}]
  BY <1>1 DEF AEAD!xored
<1>3. AEAD!xored([byte |-> b, pads |-> {p}], p) = [byte |-> b, pads |-> {}]
  BY DEF AEAD!xored
<1> QED BY <1>1, <1>2, <1>3

\* The pad of the i-th byte.
Pad(key, nonce, i) == <<key, nonce, 1 + (i - 1) \div 64, i>>

\* Cells under one pad each.
Sealed(key, nonce, pt) == [i \in 1 .. Len(pt) |-> AEAD!xored(pt[i], Pad(key, nonce, i))]

\* apply_keystream from block 1 puts its pad on every byte, and takes it off again.
LEMMA StreamTwice ==
  ASSUME NEW Byte, NEW pt \in Seq(Plains(Byte)), NEW key, NEW nonce
  PROVE  LET ct == AEAD!apply_keystream(key, nonce, 1, pt)
         IN  /\ ct = Sealed(key, nonce, pt)
             /\ DOMAIN ct = 1 .. Len(pt) /\ Len(ct) = Len(pt)
             /\ AEAD!apply_keystream(key, nonce, 1, ct) = pt
             /\ \A i \in 1 .. Len(pt) : ct[i].pads = {Pad(key, nonce, i)} /\ "pads" \in DOMAIN ct[i]
<1> DEFINE n == Len(pt)
           ct == AEAD!apply_keystream(key, nonce, 1, pt)
<1>1. n \in Nat /\ pt \in [1 .. n -> Plains(Byte)]
  BY LenProperties
<1>2. ct = [i \in 1 .. n |-> AEAD!xored(pt[i], Pad(key, nonce, i))]
  BY Zenon DEF AEAD!apply_keystream, AEAD!KEYSTREAM_BLOCK, Pad
<1>3. DOMAIN ct = 1 .. n /\ Len(ct) = n
  BY <1>1, <1>2
<1>4. AEAD!apply_keystream(key, nonce, 1, ct)
        = [i \in 1 .. n |-> AEAD!xored(ct[i], Pad(key, nonce, i))]
  BY <1>3, Zenon DEF AEAD!apply_keystream, AEAD!KEYSTREAM_BLOCK, Pad
<1> HIDE DEF n, ct
<1>5. ASSUME NEW i \in 1 .. n
      PROVE  /\ AEAD!xored(ct[i], Pad(key, nonce, i)) = pt[i]
             /\ ct[i].pads = {Pad(key, nonce, i)} /\ "pads" \in DOMAIN ct[i]
  <2>1. pt[i] \in Plains(Byte)
    BY <1>1
  <2>2. ct[i] = AEAD!xored(pt[i], Pad(key, nonce, i))
    BY <1>2, Zenon
  <2> HIDE DEF Pad
  <2> QED BY <2>1, <2>2, XoredTwice
<1>6. pt = [i \in 1 .. n |-> pt[i]]
  BY <1>1
<1>7. AEAD!apply_keystream(key, nonce, 1, ct) = pt
  BY <1>4, <1>5, <1>6, Zenon
<1> QED BY <1>2, <1>3, <1>5, <1>7 DEF n, ct, Sealed

\* The buffer beyond what is written, whatever was written before.
LEMMA OverOver ==
  ASSUME NEW S, NEW out \in Seq(S), NEW d \in Seq(S), NEW e \in Seq(S),
         Len(d) <= Len(e), Len(e) <= Len(out)
  PROVE  /\ AEAD!over(out, d) \in Seq(S) /\ Len(AEAD!over(out, d)) = Len(out)
         /\ AEAD!over(AEAD!over(out, d), e) = AEAD!over(out, e)
         /\ SubSeq(AEAD!over(out, d), 1, Len(d)) = d
         /\ SubSeq(AEAD!over(out, d), Len(d) + 1, Len(out)) = SubSeq(out, Len(d) + 1, Len(out))
<1> DEFINE n == Len(d)
           k == Len(e)
           m == Len(out)
           r == SubSeq(out, n + 1, m)
           o == d \o r
<1>1. n \in Nat /\ k \in Nat /\ m \in Nat /\ n <= k /\ k <= m
  BY LenProperties
<1>2. \A i \in 1 .. m : out[i] \in S
  BY ElementOfSeq
<1>3. /\ r \in Seq(S) /\ Len(r) = m - n
      /\ \A i \in 1 .. m - n : r[i] = out[n + i]
  <2> HIDE DEF n, m
  <2>1. \A i \in n + 1 .. m : out[i] \in S
    BY <1>1, <1>2
  <2> DEFINE a == n + 1
  <2>2. a \in Int /\ m \in Int /\ m - a + 1 = m - n
    BY <1>1
  <2>3. \A i \in a .. m : out[i] \in S
    BY <2>1
  <2> HIDE DEF a
  <2>4. /\ SubSeq(out, a, m) \in Seq(S)
        /\ Len(SubSeq(out, a, m)) = IF a <= m THEN m - a + 1 ELSE 0
        /\ \A i \in 1 .. m - a + 1 : SubSeq(out, a, m)[i] = out[a + i - 1]
    BY <2>2, <2>3, SubSeqProperties
  <2>5. \A i \in 1 .. m - n : SubSeq(out, a, m)[i] = out[n + i]
    <3> TAKE i \in 1 .. m - n
    <3>1. a + i - 1 = n + i /\ i \in 1 .. m - a + 1
      BY <1>1 DEF a
    <3> QED BY <3>1, <2>4
  <2>6. Len(SubSeq(out, a, m)) = m - n
    BY <2>4, <2>2, <1>1 DEF a
  <2> QED BY <2>4, <2>5, <2>6 DEF a
<1> HIDE DEF r
<1>4. /\ o \in Seq(S) /\ Len(o) = m
      /\ \A i \in 1 .. m : o[i] = IF i <= n THEN d[i] ELSE r[i - n]
  <2>1. /\ o \in Seq(S) /\ Len(o) = n + Len(r)
        /\ \A i \in 1 .. n + Len(r) : o[i] = IF i <= n THEN d[i] ELSE r[i - n]
    BY <1>3, ConcatProperties
  <2>2. n + Len(r) = m
    BY <1>1, <1>3
  <2> QED BY <2>1, <2>2
<1>5. AEAD!over(out, d) = o
  BY DEF AEAD!over, r
<1>6. SubSeq(o, 1, n) = d /\ SubSeq(o, n + 1, m) = r
  <2>1. SubSeq(o, n + 1, n + Len(r)) = r /\ SubSeq(o, 1, n) = d
    BY <1>3, CutConcat
  <2>2. n + Len(r) = m
    BY <1>1, <1>3
  <2> QED BY <2>1, <2>2
<1> HIDE DEF o
<1>7. SubSeq(o, k + 1, m) = SubSeq(out, k + 1, m)
  <2> HIDE DEF n, k, m
  <2> DEFINE a == k + 1
             v == SubSeq(o, a, m)
             w == SubSeq(out, a, m)
  <2>1. \A i \in 1 .. m : o[i] \in S
    BY <1>4, ElementOfSeq
  <2>2. a \in Int /\ m \in Int /\ \A i \in a .. m : o[i] \in S /\ out[i] \in S
    BY <1>1, <1>2, <2>1
  <2> HIDE DEF a
  <2>3. /\ v \in Seq(S) /\ Len(v) = IF a <= m THEN m - a + 1 ELSE 0
        /\ \A i \in 1 .. m - a + 1 : v[i] = o[a + i - 1]
    BY <2>2, SubSeqProperties
  <2>4. /\ w \in Seq(S) /\ Len(w) = IF a <= m THEN m - a + 1 ELSE 0
        /\ \A i \in 1 .. m - a + 1 : w[i] = out[a + i - 1]
    BY <2>2, SubSeqProperties
  <2> HIDE DEF v, w
  <2>5. ASSUME NEW i \in 1 .. Len(v) PROVE v[i] = w[i]
    <3> DEFINE j == a + i - 1
    <3>1. /\ i \in 1 .. m - a + 1 /\ j \in 1 .. m /\ ~ (j <= n) /\ j - n \in 1 .. m - n
          /\ n + (j - n) = j
      BY <2>2, <2>3, <1>1 DEF a
    <3>2. v[i] = o[j] /\ w[i] = out[j]
      BY <3>1, <2>3, <2>4
    <3> HIDE DEF j
    <3>3. o[j] = r[j - n] /\ r[j - n] = out[n + (j - n)]
      BY <3>1, <1>3, <1>4
    <3> QED BY <3>1, <3>2, <3>3
  <2>6. v = w
    BY <2>3, <2>4, <2>5, SeqEqual
  <2> QED BY <2>6 DEF v, w, a
<1>8. AEAD!over(AEAD!over(out, d), e) = AEAD!over(out, e)
  <2>1. AEAD!over(o, e) = e \o SubSeq(o, k + 1, Len(o))
    BY Zenon DEF AEAD!over
  <2>2. AEAD!over(out, e) = e \o SubSeq(out, k + 1, m)
    BY Zenon DEF AEAD!over
  <2> QED BY <1>4, <1>5, <1>7, <2>1, <2>2, Zenon
<1> QED BY <1>3, <1>4, <1>5, <1>6, <1>8 DEF r

\* The ciphertext and its tag.
Ciphertext(key, nonce, pt) == AEAD!apply_keystream(key, nonce, 1, pt)
TagOf(key, nonce, aad, ct) == AEAD!compute_tag(AEAD!poly_key(key, nonce), aad, ct)
Whole(key, nonce, aad, pt) ==
  Ciphertext(key, nonce, pt) \o TagOf(key, nonce, aad, Ciphertext(key, nonce, pt))

\* All cells that a seal and its buffers are about.
Cells(Byte, Old, key, nonce, aad, pt) ==
  LET ct == Ciphertext(key, nonce, pt)
      tag == TagOf(key, nonce, aad, ct)
  IN  Plains(Byte) \cup Old \cup {ct[i] : i \in 1 .. Len(pt)} \cup {tag[i] : i \in 1 .. 16}

\* Ciphertext, tag, plaintext and buffers are sequences of such cells.
LEMMA SealTypes ==
  ASSUME NEW Byte, NEW Old, NEW pt \in Seq(Plains(Byte)), NEW out \in Seq(Old),
         NEW key, NEW nonce, NEW aad
  PROVE  LET S == Cells(Byte, Old, key, nonce, aad, pt)
             ct == Ciphertext(key, nonce, pt)
             tag == TagOf(key, nonce, aad, ct)
         IN  /\ pt \in Seq(S) /\ out \in Seq(S)
             /\ ct \in Seq(S) /\ Len(ct) = Len(pt)
             /\ tag \in Seq(S) /\ Len(tag) = 16
             /\ Whole(key, nonce, aad, pt) \in Seq(S)
             /\ Len(Whole(key, nonce, aad, pt)) = Len(pt) + 16
<1> DEFINE S == Cells(Byte, Old, key, nonce, aad, pt)
           ct == Ciphertext(key, nonce, pt)
           tag == TagOf(key, nonce, aad, ct)
           n == Len(pt)
<1>1. n \in Nat
  BY LenProperties
<1>2. pt \in Seq(S) /\ out \in Seq(S)
  <2>1. Plains(Byte) \subseteq S /\ Old \subseteq S
    BY DEF Cells
  <2> HIDE DEF S
  <2> QED BY <2>1, SeqMonotonic
<1>3. ct \in Seq(S) /\ Len(ct) = n
  <2>1. ct = Sealed(key, nonce, pt)
    BY StreamTwice DEF Ciphertext
  <2>2. ct = [i \in 1 .. n |-> ct[i]]
    BY <2>1 DEF Sealed
  <2>3. \A i \in 1 .. n : ct[i] \in S
    BY DEF Cells
  <2> HIDE DEF ct, S, n
  <2>4. ct \in [1 .. n -> S]
    BY <2>2, <2>3
  <2> QED BY <1>1, <2>4, AsSeq
<1>4. tag \in Seq(S) /\ Len(tag) = 16
  <2>2. tag = [i \in 1 .. 16 |-> tag[i]]
    BY DEF TagOf, AEAD!compute_tag
  <2>3. \A i \in 1 .. 16 : tag[i] \in S
    BY DEF Cells
  <2> HIDE DEF tag, S
  <2>4. tag \in [1 .. 16 -> S]
    BY <2>2, <2>3
  <2>5. 16 \in Nat
    OBVIOUS
  <2> QED BY <2>4, <2>5, AsSeq, Zenon
<1> HIDE DEF S, ct, tag, n
<1>5. ct \o tag \in Seq(S) /\ Len(ct \o tag) = n + 16
  BY <1>3, <1>4, CutConcat
<1> QED BY <1>2, <1>3, <1>4, <1>5 DEF S, ct, tag, n, Whole

\* seal_with writes ciphertext and tag, and open_with gives the plaintext back.
LEMMA SealOpen ==
  ASSUME NEW Byte, NEW Old, NEW pt \in Seq(Plains(Byte)), NEW out \in Seq(Old),
         NEW key, NEW nonce, NEW aad, Len(pt) + 16 <= Len(out)
  PROVE  LET m == Whole(key, nonce, aad, pt)
             n == Len(pt)
         IN  /\ AEAD!seal_with(key, nonce, aad, pt, out) = AEAD!Ok(n + 16, AEAD!over(out, m))
             /\ SubSeq(AEAD!over(out, m), 1, n + 16) = m
             /\ AEAD!open_with(key, nonce, aad, m, out) = AEAD!Ok(n, AEAD!over(out, pt))
<1> DEFINE S == Cells(Byte, Old, key, nonce, aad, pt)
           ct == Ciphertext(key, nonce, pt)
           tag == TagOf(key, nonce, aad, ct)
           n == Len(pt)
           m == ct \o tag
<1>1. /\ pt \in Seq(S) /\ out \in Seq(S) /\ ct \in Seq(S) /\ Len(ct) = n
      /\ tag \in Seq(S) /\ Len(tag) = 16 /\ m \in Seq(S) /\ Len(m) = n + 16
  BY SealTypes DEF Whole
<1>2. n \in Nat /\ Len(out) \in Nat
  BY LenProperties
<1>3. AEAD!seal_with(key, nonce, aad, pt, out) = AEAD!Ok(n + 16, AEAD!over(out, m))
  <2>1. ~ (n + 16 > Len(out))
    BY <1>2
  <2> QED BY <2>1, Zenon DEF AEAD!seal_with, Ciphertext, TagOf
<1> HIDE DEF S, ct, tag
<1>4. SubSeq(m, 1, n) = ct /\ SubSeq(m, n + 1, n + 16) = tag
  <2>1. SubSeq(ct \o tag, 1, Len(ct)) = ct /\ SubSeq(ct \o tag, Len(ct) + 1, Len(ct) + Len(tag)) = tag
    <3>1. ct \in Seq(S) /\ tag \in Seq(S)
      BY <1>1
    <3> HIDE DEF m, n
    <3> QED BY <3>1, CutConcat
  <2> QED BY <1>1, <2>1
<1> HIDE DEF m
<1>5. SubSeq(AEAD!over(out, m), 1, n + 16) = m
  <2>1. Len(m) <= Len(m) /\ Len(m) <= Len(out)
    BY <1>1, <1>2
  <2>2. SubSeq(AEAD!over(out, m), 1, Len(m)) = m
    <3>1. out \in Seq(S) /\ m \in Seq(S)
      BY <1>1
    <3> QED BY <3>1, <2>1, OverOver
  <2> QED BY <1>1, <2>2
<1>6. AEAD!open_with(key, nonce, aad, m, out) = AEAD!Ok(n, AEAD!over(out, pt))
  <2>1. Len(m) - 16 = n /\ ~ (n < 0) /\ ~ (n > Len(out)) /\ Len(m) = n + 16
    BY <1>1, <1>2
  <2>2. AEAD!compute_tag(AEAD!poly_key(key, nonce), aad, ct) = tag
    BY DEF tag, TagOf
  <2>3. AEAD!apply_keystream(key, nonce, 1, ct) = pt
    BY StreamTwice DEF ct, Ciphertext
  <2> HIDE DEF n
  <2> QED BY <1>4, <2>1, <2>2, <2>3, Zenon DEF AEAD!open_with
<1> QED BY <1>3, <1>5, <1>6 DEF m, ct, tag, Whole

\* Data put over a buffer makes it no longer than the longer of the two.
LEMMA OverLen ==
  ASSUME NEW D, NEW d \in Seq(D), NEW O, NEW out \in Seq(O)
  PROVE  Len(AEAD!over(out, d)) = IF Len(d) <= Len(out) THEN Len(out) ELSE Len(d)
<1> DEFINE S == D \cup O
           r == SubSeq(out, Len(d) + 1, Len(out))
<1>1. d \in Seq(S) /\ out \in Seq(S)
  BY Wider
<1>2. Len(d) \in Nat /\ Len(out) \in Nat
  BY LenProperties
<1> HIDE DEF S
<1>3. r \in Seq(S) /\ Len(r) = IF Len(d) + 1 <= Len(out) THEN Len(out) - (Len(d) + 1) + 1 ELSE 0
  <2>1. \A i \in (Len(d) + 1) .. Len(out) : out[i] \in S
    BY <1>1, <1>2, ElementOfSeq
  <2> QED BY <1>2, <2>1, SubSeqProperties
<1> HIDE DEF r
<1>4. Len(d \o r) = Len(d) + Len(r)
  BY <1>1, <1>3, CutConcat
<1>5. AEAD!over(out, d) = d \o r
  BY Zenon DEF AEAD!over, r
<1> QED BY <1>2, <1>3, <1>4, <1>5

\* What is sealed opens again: copied, in place, or under an extended nonce, for every
\* key, nonce, additional data, plaintext and buffer.  Nothing beyond the message is
\* written, no byte is encrypted under block 0, and a buffer that is too small is left
\* as it was (aead.rs).
THEOREM SealOpensAgain ==
  ASSUME NEW Byte, NEW Old, NEW pt \in Seq(Plains(Byte)), NEW out \in Seq(Old),
         NEW key, NEW nonce, NEW aad
  PROVE  AEAD!SealedOpens(key, nonce, aad, pt, out)
<1> DEFINE s == AEAD!seal_with(key, nonce, aad, pt, out)
           xn == <<nonce, nonce>>
           d == AEAD!xchacha_derive(key, xn)
           x == AEAD!xseal(key, xn, aad, pt, out)
           in_place == AEAD!seal_in_place_with(key, nonce, aad, Len(pt), AEAD!over(out, pt))
           n == Len(pt)
<1>1. n \in Nat /\ Len(out) \in Nat
  BY LenProperties
<1>2. x = AEAD!seal_with(d.key, d.nonce, aad, pt, out)
  BY Zenon DEF AEAD!xseal
<1>3. CASE n + 16 > Len(out)
  <2>1. s = AEAD!Err("BufferTooSmall", out)
    BY <1>3, Zenon DEF AEAD!seal_with
  <2>2. x = AEAD!Err("BufferTooSmall", out)
    BY <1>2, <1>3, Zenon DEF AEAD!seal_with
  <2>3. in_place = AEAD!Err("BufferTooSmall", AEAD!over(out, pt))
    <3>1. n + 16 > Len(AEAD!over(out, pt))
      BY <1>1, <1>3, OverLen
    <3> HIDE DEF n
    <3>2. AEAD!seal_in_place_with(key, nonce, aad, n, AEAD!over(out, pt))
            = AEAD!Err("BufferTooSmall", AEAD!over(out, pt))
      BY <3>1, Zenon DEF AEAD!seal_in_place_with
    <3> QED BY <3>2 DEF n
  <2> HIDE DEF s, x, in_place, xn
  <2> QED BY <1>3, <2>1, <2>2, <2>3, Zenon DEF AEAD!SealedOpens, s, x, in_place, xn
<1>4. CASE ~ (n + 16 > Len(out))
  <2> DEFINE m == Whole(key, nonce, aad, pt)
             mx == Whole(d.key, d.nonce, aad, pt)
             S == Cells(Byte, Old, key, nonce, aad, pt)
             k == n + 16
  <2>0. n + 16 <= Len(out)
    BY <1>1, <1>4
  <2>1. /\ s = AEAD!Ok(k, AEAD!over(out, m))
        /\ SubSeq(AEAD!over(out, m), 1, k) = m
        /\ AEAD!open_with(key, nonce, aad, m, out) = AEAD!Ok(n, AEAD!over(out, pt))
    BY <2>0, SealOpen
  <2>2. /\ x = AEAD!Ok(k, AEAD!over(out, mx))
        /\ SubSeq(AEAD!over(out, mx), 1, k) = mx
        /\ AEAD!open_with(d.key, d.nonce, aad, mx, out) = AEAD!Ok(n, AEAD!over(out, pt))
    <3> DEFINE dk == d.key
               dn == d.nonce
    <3> HIDE DEF d, dk, dn
    <3>1. /\ AEAD!seal_with(dk, dn, aad, pt, out) = AEAD!Ok(n + 16, AEAD!over(out, Whole(dk, dn, aad, pt)))
          /\ SubSeq(AEAD!over(out, Whole(dk, dn, aad, pt)), 1, n + 16) = Whole(dk, dn, aad, pt)
          /\ AEAD!open_with(dk, dn, aad, Whole(dk, dn, aad, pt), out) = AEAD!Ok(n, AEAD!over(out, pt))
      BY <2>0, SealOpen
    <3> QED BY <1>2, <3>1, Zenon DEF dk, dn
  <2>3. /\ pt \in Seq(S) /\ out \in Seq(S) /\ m \in Seq(S) /\ Len(m) = k
        /\ Ciphertext(key, nonce, pt) \in Seq(S) /\ Len(Ciphertext(key, nonce, pt)) = n
        /\ TagOf(key, nonce, aad, Ciphertext(key, nonce, pt)) \in Seq(S)
    BY SealTypes
  <2> HIDE DEF m, S
  <2>4. /\ AEAD!over(out, pt) \in Seq(S) /\ Len(AEAD!over(out, pt)) = Len(out)
        /\ AEAD!over(AEAD!over(out, pt), m) = AEAD!over(out, m)
        /\ SubSeq(AEAD!over(out, pt), 1, Len(pt)) = pt
    <3>1. Len(pt) <= Len(m) /\ Len(m) <= Len(out)
      BY <1>1, <2>0, <2>3
    <3> QED BY <2>3, <3>1, OverOver
  <2>5. in_place = s
    <3>1. AEAD!seal_in_place_with(key, nonce, aad, n, AEAD!over(out, pt))
            = AEAD!Ok(n + 16, AEAD!over(AEAD!over(out, pt), m))
      BY <1>4, <2>4, Zenon DEF AEAD!seal_in_place_with, m, Whole, Ciphertext, TagOf
    <3> QED BY <3>1, <2>1, <2>4, Zenon
  <2>6. s.out = AEAD!over(out, m) /\ s.len = k /\ x.out = AEAD!over(out, mx) /\ x.len = k
    <3> HIDE DEF s, x, mx, k
    <3> QED BY <2>1, <2>2 DEF AEAD!Ok
  <2>7. SubSeq(s.out, s.len + 1, Len(out)) = SubSeq(out, s.len + 1, Len(out))
    <3>1. Len(m) <= Len(m) /\ Len(m) <= Len(out)
      BY <1>1, <2>0, <2>3
    <3>2. SubSeq(AEAD!over(out, m), Len(m) + 1, Len(out)) = SubSeq(out, Len(m) + 1, Len(out))
      BY <2>3, <3>1, OverOver
    <3> QED BY <2>3, <2>6, <3>2
  <2>8. ASSUME NEW i \in 1 .. n, NEW p \in s.out[i].pads PROVE p[3] # 0
    <3>1. s.out[i] = Ciphertext(key, nonce, pt)[i]
      <4> DEFINE ct == Ciphertext(key, nonce, pt)
                 tag == TagOf(key, nonce, aad, ct)
                 o == AEAD!over(out, m)
      <4>1. o \in Seq(S) /\ Len(o) = Len(out) /\ SubSeq(o, 1, Len(m)) = m
        <5>1. Len(m) <= Len(m) /\ Len(m) <= Len(out)
          BY <1>1, <2>0, <2>3
        <5> QED BY <2>3, <5>1, OverOver
      <4>2. m = ct \o tag
        BY DEF m, Whole
      <4> HIDE DEF ct, tag, o
      <4>3. ct \in Seq(S) /\ tag \in Seq(S) /\ Len(ct) = n /\ Len(tag) \in Nat
        BY <2>3, LenProperties DEF ct, tag
      <4>4. (ct \o tag)[i] = ct[i]
        BY <4>3, <1>1, ConcatProperties
      <4>5. SubSeq(o, 1, Len(m))[i] = o[i]
        <5>1. \A j \in 1 .. Len(m) : o[j] \in S
          BY <4>1, <1>1, <2>0, <2>3, ElementOfSeq
        <5>2. Len(m) \in Int /\ i \in 1 .. Len(m) - 1 + 1
          BY <1>1, <2>3
        <5>3. SubSeq(o, 1, Len(m))[i] = o[1 + i - 1]
          BY <5>1, <5>2, SubSeqProperties
        <5>4. 1 + i - 1 = i
          BY <1>1
        <5> QED BY <5>3, <5>4
      <4> QED BY <2>6, <4>1, <4>2, <4>4, <4>5 DEF o, ct
    <3>2. Ciphertext(key, nonce, pt)[i].pads = {Pad(key, nonce, i)}
      BY StreamTwice DEF Ciphertext
    <3>3. p = Pad(key, nonce, i)
      BY <3>1, <3>2
    <3>4. (i - 1) \div 64 \in Nat
      BY <1>1
    <3> QED BY <3>3, <3>4 DEF Pad
  <2>9. AEAD!xopen(key, xn, aad, mx, out) = AEAD!Ok(n, AEAD!over(out, pt))
    BY <2>2, Zenon DEF AEAD!xopen
  <2> HIDE DEF s, x, in_place, xn, mx, k, n
  <2>10. SubSeq(s.out, 1, s.len) = m /\ SubSeq(x.out, 1, x.len) = mx
    BY <2>1, <2>2, <2>6
  <2> QED BY <1>4, <2>1, <2>5, <2>7, <2>8, <2>9, <2>10, Zenon
          DEF AEAD!SealedOpens, s, x, in_place, xn, n
<1> QED BY <1>3, <1>4

\* A byte with another pad on it is another cell.
LEMMA PlainNames ==
  ASSUME NEW a, NEW b, NEW p
  PROVE  /\ AEAD!Plain(a) = AEAD!Plain(b) <=> a = b
         /\ AEAD!Plain(a).pads = {} /\ AEAD!xored(AEAD!Plain(a), p).pads = {p}
         /\ "pads" \in DOMAIN AEAD!xored(AEAD!Plain(a), p)
  BY DEF AEAD!Plain, AEAD!xored

\* A byte that is changed is not the byte it was.
LEMMA XoredChanges ==
  ASSUME NEW c, "pads" \in DOMAIN c, NEW p
  PROVE  AEAD!xored(c, p) # c
<1>1. AEAD!xored(c, p).pads = (c.pads \ {p}) \cup ({p} \ c.pads)
  BY DEF AEAD!xored
<1>2. p \in (c.pads \ {p}) \cup ({p} \ c.pads) <=> p \notin c.pads
  OBVIOUS
<1> QED BY <1>1, <1>2

\* What is absorbed under which one-time key, and the cells of its tag.
Absorbed(aad, ct) ==
  AEAD!padded(aad) \o AEAD!padded(ct) \o <<AEAD!Plain(Len(aad)), AEAD!Plain(Len(ct))>>
Mac(key, nonce, aad, ct) == <<AEAD!poly_key(key, nonce), Absorbed(aad, ct)>>
TagCell(mac, j) == AEAD!xored(AEAD!Plain(0), <<mac, j>>)

\* The j-th cell of a tag.
LEMMA TagCellOf ==
  ASSUME NEW key, NEW nonce, NEW aad, NEW ct, NEW j \in 1 .. 16
  PROVE  TagOf(key, nonce, aad, ct)[j] = TagCell(Mac(key, nonce, aad, ct), j)
  BY Zenon DEF TagOf, AEAD!compute_tag, Mac, Absorbed, TagCell

\* Its pad names it, and is none of the keystream.
LEMMA TagCellNames ==
  ASSUME NEW mac, NEW j, NEW mac2, NEW k, NEW key, NEW nonce, NEW i
  PROVE  /\ TagCell(mac, j) = TagCell(mac2, k) => mac = mac2
         /\ TagCell(mac, j).pads = {<<mac, j>>} /\ "pads" \in DOMAIN TagCell(mac, j)
         /\ Pad(key, nonce, i) # <<mac, j>>
<1>1. /\ TagCell(mac, j).pads = {<<mac, j>>} /\ TagCell(mac2, k).pads = {<<mac2, k>>}
      /\ "pads" \in DOMAIN TagCell(mac, j)
  BY PlainNames, Zenon DEF TagCell
<1>2. {<<mac, j>>} = {<<mac2, k>>} => <<mac, j>> = <<mac2, k>>
  OBVIOUS
<1>3. <<mac, j>> = <<mac2, k>> => mac = mac2
  OBVIOUS
<1>4. Pad(key, nonce, i) # <<mac, j>>
  <2>1. Len(Pad(key, nonce, i)) = 4 /\ Len(<<mac, j>>) = 2
    BY DEF Pad
  <2> QED BY <2>1
<1> QED BY <1>1, <1>2, <1>3, <1>4

\* The same, for one cell.
LEMMA TagCellPads ==
  ASSUME NEW mac, NEW j
  PROVE  TagCell(mac, j).pads = {<<mac, j>>} /\ TagCell(mac, j).pads # {}
<1>1. TagCell(mac, j).pads = {<<mac, j>>}
  BY PlainNames, Zenon DEF TagCell
<1> QED BY <1>1

\* A cell under the keystream is no cell of a tag.
LEMMA PadApart ==
  ASSUME NEW mac, NEW j, NEW key, NEW nonce, NEW i
  PROVE  TagCell(mac, j).pads # {Pad(key, nonce, i)}
<1> DEFINE u == Pad(key, nonce, i)
           v == <<mac, j>>
<1>1. u # v
  BY TagCellNames
<1>2. TagCell(mac, j).pads = {v}
  BY TagCellPads
<1> HIDE DEF u, v
<1>3. {v} # {u}
  BY <1>1
<1> QED BY <1>2, <1>3, Zenon DEF u

\* Padding is appended.
LEMMA PaddedKeeps ==
  ASSUME NEW S, NEW d \in Seq(S), AEAD!Plain(0) \in S
  PROVE  LET q == AEAD!padded(d)
         IN  /\ q \in Seq(S) /\ Len(q) = ((Len(d) + 15) \div 16) * 16
             /\ Len(d) <= Len(q) /\ \A i \in 1 .. Len(d) : q[i] = d[i]
<1> DEFINE n == Len(d)
           rem == n % 16
           q == AEAD!padded(d)
<1>1. n \in Nat
  BY LenProperties
<1>2. rem \in 0 .. 15 /\ n = 16 * (n \div 16) + rem
  BY <1>1
<1>3. CASE rem = 0
  <2>1. q = d
    BY <1>3 DEF AEAD!padded
  <2>2. ((n + 15) \div 16) * 16 = n
    BY <1>1, <1>3
  <2> QED BY <1>1, <2>1, <2>2
<1>4. CASE rem # 0
  <2> DEFINE z == [i \in 1 .. (16 - rem) |-> AEAD!Plain(0)]
  <2>1. q = d \o z
    BY <1>4, Zenon DEF AEAD!padded
  <2>2. 16 - rem \in Nat
    BY <1>2
  <2>3. z \in [1 .. (16 - rem) -> S]
    OBVIOUS
  <2> DEFINE r == 16 - rem
  <2> HIDE DEF z, r
  <2>4. z \in Seq(S) /\ Len(z) = r
    BY <2>2, <2>3, AsSeq DEF r
  <2>5. /\ q \in Seq(S) /\ Len(q) = n + Len(z)
        /\ \A i \in 1 .. n + Len(z) : q[i] = IF i <= n THEN d[i] ELSE z[i - n]
    BY <2>1, <2>4, ConcatProperties
  <2>6. ((n + 15) \div 16) * 16 = n + r /\ r \in Nat
    BY <1>1, <1>2, <1>4 DEF r
  <2> QED BY <1>1, <2>4, <2>5, <2>6
<1> QED BY <1>3, <1>4

\* The additional data and the ciphertext are named by what is absorbed: the lengths at
\* its end tell where the one stops and the other begins.
LEMMA AbsorbedNames ==
  ASSUME NEW S, \A x \in Nat : AEAD!Plain(x) \in S,
         NEW a \in Seq(S), NEW c \in Seq(S), NEW b \in Seq(S), NEW d \in Seq(S),
         Absorbed(a, c) = Absorbed(b, d)
  PROVE  Len(a) = Len(b) /\ Len(c) = Len(d) /\ c = d
<1> DEFINE pa == AEAD!padded(a)
           pb == AEAD!padded(b)
           pc == AEAD!padded(c)
           pd == AEAD!padded(d)
           u == pa \o pc
           v == pb \o pd
           la == AEAD!Plain(Len(a))
           lb == AEAD!Plain(Len(b))
           lc == AEAD!Plain(Len(c))
           ld == AEAD!Plain(Len(d))
<1>1. /\ Len(a) \in Nat /\ Len(b) \in Nat /\ Len(c) \in Nat /\ Len(d) \in Nat
      /\ AEAD!Plain(0) \in S
  BY LenProperties
<1>2. la \in S /\ lb \in S /\ lc \in S /\ ld \in S
  BY <1>1
<1>3. u \o <<la, lc>> = v \o <<lb, ld>>
  BY DEF Absorbed
<1>4. /\ pa \in Seq(S) /\ Len(pa) = ((Len(a) + 15) \div 16) * 16
      /\ pb \in Seq(S) /\ Len(pb) = ((Len(b) + 15) \div 16) * 16
      /\ pc \in Seq(S) /\ Len(c) <= Len(pc) /\ \A i \in 1 .. Len(c) : pc[i] = c[i]
      /\ pd \in Seq(S) /\ Len(d) <= Len(pd) /\ \A i \in 1 .. Len(d) : pd[i] = d[i]
  BY <1>1, PaddedKeeps
<1> HIDE DEF pa, pb, pc, pd, la, lb, lc, ld
<1>5. /\ u \in Seq(S) /\ Len(u) = Len(pa) + Len(pc)
      /\ \A i \in 1 .. Len(pa) + Len(pc) : u[i] = IF i <= Len(pa) THEN pa[i] ELSE pc[i - Len(pa)]
  <2>1. pa \in Seq(S) /\ pc \in Seq(S)
    BY <1>4
  <2> QED BY <2>1, ConcatProperties
<1>6. /\ v \in Seq(S) /\ Len(v) = Len(pb) + Len(pd)
      /\ \A i \in 1 .. Len(pb) + Len(pd) : v[i] = IF i <= Len(pb) THEN pb[i] ELSE pd[i - Len(pb)]
  <2>1. pb \in Seq(S) /\ pd \in Seq(S)
    BY <1>4
  <2> QED BY <2>1, ConcatProperties
<1>7. /\ Len(pa) \in Nat /\ Len(pb) \in Nat /\ Len(pc) \in Nat /\ Len(pd) \in Nat
      /\ Len(u) \in Nat /\ Len(v) \in Nat
  BY <1>4, <1>5, <1>6, LenProperties
<1> HIDE DEF u, v
<1> DEFINE w == u \o <<la, lc>>
<1>8. Len(w) = Len(u) + 2 /\ w[Len(u) + 1] = la /\ w[Len(u) + 2] = lc
      /\ \A i \in 1 .. Len(u) : w[i] = u[i]
  <2> DEFINE t == <<la, lc>>
  <2>1. t \in Seq(S) /\ Len(t) = 2 /\ t[1] = la /\ t[2] = lc
    BY <1>2
  <2> HIDE DEF t
  <2>2. /\ Len(u \o t) = Len(u) + Len(t)
        /\ \A i \in 1 .. Len(u) + Len(t) : (u \o t)[i] = IF i <= Len(u) THEN u[i] ELSE t[i - Len(u)]
    <3>1. u \in Seq(S) /\ t \in Seq(S)
      BY <1>5, <2>1
    <3> QED BY <3>1, ConcatProperties
  <2>3. w = u \o t
    BY DEF t
  <2> HIDE DEF w
  <2> QED BY <1>7, <2>1, <2>2, <2>3
<1>9. Len(w) = Len(v) + 2 /\ w[Len(v) + 1] = lb /\ w[Len(v) + 2] = ld
      /\ \A i \in 1 .. Len(v) : w[i] = v[i]
  <2> DEFINE t == <<lb, ld>>
  <2>1. t \in Seq(S) /\ Len(t) = 2 /\ t[1] = lb /\ t[2] = ld
    BY <1>2
  <2> HIDE DEF t
  <2>2. /\ Len(v \o t) = Len(v) + Len(t)
        /\ \A i \in 1 .. Len(v) + Len(t) : (v \o t)[i] = IF i <= Len(v) THEN v[i] ELSE t[i - Len(v)]
    <3>1. v \in Seq(S) /\ t \in Seq(S)
      BY <1>6, <2>1
    <3> QED BY <3>1, ConcatProperties
  <2>3. w = v \o t
    BY <1>3 DEF t
  <2> HIDE DEF w
  <2> QED BY <1>7, <2>1, <2>2, <2>3
<1> HIDE DEF w
<1>10. Len(u) = Len(v) /\ la = lb /\ lc = ld
  BY <1>7, <1>8, <1>9
<1>11. Len(a) = Len(b) /\ Len(c) = Len(d)
  BY <1>10, PlainNames DEF la, lb, lc, ld
<1>12. Len(pa) = Len(pb)
  BY <1>4, <1>11
<1>13. ASSUME NEW i \in 1 .. Len(c) PROVE c[i] = d[i]
  <2> DEFINE k == Len(pa) + i
  <2>1. /\ k \in 1 .. Len(pa) + Len(pc) /\ ~ (k <= Len(pa)) /\ k - Len(pa) = i
        /\ k \in 1 .. Len(u) /\ k \in 1 .. Len(v)
    BY <1>1, <1>4, <1>5, <1>7, <1>10
  <2> HIDE DEF k
  <2>2. u[k] = pc[i] /\ v[k] = pd[i]
    BY <1>5, <1>6, <1>12, <2>1
  <2>3. u[k] = v[k]
    BY <1>8, <1>9, <2>1
  <2> QED BY <1>4, <1>11, <2>2, <2>3
<1>14. c = d
  BY <1>11, <1>13, SeqEqual
<1> QED BY <1>11, <1>14

Refused(key, nonce, aad, msg, out) ==
  AEAD!open_with(key, nonce, aad, msg, out) = AEAD!Err("AuthFailure", out)

\* A message one cell of whose last sixteen is not that of the tag is refused.
LEMMA Mismatch ==
  ASSUME NEW S, NEW msg \in Seq(S), NEW c \in Nat, Len(msg) = c + 16,
         NEW out, NEW l \in Nat, l = Len(out), c <= l,
         NEW key, NEW nonce, NEW aad, NEW j \in 1 .. 16,
         msg[c + j] # TagCell(Mac(key, nonce, aad, SubSeq(msg, 1, c)), j)
  PROVE  Refused(key, nonce, aad, msg, out)
<1> DEFINE ct == SubSeq(msg, 1, c)
           tag == SubSeq(msg, c + 1, Len(msg))
<1>1. Len(msg) - 16 = c /\ ~ (c < 0) /\ ~ (c > Len(out))
  OBVIOUS
<1>2. tag[j] = msg[c + j]
  <2> DEFINE a == c + 1
             b == c + 16
  <2>1. a \in Int /\ b \in Int /\ j \in 1 .. b - a + 1 /\ a + j - 1 = c + j
    OBVIOUS
  <2>2. \A i \in a .. b : msg[i] \in S
    BY ElementOfSeq
  <2> HIDE DEF a, b
  <2>3. SubSeq(msg, a, b)[j] = msg[a + j - 1]
    BY <2>1, <2>2, SubSeqProperties
  <2> QED BY <2>1, <2>3 DEF a, b
<1>3. TagOf(key, nonce, aad, ct)[j] = TagCell(Mac(key, nonce, aad, ct), j)
  BY TagCellOf
<1> HIDE DEF ct, tag
<1>4. TagOf(key, nonce, aad, ct) # tag
  BY <1>2, <1>3 DEF ct
<1> QED BY <1>1, <1>4, Zenon DEF Refused, AEAD!open_with, TagOf, ct, tag

\* A message shorter than a tag is refused.
LEMMA TooShort ==
  ASSUME NEW msg, Len(msg) \in Nat, Len(msg) < 16, NEW out, NEW key, NEW nonce, NEW aad
  PROVE  Refused(key, nonce, aad, msg, out)
<1>1. Len(msg) - 16 < 0
  OBVIOUS
<1> QED BY <1>1, Zenon DEF Refused, AEAD!open_with

\* Cells of a sealed message.
LEMMA WholeCells ==
  ASSUME NEW Byte, NEW pt \in Seq(Plains(Byte)), NEW key, NEW nonce, NEW aad
  PROVE  LET m == Whole(key, nonce, aad, pt)
             ct == Ciphertext(key, nonce, pt)
             n == Len(pt)
         IN  /\ SubSeq(m, 1, n) = ct
             /\ \A i \in 1 .. n : m[i] = ct[i] /\ m[i].pads = {Pad(key, nonce, i)}
             /\ \A j \in 1 .. 16 : m[n + j] = TagCell(Mac(key, nonce, aad, ct), j)
             /\ \A i \in 1 .. n + 16 : "pads" \in DOMAIN m[i]
<1> DEFINE S == Cells(Byte, {}, key, nonce, aad, pt)
           ct == Ciphertext(key, nonce, pt)
           tag == TagOf(key, nonce, aad, ct)
           n == Len(pt)
           m == ct \o tag
<1>1. ct \in Seq(S) /\ Len(ct) = n /\ tag \in Seq(S) /\ Len(tag) = 16
  <2>1. PICK out \in Seq({}) : TRUE
    BY EmptySeq
  <2> QED BY <2>1, SealTypes
<1>2. n \in Nat
  BY LenProperties
<1>3. \A i \in 1 .. n : ct[i].pads = {Pad(key, nonce, i)} /\ "pads" \in DOMAIN ct[i]
  BY StreamTwice DEF Ciphertext
<1>4. \A j \in 1 .. 16 : tag[j] = TagCell(Mac(key, nonce, aad, ct), j)
  BY TagCellOf
<1> HIDE DEF S, ct, tag, n
<1>5. /\ Len(ct \o tag) = Len(ct) + Len(tag)
      /\ \A i \in 1 .. Len(ct) + Len(tag) : (ct \o tag)[i] = IF i <= Len(ct) THEN ct[i] ELSE tag[i - Len(ct)]
  <2>1. ct \in Seq(S) /\ tag \in Seq(S)
    BY <1>1
  <2> QED BY <2>1, ConcatProperties
<1>6. SubSeq(m, 1, Len(ct)) = ct
  <2>1. ct \in Seq(S) /\ tag \in Seq(S)
    BY <1>1
  <2> QED BY <2>1, CutConcat
<1>7. \A i \in 1 .. n : m[i] = ct[i]
  BY <1>1, <1>2, <1>5
<1>8. ASSUME NEW j \in 1 .. 16 PROVE m[n + j] = tag[j]
  <2> DEFINE k == n + j
  <2>1. k \in 1 .. Len(ct) + Len(tag) /\ ~ (k <= Len(ct)) /\ k - Len(ct) = j
    BY <1>1, <1>2
  <2> HIDE DEF k
  <2>2. m[k] = tag[k - Len(ct)]
    BY <1>5, <2>1
  <2> QED BY <2>1, <2>2 DEF k
<1>9. ASSUME NEW i \in 1 .. n + 16 PROVE "pads" \in DOMAIN m[i]
  <2>1. CASE i <= n
    <3> HIDE DEF m
    <3>1. i \in 1 .. n
      BY <1>2, <2>1
    <3>2. m[i] = ct[i] /\ "pads" \in DOMAIN ct[i]
      BY <1>3, <1>7, <3>1
    <3> QED BY <3>2
  <2>2. CASE ~ (i <= n)
    <3> DEFINE j == i - n
    <3>1. j \in 1 .. 16 /\ i = n + j
      BY <1>2, <2>2
    <3> HIDE DEF j, m
    <3>2. m[i] = TagCell(Mac(key, nonce, aad, ct), j)
      BY <1>4, <1>8, <3>1
    <3> QED BY <3>2, TagCellNames
  <2> QED BY <2>1, <2>2
<1> QED BY <1>1, <1>3, <1>4, <1>6, <1>7, <1>8, <1>9 DEF m, ct, tag, n, Whole

\* With Mac0 for what was absorbed, other data absorbed does not make the tag.
LEMMA OtherMac ==
  ASSUME NEW S, NEW msg \in Seq(S), NEW c \in Nat, Len(msg) = c + 16,
         NEW out, NEW l \in Nat, l = Len(out), c <= l,
         NEW key, NEW nonce, NEW aad, NEW mac, msg[c + 1] = TagCell(mac, 1),
         mac # Mac(key, nonce, aad, SubSeq(msg, 1, c))
  PROVE  Refused(key, nonce, aad, msg, out)
<1> DEFINE mac2 == Mac(key, nonce, aad, SubSeq(msg, 1, c))
<1>1. TagCell(mac, 1) # TagCell(mac2, 1)
  <2> HIDE DEF mac2
  <2> QED BY TagCellNames DEF mac2
<1>2. 1 \in 1 .. 16
  OBVIOUS
<1> QED BY <1>1, <1>2, Mismatch

\* Every length has a cell.
Numbered(S) == \A x \in Nat : AEAD!Plain(x) \in S

\* What two macs have in common when they are the same.
SameMac(key, nonce, a, c, key2, nonce2, b, d) ==
  Mac(key, nonce, a, c) = Mac(key2, nonce2, b, d)
    => key = key2 /\ nonce = nonce2 /\ Len(a) = Len(b) /\ c = d

\* Macs of other keys, or of other data, are others.
LEMMA MacNames ==
  ASSUME NEW S, Numbered(S),
         NEW a \in Seq(S), NEW c \in Seq(S), NEW b \in Seq(S), NEW d \in Seq(S),
         NEW key, NEW nonce, NEW key2, NEW nonce2
  PROVE  SameMac(key, nonce, a, c, key2, nonce2, b, d)
<1> SUFFICES ASSUME Mac(key, nonce, a, c) = Mac(key2, nonce2, b, d)
             PROVE  key = key2 /\ nonce = nonce2 /\ Len(a) = Len(b) /\ c = d
  BY DEF SameMac
<1> DEFINE p == AEAD!poly_key(key, nonce)
           q == AEAD!poly_key(key2, nonce2)
           u == Absorbed(a, c)
           v == Absorbed(b, d)
<1>1. <<p, u>> = <<q, v>>
  BY DEF Mac
<1> HIDE DEF p, q, u, v
<1>2. p = q /\ u = v
  BY <1>1
<1>3. key = key2 /\ nonce = nonce2
  BY <1>2 DEF p, q, AEAD!poly_key
<1>4. Len(a) = Len(b) /\ c = d
  BY <1>2, AbsorbedNames DEF u, v, Numbered
<1> QED BY <1>3, <1>4

\* One more element.
LEMMA Longer ==
  ASSUME NEW K, NEW s \in Seq(K), NEW x
  PROVE  /\ s \o <<x>> \in Seq(K \cup {x}) /\ Len(s \o <<x>>) = Len(s) + 1 /\ s \o <<x>> # s
         /\ (s \o <<x>>)[Len(s) + 1] = x
         /\ \A i \in 1 .. Len(s) : (s \o <<x>>)[i] = s[i]
<1> DEFINE T == K \cup {x}
           t == <<x>>
<1>1. t \in Seq(T) /\ Len(t) = 1 /\ t[1] = x
  OBVIOUS
<1>2. s \in Seq(T) /\ Len(s) \in Nat
  BY SeqMonotonic, LenProperties
<1> HIDE DEF T, t
<1>3. /\ s \o t \in Seq(T) /\ Len(s \o t) = Len(s) + Len(t)
      /\ \A i \in 1 .. Len(s) + Len(t) : (s \o t)[i] = IF i <= Len(s) THEN s[i] ELSE t[i - Len(s)]
  <2>1. s \in Seq(T) /\ t \in Seq(T)
    BY <1>1, <1>2
  <2> QED BY <2>1, ConcatProperties
<1>4. Len(s \o t) = Len(s) + 1 /\ (s \o t)[Len(s) + 1] = x
      /\ \A i \in 1 .. Len(s) : (s \o t)[i] = s[i]
  BY <1>1, <1>2, <1>3
<1>5. s \o t # s
  BY <1>2, <1>4
<1> QED BY <1>3, <1>4, <1>5 DEF T, t

\* The cells of a message, of the additional data and of whatever replaces one.
AllCells(Byte, Old, Aad, key, nonce, aad, pt, flip) ==
  LET S == Cells(Byte, Old, key, nonce, aad, pt)
  IN  S \cup Aad \cup Plains(Nat) \cup {AEAD!xored(c, flip) : c \in S}

\* Everything TamperedRefused lists, with any element for the one that is added to the
\* key and nonce and any pad for the one that changes a byte.
LEMMA AllRefused ==
  ASSUME NEW Byte, NEW Old, NEW Aad, NEW K, NEW N,
         NEW pt \in Seq(Plains(Byte)), NEW out \in Seq(Old), NEW aad \in Seq(Aad),
         NEW key \in Seq(K), NEW nonce \in Seq(N), NEW other, NEW flip,
         Len(pt) + 16 <= Len(out)
  PROVE  LET m == Whole(key, nonce, aad, pt)
             n == Len(m)
             zero == AEAD!Plain(0)
         IN  /\ Refused(key \o <<other>>, nonce, aad, m, out)
             /\ Refused(key, nonce \o <<other>>, aad, m, out)
             /\ Refused(key, nonce, aad \o <<zero>>, m, out)
             /\ aad # <<>> => Refused(key, nonce, SubSeq(aad, 1, Len(aad) - 1), m, out)
             /\ \A i \in 1 .. n :
                  Refused(key, nonce, aad, [m EXCEPT ![i] = AEAD!xored(@, flip)], out)
             /\ \A i \in 0 .. (n - 1) : Refused(key, nonce, aad, SubSeq(m, 1, i), out)
             /\ n < Len(out) + 16 => Refused(key, nonce, aad, m \o <<zero>>, out)
             /\ \A i \in 1 .. Len(pt) :
                  Refused(key, nonce, aad \o SubSeq(m, 1, i), SubSeq(m, i + 1, n), out)
<1> DEFINE m == Whole(key, nonce, aad, pt)
           ct == Ciphertext(key, nonce, pt)
           mac == Mac(key, nonce, aad, ct)
           zero == AEAD!Plain(0)
           S == Cells(Byte, Old, key, nonce, aad, pt)
           U == AllCells(Byte, Old, Aad, key, nonce, aad, pt, flip)
           c == Len(pt)
           l == Len(out)
<1>1. c \in Nat /\ l \in Nat /\ c + 16 <= l /\ c <= l
  BY LenProperties
<1>2. /\ S \subseteq U /\ Aad \subseteq U /\ \A x \in Nat : AEAD!Plain(x) \in U
      /\ \A x \in S : AEAD!xored(x, flip) \in U
  BY DEF AllCells, Plains
<1>3. m \in Seq(S) /\ ct \in Seq(S) /\ Len(m) = c + 16 /\ Len(ct) = c
  BY SealTypes
<1>4. /\ SubSeq(m, 1, c) = ct
      /\ \A i \in 1 .. c : m[i] = ct[i] /\ m[i].pads = {Pad(key, nonce, i)}
      /\ \A j \in 1 .. 16 : m[c + j] = TagCell(mac, j)
      /\ \A i \in 1 .. c + 16 : "pads" \in DOMAIN m[i]
  BY WholeCells
<1> HIDE DEF m, ct, S, U
<1>5. m \in Seq(U) /\ ct \in Seq(U) /\ aad \in Seq(U)
  BY <1>2, <1>3, SeqMonotonic
<1>6. zero \in U /\ Len(aad) \in Nat /\ m[c + 1] = TagCell(mac, 1)
  BY <1>2, <1>4, LenProperties
<1> HIDE DEF c, l, zero, mac
\* Other keys, nonces and data.
<1>7. ASSUME NEW k2, NEW n2, NEW a2 \in Seq(U),
             k2 # key \/ n2 # nonce \/ Len(a2) # Len(aad)
      PROVE  Refused(k2, n2, a2, m, out)
  <2>1. mac # Mac(k2, n2, a2, ct)
    <3>1. Numbered(U)
      BY <1>2 DEF Numbered
    <3>2. aad \in Seq(U) /\ ct \in Seq(U)
      BY <1>5
    <3>3. SameMac(key, nonce, aad, ct, k2, n2, a2, ct)
      BY <3>1, <3>2, MacNames
    <3> QED BY <1>7, <3>3 DEF mac, SameMac
  <2>2. mac # Mac(k2, n2, a2, SubSeq(m, 1, c))
    BY <2>1, <1>4
  <2>3. l = Len(out)
    BY DEF l
  <2> QED BY <1>1, <1>3, <1>6, <2>2, <2>3, OtherMac
<1>8. Refused(key \o <<other>>, nonce, aad, m, out)
  <2> DEFINE k2 == key \o <<other>>
  <2>1. k2 # key
    BY Longer
  <2> HIDE DEF k2
  <2>2. Refused(k2, nonce, aad, m, out)
    BY <2>1, <1>5, <1>7
  <2> QED BY <2>2 DEF k2
<1>9. Refused(key, nonce \o <<other>>, aad, m, out)
  <2> DEFINE n2 == nonce \o <<other>>
  <2>1. n2 # nonce
    BY Longer
  <2> HIDE DEF n2
  <2>2. Refused(key, n2, aad, m, out)
    BY <2>1, <1>5, <1>7
  <2> QED BY <2>2 DEF n2
<1>10. Refused(key, nonce, aad \o <<zero>>, m, out)
  <2> DEFINE a2 == aad \o <<zero>>
  <2>1. a2 \in Seq(U \cup {zero}) /\ Len(a2) = Len(aad) + 1
    BY <1>5, Longer
  <2>2. U \cup {zero} = U /\ Len(aad) + 1 # Len(aad)
    BY <1>6
  <2> HIDE DEF a2
  <2>3. Refused(key, nonce, a2, m, out)
    BY <2>1, <2>2, <1>7
  <2> QED BY <2>3 DEF a2
<1>11. ASSUME aad # <<>> PROVE Refused(key, nonce, SubSeq(aad, 1, Len(aad) - 1), m, out)
  <2> DEFINE b == Len(aad) - 1
             a2 == SubSeq(aad, 1, b)
  <2>1. Len(aad) # 0
    BY <1>11, EmptySeq
  <2>2. b \in Nat /\ 1 <= b + 1 /\ b <= Len(aad) /\ 1 \in Nat \ {0} /\ b - 1 + 1 # Len(aad)
    BY <1>6, <2>1
  <2> HIDE DEF b
  <2>3. a2 \in Seq(U) /\ Len(a2) = b - 1 + 1
    BY <1>5, <2>2, Part
  <2> HIDE DEF a2
  <2>4. Refused(key, nonce, a2, m, out)
    BY <2>2, <2>3, <1>7
  <2> QED BY <2>4 DEF a2, b
\* Bytes changed, cut off or appended.
<1>12. ASSUME NEW i \in 1 .. Len(m)
       PROVE  Refused(key, nonce, aad, [m EXCEPT ![i] = AEAD!xored(@, flip)], out)
  <2> DEFINE x == AEAD!xored(m[i], flip)
             m2 == [m EXCEPT ![i] = x]
             c2 == SubSeq(m2, 1, c)
  <2>1. x \in U /\ l = Len(out)
    BY <1>2, <1>3, ElementOfSeq DEF l
  <2> HIDE DEF x
  <2>2. /\ m2 \in Seq(U) /\ Len(m2) = Len(m)
        /\ \A j \in 1 .. Len(m) : m2[j] = IF j = i THEN x ELSE m[j]
    BY <1>5, <2>1, ExceptSeq
  <2>3. x # m[i]
    <3>1. "pads" \in DOMAIN m[i]
      BY <1>3, <1>4
    <3> QED BY <3>1, XoredChanges DEF x
  <2> HIDE DEF m2
  <2>4. /\ c2 \in Seq(U) /\ Len(c2) = c
        /\ \A j \in 1 .. c : c2[j] = m2[j]
    <3>1. 1 \in Nat \ {0} /\ 1 <= c + 1 /\ c <= Len(m2) /\ c - 1 + 1 = c
      BY <1>1, <1>3, <2>2
    <3>2. /\ c2 \in Seq(U) /\ Len(c2) = c - 1 + 1
          /\ \A j \in 1 .. c - 1 + 1 : c2[j] = m2[1 + j - 1]
      BY <1>1, <2>2, <3>1, Part
    <3>3. \A j \in 1 .. c : 1 + j - 1 = j
      BY <1>1
    <3> QED BY <3>1, <3>2, <3>3
  <2>5. CASE i \in 1 .. c
    <3>1. c2[i] # ct[i]
      BY <1>1, <1>3, <1>4, <2>2, <2>3, <2>4, <2>5
    <3>2. mac # Mac(key, nonce, aad, c2)
      <4>1. Numbered(U)
        BY <1>2 DEF Numbered
      <4>2. aad \in Seq(U) /\ ct \in Seq(U) /\ c2 \in Seq(U)
        BY <1>5, <2>4
      <4> HIDE DEF c2
      <4>3. SameMac(key, nonce, aad, ct, key, nonce, aad, c2)
        BY <4>1, <4>2, MacNames
      <4> QED BY <3>1, <4>3 DEF mac, SameMac
    <3>3. m2[c + 1] = TagCell(mac, 1) /\ Len(m2) = c + 16
      BY <1>1, <1>3, <1>6, <2>2, <2>5
    <3>4. Refused(key, nonce, aad, m2, out)
      BY <1>1, <2>1, <2>2, <3>2, <3>3, OtherMac
    <3> QED BY <3>4 DEF m2, x
  <2>6. CASE i \notin 1 .. c
    <3> DEFINE j == i - c
    <3>1. j \in 1 .. 16 /\ c + j = i
      BY <1>1, <1>3, <2>6
    <3>2. \A k \in 1 .. c : c2[k] = ct[k]
      <4> TAKE k \in 1 .. c
      <4>1. k # i /\ k \in 1 .. Len(m)
        BY <1>1, <1>3, <2>6
      <4>2. c2[k] = m2[k] /\ m2[k] = m[k] /\ m[k] = ct[k]
        BY <1>4, <2>2, <2>4, <4>1
      <4> QED BY <4>2
    <3>3. c2 = ct
      <4> HIDE DEF c2
      <4> QED BY <1>3, <1>5, <2>4, <3>2, SeqEqual
    <3>4. m2[i] # TagCell(mac, j)
      <4> HIDE DEF j
      <4>1. m[i] = TagCell(mac, j)
        BY <1>4, <3>1
      <4> QED BY <2>2, <2>3, <4>1
    <3> HIDE DEF j
    <3>5. m2[c + j] # TagCell(Mac(key, nonce, aad, SubSeq(m2, 1, c)), j)
      BY <3>1, <3>3, <3>4 DEF mac
    <3>6. Len(m2) = c + 16
      BY <1>3, <2>2
    <3>7. Refused(key, nonce, aad, m2, out)
      BY <1>1, <2>1, <2>2, <3>1, <3>5, <3>6, Mismatch
    <3> QED BY <3>7 DEF m2, x
  <2> QED BY <2>5, <2>6
<1>13. ASSUME NEW i \in 0 .. (Len(m) - 1)
       PROVE  Refused(key, nonce, aad, SubSeq(m, 1, i), out)
  <2> DEFINE m2 == SubSeq(m, 1, i)
  <2>1. 1 \in Nat \ {0} /\ i \in Nat /\ 1 <= i + 1 /\ i <= Len(m) /\ i - 1 + 1 = i
    BY <1>1, <1>3
  <2>2. /\ m2 \in Seq(U) /\ Len(m2) = i - 1 + 1
        /\ \A j \in 1 .. i - 1 + 1 : m2[j] = m[1 + j - 1]
    BY <1>5, <2>1, Part
  <2>3. CASE i < 16
    <3> HIDE DEF m2
    <3>1. Len(m2) \in Nat /\ Len(m2) < 16
      BY <2>1, <2>2, <2>3
    <3>2. Refused(key, nonce, aad, m2, out)
      BY <3>1, TooShort
    <3> QED BY <3>2 DEF m2
  <2>4. CASE ~ (i < 16)
    <3> DEFINE c2 == i - 16
               b == c2 + 1
               mac2 == Mac(key, nonce, aad, SubSeq(m2, 1, c2))
    <3>1. /\ c2 \in Nat /\ b \in 1 .. c /\ c2 <= l /\ b \in 1 .. i - 1 + 1 /\ 1 + b - 1 = b
          /\ i = c2 + 16
      BY <1>1, <1>3, <2>1, <2>4
    <3>2. m2[b] = m[b] /\ m[b].pads = {Pad(key, nonce, b)}
      BY <1>4, <2>2, <3>1
    <3> HIDE DEF m2, mac2, b, c2
    <3>3. m2[b] # TagCell(mac2, 1)
      <4>1. TagCell(mac2, 1).pads # {Pad(key, nonce, b)}
        BY PadApart, Zenon
      <4> QED BY <3>2, <4>1, Zenon
    <3>4. m2[c2 + 1] # TagCell(Mac(key, nonce, aad, SubSeq(m2, 1, c2)), 1)
      BY <3>3 DEF b, mac2
    <3>5. Len(m2) = c2 + 16 /\ l = Len(out) /\ 1 \in 1 .. 16
      BY <2>1, <2>2, <3>1 DEF l
    <3>6. Refused(key, nonce, aad, m2, out)
      BY <1>1, <2>2, <3>1, <3>4, <3>5, Mismatch
    <3> QED BY <3>6 DEF m2
  <2> QED BY <2>3, <2>4
<1>14. ASSUME Len(m) < Len(out) + 16
       PROVE  Refused(key, nonce, aad, m \o <<zero>>, out)
  <2> DEFINE m2 == m \o <<zero>>
             c2 == c + 1
             mac2 == Mac(key, nonce, aad, SubSeq(m2, 1, c2))
  <2>1. m2 \in Seq(U \cup {zero}) /\ Len(m2) = Len(m) + 1 /\ m2[Len(m) + 1] = zero
    BY <1>5, Longer
  <2>2. U \cup {zero} = U
    BY <1>6
  <2>3. l = Len(out)
    BY DEF l
  <2> HIDE DEF m2, mac2
  <2>4. c2 \in Nat /\ c2 <= l /\ Len(m2) = c2 + 16 /\ Len(m) + 1 = c2 + 16 /\ 16 \in 1 .. 16
    BY <1>1, <1>3, <1>14, <2>1, <2>3
  <2>5. zero # TagCell(mac2, 16)
    <3>1. zero.pads = {}
      BY PlainNames DEF zero
    <3>2. TagCell(mac2, 16).pads # {}
      BY TagCellPads, Zenon
    <3> QED BY <3>1, <3>2, Zenon
  <2> HIDE DEF c2
  <2>6. m2[c2 + 16] # TagCell(Mac(key, nonce, aad, SubSeq(m2, 1, c2)), 16)
    BY <2>1, <2>4, <2>5 DEF mac2
  <2>7. m2 \in Seq(U)
    BY <2>1, <2>2
  <2>8. Refused(key, nonce, aad, m2, out)
    BY <1>1, <2>3, <2>4, <2>6, <2>7, Mismatch
  <2> QED BY <2>8 DEF m2
<1>15. ASSUME NEW i \in 1 .. c
       PROVE  Refused(key, nonce, aad \o SubSeq(m, 1, i), SubSeq(m, i + 1, Len(m)), out)
  <2> DEFINE f == SubSeq(m, 1, i)
             a2 == aad \o f
             k == Len(m)
             a == i + 1
             m2 == SubSeq(m, a, k)
             c2 == c - i
             ct2 == SubSeq(m2, 1, c2)
  <2>1. 1 \in Nat \ {0} /\ i \in Nat /\ 1 <= i + 1 /\ i <= Len(m) /\ i - 1 + 1 = i
    BY <1>1, <1>3
  <2>2. f \in Seq(U) /\ Len(f) = i - 1 + 1
    BY <1>5, <2>1, Part
  <2> HIDE DEF f
  <2>3. a2 \in Seq(U) /\ Len(a2) = Len(aad) + Len(f)
    BY <1>5, <2>2, CutConcat
  <2>4. Len(a2) # Len(aad)
    BY <1>6, <2>1, <2>2, <2>3
  <2> HIDE DEF a2
  <2>5. /\ a \in Nat \ {0} /\ k \in Nat /\ a <= k + 1 /\ k <= Len(m)
        /\ c2 \in Nat /\ k - a + 1 = c2 + 16 /\ c2 <= l /\ c2 + 1 \in 1 .. k - a + 1
        /\ a + (c2 + 1) - 1 = c + 1 /\ 1 <= c2 + 1
    BY <1>1, <1>3
  <2> HIDE DEF a, k, c2
  <2>6. /\ m2 \in Seq(U) /\ Len(m2) = k - a + 1
        /\ \A j \in 1 .. k - a + 1 : m2[j] = m[a + j - 1]
    BY <1>5, <2>5, Part
  <2>7. m2[c2 + 1] = TagCell(mac, 1)
    <3> DEFINE j == c2 + 1
    <3>1. j \in 1 .. k - a + 1 /\ a + j - 1 = c + 1
      BY <2>5
    <3> HIDE DEF j
    <3>2. m2[j] = m[a + j - 1]
      BY <2>6, <3>1
    <3> QED BY <1>6, <3>1, <3>2 DEF j
  <2> HIDE DEF m2
  <2>8. ct2 \in Seq(U)
    <3>1. c2 <= Len(m2) /\ 1 \in Nat \ {0}
      BY <2>5, <2>6
    <3> QED BY <2>5, <2>6, <3>1, Part
  <2>9. mac # Mac(key, nonce, a2, ct2)
    <3>1. Numbered(U) /\ aad \in Seq(U) /\ ct \in Seq(U)
      BY <1>2, <1>5 DEF Numbered
    <3> HIDE DEF ct2
    <3>2. SameMac(key, nonce, aad, ct, key, nonce, a2, ct2)
      BY <2>3, <2>8, <3>1, MacNames
    <3> QED BY <2>4, <3>2 DEF mac, SameMac
  <2>10. Len(m2) = c2 + 16 /\ l = Len(out)
    BY <2>5, <2>6 DEF l
  <2>11. Refused(key, nonce, a2, m2, out)
    BY <1>1, <2>5, <2>6, <2>7, <2>9, <2>10, OtherMac
  <2> QED BY <2>11 DEF a2, f, m2, a, k
<1> QED BY <1>8, <1>9, <1>10, <1>11, <1>12, <1>13, <1>14, <1>15 DEF m, c, zero

\* Nothing but what was sealed opens, for every key, nonce, additional data, plaintext
\* and buffer: not under another key, nonce or additional data, and not with a byte
\* changed, cut off, appended or moved into the additional data.  The output is then
\* left as it was (open_with of aead.rs).
THEOREM TamperingRefused ==
  ASSUME NEW Byte, NEW Old, NEW Aad, NEW K, NEW N,
         NEW pt \in Seq(Plains(Byte)), NEW out \in Seq(Old), NEW aad \in Seq(Aad),
         NEW key \in Seq(K), NEW nonce \in Seq(N)
  PROVE  AEAD!TamperedRefused(key, nonce, aad, pt, out)
<1> DEFINE s == AEAD!seal_with(key, nonce, aad, pt, out)
           m == Whole(key, nonce, aad, pt)
<1>1. Len(pt) \in Nat /\ Len(out) \in Nat
  BY LenProperties
<1>2. CASE Len(pt) + 16 > Len(out)
  <2>1. s = AEAD!Err("BufferTooSmall", out)
    BY <1>2, Zenon DEF AEAD!seal_with
  <2> HIDE DEF s
  <2>2. s.res # "Ok"
    BY <2>1 DEF AEAD!Err
  <2> QED BY <2>2, Zenon DEF AEAD!TamperedRefused, s
<1>3. CASE ~ (Len(pt) + 16 > Len(out))
  <2>1. Len(pt) + 16 <= Len(out)
    BY <1>1, <1>3
  <2> DEFINE k == Len(pt) + 16
  <2>2. s = AEAD!Ok(k, AEAD!over(out, m)) /\ SubSeq(AEAD!over(out, m), 1, k) = m
    BY <2>1, SealOpen
  <2> DEFINE other == "other"
             flip == <<"flip">>
  <2> HIDE DEF m, other, flip
  <2>3. /\ Refused(key \o <<other>>, nonce, aad, m, out)
        /\ Refused(key, nonce \o <<other>>, aad, m, out)
        /\ Refused(key, nonce, aad \o <<AEAD!Plain(0)>>, m, out)
        /\ aad # <<>> => Refused(key, nonce, SubSeq(aad, 1, Len(aad) - 1), m, out)
        /\ \A i \in 1 .. Len(m) :
             Refused(key, nonce, aad, [m EXCEPT ![i] = AEAD!xored(@, flip)], out)
        /\ \A i \in 0 .. (Len(m) - 1) : Refused(key, nonce, aad, SubSeq(m, 1, i), out)
        /\ Len(m) < Len(out) + 16 => Refused(key, nonce, aad, m \o <<AEAD!Plain(0)>>, out)
        /\ \A i \in 1 .. Len(pt) :
             Refused(key, nonce, aad \o SubSeq(m, 1, i), SubSeq(m, i + 1, Len(m)), out)
    BY <2>1, AllRefused, Zenon DEF m
  <2> HIDE DEF s, k
  <2>4. SubSeq(s.out, 1, s.len) = m
    BY <2>2 DEF AEAD!Ok
  <2> QED BY <2>3, <2>4, Zenon DEF AEAD!TamperedRefused, Refused, s, other, flip
<1> QED BY <1>2, <1>3

-----------------------------------------------------------------------------
(* A transport packet, end to end *)

\* The padding is never less than the payload nor more than the caller is told
\* to make room for, and is within the MTU when the payload is.
LEMMA PaddedLen ==
  ASSUME NEW n \in Nat, NEW mtu \in Nat
  PROVE  LET p == padded_len(n, mtu)
         IN  /\ p \in Nat /\ n <= p /\ p <= padded_len(n, 0)
             /\ mtu # 0 /\ n <= mtu => p <= mtu
             /\ n = 0 => p = 0
<1> DEFINE a == ((n + 15) \div 16) * 16
<1>1. a \in Nat /\ n <= a /\ (n = 0 => a = 0)
  OBVIOUS
<1> HIDE DEF a
<1>2. padded_len(n, 0) = a
  BY DEF padded_len, a
<1>3. padded_len(n, mtu) = IF mtu = 0 \/ a <= mtu THEN a ELSE IF mtu > n THEN mtu ELSE n
  BY DEF padded_len, a
<1> QED BY <1>1, <1>2, <1>3

\* ip_packet_len, of the bytes it looks at.
Claim(b1, b3, b4, b5, b6, len) ==
  CASE b1 \div 16 = 4 /\ len >= 4 ->
         IF 4 * (b1 % 16) >= 20 /\ 256 * b3 + b4 >= 4 * (b1 % 16) THEN 256 * b3 + b4 ELSE 0
    [] b1 \div 16 = 6 /\ len >= 40 -> 256 * b5 + b6 + 40
    [] OTHER -> 0

\* The three cases of the claim c: version v, header length h, the lengths s4 and
\* s6 that the two headers state.
ClaimRule(c, v, h, s4, s6, l) ==
  /\ v = 4 /\ l >= 4 => c = IF h >= 20 /\ s4 >= h THEN s4 ELSE 0
  /\ v = 6 /\ l >= 40 => c = s6 + 40
  /\ (v # 4 \/ l < 4) /\ (v # 6 \/ l < 40) => c = 0

RuleOf(x1, x3, x4, x5, x6, l) ==
  ClaimRule(Claim(x1, x3, x4, x5, x6, l), x1 \div 16, 4 * (x1 % 16), 256 * x3 + x4, 256 * x5 + x6, l)

\* Claim follows the rule.
LEMMA ClaimCases ==
  ASSUME NEW x1 \in Nat, NEW x3, NEW x4, NEW x5, NEW x6, NEW l \in Nat
  PROVE  RuleOf(x1, x3, x4, x5, x6, l)
<1> DEFINE v == x1 \div 16
           h == 4 * (x1 % 16)
           s == 256 * x3 + x4
           u == 256 * x5 + x6
           t == u + 40
           c == Claim(x1, x3, x4, x5, x6, l)
<1>1. c = CASE v = 4 /\ l >= 4 -> (IF h >= 20 /\ s >= h THEN s ELSE 0)
            [] v = 6 /\ l >= 40 -> t
            [] OTHER -> 0
  BY Zenon DEF Claim
<1>2. v \in Nat /\ t = u + 40
  OBVIOUS
<1> HIDE DEF v, h, s, t, c, u
<1>3. ClaimRule(c, v, h, s, u, l)
  <2>1. CASE v = 4 /\ l >= 4
    <3>1. ~ (v = 6 /\ l >= 40) /\ ~ (v # 4 \/ l < 4)
      BY <1>2, <2>1
    <3>2. c = IF h >= 20 /\ s >= h THEN s ELSE 0
      BY <1>1, <2>1, <3>1
    <3> QED BY <3>1, <3>2 DEF ClaimRule
  <2>2. CASE v = 6 /\ l >= 40
    <3>1. ~ (v = 4 /\ l >= 4) /\ ~ (v # 6 \/ l < 40)
      BY <1>2, <2>2
    <3>2. c = t
      BY <1>1, <2>2, <3>1
    <3> QED BY <1>2, <3>1, <3>2 DEF ClaimRule
  <2>3. CASE ~ (v = 4 /\ l >= 4) /\ ~ (v = 6 /\ l >= 40)
    <3>1. c = 0
      BY <1>1, <2>3
    <3> QED BY <2>3, <3>1 DEF ClaimRule
  <2> QED BY <2>1, <2>2, <2>3
<1> QED BY <1>3 DEF RuleOf, v, h, s, u, c

\* A longer packet with the same bytes in front claims what the shorter one
\* does, or something longer than the shorter one, or nothing.
LEMMA ClaimGrows ==
  ASSUME NEW m \in Nat, NEW n \in Nat, m <= n,
         NEW b1 \in Nat, NEW b3, NEW b4, NEW b5, NEW b6, NEW c3, NEW c4, NEW c5, NEW c6,
         m >= 4 => b3 = c3 /\ b4 = c4, m >= 40 => b5 = c5 /\ b6 = c6,
         n >= 4 => c3 \in Nat /\ c4 \in Nat, n >= 40 => c5 \in Nat /\ c6 \in Nat
  PROVE  LET s == Claim(b1, b3, b4, b5, b6, m)
             t == Claim(b1, c3, c4, c5, c6, n)
         IN  s \in Nat /\ t \in Nat /\ (t = s \/ (s = 0 /\ t > m))
<1> DEFINE v == b1 \div 16
           h == 4 * (b1 % 16)
           s == Claim(b1, b3, b4, b5, b6, m)
           t == Claim(b1, c3, c4, c5, c6, n)
<1>1. v \in Nat /\ h \in Nat
  OBVIOUS
<1>2. ClaimRule(s, v, h, 256 * b3 + b4, 256 * b5 + b6, m)
  <2>1. RuleOf(b1, b3, b4, b5, b6, m)
    BY ClaimCases
  <2> QED BY <2>1, Zenon DEF RuleOf
<1>3. ClaimRule(t, v, h, 256 * c3 + c4, 256 * c5 + c6, n)
  <2>1. RuleOf(b1, c3, c4, c5, c6, n)
    BY ClaimCases
  <2> QED BY <2>1, Zenon DEF RuleOf
<1> HIDE DEF v, h, s, t
<1>4. s \in Nat /\ t \in Nat /\ (t = s \/ (s = 0 /\ t > m))
  <2>1. CASE v = 4 /\ m >= 4
    BY <1>1, <1>2, <1>3, <2>1 DEF ClaimRule
  <2>2. CASE v = 4 /\ m < 4
    BY <1>1, <1>2, <1>3, <2>2 DEF ClaimRule
  <2>3. CASE v = 6 /\ m >= 40
    BY <1>1, <1>2, <1>3, <2>3 DEF ClaimRule
  <2>4. CASE v = 6 /\ m < 40
    BY <1>1, <1>2, <1>3, <2>4 DEF ClaimRule
  <2>5. CASE v # 4 /\ v # 6
    BY <1>1, <1>2, <1>3, <2>5 DEF ClaimRule
  <2> QED BY <2>1, <2>2, <2>3, <2>4, <2>5
<1> QED BY <1>4 DEF s, t

\* The bytes of a packet.
LEMMA PacketBytes ==
  ASSUME NEW p \in Seq(Plains(u8)), NEW i \in 1 .. Len(p)
  PROVE  p[i].byte \in Nat
<1>1. p[i] \in Plains(u8)
  BY ElementOfSeq
<1>2. PICK b \in u8 : p[i] = AEAD!Plain(b)
  BY <1>1 DEF Plains
<1> QED BY <1>2 DEF AEAD!Plain, u8

\* ip_packet_len is the claim, if the packet is as long as it claims.
LEMMA IpPacketLen ==
  ASSUME NEW p, p # <<>>
  PROVE  LET c == Claim(p[1].byte, p[3].byte, p[4].byte, p[5].byte, p[6].byte, Len(p))
         IN  ip_packet_len(p) = IF c > Len(p) THEN 0 ELSE c
  BY DEF ip_packet_len, Claim

\* What the receiver takes a padded packet to be: whole, or of the length that
\* its header claims, and that is not shorter than what was sent.
LEMMA PaddedClaim ==
  ASSUME NEW p \in Seq(Plains(u8)), NEW q \in Seq(Plains(u8)), Len(p) <= Len(q),
         \A i \in 1 .. Len(p) : q[i] = p[i],
         ip_packet_len(p) \in {0, Len(p)}
  PROVE  LET n == ip_packet_len(q)
         IN  /\ n \in Nat /\ n <= Len(q)
             /\ n # 0 => n >= Len(p)
             /\ ip_packet_len(p) = Len(p) /\ p # <<>> => n = Len(p)
<1>0. Len(p) \in Nat /\ Len(q) \in Nat
  BY LenProperties
<1>1. CASE q = <<>>
  <2>1. ip_packet_len(q) = 0
    BY <1>1 DEF ip_packet_len
  <2>2. Len(q) = 0 /\ Len(p) = 0
    BY <1>0, <1>1
  <2>3. p = <<>>
    BY <2>2, EmptySeq
  <2> QED BY <2>1, <2>2, <2>3
<1> DEFINE q1 == q[1].byte
           q3 == q[3].byte
           q4 == q[4].byte
           q5 == q[5].byte
           q6 == q[6].byte
           c == Claim(q1, q3, q4, q5, q6, Len(q))
<1>2. CASE q # <<>>
  <2>1. Len(q) >= 1
    BY <1>0, <1>2, EmptySeq
  <2>2. /\ q1 \in Nat /\ (Len(q) >= 4 => q3 \in Nat /\ q4 \in Nat)
        /\ Len(q) >= 40 => q5 \in Nat /\ q6 \in Nat
    BY <1>0, <2>1, PacketBytes
  <2>3. ip_packet_len(q) = IF c > Len(q) THEN 0 ELSE c
    BY <1>2, IpPacketLen
  <2> HIDE DEF q1, q3, q4, q5, q6
  <2>4. CASE p = <<>>
    <3>1. c \in Nat
      <4>1. Len(q) <= Len(q)
        BY <1>0
      <4> QED BY <1>0, <2>2, <4>1, ClaimGrows
    <3>2. Len(p) = 0
      BY <2>4
    <3> HIDE DEF c
    <3> QED BY <1>0, <2>3, <2>4, <3>1, <3>2
  <2>5. CASE p # <<>>
    <3> DEFINE p1 == p[1].byte
               p3 == p[3].byte
               p4 == p[4].byte
               p5 == p[5].byte
               p6 == p[6].byte
               s == Claim(p1, p3, p4, p5, p6, Len(p))
    <3>1. Len(p) >= 1
      BY <1>0, <2>5, EmptySeq
    <3>2. /\ p1 = q1 /\ (Len(p) >= 4 => p3 = q3 /\ p4 = q4)
          /\ Len(p) >= 40 => p5 = q5 /\ p6 = q6
      BY <1>0, <3>1 DEF q1, q3, q4, q5, q6
    <3>3. ip_packet_len(p) = IF s > Len(p) THEN 0 ELSE s
      BY <2>5, IpPacketLen
    <3> HIDE DEF p1, p3, p4, p5, p6
    <3>4. s \in Nat /\ c \in Nat /\ (c = s \/ (s = 0 /\ c > Len(p)))
      <4>1. /\ Claim(q1, p3, p4, p5, p6, Len(p)) \in Nat /\ c \in Nat
            /\ \/ c = Claim(q1, p3, p4, p5, p6, Len(p))
               \/ Claim(q1, p3, p4, p5, p6, Len(p)) = 0 /\ c > Len(p)
        BY <1>0, <2>2, <3>2, ClaimGrows
      <4> QED BY <3>2, <4>1
    <3> HIDE DEF s, c
    <3> QED BY <1>0, <2>3, <2>5, <3>1, <3>3, <3>4
  <2> QED BY <2>4, <2>5
<1> QED BY <1>1, <1>2

\* The header is sixteen bytes.
LEMMA HeaderBytes ==
  ASSUME NEW index \in u32, NEW counter \in u64
  PROVE  Header(index, counter) \in Seq(u8) /\ Len(Header(index, counter)) = 16
<1> DEFINE t == Type(4)
           i == le_bytes4(index)
           c == le_bytes8(counter)
<1>1. t \in Seq(u8) /\ Len(t) = 4 /\ i \in Seq(u8) /\ Len(i) = 4 /\ c \in Seq(u8) /\ Len(c) = 8
  BY Types, IndexSurvives, CounterSurvives
<1> HIDE DEF t, i, c
<1> DEFINE h == t \o i
<1>2. h \in Seq(u8) /\ Len(h) = Len(t) + Len(i)
  <2>1. t \in Seq(u8) /\ i \in Seq(u8)
    BY <1>1
  <2> QED BY <2>1, CutConcat
<1> HIDE DEF h
<1>3. h \o c \in Seq(u8) /\ Len(h \o c) = Len(h) + Len(c)
  <2>1. h \in Seq(u8) /\ c \in Seq(u8)
    BY <1>1, <1>2
  <2> QED BY <2>1, CutConcat
<1> QED BY <1>1, <1>2, <1>3 DEF Header, h, t, i, c

\* A buffer of four parts, without the first.
Behind(h, x, y, r) ==
  LET d == h \o x \o y \o r
  IN  SubSeq(d, 1, Len(h)) = h /\ SubSeq(d, Len(h) + 1, Len(d)) = (x \o y) \o r

\* It is what comes after the first.
LEMMA BehindHeader ==
  ASSUME NEW S, NEW h \in Seq(S), NEW x \in Seq(S), NEW y \in Seq(S), NEW r \in Seq(S)
  PROVE  Behind(h, x, y, r)
<1> DEFINE xy == x \o y
           b == xy \o r
<1>1. xy \in Seq(S) /\ (h \o x) \o y = h \o xy
  <2>1. xy \in Seq(S)
    BY CutConcat
  <2>2. Associates(h, x, y)
    BY Associated, Zenon
  <2> QED BY <2>1, <2>2, Zenon DEF Associates
<1> HIDE DEF xy
<1>2. b \in Seq(S) /\ (h \o xy) \o r = h \o b
  <2>1. xy \in Seq(S)
    BY <1>1
  <2>2. xy \o r \in Seq(S)
    BY <2>1, CutConcat
  <2>3. Associates(h, xy, r)
    BY <2>1, Associated, Zenon
  <2> QED BY <2>2, <2>3, Zenon DEF Associates
<1> HIDE DEF b
<1>3. /\ SubSeq(h \o b, 1, Len(h)) = h /\ SubSeq(h \o b, Len(h) + 1, Len(h) + Len(b)) = b
      /\ Len(h \o b) = Len(h) + Len(b)
  BY <1>2, CutConcat
<1> QED BY <1>1, <1>2, <1>3, Zenon DEF Behind, xy, b

\* The payload with its padding.
Zeros(k) == [i \in 1 .. k |-> AEAD!Plain(0)]
Filled(payload, p) == payload \o Zeros(p - Len(payload))

\* Filled to a length, it begins with the payload and ends with zeros.
FillsTo(S, payload, p) ==
  LET q == Filled(payload, p)
  IN  /\ q \in Seq(S) /\ Len(q) = p
      /\ Zeros(p - Len(payload)) \in Seq(S)
      /\ SubSeq(q, 1, Len(payload)) = payload
      /\ \A i \in 1 .. Len(payload) : q[i] = payload[i]
      /\ \A i \in Len(payload) + 1 .. p : q[i] = AEAD!Plain(0)

\* It does, to any length that holds it.
LEMMA FilledParts ==
  ASSUME NEW S, NEW payload \in Seq(S), AEAD!Plain(0) \in S, NEW p \in Nat, Len(payload) <= p
  PROVE  FillsTo(S, payload, p)
<1> DEFINE n == Len(payload)
           k == p - n
           z == Zeros(k)
           q == payload \o z
<1>1. n \in Nat /\ k \in Nat
  BY LenProperties
<1> DEFINE zero == AEAD!Plain(0)
<1>2. z \in Seq(S) /\ Len(z) = k /\ \A i \in 1 .. k : z[i] = zero
  <2>0. zero \in S
    OBVIOUS
  <2> HIDE DEF k, zero
  <2>1. z = [i \in 1 .. k |-> zero]
    BY DEF Zeros, zero
  <2>2. z \in [1 .. k -> S] /\ \A i \in 1 .. k : z[i] = zero
    BY <2>0, <2>1
  <2> HIDE DEF z
  <2>3. z \in Seq(S) /\ Len(z) = k
    <3>1. k \in Nat /\ z \in [1 .. k -> S]
      BY <1>1, <2>2
    <3> QED BY <3>1, AsSeq
  <2> QED BY <2>2, <2>3
<1> HIDE DEF z, zero
<1>3. /\ q \in Seq(S) /\ Len(q) = n + Len(z)
      /\ \A i \in 1 .. n + Len(z) : q[i] = IF i <= n THEN payload[i] ELSE z[i - n]
  <2>1. z \in Seq(S)
    BY <1>2
  <2> QED BY <2>1, ConcatProperties
<1>4. SubSeq(q, 1, n) = payload
  <2>1. z \in Seq(S)
    BY <1>2
  <2> QED BY <2>1, CutConcat
<1>5. q = Filled(payload, p)
  BY DEF Filled, z
<1> HIDE DEF q, k
<1>6. n + k = p
  BY <1>1 DEF k
<1>7. \A i \in 1 .. n : q[i] = payload[i]
  BY <1>1, <1>2, <1>3, <1>6
<1>8. \A i \in n + 1 .. p : q[i] = zero
  BY <1>1, <1>2, <1>3, <1>6
<1>9. q \in Seq(S) /\ Len(q) = p
  BY <1>1, <1>2, <1>3, <1>6
<1> QED BY <1>2, <1>4, <1>5, <1>7, <1>8, <1>9, Zenon DEF FillsTo, z, k, zero

\* A payload that fits, and the message w it is sealed to.
Ready(S, key, f, payload, mtu, out, p, w) ==
  /\ u8 \subseteq S /\ AEAD!Plain(0) \in S
  /\ f["receiver_index"] \in u32 /\ f["counter"] \in u64
  /\ payload \in Seq(S) /\ out \in Seq(S) /\ w \in Seq(S) /\ p \in Nat
  /\ p = padded_len(Len(payload), mtu) /\ Len(payload) <= p /\ p + 32 <= Len(out)
  /\ Len(w) = p + 16
  /\ w = Whole(key, nonce_from_counter(f["counter"]), <<>>, Filled(payload, p))

\* The datagram that encapsulate makes of it.
LEMMA Sent ==
  ASSUME NEW S, NEW key, NEW f, NEW payload, NEW mtu, NEW out, NEW p, NEW w,
         Ready(S, key, f, payload, mtu, out, p, w)
  PROVE  encapsulate(key, f, payload, mtu, out) = Header(f["receiver_index"], f["counter"]) \o w
<1> USE DEF Ready
<1> DEFINE index == f["receiver_index"]
           counter == f["counter"]
           nonce == nonce_from_counter(counter)
           h == Header(index, counter)
           n == Len(payload)
           m == Len(out)
           o == SubSeq(out, 17, m)
           c == h \o o
           z == Zeros(p - n)
           q == Filled(payload, p)
           r == SubSeq(c, 17 + p, Len(c))
           staged == stage(c, payload, p)
           b == q \o r
<1>0. n \in Nat /\ m \in Nat /\ ~ (m < 32) /\ ~ (m < p + 32) /\ p + 32 <= m
  BY LenProperties
<1>1. h \in Seq(S) /\ Len(h) = 16
  <2>1. h \in Seq(u8) /\ Len(h) = 16
    <3> HIDE DEF index, counter
    <3>1. index \in u32 /\ counter \in u64
      BY DEF index, counter
    <3> QED BY <3>1, HeaderBytes
  <2> HIDE DEF h
  <2> QED BY <2>1, Wider
<1>2. write_transport_header(out, f) = c
  BY <1>0, Zenon DEF write_transport_header, Header, Type, TRANSPORT_OVERHEAD
<1> HIDE DEF h
<1>3. o \in Seq(S) /\ Len(o) = m - 16
  <2>1. 17 \in Nat \ {0} /\ m \in Nat /\ 17 <= m + 1 /\ m <= Len(out) /\ m - 17 + 1 = m - 16
    BY <1>0
  <2>2. SubSeq(out, 17, m) \in Seq(S) /\ Len(SubSeq(out, 17, m)) = m - 17 + 1
    <3> HIDE DEF m
    <3> QED BY <2>1, Part
  <2> QED BY <2>1, <2>2
<1> HIDE DEF o
<1>4. c \in Seq(S) /\ Len(c) = m /\ SubSeq(c, 1, 16) = h
  <2>1. h \in Seq(S) /\ o \in Seq(S)
    BY <1>1, <1>3
  <2>2. SubSeq(h \o o, 1, Len(h)) = h /\ h \o o \in Seq(S) /\ Len(h \o o) = Len(h) + Len(o)
    BY <2>1, CutConcat
  <2>3. Len(h) + Len(o) = m
    BY <1>0, <1>1, <1>3
  <2> QED BY <1>1, <2>2, <2>3, Zenon
<1> HIDE DEF c
<1>5. r \in Seq(S) /\ Len(r) = m - 16 - p
  <2> DEFINE a == 17 + p
  <2>1. a \in Nat \ {0} /\ Len(c) \in Nat /\ a <= Len(c) + 1 /\ Len(c) <= Len(c)
        /\ Len(c) - a + 1 = m - 16 - p
    <3> DEFINE l == Len(c)
    <3>1. l = m
      BY <1>4
    <3> HIDE DEF m, l
    <3>2. a \in Nat \ {0} /\ l \in Nat /\ a <= l + 1 /\ l <= l /\ l - a + 1 = m - 16 - p
      BY <1>0, <3>1
    <3> QED BY <3>2 DEF l
  <2>2. SubSeq(c, a, Len(c)) \in Seq(S) /\ Len(SubSeq(c, a, Len(c))) = Len(c) - a + 1
    <3> DEFINE l == Len(c)
    <3>1. c \in Seq(S) /\ a \in Nat \ {0} /\ l \in Nat /\ a <= l + 1 /\ l <= Len(c)
      BY <1>4, <2>1
    <3> HIDE DEF a, l
    <3>2. SubSeq(c, a, l) \in Seq(S) /\ Len(SubSeq(c, a, l)) = l - a + 1
      BY <3>1, Part
    <3> QED BY <3>2 DEF l
  <2> QED BY <2>1, <2>2
<1> HIDE DEF r
<1>6. /\ q \in Seq(S) /\ Len(q) = p /\ z \in Seq(S)
  <2>1. FillsTo(S, payload, p)
    BY FilledParts, Zenon
  <2> QED BY <2>1, Zenon DEF FillsTo
<1>7. q = payload \o z
  BY DEF Filled
<1>8. staged = h \o payload \o z \o r
  BY <1>4, Zenon DEF stage, Zeros, r
<1> HIDE DEF z, q, staged
<1>9. /\ SubSeq(staged, 1, 16) = h /\ SubSeq(staged, 17, Len(staged)) = b
  <2>1. h \in Seq(S) /\ z \in Seq(S) /\ r \in Seq(S)
    BY <1>1, <1>5, <1>6
  <2> DEFINE d == h \o payload \o z \o r
  <2>2. SubSeq(d, 1, Len(h)) = h /\ SubSeq(d, Len(h) + 1, Len(d)) = (payload \o z) \o r
    <3>1. Behind(h, payload, z, r)
      BY <2>1, BehindHeader
    <3> QED BY <3>1, Zenon DEF Behind
  <2> HIDE DEF d
  <2>3. staged = d /\ Len(h) = 16 /\ 16 + 1 = 17
    BY <1>1, <1>8 DEF d
  <2> QED BY <1>7, <2>2, <2>3, Zenon
<1>10. /\ b \in Seq(S) /\ Len(b) = p + Len(r) /\ SubSeq(b, 1, p) = q
  <2>1. q \in Seq(S) /\ r \in Seq(S)
    BY <1>5, <1>6
  <2>2. SubSeq(q \o r, 1, Len(q)) = q /\ q \o r \in Seq(S) /\ Len(q \o r) = Len(q) + Len(r)
    BY <2>1, CutConcat
  <2> QED BY <1>6, <2>2
<1> HIDE DEF b
<1>11. ~ (p + 16 > Len(b)) /\ Len(w) <= Len(b)
  <2> DEFINE l == Len(b)
             k == Len(r)
  <2>1. l = p + k /\ k = m - 16 - p
    BY <1>5, <1>10
  <2> HIDE DEF m, l, k
  <2>2. l = m - 16 /\ m \in Nat /\ p + 32 <= m
    BY <1>0, <2>1
  <2>3. p + 16 <= l /\ l \in Int
    BY <2>2
  <2>4. ~ (p + 16 > l)
    BY <2>3
  <2> QED BY <2>3, <2>4 DEF l
<1>12. AEAD!seal_in_place_with(key, nonce, <<>>, p, b) = AEAD!Ok(p + 16, AEAD!over(b, w))
  BY <1>10, <1>11, Zenon DEF AEAD!seal_in_place_with, Whole, Ciphertext, TagOf, q
<1>13. SubSeq(AEAD!over(b, w), 1, p + 16) = w
  <2>1. b \in Seq(S) /\ Len(w) <= Len(w) /\ Len(w) <= Len(b)
    BY <1>0, <1>10, <1>11
  <2>2. SubSeq(AEAD!over(b, w), 1, Len(w)) = w
    BY <2>1, OverOver
  <2> QED BY <2>2
<1> DEFINE sealed == AEAD!seal_in_place_with(key, nonce, <<>>, p, b)
<1>14. SubSeq(sealed.out, 1, sealed.len) = w
  <2> HIDE DEF sealed
  <2>1. sealed.out = AEAD!over(b, w) /\ sealed.len = p + 16
    BY <1>12 DEF AEAD!Ok, sealed
  <2> QED BY <1>13, <2>1
<1>15. encapsulate(key, f, payload, mtu, out) = SubSeq(staged, 1, 16) \o SubSeq(sealed.out, 1, sealed.len)
  BY <1>0, <1>2, <1>9, Zenon DEF encapsulate, staged, TRANSPORT_OVERHEAD
<1> QED BY <1>9, <1>14, <1>15, Zenon DEF h

\* A plaintext q that was sealed to w, and a buffer it fits in.
Carries(S, Old, key, counter, q, out, w) ==
  /\ u8 \subseteq S /\ counter \in u64
  /\ q \in Seq(Plains(u8)) /\ out \in Seq(Old) /\ Len(q) + 16 <= Len(out)
  /\ q \in Seq(S) /\ out \in Seq(S) /\ w \in Seq(S) /\ Len(w) = Len(q) + 16
  /\ w = Whole(key, nonce_from_counter(counter), <<>>, q)

\* What decapsulate makes of a datagram with it.
LEMMA Received ==
  ASSUME NEW S, NEW Old, NEW key, NEW index \in u32, NEW counter, NEW q, NEW out, NEW w,
         Carries(S, Old, key, counter, q, out, w)
  PROVE  decapsulate(key, Header(index, counter) \o w, out)
           = SubSeq(q, 1, IF ip_packet_len(q) = 0 THEN Len(q) ELSE ip_packet_len(q))
<1> USE DEF Carries
<1> DEFINE d == Header(index, counter) \o w
           m == parse(d)
           nonce == nonce_from_counter(counter)
           opened == AEAD!open_with(key, nonce, <<>>, w, out)
<1>0. Len(q) \in Nat /\ Len(out) \in Nat
  BY LenProperties
<1>1. m = [kind |-> "TransportData", fields |-> [receiver_index |-> index, counter |-> counter],
           ciphertext |-> w]
  <2>1. Len(w) >= 16
    BY <1>0
  <2> QED BY <2>1, TransportParses
<1> HIDE DEF m
<1>2. m.fields["counter"] = counter /\ m.ciphertext = w
  BY <1>1
<1>3. opened = AEAD!Ok(Len(q), AEAD!over(out, q))
  <2> HIDE DEF nonce
  <2>1. AEAD!open_with(key, nonce, <<>>, Whole(key, nonce, <<>>, q), out)
          = AEAD!Ok(Len(q), AEAD!over(out, q))
    BY SealOpen
  <2> QED BY <2>1 DEF nonce
<1> HIDE DEF opened
<1>4. opened.res = "Ok" /\ opened.len = Len(q) /\ opened.out = AEAD!over(out, q)
  BY <1>3 DEF AEAD!Ok
<1>5. SubSeq(AEAD!over(out, q), 1, Len(q)) = q
  <2>1. Len(q) <= Len(q) /\ Len(q) <= Len(out)
    BY <1>0
  <2> QED BY <2>1, OverOver
<1>6. SubSeq(opened.out, 1, opened.len) = q
  BY <1>4, <1>5
<1> QED BY <1>2, <1>4, <1>6, Zenon DEF decapsulate, m, opened, d

\* Every packet arrives as it was sent: for every key, index, counter, MTU and
\* buffer, and for every payload that is not an IP packet with bytes behind its
\* own end (those are cut off on arrival, by ip_packet_len).
THEOREM PacketArrives ==
  ASSUME NEW Old, NEW key, NEW f, f["receiver_index"] \in u32, f["counter"] \in u64,
         NEW payload \in Seq(Plains(u8)), ip_packet_len(payload) \in {0, Len(payload)},
         NEW mtu \in Nat, NEW out \in Seq(Old)
  PROVE  Arrives(key, f, payload, mtu, out)
<1> DEFINE index == f["receiver_index"]
           counter == f["counter"]
           nonce == nonce_from_counter(counter)
           n == Len(payload)
           m == Len(out)
           p == padded_len(n, mtu)
           top == padded_len(n, 0)
           d == encapsulate(key, f, payload, mtu, out)
<1>0. n \in Nat /\ m \in Nat
  BY LenProperties
<1>1. p \in Nat /\ n <= p /\ p <= top /\ (mtu # 0 /\ n <= mtu => p <= mtu) /\ (n = 0 => p = 0)
  <2> HIDE DEF n
  <2> QED BY <1>0, PaddedLen, Zenon
<1>2. top \in Nat /\ transport_datagram_len(n) = top + 32
  <2> HIDE DEF n
  <2>1. 0 \in Nat
    OBVIOUS
  <2>2. padded_len(n, 0) \in Nat
    BY <1>0, <2>1, PaddedLen, Zenon
  <2> QED BY <2>2 DEF transport_datagram_len, TRANSPORT_OVERHEAD
<1>3. CASE m < p + 32
  <2>1. d = BufferTooSmall
    BY <1>3, Zenon DEF encapsulate, TRANSPORT_OVERHEAD
  <2>2. ~ (m >= transport_datagram_len(n))
    <3> DEFINE t == transport_datagram_len(n)
    <3> HIDE DEF n, m, p, top, t
    <3>1. t = top + 32
      BY <1>2 DEF t
    <3>2. ~ (m >= t)
      BY <1>0, <1>1, <1>2, <1>3, <3>1
    <3> QED BY <3>2 DEF t
  <2> QED BY <1>3, <2>1, <2>2, Zenon DEF Arrives, TRANSPORT_OVERHEAD
<1>4. CASE ~ (m < p + 32)
  <2> DEFINE h == Header(index, counter)
             q == Filled(payload, p)
             w == Whole(key, nonce, <<>>, q)
             S == Cells(u8, Old \cup u8, key, nonce, <<>>, q)
             l == ip_packet_len(q)
             got == decapsulate(key, d, out)
  <2>0. index \in u32 /\ counter \in u64
    OBVIOUS
  <2> HIDE DEF index, counter, nonce
  <2>1. AEAD!Plain(0) \in Plains(u8)
    BY DEF Plains, u8
  <2>2. /\ q \in Seq(Plains(u8)) /\ Len(q) = p /\ SubSeq(q, 1, n) = payload
        /\ \A i \in 1 .. n : q[i] = payload[i]
        /\ \A i \in n + 1 .. p : q[i] = AEAD!Plain(0)
    <3>1. FillsTo(Plains(u8), payload, p)
      <4> HIDE DEF p
      <4>1. p \in Nat /\ Len(payload) <= p
        BY <1>1
      <4> QED BY <2>1, <4>1, FilledParts, Zenon
    <3> QED BY <3>1, Zenon DEF FillsTo
  <2> HIDE DEF p, q
  <2>3. q \in Seq(S) /\ out \in Seq(S) /\ w \in Seq(S) /\ Len(w) = Len(q) + 16
    <3>1. Old \subseteq Old \cup u8
      OBVIOUS
    <3> DEFINE O == Old \cup u8
    <3> HIDE DEF O
    <3>2. out \in Seq(O)
      BY <3>1, Wider DEF O
    <3>3. q \in Seq(Plains(u8))
      BY <2>2
    <3>4. LET T == Cells(u8, O, key, nonce, <<>>, q)
          IN  q \in Seq(T) /\ out \in Seq(T) /\ w \in Seq(T) /\ Len(w) = Len(q) + 16
      BY <3>2, <3>3, SealTypes
    <3> QED BY <3>4 DEF O
  <2>4. u8 \subseteq S /\ Plains(u8) \subseteq S
    BY Zenon DEF Cells
  <2> HIDE DEF S, w
  <2>5. payload \in Seq(S) /\ AEAD!Plain(0) \in S
    <3>1. Plains(u8) \subseteq S
      BY <2>4
    <3> QED BY <2>1, <3>1, Wider
  <2>6. Len(w) = p + 16 /\ n <= p /\ p + 32 <= m /\ Len(q) + 16 <= m
    BY <1>0, <1>1, <1>4, <2>2, <2>3
  <2>7. d = h \o w
    <3>1. Ready(S, key, f, payload, mtu, out, p, w)
      BY <1>1, <2>0, <2>3, <2>4, <2>5, <2>6, Zenon DEF Ready, w, q, p, nonce, index, counter
    <3> QED BY <3>1, Sent DEF index, counter
  <2>8. got = SubSeq(q, 1, IF l = 0 THEN Len(q) ELSE l)
    <3>1. decapsulate(key, h \o w, out) = SubSeq(q, 1, IF l = 0 THEN Len(q) ELSE l)
      <4>1. Carries(S, Old, key, counter, q, out, w)
        BY <2>0, <2>2, <2>3, <2>4, <2>6, Zenon DEF Carries, w, nonce
      <4> QED BY <2>0, <4>1, Received
    <3> QED BY <2>7, <3>1
  <2>9. Len(d) = p + 32 /\ d # BufferTooSmall
    <3>1. d \in Seq(S) /\ Len(d) = 16 + Len(w)
      <4>2. h \in Seq(u8) /\ Len(h) = 16
        BY <2>0, HeaderBytes
      <4> HIDE DEF h
      <4>3. h \in Seq(S) /\ w \in Seq(S)
        BY <2>3, <2>4, <4>2, Wider
      <4>4. h \o w \in Seq(S) /\ Len(h \o w) = Len(h) + Len(w)
        BY <4>3, CutConcat
      <4> QED BY <2>7, <4>2, <4>4
    <3> HIDE DEF d
    <3>2. Len(d) = p + 32
      BY <1>1, <2>6, <3>1
    <3>3. Len(<<>>) = 0
      OBVIOUS
    <3> QED BY <1>1, <3>2, <3>3 DEF BufferTooSmall
  <2>10. /\ l \in Nat /\ l <= p /\ (l # 0 => l >= n)
         /\ ip_packet_len(payload) = n /\ payload # <<>> => l = n
    <3>1. q \in Seq(Plains(u8)) /\ Len(payload) <= Len(q) /\ \A i \in 1 .. Len(payload) : q[i] = payload[i]
      BY <2>2, <2>6
    <3>2. /\ l \in Nat /\ l <= Len(q) /\ (l # 0 => l >= Len(payload))
          /\ ip_packet_len(payload) = Len(payload) /\ payload # <<>> => l = Len(payload)
      BY <3>1, PaddedClaim
    <3> QED BY <2>2, <3>2
  <2> DEFINE g == IF l = 0 THEN Len(q) ELSE l
  <2>11. g \in Nat /\ n <= g /\ g <= p
    <3> HIDE DEF l, n
    <3> QED BY <1>1, <2>2, <2>10
  <2>12. got = SubSeq(q, 1, g)
    BY <2>8
  <2> HIDE DEF g, got, l, d
  <2>13. got \in Seq(S) /\ Len(got) = g /\ \A i \in 1 .. g : got[i] = q[i]
    <3>1. q \in Seq(S) /\ 1 \in Nat \ {0} /\ g \in Nat /\ 1 <= g + 1 /\ g <= Len(q)
      BY <2>2, <2>3, <2>11
    <3>2. /\ SubSeq(q, 1, g) \in Seq(S) /\ Len(SubSeq(q, 1, g)) = g - 1 + 1
          /\ \A i \in 1 .. g - 1 + 1 : SubSeq(q, 1, g)[i] = q[1 + i - 1]
      BY <3>1, Part
    <3>3. g - 1 + 1 = g /\ \A i \in 1 .. g : 1 + i - 1 = i
      BY <2>11
    <3> QED BY <2>12, <3>2, <3>3
  <2>14. SubSeq(got, 1, n) = payload
    <3> DEFINE v == SubSeq(got, 1, n)
    <3>1. got \in Seq(S) /\ 1 \in Nat \ {0} /\ n \in Nat /\ 1 <= n + 1 /\ n <= Len(got)
      BY <1>0, <2>11, <2>13
    <3> HIDE DEF n
    <3>2. /\ v \in Seq(S) /\ Len(v) = n - 1 + 1 /\ \A i \in 1 .. n - 1 + 1 : v[i] = got[1 + i - 1]
      BY <3>1, Part
    <3>3. n - 1 + 1 = n /\ \A i \in 1 .. n : 1 + i - 1 = i /\ i \in 1 .. g
      BY <1>0, <2>11
    <3> HIDE DEF v
    <3>4. Len(v) = n /\ \A i \in 1 .. n : v[i] = payload[i]
      BY <2>2, <2>13, <3>2, <3>3
    <3>5. v = payload
      BY <2>5, <3>2, <3>4, SeqEqual DEF n
    <3> QED BY <3>5 DEF v
  <2>15. ASSUME ip_packet_len(payload) = n PROVE got = payload
    <3>1. CASE payload = <<>>
      <4>1. n = 0
        BY <3>1
      <4>2. g = n
        BY <1>1, <2>11, <4>1
      <4> QED BY <2>2, <2>12, <4>2
    <3>2. CASE payload # <<>>
      <4>1. l = n
        BY <2>10, <2>15, <3>2
      <4>2. n # 0
        BY <3>2, EmptySeq
      <4>3. g = n
        BY <4>1, <4>2 DEF g
      <4> QED BY <2>2, <2>12, <4>3
    <3> QED BY <3>1, <3>2
  <2>16. ASSUME NEW i \in n + 1 .. Len(got) PROVE got[i] = AEAD!Plain(0)
    <3> HIDE DEF n
    <3>0. i \in n + 1 .. g
      BY <2>13
    <3>1. i \in 1 .. g /\ i \in n + 1 .. p
      BY <1>0, <1>1, <2>11, <3>0
    <3> QED BY <2>2, <2>13, <3>1
  <2>17. ASSUME mtu # 0 /\ n <= mtu PROVE Len(d) <= mtu + 32
    BY <1>1, <2>9, <2>17
  <2> QED
    BY <1>4, <2>9, <2>14, <2>15, <2>16, <2>17, Zenon DEF Arrives, TRANSPORT_OVERHEAD, d, got, p
<1> QED BY <1>3, <1>4

-----------------------------------------------------------------------------
(* Every call *)

\* The arguments of a call are of the set of its function.
Called ==
  /\ call.on = "seal" => call.args \in Seals
  /\ call.on = "build" => call.args \in Builds
  /\ call.on = "send" => call.args \in Sends

\* They are chosen from those sets and kept until the call returns.
LEMMA CallsTyped == MessageSpec => []Called
<1>1. Idle => Called
  BY DEF Idle, NoCall, Called
<1>2. Called /\ [SealCall \/ BuildCall \/ SendCall \/ Return]_call => Called'
  <2> SUFFICES ASSUME Called, [SealCall \/ BuildCall \/ SendCall \/ Return]_call PROVE Called'
    OBVIOUS
  <2>1. CASE SealCall
    BY <2>1 DEF SealCall, Call, Called
  <2>2. CASE BuildCall
    BY <2>2 DEF BuildCall, Call, Called
  <2>3. CASE SendCall
    BY <2>3 DEF SendCall, Call, Called
  <2>4. CASE Return
    BY <2>4 DEF Return, NoCall, Called
  <2>5. CASE UNCHANGED call
    BY <2>5 DEF Called
  <2> QED BY <2>1, <2>2, <2>3, <2>4, <2>5
<1> QED BY <1>1, <1>2, PTL DEF MessageSpec

\* The arguments of seal are bytes.
LEMMA SealArguments ==
  ASSUME Called, call.on = "seal"
  PROVE  /\ call.args.key \in Seq(u8) /\ call.args.nonce \in Seq(u8)
         /\ call.args.aad \in Seq(Plains(u8)) /\ call.args.pt \in Seq(Plains(u8))
         /\ call.args.out \in Seq(Plains(u8))
<1>1. call.args \in [key : Seq(u8), nonce : Seq(u8), aad : Seq(Plains(u8)),
                     pt : Seq(Plains(u8)), out : Seq(Plains(u8))]
  BY SealAssumption, Zenon DEF Called
<1> DEFINE B == Seq(u8)
           P == Seq(Plains(u8))
<1> HIDE DEF B, P
<1>2. call.args \in [key : B, nonce : B, aad : P, pt : P, out : P]
  BY <1>1 DEF B, P
<1>3. /\ call.args.key \in B /\ call.args.nonce \in B /\ call.args.aad \in P
      /\ call.args.pt \in P /\ call.args.out \in P
  BY <1>2
<1> QED BY <1>3 DEF B, P

\* Whatever is sealed, copied or in place, opens again, with any key, nonce and
\* additional data and into a buffer of any size (src/crypto/aead.rs).
THEOREM SealsAlwaysOpen == MessageSpec => []SealedOpens
<1>1. Called => SealedOpens
  <2> SUFFICES ASSUME Called, call.on = "seal" PROVE SealedOpens
    BY DEF SealedOpens
  <2> DEFINE c == call.args
  <2>1. c.pt \in Seq(Plains(u8)) /\ c.out \in Seq(Plains(u8))
    BY SealArguments
  <2>2. AEAD!SealedOpens(c.key, c.nonce, c.aad, c.pt, c.out)
    <3> HIDE DEF c
    <3> QED BY <2>1, SealOpensAgain
  <2> QED BY <2>2, Zenon DEF SealedOpens
<1> QED BY <1>1, CallsTyped, PTL

\* What was changed, cut, lengthened, or sealed under another key, nonce or
\* additional data is refused and the output left alone (src/crypto/aead.rs).
THEOREM TamperingAlwaysRefused == MessageSpec => []TamperedRefused
<1>1. Called => TamperedRefused
  <2> SUFFICES ASSUME Called, call.on = "seal" PROVE TamperedRefused
    BY DEF TamperedRefused
  <2> DEFINE c == call.args
  <2>1. /\ c.key \in Seq(u8) /\ c.nonce \in Seq(u8) /\ c.aad \in Seq(Plains(u8))
        /\ c.pt \in Seq(Plains(u8)) /\ c.out \in Seq(Plains(u8))
    BY SealArguments
  <2>2. AEAD!TamperedRefused(c.key, c.nonce, c.aad, c.pt, c.out)
    <3> HIDE DEF c
    <3> QED BY <2>1, TamperingRefused
  <2> QED BY <2>2, Zenon DEF TamperedRefused
<1> QED BY <1>1, CallsTyped, PTL

\* Every message that is built parses back to its fields, and neither cut nor
\* lengthened nor with a reserved byte set (src/message.rs).
THEOREM BuiltAlwaysParses == MessageSpec => []BuiltParses
<1>1. Called => BuiltParses
  <2> SUFFICES ASSUME Called, call.on = "build" PROVE BuiltParses
    BY DEF BuiltParses
  <2> DEFINE c == call.args
             f == c.f
  <2>1. c \in [kind : Kinds, out : Seq(u8), f : Fields]
    BY BuildAssumption, Zenon DEF Called
  <2>2. c.kind \in Kinds /\ c.out \in Seq(u8) /\ f \in Fields
    <3> HIDE DEF c
    <3> QED BY <2>1
  <2> HIDE DEF c, f
  <2>3. Initiation(u8, f) /\ Response(u8, f) /\ Reply(u8, f) /\ Transport(f)
    <3> DEFINE B == [n \in {16, 24, 28, 32, 48} |-> Bytes(u8, n)]
    <3> HIDE DEF B
    <3> QED BY <2>2 DEF Fields, Initiation, Response, Reply, Transport
  <2>4. Parses(c.kind, c.out, f)
    BY <2>2, <2>3, BuiltMessagesParse DEF Kinds
  <2> QED BY <2>4, Zenon DEF BuiltParses, c, f
<1> QED BY <1>1, CallsTyped, PTL

\* Every packet arrives as it was sent, whatever the MTU and whatever the buffers
\* held (src/tunnel.rs, src/message.rs, embed/src/lib.rs).
THEOREM PacketsAlwaysArrive == MessageSpec => []PacketSurvives
<1>1. Called => PacketSurvives
  <2> SUFFICES ASSUME Called, call.on = "send" PROVE PacketSurvives
    BY DEF PacketSurvives
  <2> DEFINE c == call.args
             f == c.f
  <2>1. /\ c \in [key : Seq(u8), f : Fields, payload : Seq(Plains(u8)), mtu : Nat,
                  out : Seq(Plains(u8))]
        /\ ip_packet_len(c.payload) \in {0, Len(c.payload)}
    BY SendAssumption, Zenon DEF Called
  <2>2. c.payload \in Seq(Plains(u8)) /\ c.mtu \in Nat /\ c.out \in Seq(Plains(u8)) /\ f \in Fields
    <3> DEFINE K == Seq(u8)
               P == Seq(Plains(u8))
    <3> HIDE DEF c, K, P
    <3>1. c \in [key : K, f : Fields, payload : P, mtu : Nat, out : P]
      BY <2>1 DEF K, P
    <3>2. c.payload \in P /\ c.mtu \in Nat /\ c.out \in P /\ f \in Fields
      BY <3>1
    <3> QED BY <3>2 DEF P
  <2> HIDE DEF c, f
  <2>3. f["receiver_index"] \in u32 /\ f["counter"] \in u64
    BY <2>2 DEF Fields
  <2>4. Arrives(c.key, f, c.payload, c.mtu, c.out)
    BY <2>1, <2>2, <2>3, PacketArrives
  <2> QED BY <2>4, Zenon DEF PacketSurvives, c, f
<1> QED BY <1>1, CallsTyped, PTL

=============================================================================
