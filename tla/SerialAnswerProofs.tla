------------------------- MODULE SerialAnswerProofs -------------------------
(***************************************************************************)
(* SerialLine upwards: what the parser finds, and which answer each        *)
(* accepted packet is charged to.                                          *)
(***************************************************************************)
EXTENDS SerialProofs

----------------------------------------------------------------------------
(* Sequences in sequences: Given *)

LEMMA Regroup ==
  ASSUME NEW V, NEW s \in Seq(V), NEW t \in Seq(V), NEW u \in Seq(V)
  PROVE  s \o (t \o u) = (s \o t) \o u
BY SMTT(30), ConcatAssociative

LEMMA GivenSelf ==
  ASSUME NEW V, NEW s \in Seq(V)
  PROVE  Given(s, s)
<1> DEFINE at == [i \in Full(s) |-> i]
<1>1. at \in [Full(s) -> DOMAIN s]
  BY DEF Full
<1>2. \A i \in Full(s) : s[i] = s[at[i]]
  OBVIOUS
<1>3. \A i, j \in Full(s) : i < j => at[i] < at[j]
  OBVIOUS
<1>4. QED
  BY <1>1, <1>2, <1>3 DEF Given, Embeds

LEMMA GivenEmpty ==
  ASSUME NEW s, NEW t, Full(s) = {}
  PROVE  Given(s, t)
<1> DEFINE at == [i \in {} |-> i]
<1>1. at \in [Full(s) -> DOMAIN t]
  OBVIOUS
<1>2. QED
  BY <1>1 DEF Given, Embeds

LEMMA GivenTrans ==
  ASSUME NEW V, NEW s \in Seq(V), NEW t \in Seq(V), NEW u \in Seq(V),
         Given(s, t), Given(t, u)
  PROVE  Given(s, u)
<1>1. PICK f \in [Full(s) -> DOMAIN t] :
        /\ \A i \in Full(s) : s[i] = t[f[i]]
        /\ \A i, j \in Full(s) : i < j => f[i] < f[j]
  BY DEF Given, Embeds
<1>2. PICK g \in [Full(t) -> DOMAIN u] :
        /\ \A i \in Full(t) : t[i] = u[g[i]]
        /\ \A i, j \in Full(t) : i < j => g[i] < g[j]
  BY DEF Given, Embeds
<1>3. \A i \in Full(s) : f[i] \in Full(t)
  BY <1>1 DEF Full
<1> DEFINE h == [i \in Full(s) |-> g[f[i]]]
<1>4. h \in [Full(s) -> DOMAIN u]
  BY <1>2, <1>3
<1>5. \A i \in Full(s) : s[i] = u[h[i]]
  BY <1>1, <1>2, <1>3
<1>6. \A i, j \in Full(s) : i < j => h[i] < h[j]
  BY <1>1, <1>2, <1>3
<1>7. QED
  BY <1>4, <1>5, <1>6 DEF Given, Embeds

LEMMA GivenConcat ==
  ASSUME NEW V, NEW a \in Seq(V), NEW b \in Seq(V), NEW c \in Seq(V), NEW d \in Seq(V),
         Given(a, b), Given(c, d)
  PROVE  Given(a \o c, b \o d)
<1>1. PICK f \in [Full(a) -> DOMAIN b] :
        /\ \A i \in Full(a) : a[i] = b[f[i]]
        /\ \A i, j \in Full(a) : i < j => f[i] < f[j]
  BY DEF Given, Embeds
<1>2. PICK g \in [Full(c) -> DOMAIN d] :
        /\ \A i \in Full(c) : c[i] = d[g[i]]
        /\ \A i, j \in Full(c) : i < j => g[i] < g[j]
  BY DEF Given, Embeds
<1> DEFINE n == Len(a)
           k == Len(b)
           s == a \o c
           t == b \o d
<1>3. /\ n \in Nat /\ k \in Nat /\ Len(c) \in Nat /\ Len(d) \in Nat
      /\ DOMAIN a = 1 .. n /\ DOMAIN b = 1 .. k /\ DOMAIN c = 1 .. Len(c) /\ DOMAIN d = 1 .. Len(d)
  BY LenProperties
<1>4. /\ DOMAIN s = 1 .. n + Len(c)
      /\ \A i \in 1 .. n + Len(c) : s[i] = IF i <= n THEN a[i] ELSE c[i - n]
  BY ConcatProperties, LenProperties
<1>5. /\ DOMAIN t = 1 .. k + Len(d)
      /\ \A i \in 1 .. k + Len(d) : t[i] = IF i <= k THEN b[i] ELSE d[i - k]
  BY ConcatProperties, LenProperties
<1> HIDE DEF n, k, s, t
<1> DEFINE at == [i \in Full(s) |-> IF i <= n THEN f[i] ELSE k + g[i - n]]
<1>6. ASSUME NEW i \in Full(s), i <= n
      PROVE  i \in Full(a) /\ s[i] = a[i] /\ f[i] \in 1 .. k /\ at[i] = f[i]
  BY <1>1, <1>3, <1>4, <1>6 DEF Full
<1>7. ASSUME NEW i \in Full(s), ~(i <= n)
      PROVE  /\ i - n \in Full(c) /\ s[i] = c[i - n] /\ g[i - n] \in 1 .. Len(d)
             /\ at[i] = k + g[i - n] /\ at[i] \in k + 1 .. k + Len(d)
  <2>1. i \in 1 .. n + Len(c) /\ s[i] # <<>>
    BY <1>4 DEF Full
  <2>2. i - n \in 1 .. Len(c) /\ s[i] = c[i - n]
    BY <1>3, <1>4, <1>7, <2>1
  <2>3. i - n \in Full(c)
    BY <1>3, <2>1, <2>2 DEF Full
  <2>4. g[i - n] \in 1 .. Len(d)
    BY <1>2, <1>3, <2>3
  <2>5. at[i] = k + g[i - n]
    BY <1>7
  <2>6. QED
    BY <1>3, <2>2, <2>3, <2>4, <2>5
<1>8. Full(s) \subseteq Int
  BY <1>3, <1>4 DEF Full
<1>9. at \in [Full(s) -> DOMAIN t]
  <2>1. ASSUME NEW i \in Full(s)
        PROVE  at[i] \in 1 .. k + Len(d)
    <3>1. CASE i <= n
      BY <1>3, <1>6, <3>1
    <3>2. CASE ~(i <= n)
      BY <1>3, <1>7, <3>2
    <3>3. QED
      BY <3>1, <3>2
  <2>2. QED
    BY <1>5, <2>1
<1>10. ASSUME NEW i \in Full(s)
       PROVE  s[i] = t[at[i]]
  <2>1. CASE i <= n
    <3>1. s[i] = b[f[i]] /\ at[i] = f[i] /\ f[i] \in 1 .. k
      BY <1>1, <1>6, <2>1
    <3>2. t[f[i]] = b[f[i]]
      BY <1>3, <1>5, <3>1
    <3>3. QED
      BY <3>1, <3>2
  <2>2. CASE ~(i <= n)
    <3>1. s[i] = d[g[i - n]] /\ at[i] = k + g[i - n] /\ g[i - n] \in 1 .. Len(d)
      BY <1>2, <1>7, <2>2
    <3>2. t[k + g[i - n]] = d[(k + g[i - n]) - k] /\ (k + g[i - n]) - k = g[i - n]
      BY <1>3, <1>5, <3>1
    <3>3. QED
      BY <3>1, <3>2
  <2>3. QED
    BY <2>1, <2>2
<1>11. ASSUME NEW i \in Full(s), NEW j \in Full(s), i < j
       PROVE  at[i] < at[j]
  <2>1. CASE j <= n
    <3>1. i <= n
      BY <1>3, <1>8, <1>11, <2>1
    <3>2. QED
      BY <1>1, <1>6, <1>11, <2>1, <3>1
  <2>2. CASE ~(j <= n) /\ i <= n
    <3>1. at[i] \in 1 .. k
      BY <1>6, <2>2
    <3>2. at[j] \in k + 1 .. k + Len(d)
      BY <1>7, <2>2
    <3>3. QED
      BY <1>3, <3>1, <3>2
  <2>3. CASE ~(j <= n) /\ ~(i <= n)
    <3>1. /\ at[i] = k + g[i - n] /\ i - n \in Full(c) /\ g[i - n] \in 1 .. Len(d)
          /\ at[j] = k + g[j - n] /\ j - n \in Full(c) /\ g[j - n] \in 1 .. Len(d)
      BY <1>7, <2>3
    <3>2. i - n < j - n
      BY <1>3, <1>8, <1>11
    <3>3. g[i - n] < g[j - n]
      BY <1>2, <3>1, <3>2
    <3>4. QED
      BY <1>3, <3>1, <3>3
  <2>4. QED
    BY <2>1, <2>2, <2>3
<1> HIDE DEF at
<1>12. Given(s, t)
  BY <1>9, <1>10, <1>11 DEF Given, Embeds
<1>13. QED
  BY <1>12 DEF s, t

\* What is left out at the front is left out.
LEMMA GivenTail ==
  ASSUME NEW V, NEW s \in Seq(V), NEW t \in Seq(V)
  PROVE  Given(t, s \o t)
<1>1. <<>> \in Seq(V) /\ Full(<<>>) = {}
  BY DEF Full
<1>2. Given(<<>>, s) /\ Given(t, t)
  BY <1>1, GivenEmpty, GivenSelf
<1>3. Given(<<>> \o t, s \o t)
  BY <1>1, <1>2, GivenConcat
<1>4. QED
  BY <1>3, ConcatEmptySeq

----------------------------------------------------------------------------
(* The parser *)

\* Whatever is first the one and then the other is the two in one.
LEMMA JoinedEqual ==
  ASSUME NEW V, NEW s \in Seq(V), NEW t \in Seq(V), NEW u \in Seq(V),
         Len(u) = Len(s) + Len(t),
         \A i \in 1 .. Len(s) : u[i] = s[i],
         \A i \in 1 .. Len(t) : u[Len(s) + i] = t[i]
  PROVE  u = s \o t
<1>1. Len(s) \in Nat /\ Len(t) \in Nat
  BY LenProperties
<1>2. /\ s \o t \in Seq(V) /\ Len(s \o t) = Len(s) + Len(t)
      /\ \A i \in 1 .. Len(s) : (s \o t)[i] = s[i]
      /\ \A i \in 1 .. Len(t) : (s \o t)[Len(s) + i] = t[i]
  BY Joined
<1>3. ASSUME NEW i \in 1 .. Len(s) + Len(t)
      PROVE  u[i] = (s \o t)[i]
  <2>1. CASE i <= Len(s)
    BY <1>1, <1>2, <2>1
  <2>2. CASE ~(i <= Len(s))
    <3>1. i - Len(s) \in 1 .. Len(t) /\ Len(s) + (i - Len(s)) = i
      BY <1>1, <2>2
    <3>2. u[Len(s) + (i - Len(s))] = t[i - Len(s)] /\ (s \o t)[Len(s) + (i - Len(s))] = t[i - Len(s)]
      BY <1>2, <3>1
    <3>3. QED
      BY <3>1, <3>2
  <2>3. QED
    BY <2>1, <2>2
<1>4. QED
  BY <1>2, <1>3, SeqEqual

\* A sequence of bytes in two
LEMMA Halved ==
  ASSUME NEW b \in Seq(Byte), NEW i \in 1 .. Len(b) + 1
  PROVE  /\ SubSeq(b, 1, i - 1) \in Seq(Byte) /\ SubSeq(b, i, Len(b)) \in Seq(Byte)
         /\ Len(SubSeq(b, 1, i - 1)) = i - 1 /\ Len(SubSeq(b, i, Len(b))) = Len(b) + 1 - i
         /\ b = SubSeq(b, 1, i - 1) \o SubSeq(b, i, Len(b))
<1>1. Len(b) \in Nat /\ i \in Nat /\ 1 <= i /\ i <= Len(b) + 1
  BY LenProperties
<1>2. /\ SubSeq(b, 1, i - 1) \in Seq(Byte) /\ Len(SubSeq(b, 1, i - 1)) = i - 1
  <2>1. i - 1 \in Nat /\ i - 1 <= Len(b) /\ 1 <= (i - 1) + 1
    BY <1>1
  <2>2. /\ SubSeq(b, 1, i - 1) \in Seq(Byte) /\ Len(SubSeq(b, 1, i - 1)) = (i - 1) + 1 - 1
    BY <2>1, Piece
  <2>3. QED
    BY <1>1, <2>2
<1>3. /\ SubSeq(b, i, Len(b)) \in Seq(Byte) /\ Len(SubSeq(b, i, Len(b))) = Len(b) + 1 - i
  BY <1>1, Piece
<1>4. SubSeq(b, 1, i - 1) \o SubSeq(b, (i - 1) + 1, Len(b)) = SubSeq(b, 1, Len(b))
  <2>1. 1 \in 1 .. Len(b) + 1 /\ i - 1 \in 1 - 1 .. Len(b) /\ Len(b) \in i - 1 .. Len(b)
    BY <1>1
  <2>2. QED
    BY <2>1, ConcatAdjacentSubSeq
<1>5. (i - 1) + 1 = i
  BY <1>1
<1>6. SubSeq(b, 1, Len(b)) = b
  BY SubSeqFull
<1>7. QED
  BY <1>2, <1>3, <1>4, <1>5, <1>6

\* Where removeUntilFindHead goes on: at the first mark before the last two
\* bytes, at these, or at the beginning of what is no longer than they.
Marked(b) == {i \in 1 .. Len(b) - 2 : MarkAt(b, i)}

LEMMA FromMarkType ==
  ASSUME NEW b \in Seq(Byte)
  PROVE  \E i \in 1 .. Len(b) + 1 :
           /\ FromMark(b) = SubSeq(b, i, Len(b))
           /\ Marked(b) # {} => i \in Marked(b) /\ \A j \in Marked(b) : i <= j
           /\ Marked(b) = {} => i = IF Len(b) > 2 THEN Len(b) - 1 ELSE 1
<1> DEFINE i == IF Marked(b) # {} THEN CHOOSE j \in Marked(b) : \A k \in Marked(b) : j <= k
                ELSE IF Len(b) > 2 THEN Len(b) - 1 ELSE 1
<1>1. FromMark(b) = SubSeq(b, i, Len(b))
  BY DEF FromMark, Marked
<1>2. Len(b) \in Nat
  BY LenProperties
<1>3. CASE Marked(b) # {}
  <2>1. Marked(b) \subseteq Nat /\ Marked(b) \subseteq 1 .. Len(b) - 2
    BY <1>2 DEF Marked
  <2>2. \E j \in Marked(b) : \A k \in Marked(b) : j <= k
    BY <1>3, <2>1, LeastNat
  <2>3. i \in Marked(b) /\ \A j \in Marked(b) : i <= j
    BY <1>3, <2>2
  <2> HIDE DEF i
  <2>4. i \in 1 .. Len(b) + 1
    BY <1>2, <2>1, <2>3
  <2>5. QED
    BY <1>1, <1>3, <2>3, <2>4
<1>4. CASE Marked(b) = {}
  <2>1. i = IF Len(b) > 2 THEN Len(b) - 1 ELSE 1
    BY <1>4
  <2> HIDE DEF i
  <2>2. i \in 1 .. Len(b) + 1
    BY <1>2, <2>1
  <2>3. QED
    BY <1>1, <1>4, <2>1, <2>2
<1>5. QED
  BY <1>3, <1>4

\* What a round of the loop is: the end of it, a packet, or a frame that is none.
LEMMA RoundType ==
  ASSUME NEW b \in Seq(Byte), NEW f \in Seq(Seq(Byte))
  PROVE  \/ ~Enough(b) /\ Round(<<b, f>>) = <<b, f>>
         \/ \E n \in Nat :
              /\ Enough(b) /\ n = U16(b, 3) /\ n + 6 <= Len(b) /\ 6 < Len(b)
              /\ LET r == SubSeq(b, n + 7, Len(b))
                      x == SubSeq(b, 5, n + 4)
                 IN  /\ CrcFits(b, 1, n) /\ r \in Seq(Byte) /\ x \in Seq(Byte)
                     /\ Len(r) = Len(b) - n - 6
                     /\ Round(<<b, f>>) = <<FromMark(r), Append(f, x)>>
         \/ /\ Enough(b) /\ 6 < Len(b) /\ ~CrcFits(b, 1, U16(b, 3))
            /\ AfterBad(b) \in Seq(Byte) /\ Len(AfterBad(b)) = Len(b) - 2
            /\ Round(<<b, f>>) = <<FromMark(AfterBad(b)), f>>
<1>1. <<b, f>>[1] = b /\ <<b, f>>[2] = f
  OBVIOUS
<1>2. CASE ~Enough(b)
  BY <1>1, <1>2 DEF Round
<1>3. CASE Enough(b)
  <2> DEFINE n == U16(b, 3)
  <2>1. Len(b) \in Nat /\ 6 < Len(b) /\ n + 6 <= Len(b)
    <3>1. Len(b) \in Nat /\ 6 < Len(b)
      BY <1>3, LenProperties DEF Enough
    <3>2. b[3] \in Byte /\ b[4] \in Byte
      BY <3>1, ElementOfSeq
    <3>3. PICK u \in Byte, v \in Byte : b[3] = u /\ b[4] = v
      BY <3>2
    <3>4. n = u + 256 * v
      BY <3>3 DEF U16
    <3>5. u \in Nat /\ v \in Nat
      BY DEF Byte
    <3>6. n \in Nat
      BY <3>4, <3>5
    <3>7. QED
      BY <1>3, <3>1, <3>6 DEF Enough
  <2>2. n \in Nat
    <3>1. b[3] \in Byte /\ b[4] \in Byte
      BY <2>1, ElementOfSeq
    <3>2. PICK u \in Byte, v \in Byte : b[3] = u /\ b[4] = v
      BY <3>1
    <3>3. n = u + 256 * v
      BY <3>2 DEF U16
    <3>4. u \in Nat /\ v \in Nat
      BY DEF Byte
    <3>5. QED
      BY <3>3, <3>4
  <2>3. Round(<<b, f>>) = IF CrcFits(b, 1, n)
          THEN <<FromMark(SubSeq(b, n + 7, Len(b))), Append(f, SubSeq(b, 5, n + 4))>>
          ELSE <<FromMark(AfterBad(b)), f>>
    BY <1>1, <1>3 DEF Round
  <2> HIDE DEF n
  <2>4. CASE CrcFits(b, 1, n)
    <3> DEFINE r == SubSeq(b, n + 7, Len(b))
               x == SubSeq(b, 5, n + 4)
    <3>1. r \in Seq(Byte) /\ Len(r) = Len(b) + 1 - (n + 7)
      <4>1. n + 7 \in Nat /\ 1 <= n + 7 /\ Len(b) <= Len(b) /\ n + 7 <= Len(b) + 1
        BY <2>1, <2>2
      <4>2. QED
        BY <2>1, <4>1, Piece
    <3>2. x \in Seq(Byte)
      <4>1. n + 4 \in Nat /\ n + 4 <= Len(b) /\ 5 <= (n + 4) + 1
        BY <2>1, <2>2
      <4>2. QED
        BY <4>1, Piece
    <3>3. Len(b) + 1 - (n + 7) = Len(b) - n - 6
      BY <2>1, <2>2
    <3>4. QED
      BY <1>3, <2>1, <2>2, <2>3, <2>4, <3>1, <3>2, <3>3 DEF n
  <2>5. CASE ~CrcFits(b, 1, n)
    <3>1. AfterBad(b) \in Seq(Byte) /\ Len(AfterBad(b)) = Len(b) + 1 - 3
      BY <2>1, Piece DEF AfterBad
    <3>2. QED
      BY <1>3, <2>1, <2>3, <2>5, <3>1 DEF n
  <2>6. QED
    BY <2>4, <2>5
<1>4. QED
  BY <1>2, <1>3

\* What the loop works on: the rest of the buffer, and the packets found
Work == Seq(Byte) \X Seq(Seq(Byte))

LEMMA FromMarkSeq ==
  ASSUME NEW b \in Seq(Byte)
  PROVE  FromMark(b) \in Seq(Byte) /\ Len(FromMark(b)) <= Len(b) /\ Len(FromMark(b)) \in Nat
<1>1. PICK i \in 1 .. Len(b) + 1 : FromMark(b) = SubSeq(b, i, Len(b))
  BY FromMarkType
<1>2. SubSeq(b, i, Len(b)) \in Seq(Byte) /\ Len(SubSeq(b, i, Len(b))) = Len(b) + 1 - i
  BY Halved
<1>3. Len(b) \in Nat
  BY LenProperties
<1>4. QED
  BY <1>1, <1>2, <1>3

LEMMA RoundIn ==
  ASSUME NEW p \in Work
  PROVE  /\ Round(p) \in Work
         /\ IF Enough(p[1]) THEN Len(Round(p)[1]) <= Len(p[1]) - 2 ELSE Round(p) = p
<1>1. PICK b \in Seq(Byte), f \in Seq(Seq(Byte)) : p = <<b, f>>
  BY DEF Work
<1>2. p[1] = b
  BY <1>1
<1>3. CASE ~Enough(b) /\ Round(<<b, f>>) = <<b, f>>
  BY <1>1, <1>2, <1>3
<1>4. ASSUME NEW n \in Nat, NEW r \in Seq(Byte), NEW x \in Seq(Byte), Enough(b), n + 6 <= Len(b),
             Len(r) = Len(b) - n - 6, Round(<<b, f>>) = <<FromMark(r), Append(f, x)>>
      PROVE  Round(p) \in Work /\ Len(Round(p)[1]) <= Len(p[1]) - 2
  <2>1. FromMark(r) \in Seq(Byte) /\ Len(FromMark(r)) <= Len(r) /\ Len(FromMark(r)) \in Nat
    BY FromMarkSeq
  <2>2. Append(f, x) \in Seq(Seq(Byte)) /\ Len(b) \in Nat
    BY AppendProperties, LenProperties
  <2>3. Len(FromMark(r)) <= Len(b) - 2
    BY <1>4, <2>1, <2>2
  <2>4. Round(p) = <<FromMark(r), Append(f, x)>>
    BY <1>1, <1>4
  <2>5. Round(p) \in Work /\ Round(p)[1] = FromMark(r)
    <3>1. PICK g \in Seq(Seq(Byte)) : g = Append(f, x)
      BY <2>2
    <3>2. Round(p) = <<FromMark(r), g>>
      BY <2>4, <3>1
    <3>3. QED
      BY <2>1, <3>2 DEF Work
  <2>6. QED
    BY <1>2, <2>3, <2>5
<1>5. CASE /\ Enough(b) /\ AfterBad(b) \in Seq(Byte) /\ Len(AfterBad(b)) = Len(b) - 2
           /\ Round(<<b, f>>) = <<FromMark(AfterBad(b)), f>>
  <2>1. FromMark(AfterBad(b)) \in Seq(Byte) /\ Len(FromMark(AfterBad(b))) <= Len(AfterBad(b))
    BY <1>5, FromMarkSeq
  <2>2. QED
    BY <1>1, <1>2, <1>5, <2>1 DEF Work
<1>6. CASE \E n \in Nat :
              /\ Enough(b) /\ n = U16(b, 3) /\ n + 6 <= Len(b) /\ 6 < Len(b)
              /\ LET r == SubSeq(b, n + 7, Len(b))
                      x == SubSeq(b, 5, n + 4)
                 IN  /\ CrcFits(b, 1, n) /\ r \in Seq(Byte) /\ x \in Seq(Byte)
                     /\ Len(r) = Len(b) - n - 6
                     /\ Round(<<b, f>>) = <<FromMark(r), Append(f, x)>>
  <2>1. Enough(b) /\ Round(p) \in Work /\ Len(Round(p)[1]) <= Len(p[1]) - 2
    BY <1>4, <1>6
  <2>2. QED
    BY <1>2, <2>1
<1>7. QED
  BY <1>3, <1>5, <1>6, RoundType

\* Any number of rounds: the recursive function exists.
LEMMA RoundsExist ==
  ASSUME NEW p \in Work, NEW n \in Nat
  PROVE  \E r \in [0 .. n -> Work] :
           r = [k \in 0 .. n |-> IF k = 0 THEN p ELSE Round(r[k - 1])]
<1> DEFINE Runs(j) == \E r \in [0 .. j -> Work] :
             r = [k \in 0 .. j |-> IF k = 0 THEN p ELSE Round(r[k - 1])]
           S == {j \in Nat : Runs(j)}
<1>1. 0 \in S
  <2> DEFINE r == [k \in 0 .. 0 |-> p]
  <2>1. r \in [0 .. 0 -> Work] /\ r = [k \in 0 .. 0 |-> IF k = 0 THEN p ELSE Round(r[k - 1])]
    OBVIOUS
  <2>2. QED
    BY <2>1
<1>2. ASSUME NEW j \in Nat, j \in S
      PROVE  j + 1 \in S
  <2>1. PICK r \in [0 .. j -> Work] :
          r = [k \in 0 .. j |-> IF k = 0 THEN p ELSE Round(r[k - 1])]
    BY <1>2
  <2>2. r[0] = p /\ \A k \in 1 .. j : r[k] = Round(r[k - 1])
    BY <2>1
  <2> DEFINE q == [k \in 0 .. j + 1 |-> IF k = j + 1 THEN Round(r[j]) ELSE r[k]]
  <2>3. Round(r[j]) \in Work
    BY RoundIn
  <2>4. q \in [0 .. j + 1 -> Work]
    BY <2>3
  <2>5. ASSUME NEW k \in 0 .. j + 1
        PROVE  q[k] = IF k = 0 THEN p ELSE Round(q[k - 1])
    <3>1. CASE k = 0
      BY <2>2, <3>1
    <3>2. CASE k \in 1 .. j
      BY <2>2, <3>2
    <3>3. CASE k = j + 1
      BY <3>3
    <3>4. QED
      BY <3>1, <3>2, <3>3
  <2>6. q = [k \in 0 .. j + 1 |-> IF k = 0 THEN p ELSE Round(q[k - 1])]
    BY <2>5
  <2> HIDE DEF q
  <2>7. Runs(j + 1)
    BY <2>4, <2>6
  <2>8. QED
    BY <2>7
<1> HIDE DEF S
<1>3. Nat \subseteq S
  BY <1>1, <1>2, Induction
<1>4. QED
  BY <1>3 DEF S

\* What the definition of the loop chooses is a run of it, of rounds enough.
LEMMA PacketsRun ==
  ASSUME NEW b \in Seq(Byte)
  PROVE  \E r \in [0 .. Len(b) -> Work] :
           /\ r[0] = <<b, <<>>>> /\ Packets(b) = r[Len(b)]
           /\ \A k \in 1 .. Len(b) : r[k] = Round(r[k - 1])
<1> DEFINE p == <<b, <<>>>>
           Runs(r) == r = [k \in 0 .. Len(b) |-> IF k = 0 THEN p ELSE Round(r[k - 1])]
           after == CHOOSE r : Runs(r)
<1>1. p \in Work /\ Len(b) \in Nat
  <2>1. <<>> \in Seq(Seq(Byte)) /\ Len(b) \in Nat
    BY LenProperties
  <2>2. QED
    BY <2>1 DEF Work
<1>2. \E r : Runs(r)
  <2> HIDE DEF p
  <2>1. \E r \in [0 .. Len(b) -> Work] :
           r = [k \in 0 .. Len(b) |-> IF k = 0 THEN p ELSE Round(r[k - 1])]
    BY <1>1, RoundsExist
  <2>2. QED
    BY <2>1
<1>3. Runs(after)
  BY <1>2
<1>4. Packets(b) = after[Len(b)]
  BY DEF Packets
<1> HIDE DEF after
<1>5. DOMAIN after = 0 .. Len(b) /\ after[0] = p
      /\ \A k \in 1 .. Len(b) : after[k] = Round(after[k - 1])
  <2> HIDE DEF p
  <2>1. after = [k \in 0 .. Len(b) |-> IF k = 0 THEN p ELSE Round(after[k - 1])]
    BY <1>3
  <2>2. DOMAIN after = 0 .. Len(b)
    BY <2>1
  <2>3. \A k \in 0 .. Len(b) : after[k] = IF k = 0 THEN p ELSE Round(after[k - 1])
    BY <2>1
  <2>4. QED
    BY <1>1, <2>2, <2>3
<1> DEFINE S == {k \in Nat : k <= Len(b) => after[k] \in Work}
<1>6. 0 \in S
  BY <1>1, <1>5
<1>7. ASSUME NEW k \in Nat, k \in S
      PROVE  k + 1 \in S
  <2>1. CASE k + 1 <= Len(b)
    <3>1. after[k] \in Work /\ k + 1 \in 1 .. Len(b)
      BY <1>1, <1>7, <2>1
    <3>2. after[k + 1] = Round(after[k])
      BY <1>5, <3>1
    <3>3. QED
      BY <3>1, <3>2, RoundIn
  <2>2. CASE ~(k + 1 <= Len(b))
    BY <2>2
  <2>3. QED
    BY <2>1, <2>2
<1> HIDE DEF S
<1>8. Nat \subseteq S
  BY <1>6, <1>7, Induction
<1>9. \A k \in 0 .. Len(b) : after[k] \in Work
  BY <1>1, <1>8 DEF S
<1>10. after \in [0 .. Len(b) -> Work]
  BY <1>3, <1>5, <1>9
<1>11. QED
  BY <1>4, <1>5, <1>10

----------------------------------------------------------------------------
(* What the bytes tell *)

LEMMA ToldType ==
  ASSUME SumsApart, NEW s \in Seq(Byte)
  PROVE  /\ Told(s) \in Seq(Seq(Byte)) /\ Len(Told(s)) = Len(s)
         /\ \A i \in 1 .. Len(s) : Told(s)[i] = Teller[s[i]]
<1>1. DOMAIN s = 1 .. Len(s) /\ Len(s) \in Nat /\ \A i \in 1 .. Len(s) : s[i] \in Byte
  BY LenProperties, ElementOfSeq
<1>2. Told(s) = [i \in 1 .. Len(s) |-> Teller[s[i]]]
  BY <1>1 DEF Told
<1>3. \A i \in 1 .. Len(s) : Teller[s[i]] \in Seq(Byte)
  BY <1>1, TellerType
<1>4. QED
  BY <1>1, <1>2, <1>3

LEMMA ToldConcat ==
  ASSUME SumsApart, NEW s \in Seq(Byte), NEW t \in Seq(Byte)
  PROVE  Told(s \o t) = Told(s) \o Told(t)
<1>1. /\ s \o t \in Seq(Byte) /\ Len(s \o t) = Len(s) + Len(t)
      /\ \A i \in 1 .. Len(s) : (s \o t)[i] = s[i]
      /\ \A i \in 1 .. Len(t) : (s \o t)[Len(s) + i] = t[i]
      /\ Len(s) \in Nat /\ Len(t) \in Nat
  BY Joined, LenProperties
<1>2. /\ Told(s \o t) \in Seq(Seq(Byte)) /\ Len(Told(s \o t)) = Len(s) + Len(t)
      /\ \A i \in 1 .. Len(s) + Len(t) : Told(s \o t)[i] = Teller[(s \o t)[i]]
  BY <1>1, ToldType
<1>3. /\ Told(s) \in Seq(Seq(Byte)) /\ Len(Told(s)) = Len(s)
      /\ \A i \in 1 .. Len(s) : Told(s)[i] = Teller[s[i]]
  BY ToldType
<1>4. /\ Told(t) \in Seq(Seq(Byte)) /\ Len(Told(t)) = Len(t)
      /\ \A i \in 1 .. Len(t) : Told(t)[i] = Teller[t[i]]
  BY ToldType
<1>5. ASSUME NEW i \in 1 .. Len(Told(s))
      PROVE  Told(s \o t)[i] = Told(s)[i]
  <2>1. i \in 1 .. Len(s) /\ i \in 1 .. Len(s) + Len(t)
    BY <1>1, <1>3
  <2>2. QED
    BY ZenonT(30), <1>1, <1>2, <1>3, <2>1
<1>6. ASSUME NEW i \in 1 .. Len(Told(t))
      PROVE  Told(s \o t)[Len(Told(s)) + i] = Told(t)[i]
  <2>1. i \in 1 .. Len(t) /\ Len(s) + i \in 1 .. Len(s) + Len(t)
    BY <1>1, <1>4
  <2>2. QED
    BY ZenonT(30), <1>1, <1>2, <1>3, <1>4, <2>1
<1>7. Len(Told(s \o t)) = Len(Told(s)) + Len(Told(t))
  BY <1>2, <1>3, <1>4
<1>8. QED
  BY ZenonT(30), <1>2, <1>3, <1>4, <1>5, <1>6, <1>7, JoinedEqual

\* The end of a stretch of bytes tells no more than the stretch.
LEMMA ToldTail ==
  ASSUME SumsApart, NEW b \in Seq(Byte), NEW i \in 1 .. Len(b) + 1
  PROVE  Given(Told(SubSeq(b, i, Len(b))), Told(b))
<1> DEFINE p == SubSeq(b, 1, i - 1)
           q == SubSeq(b, i, Len(b))
<1>1. p \in Seq(Byte) /\ q \in Seq(Byte) /\ b = p \o q
  BY Halved
<1> HIDE DEF p, q
<1>2. Told(b) = Told(p) \o Told(q) /\ Told(p) \in Seq(Seq(Byte)) /\ Told(q) \in Seq(Seq(Byte))
  BY <1>1, ToldConcat, ToldType
<1>3. Given(Told(q), Told(b))
  BY <1>2, GivenTail
<1>4. QED
  BY <1>3 DEF q

\* One element, at its place
LEMMA GivenOne ==
  ASSUME NEW V, NEW s \in Seq(V), NEW k \in 1 .. Len(s)
  PROVE  Given(<<s[k]>>, s)
<1> DEFINE at == [i \in Full(<<s[k]>>) |-> k]
<1>1. Full(<<s[k]>>) \subseteq {1}
  BY DEF Full
<1>2. at \in [Full(<<s[k]>>) -> DOMAIN s]
  BY LenProperties
<1>3. \A i \in Full(<<s[k]>>) : <<s[k]>>[i] = s[at[i]]
  BY <1>1
<1>4. \A i, j \in Full(<<s[k]>>) : i < j => at[i] < at[j]
  BY <1>1
<1>5. QED
  BY <1>2, <1>3, <1>4 DEF Given, Embeds

LEMMA DecodedType ==
  ASSUME NEW q \in Seq(Seq(Byte))
  PROVE  /\ Decoded(q) \in Seq(Seq(Byte)) /\ Len(Decoded(q)) = Len(q)
         /\ \A i \in 1 .. Len(q) : Decoded(q)[i] = Coded(q[i])
<1>1. DOMAIN q = 1 .. Len(q) /\ Len(q) \in Nat /\ \A i \in 1 .. Len(q) : q[i] \in Seq(Byte)
  BY LenProperties, ElementOfSeq
<1>2. Decoded(q) = [i \in 1 .. Len(q) |-> Coded(q[i])]
  BY <1>1 DEF Decoded
<1>3. \A i \in 1 .. Len(q) : Coded(q[i]) \in Seq(Byte)
  BY <1>1, CodedType
<1>4. QED
  BY <1>1, <1>2, <1>3

LEMMA DecodedConcat ==
  ASSUME NEW q \in Seq(Seq(Byte)), NEW r \in Seq(Seq(Byte))
  PROVE  Decoded(q \o r) = Decoded(q) \o Decoded(r)
<1>1. /\ q \o r \in Seq(Seq(Byte)) /\ Len(q \o r) = Len(q) + Len(r)
      /\ \A i \in 1 .. Len(q) : (q \o r)[i] = q[i]
      /\ \A i \in 1 .. Len(r) : (q \o r)[Len(q) + i] = r[i]
      /\ Len(q) \in Nat /\ Len(r) \in Nat
  BY Joined, LenProperties
<1>2. /\ Decoded(q \o r) \in Seq(Seq(Byte)) /\ Len(Decoded(q \o r)) = Len(q) + Len(r)
      /\ \A i \in 1 .. Len(q) + Len(r) : Decoded(q \o r)[i] = Coded((q \o r)[i])
  BY <1>1, DecodedType
<1>3. /\ Decoded(q) \in Seq(Seq(Byte)) /\ Len(Decoded(q)) = Len(q)
      /\ \A i \in 1 .. Len(q) : Decoded(q)[i] = Coded(q[i])
  BY DecodedType
<1>4. /\ Decoded(r) \in Seq(Seq(Byte)) /\ Len(Decoded(r)) = Len(r)
      /\ \A i \in 1 .. Len(r) : Decoded(r)[i] = Coded(r[i])
  BY DecodedType
<1>5. ASSUME NEW i \in 1 .. Len(Decoded(q))
      PROVE  Decoded(q \o r)[i] = Decoded(q)[i]
  <2>1. i \in 1 .. Len(q) /\ i \in 1 .. Len(q) + Len(r)
    BY <1>1, <1>3
  <2>2. QED
    BY <1>1, <1>2, <1>3, <2>1
<1>6. ASSUME NEW i \in 1 .. Len(Decoded(r))
      PROVE  Decoded(q \o r)[Len(Decoded(q)) + i] = Decoded(r)[i]
  <2>1. i \in 1 .. Len(r) /\ Len(q) + i \in 1 .. Len(q) + Len(r)
    BY <1>1, <1>4
  <2>2. QED
    BY <1>1, <1>2, <1>3, <1>4, <2>1
<1>7. Len(Decoded(q \o r)) = Len(Decoded(q)) + Len(Decoded(r))
  BY <1>2, <1>3, <1>4
<1>8. QED
  BY <1>2, <1>3, <1>4, <1>5, <1>6, <1>7, JoinedEqual

LEMMA DecodedOne ==
  ASSUME NEW x \in Seq(Byte)
  PROVE  Decoded(<<x>>) = <<Coded(x)>>
BY DEF Decoded

----------------------------------------------------------------------------
(* The parser finds nothing but what the bytes tell. *)

\* A frame in front of a stream tells its message.
LEMMA FrontTold ==
  ASSUME OnlyHeadsFit, SumsApart, NEW b \in Seq(Byte), NEW n \in Nat,
         n + 6 <= Len(b), CrcFits(b, 1, n)
  PROVE  /\ Coded(SubSeq(b, 5, n + 4)) \in Seq(Byte)
         /\ Given(<<Coded(SubSeq(b, 5, n + 4))>>, Told(SubSeq(b, 1, n + 6)))
<1>1. Len(b) \in Nat /\ 1 + 5 + n <= Len(b) /\ 1 \in Nat
  BY LenProperties
<1>2. \E m \in Messages :
           b[1 + 4 + n] = SumByte(m) /\ SubSeq(b, 1 + 4, 1 + 3 + n) = Coded(m)
  <2>1. ASSUME NEW i \in Nat, i = 1
        PROVE  \E m \in Messages :
                 b[i + 4 + n] = SumByte(m) /\ SubSeq(b, i + 4, i + 3 + n) = Coded(m)
    <3>1. 1 <= i /\ i + 5 + n <= Len(b) /\ CrcFits(b, i, n)
      BY <1>1, <2>1
    <3>2. QED
      BY <3>1, HeadFits
  <2>2. QED
    BY <1>1, <2>1
<1>3. 1 + 4 + n = 5 + n /\ 1 + 3 + n = n + 4 /\ 1 + 4 = 5
  OBVIOUS
<1>4. PICK m \in Messages : b[5 + n] = SumByte(m) /\ SubSeq(b, 5, n + 4) = Coded(m)
  BY <1>2, <1>3
<1>5. m \in Seq(Byte) /\ Coded(Coded(m)) = m
  BY HeadType, CodedType
<1> DEFINE h == SubSeq(b, 1, n + 6)
<1>6. h \in Seq(Byte) /\ Len(h) = n + 6 /\ \A k \in 1 .. n + 6 : h[k] = b[k]
  <2>1. /\ h \in Seq(Byte) /\ Len(h) = (n + 6) + 1 - 1
        /\ \A k \in 1 .. (n + 6) + 1 - 1 : h[k] = b[1 + k - 1]
    BY <1>1, Piece
  <2>2. (n + 6) + 1 - 1 = n + 6 /\ \A k \in 1 .. n + 6 : 1 + k - 1 = k
    OBVIOUS
  <2>3. QED
    BY <2>1, <2>2
<1> HIDE DEF h
<1>7. 5 + n \in 1 .. n + 6
  OBVIOUS
<1>8. /\ Told(h) \in Seq(Seq(Byte)) /\ Len(Told(h)) = n + 6
      /\ Told(h)[5 + n] = m
  <2>1. /\ Told(h) \in Seq(Seq(Byte)) /\ Len(Told(h)) = n + 6
        /\ \A k \in 1 .. n + 6 : Told(h)[k] = Teller[h[k]]
    BY <1>6, ToldType
  <2>2. h[5 + n] = SumByte(m)
    BY <1>4, <1>6, <1>7
  <2>3. Teller[SumByte(m)] = m
    BY TellerType
  <2>4. QED
    BY <1>7, <2>1, <2>2, <2>3
<1>9. Given(<<m>>, Told(h))
  BY <1>7, <1>8, GivenOne
<1>10. QED
  BY <1>4, <1>5, <1>9 DEF h

\* What a round has found and left is told by what it had found and was given.
LEMMA RoundCharged ==
  ASSUME OnlyHeadsFit, SumsApart, NEW p \in Work
  PROVE  Given(Decoded(Round(p)[2]) \o Told(Round(p)[1]), Decoded(p[2]) \o Told(p[1]))
<1> DEFINE V == Seq(Byte)
<1>1. PICK b \in Seq(Byte), f \in Seq(Seq(Byte)) : p = <<b, f>>
  BY DEF Work
<1>2. p[1] = b /\ p[2] = f
  BY <1>1
<1>3. Told(b) \in Seq(V) /\ Decoded(f) \in Seq(V)
  BY ToldType, DecodedType
<1>4. CASE ~Enough(b) /\ Round(<<b, f>>) = <<b, f>>
  <2>1. Round(p)[1] = b /\ Round(p)[2] = f
    BY <1>1, <1>4
  <2>2. Decoded(f) \o Told(b) \in Seq(V)
    BY <1>3, ConcatProperties
  <2>3. QED
    BY <1>2, <2>1, <2>2, GivenSelf
<1>5. ASSUME NEW s \in Seq(Byte)
      PROVE  FromMark(s) \in Seq(Byte) /\ Told(FromMark(s)) \in Seq(V) /\ Given(Told(FromMark(s)), Told(s))
  <2>1. PICK i \in 1 .. Len(s) + 1 : FromMark(s) = SubSeq(s, i, Len(s))
    BY FromMarkType
  <2>2. QED
    BY <2>1, FromMarkSeq, ToldType, ToldTail
<1>6. ASSUME NEW n \in Nat, NEW r, NEW x, n + 6 <= Len(b), 6 < Len(b),
             r = SubSeq(b, n + 7, Len(b)), x = SubSeq(b, 5, n + 4),
             CrcFits(b, 1, n), r \in Seq(Byte), x \in Seq(Byte),
             Round(<<b, f>>) = <<FromMark(r), Append(f, x)>>
      PROVE  Given(Decoded(Round(p)[2]) \o Told(Round(p)[1]), Decoded(f) \o Told(b))
  <2> DEFINE h == SubSeq(b, 1, n + 6)
             m == Coded(x)
  <2>1. Round(p)[1] = FromMark(r) /\ Round(p)[2] = Append(f, x)
    <3>1. PICK g, s : g = Append(f, x) /\ s = FromMark(r)
      OBVIOUS
    <3>2. Round(p) = <<s, g>>
      BY <1>1, <1>6, <3>1
    <3>3. QED
      BY <3>1, <3>2
  <2>2. m \in V /\ Given(<<m>>, Told(h))
    BY <1>6, FrontTold
  <2>3. h \in Seq(Byte) /\ b = h \o r
    <3>1. n + 7 \in 1 .. Len(b) + 1 /\ (n + 7) - 1 = n + 6
      BY <1>6, LenProperties
    <3>2. QED
      BY ZenonT(30), <1>6, <3>1, Halved
  <2> HIDE DEF h, m
  <2>4. Told(h) \in Seq(V) /\ Told(r) \in Seq(V) /\ Told(b) = Told(h) \o Told(r)
    BY ZenonT(30), <1>6, <2>3, ToldConcat, ToldType
  <2>5. Decoded(Append(f, x)) = Decoded(f) \o <<m>>
    <3>1. PICK S : S = Seq(Byte)
      OBVIOUS
    <3>2. f \in Seq(S) /\ x \in S
      BY <1>6, <3>1
    <3>3. Append(f, x) = f \o <<x>> /\ <<x>> \in Seq(S)
      BY <3>2, AppendIsConcat
    <3>4. Decoded(f \o <<x>>) = Decoded(f) \o Decoded(<<x>>)
      BY <3>1, <3>3, DecodedConcat
    <3>5. Decoded(<<x>>) = <<m>>
      BY <1>6, DecodedOne DEF m
    <3>6. QED
      BY <3>3, <3>4, <3>5
  <2>6. <<m>> \in Seq(V)
    BY <2>2
  <2>7. Told(FromMark(r)) \in Seq(V) /\ Given(Told(FromMark(r)), Told(r))
    BY <1>5, <1>6
  <2> DEFINE w == Told(FromMark(r))
  <2> HIDE DEF w, V
  <2>8. Given(<<m>> \o w, Told(b)) /\ <<m>> \o w \in Seq(V)
    BY <2>2, <2>4, <2>6, <2>7, GivenConcat, ConcatProperties DEF w
  <2>9. Given(Decoded(f) \o (<<m>> \o w), Decoded(f) \o Told(b))
    BY <1>3, <2>8, GivenSelf, GivenConcat
  <2>10. Decoded(f) \o (<<m>> \o w) = (Decoded(f) \o <<m>>) \o w
    <3> DEFINE a == Decoded(f)
               o == <<m>>
    <3>1. a \in Seq(V) /\ o \in Seq(V) /\ w \in Seq(V)
      BY <1>3, <2>6, <2>7 DEF w
    <3> HIDE DEF a, o
    <3>2. a \o (o \o w) = (a \o o) \o w
      BY <3>1, Regroup
    <3>3. QED
      BY <3>2 DEF a, o
  <2>11. QED
    BY <2>1, <2>5, <2>9, <2>10 DEF w
<1>7. CASE /\ Enough(b) /\ 6 < Len(b) /\ AfterBad(b) \in Seq(Byte)
           /\ Round(<<b, f>>) = <<FromMark(AfterBad(b)), f>>
  <2>1. Round(p)[1] = FromMark(AfterBad(b)) /\ Round(p)[2] = f
    BY <1>1, <1>7
  <2>2. 3 \in 1 .. Len(b) + 1
    BY <1>7, LenProperties
  <2>3. Given(Told(AfterBad(b)), Told(b))
    BY <2>2, ToldTail DEF AfterBad
  <2> DEFINE w == Told(FromMark(AfterBad(b)))
  <2>4. w \in Seq(V) /\ Told(AfterBad(b)) \in Seq(V) /\ Given(w, Told(AfterBad(b)))
    BY <1>5, <1>7, ToldType
  <2> HIDE DEF w, V
  <2>5. Given(w, Told(b))
    BY <1>3, <2>3, <2>4, GivenTrans
  <2>6. Given(Decoded(f) \o w, Decoded(f) \o Told(b))
    BY <1>3, <2>4, <2>5, GivenSelf, GivenConcat
  <2>7. QED
    BY <1>2, <2>1, <2>6 DEF w
<1>8. CASE \E n \in Nat :
              /\ Enough(b) /\ n = U16(b, 3) /\ n + 6 <= Len(b) /\ 6 < Len(b)
              /\ LET r == SubSeq(b, n + 7, Len(b))
                      x == SubSeq(b, 5, n + 4)
                 IN  /\ CrcFits(b, 1, n) /\ r \in Seq(Byte) /\ x \in Seq(Byte)
                     /\ Len(r) = Len(b) - n - 6
                     /\ Round(<<b, f>>) = <<FromMark(r), Append(f, x)>>
  <2>1. Given(Decoded(Round(p)[2]) \o Told(Round(p)[1]), Decoded(f) \o Told(b))
    BY <1>6, <1>8
  <2>2. QED
    BY <1>2, <2>1
<1>9. QED
  BY <1>4, <1>7, <1>8, RoundType

LEMMA PacketsCharged ==
  ASSUME OnlyHeadsFit, SumsApart, NEW b \in Seq(Byte)
  PROVE  /\ Packets(b) \in Work
         /\ Given(Decoded(Packets(b)[2]) \o Told(Packets(b)[1]), Told(b))
<1>1. PICK r \in [0 .. Len(b) -> Work] :
        /\ r[0] = <<b, <<>>>> /\ Packets(b) = r[Len(b)]
        /\ \A k \in 1 .. Len(b) : r[k] = Round(r[k - 1])
  BY PacketsRun
<1> DEFINE W(p) == Decoded(p[2]) \o Told(p[1])
           S == {k \in Nat : k <= Len(b) => Given(W(r[k]), Told(b))}
<1>2. Len(b) \in Nat /\ Told(b) \in Seq(Seq(Byte))
  BY LenProperties, ToldType
<1>3. ASSUME NEW p \in Work
      PROVE  W(p) \in Seq(Seq(Byte))
  <2>1. p[1] \in Seq(Byte) /\ p[2] \in Seq(Seq(Byte))
    BY DEF Work
  <2>2. Decoded(p[2]) \in Seq(Seq(Byte)) /\ Told(p[1]) \in Seq(Seq(Byte))
    BY <2>1, DecodedType, ToldType
  <2>3. QED
    BY <2>2, ConcatProperties
<1>4. 0 \in S
  <2>1. r[0][1] = b /\ r[0][2] = <<>>
    BY <1>1
  <2>2. Decoded(<<>>) = <<>>
    BY DEF Decoded
  <2>3. W(r[0]) = Told(b)
    BY <1>2, <2>1, <2>2, ConcatEmptySeq
  <2>4. Given(W(r[0]), Told(b))
    BY <1>2, <2>3, GivenSelf
  <2>5. QED
    BY <2>4
<1>5. ASSUME NEW k \in Nat, k \in S
      PROVE  k + 1 \in S
  <2>1. CASE k + 1 <= Len(b)
    <3>1. k \in 0 .. Len(b) /\ k + 1 \in 0 .. Len(b) /\ k + 1 \in 1 .. Len(b) /\ (k + 1) - 1 = k
      BY <1>2, <2>1
    <3>2. r[k] \in Work /\ r[k + 1] \in Work /\ r[k + 1] = Round(r[k])
      BY <1>1, <3>1
    <3>3. Given(W(r[k + 1]), W(r[k]))
      BY <3>2, RoundCharged
    <3>4. Given(W(r[k]), Told(b))
      BY <1>5, <3>1
    <3>5. W(r[k]) \in Seq(Seq(Byte)) /\ W(r[k + 1]) \in Seq(Seq(Byte))
      BY <1>3, <3>2
    <3> HIDE DEF W
    <3>6. Given(W(r[k + 1]), Told(b))
      BY <1>2, <3>3, <3>4, <3>5, GivenTrans
    <3>7. QED
      BY <3>6
  <2>2. CASE ~(k + 1 <= Len(b))
    BY <2>2
  <2>3. QED
    BY <2>1, <2>2
<1> HIDE DEF S
<1>6. Nat \subseteq S
  BY <1>4, <1>5, Induction
<1>7. Len(b) \in 0 .. Len(b) /\ Len(b) \in S
  BY <1>2, <1>6
<1>8. QED
  BY <1>1, <1>2, <1>7 DEF S

LEMMA ParsedCharged ==
  ASSUME OnlyHeadsFit, SumsApart, NEW b \in Seq(Byte)
  PROVE  /\ Parsed(b)[1] \in Seq(Byte) /\ Parsed(b)[2] \in Seq(Seq(Byte))
         /\ Given(Decoded(Parsed(b)[2]) \o Told(Parsed(b)[1]), Told(b))
<1>1. Told(b) \in Seq(Seq(Byte))
  BY ToldType
<1>2. CASE Len(b) < 4
  <2>1. Parsed(b)[1] = b /\ Parsed(b)[2] = <<>>
    BY <1>2 DEF Parsed
  <2>2. Decoded(<<>>) = <<>> /\ <<>> \in Seq(Seq(Byte))
    BY DEF Decoded
  <2>3. Decoded(<<>>) \o Told(b) = Told(b)
    BY <1>1, <2>2, ConcatEmptySeq
  <2>4. QED
    BY <1>1, <2>1, <2>2, <2>3, GivenSelf
<1>3. CASE ~(Len(b) < 4)
  <2>1. Parsed(b) = Packets(FromMark(b)) /\ FromMark(b) \in Seq(Byte)
    BY <1>3, FromMarkSeq DEF Parsed
  <2>2. /\ Parsed(b) \in Work
        /\ Given(Decoded(Parsed(b)[2]) \o Told(Parsed(b)[1]), Told(FromMark(b)))
    BY <2>1, PacketsCharged
  <2>3. Given(Told(FromMark(b)), Told(b)) /\ Told(FromMark(b)) \in Seq(Seq(Byte))
    <3>1. PICK i \in 1 .. Len(b) + 1 : FromMark(b) = SubSeq(b, i, Len(b))
      BY FromMarkType
    <3>2. QED
      BY <2>1, <3>1, ToldTail, ToldType
  <2>4. Parsed(b)[1] \in Seq(Byte) /\ Parsed(b)[2] \in Seq(Seq(Byte))
    BY <2>2 DEF Work
  <2>5. Decoded(Parsed(b)[2]) \o Told(Parsed(b)[1]) \in Seq(Seq(Byte))
    BY <2>4, DecodedType, ToldType, ConcatProperties
  <2>6. QED
    BY <1>1, <2>2, <2>3, <2>4, <2>5, GivenTrans
<1>4. QED
  BY <1>2, <1>3

----------------------------------------------------------------------------
(* A reply tells its answer, or nothing. *)

LEMMA GivenFront ==
  ASSUME NEW V, NEW s \in Seq(V), NEW t \in Seq(V)
  PROVE  Given(s, s \o t)
<1>1. <<>> \in Seq(V) /\ Full(<<>>) = {}
  BY DEF Full
<1>2. Given(<<>>, t) /\ Given(s, s)
  BY <1>1, GivenEmpty, GivenSelf
<1>3. Given(s \o <<>>, s \o t)
  BY <1>1, <1>2, GivenConcat
<1>4. QED
  BY <1>3, ConcatEmptySeq

LEMMA RemovedTold ==
  ASSUME SumsApart, NEW f \in Seq(Byte), NEW i \in 1 .. Len(f)
  PROVE  RemoveAt(f, i) \in Seq(Byte) /\ Given(Told(RemoveAt(f, i)), Told(f))
<1> DEFINE a == SubSeq(f, 1, i - 1)
           b == SubSeq(f, i + 1, Len(f))
           p == SubSeq(f, 1, i)
<1>1. i + 1 \in 1 .. Len(f) + 1 /\ (i + 1) - 1 = i /\ i \in Nat /\ 1 <= i /\ i <= Len(f)
      /\ i - 1 \in Nat /\ i - 1 <= Len(f) /\ 1 <= (i - 1) + 1 /\ 1 <= i + 1
  BY LenProperties
<1>2. /\ p \in Seq(Byte) /\ b \in Seq(Byte) /\ f = p \o b
  BY <1>1, Halved
<1>3. a \in Seq(Byte) /\ Len(a) = i - 1 /\ \A k \in 1 .. i - 1 : a[k] = f[k]
  <2>1. /\ a \in Seq(Byte) /\ Len(a) = (i - 1) + 1 - 1
        /\ \A k \in 1 .. (i - 1) + 1 - 1 : a[k] = f[1 + k - 1]
    BY <1>1, Piece
  <2>2. (i - 1) + 1 - 1 = i - 1 /\ \A k \in 1 .. i - 1 : 1 + k - 1 = k
    BY <1>1
  <2>3. QED
    BY <2>1, <2>2
<1>4. Len(p) = i /\ \A k \in 1 .. i : p[k] = f[k]
  <2>1. /\ Len(p) = i + 1 - 1 /\ \A k \in 1 .. i + 1 - 1 : p[k] = f[1 + k - 1]
    BY <1>1, Piece
  <2>2. i + 1 - 1 = i /\ \A k \in 1 .. i : 1 + k - 1 = k
    BY <1>1
  <2>3. QED
    BY <2>1, <2>2
<1>5. RemoveAt(f, i) = a \o b
  BY DEF RemoveAt
<1> HIDE DEF a, b, p
<1>6. <<f[i]>> \in Seq(Byte) /\ Len(<<f[i]>>) = 1 /\ <<f[i]>>[1] = f[i]
  <2>1. f[i] \in Byte
    BY ElementOfSeq
  <2>2. QED
    BY <2>1
<1>7. p = a \o <<f[i]>>
  <2>1. Len(p) = Len(a) + Len(<<f[i]>>)
    BY <1>1, <1>3, <1>4, <1>6
  <2>2. \A k \in 1 .. Len(a) : p[k] = a[k]
    BY <1>1, <1>3, <1>4
  <2>3. \A k \in 1 .. Len(<<f[i]>>) : p[Len(a) + k] = <<f[i]>>[k]
    <3>1. Len(a) + 1 = i /\ i \in 1 .. i
      BY <1>1, <1>3
    <3>2. p[i] = f[i]
      BY <1>4, <3>1
    <3>3. QED
      BY <1>6, <3>1, <3>2
  <2>4. QED
    BY <1>2, <1>3, <1>6, <2>1, <2>2, <2>3, JoinedEqual
<1> DEFINE V == Seq(Byte)
<1>8. Told(a) \in Seq(V) /\ Told(b) \in Seq(V) /\ Told(p) \in Seq(V) /\ Told(<<f[i]>>) \in Seq(V)
  BY <1>2, <1>3, <1>6, ToldType
<1>9. /\ Told(p) = Told(a) \o Told(<<f[i]>>)
      /\ Told(f) = Told(p) \o Told(b)
      /\ Told(a \o b) = Told(a) \o Told(b)
  BY <1>2, <1>3, <1>6, <1>7, ToldConcat
<1> HIDE DEF V
<1>10. Given(Told(a), Told(p)) /\ Given(Told(b), Told(b))
  BY <1>8, <1>9, GivenFront, GivenSelf
<1>11. Given(Told(a) \o Told(b), Told(p) \o Told(b))
  BY <1>8, <1>10, GivenConcat
<1>12. a \o b \in Seq(Byte)
  BY <1>2, <1>3, ConcatProperties
<1>13. QED
  BY <1>5, <1>9, <1>11, <1>12

LEMMA NoiseTold ==
  ASSUME SumsApart, NEW f \in Seq(Byte), NEW i \in DOMAIN f, NEW x \in Noise
  PROVE  [f EXCEPT ![i] = x] \in Seq(Byte) /\ Given(Told([f EXCEPT ![i] = x]), Told(f))
<1> DEFINE g == [f EXCEPT ![i] = x]
<1>1. i \in 1 .. Len(f) /\ x \in Byte /\ DOMAIN f = 1 .. Len(f) /\ Len(f) \in Nat
  BY LineAssumption, LenProperties
<1>2. g \in Seq(Byte) /\ Len(g) = Len(f)
      /\ \A k \in 1 .. Len(f) : g[k] = IF k = i THEN x ELSE f[k]
  BY <1>1, ExceptSeq
<1> HIDE DEF g
<1>3. Teller[x] = <<>>
  <2>1. \A m \in Messages : x # SumByte(m)
    BY DEF SumsApart
  <2>2. QED
    BY <1>1, <2>1, TellerType
<1>4. /\ Told(f) \in Seq(Seq(Byte)) /\ Len(Told(f)) = Len(f)
      /\ \A k \in 1 .. Len(f) : Told(f)[k] = Teller[f[k]]
  BY ToldType
<1>5. /\ Told(g) \in Seq(Seq(Byte)) /\ Len(Told(g)) = Len(f)
      /\ \A k \in 1 .. Len(f) : Told(g)[k] = Teller[g[k]]
  BY <1>2, ToldType
<1>6. DOMAIN Told(f) = 1 .. Len(f) /\ DOMAIN Told(g) = 1 .. Len(f)
  BY <1>4, <1>5, LenProperties
<1>7. ASSUME NEW k \in Full(Told(g))
      PROVE  k \in DOMAIN Told(f) /\ Told(g)[k] = Told(f)[k]
  <2>1. k \in 1 .. Len(f) /\ Told(g)[k] # <<>>
    BY <1>6 DEF Full
  <2>2. Told(g)[k] = Teller[g[k]] /\ Told(f)[k] = Teller[f[k]]
    BY <1>4, <1>5, <2>1
  <2>3. k # i
    BY <1>2, <1>3, <2>1, <2>2
  <2>4. g[k] = f[k]
    BY <1>2, <2>1, <2>3
  <2>5. QED
    BY <1>6, <2>1, <2>2, <2>4
<1> DEFINE at == [k \in Full(Told(g)) |-> k]
<1>8. at \in [Full(Told(g)) -> DOMAIN Told(f)]
  BY <1>7
<1>9. \A k \in Full(Told(g)) : Told(g)[k] = Told(f)[at[k]]
  BY <1>7
<1>10. \A k, l \in Full(Told(g)) : k < l => at[k] < at[l]
  OBVIOUS
<1>11. Given(Told(g), Told(f))
  BY <1>8, <1>9, <1>10 DEF Given, Embeds
<1>12. QED
  BY <1>2, <1>11 DEF g

\* Damage adds nothing to what a frame tells.
LEMMA LineTold ==
  ASSUME SumsApart, NEW f \in Seq(Byte), NEW m \in Line(f)
  PROVE  m.bytes \in Seq(Byte) /\ Given(Told(m.bytes), Told(f))
<1>1. Told(f) \in Seq(Seq(Byte))
  BY ToldType
<1>2. CASE m = [bytes |-> f, whole |-> TRUE, misleads |-> FALSE]
  BY <1>1, <1>2, GivenSelf
<1>3. CASE m.bytes = None /\ m.whole = FALSE
  <2>1. Full(Told(None)) = {}
    BY DEF Full, Told, None
  <2>2. QED
    BY <1>3, <2>1, GivenEmpty DEF None
<1>4. CASE \E i \in DOMAIN f : m.bytes = RemoveAt(f, i) /\ m.whole = FALSE
  <2>1. PICK i \in DOMAIN f : m.bytes = RemoveAt(f, i)
    BY <1>4
  <2>2. i \in 1 .. Len(f)
    BY LenProperties
  <2>3. QED
    BY <2>1, <2>2, RemovedTold
<1>5. CASE \E i \in DOMAIN f, x \in Noise : m.bytes = [f EXCEPT ![i] = x] /\ m.whole = FALSE
  BY <1>5, NoiseTold
<1>6. QED
  BY <1>2, <1>3, <1>4, <1>5, LineCases

\* A frame tells its message, once.
LEMMA FrameTold ==
  ASSUME SumsApart, NEW a \in Messages
  PROVE  Frame(a) \in Seq(Byte) /\ Given(Told(Frame(a)), <<a>>)
<1>1. /\ Frame(a) \in Seq(Byte) /\ Len(Frame(a)) = 6 + Len(a) /\ Len(a) \in Nat
      /\ \A i \in 1 .. 4 + Len(a) : Frame(a)[i] = HeadOf(a)[i]
      /\ HeadOf(a) \in Seq(Byte) /\ Len(HeadOf(a)) = 4 + Len(a)
  BY FrameType, HeadType
<1>2. Frame(a)[5 + Len(a)] = SumByte(a) /\ Frame(a)[6 + Len(a)] = CRC(HeadOf(a))[2]
  BY FrameBytes
<1> DEFINE t == Told(Frame(a))
<1>3. /\ t \in Seq(Seq(Byte)) /\ Len(t) = 6 + Len(a)
      /\ \A k \in 1 .. 6 + Len(a) : t[k] = Teller[Frame(a)[k]]
  BY <1>1, ToldType
<1>4. DOMAIN t = 1 .. 6 + Len(a)
  BY <1>3, LenProperties
<1> HIDE DEF t
<1>5. ASSUME NEW k \in Full(t)
      PROVE  k = 5 + Len(a)
  <2>1. k \in 1 .. 6 + Len(a) /\ t[k] # <<>>
    BY <1>4 DEF Full
  <2>2. SUFFICES ASSUME k # 5 + Len(a) PROVE FALSE
    OBVIOUS
  <2>3. \A m \in Messages : Frame(a)[k] # SumByte(m)
    <3>1. CASE k \in 1 .. 4 + Len(a)
      <4>1. Frame(a)[k] = HeadOf(a)[k] /\ HeadOf(a)[k] \in Range(HeadOf(a))
        BY <1>1, <3>1, LenProperties DEF Range
      <4>2. QED
        BY <4>1 DEF SumsApart
    <3>2. CASE k = 6 + Len(a)
      BY <1>2, <3>2 DEF SumsApart
    <3>3. QED
      BY <1>1, <2>1, <2>2, <3>1, <3>2
  <2>4. Frame(a)[k] \in Byte
    BY <1>1, <2>1, ElementOfSeq
  <2>5. QED
    BY <1>3, <2>1, <2>3, <2>4, TellerType
<1>6. t[5 + Len(a)] = a
  <2>1. 5 + Len(a) \in 1 .. 6 + Len(a)
    BY <1>1
  <2>2. t[5 + Len(a)] = Teller[SumByte(a)]
    BY <1>2, <1>3, <2>1
  <2>3. QED
    BY <2>2, TellerType
<1> DEFINE at == [k \in Full(t) |-> 1]
<1>7. DOMAIN <<a>> = {1} /\ <<a>>[1] = a
  OBVIOUS
<1>8. at \in [Full(t) -> DOMAIN <<a>>]
  BY <1>7
<1>9. \A k \in Full(t) : t[k] = <<a>>[at[k]]
  BY <1>5, <1>6, <1>7
<1>10. \A k, l \in Full(t) : k < l => at[k] < at[l]
  BY <1>1, <1>5
<1>11. Given(t, <<a>>)
  BY <1>8, <1>9, <1>10 DEF Given, Embeds
<1>12. QED
  BY <1>1, <1>11 DEF t

LEMMA ReplyTold ==
  ASSUME SumsApart, NEW a \in Messages, NEW m \in Line(Frame(a))
  PROVE  m.bytes \in Seq(Byte) /\ Given(Told(m.bytes), <<a>>)
<1>1. Frame(a) \in Seq(Byte) /\ Given(Told(Frame(a)), <<a>>)
  BY FrameTold
<1>2. m.bytes \in Seq(Byte) /\ Given(Told(m.bytes), Told(Frame(a)))
  BY <1>1, LineTold
<1>3. a \in Seq(Byte)
  BY HeadType
<1> DEFINE V == Seq(Byte)
<1>4. Told(m.bytes) \in Seq(V) /\ Told(Frame(a)) \in Seq(V) /\ <<a>> \in Seq(V)
  BY <1>1, <1>2, <1>3, ToldType
<1> HIDE DEF V
<1>5. QED
  BY <1>1, <1>2, <1>4, GivenTrans


----------------------------------------------------------------------------
(* Upwards: an answer is seen once for each time it was given *)

LEMMA AnswerType ==
  ASSUME NEW c \in Commands, c # Reboot
  PROVE  Answer[c] \in Messages
<1>1. c \in DOMAIN Answer
  BY MessageAssumption
<1>2. QED
  BY <1>1 DEF Messages, Range

LEMMA AboveTypesInit == Init => AboveTypes
<1> SUFFICES ASSUME Init PROVE AboveTypes
  OBVIOUS
<1>1. <<>> \in Seq(Byte) /\ <<>> \in Seq(Seq(Byte)) /\ <<>> \in Seq(Messages)
  OBVIOUS
<1>2. QED
  BY <1>1 DEF Init, AboveTypes

\* What a reply is made of
LEMMA ReplyParts ==
  ASSUME SumsApart, ExecType, Reply
  PROVE  \E a \in Messages, w \in Seq(Byte) :
           /\ Given(Told(w), <<a>>)
           /\ down' = down \o w /\ replied' = Append(replied, a)
<1>1. PICK c \in Commands : exec = <<c>> /\ c # Reboot
  BY DEF Reply, ExecType
<1>2. exec[1] = c /\ Answer[c] \in Messages
  BY <1>1, AnswerType
<1>3. PICK m \in Line(Frame(Answer[c])) :
        down' = down \o m.bytes /\ replied' = Append(replied, Answer[c])
  BY <1>2 DEF Reply
<1>4. QED
  BY <1>2, <1>3, ReplyTold

\* What on_readReady takes and leaves
LEMMA ReadParts ==
  ASSUME OnlyHeadsFit, SumsApart, AboveTypes, ReadReady
  PROVE  \E h \in Seq(Byte), r \in Seq(Byte), e \in Seq(Byte), g \in Seq(Seq(Byte)) :
           /\ down = h \o r /\ down' = r
           /\ acc' = e /\ queue' = queue \o g
           /\ Given(Decoded(g) \o Told(e), Told(acc \o h))
<1>1. PICK k \in 1 .. Len(down) :
        LET b == acc \o SubSeq(down, 1, k)
            p == Parsed(b)
        IN  /\ acc' = p[1] /\ queue' = queue \o p[2]
            /\ down' = SubSeq(down, k + 1, Len(down))
  BY DEF ReadReady
<1> DEFINE h == SubSeq(down, 1, k)
           r == SubSeq(down, k + 1, Len(down))
           p == Parsed(acc \o h)
<1>2. h \in Seq(Byte) /\ r \in Seq(Byte) /\ down = h \o r
  <2>1. k + 1 \in 1 .. Len(down) + 1 /\ (k + 1) - 1 = k
    BY LenProperties DEF AboveTypes
  <2>2. QED
    BY <2>1, Halved DEF AboveTypes
<1>3. acc' = p[1] /\ queue' = queue \o p[2] /\ down' = r
  BY <1>1
<1> HIDE DEF h, r
<1>4. acc \o h \in Seq(Byte)
  BY <1>2, ConcatProperties DEF AboveTypes
<1>5. /\ p[1] \in Seq(Byte) /\ p[2] \in Seq(Seq(Byte))
      /\ Given(Decoded(p[2]) \o Told(p[1]), Told(acc \o h))
  BY <1>4, ParsedCharged
<1> HIDE DEF p
<1>6. QED
  BY <1>2, <1>3, <1>5

LEMMA AboveTypesStep ==
  ASSUME OnlyHeadsFit, SumsApart, ExecType, AboveTypes, [Next]_vars
  PROVE  AboveTypes'
<1> USE DEF AboveTypes
<1>1. CASE Reply
  <2>1. PICK a \in Messages, w \in Seq(Byte) :
          down' = down \o w /\ replied' = Append(replied, a)
    BY <1>1, ReplyParts
  <2>2. down' \in Seq(Byte)
    BY <2>1, ConcatProperties
  <2>3. replied' \in Seq(Messages)
    BY <2>1, AppendProperties
  <2>4. deaf' \in BOOLEAN
    <3>1. deaf' \in {TRUE, FALSE}
      BY <1>1 DEF Reply
    <3>2. QED
      BY <3>1
  <2>5. QED
    BY <1>1, <2>2, <2>3, <2>4 DEF Reply, host
<1>2. CASE ReadReady
  <2>1. PICK r \in Seq(Byte), e \in Seq(Byte), g \in Seq(Seq(Byte)) :
          down' = r /\ acc' = e /\ queue' = queue \o g
    BY <1>2, ReadParts
  <2>2. queue \o g \in Seq(Seq(Byte))
    BY ConcatProperties
  <2>3. QED
    BY <1>2, <2>1, <2>2 DEF ReadReady, history
<1>3. CASE FakeReply
  <2>1. <<>> \in Seq(Byte)
    OBVIOUS
  <2>2. Append(queue, <<>>) \in Seq(Seq(Byte))
    BY <2>1, AppendProperties
  <2>3. QED
    BY <1>3, <2>2 DEF FakeReply, history
<1>4. CASE Open
  <2>1. PICK k \in 0 .. Len(down) : down' = SubSeq(down, k + 1, Len(down))
    BY <1>4 DEF Open
  <2>2. down' \in Seq(Byte)
    <3>1. k + 1 \in 1 .. Len(down) + 1
      BY LenProperties
    <3>2. QED
      BY <2>1, <3>1, Halved
  <2>3. deaf' \in BOOLEAN
    <3>1. deaf' = (deaf /\ down' # <<>>)
      BY <1>4 DEF Open
    <3>2. deaf' = deaf \/ deaf' = FALSE
      BY <3>1
    <3>3. QED
      BY <3>2
  <2>4. <<>> \in Seq(Seq(Byte))
    OBVIOUS
  <2>5. QED
    BY <1>4, <2>2, <2>3, <2>4 DEF Open
<1>5. CASE Ask
  <2>1. fake' \in BOOLEAN
    <3>1. fake' \in {TRUE, FALSE}
      BY <1>5 DEF Ask
    <3>2. QED
      BY <3>1
  <2>2. QED
    BY <1>5, <2>1 DEF Ask
<1>6. CASE Poll
  <2>1. Head(queue) \in Seq(Byte) /\ Tail(queue) \in Seq(Seq(Byte))
    BY <1>6, HeadTailProperties DEF Poll
  <2>2. Append(taken, Coded(Head(queue))) \in Seq(Seq(Byte))
    BY <2>1, CodedType, AppendProperties
  <2>3. QED
    BY <1>6, <2>1, <2>2 DEF Poll
<1>7. CASE Close
  <2>1. <<>> \in Seq(Byte) /\ <<>> \in Seq(Seq(Byte))
    OBVIOUS
  <2>2. QED
    BY <1>7, <2>1 DEF Close
<1>8. CASE Arrive \/ Silence \/ Recv \/ Reset
  BY <1>8 DEF Arrive, Silence, Recv, Reset, host, history
<1>9. CASE UNCHANGED vars
  BY <1>9 DEF vars, host, history
<1>10. QED
  BY <1>1, <1>2, <1>3, <1>4, <1>5, <1>6, <1>7, <1>8, <1>9 DEF Next

----------------------------------------------------------------------------

LEMMA ChainType ==
  ASSUME SumsApart, AboveTypes
  PROVE  /\ Decoded(queue) \in Seq(Seq(Byte)) /\ Seen \in Seq(Seq(Byte))
         /\ acc \o down \in Seq(Byte) /\ Told(acc \o down) \in Seq(Seq(Byte))
         /\ Chain \in Seq(Seq(Byte)) /\ replied \in Seq(Seq(Byte))
<1>1. Decoded(queue) \in Seq(Seq(Byte)) /\ taken \in Seq(Seq(Byte))
  BY DecodedType DEF AboveTypes
<1>2. Seen \in Seq(Seq(Byte))
  BY <1>1, ConcatProperties DEF Seen
<1>3. acc \o down \in Seq(Byte)
  BY ConcatProperties DEF AboveTypes
<1>4. Told(acc \o down) \in Seq(Seq(Byte))
  BY <1>3, ToldType
<1>5. Chain \in Seq(Seq(Byte))
  BY <1>2, <1>4, ConcatProperties DEF Chain
<1>6. replied \in Seq(Seq(Byte))
  <2>1. \A m \in Messages : m \in Seq(Byte)
    BY HeadType
  <2>2. QED
    BY <2>1 DEF AboveTypes
<1>7. QED
  BY <1>1, <1>2, <1>3, <1>4, <1>5, <1>6

LEMMA ChargedInit == SumsApart /\ Init => Charged
<1> SUFFICES ASSUME SumsApart, Init PROVE Charged
  OBVIOUS
<1>1. Decoded(<<>>) = <<>> /\ Told(<<>>) = <<>> /\ <<>> \o <<>> = <<>>
  BY DEF Decoded, Told
<1>2. Chain = <<>>
  BY <1>1 DEF Init, Chain, Seen
<1>3. Full(<<>>) = {}
  BY DEF Full
<1>4. QED
  BY <1>2, <1>3, GivenEmpty DEF Charged

\* Concatenation, as a name
Cat(s, t) == s \o t

LEMMA CatType ==
  ASSUME NEW V
  PROVE  /\ \A s, t \in Seq(V) : Cat(s, t) \in Seq(V)
         /\ \A s, t, u \in Seq(V) : Cat(Cat(s, t), u) = Cat(s, Cat(t, u))
<1>1. ASSUME NEW s \in Seq(V), NEW t \in Seq(V)
      PROVE  Cat(s, t) \in Seq(V)
  BY ConcatProperties DEF Cat
<1>2. ASSUME NEW s \in Seq(V), NEW t \in Seq(V), NEW u \in Seq(V)
      PROVE  Cat(Cat(s, t), u) = Cat(s, Cat(t, u))
  BY ConcatAssociative DEF Cat
<1>3. QED
  BY <1>1, <1>2

LEMMA Moved ==
  ASSUME NEW V, NEW s \in Seq(V), NEW x \in Seq(V), NEW y \in Seq(V),
         NEW z \in Seq(V), NEW u \in Seq(V), Given(x \o y, u)
  PROVE  Given((s \o x) \o (y \o z), s \o (u \o z))
<1>1. x \o y \in Seq(V) /\ u \o z \in Seq(V) /\ (x \o y) \o z \in Seq(V)
  BY ConcatProperties
<1>2. Given((x \o y) \o z, u \o z)
  BY <1>1, GivenSelf, GivenConcat
<1>3. Given(s \o ((x \o y) \o z), s \o (u \o z))
  BY <1>1, <1>2, GivenSelf, GivenConcat
<1> DEFINE l == (s \o x) \o (y \o z)
           r == s \o ((x \o y) \o z)
<1>4. l = r
  <2>1. Cat(Cat(s, x), Cat(y, z)) = Cat(s, Cat(Cat(x, y), z))
    BY CatType
  <2>2. QED
    BY <2>1 DEF Cat
<1>5. Given(r, s \o (u \o z))
  BY <1>3
<1> HIDE DEF l, r
<1>6. Given(l, s \o (u \o z))
  BY <1>4, <1>5
<1>7. QED
  BY <1>6 DEF l

\* What is parsed is moved along the chain.
LEMMA ReadMoves ==
  ASSUME OnlyHeadsFit, SumsApart, AboveTypes, ReadReady
  PROVE  Given(Chain', Chain)
<1>1. PICK h \in Seq(Byte), r \in Seq(Byte), e \in Seq(Byte), g \in Seq(Seq(Byte)) :
           /\ down = h \o r /\ down' = r
           /\ acc' = e /\ queue' = queue \o g
           /\ Given(Decoded(g) \o Told(e), Told(acc \o h))
  BY ReadParts
<1> DEFINE V == Seq(Byte)
           x == Decoded(g)
           y == Told(e)
           z == Told(r)
           u == Told(acc \o h)
<1>2. /\ acc \in Seq(Byte) /\ queue \in Seq(Seq(Byte)) /\ taken \in Seq(V)
      /\ Decoded(queue) \in Seq(V) /\ Seen \in Seq(V) /\ acc \o h \in Seq(Byte)
  BY <1>1, ChainType, ConcatProperties DEF AboveTypes
<1>3. x \in Seq(V) /\ y \in Seq(V) /\ z \in Seq(V) /\ u \in Seq(V) /\ Given(x \o y, u)
  BY <1>1, <1>2, ToldType, DecodedType
<1>4. Told(acc \o down) = u \o z
  <2>1. acc \o (h \o r) = (acc \o h) \o r
    <3>1. acc \in Seq(Byte) /\ h \in Seq(Byte) /\ r \in Seq(Byte)
      BY <1>2
    <3>2. QED
      BY SMTT(30), <3>1, Regroup
  <2>2. QED
    BY <1>1, <1>2, <2>1, ToldConcat
<1>5. Chain = Seen \o (u \o z)
  BY <1>4 DEF Chain
<1>6. Told(acc' \o down') = y \o z
  BY <1>1, ToldConcat
<1>7. taken' = taken
  BY DEF ReadReady, history
<1>8. Decoded(queue') = Decoded(queue) \o x
  BY <1>1, <1>2, DecodedConcat
<1>9. Chain' = (taken \o (Decoded(queue) \o x)) \o (y \o z)
  BY <1>6, <1>7, <1>8 DEF Chain, Seen
<1>10. Seen = taken \o Decoded(queue)
  BY DEF Seen
<1> HIDE DEF V, x, y, z, u
<1>11. taken \o (Decoded(queue) \o x) = Seen \o x
  <2> DEFINE d == Decoded(queue)
  <2>1. taken \in Seq(V) /\ d \in Seq(V) /\ x \in Seq(V)
    BY <1>2, <1>3
  <2> HIDE DEF d
  <2>2. taken \o (d \o x) = (taken \o d) \o x
    BY SMTT(30), <2>1, Regroup
  <2>3. QED
    BY <1>10, <2>2 DEF d
<1>12. Given((Seen \o x) \o (y \o z), Seen \o (u \o z))
  <2> DEFINE s == Seen
  <2>1. s \in Seq(V)
    BY <1>2
  <2> HIDE DEF s
  <2>2. Given((s \o x) \o (y \o z), s \o (u \o z))
    BY <1>3, <2>1, Moved
  <2>3. QED
    BY <2>2 DEF s
<1>13. QED
  BY <1>5, <1>9, <1>11, <1>12

\* What poll() takes was seen already.
LEMMA PollMoves ==
  ASSUME AboveTypes, Poll
  PROVE  Seen' = Seen /\ Chain' = Chain
<1> DEFINE V == Seq(Byte)
           x == Head(queue)
           q == Tail(queue)
<1>1. queue \in Seq(V) /\ taken \in Seq(V) /\ queue # <<>>
  BY DEF Poll, AboveTypes
<1>2. x \in V /\ q \in Seq(V) /\ Len(q) = Len(queue) - 1 /\ x = queue[1]
      /\ \A k \in 1 .. Len(q) : q[k] = queue[k + 1]
  BY <1>1, HeadTailProperties
<1>3. taken' = Append(taken, Coded(x)) /\ queue' = q /\ acc' = acc /\ down' = down
  BY DEF Poll
<1> HIDE DEF x, q
<1>4. queue = <<x>> \o q
  <2>1. <<x>> \in Seq(V) /\ Len(<<x>>) = 1 /\ <<x>>[1] = x
    BY <1>2
  <2>2. Len(queue) = Len(<<x>>) + Len(q) /\ \A k \in 1 .. Len(<<x>>) : queue[k] = <<x>>[k]
    BY <1>1, <1>2, <2>1, LenProperties
  <2>3. \A k \in 1 .. Len(q) : queue[Len(<<x>>) + k] = q[k]
    <3>1. \A k \in 1 .. Len(q) : 1 + k = k + 1
      OBVIOUS
    <3>2. QED
      BY <1>2, <2>1, <3>1
  <2> HIDE DEF V
  <2>4. QED
    BY <1>1, <1>2, <2>1, <2>2, <2>3, JoinedEqual
<1>5. Coded(x) \in V /\ <<Coded(x)>> \in Seq(V) /\ <<x>> \in Seq(V)
  BY <1>2, CodedType
<1>6. Decoded(queue) = <<Coded(x)>> \o Decoded(q)
  BY <1>2, <1>4, <1>5, DecodedConcat, DecodedOne
<1>7. Decoded(q) \in Seq(V)
  BY <1>2, DecodedType
<1> HIDE DEF V
<1>8. Append(taken, Coded(x)) = taken \o <<Coded(x)>>
  BY <1>1, <1>5, AppendIsConcat
<1>9. (taken \o <<Coded(x)>>) \o Decoded(q) = taken \o (<<Coded(x)>> \o Decoded(q))
  <2> DEFINE o == <<Coded(x)>>
             d == Decoded(q)
  <2>1. taken \in Seq(V) /\ o \in Seq(V) /\ d \in Seq(V)
    BY <1>1, <1>5, <1>7
  <2> HIDE DEF o, d
  <2>2. taken \o (o \o d) = (taken \o o) \o d
    BY <2>1, Regroup
  <2>3. QED
    BY <2>2 DEF o, d
<1>10. Seen' = Seen
  BY <1>3, <1>6, <1>8, <1>9 DEF Seen
<1>11. QED
  BY <1>3, <1>10 DEF Chain

LEMMA ChargedStep ==
  ASSUME OnlyHeadsFit, SumsApart, ExecType, AboveTypes, Charged, [Next]_vars
  PROVE  Charged'
<1> DEFINE V == Seq(Byte)
<1>1. /\ Decoded(queue) \in Seq(V) /\ Seen \in Seq(V) /\ taken \in Seq(V)
      /\ acc \in Seq(Byte) /\ down \in Seq(Byte)
      /\ acc \o down \in Seq(Byte) /\ Told(acc \o down) \in Seq(V)
      /\ Chain \in Seq(V) /\ replied \in Seq(V) /\ Given(Chain, replied)
  BY ChainType DEF AboveTypes, Charged
<1>2. Chain' \in Seq(V)
  <2>1. AboveTypes'
    BY AboveTypesStep
  <2>2. Decoded(queue)' \in Seq(V) /\ taken' \in Seq(V)
    BY <2>1, DecodedType DEF AboveTypes
  <2>3. Seen' \in Seq(V)
    BY <2>2, ConcatProperties DEF Seen
  <2>4. (acc \o down)' \in Seq(Byte)
    BY <2>1, ConcatProperties DEF AboveTypes
  <2>5. Told(acc \o down)' \in Seq(V)
    BY <2>4, ToldType
  <2>6. QED
    BY <2>3, <2>5, ConcatProperties DEF Chain
<1>3. CASE Reply
  <2>1. PICK d \in Messages, w \in Seq(Byte) :
          /\ Given(Told(w), <<d>>)
          /\ down' = down \o w /\ replied' = Append(replied, d)
    BY <1>3, ReplyParts
  <2>2. acc' = acc /\ Seen' = Seen
    BY <1>3 DEF Reply, host, Seen
  <2>3. Told(w) \in Seq(V) /\ d \in V /\ <<d>> \in Seq(V)
    BY <2>1, ToldType, HeadType
  <2>4. acc \o (down \o w) = (acc \o down) \o w
    <3>1. acc \in Seq(Byte) /\ down \in Seq(Byte) /\ w \in Seq(Byte)
      BY <1>1
    <3>2. QED
      BY <3>1, Regroup
  <2>5. Told(acc' \o down') = Told(acc \o down) \o Told(w)
    BY <1>1, <2>1, <2>2, <2>4, ToldConcat
  <2> HIDE DEF V
  <2>6. Seen \o (Told(acc \o down) \o Told(w)) = (Seen \o Told(acc \o down)) \o Told(w)
    <3> DEFINE a == Seen
               b == Told(acc \o down)
               c == Told(w)
    <3>1. a \in Seq(V) /\ b \in Seq(V) /\ c \in Seq(V)
      BY <1>1, <2>3
    <3> HIDE DEF a, b, c
    <3>2. a \o (b \o c) = (a \o b) \o c
      BY <3>1, Regroup
    <3>3. QED
      BY <3>2 DEF a, b, c
  <2>7. Chain' = Chain \o Told(w)
    <3>1. Chain' = Seen' \o Told(acc' \o down') /\ Chain = Seen \o Told(acc \o down)
      BY DEF Chain
    <3>2. QED
      BY <2>2, <2>5, <2>6, <3>1
  <2>8. replied' = replied \o <<d>>
    BY <1>1, <2>1, <2>3, AppendIsConcat
  <2>9. Given(Chain \o Told(w), replied \o <<d>>)
    BY <1>1, <2>1, <2>3, GivenConcat
  <2>10. QED
    BY <2>7, <2>8, <2>9 DEF Charged
<1>4. ASSUME Given(Chain', Chain), replied' = replied
      PROVE  Charged'
  <2> HIDE DEF V
  <2>1. Given(Chain', replied)
    BY <1>1, <1>2, <1>4, GivenTrans
  <2>2. QED
    BY <1>4, <2>1 DEF Charged
<1>5. CASE ReadReady
  <2>1. replied' = replied
    BY <1>5 DEF ReadReady, history
  <2>2. QED
    BY <1>4, <1>5, <2>1, ReadMoves
<1>6. CASE FakeReply
  <2> DEFINE e == <<>>
  <2>1. /\ taken' = taken /\ queue' = Append(queue, e) /\ acc' = acc /\ down' = down
        /\ replied' = replied
    BY <1>6 DEF FakeReply, history
  <2>2. e \in V /\ <<e>> \in Seq(V) /\ queue \in Seq(V) /\ Coded(e) = e
    BY DEF AboveTypes, Coded
  <2> HIDE DEF V, e
  <2>3. Append(queue, e) = queue \o <<e>>
    BY <2>2, AppendIsConcat
  <2>4. Decoded(queue') = Decoded(queue) \o <<e>>
    <3>1. e \in Seq(Byte) /\ queue \in Seq(Seq(Byte)) /\ <<e>> \in Seq(Seq(Byte))
      BY <2>2 DEF V
    <3>2. QED
      BY <2>1, <2>2, <2>3, <3>1, DecodedConcat, DecodedOne
  <2>5. taken \o (Decoded(queue) \o <<e>>) = Seen \o <<e>>
    <3> DEFINE d == Decoded(queue)
               o == <<e>>
    <3>1. taken \in Seq(V) /\ d \in Seq(V) /\ o \in Seq(V)
      BY <1>1, <2>2
    <3> HIDE DEF d, o
    <3>2. taken \o (d \o o) = (taken \o d) \o o
      BY <3>1, Regroup
    <3>3. QED
      BY <3>2 DEF Seen, d, o
  <2>6. Seen' = Seen \o <<e>>
    BY <2>1, <2>4, <2>5 DEF Seen
  <2>7. Given(<<e>>, <<>>) /\ <<>> \in Seq(V)
    <3>1. Full(<<e>>) = {}
      BY DEF Full, e
    <3>2. QED
      BY <3>1, GivenEmpty
  <2>8. Given(Seen \o <<e>>, Seen \o <<>>)
    BY <1>1, <2>2, <2>7, GivenSelf, GivenConcat
  <2>9. Given(Seen', Seen) /\ Seen' \in Seq(V)
    BY <1>1, <2>2, <2>6, <2>8, ConcatEmptySeq, ConcatProperties
  <2>10. Given(Seen' \o Told(acc \o down), Seen \o Told(acc \o down))
    BY <1>1, <2>9, GivenSelf, GivenConcat
  <2>11. Given(Chain', Chain)
    BY <2>1, <2>10 DEF Chain
  <2>12. QED
    BY <1>4, <2>1, <2>11
<1>7. CASE Open
  <2>1. PICK k \in 0 .. Len(down) : down' = SubSeq(down, k + 1, Len(down))
    BY <1>7 DEF Open
  <2>2. acc' = acc /\ queue' = queue /\ taken' = <<>> /\ replied' = replied
    BY <1>7 DEF Open
  <2>3. k + 1 \in 1 .. Len(down) + 1
    BY <1>1, LenProperties
  <2>4. down' \in Seq(Byte) /\ Given(Told(down'), Told(down))
    BY <1>1, <2>1, <2>3, Halved, ToldTail
  <2>5. Told(acc) \in Seq(V) /\ Told(down) \in Seq(V) /\ Told(down') \in Seq(V)
    BY <1>1, <2>4, ToldType
  <2>6. Told(acc \o down) = Told(acc) \o Told(down)
        /\ Told(acc' \o down') = Told(acc) \o Told(down')
    BY <1>1, <2>2, <2>4, ToldConcat
  <2> HIDE DEF V
  <2>7. Given(Told(acc) \o Told(down'), Told(acc) \o Told(down))
    BY <2>4, <2>5, GivenSelf, GivenConcat
  <2>8. Seen' = Decoded(queue) /\ Given(Decoded(queue), Seen)
    <3>1. <<>> \o Decoded(queue) = Decoded(queue)
      BY <1>1, ConcatEmptySeq
    <3>2. QED
      BY <1>1, <2>2, <3>1, GivenTail DEF Seen
  <2>9. Told(acc) \o Told(down') \in Seq(V) /\ Told(acc) \o Told(down) \in Seq(V)
    BY <2>5, ConcatProperties
  <2>10. Given(Decoded(queue) \o (Told(acc) \o Told(down')), Seen \o (Told(acc) \o Told(down)))
    BY <1>1, <2>7, <2>8, <2>9, GivenConcat
  <2>11. Given(Chain', Chain)
    BY <2>6, <2>8, <2>10 DEF Chain
  <2>12. QED
    BY <1>4, <2>2, <2>11
<1>8. CASE Poll
  <2>1. replied' = replied
    BY <1>8 DEF Poll
  <2> HIDE DEF V
  <2>2. Given(Chain', Chain)
    BY <1>1, <1>8, PollMoves, GivenSelf
  <2>3. QED
    BY <1>4, <2>1, <2>2
<1>9. CASE Close
  <2>1. acc' = <<>> /\ queue' = <<>> /\ taken' = <<>> /\ down' = down /\ replied' = replied
    BY <1>9 DEF Close
  <2>2. Decoded(<<>>) = <<>> /\ <<>> \o <<>> = <<>>
    BY DEF Decoded
  <2>3. Told(acc) \in Seq(V) /\ Told(down) \in Seq(V) /\ Told(acc \o down) = Told(acc) \o Told(down)
    BY <1>1, ToldType, ToldConcat
  <2>4. <<>> \o down = down
    BY <1>1, ConcatEmptySeq
  <2> HIDE DEF V
  <2>5. Chain' = Told(down)
    <3>1. <<>> \o Told(down) = Told(down)
      BY <2>3, ConcatEmptySeq
    <3>2. QED
      BY <2>1, <2>2, <2>4, <3>1 DEF Chain, Seen
  <2>6. Given(Told(down), Told(acc \o down)) /\ Given(Told(acc \o down), Chain)
    BY <1>1, <2>3, GivenTail DEF Chain
  <2>7. Given(Chain', Chain)
    BY <1>1, <2>3, <2>5, <2>6, GivenTrans
  <2>8. QED
    BY <1>4, <2>1, <2>7
<1>10. CASE Arrive \/ Silence \/ Recv \/ Reset \/ Ask \/ UNCHANGED vars
  <2>1. acc' = acc /\ queue' = queue /\ taken' = taken /\ down' = down /\ replied' = replied
    BY <1>10 DEF Arrive, Silence, Recv, Reset, Ask, vars, host, history
  <2>2. QED
    BY <1>1, <2>1 DEF Charged, Chain, Seen
<1>11. QED
  BY <1>3, <1>5, <1>6, <1>7, <1>8, <1>9, <1>10 DEF Next

----------------------------------------------------------------------------

\* Every answer a session sees, but for the made-up reply, is one the device
\* gave, in their order and at most once, however frames are damaged, cut by
\* gaps, or left over from the session before: as long as the checksum of a
\* frame fits nothing else and occurs in nothing else.
THEOREM AnswersCounted ==
  ASSUME OnlyHeadsFit, SumsApart
  PROVE  Spec => []AnswersWereGiven
<1> DEFINE IInv == BelowTypes /\ Carried /\ ExecType /\ AboveTypes /\ Charged
<1>1. Init => IInv
  BY BelowTypesInit, CarriedInit, AboveTypesInit, ChargedInit
<1>2. IInv /\ [Next]_vars => IInv'
  BY BelowTypesStep, CarriedStep, AboveTypesStep, ChargedStep
<1>3. IInv => AnswersWereGiven
  <2> SUFFICES ASSUME IInv PROVE Given(Seen, replied)
    BY DEF AnswersWereGiven
  <2>1. /\ Seen \in Seq(Seq(Byte)) /\ Told(acc \o down) \in Seq(Seq(Byte))
        /\ Chain \in Seq(Seq(Byte)) /\ replied \in Seq(Seq(Byte))
    BY ChainType
  <2>2. Given(Seen, Chain)
    BY <2>1, GivenFront DEF Chain
  <2>3. Given(Chain, replied)
    BY DEF Charged
  <2>4. QED
    BY <2>1, <2>2, <2>3, GivenTrans
<1>4. QED
  BY <1>1, <1>2, <1>3, PTL DEF Spec

\* Nothing leaves its type; what the loop executes is a command of the tool,
\* never a piece of one and never an answer.
THEOREM LineTypes ==
  ASSUME OnlyHeadsFit, SumsApart
  PROVE  Spec => []TypeOK
<1> DEFINE IInv == BelowTypes /\ Carried /\ ExecType /\ AboveTypes
<1>1. Init => IInv
  BY BelowTypesInit, CarriedInit, AboveTypesInit
<1>2. IInv /\ [Next]_vars => IInv'
  BY BelowTypesStep, CarriedStep, AboveTypesStep
<1>3. IInv => TypeOK
  <2> SUFFICES ASSUME IInv PROVE TypeOK
    OBVIOUS
  <2>1. exec = None \/ exec[1] \in Commands
    BY DEF ExecType
  <2>2. \A s \in Seq(Byte) : Range(s) \subseteq Byte
    BY LenProperties, ElementOfSeq DEF Range
  <2>3. Range(up) \cup Range(down) \cup Range(acc) \subseteq Byte
    BY <2>2 DEF BelowTypes, AboveTypes
  <2>4. {open, waiting, fake, clean, deaf} \subseteq BOOLEAN
    BY DEF BelowTypes, AboveTypes
  <2>5. QED
    BY <2>1, <2>3, <2>4 DEF TypeOK, BelowTypes
<1>4. QED
  BY <1>1, <1>2, <1>3, PTL DEF Spec

=============================================================================
