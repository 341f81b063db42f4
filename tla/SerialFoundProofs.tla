------------------------- MODULE SerialFoundProofs -------------------------
(***************************************************************************)
(* SerialLine upwards, continued: what is found in the stream as a whole.  *)
(* It does not matter to on_readReady where its reads cut the stream       *)
(* (ReadsAddUp); what damaged replies leave behind keeps no later reply    *)
(* from being found (HarmlessJoin); so a reply that arrives whole during a *)
(* session reaches the queue (NothingIsSwallowed).                         *)
(***************************************************************************)
EXTENDS SerialAnswerProofs

----------------------------------------------------------------------------
(* How the stream is divided into reads *)

LEMMA SameSeq ==
  ASSUME NEW V, NEW s \in Seq(V), NEW t \in Seq(V), Len(s) = Len(t),
         \A i \in 1 .. Len(s) : s[i] = t[i]
  PROVE  s = t
BY SeqEqual

LEMMA TailJoined ==
  ASSUME NEW x \in Seq(Byte), NEW d \in Seq(Byte), NEW i \in 1 .. Len(x) + 1
  PROVE  SubSeq(x \o d, i, Len(x \o d)) = SubSeq(x, i, Len(x)) \o d
<1> DEFINE w == x \o d
           s == SubSeq(x, i, Len(x))
           u == SubSeq(w, i, Len(w))
<1>1. /\ Len(x) \in Nat /\ Len(d) \in Nat /\ i \in Nat /\ 1 <= i /\ i <= Len(x) + 1
      /\ w \in Seq(Byte) /\ Len(w) = Len(x) + Len(d)
      /\ \A k \in 1 .. Len(x) : w[k] = x[k]
      /\ \A k \in 1 .. Len(d) : w[Len(x) + k] = d[k]
  BY Joined, LenProperties
<1>2. /\ s \in Seq(Byte) /\ Len(s) = Len(x) + 1 - i
      /\ \A k \in 1 .. Len(x) + 1 - i : s[k] = x[i + k - 1]
  BY <1>1, Piece
<1> HIDE DEF w, s
<1>3. /\ u \in Seq(Byte) /\ Len(u) = Len(w) + 1 - i
      /\ \A k \in 1 .. Len(w) + 1 - i : u[k] = w[i + k - 1]
  BY <1>1, Piece
<1> HIDE DEF u
<1>4. Len(u) = Len(s) + Len(d)
  BY <1>1, <1>2, <1>3
<1>5. ASSUME NEW k \in 1 .. Len(s) PROVE u[k] = s[k]
  <2>1. k \in 1 .. Len(w) + 1 - i /\ k \in 1 .. Len(x) + 1 - i /\ i + k - 1 \in 1 .. Len(x)
    BY <1>1, <1>2
  <2>2. QED
    BY <1>1, <1>2, <1>3, <2>1
<1>6. ASSUME NEW k \in 1 .. Len(d) PROVE u[Len(s) + k] = d[k]
  <2>1. Len(s) + k \in 1 .. Len(w) + 1 - i /\ i + (Len(s) + k) - 1 = Len(x) + k
    BY <1>1, <1>2
  <2>2. u[Len(s) + k] = w[i + (Len(s) + k) - 1]
    BY <1>3, <2>1
  <2>3. QED
    BY <1>1, <2>1, <2>2
<1>7. u = s \o d
  BY <1>2, <1>3, <1>4, <1>5, <1>6, JoinedEqual
<1>8. QED
  BY <1>7 DEF u, s, w

LEMMA FrontJoined ==
  ASSUME NEW x \in Seq(Byte), NEW d \in Seq(Byte), NEW i \in Nat, NEW j \in Nat,
         1 <= i, j <= Len(x), i <= j + 1
  PROVE  SubSeq(x \o d, i, j) = SubSeq(x, i, j)
<1> DEFINE w == x \o d
<1>1. /\ w \in Seq(Byte) /\ Len(w) = Len(x) + Len(d) /\ Len(x) \in Nat /\ Len(d) \in Nat
      /\ \A k \in 1 .. Len(x) : w[k] = x[k]
  BY Joined, LenProperties
<1> HIDE DEF w
<1>2. /\ SubSeq(x, i, j) \in Seq(Byte) /\ Len(SubSeq(x, i, j)) = j + 1 - i
      /\ \A k \in 1 .. j + 1 - i : SubSeq(x, i, j)[k] = x[i + k - 1]
  BY Piece
<1>3. /\ SubSeq(w, i, j) \in Seq(Byte) /\ Len(SubSeq(w, i, j)) = j + 1 - i
      /\ \A k \in 1 .. j + 1 - i : SubSeq(w, i, j)[k] = w[i + k - 1]
  <2>1. j <= Len(w)
    BY <1>1
  <2>2. QED
    BY <1>1, <2>1, Piece
<1>4. ASSUME NEW k \in 1 .. j + 1 - i PROVE SubSeq(w, i, j)[k] = SubSeq(x, i, j)[k]
  <2>1. i + k - 1 \in 1 .. Len(x)
    BY <1>1
  <2>2. QED
    BY <1>1, <1>2, <1>3, <2>1
<1>5. SubSeq(w, i, j) = SubSeq(x, i, j)
  BY <1>2, <1>3, <1>4, SameSeq
<1>6. QED
  BY <1>5 DEF w

\* What may be dropped without removeUntilFindHead finding anything else
LEMMA FromMarkLater ==
  ASSUME NEW b \in Seq(Byte), NEW i \in 1 .. Len(b) + 1,
         i = 1 \/ i + 1 <= Len(b), \A j \in Marked(b) : i <= j
  PROVE  FromMark(SubSeq(b, i, Len(b))) = FromMark(b)
<1> DEFINE c == SubSeq(b, i, Len(b))
<1>1. Len(b) \in Nat /\ i \in Nat /\ 1 <= i /\ i <= Len(b) + 1
  BY LenProperties
<1>2. /\ c \in Seq(Byte) /\ Len(c) = Len(b) + 1 - i
      /\ \A k \in 1 .. Len(b) + 1 - i : c[k] = b[i + k - 1]
  BY <1>1, Piece
<1> HIDE DEF c
<1>3. ASSUME NEW k \in Nat, 1 <= k, k <= Len(c) - 2
      PROVE  MarkAt(c, k) <=> MarkAt(b, k + i - 1)
  <2>1. k \in 1 .. Len(b) + 1 - i /\ k + 1 \in 1 .. Len(b) + 1 - i
    BY <1>1, <1>2, <1>3
  <2>2. i + k - 1 = k + i - 1 /\ i + (k + 1) - 1 = (k + i - 1) + 1
    BY <1>1
  <2>3. c[k] = b[k + i - 1] /\ c[k + 1] = b[(k + i - 1) + 1]
    BY <1>2, <2>1, <2>2
  <2>4. QED
    BY <2>3 DEF MarkAt
<1>4. \A k \in Marked(c) : k + i - 1 \in Marked(b)
  BY <1>1, <1>2, <1>3 DEF Marked
<1>5. \A j \in Marked(b) : j - i + 1 \in Marked(c)
  <2> SUFFICES ASSUME NEW j \in Marked(b) PROVE j - i + 1 \in Marked(c)
    OBVIOUS
  <2>1. i <= j /\ j \in Nat /\ j <= Len(b) - 2 /\ MarkAt(b, j)
    BY <1>1 DEF Marked
  <2>2. /\ j - i + 1 \in Nat /\ 1 <= j - i + 1 /\ j - i + 1 <= Len(c) - 2
        /\ (j - i + 1) + i - 1 = j
    BY <1>1, <1>2, <2>1
  <2>3. MarkAt(c, j - i + 1)
    BY <1>3, <2>1, <2>2
  <2>4. j - i + 1 \in 1 .. Len(c) - 2
    BY <1>1, <1>2, <2>2
  <2>5. QED
    BY <2>3, <2>4 DEF Marked
<1>6. PICK u \in 1 .. Len(c) + 1 :
           /\ FromMark(c) = SubSeq(c, u, Len(c))
           /\ Marked(c) # {} => u \in Marked(c) /\ \A j \in Marked(c) : u <= j
           /\ Marked(c) = {} => u = IF Len(c) > 2 THEN Len(c) - 1 ELSE 1
  BY <1>2, FromMarkType
<1>7. PICK v \in 1 .. Len(b) + 1 :
           /\ FromMark(b) = SubSeq(b, v, Len(b))
           /\ Marked(b) # {} => v \in Marked(b) /\ \A j \in Marked(b) : v <= j
           /\ Marked(b) = {} => v = IF Len(b) > 2 THEN Len(b) - 1 ELSE 1
  BY FromMarkType
<1>8. u \in Nat /\ 1 <= u /\ u <= Len(c) + 1 /\ v \in Nat /\ v <= Len(b) + 1
  BY <1>1, <1>2
<1>9. v = u + i - 1
  <2>1. CASE Marked(b) # {}
    <3>1. v \in Marked(b) /\ v - i + 1 \in Marked(c)
      BY <1>5, <1>7, <2>1
    <3>2. u \in Marked(c) /\ u <= v - i + 1
      BY <1>6, <3>1
    <3>3. v <= u + i - 1
      BY <1>4, <1>7, <2>1, <3>2
    <3>4. QED
      BY <1>1, <1>8, <3>2, <3>3
  <2>2. CASE Marked(b) = {}
    <3>1. Marked(c) = {}
      BY <1>4, <2>2
    <3>2. v = (IF Len(b) > 2 THEN Len(b) - 1 ELSE 1) /\ u = (IF Len(c) > 2 THEN Len(c) - 1 ELSE 1)
      BY <1>6, <1>7, <2>2, <3>1
    <3>3. CASE i = 1
      BY <1>1, <1>2, <3>2, <3>3
    <3>4. CASE i # 1 /\ i + 1 <= Len(b)
      BY <1>1, <1>2, <3>2, <3>4
    <3>5. QED
      BY <3>3, <3>4
  <2>3. QED
    BY <2>1, <2>2
<1>10. /\ FromMark(c) \in Seq(Byte) /\ Len(FromMark(c)) = Len(c) + 1 - u
       /\ \A k \in 1 .. Len(c) + 1 - u : FromMark(c)[k] = c[u + k - 1]
  <2>1. Len(c) \in Nat /\ Len(c) <= Len(c)
    BY <1>1, <1>2
  <2>2. /\ SubSeq(c, u, Len(c)) \in Seq(Byte) /\ Len(SubSeq(c, u, Len(c))) = Len(c) + 1 - u
        /\ \A k \in 1 .. Len(c) + 1 - u : SubSeq(c, u, Len(c))[k] = c[u + k - 1]
    BY <1>2, <1>8, <2>1, Piece
  <2>3. QED
    BY <1>6, <2>2
<1>11. /\ FromMark(b) \in Seq(Byte) /\ Len(FromMark(b)) = Len(b) + 1 - v
       /\ \A k \in 1 .. Len(b) + 1 - v : FromMark(b)[k] = b[v + k - 1]
  <2>1. 1 <= v
    BY <1>7
  <2>2. QED
    BY <1>1, <1>7, <1>8, <2>1, Piece
<1>12. Len(b) + 1 - v = Len(c) + 1 - u
  BY <1>1, <1>2, <1>8, <1>9
<1>13. ASSUME NEW k \in 1 .. Len(c) + 1 - u
       PROVE  FromMark(c)[k] = FromMark(b)[k]
  <2>1. u + k - 1 \in 1 .. Len(b) + 1 - i /\ i + (u + k - 1) - 1 = v + k - 1
    BY <1>1, <1>2, <1>8, <1>9
  <2>2. c[u + k - 1] = b[v + k - 1]
    BY <1>2, <2>1
  <2>3. FromMark(c)[k] = c[u + k - 1]
    BY <1>10
  <2>4. FromMark(b)[k] = b[v + k - 1]
    BY <1>11, <1>12
  <2>5. QED
    BY <2>2, <2>3, <2>4
<1>14. FromMark(c) = FromMark(b)
  BY <1>10, <1>11, <1>12, <1>13, SameSeq
<1>15. QED
  BY <1>14 DEF c

LEMMA FromMarkJoin ==
  ASSUME NEW b \in Seq(Byte), NEW d \in Seq(Byte)
  PROVE  FromMark(FromMark(b) \o d) = FromMark(b \o d)
<1> DEFINE x == b \o d
<1>1. /\ x \in Seq(Byte) /\ Len(x) = Len(b) + Len(d) /\ Len(b) \in Nat /\ Len(d) \in Nat
      /\ \A k \in 1 .. Len(b) : x[k] = b[k]
  BY Joined, LenProperties
<1>2. PICK i \in 1 .. Len(b) + 1 :
           /\ FromMark(b) = SubSeq(b, i, Len(b))
           /\ Marked(b) # {} => i \in Marked(b) /\ \A j \in Marked(b) : i <= j
           /\ Marked(b) = {} => i = IF Len(b) > 2 THEN Len(b) - 1 ELSE 1
  BY FromMarkType
<1>3. SubSeq(x, i, Len(x)) = FromMark(b) \o d
  BY <1>2, TailJoined
<1> HIDE DEF x
<1>4. i = 1 \/ i + 1 <= Len(b)
  BY <1>1, <1>2 DEF Marked
<1>5. ASSUME NEW j \in Marked(x), j < i PROVE FALSE
  <2>1. j \in Nat /\ 1 <= j /\ j <= Len(x) - 2 /\ MarkAt(x, j)
    BY <1>1 DEF Marked
  <2>2. j <= Len(b) - 2
    BY <1>1, <1>2, <1>5, <2>1 DEF Marked
  <2>3. x[j] = b[j] /\ x[j + 1] = b[j + 1]
    BY <1>1, <2>1, <2>2
  <2>4. MarkAt(b, j)
    BY <2>1, <2>3 DEF MarkAt
  <2>5. j \in Marked(b)
    BY <1>1, <2>1, <2>2, <2>4 DEF Marked
  <2>6. QED
    BY <1>1, <1>2, <1>5, <2>1, <2>5
<1>6. \A j \in Marked(x) : i <= j
  <2> SUFFICES ASSUME NEW j \in Marked(x) PROVE i <= j
    OBVIOUS
  <2>1. j \in Nat /\ i \in Nat
    BY <1>1 DEF Marked
  <2>2. QED
    BY <1>5, <2>1
<1>7. i \in 1 .. Len(x) + 1 /\ (i = 1 \/ i + 1 <= Len(x))
  BY <1>1, <1>2, <1>4
<1>8. FromMark(SubSeq(x, i, Len(x))) = FromMark(x)
  BY <1>1, <1>6, <1>7, FromMarkLater
<1>9. QED
  BY <1>3, <1>8 DEF x

\* What starts with a mark, and what removeUntilFindHead leaves as it is
LEMMA MarkFirst ==
  ASSUME NEW b \in Seq(Byte), Len(b) > 2
  PROVE  FromMark(b) = b <=> MarkAt(b, 1)
<1>1. Len(b) \in Nat
  BY LenProperties
<1>2. PICK i \in 1 .. Len(b) + 1 :
           /\ FromMark(b) = SubSeq(b, i, Len(b))
           /\ Marked(b) # {} => i \in Marked(b) /\ \A j \in Marked(b) : i <= j
           /\ Marked(b) = {} => i = IF Len(b) > 2 THEN Len(b) - 1 ELSE 1
  BY FromMarkType
<1>3. Len(SubSeq(b, i, Len(b))) = Len(b) + 1 - i
  BY Halved
<1>4. ASSUME FromMark(b) = b PROVE MarkAt(b, 1)
  <2>1. i = 1
    BY <1>1, <1>2, <1>3, <1>4
  <2>2. Marked(b) # {}
    BY <1>1, <1>2, <2>1
  <2>3. QED
    BY <1>2, <2>1, <2>2 DEF Marked
<1>5. ASSUME MarkAt(b, 1) PROVE FromMark(b) = b
  <2>1. 1 \in Marked(b)
    BY <1>1, <1>5 DEF Marked
  <2>2. i = 1
    BY <1>1, <1>2, <2>1
  <2>3. QED
    BY <1>2, <2>2, SubSeqFull
<1>6. QED
  BY <1>4, <1>5

\* A round with bytes to follow is the round without them, and they follow.
LEMMA RoundJoin ==
  ASSUME NEW x \in Seq(Byte), NEW f \in Seq(Seq(Byte)), NEW d \in Seq(Byte),
         FromMark(x) = x, Enough(x)
  PROVE  /\ FromMark(Round(<<x, f>>)[1]) = Round(<<x, f>>)[1]
         /\ Round(<<FromMark(x \o d), f>>)
              = <<FromMark(Round(<<x, f>>)[1] \o d), Round(<<x, f>>)[2]>>
<1> DEFINE w == x \o d
           n == U16(x, 3)
<1>1. /\ Len(x) \in Nat /\ Len(d) \in Nat /\ w \in Seq(Byte) /\ Len(w) = Len(x) + Len(d)
      /\ \A k \in 1 .. Len(x) : w[k] = x[k]
  BY Joined, LenProperties
<1>2. n \in Nat /\ 6 < Len(x) /\ n + 6 <= Len(x)
  <2>1. (6 < Len(x) /\ n + 6 <= Len(x)) \/ ~(n \in Nat)
    BY <1>1 DEF Enough
  <2>2. x[3] \in Byte /\ x[4] \in Byte
    <3>1. 6 < Len(x)
      BY DEF Enough
    <3>2. 3 \in 1 .. Len(x) /\ 4 \in 1 .. Len(x)
      BY <1>1, <3>1
    <3>3. QED
      BY <3>2, ElementOfSeq
  <2>3. PICK u \in Byte, v \in Byte : x[3] = u /\ x[4] = v
    BY <2>2
  <2>4. n = u + 256 * v
    BY <2>3 DEF U16
  <2>5. n \in Nat
    <3>1. u \in Nat /\ v \in Nat
      BY DEF Byte
    <3>2. QED
      BY <2>4, <3>1
  <2>6. QED
    BY <2>1, <2>5
<1> HIDE DEF w
<1>3. w[1] = x[1] /\ w[2] = x[2] /\ w[3] = x[3] /\ w[4] = x[4]
  BY <1>1, <1>2
<1>4. U16(w, 3) = n
  BY <1>3 DEF U16
<1> HIDE DEF n
<1>5. FromMark(w) = w
  <2>1. MarkAt(x, 1)
    BY <1>1, <1>2, MarkFirst
  <2>2. MarkAt(w, 1)
    BY <1>3, <2>1 DEF MarkAt
  <2>3. Len(w) > 2
    BY <1>1, <1>2
  <2>4. QED
    BY <1>1, <2>2, <2>3, MarkFirst
<1>6. Enough(w)
  BY <1>1, <1>2, <1>4 DEF Enough
<1>7. CrcFits(w, 1, n) <=> CrcFits(x, 1, n)
  <2>1. SubSeq(w, 1, 1 + 3 + n) = SubSeq(x, 1, 1 + 3 + n)
    <3>1. 1 + 3 + n \in Nat /\ 1 + 3 + n <= Len(x) /\ 1 <= (1 + 3 + n) + 1
      BY <1>1, <1>2
    <3>2. QED
      BY <3>1, FrontJoined DEF w
  <2>2. w[1 + 4 + n] = x[1 + 4 + n] /\ w[1 + 5 + n] = x[1 + 5 + n]
    BY SMTT(30), <1>1, <1>2
  <2>3. QED
    BY <2>1, <2>2 DEF CrcFits
<1>8. SubSeq(w, n + 7, Len(w)) = SubSeq(x, n + 7, Len(x)) \o d
  <2>1. n + 7 \in 1 .. Len(x) + 1
    BY <1>1, <1>2
  <2>2. QED
    BY <2>1, TailJoined DEF w
<1>9. SubSeq(w, 5, n + 4) = SubSeq(x, 5, n + 4)
  <2>1. n + 4 \in Nat /\ n + 4 <= Len(x) /\ 5 <= (n + 4) + 1
    BY <1>1, <1>2
  <2>2. QED
    BY <2>1, FrontJoined DEF w
<1>10. AfterBad(w) = AfterBad(x) \o d
  <2>1. 3 \in 1 .. Len(x) + 1
    BY <1>1, <1>2
  <2>2. QED
    BY <2>1, TailJoined DEF AfterBad, w
<1>11. SubSeq(x, n + 7, Len(x)) \in Seq(Byte) /\ AfterBad(x) \in Seq(Byte)
  <2>1. n + 7 \in 1 .. Len(x) + 1 /\ 3 \in 1 .. Len(x) + 1
    BY <1>1, <1>2
  <2>2. QED
    BY <2>1, Halved DEF AfterBad
<1>12. Round(<<x, f>>) = IF CrcFits(x, 1, n)
          THEN <<FromMark(SubSeq(x, n + 7, Len(x))), Append(f, SubSeq(x, 5, n + 4))>>
          ELSE <<FromMark(AfterBad(x)), f>>
  BY DEF Round, n
<1>13. Round(<<w, f>>) = IF CrcFits(w, 1, n)
          THEN <<FromMark(SubSeq(w, n + 7, Len(w))), Append(f, SubSeq(w, 5, n + 4))>>
          ELSE <<FromMark(AfterBad(w)), f>>
  BY <1>4, <1>6 DEF Round
<1>14. ASSUME NEW r \in Seq(Byte), NEW g,
              Round(<<x, f>>) = <<FromMark(r), g>>, Round(<<w, f>>) = <<FromMark(r \o d), g>>
       PROVE  /\ FromMark(Round(<<x, f>>)[1]) = Round(<<x, f>>)[1]
              /\ Round(<<FromMark(w), f>>)
                   = <<FromMark(Round(<<x, f>>)[1] \o d), Round(<<x, f>>)[2]>>
  <2>1. Round(<<x, f>>)[1] = FromMark(r) /\ Round(<<x, f>>)[2] = g
    BY <1>14
  <2>2. FromMark(FromMark(r) \o d) = FromMark(r \o d)
    BY FromMarkJoin
  <2>3. FromMark(FromMark(r)) = FromMark(r)
    <3>1. <<>> \in Seq(Byte) /\ FromMark(r) \in Seq(Byte)
      BY FromMarkSeq
    <3>2. FromMark(FromMark(r) \o <<>>) = FromMark(r \o <<>>)
      BY <3>1, FromMarkJoin
    <3>3. FromMark(r) \o <<>> = FromMark(r) /\ r \o <<>> = r
      BY <3>1, ConcatEmptySeq
    <3>4. QED
      BY <3>2, <3>3
  <2>4. QED
    BY <1>5, <1>14, <2>1, <2>2, <2>3
<1>15. CASE CrcFits(x, 1, n)
  <2>1. Round(<<x, f>>) = <<FromMark(SubSeq(x, n + 7, Len(x))), Append(f, SubSeq(x, 5, n + 4))>>
    BY <1>12, <1>15
  <2>2. Round(<<w, f>>)
          = <<FromMark(SubSeq(x, n + 7, Len(x)) \o d), Append(f, SubSeq(x, 5, n + 4))>>
    BY <1>7, <1>8, <1>9, <1>13, <1>15
  <2>3. /\ FromMark(Round(<<x, f>>)[1]) = Round(<<x, f>>)[1]
        /\ Round(<<FromMark(w), f>>)
             = <<FromMark(Round(<<x, f>>)[1] \o d), Round(<<x, f>>)[2]>>
    BY <1>11, <1>14, <2>1, <2>2
  <2>4. QED
    BY <2>3 DEF w
<1>16. CASE ~CrcFits(x, 1, n)
  <2>1. Round(<<x, f>>) = <<FromMark(AfterBad(x)), f>>
    BY <1>12, <1>16
  <2>2. Round(<<w, f>>) = <<FromMark(AfterBad(x) \o d), f>>
    BY <1>7, <1>10, <1>13, <1>16
  <2>3. /\ FromMark(Round(<<x, f>>)[1]) = Round(<<x, f>>)[1]
        /\ Round(<<FromMark(w), f>>)
             = <<FromMark(Round(<<x, f>>)[1] \o d), Round(<<x, f>>)[2]>>
    BY <1>11, <1>14, <2>1, <2>2
  <2>4. QED
    BY <2>3 DEF w
<1>17. QED
  BY <1>15, <1>16 DEF w

\* The packets found before do not matter to a round.
LEMMA RoundMore ==
  ASSUME NEW b \in Seq(Byte), NEW f \in Seq(Seq(Byte)), NEW g \in Seq(Seq(Byte))
  PROVE  Round(<<b, f \o g>>) = <<Round(<<b, g>>)[1], f \o Round(<<b, g>>)[2]>>
<1>1. f \o g \in Seq(Seq(Byte))
  BY ConcatProperties
<1>2. CASE ~Enough(b)
  BY <1>2 DEF Round
<1>3. CASE Enough(b)
  <2> DEFINE n == U16(b, 3)
             x == SubSeq(b, 5, n + 4)
  <2>1. \A h : Round(<<b, h>>) = IF CrcFits(b, 1, n)
          THEN <<FromMark(SubSeq(b, n + 7, Len(b))), Append(h, x)>>
          ELSE <<FromMark(AfterBad(b)), h>>
    BY <1>3 DEF Round
  <2>2. CASE CrcFits(b, 1, n)
    <3>1. x \in Seq(Byte)
      <4>1. \/ Round(<<b, g>>) = <<b, g>> /\ ~Enough(b)
            \/ \E m \in Nat : m = n /\ SubSeq(b, 5, m + 4) \in Seq(Byte)
            \/ ~CrcFits(b, 1, n)
        BY RoundType
      <4>2. QED
        BY <1>3, <2>2, <4>1
    <3> HIDE DEF x
    <3>2. Append(f \o g, x) = f \o Append(g, x)
      <4>1. Append(g, x) = g \o <<x>> /\ Append(f \o g, x) = (f \o g) \o <<x>>
        BY <1>1, <3>1, AppendIsConcat
      <4>2. <<x>> \in Seq(Seq(Byte))
        BY <3>1
      <4>3. QED
        BY SMTT(30), <4>1, <4>2, Regroup
    <3>3. Round(<<b, g>>) = <<FromMark(SubSeq(b, n + 7, Len(b))), Append(g, x)>>
      BY <2>1, <2>2
    <3>4. Round(<<b, f \o g>>) = <<FromMark(SubSeq(b, n + 7, Len(b))), Append(f \o g, x)>>
      BY <2>1, <2>2
    <3>5. Round(<<b, g>>)[1] = FromMark(SubSeq(b, n + 7, Len(b))) /\ Round(<<b, g>>)[2] = Append(g, x)
      <4>1. PICK y : y = FromMark(SubSeq(b, n + 7, Len(b)))
        OBVIOUS
      <4>2. PICK h : h = Append(g, x)
        OBVIOUS
      <4>3. Round(<<b, g>>) = <<y, h>>
        BY <3>3, <4>1, <4>2
      <4>4. Round(<<b, g>>)[1] = y /\ Round(<<b, g>>)[2] = h
        BY <4>3
      <4>5. QED
        BY <4>1, <4>2, <4>4
    <3>6. QED
      BY <3>2, <3>4, <3>5
  <2>3. CASE ~CrcFits(b, 1, n)
    <3>1. Round(<<b, g>>) = <<FromMark(AfterBad(b)), g>>
      BY <2>1, <2>3
    <3>2. Round(<<b, f \o g>>) = <<FromMark(AfterBad(b)), f \o g>>
      BY <2>1, <2>3
    <3>3. Round(<<b, g>>)[1] = FromMark(AfterBad(b)) /\ Round(<<b, g>>)[2] = g
      BY <3>1
    <3>4. QED
      BY <3>2, <3>3
  <2>4. QED
    BY <2>2, <2>3
<1>4. QED
  BY <1>2, <1>3

\* z is where the loop ends that begins with p.
Settles(p, z) ==
  /\ ~Enough(z[1])
  /\ \E n \in Nat : \E r \in [0 .. n -> Work] :
       r[0] = p /\ r[n] = z /\ \A k \in 1 .. n : r[k] = Round(r[k - 1])

LEMMA SettlesBack ==
  ASSUME NEW p \in Work, NEW z, Settles(Round(p), z)
  PROVE  Settles(p, z)
<1>1. PICK n \in Nat : \E r \in [0 .. n -> Work] :
         r[0] = Round(p) /\ r[n] = z /\ \A k \in 1 .. n : r[k] = Round(r[k - 1])
  BY DEF Settles
<1>2. PICK r \in [0 .. n -> Work] :
         r[0] = Round(p) /\ r[n] = z /\ \A k \in 1 .. n : r[k] = Round(r[k - 1])
  BY <1>1
<1> DEFINE q == [k \in 0 .. n + 1 |-> IF k = 0 THEN p ELSE r[k - 1]]
<1>3. q \in [0 .. n + 1 -> Work]
  OBVIOUS
<1>4. q[0] = p /\ q[n + 1] = z
  BY <1>2
<1>5. ASSUME NEW k \in 1 .. n + 1 PROVE q[k] = Round(q[k - 1])
  <2>1. CASE k = 1
    BY <1>2, <2>1
  <2>2. CASE k # 1
    <3>1. k - 1 \in 1 .. n /\ k - 1 \in 0 .. n + 1 /\ k - 1 # 0 /\ k # 0 /\ k \in 0 .. n + 1
      BY <2>2
    <3>2. q[k] = r[k - 1] /\ q[k - 1] = r[(k - 1) - 1]
      BY <3>1
    <3> HIDE DEF q
    <3>3. QED
      BY <1>2, <3>1, <3>2
  <2>3. QED
    BY <2>1, <2>2
<1> HIDE DEF q
<1>6. n + 1 \in Nat /\ ~Enough(z[1])
  BY DEF Settles
<1>7. QED
  BY <1>3, <1>4, <1>5, <1>6 DEF Settles

\* A shorter run of the loop to its end is as good as a longer one.
LEMMA SettlesBy ==
  ASSUME NEW n \in Nat, NEW m \in Nat, n <= m,
         NEW r \in [0 .. n -> Work], NEW s \in [0 .. m -> Work],
         r[0] = s[0], ~Enough(r[n][1]),
         \A k \in 1 .. n : r[k] = Round(r[k - 1]),
         \A k \in 1 .. m : s[k] = Round(s[k - 1])
  PROVE  r[n] = s[m]
<1> DEFINE S == {k \in Nat : k <= m => s[k] = IF k <= n THEN r[k] ELSE r[n]}
<1>1. 0 \in S
  OBVIOUS
<1>2. ASSUME NEW k \in Nat, k \in S PROVE k + 1 \in S
  <2> SUFFICES ASSUME k + 1 <= m PROVE s[k + 1] = IF k + 1 <= n THEN r[k + 1] ELSE r[n]
    OBVIOUS
  <2>1. s[k + 1] = Round(s[k]) /\ s[k] = IF k <= n THEN r[k] ELSE r[n]
    <3>1. k + 1 \in 1 .. m /\ (k + 1) - 1 = k /\ k <= m
      OBVIOUS
    <3>2. s[k] = IF k <= n THEN r[k] ELSE r[n]
      BY <1>2, <3>1
    <3>3. QED
      BY <3>1, <3>2
  <2>2. CASE k + 1 <= n
    <3>1. k + 1 \in 1 .. n /\ (k + 1) - 1 = k /\ k <= n
      BY <2>2
    <3>2. r[k + 1] = Round(r[k])
      BY <3>1
    <3>3. QED
      BY <2>1, <2>2, <3>1, <3>2
  <2>3. CASE ~(k + 1 <= n)
    <3>1. s[k] = r[n]
      <4>1. k = n \/ ~(k <= n)
        BY <2>3
      <4>2. QED
        BY <2>1, <4>1
    <3>2. Round(r[n]) = r[n]
      <4>1. r[n] \in Work
        OBVIOUS
      <4>2. QED
        BY <4>1, RoundIn
    <3>3. QED
      BY <2>1, <2>3, <3>1, <3>2
  <2>4. QED
    BY <2>2, <2>3
<1> HIDE DEF S
<1>3. Nat \subseteq S
  BY <1>1, <1>2, Induction
<1>4. QED
  BY <1>3 DEF S

LEMMA SettlesOnce ==
  ASSUME NEW p, NEW z, NEW w, Settles(p, z), Settles(p, w)
  PROVE  z = w
<1>1. PICK n \in Nat : \E r \in [0 .. n -> Work] :
         r[0] = p /\ r[n] = z /\ \A k \in 1 .. n : r[k] = Round(r[k - 1])
  BY DEF Settles
<1>2. PICK r \in [0 .. n -> Work] :
         r[0] = p /\ r[n] = z /\ \A k \in 1 .. n : r[k] = Round(r[k - 1])
  BY <1>1
<1>3. PICK m \in Nat : \E s \in [0 .. m -> Work] :
         s[0] = p /\ s[m] = w /\ \A k \in 1 .. m : s[k] = Round(s[k - 1])
  BY DEF Settles
<1>4. PICK s \in [0 .. m -> Work] :
         s[0] = p /\ s[m] = w /\ \A k \in 1 .. m : s[k] = Round(s[k - 1])
  BY <1>3
<1>5. ~Enough(r[n][1]) /\ ~Enough(s[m][1]) /\ r[0] = s[0]
  BY <1>2, <1>4 DEF Settles
<1>6. CASE n <= m
  <2>1. r[n] = s[m]
    BY <1>2, <1>4, <1>5, <1>6, SettlesBy
  <2>2. QED
    BY <1>2, <1>4, <2>1
<1>7. CASE m <= n
  <2>1. s[m] = r[n]
    BY <1>2, <1>4, <1>5, <1>7, SettlesBy
  <2>2. QED
    BY <1>2, <1>4, <2>1
<1>8. QED
  BY <1>6, <1>7

LEMMA SettlesHere ==
  ASSUME NEW p \in Work, ~Enough(p[1])
  PROVE  Settles(p, p)
<1> DEFINE r == [k \in 0 .. 0 |-> p]
<1>1. r \in [0 .. 0 -> Work] /\ r[0] = p /\ \A k \in 1 .. 0 : r[k] = Round(r[k - 1])
  OBVIOUS
<1> HIDE DEF r
<1>2. QED
  BY <1>1 DEF Settles

\* Rounds that are enough: each but the last takes two bytes or more.
LEMMA PacketsSettle ==
  ASSUME NEW b \in Seq(Byte)
  PROVE  Settles(<<b, <<>>>>, Packets(b))
<1>1. PICK r \in [0 .. Len(b) -> Work] :
        /\ r[0] = <<b, <<>>>> /\ Packets(b) = r[Len(b)]
        /\ \A k \in 1 .. Len(b) : r[k] = Round(r[k - 1])
  BY PacketsRun
<1>2. Len(b) \in Nat
  BY LenProperties
<1>3. \A k \in 0 .. Len(b) : r[k][1] \in Seq(Byte) /\ Len(r[k][1]) \in Nat
  BY LenProperties DEF Work
<1> DEFINE S == {k \in Nat : k <= Len(b) => ~Enough(r[k][1]) \/ Len(r[k][1]) + k <= Len(b)}
<1>4. 0 \in S
  <2>1. r[0][1] = b
    BY <1>1
  <2>2. QED
    BY <1>2, <2>1
<1>5. ASSUME NEW k \in Nat, k \in S PROVE k + 1 \in S
  <2> SUFFICES ASSUME k + 1 <= Len(b)
               PROVE  ~Enough(r[k + 1][1]) \/ Len(r[k + 1][1]) + (k + 1) <= Len(b)
    OBVIOUS
  <2>1. k \in 0 .. Len(b) /\ k + 1 \in 1 .. Len(b) /\ k + 1 \in 0 .. Len(b) /\ (k + 1) - 1 = k
    BY <1>2
  <2>2. r[k + 1] = Round(r[k]) /\ r[k] \in Work
    BY <1>1, <2>1
  <2>3. CASE ~Enough(r[k][1])
    <3>1. r[k + 1] = r[k]
      BY <2>2, <2>3, RoundIn
    <3>2. QED
      BY <2>3, <3>1
  <2>4. CASE Enough(r[k][1])
    <3>1. Len(r[k + 1][1]) <= Len(r[k][1]) - 2
      BY <2>2, <2>4, RoundIn
    <3>2. Len(r[k][1]) + k <= Len(b)
      BY <1>5, <2>1, <2>4
    <3>3. Len(r[k][1]) \in Nat /\ Len(r[k + 1][1]) \in Nat
      BY <1>3, <2>1
    <3>4. \A l, m \in Nat : l <= m - 2 /\ m + k <= Len(b) => l + (k + 1) <= Len(b)
      BY <1>2
    <3>5. QED
      BY <3>1, <3>2, <3>3, <3>4
  <2>5. QED
    BY <2>3, <2>4
<1> HIDE DEF S
<1>6. Nat \subseteq S
  BY <1>4, <1>5, Induction
<1>7. ~Enough(r[Len(b)][1])
  <2>1. ~Enough(r[Len(b)][1]) \/ Len(r[Len(b)][1]) + Len(b) <= Len(b)
    BY <1>2, <1>6 DEF S
  <2>2. Len(r[Len(b)][1]) \in Nat
    BY <1>2, <1>3
  <2>3. QED
    BY <1>2, <2>1, <2>2 DEF Enough
<1>8. QED
  BY <1>1, <1>2, <1>7 DEF Settles

LEMMA SettlesMore ==
  ASSUME NEW y \in Seq(Byte), NEW f \in Seq(Seq(Byte)), NEW e, NEW g,
         Settles(<<y, <<>>>>, <<e, g>>)
  PROVE  Settles(<<y, f>>, <<e, f \o g>>)
<1>1. PICK n \in Nat : \E r \in [0 .. n -> Work] :
        r[0] = <<y, <<>>>> /\ r[n] = <<e, g>> /\ \A k \in 1 .. n : r[k] = Round(r[k - 1])
  BY DEF Settles
<1>2. PICK r \in [0 .. n -> Work] :
        r[0] = <<y, <<>>>> /\ r[n] = <<e, g>> /\ \A k \in 1 .. n : r[k] = Round(r[k - 1])
  BY <1>1
<1> DEFINE s == [k \in 0 .. n |-> <<r[k][1], f \o r[k][2]>>]
<1>3. \A k \in 0 .. n : r[k] = <<r[k][1], r[k][2]>> /\ r[k][1] \in Seq(Byte) /\ r[k][2] \in Seq(Seq(Byte))
  BY DEF Work
<1>4. \A k \in 0 .. n : f \o r[k][2] \in Seq(Seq(Byte))
  BY <1>3, ConcatProperties
<1>5. s \in [0 .. n -> Work]
  BY <1>3, <1>4 DEF Work
<1>6. s[0] = <<y, f>>
  <2>1. r[0][1] = y /\ r[0][2] = <<>>
    BY <1>2
  <2>2. f \o <<>> = f
    BY ConcatEmptySeq
  <2>3. s[0] = <<r[0][1], f \o r[0][2]>>
    OBVIOUS
  <2>4. QED
    BY <2>1, <2>2, <2>3
<1>7. s[n] = <<e, f \o g>>
  <2>1. r[n][1] = e /\ r[n][2] = g
    BY <1>2
  <2>2. s[n] = <<r[n][1], f \o r[n][2]>>
    OBVIOUS
  <2>3. QED
    BY <2>1, <2>2
<1>8. ASSUME NEW k \in 1 .. n PROVE s[k] = Round(s[k - 1])
  <2>1. k - 1 \in 0 .. n /\ k \in 0 .. n
    OBVIOUS
  <2>2. s[k] = <<r[k][1], f \o r[k][2]>> /\ s[k - 1] = <<r[k - 1][1], f \o r[k - 1][2]>>
    BY <2>1
  <2>3. PICK b \in Seq(Byte), h \in Seq(Seq(Byte)) : r[k - 1] = <<b, h>> /\ b = r[k - 1][1] /\ h = r[k - 1][2]
    BY <1>3, <2>1
  <2>4. r[k] = Round(<<b, h>>)
    BY <1>2, <2>3
  <2>5. Round(<<b, f \o h>>) = <<Round(<<b, h>>)[1], f \o Round(<<b, h>>)[2]>>
    BY RoundMore
  <2> HIDE DEF s
  <2>6. QED
    BY <2>2, <2>3, <2>4, <2>5
<1> HIDE DEF s
<1>9. ~Enough(<<e, f \o g>>[1])
  <2>1. ~Enough(<<e, g>>[1])
    BY DEF Settles
  <2>2. <<e, g>>[1] = e /\ <<e, f \o g>>[1] = e
    OBVIOUS
  <2>3. QED
    BY <2>1, <2>2
<1>10. QED
  BY <1>5, <1>6, <1>7, <1>8, <1>9 DEF Settles

\* The loop over x and what follows it: first that over x.
LEMMA SettlesJoin ==
  ASSUME NEW x \in Seq(Byte), NEW f \in Seq(Seq(Byte)), NEW d \in Seq(Byte), FromMark(x) = x,
         NEW e, NEW g, NEW z,
         Settles(<<x, f>>, <<e, g>>), Settles(<<FromMark(e \o d), g>>, z)
  PROVE  Settles(<<FromMark(x \o d), f>>, z)
<1>1. PICK n \in Nat : \E r \in [0 .. n -> Work] :
        r[0] = <<x, f>> /\ r[n] = <<e, g>> /\ \A k \in 1 .. n : r[k] = Round(r[k - 1])
  BY DEF Settles
<1>2. PICK r \in [0 .. n -> Work] :
        r[0] = <<x, f>> /\ r[n] = <<e, g>> /\ \A k \in 1 .. n : r[k] = Round(r[k - 1])
  BY <1>1
<1> DEFINE P(p) == <<FromMark(p[1] \o d), p[2]>>
           S == {k \in Nat : k <= n =>
                   /\ FromMark(r[k][1]) = r[k][1]
                   /\ Settles(P(r[k]), z) => Settles(P(r[0]), z)}
<1>3. 0 \in S
  <2>1. r[0][1] = x
    BY <1>2
  <2>2. QED
    BY <2>1
<1>4. ASSUME NEW k \in Nat, k \in S PROVE k + 1 \in S
  <2> SUFFICES ASSUME k + 1 <= n
               PROVE  /\ FromMark(r[k + 1][1]) = r[k + 1][1]
                      /\ Settles(P(r[k + 1]), z) => Settles(P(r[0]), z)
    OBVIOUS
  <2>1. k \in 0 .. n /\ k + 1 \in 1 .. n /\ (k + 1) - 1 = k
    OBVIOUS
  <2>2. r[k + 1] = Round(r[k]) /\ r[k] \in Work
    BY <1>2, <2>1
  <2>3. FromMark(r[k][1]) = r[k][1] /\ (Settles(P(r[k]), z) => Settles(P(r[0]), z))
    BY <1>4, <2>1
  <2>4. CASE ~Enough(r[k][1])
    <3>1. r[k + 1] = r[k]
      BY <2>2, <2>4, RoundIn
    <3>2. QED
      BY <2>3, <3>1
  <2>5. CASE Enough(r[k][1])
    <3>1. PICK b \in Seq(Byte), h \in Seq(Seq(Byte)) : r[k] = <<b, h>> /\ r[k][1] = b /\ r[k][2] = h
      BY <2>2 DEF Work
    <3>2. /\ FromMark(Round(<<b, h>>)[1]) = Round(<<b, h>>)[1]
          /\ Round(<<FromMark(b \o d), h>>)
               = <<FromMark(Round(<<b, h>>)[1] \o d), Round(<<b, h>>)[2]>>
      BY <2>3, <2>5, <3>1, RoundJoin
    <3>3. Round(P(r[k])) = P(r[k + 1])
      BY <2>2, <3>1, <3>2
    <3>4. P(r[k]) \in Work
      <4>1. b \o d \in Seq(Byte)
        BY ConcatProperties
      <4>2. FromMark(b \o d) \in Seq(Byte)
        BY <4>1, FromMarkSeq
      <4>3. QED
        BY <3>1, <4>2 DEF Work
    <3> HIDE DEF P
    <3>5. Settles(P(r[k + 1]), z) => Settles(P(r[k]), z)
      BY <3>3, <3>4, SettlesBack
    <3>6. FromMark(r[k + 1][1]) = r[k + 1][1]
      BY <2>2, <3>1, <3>2
    <3>7. QED
      BY <2>3, <3>5, <3>6
  <2>6. QED
    BY <2>4, <2>5
<1> HIDE DEF S
<1>5. Nat \subseteq S
  BY <1>3, <1>4, Induction
<1>6. Settles(P(r[n]), z) => Settles(P(r[0]), z)
  <2> HIDE DEF P
  <2>1. n \in S /\ n <= n
    BY <1>5
  <2>2. QED
    BY <2>1 DEF S
<1>7. P(r[n]) = <<FromMark(e \o d), g>> /\ P(r[0]) = <<FromMark(x \o d), f>>
  <2>1. r[n][1] = e /\ r[n][2] = g /\ r[0][1] = x /\ r[0][2] = f
    BY <1>2
  <2>2. QED
    BY <2>1
<1> HIDE DEF P
<1>8. QED
  BY <1>6, <1>7

----------------------------------------------------------------------------
(* What the loop makes of some bytes, and of more behind them *)

LEMMA WorkPair ==
  ASSUME NEW b \in Seq(Byte)
  PROVE  <<b, <<>>>> \in Work
<1>1. <<>> \in Seq(Seq(Byte))
  OBVIOUS
<1>2. QED
  BY <1>1 DEF Work

LEMMA WorkParts ==
  ASSUME NEW p \in Work
  PROVE  \E e \in Seq(Byte), g \in Seq(Seq(Byte)) : p = <<e, g>> /\ p[1] = e /\ p[2] = g
BY DEF Work

LEMMA FromMarkTwice ==
  ASSUME NEW b \in Seq(Byte)
  PROVE  FromMark(FromMark(b)) = FromMark(b)
<1>1. <<>> \in Seq(Byte) /\ FromMark(b) \in Seq(Byte)
  BY FromMarkSeq
<1>2. FromMark(FromMark(b) \o <<>>) = FromMark(b \o <<>>)
  BY <1>1, FromMarkJoin
<1>3. FromMark(b) \o <<>> = FromMark(b) /\ b \o <<>> = b
  BY <1>1, ConcatEmptySeq
<1>4. QED
  BY <1>2, <1>3

\* The loop ends with something removeUntilFindHead leaves as it is.
LEMMA SettlesMarked ==
  ASSUME NEW p \in Work, NEW z, Settles(p, z), FromMark(p[1]) = p[1]
  PROVE  z \in Work /\ FromMark(z[1]) = z[1]
<1>1. PICK n \in Nat : \E r \in [0 .. n -> Work] :
        r[0] = p /\ r[n] = z /\ \A k \in 1 .. n : r[k] = Round(r[k - 1])
  BY DEF Settles
<1>2. PICK r \in [0 .. n -> Work] :
        r[0] = p /\ r[n] = z /\ \A k \in 1 .. n : r[k] = Round(r[k - 1])
  BY <1>1
<1> DEFINE S == {k \in Nat : k <= n => FromMark(r[k][1]) = r[k][1]}
<1>3. 0 \in S
  BY <1>2
<1>4. ASSUME NEW k \in Nat, k \in S PROVE k + 1 \in S
  <2> SUFFICES ASSUME k + 1 <= n PROVE FromMark(r[k + 1][1]) = r[k + 1][1]
    OBVIOUS
  <2>1. k \in 0 .. n /\ k + 1 \in 1 .. n /\ (k + 1) - 1 = k
    OBVIOUS
  <2>2. r[k + 1] = Round(r[k]) /\ r[k] \in Work
    BY <1>2, <2>1
  <2>3. FromMark(r[k][1]) = r[k][1]
    BY <1>4, <2>1
  <2>4. CASE ~Enough(r[k][1])
    <3>1. r[k + 1] = r[k]
      BY <2>2, <2>4, RoundIn
    <3>2. QED
      BY <2>3, <3>1
  <2>5. CASE Enough(r[k][1])
    <3>1. PICK b \in Seq(Byte), h \in Seq(Seq(Byte)) : r[k] = <<b, h>> /\ r[k][1] = b /\ r[k][2] = h
      BY <2>2 DEF Work
    <3>2. <<>> \in Seq(Byte)
      OBVIOUS
    <3>3. FromMark(Round(<<b, h>>)[1]) = Round(<<b, h>>)[1]
      BY <2>3, <2>5, <3>1, <3>2, RoundJoin
    <3>4. QED
      BY <2>2, <3>1, <3>3
  <2>6. QED
    BY <2>4, <2>5
<1> HIDE DEF S
<1>5. Nat \subseteq S
  BY <1>3, <1>4, Induction
<1>6. n \in S
  BY <1>5
<1>7. QED
  BY <1>2, <1>6 DEF S

\* What the loop makes of some bytes, fewer than four included
Read(b) == Packets(FromMark(b))

LEMMA ReadType ==
  ASSUME NEW b \in Seq(Byte)
  PROVE  /\ Settles(<<FromMark(b), <<>>>>, Read(b))
         /\ Read(b) \in Work
         /\ FromMark(Read(b)[1]) = Read(b)[1] /\ ~Enough(Read(b)[1])
<1>1. FromMark(b) \in Seq(Byte)
  BY FromMarkSeq
<1>2. Settles(<<FromMark(b), <<>>>>, Read(b))
  BY <1>1, PacketsSettle DEF Read
<1>3. <<FromMark(b), <<>>>> \in Work
  BY <1>1, WorkPair
<1>4. FromMark(<<FromMark(b), <<>>>>[1]) = <<FromMark(b), <<>>>>[1]
  BY FromMarkTwice
<1>5. Read(b) \in Work /\ FromMark(Read(b)[1]) = Read(b)[1]
  BY <1>2, <1>3, <1>4, SettlesMarked
<1>6. QED
  BY <1>2, <1>5 DEF Settles

\* The loop has ended when it ends.
LEMMA ReadDone ==
  ASSUME NEW b \in Seq(Byte), ~Enough(FromMark(b))
  PROVE  Read(b) = <<FromMark(b), <<>>>>
<1> DEFINE p == <<FromMark(b), <<>>>>
<1>1. p \in Work /\ p[1] = FromMark(b)
  BY FromMarkSeq, WorkPair
<1>2. Settles(p, p)
  BY <1>1, SettlesHere
<1>3. Settles(p, Read(b))
  BY ReadType
<1> HIDE DEF p
<1>4. p = Read(b)
  BY <1>2, <1>3, SettlesOnce
<1>5. QED
  BY <1>4 DEF p

LEMMA ReadSame ==
  ASSUME NEW b \in Seq(Byte), NEW d \in Seq(Byte)
  PROVE  Read(FromMark(b) \o d) = Read(b \o d)
BY FromMarkJoin DEF Read

LEMMA ReadJoin ==
  ASSUME NEW b \in Seq(Byte), NEW d \in Seq(Byte)
  PROVE  Read(b \o d) = <<Read(Read(b)[1] \o d)[1], Read(b)[2] \o Read(Read(b)[1] \o d)[2]>>
<1> DEFINE x == FromMark(b)
<1>1. PICK e \in Seq(Byte), g \in Seq(Seq(Byte)) : Read(b) = <<e, g>> /\ Read(b)[1] = e /\ Read(b)[2] = g
  BY ReadType, WorkParts
<1>2. x \in Seq(Byte) /\ FromMark(x) = x /\ Settles(<<x, <<>>>>, <<e, g>>)
  BY <1>1, FromMarkSeq, FromMarkTwice, ReadType
<1>3. e \o d \in Seq(Byte) /\ b \o d \in Seq(Byte)
  BY ConcatProperties
<1>4. PICK e2 \in Seq(Byte), g2 \in Seq(Seq(Byte)) :
         Read(e \o d) = <<e2, g2>> /\ Read(e \o d)[1] = e2 /\ Read(e \o d)[2] = g2
  BY <1>3, ReadType, WorkParts
<1>5. Settles(<<FromMark(e \o d), <<>>>>, <<e2, g2>>)
  BY <1>3, <1>4, ReadType
<1>6. FromMark(e \o d) \in Seq(Byte)
  BY <1>3, FromMarkSeq
<1>7. Settles(<<FromMark(e \o d), g>>, <<e2, g \o g2>>)
  BY <1>5, <1>6, SettlesMore
<1>8. FromMark(x \o d) = FromMark(b \o d)
  BY FromMarkJoin
<1> HIDE DEF x
<1>9. <<>> \in Seq(Seq(Byte))
  OBVIOUS
<1>10. Settles(<<FromMark(x \o d), <<>>>>, <<e2, g \o g2>>)
  BY <1>2, <1>7, <1>9, SettlesJoin
<1>11. Settles(<<FromMark(b \o d), <<>>>>, Read(b \o d))
  BY <1>3, ReadType
<1>12. Read(b \o d) = <<e2, g \o g2>>
  BY <1>8, <1>10, <1>11, SettlesOnce
<1>13. QED
  BY <1>1, <1>4, <1>12

\* on_readReady keeps up to three bytes that the loop would have shortened to two.
LEMMA ParsedRead ==
  ASSUME NEW b \in Seq(Byte)
  PROVE  /\ Parsed(b) \in Work
         /\ Parsed(b)[2] = Read(b)[2] /\ FromMark(Parsed(b)[1]) = Read(b)[1]
<1>1. Len(b) \in Nat
  BY LenProperties
<1>2. CASE Len(b) < 4
  <2>1. Parsed(b) = <<b, <<>>>>
    BY <1>2 DEF Parsed
  <2>2. ~Enough(FromMark(b))
    <3>1. Len(FromMark(b)) <= Len(b) /\ Len(FromMark(b)) \in Nat
      BY FromMarkSeq
    <3>2. QED
      BY <1>1, <1>2, <3>1 DEF Enough
  <2>3. Read(b) = <<FromMark(b), <<>>>>
    BY <2>2, ReadDone
  <2>4. Parsed(b) \in Work
    BY <2>1, WorkPair
  <2>5. Parsed(b)[2] = <<>> /\ Parsed(b)[1] = b
    BY <2>1
  <2>6. Read(b)[2] = <<>> /\ Read(b)[1] = FromMark(b)
    BY <2>3
  <2>7. QED
    BY <2>4, <2>5, <2>6
<1>3. CASE ~(Len(b) < 4)
  <2>1. Parsed(b) = Read(b)
    BY <1>3 DEF Parsed, Read
  <2>2. QED
    BY <2>1, ReadType
<1>4. QED
  BY <1>2, <1>3

\* Wherever the reads of on_readReady cut the stream, the packets found in all are
\* those of one read of the whole of it, and what is left behind them is treated
\* alike, for any bytes whatever.
THEOREM ReadsAddUp == \A b, d \in Seq(Byte) : CutAlike(b, d)
<1> SUFFICES ASSUME NEW b \in Seq(Byte), NEW d \in Seq(Byte) PROVE CutAlike(b, d)
  OBVIOUS
<1>1. PICK e \in Seq(Byte), g \in Seq(Seq(Byte)) :
         Parsed(b)[1] = e /\ Parsed(b)[2] = g /\ Read(b)[2] = g /\ FromMark(e) = Read(b)[1]
  BY ParsedRead, WorkParts
<1>2. e \o d \in Seq(Byte) /\ b \o d \in Seq(Byte)
  BY ConcatProperties
<1>3. Read(e \o d) = Read(Read(b)[1] \o d)
  BY <1>1, ReadSame
<1>4. Read(b \o d) = <<Read(e \o d)[1], g \o Read(e \o d)[2]>>
  BY <1>1, <1>3, ReadJoin
<1>5. Read(b \o d)[1] = Read(e \o d)[1] /\ Read(b \o d)[2] = g \o Read(e \o d)[2]
  BY SMTT(30), <1>4
<1>6. /\ Parsed(e \o d)[2] = Read(e \o d)[2] /\ FromMark(Parsed(e \o d)[1]) = Read(e \o d)[1]
      /\ Parsed(b \o d)[2] = Read(b \o d)[2] /\ FromMark(Parsed(b \o d)[1]) = Read(b \o d)[1]
  BY <1>2, ParsedRead
<1>7. QED
  BY <1>1, <1>5, <1>6 DEF CutAlike

----------------------------------------------------------------------------
(* What is left of damaged replies *)

LEMMA QuietType ==
  ASSUME NEW h \in Seq(Byte)
  PROVE  Quiet(h) <=> \A i \in 1 .. Len(h) : h[i] # 85
BY LenProperties DEF Quiet, Range

LEMMA QuietEnd ==
  ASSUME NEW x \in Seq(Byte), \A j \in 1 .. Len(x) : x[j] = 85 => j <= Len(x) - 2,
         \A j \in Nat : 1 <= j /\ j <= Len(x) - 2 => ~MarkAt(x, j)
  PROVE  Quiet(FromMark(x)) /\ ~Enough(FromMark(x))
<1>1. Len(x) \in Nat
  BY LenProperties
<1>2. PICK i \in 1 .. Len(x) + 1 :
           /\ FromMark(x) = SubSeq(x, i, Len(x))
           /\ Marked(x) # {} => i \in Marked(x) /\ \A j \in Marked(x) : i <= j
           /\ Marked(x) = {} => i = IF Len(x) > 2 THEN Len(x) - 1 ELSE 1
  BY FromMarkType
<1>3. Marked(x) = {}
  BY <1>1 DEF Marked
<1>4. i = IF Len(x) > 2 THEN Len(x) - 1 ELSE 1
  BY <1>2, <1>3
<1>5. /\ FromMark(x) \in Seq(Byte) /\ Len(FromMark(x)) = Len(x) + 1 - i
      /\ \A k \in 1 .. Len(x) + 1 - i : FromMark(x)[k] = x[i + k - 1]
  <2>1. i \in Nat /\ 1 <= i /\ Len(x) <= Len(x) /\ i <= Len(x) + 1
    BY <1>1
  <2>2. QED
    BY <1>1, <1>2, <2>1, Piece
<1>6. ASSUME NEW k \in 1 .. Len(FromMark(x)) PROVE FromMark(x)[k] # 85
  <2>1. i + k - 1 \in 1 .. Len(x) /\ ~(i + k - 1 <= Len(x) - 2) /\ k \in 1 .. Len(x) + 1 - i
    BY <1>1, <1>4, <1>5
  <2>2. QED
    BY <1>5, <2>1
<1>7. Len(FromMark(x)) <= 2
  BY <1>1, <1>4, <1>5
<1>8. ~Enough(FromMark(x))
  BY <1>1, <1>5, <1>7 DEF Enough
<1>9. QED
  BY <1>5, <1>6, <1>8, QuietType

LEMMA QuietFront ==
  ASSUME NEW h \in Seq(Byte), NEW w \in Seq(Byte), Quiet(h), 2 <= Len(w),
         Len(h) > 0 /\ w[1] = 85 => h[Len(h)] # 170
  PROVE  FromMark(h \o w) = FromMark(w)
<1> DEFINE u == h \o w
           i == Len(h) + 1
<1>1. /\ Len(h) \in Nat /\ Len(w) \in Nat /\ u \in Seq(Byte) /\ Len(u) = Len(h) + Len(w)
      /\ \A k \in 1 .. Len(h) : u[k] = h[k]
      /\ \A k \in 1 .. Len(w) : u[Len(h) + k] = w[k]
  BY Joined, LenProperties
<1>2. SubSeq(u, i, Len(u)) = w
  <2>1. i \in 1 .. Len(h) + 1
    BY <1>1
  <2>2. SubSeq(u, i, Len(u)) = SubSeq(h, i, Len(h)) \o w
    BY <2>1, TailJoined
  <2>3. SubSeq(h, i, Len(h)) \in Seq(Byte) /\ Len(SubSeq(h, i, Len(h))) = 0
    BY <1>1, <2>1, Halved
  <2>4. SubSeq(h, i, Len(h)) = <<>>
    BY <2>3, EmptySeq
  <2>5. QED
    BY <2>2, <2>4, ConcatEmptySeq
<1> HIDE DEF u
<1>3. ASSUME NEW j \in Marked(u), j <= Len(h) PROVE FALSE
  <2>1. j \in Nat /\ 1 <= j /\ j <= Len(u) - 2 /\ u[j] = 170 /\ u[j + 1] = 85
    BY <1>1 DEF Marked, MarkAt
  <2>2. \A k \in 1 .. Len(h) : h[k] # 85
    BY QuietType
  <2>3. CASE j < Len(h)
    <3>1. j + 1 \in 1 .. Len(h)
      BY <1>1, <2>1, <2>3
    <3>2. u[j + 1] = h[j + 1] /\ h[j + 1] # 85
      BY <1>1, <2>2, <3>1
    <3>3. QED
      BY <2>1, <3>2
  <2>4. CASE j = Len(h)
    <3>1. u[Len(h) + 1] = w[1] /\ u[Len(h)] = h[Len(h)] /\ Len(h) > 0
      <4>1. Len(h) \in 1 .. Len(h) /\ 1 \in 1 .. Len(w)
        BY <1>1, <2>1, <2>4
      <4>2. QED
        BY <1>1, <4>1
    <3>2. QED
      BY <2>1, <2>4, <3>1
  <2>5. QED
    BY <1>1, <1>3, <2>1, <2>3, <2>4
<1>4. \A j \in Marked(u) : i <= j
  <2> SUFFICES ASSUME NEW j \in Marked(u) PROVE i <= j
    OBVIOUS
  <2>1. j \in Nat
    BY <1>1 DEF Marked
  <2>2. QED
    BY <1>1, <1>3, <2>1
<1>5. i \in 1 .. Len(u) + 1 /\ (i = 1 \/ i + 1 <= Len(u))
  BY <1>1
<1> HIDE DEF i
<1>6. FromMark(SubSeq(u, i, Len(u))) = FromMark(u)
  BY <1>1, <1>4, <1>5, FromMarkLater
<1>7. QED
  BY <1>2, <1>6 DEF u

\* A loop of one round
LEMMA ReadBy ==
  ASSUME NEW b \in Seq(Byte), NEW x \in Seq(Byte), NEW y \in Seq(Byte), NEW g \in Seq(Seq(Byte)),
         FromMark(b) = x, Round(<<x, <<>>>>) = <<y, g>>, ~Enough(y)
  PROVE  Read(b) = <<y, g>>
<1>1. <<x, <<>>>> \in Work /\ <<y, g>> \in Work
  BY WorkPair DEF Work
<1>2. Settles(<<y, g>>, <<y, g>>)
  <2>1. <<y, g>>[1] = y
    OBVIOUS
  <2>2. QED
    BY <1>1, <2>1, SettlesHere
<1>3. Settles(<<x, <<>>>>, <<y, g>>)
  BY <1>1, <1>2, SettlesBack
<1>4. Settles(<<x, <<>>>>, Read(b))
  BY ReadType
<1>5. QED
  BY <1>3, <1>4, SettlesOnce

\* Or the rest of a loop after a round without a packet
LEMMA ReadOn ==
  ASSUME NEW b \in Seq(Byte), NEW c \in Seq(Byte),
         Round(<<FromMark(b), <<>>>>) = <<FromMark(c), <<>>>>
  PROVE  Read(b) = Read(c)
<1>1. <<FromMark(b), <<>>>> \in Work
  BY FromMarkSeq, WorkPair
<1>2. Settles(<<FromMark(c), <<>>>>, Read(c))
  BY ReadType
<1>3. Settles(<<FromMark(b), <<>>>>, Read(c))
  BY <1>1, <1>2, SettlesBack
<1>4. Settles(<<FromMark(b), <<>>>>, Read(b))
  BY ReadType
<1>5. QED
  BY <1>3, <1>4, SettlesOnce

\* An undamaged reply: one packet and nothing left.
LEMMA FrameRead ==
  ASSUME NEW a \in Messages
  PROVE  FromMark(Frame(a)) = Frame(a) /\ Read(Frame(a)) = <<None, <<Coded(a)>>>>
<1> DEFINE f == Frame(a)
           n == Len(a)
<1>1. /\ a \in Seq(Byte) /\ n \in Nat /\ 2 <= n
      /\ HeadOf(a) \in Seq(Byte) /\ Len(HeadOf(a)) = 4 + n
      /\ HeadOf(a)[1] = 170 /\ HeadOf(a)[2] = 85 /\ U16(HeadOf(a), 3) = n
      /\ \A i \in 1 .. n : HeadOf(a)[4 + i] = Coded(a)[i]
      /\ Coded(a) \in Seq(Byte) /\ Len(Coded(a)) = n
  BY HeadType, CodedType
<1>2. /\ f \in Seq(Byte) /\ Len(f) = 6 + n
      /\ \A i \in 1 .. 4 + n : f[i] = HeadOf(a)[i]
      /\ CRC(HeadOf(a)) = <<f[5 + n], f[6 + n]>>
  BY FrameType
<1> HIDE DEF f, n
<1>3. f[1] = 170 /\ f[2] = 85 /\ U16(f, 3) = n
  <2>1. 1 \in 1 .. 4 + n /\ 2 \in 1 .. 4 + n /\ 3 \in 1 .. 4 + n /\ 3 + 1 \in 1 .. 4 + n
    BY <1>1
  <2>2. QED
    BY <1>1, <1>2, <2>1 DEF U16
<1>4. FromMark(f) = f
  <2>1. Len(f) > 2 /\ MarkAt(f, 1)
    BY <1>1, <1>2, <1>3 DEF MarkAt
  <2>2. QED
    BY <1>2, <2>1, MarkFirst
<1>5. Enough(f)
  BY <1>1, <1>2, <1>3 DEF Enough
<1>6. SubSeq(f, 1, 1 + 3 + n) = HeadOf(a)
  <2>1. 1 + 3 + n \in Nat /\ 1 + 3 + n <= Len(f)
    BY <1>1, <1>2
  <2>2. /\ SubSeq(f, 1, 1 + 3 + n) \in Seq(Byte) /\ Len(SubSeq(f, 1, 1 + 3 + n)) = (1 + 3 + n) + 1 - 1
        /\ \A k \in 1 .. (1 + 3 + n) + 1 - 1 : SubSeq(f, 1, 1 + 3 + n)[k] = f[1 + k - 1]
    BY <1>1, <1>2, <2>1, Piece
  <2>3. Len(SubSeq(f, 1, 1 + 3 + n)) = 4 + n
    BY <1>1, <2>2
  <2>4. \A k \in 1 .. 4 + n : SubSeq(f, 1, 1 + 3 + n)[k] = HeadOf(a)[k]
    <3>1. \A k \in 1 .. 4 + n : k \in 1 .. (1 + 3 + n) + 1 - 1 /\ 1 + k - 1 = k
      BY <1>1
    <3>2. QED
      BY <1>2, <2>2, <3>1
  <2>5. QED
    BY <1>1, <2>2, <2>3, <2>4, SameSeq
<1>7. CrcFits(f, 1, n)
  <2>1. 1 + 4 + n = 5 + n /\ 1 + 5 + n = 6 + n
    BY <1>1
  <2>2. QED
    BY <1>2, <1>6, <2>1 DEF CrcFits
<1>8. SubSeq(f, 5, n + 4) = Coded(a)
  <2>1. n + 4 \in Nat /\ n + 4 <= Len(f) /\ 5 <= (n + 4) + 1
    BY <1>1, <1>2
  <2>2. /\ SubSeq(f, 5, n + 4) \in Seq(Byte) /\ Len(SubSeq(f, 5, n + 4)) = (n + 4) + 1 - 5
        /\ \A k \in 1 .. (n + 4) + 1 - 5 : SubSeq(f, 5, n + 4)[k] = f[5 + k - 1]
    BY <1>2, <2>1, Piece
  <2>3. Len(SubSeq(f, 5, n + 4)) = n
    BY <1>1, <2>2
  <2>4. \A k \in 1 .. n : SubSeq(f, 5, n + 4)[k] = Coded(a)[k]
    <3>1. \A k \in 1 .. n : k \in 1 .. (n + 4) + 1 - 5 /\ 5 + k - 1 = 4 + k /\ 4 + k \in 1 .. 4 + n
      BY <1>1
    <3>2. QED
      BY <1>1, <1>2, <2>2, <3>1
  <2>5. QED
    BY <1>1, <2>2, <2>3, <2>4, SameSeq
<1>9. SubSeq(f, n + 7, Len(f)) = <<>>
  <2>1. n + 7 \in 1 .. Len(f) + 1
    BY <1>1, <1>2
  <2>2. SubSeq(f, n + 7, Len(f)) \in Seq(Byte) /\ Len(SubSeq(f, n + 7, Len(f))) = Len(f) + 1 - (n + 7)
    BY <1>2, <2>1, Halved
  <2>3. Len(SubSeq(f, n + 7, Len(f))) = 0
    BY <1>1, <1>2, <2>2
  <2>4. QED
    BY <2>2, <2>3, EmptySeq
<1>10. FromMark(<<>>) = <<>>
  <2>1. <<>> \in Seq(Byte) /\ Len(<<>>) = 0
    OBVIOUS
  <2>2. FromMark(<<>>) \in Seq(Byte) /\ Len(FromMark(<<>>)) <= 0 /\ Len(FromMark(<<>>)) \in Nat
    BY <2>1, FromMarkSeq
  <2>3. Len(FromMark(<<>>)) = 0
    BY <2>2
  <2>4. QED
    BY <2>2, <2>3, EmptySeq
<1>11. Round(<<f, <<>>>>) = <<FromMark(SubSeq(f, n + 7, Len(f))), Append(<<>>, SubSeq(f, 5, n + 4))>>
  BY <1>3, <1>5, <1>7 DEF Round
<1>12. Round(<<f, <<>>>>) = << <<>>, <<Coded(a)>> >>
  <2>1. Append(<<>>, Coded(a)) = <<Coded(a)>>
    OBVIOUS
  <2>2. QED
    BY <1>8, <1>9, <1>10, <1>11, <2>1
<1>13. << Coded(a) >> \in Seq(Seq(Byte)) /\ <<>> \in Seq(Byte) /\ ~Enough(<<>>)
  <2>1. ~Enough(<<>>)
    BY DEF Enough
  <2>2. QED
    BY <1>1, <2>1
<1>14. Read(f) = << <<>>, <<Coded(a)>> >>
  BY <1>2, <1>4, <1>12, <1>13, ReadBy
<1>15. QED
  BY <1>4, <1>14 DEF f, None

LEMMA LineParts ==
  ASSUME NEW f \in Seq(Byte), NEW m \in Line(f), ~m.misleads
  PROVE  \/ m.bytes = f
         \/ m.bytes = None /\ ~m.whole
         \/ \E i \in DOMAIN f : /\ m.bytes = RemoveAt(f, i) /\ ~m.whole
                                /\ i \notin {3, 4} /\ ~(i = Len(f) /\ f[i] = 170)
         \/ \E i \in DOMAIN f, x \in Noise :
              m.bytes = [f EXCEPT ![i] = x] /\ ~m.whole /\ i \notin {3, 4}
<1> DEFINE S1 == {[bytes |-> RemoveAt(f, i), whole |-> FALSE,
                   misleads |-> i \in {3, 4} \/ (i = Len(f) /\ f[i] = 170)] : i \in DOMAIN f \cap Places}
           S2 == {[bytes |-> [f EXCEPT ![i] = x], whole |-> FALSE, misleads |-> i \in {3, 4}] :
                    i \in DOMAIN f \cap Places, x \in Noise}
<1>1. \/ m = [bytes |-> f, whole |-> TRUE, misleads |-> FALSE]
      \/ m = [bytes |-> None, whole |-> FALSE, misleads |-> FALSE]
      \/ m \in S1
      \/ m \in S2
  BY DEF Line
<1>2. CASE m = [bytes |-> f, whole |-> TRUE, misleads |-> FALSE]
  BY <1>2
<1>3. CASE m = [bytes |-> None, whole |-> FALSE, misleads |-> FALSE]
  BY <1>3
<1>4. CASE m \in S1
  <2>1. PICK i \in DOMAIN f \cap Places :
          m = [bytes |-> RemoveAt(f, i), whole |-> FALSE,
               misleads |-> i \in {3, 4} \/ (i = Len(f) /\ f[i] = 170)]
    BY <1>4
  <2>2. /\ m.bytes = RemoveAt(f, i) /\ m.whole = FALSE
        /\ m.misleads = (i \in {3, 4} \/ (i = Len(f) /\ f[i] = 170))
    BY <2>1
  <2>3. QED
    BY <2>2
<1>5. CASE m \in S2
  <2>1. PICK i \in DOMAIN f \cap Places, x \in Noise :
          m = [bytes |-> [f EXCEPT ![i] = x], whole |-> FALSE, misleads |-> i \in {3, 4}]
    BY <1>5
  <2>2. m.bytes = [f EXCEPT ![i] = x] /\ m.whole = FALSE /\ m.misleads = (i \in {3, 4})
    BY <2>1
  <2>3. QED
    BY <2>2
<1> HIDE DEF S1, S2
<1>6. QED
  BY <1>1, <1>2, <1>3, <1>4, <1>5

\* What a reply can look like when it arrives, unless it misleads
LEMMA LineShapes ==
  ASSUME MarksApart, NEW a \in Messages, NEW m \in Line(Frame(a)), ~m.misleads
  PROVE  LET f == Frame(a)
             n == Len(a)
             w == m.bytes
         IN  \/ w = <<>> /\ ~m.whole
             \/ w = f
             \/ /\ ~m.whole /\ w \in Seq(Byte) /\ Len(w) = n + 5
                /\ \A k \in 1 .. 4 : w[k] = f[k]
                /\ \A k \in 3 .. n + 5 : w[k] # 85
                /\ w[n + 5] = f[6 + n] \/ (w[n + 5] = f[5 + n] /\ f[6 + n] # 170)
             \/ /\ ~m.whole /\ w \in Seq(Byte) /\ Len(w) = n + 6
                /\ \A k \in 1 .. 4 : w[k] = f[k]
                /\ \A k \in 3 .. n + 6 : w[k] # 85
             \/ /\ ~m.whole /\ w \in Seq(Byte) /\ Len(w) \in {n + 5, n + 6}
                /\ \A k \in 1 .. Len(w) : w[k] = 85 => k <= 2
                /\ ~MarkAt(w, 1)
                /\ w[1] = 85 => f = <<170>> \o w
<1> DEFINE f == Frame(a)
           n == Len(a)
           w == m.bytes
<1>1. n \in Nat /\ 2 <= n /\ HeadOf(a)[1] = 170 /\ HeadOf(a)[2] = 85
  BY HeadType
<1>2. f \in Seq(Byte) /\ Len(f) = 6 + n /\ f[1] = 170 /\ f[2] = 85
  <2>1. /\ f \in Seq(Byte) /\ Len(f) = 6 + n
        /\ \A i \in 1 .. 4 + n : f[i] = HeadOf(a)[i]
    BY FrameType
  <2>2. 1 \in 1 .. 4 + n /\ 2 \in 1 .. 4 + n
    BY <1>1
  <2>3. QED
    BY <1>1, <2>1, <2>2
<1>3. DOMAIN f = 1 .. n + 6 /\ \A i \in 1 .. n + 6 : f[i] = 85 => i = 2
  <2>1. DOMAIN f = 1 .. Len(f)
    BY <1>2, LenProperties
  <2>2. DOMAIN f = 1 .. n + 6
    BY <1>1, <1>2, <2>1
  <2>3. QED
    BY <2>2 DEF MarksApart
<1>4. \/ w = f
      \/ w = <<>> /\ ~m.whole
      \/ \E i \in DOMAIN f : /\ w = RemoveAt(f, i) /\ ~m.whole
                             /\ i \notin {3, 4} /\ ~(i = Len(f) /\ f[i] = 170)
      \/ \E i \in DOMAIN f, x \in Noise :
           w = [f EXCEPT ![i] = x] /\ ~m.whole /\ i \notin {3, 4}
  BY <1>2, LineParts DEF None
<1> HIDE DEF f, n, w
<1> DEFINE Short == /\ ~m.whole /\ w \in Seq(Byte) /\ Len(w) = n + 5
                    /\ \A k \in 1 .. 4 : w[k] = f[k]
                    /\ \A k \in 3 .. n + 5 : w[k] # 85
                    /\ w[n + 5] = f[6 + n] \/ (w[n + 5] = f[5 + n] /\ f[6 + n] # 170)
           Noisy == /\ ~m.whole /\ w \in Seq(Byte) /\ Len(w) = n + 6
                    /\ \A k \in 1 .. 4 : w[k] = f[k]
                    /\ \A k \in 3 .. n + 6 : w[k] # 85
           Lost == /\ ~m.whole /\ w \in Seq(Byte) /\ Len(w) \in {n + 5, n + 6}
                   /\ \A k \in 1 .. Len(w) : w[k] = 85 => k <= 2
                   /\ ~MarkAt(w, 1)
                   /\ w[1] = 85 => f = <<170>> \o w
<1>5. ASSUME NEW i \in DOMAIN f, w = RemoveAt(f, i), ~m.whole,
             i \notin {3, 4}, ~(i = Len(f) /\ f[i] = 170)
      PROVE  Short \/ Lost
  <2>1. i \in 1 .. Len(f) /\ i \in Nat
    BY <1>1, <1>2, <1>3
  <2>2. /\ w \in Seq(Byte) /\ Len(w) = Len(f) - 1
        /\ \A k \in 1 .. Len(f) - 1 : w[k] = IF k < i THEN f[k] ELSE f[k + 1]
    <3>1. f \in Seq(Byte) /\ i \in 1 .. Len(f)
      BY <1>2, <2>1
    <3>2. QED
      BY ONLY SMTT(30), <1>5, <3>1, RemovedType
  <2>3. /\ Len(w) = n + 5
        /\ \A k \in 1 .. n + 5 : w[k] = IF k < i THEN f[k] ELSE f[k + 1]
    BY <1>1, <1>2, <2>2
  <2>4. CASE i >= 5
    <3>1. \A k \in 1 .. 4 : w[k] = f[k]
      <4> SUFFICES ASSUME NEW k \in 1 .. 4 PROVE w[k] = f[k]
        OBVIOUS
      <4>1. k \in 1 .. n + 5 /\ k < i
        BY <1>1, <2>1, <2>4
      <4>2. QED
        BY <2>3, <4>1
    <3>2. \A k \in 3 .. n + 5 : w[k] # 85
      <4> SUFFICES ASSUME NEW k \in 3 .. n + 5 PROVE w[k] # 85
        OBVIOUS
      <4>1. k \in 1 .. n + 5 /\ k \in 1 .. n + 6 /\ k + 1 \in 1 .. n + 6 /\ k # 2 /\ k + 1 # 2
        BY <1>1
      <4>2. f[k] # 85 /\ f[k + 1] # 85
        BY <1>3, <4>1
      <4>3. QED
        BY <2>3, <4>1, <4>2
    <3>3. w[n + 5] = f[6 + n] \/ (w[n + 5] = f[5 + n] /\ f[6 + n] # 170)
      <4>1. n + 5 \in 1 .. n + 5 /\ (n + 5) + 1 = 6 + n /\ n + 5 = 5 + n
        BY <1>1
      <4>2. w[n + 5] = IF n + 5 < i THEN f[5 + n] ELSE f[6 + n]
        BY <2>3, <4>1
      <4>3. n + 5 < i => i = 6 + n
        BY <1>1, <1>2, <2>1
      <4>4. i = 6 + n => f[6 + n] # 170
        BY <1>2, <1>5
      <4>5. QED
        BY <4>2, <4>3, <4>4
    <3>4. QED
      BY <1>5, <2>2, <2>3, <3>1, <3>2, <3>3
  <2>5. CASE i \in {1, 2}
    <3>1. \A k \in 1 .. Len(w) : w[k] = 85 => k <= 2
      <4> SUFFICES ASSUME NEW k \in 1 .. n + 5, w[k] = 85 PROVE k <= 2
        BY <2>3
      <4>1. k \in 1 .. n + 6 /\ k + 1 \in 1 .. n + 6
        BY <1>1
      <4>2. f[k] = 85 \/ f[k + 1] = 85
        BY <2>3
      <4>3. k = 2 \/ k + 1 = 2
        BY <1>3, <4>1, <4>2
      <4>4. QED
        BY <4>3
    <3>2. w[1] = (IF 1 < i THEN f[1] ELSE f[2]) /\ w[2] = f[3]
      <4>1. 1 \in 1 .. n + 5 /\ 2 \in 1 .. n + 5 /\ ~(2 < i)
        BY <1>1, <2>5
      <4>2. QED
        BY <2>3, <4>1
    <3>3. ~MarkAt(w, 1)
      <4>1. f[3] # 85
        <5>1. 3 \in 1 .. n + 6
          BY <1>1
        <5>2. QED
          BY <1>3, <5>1
      <4>2. QED
        BY <3>2, <4>1 DEF MarkAt
    <3>4. ASSUME w[1] = 85 PROVE f = <<170>> \o w
      <4>1. i = 1
        BY <1>2, <2>5, <3>2, <3>4
      <4>2. <<170>> \in Seq(Byte) /\ Len(<<170>>) = 1 /\ <<170>>[1] = 170
        BY DEF Byte
      <4>3. \A k \in 1 .. Len(<<170>>) : f[k] = <<170>>[k]
        BY <1>2, <4>2
      <4>4. \A k \in 1 .. Len(w) : f[Len(<<170>>) + k] = w[k]
        <5> SUFFICES ASSUME NEW k \in 1 .. n + 5 PROVE f[1 + k] = w[k]
          BY <2>3, <4>2
        <5>1. ~(k < i) /\ k + 1 = 1 + k
          BY <4>1
        <5>2. QED
          BY <2>3, <5>1
      <4>5. Len(f) = Len(<<170>>) + Len(w)
        BY <1>1, <1>2, <2>3, <4>2
      <4>6. QED
        BY <1>2, <2>2, <4>2, <4>3, <4>4, <4>5, JoinedEqual
    <3>5. QED
      BY <1>5, <2>2, <2>3, <3>1, <3>3, <3>4
  <2>6. QED
    BY SMTT(30), <1>5, <2>1, <2>4, <2>5
<1>6. ASSUME NEW i \in DOMAIN f, NEW x \in Noise, w = [f EXCEPT ![i] = x],
             ~m.whole, i \notin {3, 4}
      PROVE  w = f \/ Noisy \/ Lost
  <2>1. i \in 1 .. n + 6 /\ i \in Nat /\ x \in Byte /\ x # 85
    <3>1. x # 85 /\ i \in 1 .. n + 6
      BY <1>3 DEF MarksApart
    <3>2. QED
      BY <1>1, <3>1, LineAssumption
  <2>2. /\ w \in Seq(Byte) /\ Len(w) = n + 6
        /\ \A k \in 1 .. n + 6 : w[k] = IF k = i THEN x ELSE f[k]
    <3>1. w \in Seq(Byte) /\ Len(w) = Len(f)
      <4>1. f \in Seq(Byte) /\ i \in 1 .. Len(f)
        BY <1>1, <1>2, <2>1
      <4>2. QED
        BY <1>6, <2>1, <4>1, ExceptSeq
    <3>2. QED
      BY <1>1, <1>2, <1>3, <1>6, <3>1
  <2>3. \A k \in 3 .. n + 6 : w[k] # 85
    <3> SUFFICES ASSUME NEW k \in 3 .. n + 6 PROVE w[k] # 85
      OBVIOUS
    <3>1. k \in 1 .. n + 6 /\ k # 2
      BY <1>1
    <3>2. QED
      BY <1>3, <2>1, <2>2, <3>1
  <2>4. CASE i >= 5
    <3>1. \A k \in 1 .. 4 : w[k] = f[k]
      <4> SUFFICES ASSUME NEW k \in 1 .. 4 PROVE w[k] = f[k]
        OBVIOUS
      <4>1. k \in 1 .. n + 6 /\ k # i
        BY <1>1, <2>4
      <4>2. QED
        BY <2>2, <4>1
    <3>2. QED
      BY <1>6, <2>2, <2>3, <3>1
  <2>5. CASE i \in {1, 2} /\ ~(i = 1 /\ x = 170)
    <3>1. \A k \in 1 .. Len(w) : w[k] = 85 => k <= 2
      <4> SUFFICES ASSUME NEW k \in 1 .. n + 6, ~(k <= 2) PROVE w[k] # 85
        BY <2>2
      <4>1. k \in 3 .. n + 6
        BY <1>1
      <4>2. QED
        BY <2>3, <4>1
    <3>2. 1 \in 1 .. n + 6 /\ 2 \in 1 .. n + 6
      BY <1>1
    <3>3. w[1] = (IF i = 1 THEN x ELSE f[1]) /\ w[2] = (IF i = 2 THEN x ELSE f[2])
      BY <2>2, <3>2
    <3>4. ~MarkAt(w, 1) /\ w[1] # 85
      BY <1>2, <2>1, <2>5, <3>3 DEF MarkAt
    <3>5. QED
      BY <1>6, <2>2, <3>1, <3>4
  <2>6. CASE i = 1 /\ x = 170
    <3>1. \A k \in 1 .. Len(w) : w[k] = f[k]
      BY <1>2, <2>2, <2>6
    <3>2. Len(w) = Len(f)
      BY <1>1, <1>2, <2>2
    <3>3. QED
      BY <1>2, <2>2, <3>1, <3>2, SameSeq
  <2>7. QED
    BY <1>6, <2>1, <2>4, <2>5, <2>6
<1>7. w = f \/ (w = <<>> /\ ~m.whole) \/ Short \/ Noisy \/ Lost
  <2> HIDE DEF Short, Noisy, Lost
  <2>1. QED
    BY <1>4, <1>5, <1>6
<1>8. QED
  BY <1>7 DEF f, n, w

LEMMA FrameShape ==
  ASSUME NEW a \in Messages
  PROVE  /\ Len(a) \in Nat /\ 2 <= Len(a)
         /\ Frame(a) \in Seq(Byte) /\ Len(Frame(a)) = 6 + Len(a)
         /\ Frame(a)[1] = 170 /\ Frame(a)[2] = 85
         /\ Frame(a)[3] + 256 * Frame(a)[4] = Len(a)
         /\ CRC(HeadOf(a)) = <<Frame(a)[5 + Len(a)], Frame(a)[6 + Len(a)]>>
<1>1. /\ Len(a) \in Nat /\ 2 <= Len(a)
      /\ HeadOf(a)[1] = 170 /\ HeadOf(a)[2] = 85
      /\ HeadOf(a)[3] + 256 * HeadOf(a)[3 + 1] = Len(a)
  BY HeadType DEF U16
<1>2. /\ Frame(a) \in Seq(Byte) /\ Len(Frame(a)) = 6 + Len(a)
      /\ \A i \in 1 .. 4 + Len(a) : Frame(a)[i] = HeadOf(a)[i]
      /\ CRC(HeadOf(a)) = <<Frame(a)[5 + Len(a)], Frame(a)[6 + Len(a)]>>
  BY FrameType
<1>3. 1 \in 1 .. 4 + Len(a) /\ 2 \in 1 .. 4 + Len(a) /\ 3 \in 1 .. 4 + Len(a) /\ 4 \in 1 .. 4 + Len(a) /\ 3 + 1 = 4
  BY <1>1
<1>4. QED
  BY <1>1, <1>2, <1>3

\* Bytes that begin with the head of a frame and hold no other mark
LEMMA BegunType ==
  ASSUME NEW a \in Messages, NEW w \in Seq(Byte), 5 <= Len(w),
         \A k \in 1 .. 4 : w[k] = Frame(a)[k]
  PROVE  FromMark(w) = w /\ MarkAt(w, 1) /\ U16(w, 3) = Len(a) /\ w[1] = 170 /\ w[2] = 85
<1>1. w[1] = 170 /\ w[2] = 85 /\ w[3] + 256 * w[4] = Len(a)
  BY SMTT(30), FrameShape
<1>2. MarkAt(w, 1) /\ U16(w, 3) = Len(a)
  <2>1. 3 + 1 = 4
    OBVIOUS
  <2>2. QED
    BY <1>1, <2>1 DEF MarkAt, U16
<1>3. FromMark(w) = w
  <2>1. Len(w) > 2
    BY LenProperties
  <2>2. QED
    BY <1>2, <2>1, MarkFirst
<1>4. QED
  BY <1>1, <1>2, <1>3

\* A reply that lost a byte waits for one more: and is rejected if that is the
\* first byte of a mark.
LEMMA ShortHarmless ==
  ASSUME OnlyHeadsFit, SumsApart, NEW a \in Messages, NEW w \in Seq(Byte), Len(w) = Len(a) + 5,
         \A k \in 1 .. 4 : w[k] = Frame(a)[k],
         \A k \in 3 .. Len(a) + 5 : w[k] # 85,
         \/ w[Len(a) + 5] = Frame(a)[6 + Len(a)]
         \/ w[Len(a) + 5] = Frame(a)[5 + Len(a)] /\ Frame(a)[6 + Len(a)] # 170
  PROVE  Read(w) = <<w, <<>>>> /\ CutShort(w)
<1> DEFINE n == Len(a)
<1>1. /\ n \in Nat /\ 2 <= n
      /\ CRC(HeadOf(a)) = <<Frame(a)[5 + n], Frame(a)[6 + n]>>
  BY FrameShape
<1>2. FromMark(w) = w /\ MarkAt(w, 1) /\ U16(w, 3) = n /\ w[1] = 170 /\ w[2] = 85
  <2>1. 5 <= Len(w)
    BY <1>1
  <2>2. QED
    BY <2>1, BegunType
<1> HIDE DEF n
<1>3. Len(w) = n + 5
  BY DEF n
<1>4. ~Enough(w)
  BY <1>1, <1>2, <1>3 DEF Enough
<1>5. Read(w) = <<w, <<>>>>
  BY <1>2, <1>4, ReadDone
<1>6. ASSUME CrcFits(Append(w, 170), 1, n) PROVE FALSE
  <2> DEFINE v == Append(w, 170)
  <2>1. /\ v \in Seq(Byte) /\ Len(v) = n + 6 /\ v[n + 5] = w[n + 5] /\ v[n + 6] = 170
    <3>1. 170 \in Byte
      BY DEF Byte
    <3>2. v \in Seq(Byte) /\ Len(v) = Len(w) + 1 /\ v[Len(w) + 1] = 170
          /\ \A i \in 1 .. Len(w) : v[i] = w[i]
      BY <3>1, AppendProperties
    <3>3. n + 5 \in 1 .. Len(w) /\ Len(w) + 1 = n + 6
      BY <1>1, <1>3
    <3>4. QED
      BY <3>2, <3>3
  <2>2. CrcFits(v, 1, n)
    BY <1>6
  <2> HIDE DEF v
  <2>3. 1 + 5 + n <= Len(v)
    BY <1>1, <2>1
  <2>4. PICK m \in Messages : SubSeq(v, 1, 1 + 3 + n) = HeadOf(m) /\ v[1 + 4 + n] = SumByte(m)
    <3>1. v \in Seq(Byte) /\ n \in Nat /\ 1 \in Nat /\ 1 <= 1
      BY <1>1, <2>1
    <3>2. \E m \in Messages :
             /\ SubSeq(v, 1, 1 + 3 + n) = HeadOf(m) /\ Len(m) = n
             /\ v[1 + 4 + n] = SumByte(m)
             /\ SubSeq(v, 1 + 4, 1 + 3 + n) = Coded(m)
             /\ \A k \in 1 .. n : v[1 + 3 + k] = Key[m[k]]
      BY ONLY OnlyHeadsFit, <3>1, <2>2, <2>3, HeadFits
    <3>3. QED
      BY <3>2
  <2>5. CRC(HeadOf(m)) = <<v[1 + 4 + n], v[1 + 5 + n]>>
    BY <2>2, <2>4 DEF CrcFits
  <2>6. 1 + 4 + n = n + 5 /\ 1 + 5 + n = n + 6 /\ 5 + n = n + 5 /\ 6 + n = n + 6
    BY <1>1
  <2>7. w[n + 5] = SumByte(m) /\ CRC(HeadOf(m))[2] = 170
    BY <2>1, <2>4, <2>5, <2>6
  <2>8. CRC(HeadOf(a))[2] = Frame(a)[6 + n] /\ SumByte(a) = Frame(a)[5 + n]
    BY <1>1 DEF SumByte
  <2>9. w[n + 5] # Frame(a)[6 + n]
    <3>1. SumByte(m) # CRC(HeadOf(a))[2]
      BY DEF SumsApart
    <3>2. QED
      BY <2>7, <2>8, <3>1
  <2>10. SumByte(m) = SumByte(a) /\ Frame(a)[6 + n] # 170
    BY <2>7, <2>8, <2>9 DEF n
  <2>11. m = a
    BY <2>10 DEF SumsApart
  <2>12. QED
    BY <2>7, <2>8, <2>10, <2>11
<1>7. \A i \in DOMAIN w : w[i] = 85 => i = 2
  <2> SUFFICES ASSUME NEW i \in DOMAIN w, i # 2 PROVE w[i] # 85
    OBVIOUS
  <2>1. i \in 1 .. n + 5
    BY <1>3, LenProperties
  <2>2. i = 1 \/ i \in 3 .. n + 5
    BY <1>1, <2>1
  <2>3. QED
    BY <1>2, <2>2 DEF n
<1>8. Len(w) > 6 /\ Len(w) = U16(w, 3) + 5
  BY <1>1, <1>2, <1>3
<1>9. CutShort(w)
  BY <1>2, <1>6, <1>7, <1>8 DEF CutShort
<1>10. QED
  BY <1>5, <1>9

\* A reply with a wrong byte is gone after one round, whether its checksum fits or not.
LEMMA NoisyHarmless ==
  ASSUME NEW a \in Messages, NEW w \in Seq(Byte), Len(w) = Len(a) + 6,
         \A k \in 1 .. 4 : w[k] = Frame(a)[k],
         \A k \in 3 .. Len(a) + 6 : w[k] # 85
  PROVE  Quiet(Read(w)[1])
<1> DEFINE n == Len(a)
<1>1. n \in Nat /\ 2 <= n
  BY FrameShape
<1>2. FromMark(w) = w /\ U16(w, 3) = n /\ w[1] = 170 /\ w[2] = 85
  <2>1. 5 <= Len(w)
    BY <1>1
  <2>2. QED
    BY <2>1, BegunType
<1> HIDE DEF n
<1>3. Len(w) = n + 6 /\ Len(w) \in Nat /\ \A k \in 3 .. n + 6 : w[k] # 85
  BY <1>1 DEF n
<1>4. Enough(w)
  BY <1>1, <1>2, <1>3 DEF Enough
<1>5. \A i \in 3 .. Len(w) + 1 :
         /\ SubSeq(w, i, Len(w)) \in Seq(Byte)
         /\ Quiet(FromMark(SubSeq(w, i, Len(w)))) /\ ~Enough(FromMark(SubSeq(w, i, Len(w))))
  <2> SUFFICES ASSUME NEW i \in 3 .. Len(w) + 1
               PROVE  /\ SubSeq(w, i, Len(w)) \in Seq(Byte)
                      /\ Quiet(FromMark(SubSeq(w, i, Len(w)))) /\ ~Enough(FromMark(SubSeq(w, i, Len(w))))
    OBVIOUS
  <2> DEFINE c == SubSeq(w, i, Len(w))
  <2>1. /\ c \in Seq(Byte) /\ Len(c) = Len(w) + 1 - i
        /\ \A k \in 1 .. Len(w) + 1 - i : c[k] = w[i + k - 1]
    <3>1. i \in Nat /\ 1 <= i /\ Len(w) <= Len(w) /\ i <= Len(w) + 1
      BY <1>3
    <3>2. QED
      BY <1>3, <3>1, Piece
  <2> HIDE DEF c
  <2>2. \A k \in 1 .. Len(c) : c[k] # 85
    <3> SUFFICES ASSUME NEW k \in 1 .. Len(c) PROVE c[k] # 85
      OBVIOUS
    <3>1. i + k - 1 \in 3 .. n + 6 /\ k \in 1 .. Len(w) + 1 - i
      BY <1>1, <1>3, <2>1
    <3>2. QED
      BY SMTT(30), <1>3, <2>1, <3>1
  <2>3. \A j \in Nat : 1 <= j /\ j <= Len(c) - 2 => ~MarkAt(c, j)
    <3> SUFFICES ASSUME NEW j \in Nat, 1 <= j, j <= Len(c) - 2 PROVE ~MarkAt(c, j)
      OBVIOUS
    <3>1. j + 1 \in 1 .. Len(c)
      BY <1>3, <2>1
    <3>2. QED
      BY <2>2, <3>1 DEF MarkAt
  <2>4. Quiet(FromMark(c)) /\ ~Enough(FromMark(c))
    BY <2>1, <2>2, <2>3, QuietEnd
  <2>5. QED
    BY <2>1, <2>4 DEF c
<1>9. FromMark(w) = w
  BY <1>2
<1>6. CASE CrcFits(w, 1, n)
  <2> DEFINE y == FromMark(SubSeq(w, n + 7, Len(w)))
             x == SubSeq(w, 5, n + 4)
  <2>1. Round(<<w, <<>>>>) = <<y, Append(<<>>, x)>>
    BY <1>2, <1>4, <1>6 DEF Round
  <2>2. x \in Seq(Byte)
    <3>1. n + 4 \in Nat /\ n + 4 <= Len(w) /\ 5 <= (n + 4) + 1
      BY <1>1, <1>3
    <3>2. QED
      BY <3>1, Piece
  <2>3. y \in Seq(Byte) /\ Quiet(y) /\ ~Enough(y)
    <3>1. n + 7 \in 3 .. Len(w) + 1
      BY <1>1, <1>3
    <3>2. QED
      BY <1>5, <3>1, FromMarkSeq
  <2> HIDE DEF x, y
  <2>4. Append(<<>>, x) \in Seq(Seq(Byte))
    BY <2>2
  <2>5. Read(w) = <<y, Append(<<>>, x)>>
    BY ZenonT(30), <1>9, <2>1, <2>3, <2>4, ReadBy
  <2>6. Read(w)[1] = y
    BY <2>5
  <2>7. QED
    BY <2>3, <2>6
<1>7. CASE ~CrcFits(w, 1, n)
  <2> DEFINE y == FromMark(AfterBad(w))
  <2>1. Round(<<w, <<>>>>) = <<y, <<>>>>
    BY <1>2, <1>4, <1>7 DEF Round
  <2>2. y \in Seq(Byte) /\ Quiet(y) /\ ~Enough(y)
    <3>1. 3 \in 3 .. Len(w) + 1
      BY <1>1, <1>3
    <3>2. QED
      BY <1>5, <3>1, FromMarkSeq DEF AfterBad
  <2> HIDE DEF y
  <2>3. <<>> \in Seq(Seq(Byte))
    OBVIOUS
  <2>4. Read(w) = <<y, <<>>>>
    BY ZenonT(30), <1>9, <2>1, <2>2, <2>3, ReadBy
  <2>5. Read(w)[1] = y
    BY <2>4
  <2>6. QED
    BY <2>2, <2>5
<1>8. QED
  BY <1>6, <1>7

\* Behind bytes without a mark
LEMMA QuietJoin ==
  ASSUME OnlyHeadsFit, SumsApart, MarksApart, NEW a \in Messages, NEW m \in Line(Frame(a)),
         ~m.misleads, NEW h \in Seq(Byte), Quiet(h)
  PROVE  /\ Harmless(Read(h \o m.bytes)[1])
         /\ m.whole => Read(h \o m.bytes)[2] = <<Coded(a)>>
<1> DEFINE f == Frame(a)
           n == Len(a)
           w == m.bytes
<1>1. /\ n \in Nat /\ 2 <= n /\ f \in Seq(Byte) /\ Len(f) = 6 + n /\ f[1] = 170 /\ f[2] = 85
      /\ w \in Seq(Byte) /\ h \o w \in Seq(Byte)
  <2>1. w \in Seq(Byte)
    BY FrameShape, LineType
  <2>2. QED
    BY <2>1, FrameShape, ConcatProperties
<1>2. \A k \in 1 .. Len(h) : h[k] # 85
  BY QuietType
<1>3. CASE w = <<>> /\ ~m.whole
  <2>1. h \o w = h
    BY <1>3, ConcatEmptySeq
  <2>2. \A j \in Nat : 1 <= j /\ j <= Len(h) - 2 => ~MarkAt(h, j)
    <3> SUFFICES ASSUME NEW j \in Nat, 1 <= j, j <= Len(h) - 2 PROVE ~MarkAt(h, j)
      OBVIOUS
    <3>1. j + 1 \in 1 .. Len(h)
      BY LenProperties
    <3>2. QED
      BY <1>2, <3>1 DEF MarkAt
  <2>3. Quiet(FromMark(h)) /\ ~Enough(FromMark(h))
    BY <1>2, <2>2, QuietEnd
  <2>4. Read(h) = <<FromMark(h), <<>>>>
    BY <2>3, ReadDone
  <2>5. Read(h)[1] = FromMark(h)
    BY <2>4
  <2>6. QED
    BY <1>3, <2>1, <2>3, <2>5 DEF Harmless
<1>4. ASSUME NEW v \in Seq(Byte), 2 <= Len(v), v[1] # 85 PROVE Read(h \o v) = Read(v)
  BY <1>4, QuietFront DEF Read
<1>5. CASE w = f
  <2>1. Read(h \o f) = Read(f)
    <3>1. 2 <= Len(f) /\ f[1] # 85
      BY <1>1
    <3>2. QED
      BY <1>1, <1>4, <3>1
  <2>2. Read(f) = <<None, <<Coded(a)>>>>
    BY FrameRead
  <2>3. Read(h \o w)[1] = None /\ Read(h \o w)[2] = <<Coded(a)>>
    BY <1>5, <2>1, <2>2
  <2>4. Quiet(None)
    BY DEF Quiet, None, Range
  <2>5. QED
    BY <2>3, <2>4 DEF Harmless
<1>6. CASE /\ ~m.whole /\ w \in Seq(Byte) /\ Len(w) = n + 5
           /\ \A k \in 1 .. 4 : w[k] = f[k]
           /\ \A k \in 3 .. n + 5 : w[k] # 85
           /\ w[n + 5] = f[6 + n] \/ (w[n + 5] = f[5 + n] /\ f[6 + n] # 170)
  <2>1. Read(w) = <<w, <<>>>> /\ CutShort(w)
    BY <1>6, ShortHarmless
  <2>2. Read(h \o w) = Read(w)
    <3>1. 2 <= Len(w) /\ w[1] # 85
      BY <1>1, <1>6
    <3>2. QED
      BY <1>1, <1>4, <3>1
  <2>3. Read(h \o w)[1] = w
    BY <2>1, <2>2
  <2>4. QED
    BY <1>6, <2>1, <2>3 DEF Harmless
<1>7. CASE /\ ~m.whole /\ w \in Seq(Byte) /\ Len(w) = n + 6
           /\ \A k \in 1 .. 4 : w[k] = f[k]
           /\ \A k \in 3 .. n + 6 : w[k] # 85
  <2>1. Quiet(Read(w)[1])
    BY <1>7, NoisyHarmless
  <2>2. Read(h \o w) = Read(w)
    <3>1. 2 <= Len(w) /\ w[1] # 85
      BY <1>1, <1>7
    <3>2. QED
      BY <1>1, <1>4, <3>1
  <2>3. QED
    BY <1>7, <2>1, <2>2 DEF Harmless
<1>8. CASE /\ ~m.whole /\ w \in Seq(Byte) /\ Len(w) \in {n + 5, n + 6}
           /\ \A k \in 1 .. Len(w) : w[k] = 85 => k <= 2
           /\ ~MarkAt(w, 1)
           /\ w[1] = 85 => f = <<170>> \o w
  <2>1. CASE w[1] = 85 /\ Len(h) > 0 /\ h[Len(h)] = 170
    <3> DEFINE s == SubSeq(h, 1, Len(h) - 1)
    <3>1. Len(h) \in Nat /\ Len(h) \in 1 .. Len(h) + 1 /\ Len(h) \in 1 .. Len(h)
      BY <2>1, LenProperties
    <3>2. s \in Seq(Byte) /\ Len(s) = Len(h) - 1 /\ \A k \in 1 .. Len(h) - 1 : s[k] = h[k]
      <4>1. s \in Seq(Byte) /\ Len(s) = (Len(h) - 1) + 1 - 1
            /\ \A k \in 1 .. (Len(h) - 1) + 1 - 1 : s[k] = h[1 + k - 1]
        <5>1. Len(h) - 1 \in Nat /\ 1 <= (Len(h) - 1) + 1 /\ Len(h) - 1 <= Len(h)
          BY <3>1
        <5>2. h \in Seq(Byte) /\ 1 \in Nat /\ 1 <= 1
          OBVIOUS
        <5>3. QED
          BY ONLY <5>1, <5>2, Piece
      <4> HIDE DEF s
      <4>2. QED
        BY <3>1, <4>1
    <3> HIDE DEF s
    <3>3. <<170>> \in Seq(Byte) /\ Len(<<170>>) = 1 /\ <<170>>[1] = 170
      BY DEF Byte
    <3>4. h = s \o <<170>>
      <4>1. Len(h) = Len(s) + Len(<<170>>)
        BY <3>1, <3>2, <3>3
      <4>2. \A k \in 1 .. Len(s) : h[k] = s[k]
        BY <3>2
      <4>3. \A k \in 1 .. Len(<<170>>) : h[Len(s) + k] = <<170>>[k]
        <5>1. Len(s) + 1 = Len(h)
          BY <3>1, <3>2
        <5>2. QED
          BY <2>1, <3>3, <5>1
      <4>4. QED
        BY <3>2, <3>3, <4>1, <4>2, <4>3, JoinedEqual
    <3>5. h \o w = s \o f
      <4>1. (s \o <<170>>) \o w = s \o (<<170>> \o w)
        <5>1. PICK e \in Seq(Byte) : e = <<170>>
          BY <3>3
        <5>2. s \in Seq(Byte) /\ w \in Seq(Byte)
          BY <1>1, <3>2
        <5>3. (s \o e) \o w = s \o (e \o w)
          <6>1. \A x, y, z \in Seq(Byte) : (x \o y) \o z = x \o (y \o z)
            BY SMTT(30), Regroup
          <6>2. QED
            BY ZenonT(30), <5>2, <6>1
        <5>4. QED
          BY <5>1, <5>3
      <4>2. QED
        BY <1>8, <2>1, <3>4, <4>1
    <3>6. Quiet(s)
      <4>1. \A k \in 1 .. Len(s) : s[k] # 85
        BY <1>2, <3>1, <3>2
      <4>2. QED
        BY <3>2, <4>1, QuietType
    <3>7. FromMark(s \o f) = FromMark(f)
      <4>1. 2 <= Len(f) /\ f[1] # 85
        BY <1>1
      <4>2. QED
        BY <1>1, <3>2, <3>6, <4>1, QuietFront
    <3>8. Read(h \o w) = <<None, <<Coded(a)>>>>
      BY <3>5, <3>7, FrameRead DEF Read
    <3>9. Quiet(None) /\ Read(h \o w)[1] = None
      BY <3>8 DEF Quiet, None, Range
    <3>10. QED
      BY <1>8, <3>9 DEF Harmless
  <2>2. CASE ~(w[1] = 85 /\ Len(h) > 0 /\ h[Len(h)] = 170)
    <3>1. Len(w) \in Nat /\ 7 <= Len(w)
      BY <1>1, <1>8
    <3>2. FromMark(h \o w) = FromMark(w)
      <4>1. 2 <= Len(w)
        BY <3>1
      <4>2. QED
        BY <1>1, <2>2, <4>1, QuietFront
    <3>3. \A j \in 1 .. Len(w) : w[j] = 85 => j <= Len(w) - 2
      BY <1>8, <3>1
    <3>4. \A j \in Nat : 1 <= j /\ j <= Len(w) - 2 => ~MarkAt(w, j)
      <4> SUFFICES ASSUME NEW j \in Nat, 1 <= j, j <= Len(w) - 2, MarkAt(w, j) PROVE FALSE
        OBVIOUS
      <4>1. j + 1 \in 1 .. Len(w) /\ w[j + 1] = 85
        BY <3>1 DEF MarkAt
      <4>2. j + 1 <= 2
        BY <1>8, <4>1
      <4>3. j = 1
        BY <4>2
      <4>4. QED
        BY <1>8, <4>3
    <3>5. Quiet(FromMark(w)) /\ ~Enough(FromMark(w))
      BY <1>1, <3>3, <3>4, QuietEnd
    <3>6. Read(h \o w) = <<FromMark(w), <<>>>>
      BY ZenonT(30), <1>1, <3>2, <3>5, ReadDone
    <3>7. Read(h \o w)[1] = FromMark(w)
      BY <3>6
    <3>8. QED
      BY <1>8, <3>5, <3>7 DEF Harmless
  <2>3. QED
    BY <2>1, <2>2
<1>9. QED
  <2>1. \/ w = <<>> /\ ~m.whole
        \/ w = f
        \/ /\ ~m.whole /\ w \in Seq(Byte) /\ Len(w) = n + 5
           /\ \A k \in 1 .. 4 : w[k] = f[k]
           /\ \A k \in 3 .. n + 5 : w[k] # 85
           /\ w[n + 5] = f[6 + n] \/ (w[n + 5] = f[5 + n] /\ f[6 + n] # 170)
        \/ /\ ~m.whole /\ w \in Seq(Byte) /\ Len(w) = n + 6
           /\ \A k \in 1 .. 4 : w[k] = f[k]
           /\ \A k \in 3 .. n + 6 : w[k] # 85
        \/ /\ ~m.whole /\ w \in Seq(Byte) /\ Len(w) \in {n + 5, n + 6}
           /\ \A k \in 1 .. Len(w) : w[k] = 85 => k <= 2
           /\ ~MarkAt(w, 1)
           /\ w[1] = 85 => f = <<170>> \o w
    BY LineShapes
  <2>2. QED
    BY <1>3, <1>5, <1>6, <1>7, <1>8, <2>1

\* Behind a reply that waits for one more byte: the first byte completes it, or
\* the parser gives it up and goes on with what holds no mark.
LEMMA ShortJoin ==
  ASSUME OnlyHeadsFit, SumsApart, MarksApart, NEW a \in Messages, NEW m \in Line(Frame(a)),
         ~m.misleads, NEW h \in Seq(Byte), CutShort(h)
  PROVE  /\ Harmless(Read(h \o m.bytes)[1])
         /\ m.whole => Read(h \o m.bytes)[2] = <<Coded(a)>>
<1>8. PICK w : w = m.bytes
  OBVIOUS
<1>9. SUFFICES /\ Harmless(Read(h \o w)[1])
               /\ m.whole => Read(h \o w)[2] = <<Coded(a)>>
  BY <1>8
<1> DEFINE u == h \o w
           n == U16(h, 3)
           f == Frame(a)
<1>1. /\ 6 < Len(h) /\ MarkAt(h, 1) /\ Len(h) = n + 5
      /\ \A i \in DOMAIN h : h[i] = 85 => i = 2
      /\ ~CrcFits(Append(h, 170), 1, n)
  BY DEF CutShort
<1>2. Len(h) \in Nat /\ w \in Seq(Byte) /\ Len(w) \in Nat /\ f \in Seq(Byte) /\ f[1] = 170 /\ (m.whole => w = f)
  BY <1>8, FrameShape, LineType, LenProperties
<1>3. n \in Nat /\ 2 <= n
  <2>1. h[3] \in Byte /\ h[4] \in Byte
    <3>1. 3 \in 1 .. Len(h) /\ 4 \in 1 .. Len(h)
      BY <1>1, <1>2
    <3>2. QED
      BY <3>1, ElementOfSeq
  <2>2. PICK x \in Byte, y \in Byte : h[3] = x /\ h[4] = y
    BY <2>1
  <2>3. n = x + 256 * y
    BY <2>2 DEF U16
  <2>4. n \in Nat
    <3>1. x \in Nat /\ y \in Nat
      BY DEF Byte
    <3>2. QED
      BY <2>3, <3>1
  <2>5. QED
    BY <1>1, <1>2, <2>4
<1>4. /\ u \in Seq(Byte) /\ Len(u) = Len(h) + Len(w)
      /\ \A k \in 1 .. Len(h) : u[k] = h[k]
      /\ \A k \in 1 .. Len(w) : u[Len(h) + k] = w[k]
  BY <1>2, Joined
<1>5. CASE w = <<>>
  <2>1. u = h
    BY <1>5, ConcatEmptySeq
  <2>2. FromMark(h) = h
    BY <1>1, <1>2, MarkFirst
  <2>3. ~Enough(h)
    BY <1>1, <1>2, <1>3 DEF Enough
  <2>4. Read(h) = <<h, <<>>>>
    BY <2>2, <2>3, ReadDone
  <2>5. Read(h)[1] = h
    BY <2>4
  <2>6. ~m.whole
    <3>1. f # <<>>
      BY FrameShape
    <3>2. QED
      BY <1>2, <1>5, <3>1
  <2>7. QED
    BY <2>1, <2>5, <2>6 DEF Harmless
<1>6. CASE w # <<>>
  <2>1. 1 <= Len(w)
    BY <1>2, <1>6, EmptySeq
  <2>2. /\ FromMark(u) = u /\ U16(u, 3) = n /\ Enough(u)
    <3>1. u[1] = h[1] /\ u[2] = h[2] /\ u[3] = h[3] /\ u[4] = h[4]
      <4>1. 1 \in 1 .. Len(h) /\ 2 \in 1 .. Len(h) /\ 3 \in 1 .. Len(h) /\ 4 \in 1 .. Len(h)
        BY <1>1, <1>2
      <4>2. QED
        BY <1>4, <4>1
    <3> HIDE DEF u
    <3>2. MarkAt(u, 1)
      BY <1>1, <3>1 DEF MarkAt
    <3>3. U16(u, 3) = n
      <4>1. 3 + 1 = 4
        OBVIOUS
      <4>2. QED
        BY <3>1, <4>1 DEF U16
    <3>4. Len(u) > 6 /\ Len(u) > 2 /\ Len(u) >= n + 6
      BY SMTT(30), <1>1, <1>2, <1>3, <1>4, <2>1
    <3>5. FromMark(u) = u
      BY <1>4, <3>2, <3>4, MarkFirst
    <3>6. QED
      BY <3>3, <3>4, <3>5 DEF Enough
  <2> HIDE DEF u, n
  <2>3. CASE CrcFits(u, 1, n)
    <3> DEFINE c == SubSeq(w, 2, Len(w))
               x == SubSeq(u, 5, n + 4)
    <3>1. w[1] # 170
      <4> SUFFICES ASSUME w[1] = 170 PROVE FALSE
        OBVIOUS
      <4> DEFINE v == Append(h, 170)
      <4>1. /\ v \in Seq(Byte) /\ Len(v) = n + 6 /\ v[n + 6] = 170
            /\ \A k \in 1 .. n + 5 : v[k] = h[k]
        <5>1. 170 \in Byte
          BY DEF Byte
        <5>2. v \in Seq(Byte) /\ Len(v) = Len(h) + 1 /\ v[Len(h) + 1] = 170
              /\ \A i \in 1 .. Len(h) : v[i] = h[i]
          BY <5>1, AppendProperties
        <5>3. Len(h) + 1 = n + 6
          BY <1>1, <1>2, <1>3
        <5>4. QED
          BY <1>1, <5>2, <5>3
      <4> HIDE DEF v
      <4>2. 1 + 3 + n \in Nat /\ 1 + 3 + n <= Len(h) /\ 1 + 3 + n <= Len(v) /\ 1 <= (1 + 3 + n) + 1
        BY <1>1, <1>3, <4>1
      <4>3. SubSeq(u, 1, 1 + 3 + n) = SubSeq(h, 1, 1 + 3 + n)
        BY SMTT(30), <1>2, <4>2, FrontJoined DEF u
      <4>4. SubSeq(v, 1, 1 + 3 + n) = SubSeq(h, 1, 1 + 3 + n)
        <5>1. 170 \in Byte
          BY DEF Byte
        <5>2. <<170>> \in Seq(Byte)
          BY <5>1
        <5>3. v = h \o <<170>>
          BY <5>1, AppendIsConcat DEF v
        <5>4. SubSeq(h \o <<170>>, 1, 1 + 3 + n) = SubSeq(h, 1, 1 + 3 + n)
          BY <4>2, <5>2, FrontJoined
        <5>5. QED
          BY <5>3, <5>4
      <4>5. u[1 + 4 + n] = v[1 + 4 + n] /\ u[1 + 5 + n] = v[1 + 5 + n]
        <5>1. 1 + 4 + n = n + 5 /\ 1 + 5 + n = n + 6 /\ n + 5 \in 1 .. Len(h) /\ n + 5 \in 1 .. n + 5
              /\ Len(h) + 1 = n + 6 /\ 1 \in 1 .. Len(w)
          BY <1>1, <1>2, <1>3, <2>1
        <5>2. u[n + 6] = 170
          BY <1>4, <5>1
        <5>3. QED
          BY <1>4, <4>1, <5>1, <5>2
      <4>6. CrcFits(v, 1, n)
        BY <2>3, <4>3, <4>4, <4>5 DEF CrcFits
      <4>7. QED
        BY <1>1, <4>6 DEF v
    <3>2. ~m.whole
      BY <1>2, <3>1
    <3>3. SubSeq(u, n + 7, Len(u)) = c
      <4>1. SubSeq(u, Len(h) + 2, Len(u)) = SubSeq(w, 2, Len(w))
        <5> DEFINE s == SubSeq(u, Len(h) + 2, Len(u))
        <5>1. /\ s \in Seq(Byte) /\ Len(s) = Len(u) + 1 - (Len(h) + 2)
              /\ \A k \in 1 .. Len(u) + 1 - (Len(h) + 2) : s[k] = u[(Len(h) + 2) + k - 1]
          <6>1. /\ Len(h) + 2 \in Nat /\ Len(u) \in Nat /\ 1 <= Len(h) + 2
                /\ Len(u) <= Len(u) /\ Len(h) + 2 <= Len(u) + 1
            BY <1>2, <1>4, <2>1
          <6>2. QED
            BY <1>4, <6>1, Piece
        <5>2. /\ c \in Seq(Byte) /\ Len(c) = Len(w) + 1 - 2
              /\ \A k \in 1 .. Len(w) + 1 - 2 : c[k] = w[2 + k - 1]
          <6>1. w \in Seq(Byte) /\ Len(w) \in Nat /\ 2 \in Nat /\ 1 <= 2 /\ Len(w) <= Len(w) /\ 2 <= Len(w) + 1
            BY <1>2, <2>1
          <6>2. QED
            BY ONLY <6>1, Piece
        <5> HIDE DEF s, c
        <5>3. Len(s) = Len(c) /\ Len(c) = Len(w) - 1
          BY <1>2, <1>4, <5>1, <5>2
        <5>4. ASSUME NEW k \in 1 .. Len(s) PROVE s[k] = c[k]
          <6>1. /\ k \in 1 .. Len(u) + 1 - (Len(h) + 2) /\ k \in 1 .. Len(w) + 1 - 2
                /\ (Len(h) + 2) + k - 1 = Len(h) + (k + 1) /\ 2 + k - 1 = k + 1 /\ k + 1 \in 1 .. Len(w)
            BY <1>2, <1>4, <5>1, <5>3
          <6>2. QED
            BY <1>4, <5>1, <5>2, <6>1
        <5>5. s = c
          BY <5>1, <5>2, <5>3, <5>4, SameSeq
        <5>6. QED
          BY <5>5 DEF s, c
      <4>2. Len(h) + 2 = n + 7
        BY <1>1, <1>3
      <4>3. QED
        BY <4>1, <4>2
    <3>4. /\ c \in Seq(Byte) /\ Len(c) = Len(w) - 1 /\ \A k \in 1 .. Len(w) - 1 : c[k] = w[k + 1]
      <4>1. /\ c \in Seq(Byte) /\ Len(c) = Len(w) + 1 - 2
            /\ \A k \in 1 .. Len(w) + 1 - 2 : c[k] = w[2 + k - 1]
        <5>1. w \in Seq(Byte) /\ Len(w) \in Nat /\ 2 \in Nat /\ 1 <= 2 /\ Len(w) <= Len(w) /\ 2 <= Len(w) + 1
          BY <1>2, <2>1
        <5>2. QED
          BY ONLY <5>1, Piece
      <4> HIDE DEF c
      <4>2. QED
        BY <1>2, <4>1
    <3>5. x \in Seq(Byte)
      <4>1. n + 4 \in Nat /\ 5 <= (n + 4) + 1 /\ n + 4 <= Len(u)
        <5>1. Len(h) = n + 5 /\ Len(u) = Len(h) + Len(w) /\ Len(w) \in Nat /\ n \in Nat
          BY <1>1, <1>2, <1>3, <1>4
        <5>2. QED
          BY ONLY <5>1
      <4>2. QED
        BY <1>4, <4>1, Piece
    <3>6. Round(<<u, <<>>>>) = <<FromMark(c), Append(<<>>, x)>>
      BY <2>2, <2>3, <3>3 DEF Round
    <3>7. Len(w) >= 7 /\ \A k \in 1 .. Len(w) : w[k] = 85 => k <= 2
      <4>1. Len(a) \in Nat /\ 2 <= Len(a) /\ f[1] = 170
        BY FrameShape
      <4>2. \/ w = <<>> /\ ~m.whole
            \/ w = f
            \/ /\ ~m.whole /\ w \in Seq(Byte) /\ Len(w) = Len(a) + 5
               /\ \A k \in 1 .. 4 : w[k] = f[k]
               /\ \A k \in 3 .. Len(a) + 5 : w[k] # 85
               /\ w[Len(a) + 5] = f[6 + Len(a)] \/ (w[Len(a) + 5] = f[5 + Len(a)] /\ f[6 + Len(a)] # 170)
            \/ /\ ~m.whole /\ w \in Seq(Byte) /\ Len(w) = Len(a) + 6
               /\ \A k \in 1 .. 4 : w[k] = f[k]
               /\ \A k \in 3 .. Len(a) + 6 : w[k] # 85
            \/ /\ ~m.whole /\ w \in Seq(Byte) /\ Len(w) \in {Len(a) + 5, Len(a) + 6}
               /\ \A k \in 1 .. Len(w) : w[k] = 85 => k <= 2
               /\ ~MarkAt(w, 1)
               /\ w[1] = 85 => f = <<170>> \o w
        BY <1>8, LineShapes
      <4>3. /\ Len(w) \in {Len(a) + 5, Len(a) + 6}
            /\ \A k \in 1 .. Len(w) : w[k] = 85 => k <= 2
        BY <1>6, <3>1, <4>1, <4>2
      <4>4. QED
        BY <1>2, <4>1, <4>3
    <3> HIDE DEF c, x
    <3>8. \A j \in 1 .. Len(c) : c[j] = 85 => j <= 1
      <4> SUFFICES ASSUME NEW j \in 1 .. Len(c), c[j] = 85 PROVE j <= 1
        OBVIOUS
      <4>1. j + 1 \in 1 .. Len(w) /\ j \in 1 .. Len(w) - 1
        BY <1>2, <3>4
      <4>2. w[j + 1] = 85
        BY <3>4, <4>1
      <4>3. j + 1 <= 2
        BY <3>7, <4>1, <4>2
      <4>4. QED
        BY <4>3
    <3>9. Quiet(FromMark(c)) /\ ~Enough(FromMark(c))
      <4>1. \A j \in 1 .. Len(c) : c[j] = 85 => j <= Len(c) - 2
        BY <1>2, <3>4, <3>7, <3>8
      <4>2. \A j \in Nat : 1 <= j /\ j <= Len(c) - 2 => ~MarkAt(c, j)
        <5> SUFFICES ASSUME NEW j \in Nat, 1 <= j, j <= Len(c) - 2, MarkAt(c, j) PROVE FALSE
          OBVIOUS
        <5>1. j + 1 \in 1 .. Len(c) /\ c[j + 1] = 85
          BY <1>2, <3>4 DEF MarkAt
        <5>2. j + 1 <= 1
          BY <3>8, <5>1
        <5>3. QED
          BY <5>2
      <4>3. QED
        BY <3>4, <4>1, <4>2, QuietEnd
    <3> DEFINE y == FromMark(c)
               g == Append(<<>>, x)
    <3>10. y \in Seq(Byte) /\ g \in Seq(Seq(Byte)) /\ Quiet(y) /\ ~Enough(y)
      BY <3>4, <3>5, <3>9, FromMarkSeq
    <3>11. FromMark(u) = u /\ Round(<<u, <<>>>>) = <<y, g>>
      BY <2>2, <3>6
    <3> HIDE DEF y, g
    <3>12. Read(u) = <<y, g>>
      BY <1>4, <3>10, <3>11, ReadBy
    <3>13. Read(u)[1] = y
      BY <3>12
    <3>14. QED
      BY <3>2, <3>10, <3>13 DEF Harmless, u
  <2>4. CASE ~CrcFits(u, 1, n)
    <3> DEFINE s == SubSeq(h, 3, Len(h))
    <3>1. AfterBad(u) = s \o w
      <4>1. 3 \in 1 .. Len(h) + 1
        BY <1>1, <1>2
      <4>2. SubSeq(h \o w, 3, Len(h \o w)) = SubSeq(h, 3, Len(h)) \o w
        BY <1>2, <4>1, TailJoined
      <4>3. QED
        BY <4>2 DEF AfterBad, u
    <3>2. s \in Seq(Byte) /\ Quiet(s)
      <4>1. /\ s \in Seq(Byte) /\ Len(s) = Len(h) + 1 - 3
            /\ \A k \in 1 .. Len(h) + 1 - 3 : s[k] = h[3 + k - 1]
        <5>1. 3 \in Nat /\ 1 <= 3 /\ Len(h) <= Len(h) /\ 3 <= Len(h) + 1 /\ h \in Seq(Byte) /\ Len(h) \in Nat
          BY <1>1, <1>2
        <5>2. QED
          BY ONLY <5>1, Piece
      <4> HIDE DEF s
      <4>2. \A k \in 1 .. Len(s) : s[k] # 85
        <5> SUFFICES ASSUME NEW k \in 1 .. Len(s) PROVE s[k] # 85
          OBVIOUS
        <5>1. k \in 1 .. Len(h) + 1 - 3 /\ 3 + k - 1 \in 1 .. Len(h) /\ 3 + k - 1 # 2
          BY <1>1, <1>2, <4>1
        <5>2. 3 + k - 1 \in DOMAIN h
          BY <5>1, LenProperties
        <5>3. QED
          BY <1>1, <4>1, <5>1, <5>2
      <4>3. QED
        BY <4>1, <4>2, QuietType
    <3>3. s \o w \in Seq(Byte)
      BY <1>2, <3>2, ConcatProperties
    <3> HIDE DEF s
    <3>4. Round(<<u, <<>>>>) = <<FromMark(s \o w), <<>>>>
      BY <2>2, <2>4, <3>1 DEF Round
    <3>5. Round(<<FromMark(u), <<>>>>) = <<FromMark(s \o w), <<>>>>
      BY <2>2, <3>4
    <3>6. Read(u) = Read(s \o w)
      BY <1>4, <3>3, <3>5, ReadOn
    <3>7. /\ Harmless(Read(s \o w)[1])
          /\ m.whole => Read(s \o w)[2] = <<Coded(a)>>
      BY <1>8, <3>2, QuietJoin
    <3>8. QED
      BY <3>6, <3>7 DEF u
  <2>5. QED
    BY <2>3, <2>4
<1>7. QED
  BY <1>5, <1>6

LEMMA ResidueRead ==
  ASSUME NEW b \in Seq(Byte)
  PROVE  Residue(b) = Read(b)[1] /\ Parsed(b)[2] = Read(b)[2]
BY ParsedRead DEF Residue

LEMMA NothingLeft == Read(<<>>) = << <<>>, <<>> >> /\ Harmless(Residue(<<>>))
<1>1. <<>> \in Seq(Byte) /\ Len(<<>>) = 0
  OBVIOUS
<1>2. FromMark(<<>>) = <<>>
  <2>1. FromMark(<<>>) \in Seq(Byte) /\ Len(FromMark(<<>>)) <= 0 /\ Len(FromMark(<<>>)) \in Nat
    BY <1>1, FromMarkSeq
  <2>2. Len(FromMark(<<>>)) = 0
    BY <2>1
  <2>3. QED
    BY <2>1, <2>2, EmptySeq
<1>3. ~Enough(<<>>)
  BY DEF Enough
<1>4. Read(<<>>) = << <<>>, <<>> >>
  BY <1>1, <1>2, <1>3, ReadDone
<1>5. Residue(<<>>) = <<>>
  <2>0. PICK e \in Seq(Byte) : e = <<>>
    BY <1>1
  <2>1. PICK r : r = Read(e)
    OBVIOUS
  <2>2. r = <<e, e>>
    BY <1>4, <2>0, <2>1
  <2>3. r[1] = e
    BY <2>2
  <2>4. Residue(e) = r[1]
    BY <2>1, ResidueRead
  <2>5. QED
    BY <2>0, <2>3, <2>4
<1>6. Quiet(<<>>)
  BY DEF Quiet, Range
<1>7. QED
  BY <1>4, <1>5, <1>6 DEF Harmless

\* Behind harmless bytes a reply leaves harmless bytes, and is found if it is whole.
LEMMA HarmlessJoin ==
  ASSUME OnlyHeadsFit, SumsApart, MarksApart, NEW a \in Messages, NEW m \in Line(Frame(a)),
         ~m.misleads, NEW b \in Seq(Byte), Harmless(Residue(b))
  PROVE  /\ Harmless(Residue(b \o m.bytes))
         /\ \E g \in Seq(Seq(Byte)) :
              /\ Parsed(b \o m.bytes)[2] = Parsed(b)[2] \o g
              /\ m.whole => g = <<Coded(a)>>
<1>1. PICK w : w = m.bytes
  OBVIOUS
<1>2. PICK h : h = Read(b)[1]
  OBVIOUS
<1>3. w \in Seq(Byte)
  BY <1>1, FrameShape, LineType
<1>4. h \in Seq(Byte) /\ Residue(b) = h
  BY <1>2, ReadType, ResidueRead DEF Work
<1>5. Harmless(Read(h \o w)[1]) /\ (m.whole => Read(h \o w)[2] = <<Coded(a)>>)
  <2>1. CASE Quiet(h)
    BY <1>1, <1>4, <2>1, QuietJoin
  <2>2. CASE CutShort(h)
    BY <1>1, <1>4, <2>2, ShortJoin
  <2>3. QED
    BY <1>4, <2>1, <2>2 DEF Harmless
<1>6. b \o w \in Seq(Byte) /\ h \o w \in Seq(Byte)
  BY <1>3, <1>4, ConcatProperties
<1>7. Read(b \o w) = <<Read(h \o w)[1], Read(b)[2] \o Read(h \o w)[2]>>
  BY <1>2, <1>3, ReadJoin
<1>8. Read(b \o w)[1] = Read(h \o w)[1] /\ Read(b \o w)[2] = Read(b)[2] \o Read(h \o w)[2]
  <2>1. PICK y, z : y = Read(h \o w)[1] /\ z = Read(b)[2] \o Read(h \o w)[2]
    OBVIOUS
  <2>2. Read(b \o w) = <<y, z>>
    BY <1>7, <2>1
  <2>3. Read(b \o w)[1] = y /\ Read(b \o w)[2] = z
    BY <2>2
  <2>4. QED
    BY <2>1, <2>3
<1>9. Residue(b \o w) = Read(b \o w)[1] /\ Parsed(b \o w)[2] = Read(b \o w)[2] /\ Parsed(b)[2] = Read(b)[2]
  BY <1>6, ResidueRead
<1>10. Read(h \o w)[2] \in Seq(Seq(Byte))
  BY <1>6, ReadType DEF Work
<1>11. QED
  BY <1>1, <1>5, <1>8, <1>9, <1>10

\* Where the second byte of a mark may be in a reply
LEMMA LineMarks ==
  ASSUME MarksApart, NEW a \in Messages, NEW m \in Line(Frame(a)), ~m.misleads
  PROVE  \/ m.bytes = <<>>
         \/ Len(m.bytes) >= 7 /\ \A k \in 1 .. Len(m.bytes) : m.bytes[k] = 85 => k <= 2
<1> DEFINE w == m.bytes
           f == Frame(a)
           n == Len(a)
<1>1. n \in Nat /\ 2 <= n /\ f \in Seq(Byte) /\ Len(f) = 6 + n /\ f[1] = 170 /\ f[2] = 85
  BY FrameShape
<1>2. \A i \in 1 .. 6 + n : f[i] = 85 => i = 2
  BY <1>1, LenProperties DEF MarksApart
<1>3. \/ w = <<>> /\ ~m.whole
      \/ w = f
      \/ /\ ~m.whole /\ w \in Seq(Byte) /\ Len(w) = n + 5
         /\ \A k \in 1 .. 4 : w[k] = f[k]
         /\ \A k \in 3 .. n + 5 : w[k] # 85
         /\ w[n + 5] = f[6 + n] \/ (w[n + 5] = f[5 + n] /\ f[6 + n] # 170)
      \/ /\ ~m.whole /\ w \in Seq(Byte) /\ Len(w) = n + 6
         /\ \A k \in 1 .. 4 : w[k] = f[k]
         /\ \A k \in 3 .. n + 6 : w[k] # 85
      \/ /\ ~m.whole /\ w \in Seq(Byte) /\ Len(w) \in {n + 5, n + 6}
         /\ \A k \in 1 .. Len(w) : w[k] = 85 => k <= 2
         /\ ~MarkAt(w, 1)
         /\ w[1] = 85 => f = <<170>> \o w
  BY LineShapes
<1> HIDE DEF w, f, n
<1>4. w = <<>> \/ (Len(w) >= 7 /\ \A k \in 1 .. Len(w) : w[k] = 85 => k <= 2)
  BY <1>1, <1>2, <1>3
<1>5. QED
  BY <1>4 DEF w

\* The ends of what was sent, wherever a session begins to read
Tails(d) == \A k \in 1 .. Len(d) : Harmless(Residue(SubSeq(d, k, Len(d))))

LEMMA TailOfTail ==
  ASSUME NEW d \in Seq(Byte), NEW i \in 1 .. Len(d) + 1, NEW e, e = SubSeq(d, i, Len(d)),
         NEW k \in 1 .. Len(e) + 1
  PROVE  /\ i + k - 1 \in 1 .. Len(d) + 1
         /\ SubSeq(e, k, Len(e)) = SubSeq(d, i + k - 1, Len(d))
<1>1. Len(d) \in Nat /\ i \in Nat /\ 1 <= i /\ i <= Len(d) + 1
  BY LenProperties
<1>2. /\ e \in Seq(Byte) /\ Len(e) = Len(d) + 1 - i
      /\ \A j \in 1 .. Len(d) + 1 - i : e[j] = d[i + j - 1]
  BY <1>1, Piece
<1>3. k \in Nat /\ 1 <= k /\ k <= Len(d) + 2 - i /\ i + k - 1 \in 1 .. Len(d) + 1 /\ Len(e) \in Nat
  BY <1>1, <1>2
<1> DEFINE s == SubSeq(e, k, Len(e))
           t == SubSeq(d, i + k - 1, Len(d))
<1>4. /\ s \in Seq(Byte) /\ Len(s) = Len(e) + 1 - k
      /\ \A j \in 1 .. Len(e) + 1 - k : s[j] = e[k + j - 1]
  <2>1. e \in Seq(Byte) /\ k \in Nat /\ Len(e) \in Nat /\ 1 <= k /\ Len(e) <= Len(e) /\ k <= Len(e) + 1
    BY <1>1, <1>2, <1>3
  <2>2. QED
    BY ONLY <2>1, Piece
<1>5. /\ t \in Seq(Byte) /\ Len(t) = Len(d) + 1 - (i + k - 1)
      /\ \A j \in 1 .. Len(d) + 1 - (i + k - 1) : t[j] = d[(i + k - 1) + j - 1]
  <2>1. /\ d \in Seq(Byte) /\ i + k - 1 \in Nat /\ Len(d) \in Nat /\ 1 <= i + k - 1
        /\ Len(d) <= Len(d) /\ i + k - 1 <= Len(d) + 1
    BY <1>1, <1>3
  <2>2. QED
    BY ONLY <2>1, Piece
<1> HIDE DEF s, t
<1>6. Len(s) = Len(t)
  BY <1>1, <1>2, <1>3, <1>4, <1>5
<1>7. ASSUME NEW j \in 1 .. Len(s) PROVE s[j] = t[j]
  <2>1. /\ j \in 1 .. Len(e) + 1 - k /\ j \in 1 .. Len(d) + 1 - (i + k - 1)
        /\ k + j - 1 \in 1 .. Len(d) + 1 - i
        /\ i + (k + j - 1) - 1 = (i + k - 1) + j - 1
    BY <1>1, <1>2, <1>3, <1>4
  <2>2. QED
    BY <1>2, <1>4, <1>5, <2>1
<1>8. s = t
  BY <1>4, <1>5, <1>6, <1>7, SameSeq
<1>9. QED
  BY <1>3, <1>8 DEF s, t

\* They are the ends of whatever is left to read.
LEMMA TailsTail ==
  ASSUME NEW d \in Seq(Byte), NEW i \in 1 .. Len(d) + 1, NEW e, e = SubSeq(d, i, Len(d)), Tails(d)
  PROVE  e \in Seq(Byte) /\ Tails(e) /\ Harmless(Residue(e))
<1>1. e \in Seq(Byte) /\ Len(e) = Len(d) + 1 - i /\ Len(e) \in Nat /\ Len(d) \in Nat
  BY Halved, LenProperties
<1>2. ASSUME NEW k \in 1 .. Len(e) PROVE Harmless(Residue(SubSeq(e, k, Len(e))))
  <2>1. k \in 1 .. Len(e) + 1
    BY <1>1
  <2>2. SubSeq(e, k, Len(e)) = SubSeq(d, i + k - 1, Len(d))
    BY <2>1, TailOfTail
  <2>3. i + k - 1 \in 1 .. Len(d)
    BY <1>1
  <2>4. Harmless(Residue(SubSeq(d, i + k - 1, Len(d))))
    BY <2>3 DEF Tails
  <2>5. QED
    BY <2>2, <2>4
<1>3. Harmless(Residue(e))
  <2>1. CASE i \in 1 .. Len(d)
    BY <2>1 DEF Tails
  <2>2. CASE i = Len(d) + 1
    <3>1. Len(e) = 0
      BY <1>1, <2>2
    <3>2. e = <<>>
      BY <1>1, <3>1, EmptySeq
    <3>3. QED
      BY <3>2, NothingLeft
  <2>3. QED
    BY <1>1, <2>1, <2>2
<1>4. QED
  BY <1>1, <1>2, <1>3 DEF Tails

\* The ends of a reply
LEMMA TailsLine ==
  ASSUME OnlyHeadsFit, SumsApart, MarksApart, NEW a \in Messages, NEW m \in Line(Frame(a)),
         ~m.misleads
  PROVE  Tails(m.bytes)
<1>1. PICK w : w = m.bytes
  OBVIOUS
<1>2. w \in Seq(Byte) /\ Len(w) \in Nat
  BY <1>1, FrameShape, LineType, LenProperties
<1>3. w = <<>> \/ (Len(w) >= 7 /\ \A k \in 1 .. Len(w) : w[k] = 85 => k <= 2)
  BY <1>1, LineMarks
<1>4. ASSUME NEW k \in 1 .. Len(w) PROVE Harmless(Residue(SubSeq(w, k, Len(w))))
  <2>1. Len(w) >= 7 /\ \A j \in 1 .. Len(w) : w[j] = 85 => j <= 2
    <3>1. w # <<>>
      BY <1>4
    <3>2. QED
      BY <1>3, <3>1
  <2>2. CASE k = 1
    <3>1. SubSeq(w, k, Len(w)) = <<>> \o w
      BY <1>2, <2>2, SubSeqFull, ConcatEmptySeq
    <3>2. <<>> \in Seq(Byte)
      OBVIOUS
    <3>3. Harmless(Residue(<<>> \o w))
      BY <1>1, <3>2, NothingLeft, HarmlessJoin
    <3>4. QED
      BY <3>1, <3>3
  <2>3. CASE k # 1
    <3> DEFINE t == SubSeq(w, k, Len(w))
    <3>1. /\ t \in Seq(Byte) /\ Len(t) = Len(w) + 1 - k
          /\ \A j \in 1 .. Len(w) + 1 - k : t[j] = w[k + j - 1]
      <4>1. /\ w \in Seq(Byte) /\ k \in Nat /\ Len(w) \in Nat /\ 1 <= k
            /\ Len(w) <= Len(w) /\ k <= Len(w) + 1
        BY <1>2
      <4>2. QED
        BY ONLY <4>1, Piece
    <3> HIDE DEF t
    <3>2. ASSUME NEW j \in 1 .. Len(t), t[j] = 85 PROVE k = 2 /\ j = 1
      <4>1. j \in 1 .. Len(w) + 1 - k /\ k + j - 1 \in 1 .. Len(w)
        BY <1>2, <3>1
      <4>2. w[k + j - 1] = 85
        BY <3>1, <3>2, <4>1
      <4>3. k + j - 1 <= 2
        BY <2>1, <4>1, <4>2
      <4>4. QED
        BY <1>2, <2>3, <4>3
    <3>3. \A j \in 1 .. Len(t) : t[j] = 85 => j <= Len(t) - 2
      <4> SUFFICES ASSUME NEW j \in 1 .. Len(t), t[j] = 85 PROVE j <= Len(t) - 2
        OBVIOUS
      <4>1. k = 2 /\ j = 1
        BY <3>2
      <4>2. QED
        BY <1>2, <2>1, <3>1, <4>1
    <3>4. \A j \in Nat : 1 <= j /\ j <= Len(t) - 2 => ~MarkAt(t, j)
      <4> SUFFICES ASSUME NEW j \in Nat, 1 <= j, j <= Len(t) - 2, MarkAt(t, j) PROVE FALSE
        OBVIOUS
      <4>1. j + 1 \in 1 .. Len(t) /\ t[j + 1] = 85
        BY <1>2, <3>1 DEF MarkAt
      <4>2. j + 1 = 1
        BY <3>2, <4>1
      <4>3. QED
        BY <4>2
    <3>5. Quiet(FromMark(t)) /\ ~Enough(FromMark(t))
      BY <3>1, <3>3, <3>4, QuietEnd
    <3>6. Read(t) = <<FromMark(t), <<>>>>
      BY <3>1, <3>5, ReadDone
    <3>7. Read(t)[1] = FromMark(t)
      BY <3>6
    <3>8. Harmless(Residue(t))
      BY <3>1, <3>5, <3>7, ResidueRead DEF Harmless
    <3>9. QED
      BY <3>8 DEF t
  <2>4. QED
    BY <2>2, <2>3
<1>5. QED
  BY <1>1, <1>4 DEF Tails

LEMMA TailsJoin ==
  ASSUME OnlyHeadsFit, SumsApart, MarksApart, NEW a \in Messages, NEW m \in Line(Frame(a)),
         ~m.misleads, NEW d \in Seq(Byte), Tails(d)
  PROVE  Tails(d \o m.bytes)
<1>1. PICK w : w = m.bytes
  OBVIOUS
<1> DEFINE v == d \o w
<1>2. /\ w \in Seq(Byte) /\ Len(w) \in Nat /\ Len(d) \in Nat
      /\ v \in Seq(Byte) /\ Len(v) = Len(d) + Len(w)
  <2>1. w \in Seq(Byte)
    BY <1>1, FrameShape, LineType
  <2>2. QED
    BY <2>1, ConcatProperties, LenProperties
<1>3. ASSUME NEW k \in 1 .. Len(v) PROVE Harmless(Residue(SubSeq(v, k, Len(v))))
  <2>1. CASE k <= Len(d)
    <3>1. k \in 1 .. Len(d) + 1 /\ k \in 1 .. Len(d)
      BY <1>2, <2>1
    <3>2. SubSeq(v, k, Len(v)) = SubSeq(d, k, Len(d)) \o w
      BY <1>2, <3>1, TailJoined
    <3>3. SubSeq(d, k, Len(d)) \in Seq(Byte)
      BY <3>1, Halved
    <3>4. Harmless(Residue(SubSeq(d, k, Len(d))))
      BY <3>1 DEF Tails
    <3>5. Harmless(Residue(SubSeq(d, k, Len(d)) \o w))
      BY <1>1, <3>3, <3>4, HarmlessJoin
    <3>6. QED
      BY <3>2, <3>5
  <2>2. CASE ~(k <= Len(d))
    <3>1. w = SubSeq(v, Len(d) + 1, Len(v))
      <4>1. Len(d) + 1 \in 1 .. Len(d) + 1
        BY <1>2
      <4>2. SubSeq(v, Len(d) + 1, Len(v)) = SubSeq(d, Len(d) + 1, Len(d)) \o w
        BY <1>2, <4>1, TailJoined
      <4>3. SubSeq(d, Len(d) + 1, Len(d)) \in Seq(Byte) /\ Len(SubSeq(d, Len(d) + 1, Len(d))) = 0
        BY <1>2, <4>1, Halved
      <4>4. SubSeq(d, Len(d) + 1, Len(d)) = <<>>
        BY <4>3, EmptySeq
      <4>5. QED
        BY <1>2, <4>2, <4>4, ConcatEmptySeq
    <3> HIDE DEF v
    <3>2. /\ k - Len(d) \in 1 .. Len(w) + 1 /\ k - Len(d) \in 1 .. Len(w)
          /\ Len(d) + 1 \in 1 .. Len(v) + 1 /\ (Len(d) + 1) + (k - Len(d)) - 1 = k
      BY <1>2, <2>2
    <3>3. SubSeq(w, k - Len(d), Len(w)) = SubSeq(v, (Len(d) + 1) + (k - Len(d)) - 1, Len(v))
      BY <1>2, <3>1, <3>2, TailOfTail
    <3>4. Harmless(Residue(SubSeq(w, k - Len(d), Len(w))))
      BY <1>1, <3>2, TailsLine DEF Tails
    <3>5. QED
      BY <3>2, <3>3, <3>4
  <2>3. QED
    BY <2>1, <2>2
<1>4. QED
  BY <1>1, <1>3 DEF Tails

----------------------------------------------------------------------------
(* What is found, and what is left, step by step *)

LEMMA BytesRegroup ==
  \A x, y, z \in Seq(Byte) : (x \o y) \o z = x \o (y \o z)
BY Regroup

LEMMA PacketsRegroup ==
  \A x, y, z \in Seq(Seq(Byte)) : (x \o y) \o z = x \o (y \o z)
BY SMTT(30), Regroup

LEMMA FoundType ==
  ASSUME SumsApart, AboveTypes
  PROVE  /\ taken \in Seq(Seq(Byte)) /\ Decoded(queue) \in Seq(Seq(Byte))
         /\ Seen \in Seq(Seq(Byte)) /\ acc \o down \in Seq(Byte)
         /\ Parsed(acc \o down)[2] \in Seq(Seq(Byte))
         /\ Decoded(Parsed(acc \o down)[2]) \in Seq(Seq(Byte))
         /\ Found \in Seq(Seq(Byte))
<1>1. /\ taken \in Seq(Seq(Byte)) /\ Decoded(queue) \in Seq(Seq(Byte))
      /\ Seen \in Seq(Seq(Byte)) /\ acc \o down \in Seq(Byte)
  BY ChainType DEF AboveTypes
<1>2. Parsed(acc \o down)[2] \in Seq(Seq(Byte))
  BY <1>1, ParsedRead DEF Work
<1>3. Decoded(Parsed(acc \o down)[2]) \in Seq(Seq(Byte))
  BY <1>2, DecodedType
<1>4. QED
  BY <1>1, <1>2, <1>3, ConcatProperties DEF Found

LEMMA ReplyLine ==
  ASSUME ExecType, Reply
  PROVE  \E a \in Messages : \E m \in Line(Frame(a)) :
           /\ down' = down \o m.bytes
           /\ deaf' = (deaf \/ m.misleads)
           /\ due' = IF open /\ m.whole THEN Append(due, a) ELSE due
           /\ replied' = Append(replied, a)
           /\ acc' = acc /\ Seen' = Seen /\ open' = open
<1>1. PICK c \in Commands : exec = <<c>> /\ c # Reboot
  BY DEF Reply, ExecType
<1>2. exec[1] = c /\ Answer[c] \in Messages
  BY <1>1, AnswerType
<1>3. PICK m \in Line(Frame(Answer[c])) :
        /\ down' = down \o m.bytes
        /\ deaf' = (deaf \/ m.misleads)
        /\ due' = IF open /\ m.whole THEN Append(due, Answer[c]) ELSE due
        /\ replied' = Append(replied, Answer[c])
  BY <1>2 DEF Reply
<1>4. acc' = acc /\ Seen' = Seen /\ open' = open
  BY DEF Reply, host, Seen
<1>5. QED
  BY <1>2, <1>3, <1>4

\* Reading changes neither what is found nor what is left.
LEMMA ReadStays ==
  ASSUME SumsApart, AboveTypes, ReadReady
  PROVE  /\ \E i \in 1 .. Len(down) + 1 : down' = SubSeq(down, i, Len(down))
         /\ Residue(acc' \o down') = Residue(acc \o down)
         /\ Found' = Found /\ Parsed(acc')[2] = <<>>
<1>1. PICK k \in 1 .. Len(down) :
        LET b == acc \o SubSeq(down, 1, k)
            p == Parsed(b)
        IN  /\ acc' = p[1] /\ queue' = queue \o p[2]
            /\ down' = SubSeq(down, k + 1, Len(down))
  BY DEF ReadReady
<1>2. PICK h, r : h = SubSeq(down, 1, k) /\ r = SubSeq(down, k + 1, Len(down))
  OBVIOUS
<1>3. h \in Seq(Byte) /\ r \in Seq(Byte) /\ down = h \o r /\ k + 1 \in 1 .. Len(down) + 1
  <2>1. k + 1 \in 1 .. Len(down) + 1 /\ (k + 1) - 1 = k
    BY LenProperties DEF AboveTypes
  <2>2. QED
    BY <1>2, <2>1, Halved DEF AboveTypes
<1>4. PICK b : b = acc \o h
  OBVIOUS
<1>5. b \in Seq(Byte) /\ acc \in Seq(Byte) /\ down \in Seq(Byte)
  BY <1>3, <1>4, ConcatProperties DEF AboveTypes
<1>6. PICK e \in Seq(Byte), g \in Seq(Seq(Byte)) : Parsed(b) = <<e, g>> /\ Parsed(b)[1] = e /\ Parsed(b)[2] = g
  BY <1>5, ParsedRead, WorkParts
<1>7. acc' = e /\ queue' = queue \o g /\ down' = r /\ taken' = taken
  <2>1. taken' = taken
    BY DEF ReadReady, history
  <2>2. QED
    BY <1>1, <1>2, <1>4, <1>6, <2>1
<1>8. acc \o down = b \o r
  <2>1. (acc \o h) \o r = acc \o (h \o r)
    <3>1. acc \in Seq(Byte) /\ h \in Seq(Byte) /\ r \in Seq(Byte)
      BY <1>3, <1>5
    <3>2. QED
      BY ONLY ZenonT(30), <3>1, BytesRegroup
  <2>2. QED
    BY <1>3, <1>4, <2>1
<1>9. CutAlike(b, r)
  BY <1>3, <1>5, ReadsAddUp
<1>10. /\ g \o Parsed(e \o r)[2] = Parsed(b \o r)[2]
       /\ FromMark(Parsed(e \o r)[1]) = FromMark(Parsed(b \o r)[1])
  BY <1>6, <1>9 DEF CutAlike
<1>11. Residue(acc' \o down') = Residue(acc \o down)
  BY <1>7, <1>8, <1>10 DEF Residue
<1>12. Found' = Found
  <2>1. PICK s : s = Parsed(e \o r)[2]
    OBVIOUS
  <2>2. e \o r \in Seq(Byte)
    BY <1>3, <1>6, ConcatProperties
  <2>3. s \in Seq(Seq(Byte))
    BY <2>1, <2>2, ParsedRead DEF Work
  <2>4. queue \in Seq(Seq(Byte)) /\ taken \in Seq(Seq(Byte))
    BY DEF AboveTypes
  <2>5. Decoded(queue') = Decoded(queue) \o Decoded(g)
    BY <1>6, <1>7, <2>4, DecodedConcat
  <2>6. Decoded(g \o s) = Decoded(g) \o Decoded(s)
    BY <1>6, <2>3, DecodedConcat
  <2>7. PICK t, q, x, y : t = taken /\ q = Decoded(queue) /\ x = Decoded(g) /\ y = Decoded(s)
    OBVIOUS
  <2>8. t \in Seq(Seq(Byte)) /\ q \in Seq(Seq(Byte)) /\ x \in Seq(Seq(Byte)) /\ y \in Seq(Seq(Byte))
    BY <1>6, <2>3, <2>4, <2>7, DecodedType
  <2>9. Found' = (t \o (q \o x)) \o y
    BY <1>7, <2>1, <2>5, <2>7 DEF Found, Seen
  <2>10. Found = (t \o q) \o (x \o y)
    BY <1>8, <1>10, <2>1, <2>6, <2>7 DEF Found, Seen
  <2>11. (t \o (q \o x)) \o y = (t \o q) \o (x \o y)
    <3>1. t \o (q \o x) = (t \o q) \o x
      BY ZenonT(30), <2>8, PacketsRegroup
    <3>2. t \o q \in Seq(Seq(Byte))
      BY <2>8, ConcatProperties
    <3>3. ((t \o q) \o x) \o y = (t \o q) \o (x \o y)
      BY <2>8, <3>2, PacketsRegroup
    <3>4. QED
      BY <3>1, <3>3
  <2>12. QED
    BY <2>9, <2>10, <2>11
<1>13. Parsed(e)[2] = <<>>
  <2>1. FromMark(e) = Read(b)[1] /\ ~Enough(Read(b)[1])
    BY <1>5, <1>6, ParsedRead, ReadType
  <2>2. Read(e) = <<FromMark(e), <<>>>>
    BY <2>1, ReadDone
  <2>3. Read(e)[2] = <<>>
    BY <2>2
  <2>4. QED
    BY <2>3, ParsedRead
<1>14. QED
  BY <1>2, <1>3, <1>7, <1>11, <1>12, <1>13

LEMMA EmptyParsed == Parsed(<<>>)[2] = <<>> /\ <<>> \in Seq(Byte)
<1>1. Parsed(<<>>) = << <<>>, <<>> >>
  BY DEF Parsed
<1>2. QED
  BY <1>1

LEMMA KeptInit == Init => Kept
BY EmptyParsed DEF Init, Kept

LEMMA KeptStep ==
  ASSUME SumsApart, AboveTypes, Kept, [Next]_vars
  PROVE  Kept'
<1>1. CASE ReadReady
  <2>1. Parsed(acc')[2] = <<>>
    BY <1>1, ReadStays
  <2>2. open' = open /\ open
    BY <1>1 DEF ReadReady
  <2>3. QED
    BY <2>1, <2>2 DEF Kept
<1>2. CASE Close
  BY <1>2, EmptyParsed DEF Kept, Close
<1>3. CASE Open
  BY <1>3 DEF Kept, Open
<1>4. CASE Arrive \/ Silence \/ Recv \/ Reply \/ Reset \/ FakeReply \/ Ask \/ Poll \/ UNCHANGED vars
  <2>1. acc' = acc /\ open' = open
    BY <1>4 DEF Arrive, Silence, Recv, Reply, Reset, FakeReply, Ask, Poll, vars, host, history
  <2>2. QED
    BY <2>1 DEF Kept
<1>5. QED
  BY <1>1, <1>2, <1>3, <1>4 DEF Next

LEMMA FollowingDef ==
  Following <=> (~deaf => Harmless(Residue(acc \o down)) /\ Tails(down))
BY DEF Following, Tails

LEMMA FollowingInit == Init => Following
<1> SUFFICES ASSUME Init PROVE Following
  OBVIOUS
<1>1. acc = <<>> /\ down = <<>>
  BY DEF Init
<1>2. Harmless(Residue(<<>> \o <<>>))
  BY NothingLeft
<1>3. Tails(<<>>)
  BY DEF Tails
<1>4. QED
  BY <1>1, <1>2, <1>3, FollowingDef

LEMMA FollowingStep ==
  ASSUME OnlyHeadsFit, SumsApart, MarksApart, ExecType, AboveTypes, Kept, Following, [Next]_vars
  PROVE  Following'
<1>1. /\ acc \in Seq(Byte) /\ down \in Seq(Byte) /\ Len(down) \in Nat
      /\ ~deaf => Harmless(Residue(acc \o down)) /\ Tails(down)
  BY FollowingDef, LenProperties DEF AboveTypes
<1>2. SUFFICES ASSUME ~deaf' PROVE Harmless(Residue(acc' \o down')) /\ Tails(down')
  BY DEF Following, Tails
<1>3. ASSUME NEW i \in 1 .. Len(down) + 1, down' = SubSeq(down, i, Len(down)), acc' = <<>>, ~deaf
      PROVE  Harmless(Residue(acc' \o down')) /\ Tails(down')
  <2>1. down' \in Seq(Byte) /\ Tails(down') /\ Harmless(Residue(down'))
    BY <1>1, <1>3, TailsTail
  <2>2. <<>> \o down' = down'
    BY <2>1, ConcatEmptySeq
  <2>3. QED
    BY <1>3, <2>1, <2>2
<1>4. CASE Reply
  <2>1. PICK a \in Messages : \E m \in Line(Frame(a)) :
           down' = down \o m.bytes /\ deaf' = (deaf \/ m.misleads) /\ acc' = acc
    BY <1>4, ReplyLine
  <2>2. PICK m \in Line(Frame(a)) :
           down' = down \o m.bytes /\ deaf' = (deaf \/ m.misleads) /\ acc' = acc
    BY <2>1
  <2>3. ~deaf /\ ~m.misleads
    BY <1>2, <2>2
  <2>4. acc \o down \in Seq(Byte) /\ m.bytes \in Seq(Byte)
    BY <1>1, ConcatProperties, FrameShape, LineType
  <2>5. Harmless(Residue((acc \o down) \o m.bytes))
    BY <1>1, <2>3, <2>4, HarmlessJoin
  <2>6. (acc \o down) \o m.bytes = acc \o (down \o m.bytes)
    <3>1. PICK w : w = m.bytes
      OBVIOUS
    <3>2. (acc \o down) \o w = acc \o (down \o w)
      BY <1>1, <2>4, <3>1, BytesRegroup
    <3>3. QED
      BY <3>1, <3>2
  <2>7. Tails(down \o m.bytes)
    BY <1>1, <2>3, TailsJoin
  <2>8. QED
    BY <2>2, <2>5, <2>6, <2>7
<1>5. CASE ReadReady
  <2>1. ~deaf
    BY <1>2, <1>5 DEF ReadReady, history
  <2>2. PICK i \in 1 .. Len(down) + 1 : down' = SubSeq(down, i, Len(down))
    BY <1>5, ReadStays
  <2>3. Tails(down')
    BY <1>1, <2>1, <2>2, TailsTail
  <2>4. Residue(acc' \o down') = Residue(acc \o down)
    BY <1>5, ReadStays
  <2>5. QED
    BY <1>1, <2>1, <2>3, <2>4
<1>6. CASE Open
  <2>1. PICK k \in 0 .. Len(down) : down' = SubSeq(down, k + 1, Len(down))
    BY <1>6 DEF Open
  <2>2. acc' = <<>>
    BY <1>6 DEF Open, Kept
  <2>3. deaf' = (deaf /\ down' # <<>>)
    BY <1>6 DEF Open
  <2>4. CASE ~deaf
    <3>1. k + 1 \in 1 .. Len(down) + 1
      BY <1>1
    <3>2. QED
      BY <1>3, <2>1, <2>2, <2>4, <3>1
  <2>5. CASE down' = <<>>
    <3>1. acc' \o down' = <<>>
      BY <2>2, <2>5
    <3>2. Tails(<<>>)
      BY DEF Tails
    <3>3. QED
      BY <2>5, <3>1, <3>2, NothingLeft
  <2>6. QED
    BY <1>2, <2>3, <2>4, <2>5
<1>7. CASE Close
  <2>1. acc' = <<>> /\ down' = down /\ deaf' = deaf
    BY <1>7 DEF Close
  <2>2. 1 \in 1 .. Len(down) + 1 /\ SubSeq(down, 1, Len(down)) = down
    BY <1>1, SubSeqFull
  <2>3. QED
    BY <1>2, <1>3, <2>1, <2>2
<1>8. CASE Arrive \/ Silence \/ Recv \/ Reset \/ FakeReply \/ Ask \/ Poll \/ UNCHANGED vars
  <2>1. acc' = acc /\ down' = down /\ deaf' = deaf
    BY <1>8 DEF Arrive, Silence, Recv, Reset, FakeReply, Ask, Poll, vars, host, history
  <2>2. QED
    BY <1>1, <1>2, <2>1
<1>9. QED
  BY <1>4, <1>5, <1>6, <1>7, <1>8 DEF Next

\* What a reply adds to what is found, and what the made-up one does
LEMMA ReplyAdds ==
  ASSUME SumsApart, AboveTypes, ExecType, Reply
  PROVE  \E a \in Messages : \E m \in Line(Frame(a)) : \E g \in Seq(Seq(Byte)) :
           /\ Found' = Found \o g
           /\ deaf' = (deaf \/ m.misleads)
           /\ due' = IF open /\ m.whole THEN Append(due, a) ELSE due
           /\ replied' = Append(replied, a) /\ open' = open
           /\ OnlyHeadsFit /\ MarksApart /\ Following /\ ~deaf' /\ m.whole => g = <<a>>
<1>1. PICK a \in Messages : \E m \in Line(Frame(a)) :
           /\ down' = down \o m.bytes
           /\ deaf' = (deaf \/ m.misleads)
           /\ due' = IF open /\ m.whole THEN Append(due, a) ELSE due
           /\ replied' = Append(replied, a)
           /\ acc' = acc /\ Seen' = Seen /\ open' = open
  BY ReplyLine
<1>2. PICK m \in Line(Frame(a)) :
           /\ down' = down \o m.bytes
           /\ deaf' = (deaf \/ m.misleads)
           /\ due' = IF open /\ m.whole THEN Append(due, a) ELSE due
           /\ replied' = Append(replied, a)
           /\ acc' = acc /\ Seen' = Seen /\ open' = open
  BY <1>1
<1>3. PICK w : w = m.bytes
  OBVIOUS
<1>4. PICK b : b = acc \o down
  OBVIOUS
<1>5. /\ w \in Seq(Byte) /\ acc \in Seq(Byte) /\ down \in Seq(Byte) /\ b \in Seq(Byte)
      /\ Parsed(b)[2] \in Seq(Seq(Byte)) /\ Seen \in Seq(Seq(Byte))
  <2>1. w \in Seq(Byte)
    BY <1>3, FrameShape, LineType
  <2>2. QED
    BY <1>4, <2>1, FoundType DEF AboveTypes
<1>6. acc' \o down' = b \o w
  <2>1. (acc \o down) \o w = acc \o (down \o w)
    BY <1>5, BytesRegroup
  <2>2. QED
    BY <1>2, <1>3, <1>4, <2>1
<1>7. \E q \in Seq(Seq(Byte)) :
         /\ Parsed(b \o w)[2] = Parsed(b)[2] \o q
         /\ OnlyHeadsFit /\ MarksApart /\ Following /\ ~deaf' /\ m.whole => q = <<Coded(a)>>
  <2>1. CASE OnlyHeadsFit /\ MarksApart /\ Following /\ ~deaf'
    <3>1. ~deaf /\ ~m.misleads
      BY <1>2, <2>1
    <3>2. Harmless(Residue(b))
      BY <1>4, <2>1, <3>1 DEF Following
    <3>3. \E q \in Seq(Seq(Byte)) :
             /\ Parsed(b \o m.bytes)[2] = Parsed(b)[2] \o q
             /\ m.whole => q = <<Coded(a)>>
      BY <1>5, <2>1, <3>1, <3>2, HarmlessJoin
    <3>4. QED
      BY <1>3, <3>3
  <2>2. CASE ~(OnlyHeadsFit /\ MarksApart /\ Following /\ ~deaf')
    <3>1. PICK e : e = Parsed(b)[1]
      OBVIOUS
    <3>2. e \in Seq(Byte)
      BY <1>5, <3>1, ParsedRead DEF Work
    <3>3. e \o w \in Seq(Byte)
      BY <1>5, <3>2, ConcatProperties
    <3>4. Parsed(e \o w)[2] \in Seq(Seq(Byte))
      BY <3>3, ParsedRead DEF Work
    <3>5. CutAlike(b, w)
      BY <1>5, ReadsAddUp
    <3>6. Parsed(b \o w)[2] = Parsed(b)[2] \o Parsed(e \o w)[2]
      BY <3>1, <3>5 DEF CutAlike
    <3>7. QED
      BY <2>2, <3>4, <3>6
  <2>3. QED
    BY <2>1, <2>2
<1>8. PICK q \in Seq(Seq(Byte)) :
         /\ Parsed(b \o w)[2] = Parsed(b)[2] \o q
         /\ OnlyHeadsFit /\ MarksApart /\ Following /\ ~deaf' /\ m.whole => q = <<Coded(a)>>
  BY <1>7
<1>9. Decoded(q) \in Seq(Seq(Byte)) /\ Decoded(Parsed(b)[2]) \in Seq(Seq(Byte))
  BY <1>5, <1>8, DecodedType
<1>10. Found' = Found \o Decoded(q)
  <2>1. Decoded(Parsed(b \o w)[2]) = Decoded(Parsed(b)[2]) \o Decoded(q)
    BY <1>5, <1>8, DecodedConcat
  <2>2. PICK s, x, y : s = Seen /\ x = Decoded(Parsed(b)[2]) /\ y = Decoded(q)
    OBVIOUS
  <2>3. s \in Seq(Seq(Byte)) /\ x \in Seq(Seq(Byte)) /\ y \in Seq(Seq(Byte))
    BY <1>5, <1>9, <2>2
  <2>4. (s \o x) \o y = s \o (x \o y)
    BY ZenonT(30), <2>3, PacketsRegroup
  <2>5. Found = s \o x
    BY <1>4, <2>2 DEF Found
  <2>6. Found' = s \o (x \o y)
    BY <1>2, <1>6, <2>1, <2>2 DEF Found
  <2>7. QED
    BY <2>2, <2>4, <2>5, <2>6
<1>11. q = <<Coded(a)>> => Decoded(q) = <<a>>
  <2>1. a \in Seq(Byte)
    BY HeadType
  <2>2. Coded(a) \in Seq(Byte) /\ Coded(Coded(a)) = a
    BY <2>1, CodedType
  <2>3. QED
    BY <2>2, DecodedOne
<1>12. QED
  BY <1>2, <1>8, <1>9, <1>10, <1>11

LEMMA FakeAdds ==
  ASSUME SumsApart, AboveTypes, FakeReply
  PROVE  Given(Found, Found')
<1>1. /\ taken' = taken /\ queue' = Append(queue, <<>>) /\ acc' = acc /\ down' = down
  BY DEF FakeReply, history
<1>2. <<>> \in Seq(Byte) /\ queue \in Seq(Seq(Byte)) /\ taken \in Seq(Seq(Byte))
  BY DEF AboveTypes
<1>3. PICK o \in Seq(Seq(Byte)) : queue' = queue \o o
  <2>1. PICK e \in Seq(Byte) : e = <<>>
    BY <1>2
  <2>2. <<e>> \in Seq(Seq(Byte)) /\ Append(queue, e) = queue \o <<e>>
    BY <1>2, AppendIsConcat
  <2>3. QED
    BY <1>1, <2>1, <2>2
<1>4. PICK t, q, x, y : t = taken /\ q = Decoded(queue) /\ x = Decoded(o) /\ y = Decoded(Parsed(acc \o down)[2])
  OBVIOUS
<1>5. t \in Seq(Seq(Byte)) /\ q \in Seq(Seq(Byte)) /\ x \in Seq(Seq(Byte)) /\ y \in Seq(Seq(Byte))
  BY <1>2, <1>3, <1>4, DecodedType, FoundType
<1>6. Decoded(queue') = q \o x
  BY <1>2, <1>3, <1>4, DecodedConcat
<1>7. Found = (t \o q) \o y
  BY <1>4 DEF Found, Seen
<1>8. Found' = (t \o (q \o x)) \o y
  BY <1>1, <1>4, <1>6 DEF Found, Seen
<1>9. t \o (q \o x) = (t \o q) \o x
  BY ZenonT(30), <1>5, PacketsRegroup
<1>10. t \o q \in Seq(Seq(Byte)) /\ (t \o q) \o x \in Seq(Seq(Byte))
  BY <1>5, ConcatProperties
<1>11. Given(t \o q, (t \o q) \o x)
  <2>1. PICK s \in Seq(Seq(Byte)) : s = t \o q
    BY <1>10
  <2>2. Given(s, s \o x)
    BY <1>5, GivenFront
  <2>3. QED
    BY <2>1, <2>2
<1>12. Given((t \o q) \o y, ((t \o q) \o x) \o y)
  <2>1. PICK s \in Seq(Seq(Byte)), r \in Seq(Seq(Byte)) : s = t \o q /\ r = (t \o q) \o x
    BY <1>10
  <2>2. Given(s, r) /\ Given(y, y)
    BY <1>5, <1>11, <2>1, GivenSelf
  <2>3. Given(s \o y, r \o y)
    BY <1>5, <2>2, GivenConcat
  <2>4. QED
    BY <2>1, <2>3
<1>13. QED
  BY <1>7, <1>8, <1>9, <1>12

DueType == due \in Seq(Messages)

LEMMA DueTypeStep ==
  ASSUME ExecType, DueType, [Next]_vars
  PROVE  DueType'
<1>1. CASE Reply
  <2>1. PICK a \in Messages : due' = Append(due, a) \/ due' = due
    <3>1. PICK a \in Messages : \E m \in Line(Frame(a)) :
            due' = IF open /\ m.whole THEN Append(due, a) ELSE due
      BY <1>1, ReplyLine
    <3>2. QED
      BY <3>1
  <2>2. QED
    BY <2>1, AppendProperties DEF DueType
<1>2. CASE Open \/ Close
  <2>1. due' = <<>>
    BY <1>2 DEF Open, Close
  <2>2. <<>> \in Seq(Messages)
    OBVIOUS
  <2>3. QED
    BY <2>1, <2>2 DEF DueType
<1>3. CASE Arrive \/ Silence \/ Recv \/ Reset \/ ReadReady \/ FakeReply \/ Ask \/ Poll \/ UNCHANGED vars
  <2>1. due' = due
    BY <1>3 DEF Arrive, Silence, Recv, Reset, ReadReady, FakeReply, Ask, Poll, vars, history
  <2>2. QED
    BY <2>1 DEF DueType
<1>4. QED
  BY <1>1, <1>2, <1>3 DEF Next

LEMMA DueIsFull ==
  ASSUME DueType
  PROVE  Full(due) = DOMAIN due /\ due \in Seq(Seq(Byte))
<1>1. \A i \in DOMAIN due : due[i] \in Messages
  BY ElementOfSeq, LenProperties DEF DueType
<1>2. \A m \in Messages : m # <<>> /\ m \in Seq(Byte)
  <2> SUFFICES ASSUME NEW m \in Messages PROVE m # <<>> /\ m \in Seq(Byte)
    OBVIOUS
  <2>1. m \in Seq(Byte) /\ 2 <= Len(m)
    BY HeadType
  <2>2. QED
    BY <2>1
<1>3. Full(due) = DOMAIN due
  BY <1>1, <1>2 DEF Full
<1>4. due \in Seq(Seq(Byte))
  BY <1>2 DEF DueType
<1>5. QED
  BY <1>3, <1>4

LEMMA DeliveredStep ==
  ASSUME OnlyHeadsFit, SumsApart, MarksApart, ExecType, AboveTypes, DueType, Kept, Following,
         Delivered, [Next]_vars
  PROVE  Delivered'
<1>1. /\ Found \in Seq(Seq(Byte)) /\ due \in Seq(Seq(Byte))
      /\ open /\ ~deaf => Given(due, Found)
  BY FoundType, DueIsFull DEF Delivered
<1>2. Found' \in Seq(Seq(Byte))
  <2>1. AboveTypes'
    BY AboveTypesStep
  <2>2. (acc \o down)' \in Seq(Byte) /\ (Decoded(queue))' \in Seq(Seq(Byte)) /\ taken' \in Seq(Seq(Byte))
    BY <2>1, ConcatProperties, DecodedType DEF AboveTypes
  <2>3. Parsed(acc \o down)[2]' \in Seq(Seq(Byte))
    BY <2>2, ParsedRead DEF Work
  <2>4. Decoded(Parsed(acc \o down)[2])' \in Seq(Seq(Byte)) /\ Seen' \in Seq(Seq(Byte))
    BY <2>2, <2>3, DecodedType, ConcatProperties DEF Seen
  <2>5. QED
    BY <2>4, ConcatProperties DEF Found
<1>3. CASE Reply
  <2>1. PICK a \in Messages : \E m \in Line(Frame(a)) : \E g \in Seq(Seq(Byte)) :
           /\ Found' = Found \o g
           /\ deaf' = (deaf \/ m.misleads)
           /\ due' = IF open /\ m.whole THEN Append(due, a) ELSE due
           /\ open' = open
           /\ ~deaf' /\ m.whole => g = <<a>>
    BY <1>3, ReplyAdds
  <2>2. PICK m \in Line(Frame(a)) : \E g \in Seq(Seq(Byte)) :
           /\ Found' = Found \o g
           /\ deaf' = (deaf \/ m.misleads)
           /\ due' = IF open /\ m.whole THEN Append(due, a) ELSE due
           /\ open' = open
           /\ ~deaf' /\ m.whole => g = <<a>>
    BY <2>1
  <2>3. PICK g \in Seq(Seq(Byte)) :
           /\ Found' = Found \o g
           /\ deaf' = (deaf \/ m.misleads)
           /\ due' = IF open /\ m.whole THEN Append(due, a) ELSE due
           /\ open' = open
           /\ ~deaf' /\ m.whole => g = <<a>>
    BY <2>2
  <2>4. SUFFICES ASSUME open', ~deaf' PROVE Given(due', Found')
    BY DEF Delivered
  <2>5. Given(due, Found) /\ open
    BY <1>1, <2>3, <2>4
  <2>6. CASE m.whole
    <3>1. g = <<a>> /\ due' = Append(due, a)
      BY <2>3, <2>4, <2>5, <2>6
    <3>2. a \in Seq(Byte)
      BY HeadType
    <3>3. due' = due \o g
      BY <1>1, <3>1, <3>2, AppendIsConcat
    <3>4. Given(g, g)
      BY GivenSelf
    <3>5. Given(due \o g, Found \o g)
      BY <1>1, <2>5, <3>4, GivenConcat
    <3>6. QED
      BY <2>3, <3>3, <3>5
  <2>7. CASE ~m.whole
    <3>1. due' = due
      BY <2>3, <2>7
    <3>2. Given(Found, Found \o g) /\ Found \o g \in Seq(Seq(Byte))
      BY <1>1, GivenFront, ConcatProperties
    <3>3. Given(due, Found \o g)
      BY <1>1, <2>5, <3>2, GivenTrans
    <3>4. QED
      BY <2>3, <3>1, <3>3
  <2>8. QED
    BY <2>6, <2>7
<1>4. ASSUME open' = open, deaf' = deaf, due' = due, Given(Found, Found')
      PROVE  Delivered'
  <2>1. SUFFICES ASSUME open, ~deaf PROVE Given(due, Found')
    BY <1>4 DEF Delivered
  <2>2. Given(due, Found)
    BY <1>1, <2>1
  <2>3. QED
    BY <1>1, <1>2, <1>4, <2>2, GivenTrans
<1>5. CASE ReadReady
  <2>1. Found' = Found
    BY <1>5, ReadStays
  <2>2. Given(Found, Found')
    BY <1>1, <2>1, GivenSelf
  <2>3. open' = open /\ deaf' = deaf /\ due' = due
    BY <1>5 DEF ReadReady, history
  <2>4. QED
    BY <1>4, <2>2, <2>3
<1>6. CASE FakeReply
  <2>1. Given(Found, Found')
    BY <1>6, FakeAdds
  <2>2. open' = open /\ deaf' = deaf /\ due' = due
    BY <1>6 DEF FakeReply, history
  <2>3. QED
    BY <1>4, <2>1, <2>2
<1>7. CASE Poll
  <2>1. Seen' = Seen /\ acc' = acc /\ down' = down
    BY <1>7, PollMoves DEF Poll
  <2>2. Found' = Found
    BY <2>1 DEF Found
  <2>3. Given(Found, Found')
    BY <1>1, <2>2, GivenSelf
  <2>4. open' = open /\ deaf' = deaf /\ due' = due
    BY <1>7 DEF Poll
  <2>5. QED
    BY <1>4, <2>3, <2>4
<1>8. CASE Open
  <2>1. due' = <<>>
    BY <1>8 DEF Open
  <2>2. Full(<<>>) = {}
    BY DEF Full
  <2>3. Given(<<>>, Found')
    BY <2>2, GivenEmpty
  <2>4. QED
    BY <2>1, <2>3 DEF Delivered
<1>9. CASE Close
  BY <1>9 DEF Close, Delivered
<1>10. CASE Arrive \/ Silence \/ Recv \/ Reset \/ Ask \/ UNCHANGED vars
  <2>1. /\ acc' = acc /\ queue' = queue /\ taken' = taken /\ down' = down
        /\ open' = open /\ deaf' = deaf /\ due' = due
    BY <1>10 DEF Arrive, Silence, Recv, Reset, Ask, vars, host, history
  <2>2. Found' = Found
    BY <2>1 DEF Found, Seen
  <2>3. Given(Found, Found')
    BY <1>1, <2>2, GivenSelf
  <2>4. QED
    BY <1>4, <2>1, <2>3
<1>11. QED
  BY <1>3, <1>5, <1>6, <1>7, <1>8, <1>9, <1>10 DEF Next

----------------------------------------------------------------------------
(* Theorems *)

LEMMA DueTypeInit == Init => DueType
<1> SUFFICES ASSUME Init PROVE DueType
  OBVIOUS
<1>1. due = <<>> /\ <<>> \in Seq(Messages)
  BY DEF Init
<1>2. QED
  BY <1>1 DEF DueType

LEMMA DeliveredInit == Init => Delivered
BY DEF Init, Delivered

\* When nothing is on the way, what is found is what the tool has.
LEMMA AllSeen ==
  ASSUME SumsApart, AboveTypes, Kept, down = <<>>
  PROVE  Found = Seen /\ Seen \in Seq(Seq(Byte))
<1>1. acc \o <<>> = acc
  <2>1. PICK s \in Seq(Byte) : s = acc
    BY DEF AboveTypes
  <2>2. s \o <<>> = s
    BY ConcatEmptySeq
  <2>3. QED
    BY <2>1, <2>2
<1>2. Parsed(acc \o down)[2] = <<>>
  BY <1>1 DEF Kept
<1>3. Decoded(<<>>) = <<>>
  BY DEF Decoded
<1>4. Seen \in Seq(Seq(Byte))
  BY FoundType
<1>5. Found = Seen \o <<>>
  BY <1>2, <1>3 DEF Found
<1>6. PICK s \in Seq(Seq(Byte)) : s = Seen
  BY <1>4
<1>7. s \o <<>> = s
  BY ConcatEmptySeq
<1>8. QED
  BY <1>4, <1>5, <1>6, <1>7

\* A reply that starts during a session and arrives whole is found in the end, in
\* its place among the others, unless the line hit a length or took the last byte
\* of a frame that a mark completes.  The stream may begin anywhere in a late
\* reply, replies may be damaged or lost, and it may be read in pieces of any size.
THEOREM NothingIsSwallowed ==
  ASSUME OnlyHeadsFit, SumsApart, MarksApart
  PROVE  Spec => []NothingSwallowed
<1> DEFINE IInv == /\ BelowTypes /\ Carried /\ ExecType /\ AboveTypes
                   /\ DueType /\ Kept /\ Following /\ Delivered
<1>1. Init => IInv
  BY BelowTypesInit, CarriedInit, AboveTypesInit, DueTypeInit, KeptInit, FollowingInit,
     DeliveredInit
<1>2. IInv /\ [Next]_vars => IInv'
  BY BelowTypesStep, CarriedStep, AboveTypesStep, DueTypeStep, KeptStep, FollowingStep,
     DeliveredStep
<1>3. IInv => NothingSwallowed
  <2> SUFFICES ASSUME IInv, open, down = <<>>, ~deaf PROVE Within(due, Seen)
    BY DEF NothingSwallowed
  <2>1. Given(due, Seen)
    BY AllSeen DEF Delivered
  <2>2. Full(due) = DOMAIN due
    BY DueIsFull
  <2>3. QED
    BY <2>1, <2>2 DEF Given, Within
<1>4. QED
  BY <1>1, <1>2, <1>3, PTL DEF Spec

\* The whole inductive invariant, as the run checks it
THEOREM LineInvHolds ==
  ASSUME OnlyHeadsFit, SumsApart, MarksApart
  PROVE  Spec => []LineInv
<1> DEFINE IInv == /\ BelowTypes /\ Hearing /\ Carried /\ ExecType /\ AboveTypes /\ Charged
                   /\ DueType /\ Kept /\ Following /\ Delivered
<1>1. Init => IInv
  BY BelowTypesInit, HearingInit, CarriedInit, AboveTypesInit, ChargedInit, DueTypeInit,
     KeptInit, FollowingInit, DeliveredInit
<1>2. IInv /\ [Next]_vars => IInv'
  BY BelowTypesStep, HearingStep, CarriedStep, AboveTypesStep, ChargedStep, DueTypeStep,
     KeptStep, FollowingStep, DeliveredStep
<1>3. IInv => LineInv
  BY DEF LineInv, StreamInv
<1>4. QED
  BY <1>1, <1>2, <1>3, PTL DEF Spec

\* During a session what is found only grows at its end, by a reply, or by the
\* made-up one: nothing is lost again or moved, whatever the line makes of the
\* replies and wherever on_readReady cuts the stream.
THEOREM FoundStaysHolds ==
  ASSUME OnlyHeadsFit, SumsApart
  PROVE  Spec => FoundStays
<1> DEFINE IInv == BelowTypes /\ Carried /\ ExecType /\ AboveTypes
           Stays == open' = open =>
                      \/ Found' = Found
                      \/ replied' # replied /\ IsPrefix(Found, Found')
                      \/ fake /\ ~fake'
<1>1. Init => IInv
  BY BelowTypesInit, CarriedInit, AboveTypesInit
<1>2. IInv /\ [Next]_vars => IInv'
  BY BelowTypesStep, CarriedStep, AboveTypesStep
<1>3. IInv /\ [Next]_vars => [Stays]_vars
  <2> SUFFICES ASSUME IInv, [Next]_vars, open' = open
               PROVE  \/ Found' = Found
                      \/ replied' # replied /\ IsPrefix(Found, Found')
                      \/ fake /\ ~fake'
    OBVIOUS
  <2>1. CASE Reply
    <3>1. PICK a \in Messages : \E g \in Seq(Seq(Byte)) :
             Found' = Found \o g /\ replied' = Append(replied, a)
      <4>1. PICK a \in Messages : \E m \in Line(Frame(a)) : \E g \in Seq(Seq(Byte)) :
               Found' = Found \o g /\ replied' = Append(replied, a)
        BY <2>1, ReplyAdds
      <4>2. QED
        BY <4>1
    <3>2. PICK g \in Seq(Seq(Byte)) : Found' = Found \o g /\ replied' = Append(replied, a)
      BY <3>1
    <3>3. replied' # replied
      <4>1. replied \in Seq(Messages)
        BY DEF AboveTypes
      <4>2. Len(Append(replied, a)) = Len(replied) + 1 /\ Len(replied) \in Nat
        BY <4>1
      <4>3. QED
        BY <3>2, <4>2
    <3>4. IsPrefix(Found, Found')
      <4>1. PICK s \in Seq(Seq(Byte)) : s = Found
        BY FoundType
      <4>2. IsPrefix(s, s \o g)
        BY DEF IsPrefix
      <4>3. QED
        BY <3>2, <4>1, <4>2
    <3>5. QED
      BY <3>3, <3>4
  <2>2. CASE ReadReady
    BY <2>2, ReadStays
  <2>3. CASE FakeReply
    BY <2>3 DEF FakeReply
  <2>4. CASE Open \/ Close
    BY <2>4 DEF Open, Close
  <2>5. CASE Poll
    <3>1. Seen' = Seen /\ acc' = acc /\ down' = down
      BY <2>5, PollMoves DEF Poll
    <3>2. QED
      BY <3>1 DEF Found
  <2>6. CASE Arrive \/ Silence \/ Recv \/ Reset \/ Ask \/ UNCHANGED vars
    <3>1. acc' = acc /\ queue' = queue /\ taken' = taken /\ down' = down
      BY <2>6 DEF Arrive, Silence, Recv, Reset, Ask, vars, host, history
    <3>2. QED
      BY <3>1 DEF Found, Seen
  <2>7. QED
    BY <2>1, <2>2, <2>3, <2>4, <2>5, <2>6 DEF Next
<1>4. QED
  BY <1>1, <1>2, <1>3, PTL DEF Spec, FoundStays

=============================================================================
