---------------------------- MODULE SerialProofs ----------------------------
(***************************************************************************)
(* SerialLine downwards, for every key, every set of messages and every    *)
(* checksum: what is heard, what is executed, and in which order.          *)
(***************************************************************************)
EXTENDS SerialInvariants, SequenceTheorems, WellFoundedInduction, TLAPS

----------------------------------------------------------------------------
(* Induction *)

\* A set of numbers that is not empty has a least element.
LEMMA LeastNat ==
  ASSUME NEW T, T \subseteq Nat, T # {}
  PROVE  \E n \in T : \A m \in T : n <= m
<1> DEFINE R == OpToRel(<, Nat)
<1>1. IsWellFoundedOn(R, Nat)
  BY NatLessThanWellFounded
<1>2. R = {ss \in Nat \X Nat : ss[1] < ss[2]}
  BY DEF OpToRel
<1> HIDE DEF R
<1>3. PICK n \in T : \A m \in T : ~(<<m, n>> \in R)
  BY <1>1, WFMin
<1>4. \A m \in T : ~(m < n)
  BY <1>2, <1>3
<1>5. QED
  BY <1>4

\* A set that holds 0 and the successor of whatever it holds holds all numbers.
LEMMA Induction ==
  ASSUME NEW S, 0 \in S, \A n \in Nat : n \in S => n + 1 \in S
  PROVE  Nat \subseteq S
<1> SUFFICES ASSUME Nat \ S # {} PROVE FALSE
  OBVIOUS
<1>1. PICK n \in Nat \ S : \A m \in Nat \ S : n <= m
  BY LeastNat
<1>2. n - 1 \in Nat /\ n - 1 \in S
  BY <1>1
<1>3. QED
  BY <1>1, <1>2

----------------------------------------------------------------------------
(* Frames *)

\* The two bytes of a length
LEMMA Halves ==
  ASSUME NEW n \in Nat, n < 256 * 256
  PROVE  /\ n % 256 \in Byte /\ n \div 256 \in Byte
         /\ (n % 256) + 256 * (n \div 256) = n
<1>1. n % 256 \in 0 .. 255
  OBVIOUS
<1>2. n \div 256 \in 0 .. 255
  OBVIOUS
<1>3. (n % 256) + 256 * (n \div 256) = n
  OBVIOUS
<1>4. QED
  BY <1>1, <1>2, <1>3 DEF Byte

\* What the key makes of a sequence is as long, and undone by the key.
LEMMA CodedType ==
  ASSUME NEW s \in Seq(Byte)
  PROVE  /\ Coded(s) \in Seq(Byte)
         /\ Len(Coded(s)) = Len(s)
         /\ \A i \in 1 .. Len(s) : Coded(s)[i] = Key[s[i]]
         /\ Coded(Coded(s)) = s
<1>1. DOMAIN s = 1 .. Len(s) /\ \A i \in 1 .. Len(s) : s[i] \in Byte
  BY LenProperties, ElementOfSeq
<1>2. \A i \in 1 .. Len(s) : Key[s[i]] \in Byte /\ Key[Key[s[i]]] = s[i]
  BY <1>1, KeyAssumption
<1>3. Coded(s) = [i \in 1 .. Len(s) |-> Key[s[i]]]
  BY <1>1 DEF Coded
<1>4. Coded(s) \in Seq(Byte) /\ Len(Coded(s)) = Len(s)
  BY <1>2, <1>3
<1>5. Coded(Coded(s)) = [i \in 1 .. Len(s) |-> s[i]]
  BY <1>2, <1>3 DEF Coded
<1>6. [i \in 1 .. Len(s) |-> s[i]] = s
  BY <1>1
<1>7. QED
  BY <1>3, <1>4, <1>5, <1>6

\* The head of a frame: mark, length, and the body behind them
LEMMA HeadType ==
  ASSUME NEW m \in Messages
  PROVE  /\ m \in Seq(Byte) /\ Len(m) \in Nat /\ 2 <= Len(m) /\ Len(m) < 256 * 256
         /\ HeadOf(m) \in Seq(Byte)
         /\ Len(HeadOf(m)) = 4 + Len(m)
         /\ HeadOf(m)[1] = 170 /\ HeadOf(m)[2] = 85
         /\ U16(HeadOf(m), 3) = Len(m)
         /\ \A i \in 1 .. Len(m) : HeadOf(m)[4 + i] = Coded(m)[i]
<1> DEFINE h == <<170, 85, Len(m) % 256, Len(m) \div 256>>
<1>1. m \in Seq(Byte) /\ Len(m) \in Nat /\ 2 <= Len(m) /\ Len(m) < 256 * 256
  BY MessageAssumption
<1>2. /\ (Len(m) % 256) \in Byte /\ Len(m) \div 256 \in Byte
      /\ (Len(m) % 256) + 256 * (Len(m) \div 256) = Len(m)
  BY <1>1, Halves
<1>3. h \in Seq(Byte) /\ Len(h) = 4
  BY <1>2 DEF Byte
<1>4. Coded(m) \in Seq(Byte) /\ Len(Coded(m)) = Len(m)
  BY <1>1, CodedType
<1>5. HeadOf(m) = h \o Coded(m)
  BY DEF HeadOf
<1> HIDE DEF h
<1>6. /\ HeadOf(m) \in Seq(Byte) /\ Len(HeadOf(m)) = 4 + Len(m)
      /\ \A i \in 1 .. 4 + Len(m) : HeadOf(m)[i] = IF i <= 4 THEN h[i] ELSE Coded(m)[i - 4]
  <2>1. /\ h \o Coded(m) \in Seq(Byte)
        /\ Len(h \o Coded(m)) = Len(h) + Len(Coded(m))
        /\ \A i \in 1 .. Len(h) + Len(Coded(m)) :
             (h \o Coded(m))[i] = IF i <= Len(h) THEN h[i] ELSE Coded(m)[i - Len(h)]
    <3>1. ASSUME NEW t \in Seq(Byte)
          PROVE  /\ h \o t \in Seq(Byte)
                 /\ Len(h \o t) = Len(h) + Len(t)
                 /\ \A i \in 1 .. Len(h) + Len(t) :
                      (h \o t)[i] = IF i <= Len(h) THEN h[i] ELSE t[i - Len(h)]
      BY <1>3, ConcatProperties
    <3>2. QED
      BY <1>4, <3>1
  <2>2. QED
    BY <1>3, <1>4, <1>5, <2>1
<1>7. \A i \in 1 .. 4 : HeadOf(m)[i] = h[i]
  BY <1>1, <1>6
<1>8. \A i \in 1 .. Len(m) : HeadOf(m)[4 + i] = Coded(m)[i]
  BY <1>1, <1>6
<1>9. U16(HeadOf(m), 3) = Len(m)
  BY <1>2, <1>7 DEF U16, h
<1>10. QED
  BY <1>1, <1>6, <1>7, <1>8, <1>9 DEF h

\* A frame: the head, and the two bytes of its sum
LEMMA FrameType ==
  ASSUME NEW m \in Messages
  PROVE  /\ Frame(m) \in Seq(Byte)
         /\ Len(Frame(m)) = 6 + Len(m)
         /\ \A i \in 1 .. 4 + Len(m) : Frame(m)[i] = HeadOf(m)[i]
         /\ CRC(HeadOf(m)) = <<Frame(m)[5 + Len(m)], Frame(m)[6 + Len(m)]>>
<1>1. PICK x \in Byte, y \in Byte : CRC(HeadOf(m)) = <<x, y>>
  BY SumAssumption
<1>2. <<x, y>> \in Seq(Byte) /\ Len(<<x, y>>) = 2
  OBVIOUS
<1>3. /\ Frame(m) \in Seq(Byte) /\ Len(Frame(m)) = 6 + Len(m)
      /\ \A i \in 1 .. 6 + Len(m) :
           Frame(m)[i] = IF i <= 4 + Len(m) THEN HeadOf(m)[i] ELSE <<x, y>>[i - (4 + Len(m))]
  BY <1>1, <1>2, HeadType, ConcatProperties DEF Frame
<1>4. Frame(m)[5 + Len(m)] = x /\ Frame(m)[6 + Len(m)] = y
  BY <1>3, HeadType
<1>5. QED
  BY <1>1, <1>3, <1>4, HeadType

\* The first mark of a buffer is a mark, and the first.
LEMMA FirstMarkType ==
  ASSUME NEW b \in Seq(Byte), Marks(b) # {}
  PROVE  /\ FirstMark(b) \in Marks(b) /\ FirstMark(b) \in 1 .. Len(b)
         /\ \A j \in Marks(b) : FirstMark(b) <= j
<1>1. Marks(b) \subseteq 1 .. Len(b) /\ Marks(b) \subseteq Nat
  BY LenProperties DEF Marks
<1>2. \E i \in Marks(b) : \A j \in Marks(b) : i <= j
  BY <1>1, LeastNat
<1>3. QED
  BY <1>1, <1>2 DEF FirstMark

\* The device takes an undamaged frame for the command it was made from.
LEMMA FrameHeard ==
  ASSUME NEW c \in Commands
  PROVE  Accepted(Frame(c)) /\ Command(Frame(c)) = c
<1> DEFINE f == Frame(c)
           n == Len(c)
<1>1. c \in Messages
  BY DEF Messages
<1>2. /\ f \in Seq(Byte) /\ Len(f) = 6 + n /\ n \in Nat /\ 2 <= n
      /\ \A i \in 1 .. 4 + n : f[i] = HeadOf(c)[i]
      /\ CRC(HeadOf(c)) = <<f[5 + n], f[6 + n]>>
  BY <1>1, FrameType, HeadType
<1>3. f[1] = 170 /\ f[2] = 85 /\ U16(f, 3) = n
  <2>1. f[1] = HeadOf(c)[1] /\ f[2] = HeadOf(c)[2] /\ f[3] = HeadOf(c)[3] /\ f[4] = HeadOf(c)[4]
    BY <1>2
  <2>2. QED
    BY <1>1, <2>1, HeadType DEF U16
<1> HIDE DEF f
<1>4. 1 \in Marks(f)
  BY <1>2, <1>3 DEF Marks, MarkAt
<1>5. FirstMark(f) = 1
  BY <1>2, <1>4, FirstMarkType
<1>6. SubSeq(f, 1, 4 + n) = HeadOf(c)
  <2>1. \A i \in 1 .. 4 + n : f[i] \in Byte
    BY <1>2, ElementOfSeq
  <2>2. /\ SubSeq(f, 1, 4 + n) \in Seq(Byte) /\ Len(SubSeq(f, 1, 4 + n)) = 4 + n
        /\ \A i \in 1 .. 4 + n : SubSeq(f, 1, 4 + n)[i] = f[i]
    BY <1>2, <2>1, SubSeqProperties
  <2>3. QED
    BY <1>1, <1>2, <2>2, HeadType, SeqEqual
<1>7. SubSeq(f, 5, 4 + n) = Coded(c)
  <2>1. \A i \in 5 .. 4 + n : f[i] \in Byte
    BY <1>2, ElementOfSeq
  <2>2. /\ SubSeq(f, 5, 4 + n) \in Seq(Byte) /\ Len(SubSeq(f, 5, 4 + n)) = n
        /\ \A i \in 1 .. n : SubSeq(f, 5, 4 + n)[i] = f[4 + i]
    BY <1>2, <2>1, SubSeqProperties
  <2>3. \A i \in 1 .. n : f[4 + i] = Coded(c)[i]
    <3>1. \A i \in 1 .. n : HeadOf(c)[4 + i] = Coded(c)[i]
      BY <1>1, HeadType
    <3>2. \A i \in 1 .. n : 4 + i \in 1 .. 4 + n
      BY <1>2
    <3>3. QED
      BY <1>2, <3>1, <3>2
  <2>4. Coded(c) \in Seq(Byte) /\ Len(Coded(c)) = n
    BY <1>1, HeadType, CodedType
  <2>5. QED
    BY <2>2, <2>3, <2>4, SeqEqual
<1>8. CrcFits(f, 1, n)
  <2>1. 1 + 3 + n = 4 + n /\ 1 + 4 + n = 5 + n /\ 1 + 5 + n = 6 + n
    BY <1>2
  <2>2. QED
    BY <1>2, <1>6, <2>1 DEF CrcFits
<1>9. Accepted(f)
  BY <1>2, <1>3, <1>4, <1>5, <1>8 DEF Accepted
<1>10. Command(f) = Coded(Coded(c))
  <2>1. 1 + 4 = 5 /\ 1 + 3 + n = 4 + n /\ 1 + 2 = 3
    BY <1>2
  <2>2. QED
    BY <1>3, <1>5, <1>7, <2>1 DEF Command
<1>11. Coded(Coded(c)) = c
  BY <1>1, HeadType, CodedType
<1>12. QED
  BY <1>9, <1>10, <1>11 DEF f

\* A stretch of a sequence of bytes
LEMMA Piece ==
  ASSUME NEW s \in Seq(Byte), NEW i \in Nat, NEW j \in Nat, 1 <= i, j <= Len(s), i <= j + 1
  PROVE  /\ SubSeq(s, i, j) \in Seq(Byte)
         /\ Len(SubSeq(s, i, j)) = j + 1 - i
         /\ \A k \in 1 .. j + 1 - i : SubSeq(s, i, j)[k] = s[i + k - 1]
<1>1. \A k \in i .. j : s[k] \in Byte
  BY ElementOfSeq
<1>2. /\ SubSeq(s, i, j) \in Seq(Byte)
      /\ Len(SubSeq(s, i, j)) = IF i <= j THEN j - i + 1 ELSE 0
      /\ \A k \in 1 .. j - i + 1 : SubSeq(s, i, j)[k] = s[i + k - 1]
  BY <1>1, SubSeqProperties
<1>3. QED
  BY <1>2

\* What can become of a frame
LEMMA LineCases ==
  ASSUME NEW f \in Seq(Byte), NEW m \in Line(f)
  PROVE  \/ m = [bytes |-> f, whole |-> TRUE, misleads |-> FALSE]
         \/ m.bytes = None /\ m.whole = FALSE
         \/ \E i \in DOMAIN f : m.bytes = RemoveAt(f, i) /\ m.whole = FALSE
         \/ \E i \in DOMAIN f, x \in Noise : m.bytes = [f EXCEPT ![i] = x] /\ m.whole = FALSE
BY DEF Line

\* A damaged frame is still a sequence of bytes, and an undamaged one is the frame.
LEMMA LineType ==
  ASSUME NEW f \in Seq(Byte), NEW m \in Line(f)
  PROVE  /\ m.bytes \in Seq(Byte)
         /\ m.whole \in BOOLEAN
         /\ m.whole => m.bytes = f
         /\ Range(m.bytes) \subseteq Range(f) \cup Noise
<1> DEFINE Safe(b) == b \in Seq(Byte) /\ Range(b) \subseteq Range(f) \cup Noise
<1>1. DOMAIN f = 1 .. Len(f) /\ Len(f) \in Nat /\ \A i \in 1 .. Len(f) : f[i] \in Byte /\ f[i] \in Range(f)
  BY LenProperties, ElementOfSeq DEF Range
<1>2. Safe(f)
  OBVIOUS
<1>3. Safe(None)
  BY DEF None, Range
<1>4. ASSUME NEW i \in DOMAIN f
      PROVE  Safe(RemoveAt(f, i))
  <2>1. i \in 1 .. Len(f)
    BY <1>1
  <2> DEFINE a == SubSeq(f, 1, i - 1)
             b == SubSeq(f, i + 1, Len(f))
  <2>2. /\ a \in Seq(Byte) /\ Len(a) = i - 1
        /\ \A k \in 1 .. i - 1 : a[k] = f[k]
    BY <1>1, <2>1, Piece
  <2>3. /\ b \in Seq(Byte) /\ Len(b) = Len(f) - i
        /\ \A k \in 1 .. Len(f) - i : b[k] = f[i + k]
    <3>1. 1 <= i + 1 /\ i + 1 \in Nat /\ Len(f) <= Len(f) /\ i + 1 <= Len(f) + 1
      BY <1>1, <2>1
    <3>2. /\ b \in Seq(Byte) /\ Len(b) = Len(f) + 1 - (i + 1)
          /\ \A k \in 1 .. Len(f) + 1 - (i + 1) : b[k] = f[(i + 1) + k - 1]
      BY <1>1, <3>1, Piece
    <3>3. QED
      BY SMTT(30), <1>1, <2>1, <3>2
  <2> HIDE DEF a, b
  <2>4. /\ a \o b \in Seq(Byte) /\ Len(a \o b) = Len(f) - 1
        /\ \A k \in 1 .. Len(f) - 1 : (a \o b)[k] = IF k < i THEN f[k] ELSE f[k + 1]
    <3>1. /\ a \o b \in Seq(Byte) /\ Len(a \o b) = Len(a) + Len(b)
          /\ \A k \in 1 .. Len(a) + Len(b) : (a \o b)[k] = IF k <= Len(a) THEN a[k] ELSE b[k - Len(a)]
      BY <2>2, <2>3, ConcatProperties
    <3>2. i \in Nat /\ 1 <= i /\ i <= Len(f) /\ Len(a) + Len(b) = Len(f) - 1
      BY <1>1, <2>1, <2>2, <2>3
    <3>3. ASSUME NEW k \in 1 .. Len(f) - 1, k < i
          PROVE  (a \o b)[k] = f[k]
      BY <1>1, <2>2, <3>1, <3>2, <3>3
    <3>4. ASSUME NEW k \in 1 .. Len(f) - 1, ~(k < i)
          PROVE  (a \o b)[k] = f[k + 1]
      <4>1. (a \o b)[k] = b[k - (i - 1)] /\ k - (i - 1) \in 1 .. Len(f) - i
        BY SMTT(30), <1>1, <2>2, <3>1, <3>2, <3>4
      <4>2. b[k - (i - 1)] = f[i + (k - (i - 1))]
        BY <2>3, <4>1
      <4>3. i + (k - (i - 1)) = k + 1
        BY <1>1, <3>2
      <4>4. QED
        BY <4>1, <4>2, <4>3
    <3>5. QED
      BY <3>1, <3>2, <3>3, <3>4
  <2>5. \A k \in 1 .. Len(f) - 1 : (a \o b)[k] \in Range(f)
    BY <1>1, <2>1, <2>4
  <2>6. Range(a \o b) = {(a \o b)[k] : k \in 1 .. Len(f) - 1}
    BY <2>4, LenProperties DEF Range
  <2>7. RemoveAt(f, i) = a \o b
    BY DEF RemoveAt, a, b
  <2>8. Range(a \o b) \subseteq Range(f)
    BY ONLY <2>5, <2>6
  <2>9. Safe(a \o b)
    BY <2>4, <2>8
  <2>10. QED
    <3> HIDE DEF Safe
    <3>1. QED
      BY <2>7, <2>9
<1>5. ASSUME NEW i \in DOMAIN f, NEW x \in Noise
      PROVE  Safe([f EXCEPT ![i] = x])
  <2>1. i \in 1 .. Len(f) /\ x \in Byte
    BY <1>1, LineAssumption
  <2>2. /\ [f EXCEPT ![i] = x] \in Seq(Byte)
        /\ Len([f EXCEPT ![i] = x]) = Len(f)
        /\ \A k \in 1 .. Len(f) : [f EXCEPT ![i] = x][k] = IF k = i THEN x ELSE f[k]
    BY <2>1, ExceptSeq
  <2>3. Range([f EXCEPT ![i] = x]) \subseteq Range(f) \cup Noise
    BY <1>1, <2>1, <2>2 DEF Range
  <2>4. QED
    BY <2>2, <2>3
<1> HIDE DEF Safe
<1>6. \/ m = [bytes |-> f, whole |-> TRUE, misleads |-> FALSE]
      \/ m.bytes = None /\ m.whole = FALSE
      \/ \E i \in DOMAIN f : m.bytes = RemoveAt(f, i) /\ m.whole = FALSE
      \/ \E i \in DOMAIN f, x \in Noise : m.bytes = [f EXCEPT ![i] = x] /\ m.whole = FALSE
  BY LineCases
<1>7. Safe(m.bytes) /\ m.whole \in BOOLEAN /\ (m.whole => m.bytes = f)
  <2>1. CASE m = [bytes |-> f, whole |-> TRUE, misleads |-> FALSE]
    BY <1>2, <2>1
  <2>2. CASE m.bytes = None /\ m.whole = FALSE
    BY <1>3, <2>2
  <2>3. CASE \E i \in DOMAIN f : m.bytes = RemoveAt(f, i) /\ m.whole = FALSE
    BY <1>4, <2>3
  <2>4. CASE \E i \in DOMAIN f, x \in Noise : m.bytes = [f EXCEPT ![i] = x] /\ m.whole = FALSE
    BY <1>5, <2>4
  <2>5. QED
    BY <1>6, <2>1, <2>2, <2>3, <2>4
<1>8. QED
  BY <1>7 DEF Safe

\* A buffer that is accepted holds, at its first mark, a length and all of the frame.
LEMMA AcceptedType ==
  ASSUME NEW b \in Seq(Byte), Accepted(b)
  PROVE  /\ FirstMark(b) \in Nat /\ 1 <= FirstMark(b)
         /\ U16(b, FirstMark(b) + 2) \in Nat
         /\ FirstMark(b) + 5 + U16(b, FirstMark(b) + 2) <= Len(b)
         /\ CrcFits(b, FirstMark(b), U16(b, FirstMark(b) + 2))
         /\ Body(b) \subseteq 1 .. Len(b)
         /\ Command(b) \in Seq(Byte)
<1> DEFINE i == FirstMark(b)
           n == U16(b, i + 2)
<1>1. Marks(b) # {} /\ i + 5 + n <= Len(b) /\ CrcFits(b, i, n)
  BY DEF Accepted
<1>2. i \in 1 .. Len(b) - 7
  BY <1>1, FirstMarkType DEF Marks
<1>3. Len(b) \in Nat /\ i \in Nat /\ 1 <= i /\ i + 7 <= Len(b)
  BY <1>2, LenProperties
<1> HIDE DEF i
<1>4. b[i + 2] \in Byte /\ b[i + 3] \in Byte
  BY <1>3, ElementOfSeq
<1>5. n \in Nat
  <2>1. (i + 2) + 1 = i + 3
    BY <1>3
  <2>2. n = b[i + 2] + 256 * b[i + 3]
    BY <2>1 DEF U16
  <2>3. \A x, y \in Byte : x + 256 * y \in Nat
    BY DEF Byte
  <2>4. QED
    BY ONLY <1>4, <2>2, <2>3
<1> HIDE DEF n
<1>6. SubSeq(b, i + 4, i + 3 + n) \in Seq(Byte)
  BY <1>1, <1>3, <1>5, Piece
<1>7. Command(b) \in Seq(Byte)
  BY <1>6, CodedType DEF Command, i, n
<1>8. Body(b) = i + 4 .. i + 3 + n
  BY DEF Body, i, n
<1>9. Body(b) \subseteq 1 .. Len(b)
  BY <1>1, <1>3, <1>5, <1>8
<1>10. QED
  BY <1>1, <1>3, <1>5, <1>7, <1>9 DEF i, n

\* What the device looks at when it is told of new data
LEMMA LookType ==
  ASSUME BelowTypes
  PROVE  /\ SubSeq(buf, 1, rxlen) \in Seq(Byte) /\ Len(SubSeq(buf, 1, rxlen)) = rxlen
         /\ SubSeq(buf, 1, fill) \in Seq(Byte) /\ Len(SubSeq(buf, 1, fill)) = fill
         /\ \A k \in 1 .. rxlen : SubSeq(buf, 1, rxlen)[k] = buf[k]
         /\ \A k \in 1 .. fill : SubSeq(buf, 1, fill)[k] = buf[k]
         /\ buf \in Seq(Byte) /\ Len(buf) = BufSize
<1>1. buf \in [1 .. BufSize -> Byte] /\ fill \in 0 .. BufSize /\ rxlen \in 0 .. BufSize
  BY DEF BelowTypes
<1>2. buf \in Seq(Byte) /\ Len(buf) = BufSize
  BY <1>1, LineAssumption
<1>3. QED
  BY <1>1, <1>2, Piece, LineAssumption

----------------------------------------------------------------------------
(* Downwards: types *)

LEMMA BelowTypesInit == Init => BelowTypes
<1> SUFFICES ASSUME Init PROVE BelowTypes
  OBVIOUS
<1>1. [i \in 1 .. BufSize |-> 0] \in [1 .. BufSize -> Byte] /\ 0 \in 0 .. BufSize
  BY LineAssumption DEF Byte
<1>2. <<>> \in Seq(Byte) /\ <<>> \in Seq(Commands) /\ <<>> \in Seq(Seq(Byte))
  OBVIOUS
<1>3. QED
  BY <1>1, <1>2 DEF Init, BelowTypes

LEMMA BelowTypesStep ==
  ASSUME BelowTypes, [Next]_vars
  PROVE  BelowTypes'
<1> USE DEF BelowTypes
<1>1. CASE Arrive
  <2>1. Head(up) \in Byte /\ Tail(up) \in Seq(Byte)
    BY <1>1 DEF Arrive
  <2>2. buf' \in [1 .. BufSize -> Byte] /\ fill' \in 0 .. BufSize
    BY <1>1, <2>1, LineAssumption DEF Arrive
  <2>3. QED
    BY <1>1, <2>1, <2>2 DEF Arrive, history
<1>2. CASE Silence
  <2>1. fill' \in 0 .. BufSize /\ newData' \in BOOLEAN /\ clean' \in BOOLEAN
    <3>1. fill' = 0 /\ newData' = (newData \/ fill >= 4)
      BY <1>2 DEF Silence
    <3>2. clean' = clean \/ clean' = FALSE
      BY <1>2 DEF Silence
    <3>3. clean' \in BOOLEAN /\ newData' \in BOOLEAN
      BY <3>1, <3>2
    <3>4. QED
      BY <3>1, <3>3, LineAssumption
  <2>2. QED
    BY <1>2, <2>1 DEF Silence, host
<1>3. CASE Recv
  <2> DEFINE b == SubSeq(buf, 1, rxlen)
  <2>1. b \in Seq(Byte) /\ Len(b) = rxlen
    BY LookType
  <2>2. CASE ~Accepted(b)
    BY <1>3, <2>2 DEF Recv, host
  <2>3. CASE Accepted(b)
    <3>1. Command(b) \in Seq(Byte) /\ Body(b) \subseteq 1 .. BufSize
      <4>1. Command(b) \in Seq(Byte) /\ Body(b) \subseteq 1 .. rxlen
        BY <2>1, <2>3, AcceptedType
      <4>2. 1 .. rxlen \subseteq 1 .. BufSize
        BY LineAssumption
      <4>3. QED
        BY <4>1, <4>2
    <3>2. buf' = Left(b) /\ exec' = <<Command(b)>> /\ ran' = ran \o exec'
          /\ clean' = (clean /\ fill = 0)
      BY <1>3, <2>3 DEF Recv
    <3> HIDE DEF b
    <3>3. Left(b) \in [1 .. BufSize -> Byte]
      BY KeyAssumption DEF Left
    <3>4. ran \o <<Command(b)>> \in Seq(Seq(Byte))
      BY <3>1
    <3>5. QED
      BY <1>3, <3>1, <3>2, <3>3, <3>4 DEF Recv, host
  <2>4. QED
    BY <2>2, <2>3
<1>4. CASE Reply
  BY <1>4 DEF Reply, host
<1>5. CASE Reset
  <2>1. 0 \in 0 .. BufSize
    BY LineAssumption
  <2>2. QED
    BY <1>5, <2>1 DEF Reset, host
<1>6. CASE ReadReady \/ FakeReply
  BY <1>6 DEF ReadReady, FakeReply, device, history
<1>7. CASE Open
  BY <1>7 DEF Open, device
<1>8. CASE Ask
  <2>0. PICK c \in Commands : \E m \in Line(Frame(c)) :
          /\ up' = m.bytes /\ sent' = Append(sent, c) /\ clean' = (m.whole /\ fill = 0)
    BY <1>8 DEF Ask
  <2>1. PICK m \in Line(Frame(c)) :
          /\ up' = m.bytes /\ sent' = Append(sent, c) /\ clean' = (m.whole /\ fill = 0)
    BY <2>0
  <2>2. m.bytes \in Seq(Byte) /\ m.whole \in BOOLEAN
    <3>1. Frame(c) \in Seq(Byte)
      BY FrameType DEF Messages
    <3>2. QED
      BY <3>1, LineType
  <2>3. Append(sent, c) \in Seq(Commands)
    OBVIOUS
  <2>4. QED
    BY <1>8, <2>1, <2>2, <2>3 DEF Ask, device
<1>9. CASE Poll
  BY <1>9 DEF Poll, device
<1>10. CASE Close
  <2>1. up' \in Seq(Byte) /\ clean' \in BOOLEAN
    <3>1. up' \in {up, <<>>}
      BY <1>10 DEF Close
    <3>2. up' \in Seq(Byte)
      <4>1. CASE up' = up
        BY <4>1
      <4>2. CASE up' = <<>>
        BY <4>2
      <4>3. QED
        BY <3>1, <4>1, <4>2
    <3>3. clean' = (clean /\ up' = up)
      BY <1>10 DEF Close
    <3>4. clean' = clean \/ clean' = FALSE
      BY <3>3
    <3>5. QED
      BY <3>2, <3>4
  <2>2. QED
    BY <1>10, <2>1 DEF Close, device
<1>11. CASE UNCHANGED vars
  BY <1>11 DEF vars, device, host, history
<1>12. QED
  BY <1>1, <1>2, <1>3, <1>4, <1>5, <1>6, <1>7, <1>8, <1>9, <1>10, <1>11 DEF Next

LEMMA BelowTypesHold == Spec => []BelowTypes
BY BelowTypesInit, BelowTypesStep, PTL DEF Spec

----------------------------------------------------------------------------
(* Downwards: a clean command is heard *)

LEMMA HearingInit == Init => Hearing
BY DEF Init, Hearing

\* A byte more in the buffer and one less on the way
LEMMA ArriveShift ==
  ASSUME BelowTypes, Arrive
  PROVE  SubSeq(buf', 1, fill') \o up' = SubSeq(buf, 1, fill) \o up
<1> DEFINE s == SubSeq(buf, 1, fill)
           t == SubSeq(buf', 1, fill')
<1>1. /\ up \in Seq(Byte) /\ up # <<>> /\ fill \in Nat /\ fill + 1 <= BufSize
      /\ buf \in [1 .. BufSize -> Byte]
      /\ fill' = fill + 1 /\ up' = Tail(up) /\ buf' = [buf EXCEPT ![fill + 1] = Head(up)]
  BY LineAssumption DEF Arrive, BelowTypes
<1>2. /\ Head(up) \in Byte /\ Head(up) = up[1] /\ up' \in Seq(Byte) /\ Len(up) \in Nat
      /\ Len(up') = Len(up) - 1 /\ 1 <= Len(up)
      /\ \A k \in 1 .. Len(up) - 1 : up'[k] = up[k + 1]
  BY <1>1, HeadTailProperties, EmptySeq
<1>3. /\ s \in Seq(Byte) /\ Len(s) = fill
      /\ \A k \in 1 .. fill : s[k] = buf[k]
  BY LookType
<1>4. /\ t \in Seq(Byte) /\ Len(t) = fill + 1
      /\ \A k \in 1 .. fill + 1 : t[k] = buf'[k]
  <2>1. BelowTypes'
    BY BelowTypesStep DEF Next
  <2>2. QED
    BY SMTT(30), <1>1, <2>1, LookType
<1>5. \A k \in 1 .. fill + 1 : buf'[k] = IF k = fill + 1 THEN up[1] ELSE buf[k]
  BY <1>1, <1>2
<1> HIDE DEF s, t
<1>6. /\ s \o up \in Seq(Byte) /\ Len(s \o up) = fill + Len(up)
      /\ \A k \in 1 .. fill + Len(up) : (s \o up)[k] = IF k <= fill THEN s[k] ELSE up[k - fill]
  BY <1>1, <1>3, ConcatProperties
<1>7. /\ t \o up' \in Seq(Byte) /\ Len(t \o up') = fill + Len(up)
      /\ \A k \in 1 .. fill + Len(up) :
           (t \o up')[k] = IF k <= fill + 1 THEN t[k] ELSE up'[k - (fill + 1)]
  <2>1. /\ t \o up' \in Seq(Byte) /\ Len(t \o up') = Len(t) + Len(up')
        /\ \A k \in 1 .. Len(t) + Len(up') :
             (t \o up')[k] = IF k <= Len(t) THEN t[k] ELSE up'[k - Len(t)]
    BY <1>2, <1>4, ConcatProperties
  <2>2. Len(t) + Len(up') = fill + Len(up)
    BY <1>1, <1>2, <1>4
  <2>3. QED
    BY <1>4, <2>1, <2>2
<1>8. ASSUME NEW k \in 1 .. fill + Len(up)
      PROVE  (t \o up')[k] = (s \o up)[k]
  <2>1. CASE k <= fill
    BY <1>1, <1>3, <1>4, <1>5, <1>6, <1>7, <2>1
  <2>2. CASE k = fill + 1
    BY <1>1, <1>2, <1>4, <1>5, <1>6, <1>7, <2>2
  <2>3. CASE k > fill + 1
    <3>1. (t \o up')[k] = up'[k - (fill + 1)] /\ (s \o up)[k] = up[k - fill]
      BY <1>1, <1>2, <1>6, <1>7, <2>3
    <3>2. k - (fill + 1) \in 1 .. Len(up) - 1 /\ (k - (fill + 1)) + 1 = k - fill
      BY <1>1, <1>2, <2>3
    <3>3. QED
      BY <1>2, <3>1, <3>2
  <2>4. QED
    <3>1. k \in Int /\ fill \in Int
      BY <1>1, <1>2
    <3>2. k <= fill \/ k = fill + 1 \/ k > fill + 1
      BY <3>1
    <3>3. QED
      BY <2>1, <2>2, <2>3, <3>2
<1>9. t \o up' = s \o up
  BY <1>6, <1>7, <1>8, SeqEqual
<1>10. QED
  BY <1>9 DEF s, t

LEMMA HearingStep ==
  ASSUME BelowTypes, Hearing, [Next]_vars
  PROVE  Hearing'
<1> SUFFICES ASSUME clean' PROVE Hearing'
  BY DEF Hearing
<1> DEFINE c == Last(sent)
           Coming == SubSeq(buf, 1, fill) \o up = Frame(c)
           Lying == up = <<>> /\ fill = 0 /\ newData /\ SubSeq(buf, 1, rxlen) = Frame(c)
           Heard == up = <<>> /\ fill = 0 /\ ~newData /\ ran # <<>> /\ Last(ran) = c
<1>0. BelowTypes'
  BY BelowTypesStep
<1>1. ASSUME clean
      PROVE  sent # <<>> /\ c \in Commands /\ (Coming \/ Lying \/ Heard)
  <2>1. sent # <<>> /\ (Coming \/ Lying \/ Heard)
    BY <1>1 DEF Hearing
  <2>2. sent \in Seq(Commands)
    BY DEF BelowTypes
  <2>3. Len(sent) \in 1 .. Len(sent)
    BY <2>1, <2>2, EmptySeq
  <2>4. QED
    BY <2>1, <2>2, <2>3, ElementOfSeq DEF Last
<1>2. CASE Arrive
  <2>1. clean /\ up # <<>> /\ sent' = sent /\ clean' = clean
    BY <1>2 DEF Arrive, history
  <2>2. Coming /\ sent # <<>>
    BY <1>1, <2>1
  <2>3. SubSeq(buf', 1, fill') \o up' = Frame(c)
    BY <1>2, <2>2, ArriveShift
  <2>4. QED
    BY <2>1, <2>2, <2>3 DEF Hearing
<1>3. CASE Silence
  <2>1. /\ clean /\ up = <<>> /\ fill > 0 /\ rxlen' = fill /\ fill' = 0
        /\ newData' = (newData \/ fill >= 4)
        /\ UNCHANGED <<up, buf, sent>>
    BY <1>3 DEF Silence
  <2>2. Coming /\ sent # <<>> /\ c \in Commands
    <3>1. ~(fill = 0)
      BY <2>1 DEF BelowTypes
    <3>2. QED
      BY <1>1, <2>1, <3>1
  <2>3. SubSeq(buf, 1, fill) = Frame(c)
    BY <2>1, <2>2, LookType, ConcatEmptySeq
  <2>4. newData'
    <3>1. Len(Frame(c)) = 6 + Len(c) /\ Len(c) \in Nat
      BY <2>2, FrameType, HeadType DEF Messages
    <3>2. fill >= 4
      BY <2>3, <3>1, LookType
    <3>3. QED
      BY <2>1, <3>2
  <2>5. QED
    BY <2>1, <2>2, <2>3, <2>4 DEF Hearing
<1>4. CASE Recv
  <2> DEFINE b == SubSeq(buf, 1, rxlen)
  <2>1. newData /\ newData' = FALSE /\ UNCHANGED <<up, fill, rxlen, sent>>
    BY <1>4 DEF Recv
  <2>2. CASE ~Accepted(b)
    <3>1. clean /\ buf' = buf
      BY <1>4, <2>2 DEF Recv
    <3>2. ~Lying
      BY <1>1, <2>2, <3>1, FrameHeard
    <3>3. Coming /\ sent # <<>>
      BY <1>1, <2>1, <3>1, <3>2
    <3>4. QED
      BY <2>1, <3>1, <3>3 DEF Hearing
  <2>3. CASE Accepted(b)
    <3>1. /\ clean /\ fill = 0 /\ exec' = <<Command(b)>> /\ ran' = ran \o exec'
      BY <1>4, <2>3 DEF Recv
    <3>2. sent # <<>> /\ c \in Commands /\ (Coming \/ Lying)
      BY <1>1, <2>1, <3>1
    <3>3. CASE Coming
      <4>1. SubSeq(buf, 1, 0) = <<>> /\ SubSeq(buf', 1, 0) = <<>>
        BY SubSeqEmpty
      <4>2. QED
        BY <2>1, <3>1, <3>2, <3>3, <4>1 DEF Hearing
    <3>4. CASE Lying
      <4>1. Command(b) = c
        BY <3>2, <3>4, FrameHeard
      <4>2. ran \in Seq(Seq(Byte)) /\ c \in Seq(Byte)
        BY <3>2, HeadType DEF BelowTypes, Messages
      <4>3. ran' = Append(ran, c)
        BY <3>1, <4>1, <4>2, AppendIsConcat
      <4>4. ran' # <<>> /\ Last(ran') = c
        BY <4>2, <4>3, AppendProperties DEF Last
      <4>5. QED
        BY <2>1, <3>2, <3>4, <4>4 DEF Hearing
    <3>5. QED
      BY <3>2, <3>3, <3>4
  <2>4. QED
    BY <2>2, <2>3
<1>5. CASE Reply
  BY <1>1, <1>5 DEF Reply, Hearing
<1>6. CASE Reset
  <2>1. /\ clean /\ fill = 0 /\ up = <<>> /\ ~newData
        /\ fill' = 0 /\ newData' = FALSE /\ UNCHANGED <<up, sent, ran>>
    BY <1>6 DEF Reset
  <2>2. ~Coming
    <3>1. ASSUME Coming PROVE FALSE
      <4>1. Frame(c) = <<>>
        BY <2>1, <3>1, SubSeqEmpty, ConcatEmptySeq, EmptySeq
      <4>2. c \in Messages
        BY <1>1, <2>1 DEF Messages
      <4>3. QED
        BY <4>1, <4>2, FrameType, HeadType, EmptySeq
    <3>2. QED
      BY <3>1
  <2>3. Heard /\ sent # <<>>
    BY <1>1, <2>1, <2>2
  <2>4. QED
    BY <2>1, <2>3 DEF Hearing
<1>7. CASE ReadReady \/ FakeReply \/ Poll
  <2>1. clean /\ UNCHANGED <<up, buf, fill, rxlen, newData, sent, ran>>
    BY <1>7 DEF ReadReady, FakeReply, Poll, device, history
  <2>2. QED
    BY <1>1, <2>1 DEF Hearing
<1>8. CASE Open
  <2>1. clean /\ UNCHANGED <<up, buf, fill, rxlen, newData, sent, ran>>
    BY <1>8 DEF Open, device
  <2>2. QED
    BY <1>1, <2>1 DEF Hearing
<1>9. CASE Ask
  <2>1. PICK d \in Commands : \E m \in Line(Frame(d)) :
          up' = m.bytes /\ sent' = Append(sent, d) /\ clean' = (m.whole /\ fill = 0)
    BY <1>9 DEF Ask
  <2>2. Frame(d) \in Seq(Byte)
    BY FrameType DEF Messages
  <2>3. up' = Frame(d) /\ fill = 0 /\ sent' = Append(sent, d)
    BY <2>1, <2>2, LineType
  <2>4. buf' = buf /\ fill' = fill
    BY <1>9 DEF Ask, device
  <2>5. sent' # <<>> /\ Last(sent') = d
    <3>1. sent \in Seq(Commands)
      BY DEF BelowTypes
    <3>2. Append(sent, d) # <<>> /\ Last(Append(sent, d)) = d
      BY <3>1, AppendProperties DEF Last
    <3>3. QED
      BY <2>3, <3>2
  <2>6. SubSeq(buf', 1, fill') \o up' = Frame(d)
    <3>1. SubSeq(buf', 1, 0) = <<>>
      BY SubSeqEmpty
    <3>2. QED
      BY <2>2, <2>3, <2>4, <3>1, ConcatEmptySeq
  <2>7. QED
    BY <2>5, <2>6 DEF Hearing
<1>10. CASE Close
  <2>1. clean /\ UNCHANGED <<up, buf, fill, rxlen, newData, sent, ran>>
    BY <1>10 DEF Close, device
  <2>2. QED
    BY <1>1, <2>1 DEF Hearing
<1>11. CASE UNCHANGED vars
  <2>1. clean /\ UNCHANGED <<up, buf, fill, rxlen, newData, sent, ran>>
    BY <1>11 DEF vars, device, history
  <2>2. QED
    BY <1>1, <2>1 DEF Hearing
<1>12. QED
  BY <1>2, <1>3, <1>4, <1>5, <1>6, <1>7, <1>8, <1>9, <1>10, <1>11 DEF Next

\* A command that arrives clean is executed in the end, whatever lies in the
\* buffer before it: for every key, every set of commands and every checksum.
THEOREM CleanIsHeard == Spec => []HeardLast
<1>1. BelowTypes /\ Hearing => HeardLast
  <2> SUFFICES ASSUME BelowTypes, Hearing, AtRest, clean
               PROVE  ran # <<>> /\ Last(ran) = Last(sent)
    BY DEF HeardLast
  <2>1. up = <<>> /\ fill = 0 /\ ~newData /\ sent # <<>>
    BY DEF AtRest, Hearing
  <2>2. Last(sent) \in Messages
    BY <2>1, EmptySeq, ElementOfSeq DEF BelowTypes, Last, Messages
  <2>3. SubSeq(buf, 1, fill) \o up # Frame(Last(sent))
    <3>1. SubSeq(buf, 1, fill) \o up = <<>>
      BY <2>1, SubSeqEmpty, ConcatEmptySeq, EmptySeq
    <3>2. Len(Frame(Last(sent))) = 6 + Len(Last(sent)) /\ Len(Last(sent)) \in Nat
      BY <2>2, FrameType, HeadType
    <3>3. ASSUME Frame(Last(sent)) = <<>> PROVE FALSE
      <4>1. Len(Frame(Last(sent))) = 0
        BY <3>3
      <4>2. QED
        BY <3>2, <4>1
    <3>4. QED
      BY <3>1, <3>3
  <2>4. QED
    BY <2>1, <2>3 DEF Hearing
<1>2. QED
  BY <1>1, BelowTypesInit, BelowTypesStep, HearingInit, HearingStep, PTL DEF Spec

----------------------------------------------------------------------------
(* Downwards: what is executed is a command.  From here on checksums are symbols. *)

\* What a checksum fits is the head of one message, whose sum byte follows.
LEMMA HeadFits ==
  ASSUME OnlyHeadsFit, NEW b \in Seq(Byte), NEW i \in Nat, 1 <= i, NEW n \in Nat,
         i + 5 + n <= Len(b), CrcFits(b, i, n)
  PROVE  \E m \in Messages :
           /\ SubSeq(b, i, i + 3 + n) = HeadOf(m) /\ Len(m) = n
           /\ b[i + 4 + n] = SumByte(m)
           /\ SubSeq(b, i + 4, i + 3 + n) = Coded(m)
           /\ \A k \in 1 .. n : b[i + 3 + k] = Key[m[k]]
<1> DEFINE s == SubSeq(b, i, i + 3 + n)
           t == SubSeq(b, i + 4, i + 3 + n)
<1>1. /\ s \in Seq(Byte) /\ Len(s) = 4 + n
      /\ \A k \in 1 .. 4 + n : s[k] = b[i + k - 1]
  <2>1. /\ s \in Seq(Byte) /\ Len(s) = (i + 3 + n) + 1 - i
        /\ \A k \in 1 .. (i + 3 + n) + 1 - i : s[k] = b[i + k - 1]
    BY Piece
  <2>2. (i + 3 + n) + 1 - i = 4 + n
    OBVIOUS
  <2>3. QED
    BY <2>1, <2>2
<1>2. /\ t \in Seq(Byte) /\ Len(t) = n
      /\ \A k \in 1 .. n : t[k] = b[i + 3 + k]
  <2>1. /\ t \in Seq(Byte) /\ Len(t) = (i + 3 + n) + 1 - (i + 4)
        /\ \A k \in 1 .. (i + 3 + n) + 1 - (i + 4) : t[k] = b[(i + 4) + k - 1]
    <3>1. /\ Len(b) \in Nat /\ i + 4 \in Nat /\ i + 3 + n \in Nat /\ 1 <= i + 4
          /\ i + 3 + n <= Len(b) /\ i + 4 <= (i + 3 + n) + 1
      BY LenProperties
    <3>2. QED
      BY <3>1, Piece
  <2>2. (i + 3 + n) + 1 - (i + 4) = n
    OBVIOUS
  <2>3. \A k \in 1 .. n : (i + 4) + k - 1 = i + 3 + k
    OBVIOUS
  <2>4. QED
    BY <2>1, <2>2, <2>3
<1>3. b[i + 4 + n] \in Byte /\ b[i + 5 + n] \in Byte
  BY ElementOfSeq
<1>4. CRC(s) = <<b[i + 4 + n], b[i + 5 + n]>>
  BY DEF CrcFits
<1> HIDE DEF s, t
<1>5. PICK m \in Messages : s = HeadOf(m)
  BY <1>1, <1>3, <1>4 DEF OnlyHeadsFit
<1>6. Len(m) = n /\ m \in Seq(Byte) /\ \A k \in 1 .. n : s[4 + k] = Coded(m)[k]
  <2>1. /\ m \in Seq(Byte) /\ Len(m) \in Nat /\ Len(s) = 4 + Len(m)
        /\ \A k \in 1 .. Len(m) : s[4 + k] = Coded(m)[k]
    BY <1>5, HeadType
  <2>2. Len(m) = n
    BY <1>1, <2>1
  <2>3. QED
    BY <2>1, <2>2
<1>7. b[i + 4 + n] = SumByte(m)
  BY <1>4, <1>5 DEF SumByte
<1>8. \A k \in 1 .. n : t[k] = Coded(m)[k]
  <2>1. ASSUME NEW k \in 1 .. n PROVE t[k] = Coded(m)[k]
    <3>1. s[4 + k] = b[i + (4 + k) - 1] /\ i + (4 + k) - 1 = i + 3 + k
      BY <1>1
    <3>2. QED
      BY <1>2, <1>6, <3>1
  <2>2. QED
    BY <2>1
<1>9. /\ Coded(m) \in Seq(Byte) /\ Len(Coded(m)) = n
      /\ \A k \in 1 .. n : Coded(m)[k] = Key[m[k]]
  BY <1>6, CodedType
<1>10. t = Coded(m)
  BY <1>2, <1>8, <1>9, SeqEqual
<1>11. QED
  <2>1. \A k \in 1 .. n : b[i + 3 + k] = Key[m[k]]
    BY <1>2, <1>9, <1>10
  <2>2. QED
    BY <1>5, <1>6, <1>7, <1>10, <2>1 DEF s, t

\* The bytes of a frame, damaged or not
LEMMA FrameBytes ==
  ASSUME NEW c \in Messages
  PROVE  /\ Range(Frame(c)) \subseteq Range(HeadOf(c)) \cup {SumByte(c), CRC(HeadOf(c))[2]}
         /\ Frame(c)[5 + Len(c)] = SumByte(c) /\ Frame(c)[6 + Len(c)] = CRC(HeadOf(c))[2]
<1>1. /\ Frame(c) \in Seq(Byte) /\ Len(Frame(c)) = 6 + Len(c) /\ Len(c) \in Nat
      /\ \A i \in 1 .. 4 + Len(c) : Frame(c)[i] = HeadOf(c)[i]
      /\ CRC(HeadOf(c)) = <<Frame(c)[5 + Len(c)], Frame(c)[6 + Len(c)]>>
      /\ HeadOf(c) \in Seq(Byte) /\ Len(HeadOf(c)) = 4 + Len(c)
  BY FrameType, HeadType
<1>2. Frame(c)[5 + Len(c)] = SumByte(c) /\ Frame(c)[6 + Len(c)] = CRC(HeadOf(c))[2]
  BY <1>1 DEF SumByte
<1>3. DOMAIN Frame(c) = 1 .. 6 + Len(c) /\ DOMAIN HeadOf(c) = 1 .. 4 + Len(c)
  BY <1>1, LenProperties
<1>4. ASSUME NEW i \in 1 .. 6 + Len(c)
      PROVE  Frame(c)[i] \in Range(HeadOf(c)) \cup {SumByte(c), CRC(HeadOf(c))[2]}
  <2>1. CASE i <= 4 + Len(c)
    BY SMTT(30), <1>1, <1>3, <2>1 DEF Range
  <2>2. CASE i = 5 + Len(c) \/ i = 6 + Len(c)
    BY <1>2, <2>2
  <2>3. QED
    BY <1>1, <2>1, <2>2
<1>5. QED
  BY <1>2, <1>3, <1>4 DEF Range

\* A command on the line carries the sum byte of no other message.
LEMMA CommandBytes ==
  ASSUME SumsApart, NEW c \in Commands, NEW m \in Line(Frame(c))
  PROVE  \A d \in Messages : SumByte(d) \in Range(m.bytes) => d = c
<1>1. c \in Messages
  BY DEF Messages
<1>2. Range(m.bytes) \subseteq Range(HeadOf(c)) \cup {SumByte(c), CRC(HeadOf(c))[2]} \cup Noise
  <2>1. Range(m.bytes) \subseteq Range(Frame(c)) \cup Noise
    BY <1>1, FrameType, LineType
  <2>2. QED
    BY <1>1, <2>1, FrameBytes
<1>3. ASSUME NEW d \in Messages, d # c
      PROVE  SumByte(d) \notin Range(m.bytes)
  <2>1. SumByte(d) # SumByte(c)
    BY <1>1, <1>3 DEF SumsApart
  <2>2. SumByte(d) \notin Range(HeadOf(c)) \cup Range(c) \cup {CRC(HeadOf(c))[2], 0} \cup Noise
    BY <1>1, <1>3 DEF SumsApart
  <2>3. QED
    BY <1>2, <2>1, <2>2
<1>4. QED
  BY <1>3

\* What the loop executes is a command the tool can ask.
ExecType == exec = None \/ \E c \in Commands : exec = <<c>>

LEMMA CarriedInit == SumsApart /\ Init => Carried /\ ExecType
<1> SUFFICES ASSUME SumsApart, Init PROVE Carried /\ ExecType
  OBVIOUS
<1>1. Range(up) = {} /\ Range(exec) = {} /\ Range(ran) = {} /\ Range(buf) \subseteq {0}
  BY DEF Init, None, Range
<1>2. \A m \in Messages : SumByte(m) # 0
  BY DEF SumsApart
<1>3. QED
  BY <1>1, <1>2 DEF Carried, Unsent, Init, ExecType

LEMMA CarriedStep ==
  ASSUME OnlyHeadsFit, SumsApart, BelowTypes, Carried, ExecType, [Next]_vars
  PROVE  Carried' /\ ExecType'
<1> USE DEF Carried
<1>1. CASE Arrive
  <2>1. up \in Seq(Byte) /\ up # <<>> /\ buf \in [1 .. BufSize -> Byte]
        /\ buf' = [buf EXCEPT ![fill + 1] = Head(up)] /\ up' = Tail(up)
        /\ exec' = exec /\ ran' = ran /\ sent' = sent
    BY <1>1 DEF Arrive, BelowTypes, history
  <2>2. Range(up') \subseteq Range(up) /\ Head(up) \in Range(up)
    <3>1. /\ Head(up) = up[1] /\ Tail(up) \in Seq(Byte) /\ Len(Tail(up)) = Len(up) - 1
          /\ \A k \in 1 .. Len(Tail(up)) : Tail(up)[k] = up[k + 1]
          /\ Len(up) \in Nat /\ 1 <= Len(up)
      BY <2>1, HeadTailProperties, EmptySeq
    <3>2. DOMAIN up = 1 .. Len(up) /\ DOMAIN Tail(up) = 1 .. Len(up) - 1
      BY <2>1, <3>1, LenProperties
    <3>3. \A k \in 1 .. Len(up) - 1 : k + 1 \in 1 .. Len(up)
      BY <3>1
    <3>4. QED
      BY <2>1, <3>1, <3>2, <3>3 DEF Range
  <2>3. Range(buf') \subseteq Range(buf) \cup {Head(up)}
    BY <2>1 DEF Range
  <2>4. QED
    BY <2>1, <2>2, <2>3 DEF ExecType, Unsent
<1>2. CASE Silence
  BY <1>2 DEF Silence, ExecType, Unsent
<1>3. CASE Recv
  <2> DEFINE b == SubSeq(buf, 1, rxlen)
  <2>1. b \in Seq(Byte) /\ Len(b) = rxlen /\ rxlen \in 0 .. BufSize
        /\ \A k \in 1 .. rxlen : b[k] = buf[k]
        /\ buf \in [1 .. BufSize -> Byte]
    BY LookType DEF BelowTypes
  <2>2. CASE ~Accepted(b)
    BY <1>3, <2>2 DEF Recv, ExecType, Unsent
  <2>3. CASE Accepted(b)
    <3>1. buf' = Left(b) /\ exec' = <<Command(b)>> /\ up' = up /\ ran' = ran \o exec' /\ sent' = sent
      BY <1>3, <2>3 DEF Recv
    <3> DEFINE i == FirstMark(b)
               n == U16(b, i + 2)
    <3>2. /\ i \in Nat /\ 1 <= i /\ n \in Nat /\ i + 5 + n <= Len(b) /\ CrcFits(b, i, n)
      BY <2>1, <2>3, AcceptedType
    <3>3. Body(b) = i + 4 .. i + 3 + n /\ Command(b) = Coded(SubSeq(b, i + 4, i + 3 + n))
      BY DEF Body, Command
    <3> HIDE DEF b, i, n
    <3>4. PICK m \in Messages :
            /\ Len(m) = n /\ b[i + 4 + n] = SumByte(m)
            /\ SubSeq(b, i + 4, i + 3 + n) = Coded(m)
            /\ \A k \in 1 .. n : b[i + 3 + k] = Key[m[k]]
      BY ZenonT(30), <2>1, <3>2, HeadFits
    <3>5. m \in Seq(Byte) /\ Coded(Coded(m)) = m
      BY HeadType, CodedType
    <3>6. m \in Range(sent) /\ m \in Commands
      <4>1. i + 4 + n \in 1 .. rxlen /\ i + 4 + n \in 1 .. BufSize
        BY <2>1, <3>2, LineAssumption
      <4>2. SumByte(m) \in Range(buf)
        BY <2>1, <3>4, <4>1 DEF Range
      <4>3. Range(sent) \subseteq Commands
        BY LenProperties, ElementOfSeq DEF BelowTypes, Range
      <4>4. QED
        BY <4>2, <4>3 DEF Unsent
    <3>7. ASSUME NEW k \in Body(b)
          PROVE  Key[buf[k]] \in Range(m)
      <4>1. k - (i + 3) \in 1 .. n /\ k = i + 3 + (k - (i + 3)) /\ k \in 1 .. rxlen
        BY <2>1, <3>2, <3>3
      <4>2. buf[k] = Key[m[k - (i + 3)]]
        BY <2>1, <3>4, <4>1
      <4>3. m[k - (i + 3)] \in Byte /\ m[k - (i + 3)] \in Range(m)
        BY <3>4, <3>5, <4>1, LenProperties, ElementOfSeq DEF Range
      <4>4. QED
        BY <4>2, <4>3, KeyAssumption
    <3>8. Range(buf') \subseteq Range(buf) \cup Range(m)
      BY <2>1, <3>1, <3>7 DEF Left, Range
    <3>9. Range(m) \cap Unsent = {}
      <4>1. \A d \in Messages : SumByte(d) \notin Range(m)
        BY DEF SumsApart
      <4>2. QED
        BY <4>1 DEF Unsent
    <3>10. exec' = <<m>>
      BY <3>1, <3>3, <3>4, <3>5
    <3>11. Range(exec') \cup Range(ran') \subseteq Range(sent)
      <4>1. ran \in Seq(Seq(Byte)) /\ m \in Seq(Byte) /\ ran' = Append(ran, m)
        BY <3>1, <3>5, <3>10, AppendIsConcat DEF BelowTypes
      <4>2. Range(ran') \subseteq Range(ran) \cup {m}
        <5>1. /\ DOMAIN ran = 1 .. Len(ran) /\ Len(ran) \in Nat
              /\ DOMAIN ran' = 1 .. Len(ran')
              /\ Len(ran') = Len(ran) + 1
              /\ \A k \in 1 .. Len(ran) : ran'[k] = ran[k]
              /\ ran'[Len(ran) + 1] = m
          BY <4>1, LenProperties, AppendProperties
        <5>2. QED
          BY <5>1 DEF Range
      <4>3. Range(exec') = {m}
        BY <3>10 DEF Range
      <4>4. QED
        BY <3>6, <4>2, <4>3
    <3>12. QED
      BY <3>1, <3>6, <3>8, <3>9, <3>10, <3>11 DEF ExecType, Unsent
  <2>4. QED
    BY <2>2, <2>3
<1>4. CASE Reply \/ Reset
  <2>1. Range(None) = {}
    BY DEF Range, None
  <2>2. exec' = None /\ up' = up /\ buf' = buf /\ ran' = ran /\ sent' = sent
    BY <1>4 DEF Reply, Reset
  <2>3. QED
    BY <2>1, <2>2 DEF ExecType, Unsent
<1>5. CASE ReadReady \/ FakeReply \/ Open \/ Poll \/ UNCHANGED vars
  <2>1. exec' = exec /\ up' = up /\ buf' = buf /\ ran' = ran /\ sent' = sent
    BY <1>5 DEF ReadReady, FakeReply, Open, Poll, vars, device, history
  <2>2. QED
    BY <2>1 DEF ExecType, Unsent
<1>6. CASE Ask
  <2>0. PICK c \in Commands : \E m \in Line(Frame(c)) : up' = m.bytes /\ sent' = Append(sent, c)
    BY <1>6 DEF Ask
  <2>1. buf' = buf /\ exec' = exec /\ ran' = ran /\ sent' = Append(sent, c)
    BY <1>6, <2>0 DEF Ask, device
  <2>2. Range(sent') = Range(sent) \cup {c}
    <3>1. /\ DOMAIN sent = 1 .. Len(sent) /\ Len(sent) \in Nat
          /\ DOMAIN sent' = 1 .. Len(sent')
          /\ Len(sent') = Len(sent) + 1
          /\ \A k \in 1 .. Len(sent) : sent'[k] = sent[k]
          /\ sent'[Len(sent) + 1] = c
      BY <2>1, LenProperties, AppendProperties DEF BelowTypes
    <3>2. 1 .. Len(sent) + 1 = (1 .. Len(sent)) \cup {Len(sent) + 1}
      BY <3>1
    <3>3. QED
      BY <3>1, <3>2 DEF Range
  <2>3. \A d \in Messages : SumByte(d) \in Range(up') => d = c
    BY <2>0, CommandBytes
  <2>4. Range(up') \cap Unsent' = {} /\ Unsent' \subseteq Unsent
    BY <2>2, <2>3 DEF Unsent
  <2>5. QED
    BY <2>1, <2>2, <2>4 DEF ExecType
<1>7. CASE Close
  <2>1. Range(<<>>) = {}
    BY DEF Range
  <2>2. up' \in {up, <<>>} /\ buf' = buf /\ exec' = exec /\ ran' = ran /\ sent' = sent
    BY <1>7 DEF Close, device
  <2>3. Range(up') \subseteq Range(up)
    BY <2>1, <2>2
  <2>4. QED
    BY <2>2, <2>3 DEF ExecType, Unsent
<1>8. QED
  BY <1>1, <1>2, <1>3, <1>4, <1>5, <1>6, <1>7 DEF Next

\* However frames are damaged, cut or run into each other: what the device
\* executes is a command it was sent.
THEOREM RunsAreAsked ==
  ASSUME OnlyHeadsFit, SumsApart
  PROVE  Spec => []Carried
<1> DEFINE IInv == BelowTypes /\ Carried /\ ExecType
<1>1. Init => IInv
  BY BelowTypesInit, CarriedInit
<1>2. IInv /\ [Next]_vars => IInv'
  BY BelowTypesStep, CarriedStep
<1>3. QED
  BY <1>1, <1>2, PTL DEF Spec

----------------------------------------------------------------------------
(* Downwards: what was sent is executed once, in its order *)

\* Two sequences in one: first the one, then the other
LEMMA Joined ==
  ASSUME NEW V, NEW s \in Seq(V), NEW t \in Seq(V)
  PROVE  /\ s \o t \in Seq(V) /\ Len(s \o t) = Len(s) + Len(t)
         /\ \A i \in 1 .. Len(s) : (s \o t)[i] = s[i]
         /\ \A i \in 1 .. Len(t) : (s \o t)[Len(s) + i] = t[i]
<1>1. Len(s) \in Nat /\ Len(t) \in Nat
  BY LenProperties
<1>2. /\ s \o t \in Seq(V) /\ Len(s \o t) = Len(s) + Len(t)
      /\ \A i \in 1 .. Len(s) + Len(t) : (s \o t)[i] = IF i <= Len(s) THEN s[i] ELSE t[i - Len(s)]
  BY ConcatProperties
<1>3. \A i \in 1 .. Len(s) : (s \o t)[i] = s[i]
  BY <1>1, <1>2
<1>4. ASSUME NEW i \in 1 .. Len(t)
      PROVE  (s \o t)[Len(s) + i] = t[i]
  <2>1. Len(s) + i \in 1 .. Len(s) + Len(t) /\ ~(Len(s) + i <= Len(s)) /\ (Len(s) + i) - Len(s) = i
    BY <1>1
  <2>2. (s \o t)[Len(s) + i] = t[(Len(s) + i) - Len(s)]
    BY <1>2, <2>1
  <2>3. QED
    BY <2>1, <2>2
<1>5. QED
  BY <1>2, <1>3, <1>4

\* A sequence without one of its elements
LEMMA RemovedType ==
  ASSUME NEW f \in Seq(Byte), NEW i \in 1 .. Len(f)
  PROVE  /\ RemoveAt(f, i) \in Seq(Byte) /\ Len(RemoveAt(f, i)) = Len(f) - 1
         /\ \A k \in 1 .. Len(f) - 1 : RemoveAt(f, i)[k] = IF k < i THEN f[k] ELSE f[k + 1]
<1> DEFINE s == SubSeq(f, 1, i - 1)
           t == SubSeq(f, i + 1, Len(f))
<1>1. Len(f) \in Nat /\ i \in Nat /\ 1 <= i /\ i <= Len(f)
  BY LenProperties
<1>2. /\ s \in Seq(Byte) /\ Len(s) = i - 1
      /\ \A k \in 1 .. i - 1 : s[k] = f[k]
  <2>1. /\ s \in Seq(Byte) /\ Len(s) = (i - 1) + 1 - 1
        /\ \A k \in 1 .. (i - 1) + 1 - 1 : s[k] = f[1 + k - 1]
    BY <1>1, Piece
  <2> HIDE DEF s
  <2>2. QED
    BY <1>1, <2>1
<1>3. /\ t \in Seq(Byte) /\ Len(t) = Len(f) - i
      /\ \A k \in 1 .. Len(f) - i : t[k] = f[i + k]
  <2>1. /\ t \in Seq(Byte) /\ Len(t) = Len(f) + 1 - (i + 1)
        /\ \A k \in 1 .. Len(f) + 1 - (i + 1) : t[k] = f[(i + 1) + k - 1]
    BY <1>1, Piece
  <2> HIDE DEF t
  <2>2. QED
    BY <1>1, <2>1
<1>4. RemoveAt(f, i) = s \o t
  BY DEF RemoveAt
<1> HIDE DEF s, t
<1>5. /\ s \o t \in Seq(Byte) /\ Len(s \o t) = Len(s) + Len(t)
      /\ \A k \in 1 .. Len(s) : (s \o t)[k] = s[k]
      /\ \A k \in 1 .. Len(t) : (s \o t)[Len(s) + k] = t[k]
  <2>1. s \in Seq(Byte) /\ t \in Seq(Byte)
    BY <1>2, <1>3
  <2>2. QED
    BY <2>1, Joined
<1>6. ASSUME NEW k \in 1 .. Len(f) - 1
      PROVE  (s \o t)[k] = IF k < i THEN f[k] ELSE f[k + 1]
  <2>1. CASE k < i
    <3>1. k \in 1 .. Len(s) /\ k \in 1 .. i - 1
      BY <1>1, <1>2, <2>1
    <3>2. (s \o t)[k] = s[k] /\ s[k] = f[k]
      BY <1>2, <1>5, <3>1
    <3>3. QED
      BY <2>1, <3>2
  <2>2. CASE ~(k < i)
    <3>1. /\ k - Len(s) \in 1 .. Len(t) /\ k - Len(s) \in 1 .. Len(f) - i
          /\ Len(s) + (k - Len(s)) = k /\ i + (k - Len(s)) = k + 1
      BY <1>1, <1>2, <1>3, <2>2
    <3>2. (s \o t)[Len(s) + (k - Len(s))] = t[k - Len(s)] /\ t[k - Len(s)] = f[i + (k - Len(s))]
      BY <1>3, <1>5, <3>1
    <3>3. (s \o t)[k] = f[k + 1]
      BY <3>1, <3>2
    <3>4. QED
      BY <2>2, <3>3
  <2>3. QED
    BY <2>1, <2>2
<1>7. Len(s \o t) = Len(f) - 1
  BY <1>1, <1>2, <1>3, <1>5
<1>8. QED
  BY <1>4, <1>5, <1>6, <1>7

\* The message that each byte stands for
LEMMA TellerType ==
  ASSUME SumsApart
  PROVE  /\ \A x \in Byte : Teller[x] \in Seq(Byte)
         /\ \A m \in Messages : SumByte(m) \in Byte /\ Teller[SumByte(m)] = m
         /\ \A x \in Byte : (\A m \in Messages : x # SumByte(m)) => Teller[x] = <<>>
<1>1. ASSUME NEW x \in Byte
      PROVE  Teller[x] = IF \E m \in Messages : SumByte(m) = x
                           THEN CHOOSE m \in Messages : SumByte(m) = x ELSE <<>>
  BY DEF Teller
<1>2. ASSUME NEW m \in Messages
      PROVE  SumByte(m) \in Byte /\ Teller[SumByte(m)] = m
  <2>1. PICK x \in Byte, y \in Byte : CRC(HeadOf(m)) = <<x, y>>
    BY SumAssumption
  <2>2. SumByte(m) = x
    BY <2>1 DEF SumByte
  <2>3. \A n \in Messages : SumByte(n) = x => n = m
    BY <2>2 DEF SumsApart
  <2>4. QED
    BY <1>1, <2>2, <2>3
<1>3. ASSUME NEW x \in Byte
      PROVE  Teller[x] \in Seq(Byte)
  <2>1. CASE \E m \in Messages : SumByte(m) = x
    <3>1. PICK m \in Messages : SumByte(m) = x
      BY <2>1
    <3>2. Teller[x] = m
      BY <1>2, <3>1
    <3>3. QED
      BY <3>2, HeadType
  <2>2. CASE ~\E m \in Messages : SumByte(m) = x
    <3>1. Teller[x] = <<>>
      BY <1>1, <2>2
    <3>2. QED
      BY <3>1
  <2>3. QED
    BY <2>1, <2>2
<1>4. QED
  BY <1>1, <1>2, <1>3

\* Claims that can be moved to others of the same command, without changing their
\* order, are owed no more than those.
LEMMA OwedMoved ==
  ASSUME NEW C, NEW D, NEW t, Owed(C, t), NEW to,
         \A y \in D : \E x \in C : x[1] = to[y[1]] /\ x[2] = y[2],
         \A y, z \in D : y[1] < z[1] => to[y[1]] < to[z[1]]
  PROVE  Owed(D, t)
<1> DEFINE keys == {x[1] : x \in C}
           own == {y[1] : y \in D}
<1>1. PICK at \in [keys -> DOMAIN t] :
        /\ \A j, k \in keys : j < k => at[j] < at[k]
        /\ \A x \in C : t[at[x[1]]] = x[2]
  BY DEF Owed
<1>2. \A k \in own : to[k] \in keys
  OBVIOUS
<1>3. \A j, k \in own : j < k => to[j] < to[k]
  OBVIOUS
<1> DEFINE by == [k \in own |-> at[to[k]]]
<1>4. by \in [own -> DOMAIN t]
  BY <1>1, <1>2
<1>5. \A j, k \in own : j < k => by[j] < by[k]
  BY <1>1, <1>2, <1>3
<1>6. ASSUME NEW y \in D PROVE t[by[y[1]]] = y[2]
  <2>1. PICK x \in C : x[1] = to[y[1]] /\ x[2] = y[2]
    OBVIOUS
  <2>2. by[y[1]] = at[x[1]]
    BY <2>1
  <2>3. QED
    BY <1>1, <2>1, <2>2
<1> HIDE DEF by
<1>7. QED
  BY <1>4, <1>5, <1>6 DEF Owed

\* Claims that are fewer
LEMMA OwedLess ==
  ASSUME NEW C, NEW D, NEW t, Owed(C, t), D \subseteq C
  PROVE  Owed(D, t)
<1> DEFINE to == [k \in {y[1] : y \in D} |-> k]
<1>1. \A y \in D : to[y[1]] = y[1]
  OBVIOUS
<1> HIDE DEF to
<1>2. \A y \in D : \E x \in C : x[1] = to[y[1]] /\ x[2] = y[2]
  BY <1>1
<1>3. \A y, z \in D : y[1] < z[1] => to[y[1]] < to[z[1]]
  BY <1>1
<1>4. QED
  BY <1>2, <1>3, OwedMoved

\* What is sent may be claimed, behind all there is, at one place.
LEMMA OwedMore ==
  ASSUME NEW V, NEW t \in Seq(V), NEW c \in V, NEW C, NEW D, Owed(C, t),
         NEW z \in Int, \A x \in C : x[1] \in Int /\ x[1] < z,
         \A y \in D : y \in C \/ (y[1] = z /\ y[2] = c)
  PROVE  Owed(D, Append(t, c))
<1> DEFINE keys == {x[1] : x \in C}
           own == {y[1] : y \in D}
           u == Append(t, c)
<1>1. PICK at \in [keys -> DOMAIN t] :
        /\ \A j, k \in keys : j < k => at[j] < at[k]
        /\ \A x \in C : t[at[x[1]]] = x[2]
  BY DEF Owed
<1>2. /\ Len(t) \in Nat /\ DOMAIN t = 1 .. Len(t)
      /\ DOMAIN u = 1 .. Len(t) + 1 /\ u[Len(t) + 1] = c
      /\ \A k \in 1 .. Len(t) : u[k] = t[k]
  BY LenProperties, AppendProperties
<1> HIDE DEF u
<1>3. \A k \in keys : k \in Int /\ k < z
  OBVIOUS
<1>4. \A k \in own : k \in keys \/ k = z
  OBVIOUS
<1> DEFINE by == [k \in own |-> IF k = z THEN Len(t) + 1 ELSE at[k]]
<1>5. by \in [own -> DOMAIN u]
  BY <1>1, <1>2, <1>4
<1>6. ASSUME NEW j \in own, NEW k \in own, j < k
      PROVE  by[j] < by[k]
  <2>1. j # z
    BY <1>3, <1>4, <1>6
  <2>2. CASE k = z
    <3>1. by[j] = at[j] /\ at[j] \in 1 .. Len(t) /\ by[k] = Len(t) + 1
      BY <1>1, <1>2, <1>4, <2>1, <2>2
    <3>2. QED
      BY <1>2, <3>1
  <2>3. CASE k # z
    <3>1. by[j] = at[j] /\ by[k] = at[k] /\ j \in keys /\ k \in keys
      BY <1>4, <2>1, <2>3
    <3>2. QED
      BY <1>1, <1>6, <3>1
  <2>4. QED
    BY <2>2, <2>3
<1>7. ASSUME NEW y \in D PROVE u[by[y[1]]] = y[2]
  <2>1. CASE y \in C
    <3>1. y[1] \in keys /\ y[1] # z /\ y[1] \in own
      BY <1>3, <2>1
    <3>2. by[y[1]] = at[y[1]] /\ at[y[1]] \in 1 .. Len(t)
      BY <1>1, <1>2, <3>1
    <3>3. QED
      BY <1>1, <1>2, <2>1, <3>2
  <2>2. CASE y[1] = z /\ y[2] = c
    BY <1>2, <2>2
  <2>3. QED
    BY <2>1, <2>2
<1> HIDE DEF by
<1>8. QED
  BY <1>5, <1>6, <1>7 DEF Owed, u

\* What was executed has its claims, in its order.
LEMMA OwedWithin ==
  ASSUME BelowTypes, Owed(Claims, sent)
  PROVE  Within(ran, sent)
<1> DEFINE keys == {x[1] : x \in Claims}
           z == Len(ran) + BufSize
<1>1. PICK at \in [keys -> DOMAIN sent] :
        /\ \A j, k \in keys : j < k => at[j] < at[k]
        /\ \A x \in Claims : sent[at[x[1]]] = x[2]
  BY DEF Owed
<1>2. Len(ran) \in Nat /\ DOMAIN ran = 1 .. Len(ran) /\ BufSize \in Nat /\ z \in Int
  BY LenProperties, LineAssumption DEF BelowTypes
<1>3. ASSUME NEW k \in DOMAIN ran
      PROVE  <<k - z, ran[k]>> \in Claims /\ k - z \in keys
  <2>1. k - z = k - Len(ran) - BufSize
    BY <1>2
  <2>2. <<k - z, ran[k]>> \in Claims
    BY <2>1 DEF Claims, Executed
  <2>3. <<k - z, ran[k]>>[1] = k - z
    OBVIOUS
  <2>4. QED
    BY <2>2, <2>3
<1> HIDE DEF z
<1> DEFINE by == [k \in DOMAIN ran |-> at[k - z]]
<1>4. by \in [DOMAIN ran -> DOMAIN sent]
  BY <1>1, <1>3
<1>5. \A k \in DOMAIN ran : ran[k] = sent[by[k]]
  BY <1>1, <1>3
<1>6. \A j, k \in DOMAIN ran : j < k => by[j] < by[k]
  <2>1. \A j, k \in DOMAIN ran : j < k => j - z < k - z
    BY <1>2
  <2>2. QED
    BY <1>1, <1>3, <2>1
<1> HIDE DEF by
<1>7. QED
  BY <1>4, <1>5, <1>6 DEF Within, Embeds

\* A byte tells a command if it is its sum byte.
LEMMA TellerIs ==
  ASSUME SumsApart, NEW x \in Byte, NEW m \in Messages
  PROVE  Teller[x] = m <=> x = SumByte(m)
<1>1. x = SumByte(m) => Teller[x] = m
  BY TellerType
<1>2. ASSUME Teller[x] = m PROVE x = SumByte(m)
  <2>1. m # <<>>
    BY HeadType
  <2>2. PICK d \in Messages : x = SumByte(d)
    BY <1>2, <2>1, TellerType
  <2>3. Teller[x] = d
    BY <2>2, TellerType
  <2>4. QED
    BY <1>2, <2>2, <2>3
<1>3. QED
  BY <1>1, <1>2

\* What SumAt says of the bytes
LEMMA SumAtIs ==
  ASSUME SumsApart, NEW s \in Seq(Byte), NEW p \in 1 .. Len(s), NEW m \in Commands
  PROVE  SumAt(s, p, m) <=> s[p] = SumByte(m) /\ p > 4 + Len(m)
<1>1. s[p] \in Byte /\ m \in Messages
  BY ElementOfSeq DEF Messages
<1>2. QED
  BY <1>1, TellerIs DEF SumAt

\* The head of a command lies at i, its plain body in front of q.
HeadLies(s, i, m) == \A k \in 1 .. 4 + Len(m) : s[i + k - 1] = HeadOf(m)[k]
BodyLies(s, q, m) == \A k \in 1 .. Len(m) : s[q - Len(m) - 1 + k] = m[k]

\* What HeadTo says of the bytes, one by one
LEMMA HeadToIs ==
  ASSUME NEW s \in Seq(Byte), NEW p \in 1 .. Len(s) + 1, NEW m \in Commands
  PROVE  HeadTo(s, p, m) <=> p > 4 + Len(m) /\ HeadLies(s, p - 4 - Len(m), m)
<1> SUFFICES ASSUME p > 4 + Len(m)
             PROVE  HeadTo(s, p, m) <=> HeadLies(s, p - 4 - Len(m), m)
  BY DEF HeadTo
<1> DEFINE i == p - 4 - Len(m)
           h == HeadOf(m)
           t == SubSeq(s, i, p - 1)
<1>1. /\ Len(m) \in Nat /\ 2 <= Len(m) /\ h \in Seq(Byte) /\ Len(h) = 4 + Len(m)
      /\ h[1] = 170 /\ h[2] = 85
  BY HeadType DEF Messages
<1>2. i \in Nat /\ 1 <= i /\ p - 1 \in Nat /\ p - 1 <= Len(s) /\ i <= (p - 1) + 1 /\ (p - 1) + 1 - i = 4 + Len(m)
  BY <1>1, LenProperties
<1>3. t \in Seq(Byte) /\ Len(t) = 4 + Len(m) /\ \A k \in 1 .. 4 + Len(m) : t[k] = s[i + k - 1]
  BY <1>2, Piece
<1> HIDE DEF t, h, i
<1>4. t = h <=> \A k \in 1 .. 4 + Len(m) : s[i + k - 1] = h[k]
  <2>1. ASSUME \A k \in 1 .. 4 + Len(m) : s[i + k - 1] = h[k]
        PROVE  t = h
    BY SMTT(30), <1>1, <1>3, <2>1, SeqEqual
  <2>2. QED
    BY <1>3, <2>1
<1>5. ASSUME \A k \in 1 .. 4 + Len(m) : s[i + k - 1] = h[k]
      PROVE  MarkAt(s, i)
  <2>1. 1 \in 1 .. 4 + Len(m) /\ 2 \in 1 .. 4 + Len(m) /\ i + 1 - 1 = i /\ i + 2 - 1 = i + 1
    BY <1>1, <1>2
  <2>2. s[i] = h[1] /\ s[i + 1] = h[2]
    BY <1>5, <2>1
  <2>3. QED
    BY <1>1, <2>2 DEF MarkAt
<1>6. QED
  BY <1>4, <1>5 DEF HeadTo, HeadLies, h, i, t

\* The same of a body that is plain
LEMMA BodyIs ==
  ASSUME NEW s \in Seq(Byte), NEW q \in 1 .. Len(s) + 1, NEW m \in Commands, q > Len(m)
  PROVE  SubSeq(s, q - Len(m), q - 1) = m <=> BodyLies(s, q, m)
<1> DEFINE i == q - Len(m)
           t == SubSeq(s, i, q - 1)
<1>1. m \in Seq(Byte) /\ Len(m) \in Nat /\ 2 <= Len(m)
  BY HeadType DEF Messages
<1>2. i \in Nat /\ 1 <= i /\ q - 1 \in Nat /\ q - 1 <= Len(s) /\ i <= (q - 1) + 1 /\ (q - 1) + 1 - i = Len(m)
  BY <1>1, LenProperties
<1>3. t \in Seq(Byte) /\ Len(t) = Len(m) /\ \A k \in 1 .. Len(m) : t[k] = s[i + k - 1]
  BY <1>2, Piece
<1>4. \A k \in 1 .. Len(m) : i + k - 1 = q - Len(m) - 1 + k
  BY <1>1, <1>2
<1> HIDE DEF t, i
<1>5. t = m <=> \A k \in 1 .. Len(m) : s[i + k - 1] = m[k]
  <2>1. ASSUME \A k \in 1 .. Len(m) : s[i + k - 1] = m[k]
        PROVE  t = m
    BY <1>1, <1>3, <2>1, SeqEqual
  <2>2. QED
    BY <1>3, <2>1
<1>6. BodyLies(s, q, m) <=> \A k \in 1 .. Len(m) : s[i + k - 1] = m[k]
  BY <1>4 DEF BodyLies
<1>7. QED
  BY <1>5, <1>6 DEF i, t

\* The fourth byte of a frame
LEMMA LengthHigh ==
  ASSUME NEW m \in Messages
  PROVE  HeadOf(m)[4] = Len(m) \div 256
<1> DEFINE h == <<170, 85, Len(m) % 256, Len(m) \div 256>>
<1>1. h \in Seq(Byte) /\ Len(h) = 4 /\ h[4] = Len(m) \div 256
  <2>1. (Len(m) % 256) \in Byte /\ Len(m) \div 256 \in Byte
    BY HeadType, Halves
  <2>2. QED
    BY <2>1 DEF Byte
<1>2. Coded(m) \in Seq(Byte)
  BY HeadType, CodedType
<1> HIDE DEF h
<1>3. (h \o Coded(m))[4] = h[4]
  <2>1. \A i \in 1 .. Len(h) : (h \o Coded(m))[i] = h[i]
    BY <1>1, <1>2, Joined
  <2>2. 4 \in 1 .. Len(h)
    BY <1>1
  <2>3. QED
    BY <2>1, <2>2
<1>4. HeadOf(m) = h \o Coded(m)
  BY DEF HeadOf, h
<1>5. QED
  BY <1>1, <1>3, <1>4

\* What tells the frame of a command
LEMMA FrameTells ==
  ASSUME SumsApart, MarksApart, NEW c \in Commands
  PROVE  /\ Frame(c) \in Seq(Byte) /\ Len(Frame(c)) = 6 + Len(c) /\ Len(c) \in Nat /\ 2 <= Len(c)
         /\ Frame(c)[1] = 170 /\ Frame(c)[2] = 85
         /\ Frame(c)[4] = Len(c) \div 256 /\ U16(Frame(c), 3) = Len(c)
         /\ \A r \in 1 .. Len(c) : Frame(c)[4 + r] = Key[c[r]]
         /\ Frame(c)[5 + Len(c)] = SumByte(c)
         /\ \A k \in 1 .. 6 + Len(c) : Frame(c)[k] = 85 => k = 2
         /\ \A k \in 1 .. 6 + Len(c) : \A m \in Messages : Frame(c)[k] = SumByte(m) => m = c /\ k = 5 + Len(c)
<1> DEFINE f == Frame(c)
           n == Len(c)
           h == HeadOf(c)
<1>0. c \in Messages
  BY DEF Messages
<1>1. /\ f \in Seq(Byte) /\ Len(f) = 6 + n /\ n \in Nat /\ 2 <= n
      /\ \A i \in 1 .. 4 + n : f[i] = h[i]
      /\ h[1] = 170 /\ h[2] = 85 /\ U16(h, 3) = n
      /\ \A i \in 1 .. n : h[4 + i] = Coded(c)[i]
      /\ h \in Seq(Byte) /\ Len(h) = 4 + n
  BY <1>0, FrameType, HeadType
<1>2. f[5 + n] = SumByte(c) /\ f[6 + n] = CRC(h)[2]
  BY <1>0, FrameBytes
<1>3. \A i \in 1 .. n : Coded(c)[i] = Key[c[i]]
  BY <1>0, HeadType, CodedType
<1>4. h[4] = n \div 256
  BY <1>0, LengthHigh
<1>5. \A k \in 1 .. 6 + n : f[k] = 85 => k = 2
  <2>1. DOMAIN f = 1 .. 6 + n
    BY <1>1, LenProperties
  <2>2. QED
    BY <1>0, <2>1 DEF MarksApart
<1>6. ASSUME NEW k \in 1 .. 6 + n, NEW m \in Messages, f[k] = SumByte(m)
      PROVE  m = c /\ k = 5 + n
  <2>1. SumByte(m) \notin Range(h) /\ SumByte(m) # CRC(h)[2]
    BY <1>0 DEF SumsApart
  <2>2. k # 6 + n
    BY <1>2, <1>6, <2>1
  <2>3. ~(k <= 4 + n)
    <3>1. ASSUME k <= 4 + n PROVE FALSE
      <4>1. k \in 1 .. 4 + n /\ DOMAIN h = 1 .. 4 + n
        BY <1>1, <3>1, LenProperties
      <4>2. f[k] \in Range(h)
        BY <1>1, <4>1 DEF Range
      <4>3. QED
        BY <1>6, <2>1, <4>2
    <3>2. QED
      BY <3>1
  <2>4. k = 5 + n
    BY <1>1, <2>2, <2>3
  <2>5. m = c
    BY <1>0, <1>2, <1>6, <2>4 DEF SumsApart
  <2>6. QED
    BY <2>4, <2>5
<1> HIDE DEF f, h
<1>7. f[1] = h[1] /\ f[2] = h[2] /\ f[3] = h[3] /\ f[4] = h[4]
  BY <1>1
<1>8. \A r \in 1 .. n : f[4 + r] = h[4 + r]
  BY <1>1
<1>9. U16(f, 3) = n
  BY <1>1, <1>7 DEF U16
<1>10. QED
  BY <1>1, <1>2, <1>3, <1>4, <1>5, <1>6, <1>7, <1>8, <1>9 DEF f

\* What the line makes of a frame, if it spares the mark
LEMMA GarbledCases ==
  ASSUME MarksSpared, NEW f \in Seq(Byte), NEW g \in Garbled(f)
  PROVE  \/ g = f
         \/ \E i \in 3 .. Len(f) :
              /\ g \in Seq(Byte) /\ Len(g) = Len(f) - 1
              /\ \A k \in 1 .. Len(f) - 1 : g[k] = IF k < i THEN f[k] ELSE f[k + 1]
         \/ \E i \in 3 .. Len(f), x \in Noise :
              /\ g \in Seq(Byte) /\ Len(g) = Len(f)
              /\ \A k \in 1 .. Len(f) : g[k] = IF k = i THEN x ELSE f[k]
<1>1. DOMAIN f = 1 .. Len(f) /\ Len(f) \in Nat
  BY LenProperties
<1>2. \A i \in DOMAIN f \cap Places : i \in 3 .. Len(f) /\ i \in 1 .. Len(f)
  BY <1>1 DEF MarksSpared
<1>3. CASE g = f
  BY <1>3
<1>4. CASE \E i \in DOMAIN f \cap Places : g = RemoveAt(f, i)
  BY <1>2, <1>4, RemovedType
<1>5. CASE \E i \in DOMAIN f \cap Places, x \in Noise : g = [f EXCEPT ![i] = x]
  <2>1. PICK i \in DOMAIN f \cap Places, x \in Noise : g = [f EXCEPT ![i] = x]
    BY <1>5
  <2>2. x \in Byte
    BY LineAssumption
  <2>3. /\ g \in Seq(Byte) /\ Len(g) = Len(f)
        /\ \A k \in 1 .. Len(f) : g[k] = IF k = i THEN x ELSE f[k]
    BY <1>2, <2>1, <2>2, ExceptSeq
  <2>4. QED
    BY <1>2, <2>3
<1>6. QED
  BY <1>3, <1>4, <1>5 DEF Garbled

\* What is lost on the way, or is garbled
LEMMA LineGarbled ==
  ASSUME NEW f \in Seq(Byte), NEW m \in Line(f)
  PROVE  m.bytes = None \/ m.bytes \in Garbled(f)
BY DEF Line, Garbled

\* What is left of the frame of a command: its mark, its sum byte at one place or
\* nowhere, and in front of that no plain body.
LEMMA GarbledShape ==
  ASSUME SumsApart, MarksApart, MarksSpared, BodiesTell,
         NEW c \in Commands, NEW g \in Garbled(Frame(c))
  PROVE  /\ g \in Seq(Byte) /\ Len(g) \in {5 + Len(c), 6 + Len(c)}
         /\ g[1] = 170 /\ g[2] = 85
         /\ \A k \in 1 .. Len(g) : g[k] = 85 => k = 2
         /\ \A k \in 1 .. Len(g) : \A m \in Messages :
              g[k] = SumByte(m) => m = c /\ k \in {4 + Len(c), 5 + Len(c)}
         /\ ~(g[4 + Len(c)] = SumByte(c) /\ g[5 + Len(c)] = SumByte(c))
         /\ \A k \in 1 .. Len(g) : g[k] = SumByte(c) => \E r \in 1 .. Len(c) : g[k - Len(c) - 1 + r] # c[r]
         /\ \A m \in Commands : Len(g) = 3 + Len(m) =>
              \E k \in 1 .. 3 + Len(m) : g[k] # HeadOf(m)[k]
<1> DEFINE f == Frame(c)
           n == Len(c)
           Shape ==
             /\ g \in Seq(Byte) /\ Len(g) \in {5 + n, 6 + n}
             /\ g[1] = 170 /\ g[2] = 85
             /\ \A k \in 1 .. Len(g) : g[k] = 85 => k = 2
             /\ \A k \in 1 .. Len(g) : \A m \in Messages :
                  g[k] = SumByte(m) => m = c /\ k \in {4 + n, 5 + n}
             /\ ~(g[4 + n] = SumByte(c) /\ g[5 + n] = SumByte(c))
             /\ \A k \in 1 .. Len(g) : g[k] = SumByte(c) => \E r \in 1 .. n : g[k - n - 1 + r] # c[r]
           Long == U16(g, 3) = n \/ \E k \in 1 .. 5 + n : g[k] = SumByte(c)
<1>1. /\ f \in Seq(Byte) /\ Len(f) = 6 + n /\ n \in Nat /\ 2 <= n
      /\ f[1] = 170 /\ f[2] = 85
      /\ f[4] = n \div 256 /\ U16(f, 3) = n
      /\ \A r \in 1 .. n : f[4 + r] = Key[c[r]]
      /\ f[5 + n] = SumByte(c)
      /\ \A k \in 1 .. 6 + n : f[k] = 85 => k = 2
      /\ \A k \in 1 .. 6 + n : \A m \in Messages : f[k] = SumByte(m) => m = c /\ k = 5 + n
  BY FrameTells
<1>2. \A x \in Noise : x # 85 /\ \A m \in Messages : x # SumByte(m)
  BY DEF MarksApart, SumsApart
<1>3. Key[c[1]] # c[1] /\ Key[c[2]] # c[2] /\ Key[c[n]] # c[n] /\ c[1] # n \div 256
  BY DEF BodiesTell
<1>4. c \in Messages
  BY DEF Messages
<1>5. 4 + 1 = 5 /\ 4 + 2 = 6 /\ 1 \in 1 .. n /\ 2 \in 1 .. n
  BY <1>1
<1>6. f[5] # c[1] /\ f[6] # c[2]
  BY <1>1, <1>3, <1>5
<1>7. \/ g = f
      \/ \E i \in 3 .. 6 + n :
           /\ g \in Seq(Byte) /\ Len(g) = 5 + n
           /\ \A k \in 1 .. 5 + n : g[k] = IF k < i THEN f[k] ELSE f[k + 1]
      \/ \E i \in 3 .. 6 + n, x \in Noise :
           /\ g \in Seq(Byte) /\ Len(g) = 6 + n
           /\ \A k \in 1 .. 6 + n : g[k] = IF k = i THEN x ELSE f[k]
  <2>1. Len(f) - 1 = 5 + n
    BY <1>1
  <2> HIDE DEF f, n
  <2>2. \/ g = f
        \/ \E i \in 3 .. Len(f) :
             /\ g \in Seq(Byte) /\ Len(g) = Len(f) - 1
             /\ \A k \in 1 .. Len(f) - 1 : g[k] = IF k < i THEN f[k] ELSE f[k + 1]
        \/ \E i \in 3 .. Len(f), x \in Noise :
             /\ g \in Seq(Byte) /\ Len(g) = Len(f)
             /\ \A k \in 1 .. Len(f) : g[k] = IF k = i THEN x ELSE f[k]
    <3>1. f \in Seq(Byte) /\ g \in Garbled(f)
      BY <1>1 DEF f
    <3>2. QED
      BY ONLY MarksSpared, <3>1, GarbledCases
  <2>3. QED
    BY <1>1, <2>1, <2>2
<1> HIDE DEF f, n
<1>8. ASSUME g = f
      PROVE  Shape /\ Long
  <2>1. g[4 + n] # SumByte(c)
    BY <1>1, <1>4, <1>8
  <2>2. ASSUME NEW k \in 1 .. Len(g), g[k] = SumByte(c)
        PROVE  \E r \in 1 .. n : g[k - n - 1 + r] # c[r]
    <3>1. k = 5 + n /\ k - n - 1 + 1 = 5
      BY <1>1, <1>4, <1>8, <2>2
    <3>2. QED
      BY <1>5, <1>6, <1>8, <3>1
  <2>3. Len(g) \in {5 + n, 6 + n} /\ U16(g, 3) = n
    BY <1>1, <1>8
  <2>4. \A k \in 1 .. Len(g) : g[k] = 85 => k = 2
    BY <1>1, <1>8
  <2>5. \A k \in 1 .. Len(g) : \A m \in Messages :
          g[k] = SumByte(m) => m = c /\ k \in {4 + n, 5 + n}
    BY <1>1, <1>8
  <2>6. QED
    BY <1>1, <1>8, <2>1, <2>2, <2>3, <2>4, <2>5
<1>9. ASSUME \E i \in 3 .. 6 + n :
               /\ g \in Seq(Byte) /\ Len(g) = 5 + n
               /\ \A k \in 1 .. 5 + n : g[k] = IF k < i THEN f[k] ELSE f[k + 1]
      PROVE  Shape /\ Long
  <2>1. PICK i \in 3 .. 6 + n :
             /\ g \in Seq(Byte) /\ Len(g) = 5 + n
             /\ \A k \in 1 .. 5 + n : g[k] = IF k < i THEN f[k] ELSE f[k + 1]
    BY <1>9
  <2>2. g[1] = 170 /\ g[2] = 85
    BY <1>1, <2>1
  <2>3. ASSUME NEW k \in 1 .. Len(g), g[k] = 85 PROVE k = 2
    <3>1. CASE k < i
      BY <1>1, <2>1, <2>3, <3>1
    <3>2. CASE ~(k < i)
      <4>1. f[k + 1] = 85 /\ k + 1 \in 1 .. 6 + n /\ k + 1 # 2
        BY <1>1, <2>1, <2>3, <3>2
      <4>2. QED
        BY <1>1, <4>1
    <3>3. QED
      BY <3>1, <3>2
  <2>4. ASSUME NEW k \in 1 .. Len(g), NEW m \in Messages, g[k] = SumByte(m)
        PROVE  m = c /\ ((k = 5 + n /\ i = 6 + n) \/ (k = 4 + n /\ i <= 4 + n))
    <3>1. CASE k < i
      <4>1. f[k] = SumByte(m) /\ k \in 1 .. 6 + n /\ k \in 1 .. 5 + n
        BY <1>1, <2>1, <2>4, <3>1
      <4>2. m = c /\ k = 5 + n
        BY <1>1, <4>1
      <4>3. QED
        BY <1>1, <3>1, <4>2
    <3>2. CASE ~(k < i)
      <4>1. f[k + 1] = SumByte(m) /\ k + 1 \in 1 .. 6 + n
        BY <1>1, <2>1, <2>4, <3>2
      <4>2. m = c /\ k + 1 = 5 + n
        BY <1>1, <4>1
      <4>3. QED
        BY <1>1, <3>2, <4>2
    <3>3. QED
      BY <3>1, <3>2
  <2>5. ~(g[4 + n] = SumByte(c) /\ g[5 + n] = SumByte(c))
    <3>1. 4 + n \in 1 .. Len(g) /\ 5 + n \in 1 .. Len(g) /\ 4 + n # 5 + n
      BY <1>1, <2>1
    <3>2. QED
      BY <1>1, <1>4, <2>4, <3>1
  <2>6. ASSUME NEW k \in 1 .. Len(g), g[k] = SumByte(c)
        PROVE  \E r \in 1 .. n : g[k - n - 1 + r] # c[r]
    <3>1. CASE k = 5 + n /\ i = 6 + n
      <4>1. k - n - 1 + 1 = 5 /\ 5 \in 1 .. 5 + n /\ 5 < i
        BY <1>1, <3>1
      <4>2. g[5] = f[5]
        BY <2>1, <4>1
      <4>3. QED
        BY <1>5, <1>6, <4>1, <4>2
    <3>2. CASE k = 4 + n /\ i <= 4 + n
      <4>1. k - n - 1 + 1 = 4 /\ 4 \in 1 .. 5 + n /\ 4 + 1 = 5
        BY <1>1, <3>2
      <4>2. g[4] = f[4] \/ g[4] = f[5]
        BY <2>1, <4>1
      <4>3. g[4] # c[1]
        BY <1>1, <1>3, <1>6, <4>2
      <4>4. QED
        BY <1>5, <4>1, <4>3
    <3>3. QED
      BY <1>4, <2>4, <2>6, <3>1, <3>2
  <2>7. Shape
    <3>1. \A k \in 1 .. Len(g) : \A m \in Messages :
             g[k] = SumByte(m) => m = c /\ k \in {4 + n, 5 + n}
      BY <2>4
    <3>2. QED
      BY <2>1, <2>2, <2>3, <2>5, <2>6, <3>1
  <2>8. Long
    <3>1. CASE i <= 4 + n
      <4>1. g[4 + n] = f[(4 + n) + 1] /\ (4 + n) + 1 = 5 + n /\ 4 + n \in 1 .. 5 + n
        BY <1>1, <2>1, <3>1
      <4>2. QED
        BY SMTT(30), <1>1, <4>1
    <3>2. CASE ~(i <= 4 + n)
      <4>1. 3 \in 1 .. 5 + n /\ 4 \in 1 .. 5 + n /\ 3 < i /\ 4 < i
        BY <1>1, <2>1, <3>2
      <4>2. g[3] = f[3] /\ g[4] = f[4]
        BY <2>1, <4>1
      <4>3. QED
        BY <1>1, <4>2 DEF U16
    <3>3. QED
      BY <3>1, <3>2
  <2>9. QED
    <3> HIDE DEF Shape, Long
    <3>1. QED
      BY <2>7, <2>8
<1>10. ASSUME \E i \in 3 .. 6 + n, x \in Noise :
                /\ g \in Seq(Byte) /\ Len(g) = 6 + n
                /\ \A k \in 1 .. 6 + n : g[k] = IF k = i THEN x ELSE f[k]
       PROVE  Shape /\ Long
  <2>1. PICK i \in 3 .. 6 + n, x \in Noise :
             /\ g \in Seq(Byte) /\ Len(g) = 6 + n
             /\ \A k \in 1 .. 6 + n : g[k] = IF k = i THEN x ELSE f[k]
    BY <1>10
  <2>2. g[1] = 170 /\ g[2] = 85
    <3>1. 1 \in 1 .. 6 + n /\ 2 \in 1 .. 6 + n /\ 1 # i /\ 2 # i
      BY <1>1, <2>1
    <3>2. g[1] = f[1] /\ g[2] = f[2]
      BY <2>1, <3>1
    <3>3. QED
      BY <1>1, <3>2
  <2>3. \A k \in 1 .. Len(g) : g[k] = 85 => k = 2
    BY <1>1, <1>2, <2>1
  <2>4. ASSUME NEW k \in 1 .. Len(g), NEW m \in Messages, g[k] = SumByte(m)
        PROVE  m = c /\ k = 5 + n
    <3>1. k \in 1 .. 6 + n /\ f[k] = SumByte(m)
      BY <1>2, <2>1, <2>4
    <3>2. QED
      BY <1>1, <3>1
  <2>5. g[4 + n] # SumByte(c)
    <3>1. 4 + n \in 1 .. Len(g) /\ 4 + n # 5 + n
      BY <1>1, <2>1
    <3>2. QED
      BY <1>4, <2>4, <3>1
  <2>6. ASSUME NEW k \in 1 .. Len(g), g[k] = SumByte(c)
        PROVE  \E r \in 1 .. n : g[k - n - 1 + r] # c[r]
    <3>1. k = 5 + n
      BY <1>4, <2>4, <2>6
    <3>2. k - n - 1 + 1 = 5 /\ k - n - 1 + 2 = 6 /\ 5 \in 1 .. 6 + n /\ 6 \in 1 .. 6 + n
      BY <1>1, <3>1
    <3>3. g[5] = f[5] \/ g[6] = f[6]
      BY <2>1, <3>2
    <3>4. QED
      BY <1>5, <1>6, <3>2, <3>3
  <2>7. Shape
    <3>1. \A k \in 1 .. Len(g) : \A m \in Messages :
             g[k] = SumByte(m) => m = c /\ k \in {4 + n, 5 + n}
      BY <2>4
    <3>2. QED
      BY <2>1, <2>2, <2>3, <2>5, <2>6, <3>1
  <2>8. Long
    <3>1. CASE i = 5 + n
      <4>1. 3 \in 1 .. 6 + n /\ 4 \in 1 .. 6 + n /\ 3 # i /\ 4 # i
        BY <1>1, <2>1, <3>1
      <4>2. g[3] = f[3] /\ g[4] = f[4]
        BY <2>1, <4>1
      <4>3. QED
        BY <1>1, <4>2 DEF U16
    <3>2. CASE i # 5 + n
      <4>1. g[5 + n] = f[5 + n] /\ 5 + n \in 1 .. 5 + n
        BY <1>1, <2>1, <3>2
      <4>2. QED
        BY <1>1, <4>1
    <3>3. QED
      BY <3>1, <3>2
  <2>9. QED
    <3> HIDE DEF Shape, Long
    <3>1. QED
      BY <2>7, <2>8
<1>11. Shape /\ Long
  <2> HIDE DEF Shape, Long
  <2>1. QED
    BY <1>7, <1>8, <1>9, <1>10
<1>12. ASSUME NEW m \in Commands, Len(g) = 3 + Len(m),
              \A k \in 1 .. 3 + Len(m) : g[k] = HeadOf(m)[k]
       PROVE  FALSE
  <2>1. /\ HeadOf(m) \in Seq(Byte) /\ Len(HeadOf(m)) = 4 + Len(m) /\ Len(m) \in Nat
        /\ U16(HeadOf(m), 3) = Len(m) /\ m \in Messages /\ 2 <= Len(m)
    BY HeadType DEF Messages
  <2>2. Len(m) # n
    BY SMTT(30), <1>1, <1>11, <1>12, <2>1
  <2>3. U16(g, 3) = Len(m)
    <3>1. 3 \in 1 .. 3 + Len(m) /\ 4 \in 1 .. 3 + Len(m)
      BY <2>1
    <3>2. g[3] = HeadOf(m)[3] /\ g[4] = HeadOf(m)[4]
      BY <1>12, <3>1
    <3>3. QED
      BY <2>1, <3>2 DEF U16
  <2>4. PICK k \in 1 .. 5 + n : g[k] = SumByte(c)
    BY <1>11, <2>2, <2>3
  <2>5. k \in 1 .. 3 + Len(m) /\ k \in 1 .. 4 + Len(m)
    BY SMTT(30), <1>1, <1>11, <1>12, <2>1, <2>4
  <2>6. SumByte(c) \in Range(HeadOf(m))
    <3>1. DOMAIN HeadOf(m) = 1 .. 4 + Len(m) /\ HeadOf(m)[k] = SumByte(c)
      BY <1>12, <2>1, <2>4, <2>5, LenProperties
    <3>2. QED
      BY <2>5, <3>1 DEF Range
  <2>7. QED
    BY <1>4, <2>1, <2>6 DEF SumsApart
<1>13. QED
  <2>1. \A m \in Commands : Len(g) = 3 + Len(m) => \E k \in 1 .. 3 + Len(m) : g[k] # HeadOf(m)[k]
    BY <1>12
  <2>2. QED
    BY <1>11, <2>1 DEF n

\* The head of a command holds the second byte of a mark once.
LEMMA HeadMark ==
  ASSUME MarksApart, NEW m \in Commands
  PROVE  /\ Len(m) \in Nat /\ 2 <= Len(m)
         /\ HeadOf(m) \in Seq(Byte) /\ Len(HeadOf(m)) = 4 + Len(m)
         /\ HeadOf(m)[1] = 170 /\ HeadOf(m)[2] = 85
         /\ \A k \in 1 .. 4 + Len(m) : HeadOf(m)[k] = 85 => k = 2
<1>1. m \in Messages
  BY DEF Messages
<1>2. /\ Len(m) \in Nat /\ 2 <= Len(m) /\ Len(HeadOf(m)) = 4 + Len(m)
      /\ HeadOf(m) \in Seq(Byte)
      /\ HeadOf(m)[1] = 170 /\ HeadOf(m)[2] = 85
      /\ Len(Frame(m)) = 6 + Len(m) /\ Frame(m) \in Seq(Byte)
      /\ \A k \in 1 .. 4 + Len(m) : Frame(m)[k] = HeadOf(m)[k]
  BY <1>1, HeadType, FrameType
<1>3. DOMAIN Frame(m) = 1 .. 6 + Len(m)
  BY <1>2, LenProperties
<1>4. \A k \in 1 .. 4 + Len(m) : k \in 1 .. 6 + Len(m)
  BY <1>2
<1>5. QED
  BY <1>1, <1>2, <1>3, <1>4 DEF MarksApart

\* A head, or what there is of it, begins with what the line brings or ends
\* at its first byte.
LEMMA HeadApart ==
  ASSUME SumsApart, MarksApart, MarksSpared, BodiesTell,
         NEW s \in Seq(Byte), NEW c \in Commands, NEW g \in Garbled(Frame(c)),
         NEW m \in Commands, NEW i \in Nat, 1 <= i, NEW e \in 2 .. 4 + Len(m),
         i + e - 1 <= Len(s) + Len(g),
         \A k \in 1 .. e : (s \o g)[i + k - 1] = HeadOf(m)[k]
  PROVE  i = Len(s) + 1 \/ (i + 1 <= Len(s) /\ i + e - 1 <= Len(s) + 1)
<1> DEFINE w == s \o g
           n == Len(s)
           h == HeadOf(m)
<1>1. /\ g \in Seq(Byte) /\ g[2] = 85 /\ \A k \in 1 .. Len(g) : g[k] = 85 => k = 2
      /\ Len(g) \in {5 + Len(c), 6 + Len(c)}
  BY GarbledShape
<1>2. /\ Len(m) \in Nat /\ h[2] = 85 /\ \A k \in 1 .. 4 + Len(m) : h[k] = 85 => k = 2
  BY HeadMark
<1>3. n \in Nat /\ Len(g) \in Nat /\ 2 <= Len(g)
  BY SMTT(30), <1>1, LenProperties, HeadType DEF Messages
<1>4. \A k \in 1 .. Len(g) : w[n + k] = g[k]
  BY <1>1, Joined
<1>5. \A k \in 1 .. e : w[i + k - 1] = h[k]
  OBVIOUS
<1> HIDE DEF w, n, h
<1>6. CASE i + 1 <= n
  <2>1. ASSUME i + e - 1 >= n + 2 PROVE FALSE
    <3>1. (n + 3) - i \in 1 .. e /\ i + ((n + 3) - i) - 1 = n + 2 /\ (n + 3) - i \in 1 .. 4 + Len(m) /\ (n + 3) - i # 2
      BY <1>2, <1>3, <1>6, <2>1
    <3>2. w[n + 2] = h[(n + 3) - i]
      BY <1>5, <3>1
    <3>3. w[n + 2] = 85
      BY <1>1, <1>3, <1>4
    <3>4. QED
      BY <1>2, <3>1, <3>2, <3>3
  <2>2. QED
    BY <1>2, <1>3, <1>6, <2>1 DEF n
<1>7. CASE ~(i + 1 <= n)
  <2>1. 2 \in 1 .. e /\ i + 2 - 1 = i + 1 /\ (i + 1) - n \in 1 .. Len(g) /\ n + ((i + 1) - n) = i + 1
    BY <1>2, <1>3, <1>7 DEF n
  <2>2. w[i + 1] = 85 /\ w[i + 1] = g[(i + 1) - n]
    BY <1>2, <1>4, <1>5, <2>1
  <2>3. (i + 1) - n = 2
    BY <1>1, <2>1, <2>2
  <2>4. QED
    BY <1>3, <2>3 DEF n
<1>8. QED
  BY <1>6, <1>7

\* The head found in what the line brings is that of the command that was sent.
LEMMA HeadOwn ==
  ASSUME HeadsApart, NEW c \in Commands, NEW g \in Garbled(Frame(c)), g \in Seq(Byte),
         NEW m \in Commands, 4 + Len(m) <= Len(g),
         \A k \in 1 .. 4 + Len(m) : g[k] = HeadOf(m)[k]
  PROVE  m = c
<1> DEFINE h == HeadOf(m)
           t == SubSeq(g, 1, 4 + Len(m))
<1>1. Len(m) \in Nat /\ h \in Seq(Byte) /\ Len(h) = 4 + Len(m)
  BY HeadType DEF Messages
<1>2. t \in Seq(Byte) /\ Len(t) = 4 + Len(m) /\ \A k \in 1 .. 4 + Len(m) : t[k] = g[k]
  <2>1. 1 <= (4 + Len(m)) + 1 /\ 4 + Len(m) \in Nat /\ (4 + Len(m)) + 1 - 1 = 4 + Len(m)
    BY <1>1
  <2>2. /\ t \in Seq(Byte) /\ Len(t) = (4 + Len(m)) + 1 - 1
        /\ \A k \in 1 .. (4 + Len(m)) + 1 - 1 : t[k] = g[1 + k - 1]
    BY <2>1, Piece
  <2> HIDE DEF t
  <2>3. \A k \in 1 .. 4 + Len(m) : 1 + k - 1 = k
    BY <1>1
  <2>4. QED
    BY <2>1, <2>2, <2>3
<1> HIDE DEF t
<1>3. t = h
  BY <1>1, <1>2, SeqEqual
<1>4. SubSeq(h, 1, Len(h)) = h
  BY <1>1, SubSeqFull
<1>5. IsPrefix(HeadOf(m), g)
  BY <1>1, <1>3, <1>4 DEF IsPrefix, t
<1>6. QED
  BY <1>5 DEF HeadsApart

\* Where two sequences have the same bytes, they have the same sums, heads,
\* bodies and marks.
LEMMA SameThere ==
  ASSUME SumsApart, NEW s \in Seq(Byte), NEW t \in Seq(Byte), NEW d \in Nat, NEW e \in Nat,
         e <= Len(t), d + e <= Len(s), \A k \in 1 .. e : t[k] = s[d + k]
  PROVE  /\ \A q \in 1 .. e : \A m \in Commands : q > 4 + Len(m) => (SumAt(t, q, m) <=> SumAt(s, d + q, m))
         /\ \A q \in 1 .. e + 1 : \A m \in Commands : q > 4 + Len(m) => (HeadTo(t, q, m) <=> HeadTo(s, d + q, m))
         /\ \A q \in 1 .. e + 1 : \A m \in Commands : q > 4 + Len(m) =>
              (SubSeq(t, q - Len(m), q - 1) = m <=> SubSeq(s, (d + q) - Len(m), (d + q) - 1) = m)
         /\ \A j \in 1 .. e - 1 : MarkAt(t, j) <=> MarkAt(s, d + j)
<1>0. Len(s) \in Nat /\ Len(t) \in Nat /\ \A m \in Commands : Len(m) \in Nat /\ 2 <= Len(m)
  BY LenProperties, HeadType DEF Messages
<1>1. ASSUME NEW q \in 1 .. e, NEW m \in Commands, q > 4 + Len(m)
      PROVE  SumAt(t, q, m) <=> SumAt(s, d + q, m)
  <2>1. d + q > 4 + Len(m) /\ t[q] = s[d + q]
    BY <1>0, <1>1
  <2>2. QED
    BY <1>1, <2>1 DEF SumAt
<1>2. ASSUME NEW q \in 1 .. e + 1, NEW m \in Commands, q > 4 + Len(m)
      PROVE  HeadTo(t, q, m) <=> HeadTo(s, d + q, m)
  <2> DEFINE i == q - 4 - Len(m)
  <2>1. /\ q \in 1 .. Len(t) + 1 /\ d + q \in 1 .. Len(s) + 1 /\ d + q > 4 + Len(m)
        /\ (d + q) - 4 - Len(m) = d + i
    BY <1>0, <1>2
  <2>2. ASSUME NEW k \in 1 .. 4 + Len(m)
        PROVE  t[i + k - 1] = s[(d + i) + k - 1]
    <3>1. i + k - 1 \in 1 .. e /\ (d + i) + k - 1 = d + (i + k - 1)
      BY <1>0, <1>2
    <3>2. t[i + k - 1] = s[d + (i + k - 1)]
      BY <3>1
    <3>3. QED
      BY <3>1, <3>2
  <2>3. HeadLies(t, i, m) <=> HeadLies(s, d + i, m)
    BY <2>2 DEF HeadLies
  <2>4. HeadTo(t, q, m) <=> HeadLies(t, i, m)
    BY <1>2, <2>1, HeadToIs
  <2>5. HeadTo(s, d + q, m) <=> HeadLies(s, (d + q) - 4 - Len(m), m)
    BY <2>1, HeadToIs
  <2> HIDE DEF i
  <2>6. QED
    BY <2>1, <2>3, <2>4, <2>5
<1>3. ASSUME NEW q \in 1 .. e + 1, NEW m \in Commands, q > 4 + Len(m)
      PROVE  SubSeq(t, q - Len(m), q - 1) = m <=> SubSeq(s, (d + q) - Len(m), (d + q) - 1) = m
  <2>1. /\ q \in 1 .. Len(t) + 1 /\ d + q \in 1 .. Len(s) + 1 /\ d + q > Len(m) /\ q > Len(m)
    BY <1>0, <1>3
  <2>2. ASSUME NEW k \in 1 .. Len(m)
        PROVE  t[q - Len(m) - 1 + k] = s[(d + q) - Len(m) - 1 + k]
    <3>1. q - Len(m) - 1 + k \in 1 .. e /\ (d + q) - Len(m) - 1 + k = d + (q - Len(m) - 1 + k)
      BY <1>0, <1>3
    <3>2. t[q - Len(m) - 1 + k] = s[d + (q - Len(m) - 1 + k)]
      BY <3>1
    <3>3. QED
      BY <3>1, <3>2
  <2>3. BodyLies(t, q, m) <=> BodyLies(s, d + q, m)
    BY <2>2 DEF BodyLies
  <2>4. SubSeq(t, q - Len(m), q - 1) = m <=> BodyLies(t, q, m)
    BY <2>1, BodyIs
  <2>5. SubSeq(s, (d + q) - Len(m), (d + q) - 1) = m <=> BodyLies(s, d + q, m)
    BY <2>1, BodyIs
  <2>6. QED
    BY Zenon, <2>3, <2>4, <2>5
<1>4. ASSUME NEW j \in 1 .. e - 1
      PROVE  MarkAt(t, j) <=> MarkAt(s, d + j)
  <2>1. j \in 1 .. e /\ j + 1 \in 1 .. e /\ d + (j + 1) = (d + j) + 1
    OBVIOUS
  <2>2. t[j] = s[d + j] /\ t[j + 1] = s[d + (j + 1)]
    BY <2>1
  <2>3. QED
    BY <2>1, <2>2 DEF MarkAt
<1>5. QED
  BY <1>1, <1>2, <1>3, <1>4

\* A head short of its last byte, in a part of the sequence and in the whole of it
LEMMA SameFront ==
  ASSUME SumsApart, NEW s \in Seq(Byte), NEW w \in Seq(Byte), Len(s) <= Len(w),
         \A k \in 1 .. Len(s) : w[k] = s[k]
  PROVE  /\ \A q \in 1 .. Len(s) : \A m \in Commands : q > 4 + Len(m) => (SumAt(s, q, m) <=> SumAt(w, q, m))
         /\ \A q \in 1 .. Len(s) + 1 : \A m \in Commands : q > 4 + Len(m) => (HeadTo(s, q, m) <=> HeadTo(w, q, m))
         /\ \A q \in 1 .. Len(s) + 1 : \A m \in Commands : q > 4 + Len(m) =>
              (SubSeq(s, q - Len(m), q - 1) = m <=> SubSeq(w, q - Len(m), q - 1) = m)
         /\ \A j \in 1 .. Len(s) - 1 : MarkAt(s, j) <=> MarkAt(w, j)
<1> DEFINE l == Len(s)
<1>1. l \in Nat /\ Len(w) \in Nat
  BY LenProperties
<1>2. 0 \in Nat /\ l <= Len(s) /\ 0 + l <= Len(w) /\ \A k \in 1 .. l : s[k] = w[0 + k]
  BY <1>1
<1>3. /\ \A q \in 1 .. l : \A m \in Commands : q > 4 + Len(m) => (SumAt(s, q, m) <=> SumAt(w, 0 + q, m))
      /\ \A q \in 1 .. l + 1 : \A m \in Commands : q > 4 + Len(m) => (HeadTo(s, q, m) <=> HeadTo(w, 0 + q, m))
      /\ \A q \in 1 .. l + 1 : \A m \in Commands : q > 4 + Len(m) =>
           (SubSeq(s, q - Len(m), q - 1) = m <=> SubSeq(w, (0 + q) - Len(m), (0 + q) - 1) = m)
      /\ \A j \in 1 .. l - 1 : MarkAt(s, j) <=> MarkAt(w, 0 + j)
  BY <1>1, <1>2, SameThere
<1>4. \A q \in 1 .. l + 1 : 0 + q = q
  BY <1>1
<1>5. \A j \in 1 .. l - 1 : 0 + j = j
  BY <1>1
<1>6. \A q \in 1 .. l : 0 + q = q
  BY <1>1
<1> HIDE DEF l
<1>7. \A q \in 1 .. l : \A m \in Commands : q > 4 + Len(m) => (SumAt(s, q, m) <=> SumAt(w, q, m))
  BY <1>3, <1>6
<1>8. \A q \in 1 .. l + 1 : \A m \in Commands : q > 4 + Len(m) => (HeadTo(s, q, m) <=> HeadTo(w, q, m))
  BY <1>3, <1>4
<1>9. \A q \in 1 .. l + 1 : \A m \in Commands : q > 4 + Len(m) =>
        (SubSeq(s, q - Len(m), q - 1) = m <=> SubSeq(w, q - Len(m), q - 1) = m)
  BY <1>3, <1>4
<1>10. \A j \in 1 .. l - 1 : MarkAt(s, j) <=> MarkAt(w, j)
  BY <1>3, <1>5
<1>11. QED
  BY <1>7, <1>8, <1>9, <1>10 DEF l

\* What is sound in the whole is sound in a part of it.
LEMMA SoundPart ==
  ASSUME SumsApart, NEW s \in Seq(Byte), Sound(s), NEW t \in Seq(Byte), NEW d \in Nat,
         d + Len(t) <= Len(s), \A k \in 1 .. Len(t) : t[k] = s[d + k]
  PROVE  Sound(t)
<1>1. /\ Len(s) \in Nat /\ Len(t) \in Nat /\ Len(t) <= Len(t)
      /\ \A m \in Commands : Len(m) \in Nat /\ 2 <= Len(m)
  BY LenProperties, HeadType DEF Messages
<1>2. /\ \A q \in 1 .. Len(t) : \A m \in Commands : q > 4 + Len(m) => (SumAt(t, q, m) <=> SumAt(s, d + q, m))
      /\ \A q \in 1 .. Len(t) + 1 : \A m \in Commands : q > 4 + Len(m) => (HeadTo(t, q, m) <=> HeadTo(s, d + q, m))
      /\ \A q \in 1 .. Len(t) + 1 : \A m \in Commands : q > 4 + Len(m) =>
           (SubSeq(t, q - Len(m), q - 1) = m <=> SubSeq(s, (d + q) - Len(m), (d + q) - 1) = m)
      /\ \A j \in 1 .. Len(t) - 1 : MarkAt(t, j) <=> MarkAt(s, d + j)
  BY <1>1, SameThere
<1>3. ASSUME NEW q \in 1 .. Len(t), NEW m \in Commands, SumAt(t, q, m)
      PROVE  /\ \E j \in q - 4 - Len(m) .. q - 2 : MarkAt(t, j)
             /\ SubSeq(t, q - Len(m), q - 1) # m
             /\ \A x \in Commands : HeadTo(t, q, x) => x = m
  <2>1. q > 4 + Len(m)
    BY <1>3 DEF SumAt
  <2>2. SumAt(s, d + q, m) /\ d + q \in 1 .. Len(s) /\ q \in 1 .. Len(t) + 1
    BY <1>1, <1>2, <1>3, <2>1
  <2>3. PICK j \in (d + q) - 4 - Len(m) .. (d + q) - 2 : MarkAt(s, j)
    BY <2>2 DEF Sound
  <2>4. j - d \in q - 4 - Len(m) .. q - 2 /\ j - d \in 1 .. Len(t) - 1 /\ d + (j - d) = j
    BY <1>1, <2>1, <2>2, <2>3
  <2>5. MarkAt(t, j - d)
    BY <1>2, <2>3, <2>4
  <2>6. SubSeq(t, q - Len(m), q - 1) # m
    <3>1. SubSeq(s, (d + q) - Len(m), (d + q) - 1) # m
      BY <2>2 DEF Sound
    <3>2. SubSeq(t, q - Len(m), q - 1) = m <=> SubSeq(s, (d + q) - Len(m), (d + q) - 1) = m
      BY <1>2, <2>1, <2>2
    <3>3. QED
      BY Zenon, <3>1, <3>2
  <2>7. ASSUME NEW x \in Commands, HeadTo(t, q, x) PROVE x = m
    <3>1. q > 4 + Len(x)
      BY <2>7 DEF HeadTo
    <3>2. HeadTo(s, d + q, x)
      BY <1>2, <2>2, <2>7, <3>1
    <3>3. QED
      BY <2>2, <3>2 DEF Sound
  <2>8. QED
    BY <2>4, <2>5, <2>6, <2>7
<1>4. QED
  BY <1>3 DEF Sound

\* A sequence that ends with a head short of its last byte, byte by byte
LEMMA ShortHeadIs ==
  ASSUME NEW s \in Seq(Byte), NEW i \in 1 .. Len(s), NEW m \in Commands
  PROVE  SubSeq(s, i, Len(s)) = Front(HeadOf(m))
           <=> Len(s) = i + 2 + Len(m) /\ \A k \in 1 .. 3 + Len(m) : s[i + k - 1] = HeadOf(m)[k]
<1> DEFINE h == HeadOf(m)
           t == SubSeq(s, i, Len(s))
           f == Front(h)
<1>1. /\ Len(m) \in Nat /\ h \in Seq(Byte) /\ Len(h) = 4 + Len(m) /\ Len(s) \in Nat
  BY HeadType, LenProperties DEF Messages
<1>2. /\ t \in Seq(Byte) /\ Len(t) = Len(s) + 1 - i
      /\ \A k \in 1 .. Len(s) + 1 - i : t[k] = s[i + k - 1]
  BY <1>1, Piece
<1>3. f \in Seq(Byte) /\ Len(f) = 3 + Len(m) /\ \A k \in 1 .. 3 + Len(m) : f[k] = h[k]
  <2>1. f = SubSeq(h, 1, 3 + Len(m))
    <3>1. Len(h) - 1 = 3 + Len(m)
      BY <1>1
    <3>2. QED
      BY <3>1 DEF Front
  <2>2. 1 <= (3 + Len(m)) + 1 /\ 3 + Len(m) \in Nat /\ 3 + Len(m) <= Len(h) /\ (3 + Len(m)) + 1 - 1 = 3 + Len(m)
    BY <1>1
  <2> HIDE DEF h, f
  <2>3. /\ f \in Seq(Byte) /\ Len(f) = (3 + Len(m)) + 1 - 1
        /\ \A k \in 1 .. (3 + Len(m)) + 1 - 1 : f[k] = h[1 + k - 1]
    BY <1>1, <2>1, <2>2, Piece
  <2>4. \A k \in 1 .. 3 + Len(m) : 1 + k - 1 = k
    BY <1>1
  <2>5. QED
    BY <2>2, <2>3, <2>4
<1> HIDE DEF h, t, f
<1>4. ASSUME t = f
      PROVE  Len(s) = i + 2 + Len(m) /\ \A k \in 1 .. 3 + Len(m) : s[i + k - 1] = h[k]
  <2>1. Len(s) + 1 - i = 3 + Len(m)
    BY <1>2, <1>3, <1>4
  <2>2. QED
    <3>1. \A k \in 1 .. 3 + Len(m) : k \in 1 .. Len(s) + 1 - i /\ t[k] = h[k]
      BY <1>3, <1>4, <2>1
    <3>2. Len(s) = i + 2 + Len(m)
      BY <1>1, <2>1
    <3>3. QED
      BY <1>2, <3>1, <3>2
<1>5. ASSUME Len(s) = i + 2 + Len(m), \A k \in 1 .. 3 + Len(m) : s[i + k - 1] = h[k]
      PROVE  t = f
  <2>1. Len(s) + 1 - i = 3 + Len(m)
    BY <1>1, <1>5
  <2>2. QED
    BY <1>2, <1>3, <1>5, <2>1, SeqEqual
<1>6. t = f <=> Len(s) = i + 2 + Len(m) /\ \A k \in 1 .. 3 + Len(m) : s[i + k - 1] = h[k]
  BY <1>4, <1>5
<1>7. QED
  BY <1>6 DEF t, f, h

\* What is settled in the whole is settled in its rear part.
LEMMA SettledPart ==
  ASSUME NEW s \in Seq(Byte), Settled(s), NEW t \in Seq(Byte), NEW d \in Nat,
         d + Len(t) = Len(s), \A k \in 1 .. Len(t) : t[k] = s[d + k]
  PROVE  Settled(t)
<1>1. Len(s) \in Nat /\ Len(t) \in Nat
  BY LenProperties
<1>2. ASSUME NEW i \in 1 .. Len(t) - 4, MarkAt(t, i), NEW m \in Commands,
             SubSeq(t, i, Len(t)) = Front(HeadOf(m))
      PROVE  FALSE
  <2>1. /\ i \in 1 .. Len(t) /\ d + i \in 1 .. Len(s) - 4 /\ d + i \in 1 .. Len(s)
        /\ i + 1 \in 1 .. Len(t) /\ d + (i + 1) = (d + i) + 1
    BY <1>1
  <2>2. Len(t) = i + 2 + Len(m) /\ \A k \in 1 .. 3 + Len(m) : t[i + k - 1] = HeadOf(m)[k]
    BY <1>2, <2>1, ShortHeadIs
  <2>3. MarkAt(s, d + i)
    BY SMTT(30), <1>2, <2>1 DEF MarkAt
  <2>4. Len(m) \in Nat
    BY HeadType DEF Messages
  <2>5. Len(s) = (d + i) + 2 + Len(m)
    BY <1>1, <2>2, <2>4
  <2>6. ASSUME NEW k \in 1 .. 3 + Len(m)
        PROVE  s[(d + i) + k - 1] = HeadOf(m)[k]
    <3>1. i + k - 1 \in 1 .. Len(t) /\ d + (i + k - 1) = (d + i) + k - 1
      BY <1>1, <2>2, <2>4
    <3>2. t[i + k - 1] = s[d + (i + k - 1)]
      BY <3>1
    <3>3. QED
      BY <2>2, <3>1, <3>2
  <2>7. SubSeq(s, d + i, Len(s)) = Front(HeadOf(m))
    BY <2>1, <2>5, <2>6, ShortHeadIs
  <2>8. QED
    BY <2>1, <2>3, <2>7 DEF Settled
<1>3. QED
  BY <1>2 DEF Settled

\* Behind sound bytes the line brings sound ones.
LEMMA SoundJoin ==
  ASSUME SumsApart, MarksApart, MarksSpared, BodiesTell, HeadsApart,
         NEW s \in Seq(Byte), Sound(s), NEW c \in Commands, NEW g \in Garbled(Frame(c))
  PROVE  Sound(s \o g)
<1> DEFINE w == s \o g
           l == Len(s)
           n == Len(c)
<1>1. /\ g \in Seq(Byte) /\ Len(g) \in {5 + n, 6 + n}
      /\ g[1] = 170 /\ g[2] = 85
      /\ \A k \in 1 .. Len(g) : \A m \in Messages : g[k] = SumByte(m) => m = c /\ k \in {4 + n, 5 + n}
      /\ \A k \in 1 .. Len(g) : g[k] = SumByte(c) => \E r \in 1 .. n : g[k - n - 1 + r] # c[r]
  BY GarbledShape
<1>2. n \in Nat /\ 2 <= n /\ l \in Nat /\ Len(g) \in Nat /\ \A m \in Commands : Len(m) \in Nat /\ 2 <= Len(m)
  BY <1>1, LenProperties, HeadType DEF Messages
<1>3. /\ w \in Seq(Byte) /\ Len(w) = l + Len(g)
      /\ \A k \in 1 .. l : w[k] = s[k]
      /\ \A k \in 1 .. Len(g) : w[l + k] = g[k]
  BY <1>1, Joined
<1> HIDE DEF w
<1>4. \A k \in 1 .. l : s[k] = w[0 + k]
  BY <1>2, <1>3
<1>5. /\ \A q \in 1 .. l : \A m \in Commands : q > 4 + Len(m) => (SumAt(s, q, m) <=> SumAt(w, 0 + q, m))
      /\ \A q \in 1 .. l + 1 : \A m \in Commands : q > 4 + Len(m) => (HeadTo(s, q, m) <=> HeadTo(w, 0 + q, m))
      /\ \A q \in 1 .. l + 1 : \A m \in Commands : q > 4 + Len(m) =>
           (SubSeq(s, q - Len(m), q - 1) = m <=> SubSeq(w, (0 + q) - Len(m), (0 + q) - 1) = m)
      /\ \A j \in 1 .. l - 1 : MarkAt(s, j) <=> MarkAt(w, 0 + j)
  <2>1. 0 \in Nat /\ l <= Len(s) /\ 0 + l <= Len(w)
    BY <1>2, <1>3
  <2>2. QED
    BY <1>2, <1>3, <1>4, <2>1, SameThere
<1>6. ASSUME NEW q \in 1 .. Len(w), NEW m \in Commands, SumAt(w, q, m)
      PROVE  /\ \E j \in q - 4 - Len(m) .. q - 2 : MarkAt(w, j)
             /\ SubSeq(w, q - Len(m), q - 1) # m
             /\ \A x \in Commands : HeadTo(w, q, x) => x = m
  <2>0. w[q] = SumByte(m) /\ q > 4 + Len(m)
    BY <1>3, <1>6, SumAtIs
  <2>1. CASE q <= l
    <3>0. q \in 1 .. l /\ q \in 1 .. l + 1 /\ 0 + q = q
      BY <1>2, <2>1
    <3>1. SumAt(s, q, m)
      BY <1>5, <1>6, <2>0, <3>0
    <3>2. PICK j \in q - 4 - Len(m) .. q - 2 : MarkAt(s, j)
      BY <3>0, <3>1 DEF Sound
    <3>3. j \in 1 .. l - 1 /\ 0 + j = j
      BY <1>2, <2>0, <2>1, <3>2
    <3>4. MarkAt(w, j)
      BY <1>5, <3>2, <3>3
    <3>5. SubSeq(s, q - Len(m), q - 1) # m
      BY <3>0, <3>1 DEF Sound
    <3>6. SubSeq(w, q - Len(m), q - 1) # m
      <4>1. SubSeq(s, q - Len(m), q - 1) = m <=> SubSeq(w, (0 + q) - Len(m), (0 + q) - 1) = m
        BY <1>5, <2>0, <3>0
      <4>2. QED
        BY <3>0, <3>5, <4>1
    <3>7. ASSUME NEW x \in Commands, HeadTo(w, q, x) PROVE x = m
      <4>1. q > 4 + Len(x)
        BY <3>7 DEF HeadTo
      <4>2. HeadTo(s, q, x)
        BY <1>5, <3>0, <3>7, <4>1
      <4>3. QED
        BY <3>0, <3>1, <4>2 DEF Sound
    <3>8. QED
      BY <3>4, <3>6, <3>7
  <2>2. CASE ~(q <= l)
    <3>1. q - l \in 1 .. Len(g) /\ l + (q - l) = q
      BY <1>2, <1>3, <2>2
    <3>2. g[q - l] = SumByte(m) /\ m \in Messages
      BY <1>3, <2>0, <3>1 DEF Messages
    <3>3. m = c /\ q - l \in {4 + n, 5 + n}
      <4>1. \A k \in 1 .. Len(g) : \A d \in Messages :
               g[k] = SumByte(d) => d = c /\ k \in {4 + n, 5 + n}
        BY <1>1
      <4>2. QED
        BY <3>1, <3>2, <4>1
    <3>4. MarkAt(w, l + 1) /\ l + 1 \in q - 4 - Len(m) .. q - 2
      <4>1. 1 \in 1 .. Len(g) /\ 2 \in 1 .. Len(g) /\ (l + 1) + 1 = l + 2
        BY <1>1, <1>2
      <4>2. w[l + 1] = 170 /\ w[l + 2] = 85
        BY <1>1, <1>3, <4>1
      <4>3. l + 1 \in q - 4 - Len(m) .. q - 2
        BY <1>2, <3>1, <3>3
      <4>4. QED
        BY <4>1, <4>2, <4>3 DEF MarkAt
    <3>5. SubSeq(w, q - Len(m), q - 1) # m
      <4>1. PICK r \in 1 .. n : g[(q - l) - n - 1 + r] # c[r]
        BY SMTT(30), <1>1, <3>1, <3>2, <3>3
      <4>2. (q - l) - n - 1 + r \in 1 .. Len(g) /\ l + ((q - l) - n - 1 + r) = q - n - 1 + r
        BY <1>1, <1>2, <3>1, <3>3
      <4>3. w[q - n - 1 + r] # c[r]
        BY <1>3, <4>1, <4>2
      <4>4. ~BodyLies(w, q, m)
        BY <3>3, <4>3 DEF BodyLies
      <4>5. q \in 1 .. Len(w) + 1 /\ q > Len(m)
        BY <1>2, <1>3, <2>0
      <4>6. QED
        BY <1>3, <4>4, <4>5, BodyIs
    <3>6. ASSUME NEW x \in Commands, HeadTo(w, q, x) PROVE x = m
      <4> DEFINE i == q - 4 - Len(x)
      <4>1. q \in 1 .. Len(w) + 1
        BY <1>2, <1>3
      <4>2. q > 4 + Len(x) /\ HeadLies(w, i, x)
        BY <1>3, <3>6, <4>1, HeadToIs
      <4>3. /\ i \in Nat /\ 1 <= i /\ 4 + Len(x) \in 2 .. 4 + Len(x)
            /\ i + (4 + Len(x)) - 1 = q - 1 /\ q - 1 <= l + Len(g) /\ ~(q - 1 <= l + 1)
        BY <1>2, <1>3, <3>1, <3>3, <4>2
      <4>4. \A k \in 1 .. 4 + Len(x) : (s \o g)[i + k - 1] = HeadOf(x)[k]
        BY <4>2 DEF HeadLies, w
      <4> HIDE DEF i
      <4>5. i = l + 1
        <5>1. i = l + 1 \/ (i + 1 <= l /\ i + (4 + Len(x)) - 1 <= l + 1)
          BY <4>3, <4>4, HeadApart
        <5>2. QED
          BY <4>3, <5>1
      <4>6. 4 + Len(x) <= Len(g)
        BY <1>2, <4>3, <4>5
      <4>7. ASSUME NEW k \in 1 .. 4 + Len(x)
            PROVE  g[k] = HeadOf(x)[k]
        <5>1. k \in 1 .. Len(g) /\ i + k - 1 = l + k
          BY <1>2, <4>5, <4>6
        <5>2. w[i + k - 1] = HeadOf(x)[k]
          BY <4>4 DEF w
        <5>3. QED
          BY <1>3, <5>1, <5>2
      <4>8. x = c
        BY <1>1, <4>6, <4>7, HeadOwn
      <4>9. QED
        BY <3>3, <4>8
    <3>7. QED
      BY <3>4, <3>5, <3>6
  <2>3. QED
    BY <2>1, <2>2
<1>7. QED
  BY <1>6 DEF Sound, w

\* They do not end with a head short of its last byte either.
LEMMA SettledJoin ==
  ASSUME SumsApart, MarksApart, MarksSpared, BodiesTell,
         NEW s \in Seq(Byte), NEW c \in Commands, NEW g \in Garbled(Frame(c))
  PROVE  Settled(s \o g)
<1> DEFINE w == s \o g
           l == Len(s)
<1>1. /\ g \in Seq(Byte) /\ Len(g) \in {5 + Len(c), 6 + Len(c)}
      /\ \A m \in Commands : Len(g) = 3 + Len(m) => \E k \in 1 .. 3 + Len(m) : g[k] # HeadOf(m)[k]
  BY GarbledShape
<1>2. l \in Nat /\ Len(g) \in Nat /\ 7 <= Len(g)
  BY <1>1, LenProperties, HeadType DEF Messages
<1>3. /\ w \in Seq(Byte) /\ Len(w) = l + Len(g)
      /\ \A k \in 1 .. Len(g) : w[l + k] = g[k]
  BY <1>1, Joined
<1> HIDE DEF w, l
<1>4. ASSUME NEW i \in 1 .. Len(w) - 4, NEW m \in Commands,
             SubSeq(w, i, Len(w)) = Front(HeadOf(m))
      PROVE  FALSE
  <2>1. i \in 1 .. Len(w) /\ Len(m) \in Nat /\ 2 <= Len(m)
    BY <1>2, <1>3, HeadType DEF Messages
  <2>2. Len(w) = i + 2 + Len(m) /\ \A k \in 1 .. 3 + Len(m) : w[i + k - 1] = HeadOf(m)[k]
    BY <1>3, <1>4, <2>1, ShortHeadIs
  <2>3. /\ i \in Nat /\ 1 <= i /\ 3 + Len(m) \in 2 .. 4 + Len(m) /\ i + (3 + Len(m)) - 1 = l + Len(g)
        /\ i + (3 + Len(m)) - 1 <= l + Len(g)
    <3>1. i \in Nat /\ 1 <= i /\ Len(w) \in Nat
      BY <1>2, <1>3
    <3>2. i + (3 + Len(m)) - 1 = i + 2 + Len(m) /\ 3 + Len(m) \in 2 .. 4 + Len(m)
      BY <2>1, <3>1
    <3>3. Len(w) = i + 2 + Len(m) /\ Len(w) = l + Len(g)
      BY <1>3, <2>2
    <3>4. QED
      BY ONLY <1>2, <3>1, <3>2, <3>3
  <2>4. i = l + 1
    <3>1. i = Len(s) + 1 \/ (i + 1 <= Len(s) /\ i + (3 + Len(m)) - 1 <= Len(s) + 1)
      <4>1. i + (3 + Len(m)) - 1 <= Len(s) + Len(g)
        BY <2>3 DEF l
      <4>2. \A k \in 1 .. 3 + Len(m) : (s \o g)[i + k - 1] = HeadOf(m)[k]
        BY <2>2 DEF w
      <4>3. QED
        BY <2>3, <4>1, <4>2, HeadApart
    <3>2. QED
      BY <1>2, <2>3, <3>1 DEF l
  <2>5. Len(g) = 3 + Len(m)
    BY <1>2, <2>1, <2>3, <2>4
  <2>6. ASSUME NEW k \in 1 .. 3 + Len(m)
        PROVE  g[k] = HeadOf(m)[k]
    <3>1. k \in 1 .. Len(g) /\ i + k - 1 = l + k
      BY <1>2, <2>4, <2>5
    <3>2. QED
      BY <1>3, <2>2, <3>1
  <2>7. QED
    BY <1>1, <2>5, <2>6
<1>5. QED
  BY <1>4 DEF Settled, w

\* The claims, for the states before and after a step
Executions(r) == {<<k - Len(r) - BufSize, r[k]>> : k \in DOMAIN r}
Flags(b, f, l) ==
  {x \in (f + 2 - BufSize .. l - 1 - BufSize) \X Commands :
     SumAt(b, x[1] + BufSize, x[2]) /\ b[(x[1] + BufSize) - 1] = Key[x[2][Len(x[2])]]}
SumClaim(w, j, m) == SumAt(w, j, m) /\ SubSeq(w, j - Len(m), j - 1) # m
HeadClaim(w, old, j, m) == HeadTo(w, j, m) /\ j > old + 4 + Len(m)
Arrivals(w, old) ==
  {x \in (1 .. Len(w)) \X Commands : SumClaim(w, x[1], x[2])} \cup
  {x \in (old + 7 .. Len(w) + 1) \X Commands : HeadClaim(w, old, x[1], x[2])}

\* The claims are these.
LEMMA ClaimsAre ==
  ASSUME BelowTypes
  PROVE  /\ Executed = Executions(ran)
         /\ Flagged = IF newData THEN Flags(buf, fill, rxlen) ELSE {}
         /\ Arriving = Arrivals(Burst, IF newData THEN 0 ELSE fill)
<1>1. Executed = Executions(ran)
  BY DEF Executed, Executions
<1>2. Flagged = IF newData THEN Flags(buf, fill, rxlen) ELSE {}
  <2>1. CASE newData
    BY <2>1 DEF Flagged, Flags
  <2>2. CASE ~newData
    BY <2>2 DEF Flagged, Flags
  <2>3. QED
    BY <2>1, <2>2
<1>3. Arriving = Arrivals(Burst, IF newData THEN 0 ELSE fill)
  BY DEF Arriving, Arrivals, SumClaim, HeadClaim
<1>4. QED
  BY <1>1, <1>2, <1>3

\* And these behind a step.
LEMMA ClaimsWillBe ==
  ASSUME BelowTypes'
  PROVE  /\ Executed' = Executions(ran')
         /\ Flagged' = IF newData' THEN Flags(buf', fill', rxlen') ELSE {}
         /\ Arriving' = Arrivals(Burst', IF newData' THEN 0 ELSE fill')
<1>1. Executed' = Executions(ran')
  BY DEF Executed, Executions
<1>2. Flagged' = IF newData' THEN Flags(buf', fill', rxlen') ELSE {}
  <2>1. CASE newData'
    BY <2>1 DEF Flagged, Flags
  <2>2. CASE ~newData'
    BY <2>2 DEF Flagged, Flags
  <2>3. QED
    BY <2>1, <2>2
<1>3. Arriving' = Arrivals(Burst', IF newData' THEN 0 ELSE fill')
  BY DEF Arriving, Arrivals, SumClaim, HeadClaim
<1>4. QED
  BY <1>1, <1>2, <1>3

\* Bytes of the buffer with those on the line behind them
LEMMA BurstType ==
  ASSUME NEW b \in [1 .. BufSize -> Byte], NEW f \in 0 .. BufSize, NEW u \in Seq(Byte)
  PROVE  /\ b \in Seq(Byte) /\ Len(b) = BufSize
         /\ SubSeq(b, 1, f) \o u \in Seq(Byte) /\ Len(SubSeq(b, 1, f) \o u) = f + Len(u)
         /\ \A k \in 1 .. f : (SubSeq(b, 1, f) \o u)[k] = b[k]
         /\ \A k \in 1 .. Len(u) : (SubSeq(b, 1, f) \o u)[f + k] = u[k]
<1> DEFINE s == SubSeq(b, 1, f)
<1>1. b \in Seq(Byte) /\ Len(b) = BufSize /\ f \in Nat /\ f <= BufSize
  BY LineAssumption
<1>2. s \in Seq(Byte) /\ Len(s) = f /\ \A k \in 1 .. f : s[k] = b[k]
  <2>1. /\ s \in Seq(Byte) /\ Len(s) = f + 1 - 1
        /\ \A k \in 1 .. f + 1 - 1 : s[k] = b[1 + k - 1]
    BY <1>1, Piece
  <2>2. f + 1 - 1 = f /\ \A k \in 1 .. f : 1 + k - 1 = k
    BY <1>1
  <2> HIDE DEF s
  <2>3. QED
    BY <2>1, <2>2
<1> HIDE DEF s
<1>3. /\ s \o u \in Seq(Byte) /\ Len(s \o u) = Len(s) + Len(u)
      /\ \A k \in 1 .. Len(s) : (s \o u)[k] = s[k]
      /\ \A k \in 1 .. Len(u) : (s \o u)[Len(s) + k] = u[k]
  <2>1. s \in Seq(Byte) /\ u \in Seq(Byte)
    BY <1>2
  <2>2. QED
    BY ONLY <2>1, Joined
<1>4. QED
  BY <1>1, <1>2, <1>3 DEF s

\* A claim is a place and a command.
LEMMA ExecutionsType ==
  ASSUME NEW r \in Seq(Seq(Byte)), NEW x \in Executions(r)
  PROVE  /\ x[1] \in Int /\ x[1] <= 0 - BufSize
         /\ \E k \in 1 .. Len(r) : x[1] = k - Len(r) - BufSize /\ x[2] = r[k]
<1>1. Len(r) \in Nat /\ DOMAIN r = 1 .. Len(r) /\ BufSize \in Nat
  BY LenProperties, LineAssumption
<1>2. PICK k \in 1 .. Len(r) : x = <<k - Len(r) - BufSize, r[k]>>
  BY <1>1 DEF Executions
<1>3. x[1] = k - Len(r) - BufSize /\ x[2] = r[k]
  BY <1>2
<1>4. QED
  BY <1>1, <1>3

\* A claim of the flagged burst, by its place in the buffer
LEMMA FlagsType ==
  ASSUME NEW b, NEW f \in 0 .. BufSize, NEW l \in 0 .. BufSize, NEW x \in Flags(b, f, l)
  PROVE  \E q \in f + 2 .. l - 1 : \E m \in Commands :
           x = <<q - BufSize, m>> /\ SumAt(b, q, m) /\ b[q - 1] = Key[m[Len(m)]]
<1>1. BufSize \in Nat /\ f \in Nat /\ l \in Nat
  BY LineAssumption
<1>2. PICK j \in f + 2 - BufSize .. l - 1 - BufSize, m \in Commands : x = <<j, m>>
  BY DEF Flags
<1>3. SumAt(b, j + BufSize, m) /\ b[(j + BufSize) - 1] = Key[m[Len(m)]]
  BY <1>2 DEF Flags
<1>4. j + BufSize \in f + 2 .. l - 1 /\ (j + BufSize) - BufSize = j
  BY <1>1, <1>2
<1>5. QED
  BY <1>2, <1>3, <1>4

\* Each such place has its claim.
LEMMA FlagsHave ==
  ASSUME NEW b, NEW f \in 0 .. BufSize, NEW l \in 0 .. BufSize,
         NEW q \in f + 2 .. l - 1, NEW m \in Commands,
         SumAt(b, q, m), b[q - 1] = Key[m[Len(m)]]
  PROVE  <<q - BufSize, m>> \in Flags(b, f, l)
<1>1. BufSize \in Nat /\ f \in Nat /\ l \in Nat
  BY LineAssumption
<1> DEFINE x == <<q - BufSize, m>>
<1>2. /\ q - BufSize \in f + 2 - BufSize .. l - 1 - BufSize /\ (q - BufSize) + BufSize = q
      /\ ((q - BufSize) + BufSize) - 1 = q - 1
  BY <1>1
<1>3. x[1] = q - BufSize /\ x[2] = m /\ x \in (f + 2 - BufSize .. l - 1 - BufSize) \X Commands
  BY <1>2
<1> HIDE DEF x
<1>4. x \in Flags(b, f, l)
  BY <1>2, <1>3 DEF Flags
<1>5. QED
  BY <1>4 DEF x

\* A claim of the burst that is arriving is a sum or a head of it.
LEMMA ArrivalsType ==
  ASSUME NEW w \in Seq(Byte), NEW old \in Nat, NEW x
  PROVE  x \in Arrivals(w, old) <=>
           \E j \in 1 .. Len(w) + 1 : \E m \in Commands :
             /\ x = <<j, m>>
             /\ \/ j <= Len(w) /\ SumClaim(w, j, m)
                \/ j >= old + 7 /\ HeadClaim(w, old, j, m)
<1>1. Len(w) \in Nat
  BY LenProperties
<1>2. ASSUME x \in Arrivals(w, old)
      PROVE  \E j \in 1 .. Len(w) + 1 : \E m \in Commands :
               /\ x = <<j, m>>
               /\ \/ j <= Len(w) /\ SumClaim(w, j, m)
                  \/ j >= old + 7 /\ HeadClaim(w, old, j, m)
  <2>1. CASE x \in {y \in (1 .. Len(w)) \X Commands : SumClaim(w, y[1], y[2])}
    <3>1. PICK j \in 1 .. Len(w), m \in Commands : x = <<j, m>>
      BY <2>1
    <3>2. x[1] = j /\ x[2] = m
      BY <3>1
    <3>3. SumClaim(w, j, m)
      BY <2>1, <3>2
    <3>4. j \in 1 .. Len(w) + 1 /\ j <= Len(w)
      BY <1>1
    <3>5. QED
      BY <3>1, <3>3, <3>4
  <2>2. CASE x \in {y \in (old + 7 .. Len(w) + 1) \X Commands : HeadClaim(w, old, y[1], y[2])}
    <3>1. PICK j \in old + 7 .. Len(w) + 1, m \in Commands : x = <<j, m>>
      BY <2>2
    <3>2. x[1] = j /\ x[2] = m
      BY <3>1
    <3>3. HeadClaim(w, old, j, m)
      BY <2>2, <3>2
    <3>4. j \in 1 .. Len(w) + 1 /\ j >= old + 7
      BY <1>1
    <3>5. QED
      BY <3>1, <3>3, <3>4
  <2>3. QED
    BY <1>2, <2>1, <2>2 DEF Arrivals
<1>3. ASSUME NEW j \in 1 .. Len(w) + 1, NEW m \in Commands, x = <<j, m>>,
             \/ j <= Len(w) /\ SumClaim(w, j, m)
             \/ j >= old + 7 /\ HeadClaim(w, old, j, m)
      PROVE  x \in Arrivals(w, old)
  <2>0. x[1] = j /\ x[2] = m
    BY <1>3
  <2>1. CASE j <= Len(w) /\ SumClaim(w, j, m)
    <3>1. j \in 1 .. Len(w)
      BY <1>1, <2>1
    <3>2. QED
      BY <1>3, <2>0, <2>1, <3>1 DEF Arrivals
  <2>2. CASE j >= old + 7 /\ HeadClaim(w, old, j, m)
    <3>1. j \in old + 7 .. Len(w) + 1
      BY <1>1, <2>2
    <3>2. QED
      BY <1>3, <2>0, <2>2, <3>1 DEF Arrivals
  <2>3. QED
    BY <1>3, <2>1, <2>2
<1>4. QED
  BY <1>2, <1>3

\* What a part claims, the whole claims at the same place.
LEMMA ArrivalsPart ==
  ASSUME SumsApart, NEW s \in Seq(Byte), NEW t \in Seq(Byte), NEW d \in Nat,
         d + Len(t) <= Len(s), \A k \in 1 .. Len(t) : t[k] = s[d + k],
         NEW own \in Nat, NEW old \in Nat, old <= d + own, NEW x \in Arrivals(t, own)
  PROVE  <<d + x[1], x[2]>> \in Arrivals(s, old) /\ x[1] \in 1 .. Len(t) + 1
<1>1. /\ Len(s) \in Nat /\ Len(t) \in Nat /\ Len(t) <= Len(t)
      /\ \A m \in Commands : Len(m) \in Nat /\ 2 <= Len(m)
  BY LenProperties, HeadType DEF Messages
<1>2. /\ \A q \in 1 .. Len(t) : \A m \in Commands : q > 4 + Len(m) => (SumAt(t, q, m) <=> SumAt(s, d + q, m))
      /\ \A q \in 1 .. Len(t) + 1 : \A m \in Commands : q > 4 + Len(m) => (HeadTo(t, q, m) <=> HeadTo(s, d + q, m))
      /\ \A q \in 1 .. Len(t) + 1 : \A m \in Commands : q > 4 + Len(m) =>
           (SubSeq(t, q - Len(m), q - 1) = m <=> SubSeq(s, (d + q) - Len(m), (d + q) - 1) = m)
      /\ \A j \in 1 .. Len(t) - 1 : MarkAt(t, j) <=> MarkAt(s, d + j)
  BY <1>1, SameThere
<1>3. PICK j \in 1 .. Len(t) + 1, m \in Commands :
        /\ x = <<j, m>>
        /\ \/ j <= Len(t) /\ SumClaim(t, j, m)
           \/ j >= own + 7 /\ HeadClaim(t, own, j, m)
  BY ArrivalsType
<1>4. x[1] = j /\ x[2] = m /\ d + j \in 1 .. Len(s) + 1
  BY <1>1, <1>3
<1>5. CASE j <= Len(t) /\ SumClaim(t, j, m)
  <2>1. j > 4 + Len(m) /\ j \in 1 .. Len(t) /\ d + j <= Len(s)
    BY <1>1, <1>5 DEF SumClaim, SumAt
  <2>2. SumAt(s, d + j, m)
    BY <1>2, <1>5, <2>1 DEF SumClaim
  <2>3. SubSeq(s, (d + j) - Len(m), (d + j) - 1) # m
    <3>1. SubSeq(t, j - Len(m), j - 1) # m
      BY <1>5 DEF SumClaim
    <3>2. SubSeq(t, j - Len(m), j - 1) = m <=> SubSeq(s, (d + j) - Len(m), (d + j) - 1) = m
      BY <1>2, <2>1
    <3>3. QED
      BY Zenon, <3>1, <3>2
  <2>4. SumClaim(s, d + j, m)
    BY <2>2, <2>3 DEF SumClaim
  <2>5. QED
    BY <1>4, <2>1, <2>4, ArrivalsType
<1>6. CASE j >= own + 7 /\ HeadClaim(t, own, j, m)
  <2>1. j > own + 4 + Len(m) /\ j > 4 + Len(m)
    BY <1>1, <1>6 DEF HeadClaim
  <2>2. HeadTo(s, d + j, m)
    BY <1>2, <1>6, <2>1 DEF HeadClaim
  <2>3. d + j > old + 4 + Len(m) /\ d + j >= old + 7
    BY <1>1, <1>6, <2>1
  <2>4. HeadClaim(s, old, d + j, m)
    BY <2>2, <2>3 DEF HeadClaim
  <2>5. QED
    BY <1>4, <2>3, <2>4, ArrivalsType
<1>7. QED
  BY <1>3, <1>5, <1>6

\* Less is claimed when less is there, or when more has been read.
LEMMA ArrivalsLess ==
  ASSUME SumsApart, NEW s \in Seq(Byte), NEW t \in Seq(Byte), Len(t) <= Len(s),
         \A k \in 1 .. Len(t) : t[k] = s[k],
         NEW own \in Nat, NEW old \in Nat, old <= own
  PROVE  Arrivals(t, own) \subseteq Arrivals(s, old)
<1> SUFFICES ASSUME NEW x \in Arrivals(t, own) PROVE x \in Arrivals(s, old)
  OBVIOUS
<1>1. Len(t) \in Nat /\ Len(s) \in Nat
  BY LenProperties
<1>2. 0 \in Nat /\ 0 + Len(t) <= Len(s) /\ old <= 0 + own /\ \A k \in 1 .. Len(t) : t[k] = s[0 + k]
  BY <1>1
<1>3. <<0 + x[1], x[2]>> \in Arrivals(s, old) /\ x[1] \in 1 .. Len(t) + 1
  BY <1>2, ArrivalsPart
<1>4. PICK j \in 1 .. Len(t) + 1, m \in Commands : x = <<j, m>>
  BY ArrivalsType
<1>5. x[1] = j /\ x[2] = m /\ 0 + j = j
  BY <1>4
<1>6. QED
  BY <1>3, <1>4, <1>5

\* The burst in this state
LEMMA BurstIs ==
  ASSUME BelowTypes
  PROVE  /\ Burst \in Seq(Byte) /\ Len(Burst) = fill + Len(up) /\ Len(up) \in Nat
         /\ fill \in Nat /\ rxlen \in Nat /\ fill <= BufSize /\ rxlen <= BufSize /\ BufSize \in Nat
         /\ \A k \in 1 .. fill : Burst[k] = buf[k]
         /\ \A k \in 1 .. Len(up) : Burst[fill + k] = up[k]
         /\ buf \in Seq(Byte) /\ Len(buf) = BufSize
<1>1. buf \in [1 .. BufSize -> Byte] /\ fill \in 0 .. BufSize /\ rxlen \in 0 .. BufSize /\ up \in Seq(Byte)
  BY DEF BelowTypes
<1>2. Len(up) \in Nat /\ BufSize \in Nat
  BY <1>1, LenProperties, LineAssumption
<1>3. QED
  BY <1>1, <1>2, BurstType DEF Burst

\* And behind a step.
LEMMA BurstWillBe ==
  ASSUME BelowTypes'
  PROVE  /\ Burst' \in Seq(Byte) /\ Len(Burst') = fill' + Len(up') /\ Len(up') \in Nat
         /\ fill' \in Nat /\ fill' <= BufSize
         /\ \A k \in 1 .. fill' : Burst'[k] = buf'[k]
         /\ \A k \in 1 .. Len(up') : Burst'[fill' + k] = up'[k]
         /\ buf' \in Seq(Byte) /\ Len(buf') = BufSize
<1>1. buf' \in [1 .. BufSize -> Byte] /\ fill' \in 0 .. BufSize /\ up' \in Seq(Byte)
  BY DEF BelowTypes
<1>2. Len(up') \in Nat /\ BufSize \in Nat
  BY <1>1, LenProperties, LineAssumption
<1>3. /\ buf' \in Seq(Byte) /\ Len(buf') = BufSize
      /\ SubSeq(buf', 1, fill') \o up' \in Seq(Byte) /\ Len(SubSeq(buf', 1, fill') \o up') = fill' + Len(up')
      /\ \A k \in 1 .. fill' : (SubSeq(buf', 1, fill') \o up')[k] = buf'[k]
      /\ \A k \in 1 .. Len(up') : (SubSeq(buf', 1, fill') \o up')[fill' + k] = up'[k]
  BY ONLY <1>1, BurstType
<1>4. Burst' = SubSeq(buf', 1, fill') \o up'
  BY DEF Burst
<1>5. fill' \in Nat /\ fill' <= BufSize
  BY <1>1, <1>2
<1>6. QED
  BY <1>2, <1>3, <1>4, <1>5

\* What has come last is sound and settled, whether or not there is more that is.
LEMMA UpSound ==
  ASSUME SumsApart, BelowTypes, Traced
  PROVE  Sound(up) /\ (open => Settled(up))
<1>1. /\ Burst \in Seq(Byte) /\ Len(Burst) = fill + Len(up) /\ Len(up) \in Nat /\ fill \in Nat
      /\ \A k \in 1 .. Len(up) : Burst[fill + k] = up[k]
  BY BurstIs
<1>2. up \in Seq(Byte) /\ newData \in BOOLEAN
  BY DEF BelowTypes
<1>3. CASE newData
  <2>1. Sound(Burst) /\ (open => Settled(Burst))
    BY <1>3 DEF Traced, Fresh
  <2>2. fill + Len(up) <= Len(Burst) /\ \A k \in 1 .. Len(up) : up[k] = Burst[fill + k]
    BY <1>1
  <2>3. Sound(up)
    BY <1>1, <1>2, <2>1, <2>2, SoundPart
  <2>4. open => Settled(up)
    BY <1>1, <1>2, <2>1, <2>2, SettledPart
  <2>5. QED
    BY <2>3, <2>4
<1>4. CASE ~newData
  BY <1>4 DEF Traced, Fresh
<1>5. QED
  BY <1>2, <1>3, <1>4

\* A step that leaves the line downwards alone
LEMMA TracedStays ==
  ASSUME Traced, UNCHANGED <<up, buf, fill, rxlen, newData, ran, sent, open>>
  PROVE  Traced'
<1>1. Burst' = Burst /\ Fresh' = Fresh
  BY DEF Burst, Fresh
<1>2. Executed' = Executed
  BY DEF Executed
<1>3. Flagged' = Flagged
  BY DEF Flagged
<1>4. Arriving' = Arriving
  BY <1>1 DEF Arriving
<1>5. Claims' = Claims
  BY <1>2, <1>3, <1>4 DEF Claims
<1>6. QED
  BY <1>1, <1>5 DEF Traced

\* A byte arrives: the burst is the same, and the claims stay.
LEMMA TracedArrive ==
  ASSUME SumsApart, BelowTypes, BelowTypes', Traced, Arrive
  PROVE  Traced'
<1>1. /\ up \in Seq(Byte) /\ up # <<>> /\ fill < BufSize
      /\ buf' = [buf EXCEPT ![fill + 1] = Head(up)]
      /\ fill' = fill + 1 /\ up' = Tail(up)
      /\ UNCHANGED <<rxlen, newData, ran, sent, open>>
      /\ newData \in BOOLEAN
  BY DEF Arrive, BelowTypes, host, history
<1>2. Burst' = Burst
  BY ArriveShift DEF Burst
<1>3. /\ Burst \in Seq(Byte) /\ fill \in Nat /\ rxlen \in Nat /\ rxlen <= BufSize /\ BufSize \in Nat
      /\ buf \in Seq(Byte) /\ Len(buf) = BufSize
  BY BurstIs
<1>4. buf' \in Seq(Byte) /\ Len(buf') = BufSize
  BY BurstWillBe
<1>5. Executed' = Executed
  BY <1>1 DEF Executed
<1>6. Flagged' \subseteq Flagged
  <2>1. CASE ~newData
    BY <1>1, <2>1, ClaimsWillBe
  <2>2. CASE newData
    <3>1. ASSUME NEW x \in Flags(buf', fill', rxlen') PROVE x \in Flags(buf, fill, rxlen)
      <4>1. fill' \in 0 .. BufSize /\ rxlen' \in 0 .. BufSize /\ fill \in 0 .. BufSize /\ rxlen \in 0 .. BufSize
        BY DEF BelowTypes
      <4>2. PICK q \in fill' + 2 .. rxlen' - 1, m \in Commands :
              x = <<q - BufSize, m>> /\ SumAt(buf', q, m) /\ buf'[q - 1] = Key[m[Len(m)]]
        BY <3>1, <4>1, FlagsType
      <4>3. q \in fill + 2 .. rxlen - 1 /\ q \in 1 .. BufSize /\ q - 1 \in 1 .. BufSize /\ q # fill + 1 /\ q - 1 # fill + 1
        BY <1>1, <1>3
      <4>4. buf'[q] = buf[q] /\ buf'[q - 1] = buf[q - 1]
        BY <1>1, <4>3 DEF BelowTypes
      <4>5. SumAt(buf, q, m) /\ buf[q - 1] = Key[m[Len(m)]]
        BY <4>2, <4>4 DEF SumAt
      <4>6. QED
        BY <4>1, <4>2, <4>3, <4>5, FlagsHave
    <3>2. QED
      BY <1>1, <2>2, <3>1, ClaimsAre, ClaimsWillBe
  <2>3. QED
    BY <1>1, <2>1, <2>2
<1>7. Arriving' \subseteq Arriving
  <2> DEFINE old == IF newData THEN 0 ELSE fill
             own == IF newData THEN 0 ELSE fill + 1
  <2>1. Arriving = Arrivals(Burst, old) /\ Arriving' = Arrivals(Burst, own)
    <3>1. Arriving' = Arrivals(Burst', IF newData' THEN 0 ELSE fill')
      BY ClaimsWillBe
    <3>2. QED
      BY <1>1, <1>2, <3>1, ClaimsAre
  <2>2. old \in Nat /\ own \in Nat /\ old <= own
    BY <1>1, <1>3
  <2> HIDE DEF old, own
  <2>3. Len(Burst) \in Nat /\ Len(Burst) <= Len(Burst) /\ \A k \in 1 .. Len(Burst) : Burst[k] = Burst[k]
    BY <1>3, LenProperties
  <2>4. Arrivals(Burst, own) \subseteq Arrivals(Burst, old)
    BY <1>3, <2>2, <2>3, ArrivalsLess
  <2>5. QED
    BY <2>1, <2>4
<1>8. Owed(Claims', sent')
  <2>1. Claims' \subseteq Claims
    BY <1>5, <1>6, <1>7 DEF Claims
  <2>2. Owed(Claims, sent)
    BY DEF Traced
  <2>3. QED
    BY <1>1, <2>1, <2>2, OwedLess
<1>9. Sound(Fresh') /\ (open' => Settled(Fresh'))
  <2>1. CASE newData
    BY <1>1, <1>2, <2>1 DEF Traced, Fresh
  <2>2. CASE ~newData
    <3>1. /\ up' \in Seq(Byte) /\ Len(up) \in Nat /\ Len(up') = Len(up) - 1
          /\ \A k \in 1 .. Len(up') : up'[k] = up[k + 1]
      BY <1>1, HeadTailProperties, EmptySeq
    <3>2. 1 \in Nat /\ 1 + Len(up') = Len(up) /\ 1 + Len(up') <= Len(up) /\ \A k \in 1 .. Len(up') : up'[k] = up[1 + k]
      BY <3>1
    <3>3. Sound(up) /\ (open => Settled(up))
      BY UpSound
    <3>4. Sound(up')
      BY <1>1, <3>1, <3>2, <3>3, SoundPart
    <3>5. open => Settled(up')
      BY <1>1, <3>1, <3>2, <3>3, SettledPart
    <3>6. QED
      BY <1>1, <2>2, <3>4, <3>5 DEF Fresh
  <2>3. QED
    BY <1>1, <2>1, <2>2
<1>10. QED
  BY <1>8, <1>9 DEF Traced

\* The end of a burst: what is flagged now, or forgotten, and what follows it
LEMMA TracedFlush ==
  ASSUME SumsApart, BodiesTell, BelowTypes, BelowTypes', Traced,
         UNCHANGED <<up, buf, ran, sent, open>>, fill' = 0, newData' => rxlen' = fill
  PROVE  Traced'
<1>1. /\ Burst \in Seq(Byte) /\ Len(Burst) = fill + Len(up) /\ Len(up) \in Nat
      /\ fill \in Nat /\ fill <= BufSize /\ BufSize \in Nat
      /\ \A k \in 1 .. fill : Burst[k] = buf[k]
      /\ \A k \in 1 .. Len(up) : Burst[fill + k] = up[k]
      /\ buf \in Seq(Byte) /\ Len(buf) = BufSize
  BY BurstIs
<1>2. up \in Seq(Byte) /\ newData \in BOOLEAN /\ newData' \in BOOLEAN /\ ran \in Seq(Seq(Byte))
  BY DEF BelowTypes
<1>3. Burst' = up /\ Fresh' = up
  <2>1. SubSeq(buf', 1, fill') = <<>>
    BY SubSeqEmpty
  <2>2. <<>> \o up = up
    BY <1>2, ConcatEmptySeq
  <2>3. Burst' = up
    BY <2>1, <2>2 DEF Burst
  <2>4. QED
    BY <1>2, <2>3 DEF Fresh
<1>4. Sound(Fresh') /\ (open' => Settled(Fresh'))
  BY <1>3, UpSound
<1>5. Executed = Executions(ran) /\ Executed' = Executions(ran)
  BY ClaimsAre, ClaimsWillBe
<1>6. ASSUME NEW x \in Flagged'
      PROVE  /\ x[1] \in Int /\ x[1] > 0 - BufSize /\ x[1] <= 0
             /\ x[1] + BufSize <= fill
             /\ <<x[1] + BufSize, x[2]>> \in Arriving
  <2>1. newData' /\ x \in Flags(buf, 0, fill)
    BY <1>2, <1>6, ClaimsWillBe
  <2>2. 0 \in 0 .. BufSize /\ fill \in 0 .. BufSize
    BY <1>1
  <2>3. PICK q \in 0 + 2 .. fill - 1, m \in Commands :
          x = <<q - BufSize, m>> /\ SumAt(buf, q, m) /\ buf[q - 1] = Key[m[Len(m)]]
    BY <2>1, <2>2, FlagsType
  <2>4. /\ x[1] = q - BufSize /\ x[2] = m /\ x[1] + BufSize = q /\ x[1] \in Int /\ x[1] > 0 - BufSize /\ x[1] <= 0
        /\ q \in 1 .. fill /\ q - 1 \in 1 .. fill /\ q \in 1 .. Len(Burst) /\ q \in 1 .. Len(Burst) + 1 /\ q <= Len(Burst)
    BY <1>1, <2>3
  <2>5. Burst[q] = buf[q] /\ Burst[q - 1] = buf[q - 1]
    BY <1>1, <2>4
  <2>6. SumAt(Burst, q, m)
    BY <2>3, <2>5 DEF SumAt
  <2>7. Len(m) \in Nat /\ 2 <= Len(m) /\ q > 4 + Len(m)
    BY <2>3, HeadType DEF Messages, SumAt
  <2>8. SubSeq(Burst, q - Len(m), q - 1) # m
    <3>1. Burst[q - 1] # m[Len(m)]
      BY <2>3, <2>5 DEF BodiesTell
    <3>2. Len(m) \in 1 .. Len(m) /\ q - Len(m) - 1 + Len(m) = q - 1 /\ q > Len(m)
      BY <2>4, <2>7
    <3>3. ~BodyLies(Burst, q, m)
      BY <3>1, <3>2 DEF BodyLies
    <3>4. QED
      BY <1>1, <2>4, <3>2, <3>3, BodyIs
  <2>9. SumClaim(Burst, q, m)
    BY <2>6, <2>8 DEF SumClaim
  <2>10. <<q, m>> \in Arrivals(Burst, IF newData THEN 0 ELSE fill)
    BY <1>1, <1>2, <2>4, <2>9, ArrivalsType
  <2>11. QED
    BY <1>1, <2>4, <2>10, ClaimsAre
<1>7. ASSUME NEW x \in Arriving'
      PROVE  x[1] \in Int /\ x[1] >= 1 /\ <<fill + x[1], x[2]>> \in Arriving
  <2> DEFINE old == IF newData THEN 0 ELSE fill
  <2>1. x \in Arrivals(up, 0)
    <3>1. Arriving' = Arrivals(Burst', IF newData' THEN 0 ELSE fill')
      BY ClaimsWillBe
    <3>2. QED
      BY <1>2, <1>3, <1>7, <3>1
  <2>2. old \in Nat /\ old <= fill + 0 /\ 0 \in Nat /\ fill + Len(up) <= Len(Burst)
        /\ \A k \in 1 .. Len(up) : up[k] = Burst[fill + k]
    BY <1>1, <1>2
  <2> HIDE DEF old
  <2>3. <<fill + x[1], x[2]>> \in Arrivals(Burst, old) /\ x[1] \in 1 .. Len(up) + 1
    BY <1>1, <1>2, <2>1, <2>2, ArrivalsPart
  <2>4. Arriving = Arrivals(Burst, old)
    BY ClaimsAre DEF old
  <2>5. QED
    BY <2>3, <2>4
<1>8. ASSUME NEW x \in Executed'
      PROVE  x[1] \in Int /\ x[1] <= 0 - BufSize /\ x \in Executed
  BY <1>2, <1>5, <1>8, ExecutionsType
<1> DEFINE to == [k \in Int |-> IF k <= 0 - BufSize THEN k ELSE IF k <= 0 THEN k + BufSize ELSE k + fill]
<1>9. ASSUME NEW x \in Claims'
      PROVE  x[1] \in Int /\ \E y \in Claims : y[1] = to[x[1]] /\ y[2] = x[2]
  <2>1. CASE x \in Executed'
    <3>1. x[1] \in Int /\ to[x[1]] = x[1] /\ x \in Claims
      BY <1>8, <2>1 DEF Claims
    <3>2. QED
      BY <3>1
  <2>2. CASE x \in Flagged'
    <3>0. x[1] \in Int /\ x[1] > 0 - BufSize /\ x[1] <= 0 /\ <<x[1] + BufSize, x[2]>> \in Arriving
      BY <1>6, <2>2
    <3>1. to[x[1]] = x[1] + BufSize /\ <<x[1] + BufSize, x[2]>> \in Claims
      BY <1>1, <3>0 DEF Claims
    <3>2. <<x[1] + BufSize, x[2]>>[1] = x[1] + BufSize /\ <<x[1] + BufSize, x[2]>>[2] = x[2]
      OBVIOUS
    <3>3. QED
      BY <3>0, <3>1, <3>2
  <2>3. CASE x \in Arriving'
    <3>0. x[1] \in Int /\ x[1] >= 1 /\ <<fill + x[1], x[2]>> \in Arriving
      BY <1>7, <2>3
    <3>1. to[x[1]] = fill + x[1] /\ <<fill + x[1], x[2]>> \in Claims
      BY SMTT(30), <1>1, <3>0 DEF Claims
    <3>2. <<fill + x[1], x[2]>>[1] = fill + x[1] /\ <<fill + x[1], x[2]>>[2] = x[2]
      OBVIOUS
    <3>3. QED
      BY <3>0, <3>1, <3>2
  <2>4. QED
    BY <1>9, <2>1, <2>2, <2>3 DEF Claims
<1>10. ASSUME NEW x \in Claims', NEW y \in Claims', x[1] < y[1]
       PROVE  to[x[1]] < to[y[1]]
  <2>1. ASSUME NEW z \in Claims'
        PROVE  z[1] \in Int /\ (z[1] > 0 - BufSize /\ z[1] <= 0 => z[1] + BufSize <= fill)
    <3>1. CASE z \in Executed'
      BY <1>1, <1>8, <3>1
    <3>2. CASE z \in Flagged'
      BY <1>6, <3>2
    <3>3. CASE z \in Arriving'
      <4>1. z[1] \in Int /\ z[1] >= 1
        BY <1>7, <3>3
      <4>2. QED
        BY <4>1
    <3>4. QED
      BY <2>1, <3>1, <3>2, <3>3 DEF Claims
  <2>2. /\ x[1] \in Int /\ y[1] \in Int
        /\ (x[1] > 0 - BufSize /\ x[1] <= 0 => x[1] + BufSize <= fill)
        /\ (y[1] > 0 - BufSize /\ y[1] <= 0 => y[1] + BufSize <= fill)
    BY <2>1
  <2>3. QED
    BY <1>1, <1>10, <2>2
<1> HIDE DEF to
<1>11. Owed(Claims', sent')
  <2>1. Owed(Claims, sent)
    BY DEF Traced
  <2>2. Owed(Claims', sent)
    BY <1>9, <1>10, <2>1, OwedMoved
  <2>3. QED
    BY <2>2
<1>12. QED
  BY <1>4, <1>11 DEF Traced

\* The session ends, perhaps in the middle of a command.
LEMMA TracedClose ==
  ASSUME SumsApart, BelowTypes, BelowTypes', Traced, Close
  PROVE  Traced'
<1>1. /\ ~open' /\ up' \in {up, <<>>}
      /\ UNCHANGED <<buf, fill, rxlen, newData, ran, sent>>
      /\ newData \in BOOLEAN /\ up \in Seq(Byte)
  BY DEF Close, BelowTypes, device
<1>2. /\ Burst \in Seq(Byte) /\ Len(Burst) = fill + Len(up) /\ Len(up) \in Nat /\ fill \in Nat
      /\ \A k \in 1 .. fill : Burst[k] = buf[k]
      /\ \A k \in 1 .. Len(up) : Burst[fill + k] = up[k]
  BY BurstIs
<1>3. /\ Burst' \in Seq(Byte) /\ Len(Burst') = fill + Len(up') /\ Len(up') \in Nat
      /\ \A k \in 1 .. fill : Burst'[k] = buf[k]
      /\ \A k \in 1 .. Len(up') : Burst'[fill + k] = up'[k]
  BY <1>1, BurstWillBe
<1>4. Len(Burst') <= Len(Burst) /\ \A k \in 1 .. Len(Burst') : Burst'[k] = Burst[k]
  <2>1. CASE up' = up
    <3>1. Burst' = Burst
      BY <1>1, <2>1 DEF Burst
    <3>2. QED
      BY <1>2, <3>1
  <2>2. CASE up' = <<>>
    <3>1. Len(up') = 0
      BY <2>2
    <3>2. QED
      BY <1>2, <1>3, <3>1
  <2>3. QED
    BY <1>1, <2>1, <2>2
<1>5. Executed' = Executed
  BY <1>1 DEF Executed
<1>6. Flagged' = Flagged
  BY <1>1 DEF Flagged
<1>7. Arriving' \subseteq Arriving
  <2> DEFINE old == IF newData THEN 0 ELSE fill
  <2>1. Arriving = Arrivals(Burst, old)
    BY ClaimsAre
  <2>2. Arriving' = Arrivals(Burst', old)
    <3>1. Arriving' = Arrivals(Burst', IF newData' THEN 0 ELSE fill')
      BY ClaimsWillBe
    <3>2. QED
      BY <1>1, <3>1
  <2>3. old \in Nat /\ old <= old
    BY <1>1, <1>2
  <2> HIDE DEF old
  <2>4. Arrivals(Burst', old) \subseteq Arrivals(Burst, old)
    BY <1>2, <1>3, <1>4, <2>3, ArrivalsLess
  <2>5. QED
    BY <2>1, <2>2, <2>4
<1>8. Owed(Claims', sent')
  <2>1. Claims' \subseteq Claims
    BY <1>5, <1>6, <1>7 DEF Claims
  <2>2. Owed(Claims, sent)
    BY DEF Traced
  <2>3. QED
    BY <1>1, <2>1, <2>2, OwedLess
<1>9. Sound(Fresh')
  <2>1. CASE newData
    <3>1. Sound(Burst)
      BY <2>1 DEF Traced, Fresh
    <3>2. /\ 0 \in Nat /\ 0 + Len(Burst') <= Len(Burst)
          /\ \A k \in 1 .. Len(Burst') : Burst'[k] = Burst[0 + k]
      BY <1>2, <1>3, <1>4
    <3>3. Sound(Burst')
      BY <1>2, <1>3, <3>1, <3>2, SoundPart
    <3>4. QED
      BY <1>1, <2>1, <3>3 DEF Fresh
  <2>2. CASE ~newData
    <3>1. Sound(up)
      BY UpSound
    <3>2. Fresh' = up'
      BY <1>1, <2>2 DEF Fresh
    <3>3. CASE up' = up
      BY <3>1, <3>2, <3>3
    <3>4. CASE up' = <<>>
      <4>1. Len(up') = 0
        BY <3>4
      <4>2. QED
        BY <3>2, <4>1 DEF Sound
    <3>5. QED
      BY <1>1, <3>3, <3>4
  <2>3. QED
    BY <1>1, <2>1, <2>2
<1>10. QED
  BY <1>1, <1>8, <1>9 DEF Traced

\* A flag that leads to nothing
LEMMA TracedRefused ==
  ASSUME SumsApart, BelowTypes, BelowTypes', Traced, newData, ~newData',
         UNCHANGED <<up, buf, fill, rxlen, ran, sent, open>>
  PROVE  Traced'
<1>1. Burst' = Burst /\ Fresh' = up /\ Burst \in Seq(Byte) /\ fill \in Nat
  BY BurstIs DEF Burst, Fresh
<1>2. Executed' = Executed
  BY DEF Executed
<1>3. Flagged' = {}
  BY ClaimsWillBe
<1>4. Arriving' \subseteq Arriving
  <2>1. Arriving = Arrivals(Burst, 0)
    BY ClaimsAre
  <2>2. Arriving' = Arrivals(Burst, fill)
    <3>1. Arriving' = Arrivals(Burst', IF newData' THEN 0 ELSE fill')
      BY ClaimsWillBe
    <3>2. QED
      BY <1>1, <3>1
  <2>3. 0 \in Nat /\ 0 <= fill /\ Len(Burst) <= Len(Burst) /\ \A k \in 1 .. Len(Burst) : Burst[k] = Burst[k]
    BY <1>1, LenProperties
  <2>4. Arrivals(Burst, fill) \subseteq Arrivals(Burst, 0)
    BY <1>1, <2>3, ArrivalsLess
  <2>5. QED
    BY <2>1, <2>2, <2>4
<1>5. Owed(Claims', sent')
  <2>1. Claims' \subseteq Claims
    BY <1>2, <1>3, <1>4 DEF Claims
  <2>2. Owed(Claims, sent)
    BY DEF Traced
  <2>3. QED
    BY <2>1, <2>2, OwedLess
<1>6. Sound(Fresh') /\ (open' => Settled(Fresh'))
  BY <1>1, UpSound
<1>7. QED
  BY <1>5, <1>6 DEF Traced

\* A command is asked, and the line brings of it what it will.
LEMMA TracedAsk ==
  ASSUME SumsApart, MarksApart, MarksSpared, BodiesTell, HeadsApart,
         BelowTypes, BelowTypes', Traced, Ask
  PROVE  Traced'
<1>1. PICK c \in Commands : \E m \in Line(Frame(c)) : up' = m.bytes /\ sent' = Append(sent, c)
  BY DEF Ask
<1>2. /\ up = <<>> /\ open /\ open' = open
      /\ UNCHANGED <<buf, fill, rxlen, newData, ran>>
      /\ newData \in BOOLEAN /\ sent \in Seq(Commands)
  BY DEF Ask, BelowTypes, device
<1>3. up' = <<>> \/ up' \in Garbled(Frame(c))
  <2>1. Frame(c) \in Seq(Byte)
    BY FrameType DEF Messages
  <2>2. QED
    BY <1>1, <2>1, LineGarbled DEF None
<1>4. Executed' = Executed
  BY <1>2 DEF Executed
<1>5. Flagged' = Flagged
  BY <1>2 DEF Flagged
<1>6. Owed(Claims, sent) /\ Sound(Fresh) /\ Settled(Fresh)
  BY <1>2 DEF Traced
<1> DEFINE old == IF newData THEN 0 ELSE fill
<1>7. /\ Burst \in Seq(Byte) /\ Len(Burst) = fill /\ fill \in Nat /\ BufSize \in Nat /\ rxlen \in Nat /\ rxlen <= BufSize
      /\ Burst = SubSeq(buf, 1, fill)
  <2>1. Len(up) = 0
    BY <1>2
  <2>2. /\ Burst \in Seq(Byte) /\ Len(Burst) = fill + Len(up) /\ fill \in Nat /\ BufSize \in Nat
        /\ rxlen \in Nat /\ rxlen <= BufSize
    BY BurstIs
  <2>3. SubSeq(buf, 1, fill) \in Seq(Byte)
    BY LookType
  <2>4. Burst = SubSeq(buf, 1, fill)
    BY <1>2, <2>3, ConcatEmptySeq DEF Burst
  <2>5. QED
    BY <2>1, <2>2, <2>4
<1>8. Burst' = Burst \o up'
  BY <1>2, <1>7 DEF Burst
<1>9. old \in Nat /\ (newData => old = 0) /\ (~newData => old = fill)
  BY <1>2, <1>7
<1>10. Arriving = Arrivals(Burst, old) /\ Arriving' = Arrivals(Burst', old)
  <2>1. Arriving' = Arrivals(Burst', IF newData' THEN 0 ELSE fill')
    BY ClaimsWillBe
  <2>2. QED
    BY <1>2, <2>1, ClaimsAre
<1> HIDE DEF old
<1>11. Fresh = (IF newData THEN Burst ELSE <<>>) /\ Fresh' = (IF newData THEN Burst' ELSE up')
  BY <1>2 DEF Fresh
<1>12. ASSUME NEW x \in Claims
       PROVE  x[1] \in Int /\ x[1] < fill + 6
  <2>1. ran \in Seq(Seq(Byte)) /\ fill \in 0 .. BufSize /\ rxlen \in 0 .. BufSize
    BY DEF BelowTypes
  <2>2. CASE x \in Executed
    <3>1. x[1] \in Int /\ x[1] <= 0 - BufSize
      BY <2>1, <2>2, ClaimsAre, ExecutionsType
    <3>2. QED
      BY <1>7, <3>1
  <2>3. CASE x \in Flagged
    <3>1. x \in Flags(buf, fill, rxlen)
      BY <1>2, <2>3, ClaimsAre
    <3>2. PICK q \in fill + 2 .. rxlen - 1, m \in Commands :
            x = <<q - BufSize, m>> /\ SumAt(buf, q, m) /\ buf[q - 1] = Key[m[Len(m)]]
      BY <2>1, <3>1, FlagsType
    <3>3. x[1] = q - BufSize
      BY <3>2
    <3>4. QED
      BY <1>7, <3>2, <3>3
  <2>4. CASE x \in Arriving
    <3>1. PICK j \in 1 .. Len(Burst) + 1, m \in Commands :
            /\ x = <<j, m>>
            /\ \/ j <= Len(Burst) /\ SumClaim(Burst, j, m)
               \/ j >= old + 7 /\ HeadClaim(Burst, old, j, m)
      BY <1>7, <1>9, <1>10, <2>4, ArrivalsType
    <3>2. x[1] = j
      BY <3>1
    <3>3. QED
      BY <1>7, <3>1, <3>2
  <2>5. QED
    BY <1>12, <2>2, <2>3, <2>4 DEF Claims
<1>13. CASE up' = <<>>
  <2>1. Burst' = Burst
    BY <1>7, <1>8, <1>13, ConcatEmptySeq
  <2>2. Claims' = Claims
    BY <1>4, <1>5, <1>10, <2>1 DEF Claims
  <2>3. Owed(Claims', sent')
    <3>1. /\ fill + 6 \in Int /\ \A x \in Claims : x[1] \in Int /\ x[1] < fill + 6
          /\ \A y \in Claims' : y \in Claims \/ (y[1] = fill + 6 /\ y[2] = c)
      BY <1>7, <1>12, <2>2
    <3>2. QED
      BY <1>1, <1>2, <1>6, <3>1, OwedMore
  <2>4. Fresh' = Fresh
    BY <1>11, <1>13, <2>1
  <2>5. QED
    BY <1>6, <2>3, <2>4 DEF Traced
<1>14. CASE up' \in Garbled(Frame(c))
  <2> DEFINE g == up'
             w == Burst'
             n == Len(c)
             z == IF g[4 + n] = SumByte(c) THEN fill + 4 + n ELSE fill + 5 + n
  <2>1. /\ g \in Seq(Byte) /\ Len(g) \in {5 + n, 6 + n}
        /\ \A k \in 1 .. Len(g) : \A m \in Messages : g[k] = SumByte(m) => m = c /\ k \in {4 + n, 5 + n}
        /\ ~(g[4 + n] = SumByte(c) /\ g[5 + n] = SumByte(c))
    BY <1>14, GarbledShape
  <2>2. n \in Nat /\ 2 <= n /\ Len(g) \in Nat /\ \A m \in Commands : Len(m) \in Nat /\ 2 <= Len(m)
    BY <2>1, LenProperties, HeadType DEF Messages
  <2>3. /\ w \in Seq(Byte) /\ Len(w) = fill + Len(g)
        /\ \A k \in 1 .. fill : w[k] = Burst[k]
        /\ \A k \in 1 .. Len(g) : w[fill + k] = g[k]
    BY <1>7, <1>8, <2>1, Joined
  <2>4. z \in Int /\ z >= fill + 6
    BY <1>7, <2>2
  <2>5. /\ \A q \in 1 .. Len(Burst) : \A m \in Commands : q > 4 + Len(m) => (SumAt(Burst, q, m) <=> SumAt(w, q, m))
        /\ \A q \in 1 .. Len(Burst) + 1 : \A m \in Commands : q > 4 + Len(m) => (HeadTo(Burst, q, m) <=> HeadTo(w, q, m))
        /\ \A q \in 1 .. Len(Burst) + 1 : \A m \in Commands : q > 4 + Len(m) =>
             (SubSeq(Burst, q - Len(m), q - 1) = m <=> SubSeq(w, q - Len(m), q - 1) = m)
        /\ \A j \in 1 .. Len(Burst) - 1 : MarkAt(Burst, j) <=> MarkAt(w, j)
    <3>1. Len(Burst) <= Len(w) /\ \A k \in 1 .. Len(Burst) : w[k] = Burst[k]
      BY <1>7, <2>2, <2>3
    <3>2. QED
      BY ONLY SumsApart, <1>7, <2>3, <3>1, SameFront
  <2>6. ASSUME NEW x \in Arriving'
        PROVE  x \in Arriving \/ (x[1] = z /\ x[2] = c)
    <3>1. PICK j \in 1 .. Len(w) + 1, m \in Commands :
            /\ x = <<j, m>>
            /\ \/ j <= Len(w) /\ SumClaim(w, j, m)
               \/ j >= old + 7 /\ HeadClaim(w, old, j, m)
      BY <1>9, <1>10, <2>3, <2>6, ArrivalsType
    <3>2. x[1] = j /\ x[2] = m /\ j \in Nat
      BY <3>1
    <3>3. CASE j <= Len(w) /\ SumClaim(w, j, m)
      <4>1. SumAt(w, j, m) /\ SubSeq(w, j - Len(m), j - 1) # m /\ j > 4 + Len(m) /\ j \in 1 .. Len(w)
        BY <2>2, <2>3, <3>3 DEF SumClaim, SumAt
      <4>2. CASE j <= fill
        <5>1. j \in 1 .. Len(Burst) /\ j \in 1 .. Len(Burst) + 1 /\ j <= Len(Burst)
          BY <1>7, <3>2, <4>1, <4>2
        <5>2. SumAt(Burst, j, m)
          BY <2>5, <4>1, <5>1
        <5>3. SubSeq(Burst, j - Len(m), j - 1) # m
          <6>1. SubSeq(Burst, j - Len(m), j - 1) = m <=> SubSeq(w, j - Len(m), j - 1) = m
            BY <2>5, <4>1, <5>1
          <6>2. QED
            BY Zenon, <4>1, <6>1
        <5>4. x \in Arrivals(Burst, old)
          BY <1>7, <1>9, <3>1, <5>1, <5>2, <5>3, ArrivalsType DEF SumClaim
        <5>5. QED
          BY <1>10, <5>4
      <4>3. CASE ~(j <= fill)
        <5>1. j - fill \in 1 .. Len(g) /\ fill + (j - fill) = j
          BY <1>7, <2>2, <2>3, <4>1, <4>3
        <5>2. w[j] = SumByte(m) /\ w[j] = g[j - fill] /\ m \in Messages
          BY <2>3, <4>1, <5>1, SumAtIs DEF Messages
        <5>3. m = c /\ j - fill \in {4 + n, 5 + n}
          BY <2>1, <5>1, <5>2
        <5>4. j = z
          <6>1. CASE j - fill = 4 + n
            <7>1. g[4 + n] = SumByte(c)
              BY <5>2, <5>3, <6>1
            <7>2. j = fill + 4 + n
              BY <1>7, <2>2, <5>1, <6>1
            <7>3. QED
              BY <7>1, <7>2
          <6>2. CASE j - fill = 5 + n
            <7>1. g[4 + n] # SumByte(c)
              BY <2>1, <5>2, <5>3, <6>2
            <7>2. QED
              BY <1>7, <2>2, <5>1, <6>2, <7>1
          <6>3. QED
            BY <5>3, <6>1, <6>2
        <5>5. QED
          BY <3>2, <5>3, <5>4
      <4>4. QED
        BY <4>2, <4>3
    <3>4. CASE j >= old + 7 /\ HeadClaim(w, old, j, m)
      <4> DEFINE i == j - 4 - Len(m)
                 e == 4 + Len(m)
      <4>1. HeadTo(w, j, m) /\ j > old + 4 + Len(m) /\ j > 4 + Len(m)
        BY <1>9, <2>2, <3>2, <3>4 DEF HeadClaim
      <4>2. HeadLies(w, i, m)
        BY <2>3, <3>1, <4>1, HeadToIs
      <4>3. /\ i \in Nat /\ 1 <= i /\ old + 1 <= i /\ e \in 2 .. 4 + Len(m)
            /\ i + e - 1 = j - 1 /\ i + e - 1 <= fill + Len(g)
        BY <1>7, <1>9, <2>2, <2>3, <3>2, <4>1
      <4>4. \A k \in 1 .. e : w[i + k - 1] = HeadOf(m)[k]
        BY <4>2 DEF HeadLies
      <4> HIDE DEF i, e, w, g
      <4>5. i = fill + 1 \/ (i + 1 <= fill /\ i + e - 1 <= fill + 1)
        <5>1. g \in Garbled(Frame(c)) /\ w = Burst \o g
          BY <1>8, <1>14 DEF g, w
        <5>2. i + e - 1 <= Len(Burst) + Len(g) /\ \A k \in 1 .. e : (Burst \o g)[i + k - 1] = HeadOf(m)[k]
          BY <1>7, <4>3, <4>4, <5>1
        <5>3. i = Len(Burst) + 1 \/ (i + 1 <= Len(Burst) /\ i + e - 1 <= Len(Burst) + 1)
          BY ONLY SumsApart, MarksApart, MarksSpared, BodiesTell, <1>7, <4>3, <5>1, <5>2, HeadApart,
                  c \in Commands, m \in Commands
        <5>4. QED
          BY <1>7, <5>3
      <4>6. CASE i = fill + 1
        <5>1. 4 + Len(m) <= Len(g)
          BY <1>7, <2>2, <4>3, <4>6 DEF e
        <5>2. ASSUME NEW k \in 1 .. 4 + Len(m)
              PROVE  g[k] = HeadOf(m)[k]
          <6>1. k \in 1 .. Len(g) /\ i + k - 1 = fill + k
            BY <1>7, <2>2, <4>6, <5>1
          <6>2. QED
            BY <2>3, <4>4, <6>1 DEF e
        <5>3. m = c
          BY <1>14, <2>1, <5>1, <5>2, HeadOwn DEF g
        <5>4. g[4 + n] # SumByte(c)
          <6>1. 4 + n \in 1 .. 4 + Len(m) /\ g[4 + n] = HeadOf(c)[4 + n]
            BY <2>2, <5>2, <5>3
          <6>2. HeadOf(c) \in Seq(Byte) /\ Len(HeadOf(c)) = 4 + n /\ c \in Messages
            BY HeadType DEF Messages
          <6>3. HeadOf(c)[4 + n] \in Range(HeadOf(c))
            BY <2>2, <6>2, LenProperties DEF Range
          <6>4. QED
            BY <6>1, <6>2, <6>3 DEF SumsApart
        <5>5. j = z
          BY <1>7, <2>2, <3>2, <4>3, <4>6, <5>3, <5>4 DEF e
        <5>6. QED
          BY <3>2, <5>3, <5>5
      <4>7. CASE i + 1 <= fill /\ i + e - 1 <= fill + 1
        <5>1. j - 1 <= fill + 1
          BY <4>3, <4>7
        <5>2. CASE j <= fill + 1
          <6>1. j \in 1 .. Len(Burst) + 1
            BY <1>7, <3>1, <5>2
          <6>2. HeadTo(Burst, j, m)
            BY <2>5, <4>1, <6>1
          <6>3. HeadClaim(Burst, old, j, m)
            BY <4>1, <6>2 DEF HeadClaim
          <6>4. x \in Arrivals(Burst, old)
            BY <1>7, <1>9, <3>1, <3>4, <6>1, <6>3, ArrivalsType
          <6>5. QED
            BY <1>10, <6>4
        <5>3. CASE ~(j <= fill + 1)
          <6>1. i + e - 1 = fill + 1 /\ fill = i + 2 + Len(m)
            BY <1>7, <2>2, <3>2, <4>3, <5>1, <5>3 DEF e
          <6>2. newData
            BY <1>7, <1>9, <4>3, <4>7
          <6>3. Settled(Burst)
            BY <1>6, <1>11, <6>2
          <6>4. i \in 1 .. Len(Burst) /\ i \in 1 .. Len(Burst) - 4
            BY <1>7, <2>2, <4>3, <6>1
          <6>5. ASSUME NEW k \in 1 .. 3 + Len(m)
                PROVE  Burst[i + k - 1] = HeadOf(m)[k]
            <7>1. i + k - 1 \in 1 .. fill /\ k \in 1 .. e
              BY <1>7, <2>2, <4>3, <6>1 DEF e
            <7>2. QED
              BY <2>3, <4>4, <7>1
          <6>6. SubSeq(Burst, i, Len(Burst)) = Front(HeadOf(m))
            BY SMTT(30), <1>7, <6>1, <6>4, <6>5, ShortHeadIs
          <6>7. MarkAt(Burst, i)
            <7>1. 1 \in 1 .. 3 + Len(m) /\ 2 \in 1 .. 3 + Len(m) /\ i + 1 - 1 = i /\ i + 2 - 1 = i + 1
              BY <2>2, <4>3
            <7>2. Burst[i] = HeadOf(m)[1] /\ Burst[i + 1] = HeadOf(m)[2]
              BY <6>5, <7>1
            <7>3. QED
              BY <7>2, HeadMark DEF MarkAt
          <6>8. QED
            BY <6>3, <6>4, <6>6, <6>7 DEF Settled
        <5>4. QED
          BY <5>2, <5>3
      <4>8. QED
        BY <4>5, <4>6, <4>7
    <3>5. QED
      BY <3>1, <3>3, <3>4
  <2> HIDE DEF z
  <2>7. Owed(Claims', sent')
    <3>1. \A y \in Claims' : y \in Claims \/ (y[1] = z /\ y[2] = c)
      BY <1>4, <1>5, <2>6 DEF Claims
    <3>2. \A x \in Claims : x[1] \in Int /\ x[1] < z
      <4>1. ASSUME NEW x \in Claims PROVE x[1] \in Int /\ x[1] < z
        <5>1. x[1] \in Int /\ x[1] < fill + 6
          BY <1>12
        <5>2. QED
          BY <1>7, <2>4, <5>1
      <4>2. QED
        BY <4>1
    <3>3. QED
      BY <1>1, <1>2, <1>6, <2>4, <3>1, <3>2, OwedMore
  <2>8. Sound(Fresh') /\ Settled(Fresh')
    <3>1. CASE newData
      <4>1. Fresh' = Burst \o g /\ Sound(Burst)
        BY <1>6, <1>8, <1>11, <3>1
      <4>2. QED
        BY <1>7, <1>14, <4>1, SoundJoin, SettledJoin
    <3>2. CASE ~newData
      <4>1. Fresh' = g /\ Sound(<<>>)
        BY <1>6, <1>11, <3>2
      <4>2. <<>> \in Seq(Byte) /\ <<>> \o g = g
        BY <2>1, ConcatEmptySeq
      <4>3. Sound(<<>> \o g) /\ Settled(<<>> \o g)
        BY <1>14, <4>1, <4>2, SoundJoin, SettledJoin
      <4>4. QED
        BY <4>1, <4>2, <4>3
    <3>3. QED
      BY <1>2, <3>1, <3>2
  <2>9. QED
    BY <2>7, <2>8 DEF Traced
<1>15. QED
  BY <1>3, <1>13, <1>14

\* What a read finds is a command, and there is a claim for it.
LEMMA RecvFinds ==
  ASSUME OnlyHeadsFit, SumsApart, BelowTypes, Carried,
         Recv, Accepted(SubSeq(buf, 1, rxlen))
  PROVE  \E m \in Commands : \E i \in 1 .. rxlen :
           /\ i + 5 + Len(m) <= rxlen
           /\ \A k \in 1 .. 4 + Len(m) : buf[i + k - 1] = HeadOf(m)[k]
           /\ buf[i + 4 + Len(m)] = SumByte(m)
           /\ \A j \in 1 .. i - 1 : ~MarkAt(buf, j)
           /\ ran' = Append(ran, m)
           /\ \A k \in 1 .. Len(m) : buf'[i + 3 + k] = m[k]
           /\ \A k \in 1 .. BufSize : (k < i + 4 \/ k >= i + 4 + Len(m)) => buf'[k] = buf[k]
<1> DEFINE b == SubSeq(buf, 1, rxlen)
           i == FirstMark(b)
           n == U16(b, i + 2)
<1>1. /\ b \in Seq(Byte) /\ Len(b) = rxlen /\ rxlen \in Nat /\ rxlen <= BufSize /\ BufSize \in Nat
      /\ \A k \in 1 .. rxlen : b[k] = buf[k]
      /\ buf \in [1 .. BufSize -> Byte] /\ ran \in Seq(Seq(Byte))
  BY LookType, LineAssumption DEF BelowTypes
<1>2. Accepted(b)
  OBVIOUS
<1>3. buf' = Left(b) /\ exec' = <<Command(b)>> /\ ran' = ran \o exec'
  BY <1>2 DEF Recv
<1>4. Marks(b) # {}
  BY <1>2 DEF Accepted
<1>5. Body(b) = i + 4 .. i + 3 + n /\ Command(b) = Coded(SubSeq(b, i + 4, i + 3 + n))
  BY DEF Body, Command
<1> HIDE DEF b
<1>6. /\ i \in Nat /\ 1 <= i /\ n \in Nat /\ i + 5 + n <= Len(b) /\ CrcFits(b, i, n)
  BY <1>1, <1>2, AcceptedType
<1>7. \A j \in Marks(b) : i <= j
  BY <1>1, <1>4, FirstMarkType
<1> HIDE DEF i, n
<1>8. PICK m \in Messages :
        /\ SubSeq(b, i, i + 3 + n) = HeadOf(m) /\ Len(m) = n
        /\ b[i + 4 + n] = SumByte(m)
        /\ SubSeq(b, i + 4, i + 3 + n) = Coded(m)
        /\ \A k \in 1 .. n : b[i + 3 + k] = Key[m[k]]
  BY ZenonT(30), <1>1, <1>6, HeadFits
<1>9. m \in Seq(Byte) /\ Coded(Coded(m)) = m /\ Len(m) \in Nat /\ 2 <= Len(m)
  BY HeadType, CodedType
<1>10. m \in Commands
  <2>1. i + 4 + n \in 1 .. rxlen /\ i + 4 + n \in 1 .. BufSize
    BY <1>1, <1>6
  <2>2. SumByte(m) \in Range(buf)
    BY <1>1, <1>8, <2>1 DEF Range
  <2>3. Range(sent) \subseteq Commands
    BY LenProperties, ElementOfSeq DEF BelowTypes, Range
  <2>4. QED
    BY <2>2, <2>3 DEF Unsent, Carried
<1>11. ran' = Append(ran, m)
  <2>1. Command(b) = m
    BY <1>5, <1>8, <1>9
  <2>2. ran' = ran \o <<m>>
    BY <1>3, <2>1
  <2>3. m \in Seq(Byte) /\ ran \in Seq(Seq(Byte))
    BY <1>1, <1>9
  <2>4. Append(ran, m) = ran \o <<m>>
    BY <2>3, AppendIsConcat
  <2>5. QED
    BY <2>2, <2>4
<1>12. i \in 1 .. rxlen /\ i + 5 + Len(m) <= rxlen
  BY <1>1, <1>6, <1>8
<1>13. ASSUME NEW k \in 1 .. 4 + Len(m) PROVE buf[i + k - 1] = HeadOf(m)[k]
  <2>1. /\ i \in Nat /\ i + 3 + n \in Nat /\ 1 <= i /\ i + 3 + n <= Len(b) /\ i <= (i + 3 + n) + 1
        /\ (i + 3 + n) + 1 - i = 4 + Len(m) /\ i + k - 1 \in 1 .. rxlen
    BY <1>1, <1>6, <1>8, <1>9
  <2>2. \A j \in 1 .. (i + 3 + n) + 1 - i : SubSeq(b, i, i + 3 + n)[j] = b[i + j - 1]
    BY <1>1, <2>1, Piece
  <2>3. SubSeq(b, i, i + 3 + n)[k] = b[i + k - 1]
    BY <2>1, <2>2
  <2>4. QED
    BY <1>1, <1>8, <2>1, <2>3
<1>14. buf[i + 4 + Len(m)] = SumByte(m)
  <2>1. i + 4 + n \in 1 .. rxlen
    BY <1>1, <1>6
  <2>2. QED
    BY <1>1, <1>8, <2>1
<1>15. ASSUME NEW j \in 1 .. i - 1, MarkAt(buf, j) PROVE FALSE
  <2>1. j \in 1 .. rxlen /\ j + 1 \in 1 .. rxlen /\ j \in 1 .. Len(b) - 7 /\ ~(i <= j)
    BY <1>1, <1>6, <1>8, <1>9
  <2>2. j \in Marks(b)
    BY <1>1, <1>15, <2>1 DEF Marks, MarkAt
  <2>3. QED
    BY <1>7, <2>1, <2>2
<1>16. \A k \in 1 .. BufSize : buf'[k] = IF k \in i + 4 .. i + 3 + n THEN Key[buf[k]] ELSE buf[k]
  <2>1. buf' = [k \in DOMAIN buf |-> IF k \in Body(b) THEN Key[buf[k]] ELSE buf[k]]
    BY <1>3 DEF Left
  <2>2. DOMAIN buf = 1 .. BufSize
    BY <1>1
  <2>3. QED
    BY <1>5, <2>1, <2>2
<1>17. ASSUME NEW k \in 1 .. Len(m) PROVE buf'[i + 3 + k] = m[k]
  <2>1. /\ i + 3 + k \in 1 .. BufSize /\ i + 3 + k \in 1 .. rxlen /\ i + 3 + k \in i + 4 .. i + 3 + n
        /\ k \in 1 .. n
    BY <1>1, <1>6, <1>8
  <2>2. buf'[i + 3 + k] = Key[buf[i + 3 + k]] /\ buf[i + 3 + k] = Key[m[k]]
    BY <1>1, <1>8, <1>16, <2>1
  <2>3. m[k] \in Byte
    BY <1>9, ElementOfSeq
  <2>4. QED
    BY <2>2, <2>3, KeyAssumption
<1>18. ASSUME NEW k \in 1 .. BufSize, k < i + 4 \/ k >= i + 4 + Len(m)
       PROVE  buf'[k] = buf[k]
  <2>1. ~(k \in i + 4 .. i + 3 + n)
    BY <1>6, <1>8, <1>18
  <2>2. QED
    BY <1>16, <2>1
<1>19. \A j \in 1 .. i - 1 : ~MarkAt(buf, j)
  BY <1>15
<1>20. QED
  BY <1>10, <1>11, <1>12, <1>13, <1>14, <1>17, <1>18, <1>19

\* It is executed for that claim, and what is claimed elsewhere comes behind it.
LEMMA TracedRecv ==
  ASSUME OnlyHeadsFit, SumsApart, BodiesTell, BelowTypes, BelowTypes', Carried, Traced,
         Recv, Accepted(SubSeq(buf, 1, rxlen))
  PROVE  Traced'
<1>1. /\ newData /\ ~newData' /\ UNCHANGED <<up, fill, rxlen, sent, open>>
      /\ ran \in Seq(Seq(Byte)) /\ ran' \in Seq(Seq(Byte)) /\ up \in Seq(Byte)
  BY DEF Recv, host, BelowTypes
<1>2. PICK m \in Commands, i \in 1 .. rxlen :
           /\ i + 5 + Len(m) <= rxlen
           /\ \A k \in 1 .. 4 + Len(m) : buf[i + k - 1] = HeadOf(m)[k]
           /\ buf[i + 4 + Len(m)] = SumByte(m)
           /\ \A j \in 1 .. i - 1 : ~MarkAt(buf, j)
           /\ ran' = Append(ran, m)
           /\ \A k \in 1 .. Len(m) : buf'[i + 3 + k] = m[k]
           /\ \A k \in 1 .. BufSize : (k < i + 4 \/ k >= i + 4 + Len(m)) => buf'[k] = buf[k]
  BY RecvFinds
<1> DEFINE w == Burst
           v == Burst'
           n == Len(m)
           p == i + 4 + n
           z == IF p <= fill + 1 THEN p ELSE p - BufSize
<1>3. /\ w \in Seq(Byte) /\ Len(w) = fill + Len(up) /\ Len(up) \in Nat
      /\ fill \in Nat /\ rxlen \in Nat /\ fill <= BufSize /\ rxlen <= BufSize /\ BufSize \in Nat
      /\ \A k \in 1 .. fill : w[k] = buf[k]
      /\ \A k \in 1 .. Len(up) : w[fill + k] = up[k]
      /\ buf \in Seq(Byte) /\ Len(buf) = BufSize
  BY BurstIs
<1>4. /\ v \in Seq(Byte) /\ Len(v) = Len(w)
      /\ \A k \in 1 .. fill : v[k] = buf'[k]
      /\ \A k \in 1 .. Len(up) : v[fill + k] = up[k]
  BY <1>1, <1>3, BurstWillBe
<1>5. /\ n \in Nat /\ 2 <= n /\ m \in Messages /\ m \in Seq(Byte)
      /\ HeadOf(m) \in Seq(Byte) /\ Len(HeadOf(m)) = 4 + n
      /\ \A k \in 1 .. n : HeadOf(m)[4 + k] = Coded(m)[k]
      /\ \A k \in 1 .. n : Coded(m)[k] = Key[m[k]]
      /\ \A d \in Commands : Len(d) \in Nat /\ 2 <= Len(d)
  BY HeadType, CodedType DEF Messages
<1>6. i \in Nat /\ 1 <= i /\ p \in Nat /\ p >= 7 /\ p <= rxlen - 1
  BY <1>2, <1>3, <1>5
<1>7. Sound(w) /\ Owed(Claims, sent)
  BY <1>1 DEF Traced, Fresh
<1>8. Fresh' = up /\ Sound(Fresh') /\ (open' => Settled(Fresh'))
  BY <1>1, UpSound DEF Fresh
<1>9. Arriving = Arrivals(w, 0)
  BY <1>1, ClaimsAre
<1>10. Arriving' = Arrivals(v, fill)
  <2>1. Arriving' = Arrivals(Burst', IF newData' THEN 0 ELSE fill')
    BY ClaimsWillBe
  <2>2. QED
    BY <1>1, <2>1
<1>11. Flagged' = {} /\ Executed = Executions(ran) /\ Executed' = Executions(ran')
  BY <1>1, ClaimsAre, ClaimsWillBe
<1> HIDE DEF w, v
\* Where the two bursts are the same
<1>12. ASSUME NEW k \in 1 .. Len(w), k < i + 4 \/ k >= p \/ k > fill
       PROVE  v[k] = w[k]
  <2>1. CASE k <= fill
    <3>1. k \in 1 .. fill /\ k \in 1 .. BufSize /\ (k < i + 4 \/ k >= i + 4 + n)
      BY <1>3, <1>12, <2>1
    <3>2. QED
      BY <1>2, <1>3, <1>4, <3>1
  <2>2. CASE ~(k <= fill)
    <3>1. k - fill \in 1 .. Len(up) /\ fill + (k - fill) = k
      BY <1>3, <2>2
    <3>2. QED
      BY <1>3, <1>4, <3>1
  <2>3. QED
    BY <2>1, <2>2
\* No sum is in the body
<1>13. ASSUME NEW k \in 1 .. fill, k >= i + 4, k < p, NEW d \in Messages
       PROVE  v[k] # SumByte(d)
  <2>1. k - (i + 3) \in 1 .. n /\ i + 3 + (k - (i + 3)) = k
    BY <1>5, <1>6, <1>13
  <2>2. v[k] = m[k - (i + 3)]
    BY <1>2, <1>4, <2>1
  <2>3. m[k - (i + 3)] \in Range(m)
    BY <1>5, <2>1, LenProperties DEF Range
  <2>4. QED
    BY <1>5, <2>2, <2>3 DEF SumsApart
\* The body is plain now
<1>14. ASSUME p <= fill + 1
       PROVE  SubSeq(v, p - n, p - 1) = m
  <2>1. p \in 1 .. Len(v) + 1 /\ p > Len(m)
    BY <1>3, <1>4, <1>5, <1>6, <1>14
  <2>2. ASSUME NEW k \in 1 .. n PROVE v[p - n - 1 + k] = m[k]
    <3>1. p - n - 1 + k = i + 3 + k /\ i + 3 + k \in 1 .. fill
      BY <1>3, <1>5, <1>6, <1>14
    <3>2. QED
      BY <1>2, <1>4, <3>1
  <2>3. BodyLies(v, p, m)
    BY <2>2 DEF BodyLies
  <2>4. QED
    BY <1>4, <2>1, <2>3, BodyIs
\* The head was there
<1>15. ASSUME p <= fill + 1
       PROVE  HeadTo(w, p, m) /\ p \in 1 .. Len(w) + 1 /\ p > 4 + n
  <2>1. p \in 1 .. Len(w) + 1 /\ p > 4 + n /\ p - 4 - n = i
    BY <1>3, <1>5, <1>6, <1>15
  <2>2. ASSUME NEW k \in 1 .. 4 + n PROVE w[i + k - 1] = HeadOf(m)[k]
    <3>1. i + k - 1 \in 1 .. fill
      BY <1>3, <1>5, <1>6, <1>15
    <3>2. QED
      BY <1>2, <1>3, <3>1
  <2>3. HeadLies(w, p - 4 - n, m)
    BY <2>1, <2>2 DEF HeadLies
  <2>4. QED
    BY <1>3, <2>1, <2>3, HeadToIs
\* The claim
<1>16. \E y \in Claims : y[1] = z /\ y[2] = m
  <2>1. CASE p <= fill
    <3>1. p \in 1 .. Len(w) /\ p \in 1 .. Len(w) + 1 /\ p <= Len(w) /\ p \in 1 .. fill /\ z = p
      BY <1>3, <1>6, <2>1
    <3>2. w[p] = SumByte(m)
      BY <1>2, <1>3, <3>1
    <3>3. SumAt(w, p, m) /\ HeadTo(w, p, m)
      <4>1. p <= fill + 1
        BY <1>3, <1>6, <2>1
      <4>2. HeadTo(w, p, m) /\ p > 4 + n
        BY <1>15, <4>1
      <4>3. SumAt(w, p, m)
        BY <1>3, <1>5, <3>1, <3>2, <4>2, SumAtIs
      <4>4. QED
        BY <4>2, <4>3
    <3>4. SubSeq(w, p - n, p - 1) # m
      BY <1>7, <3>1, <3>3 DEF Sound
    <3>5. SumClaim(w, p, m)
      BY <3>3, <3>4 DEF SumClaim
    <3>6. <<p, m>> \in Arriving
      BY <1>3, <1>9, <3>1, <3>5, ArrivalsType
    <3>7. <<p, m>> \in Claims /\ <<p, m>>[1] = z /\ <<p, m>>[2] = m
      BY <3>1, <3>6 DEF Claims
    <3>8. QED
      BY <3>7
  <2>2. CASE p = fill + 1
    <3>1. p \in 1 .. Len(w) + 1 /\ p >= 0 + 7 /\ p > 0 + 4 + Len(m) /\ HeadTo(w, p, m) /\ z = p
      BY <1>3, <1>5, <1>6, <1>15, <2>2
    <3>2. HeadClaim(w, 0, p, m)
      BY <3>1 DEF HeadClaim
    <3>3. <<p, m>> \in Arriving
      BY <1>3, <1>9, <3>1, <3>2, ArrivalsType
    <3>4. <<p, m>> \in Claims /\ <<p, m>>[1] = z /\ <<p, m>>[2] = m
      BY <3>1, <3>3 DEF Claims
    <3>5. QED
      BY <3>4
  <2>3. CASE p >= fill + 2
    <3>1. p \in fill + 2 .. rxlen - 1 /\ p \in 1 .. Len(buf) /\ z = p - BufSize
          /\ fill \in 0 .. BufSize /\ rxlen \in 0 .. BufSize
      BY <1>3, <1>6, <2>3
    <3>2. SumAt(buf, p, m)
      <4>1. p > 4 + Len(m)
        BY <1>5, <1>6
      <4>2. QED
        BY <1>2, <1>3, <3>1, <4>1, SumAtIs
    <3>3. buf[p - 1] = Key[m[Len(m)]]
      <4>1. 4 + n \in 1 .. 4 + n /\ i + (4 + n) - 1 = p - 1 /\ n \in 1 .. n
        BY <1>5, <1>6
      <4>2. buf[i + (4 + n) - 1] = HeadOf(m)[4 + n]
        BY <1>2, <4>1
      <4>3. HeadOf(m)[4 + n] = Key[m[n]]
        BY <1>5, <4>1
      <4>4. QED
        BY <4>1, <4>2, <4>3
    <3>4. <<p - BufSize, m>> \in Flagged
      <4>1. <<p - BufSize, m>> \in Flags(buf, fill, rxlen)
        BY <3>1, <3>2, <3>3, FlagsHave
      <4>2. QED
        BY <1>1, <4>1, ClaimsAre
    <3>5. <<p - BufSize, m>> \in Claims /\ <<p - BufSize, m>>[1] = z /\ <<p - BufSize, m>>[2] = m
      BY <3>1, <3>4 DEF Claims
    <3>6. QED
      BY <3>5
  <2>4. QED
    BY <1>3, <1>6, <2>1, <2>2, <2>3
\* The others
<1>17. ASSUME NEW x \in Arriving'
       PROVE  x \in Arriving /\ x[1] \in Int /\ x[1] > z /\ x[1] >= 1
  <2>1. PICK j \in 1 .. Len(v) + 1, d \in Commands :
          /\ x = <<j, d>>
          /\ \/ j <= Len(v) /\ SumClaim(v, j, d)
             \/ j >= fill + 7 /\ HeadClaim(v, fill, j, d)
    BY <1>3, <1>4, <1>10, <1>17, ArrivalsType
  <2>2. x[1] = j /\ x[2] = d /\ j \in Int /\ j >= 1 /\ j \in 1 .. Len(w) + 1
    BY <1>4, <2>1
  <2>3. CASE j >= fill + 7 /\ HeadClaim(v, fill, j, d)
    <3>1. HeadTo(v, j, d) /\ j > fill + 4 + Len(d) /\ j > 4 + Len(d) /\ j > 0 + 4 + Len(d) /\ j >= 0 + 7
      BY <1>3, <1>5, <2>2, <2>3 DEF HeadClaim
    <3>2. HeadLies(v, j - 4 - Len(d), d)
      BY <1>4, <2>1, <3>1, HeadToIs
    <3>3. ASSUME NEW k \in 1 .. 4 + Len(d)
          PROVE  w[(j - 4 - Len(d)) + k - 1] = HeadOf(d)[k]
      <4>1. (j - 4 - Len(d)) + k - 1 \in 1 .. Len(w) /\ (j - 4 - Len(d)) + k - 1 > fill
        BY SMTT(30), <1>3, <1>5, <2>2, <3>1
      <4>2. v[(j - 4 - Len(d)) + k - 1] = HeadOf(d)[k]
        BY <3>2 DEF HeadLies
      <4>3. QED
        BY <1>12, <4>1, <4>2
    <3>4. HeadTo(w, j, d)
      <4>1. HeadLies(w, j - 4 - Len(d), d)
        BY <3>3 DEF HeadLies
      <4>2. QED
        BY <1>3, <2>2, <3>1, <4>1, HeadToIs
    <3>5. HeadClaim(w, 0, j, d)
      BY <3>1, <3>4 DEF HeadClaim
    <3>6. x \in Arriving
      BY <1>3, <1>9, <2>1, <2>2, <3>1, <3>5, ArrivalsType
    <3>7. j > z
      BY SMTT(30), <1>3, <1>6, <2>2, <2>3
    <3>8. QED
      BY <2>2, <3>6, <3>7
  <2>4. CASE j <= Len(v) /\ SumClaim(v, j, d)
    <3>1. /\ j \in 1 .. Len(v) /\ j \in 1 .. Len(w) /\ j <= Len(w) /\ d \in Messages
          /\ SumAt(v, j, d) /\ SubSeq(v, j - Len(d), j - 1) # d
      BY <1>4, <2>2, <2>4 DEF SumClaim, Messages
    <3>2. v[j] = SumByte(d) /\ j > 4 + Len(d)
      BY <1>4, <3>1, SumAtIs
    <3>3. ~(j <= fill /\ j >= i + 4 /\ j < p)
      BY <1>13, <3>1, <3>2
    <3>4. w[j] = SumByte(d)
      <4>1. j < i + 4 \/ j >= p \/ j > fill
        BY <1>3, <1>6, <2>2, <3>3
      <4>2. QED
        BY <1>12, <3>1, <3>2, <4>1
    <3>5. SumAt(w, j, d)
      BY <1>3, <3>1, <3>2, <3>4, SumAtIs
    <3>6. /\ \E k \in j - 4 - Len(d) .. j - 2 : MarkAt(w, k)
          /\ SubSeq(w, j - Len(d), j - 1) # d
          /\ \A e \in Commands : HeadTo(w, j, e) => e = d
      BY <1>7, <3>1, <3>5 DEF Sound
    <3>7. x \in Arriving
      <4>1. SumClaim(w, j, d)
        BY <3>5, <3>6 DEF SumClaim
      <4>2. QED
        BY <1>3, <1>9, <2>1, <2>2, <3>1, <4>1, ArrivalsType
    <3>8. ASSUME p <= fill + 1, j <= p PROVE FALSE
      <4>1. CASE j = p
        <5>1. HeadTo(w, j, m)
          BY <1>15, <3>8, <4>1
        <5>2. d = m
          BY <3>6, <5>1
        <5>3. QED
          BY <1>14, <3>1, <3>8, <4>1, <5>2
      <4>2. CASE j < p /\ j >= i + 4
        BY <1>3, <1>6, <2>2, <3>3, <3>8, <4>2
      <4>3. CASE j >= i /\ j < i + 4
        <5>1. /\ (j - i) + 1 \in 1 .. 4 + n /\ i + ((j - i) + 1) - 1 = j
              /\ j + 1 <= p
          BY <1>5, <1>6, <2>2, <4>3
        <5>2. j \in 1 .. fill
          <6>1. p \in Int /\ fill \in Int /\ p <= fill + 1
            BY <1>3, <1>6, <3>8
          <6>2. j \in Int /\ j >= 1 /\ j + 1 <= p
            BY <2>2, <5>1
          <6>3. QED
            BY <6>1, <6>2
        <5>3. w[j] = HeadOf(m)[(j - i) + 1]
          BY <1>2, <1>3, <5>1, <5>2
        <5>4. HeadOf(m)[(j - i) + 1] \in Range(HeadOf(m))
          BY <1>5, <5>1, LenProperties DEF Range
        <5>5. SumByte(d) \notin Range(HeadOf(m))
          BY <1>5, <3>1 DEF SumsApart
        <5>6. QED
          BY <3>4, <5>3, <5>4, <5>5
      <4>4. CASE j < i
        <5>1. PICK k \in j - 4 - Len(d) .. j - 2 : MarkAt(w, k)
          BY <3>6
        <5>2. k \in 1 .. i - 1 /\ k \in 1 .. fill /\ k + 1 \in 1 .. fill
          BY SMTT(30), <1>3, <1>5, <1>6, <2>2, <3>2, <3>8, <4>4
        <5>3. MarkAt(buf, k)
          BY <1>3, <5>1, <5>2 DEF MarkAt
        <5>4. QED
          BY <1>2, <5>2, <5>3
      <4>5. QED
        BY <1>6, <2>2, <3>8, <4>1, <4>2, <4>3, <4>4
    <3>9. j > z
      <4>1. CASE p <= fill + 1
        BY <1>6, <2>2, <3>8, <4>1
      <4>2. CASE ~(p <= fill + 1)
        BY <1>3, <1>6, <2>2, <4>2
      <4>3. QED
        BY <4>1, <4>2
    <3>10. QED
      BY <2>2, <3>7, <3>9
  <2>5. QED
    BY <2>1, <2>3, <2>4
<1>18. z \in Int /\ z > 0 - BufSize
  BY <1>3, <1>6
<1> HIDE DEF z, p
<1>19. ASSUME NEW x \in Executed'
       PROVE  /\ x[1] \in Int /\ x[1] <= 0 - BufSize
              /\ x[1] < 0 - BufSize => \E y \in Executed : y[1] = x[1] + 1 /\ y[2] = x[2]
              /\ x[1] = 0 - BufSize => x[2] = m
  <2>1. PICK k \in 1 .. Len(ran') : x[1] = k - Len(ran') - BufSize /\ x[2] = ran'[k]
    BY <1>1, <1>11, <1>19, ExecutionsType
  <2>2. /\ Len(ran) \in Nat /\ DOMAIN ran = 1 .. Len(ran) /\ Len(ran') = Len(ran) + 1
        /\ ran'[Len(ran) + 1] = m
        /\ \A j \in 1 .. Len(ran) : ran'[j] = ran[j]
    BY <1>1, <1>2, <1>5, LenProperties, AppendProperties
  <2>3. CASE k = Len(ran) + 1
    <3>1. x[1] = 0 - BufSize /\ x[2] = m
      BY <1>3, <2>1, <2>2, <2>3
    <3>2. QED
      BY <1>3, <3>1
  <2>4. CASE k # Len(ran) + 1
    <3>1. k \in 1 .. Len(ran) /\ x[1] = k - (Len(ran) + 1) - BufSize /\ x[2] = ran[k]
      BY <2>1, <2>2, <2>4
    <3>2. x[1] \in Int /\ x[1] < 0 - BufSize /\ k - Len(ran) - BufSize = x[1] + 1
      BY <1>3, <2>2, <3>1
    <3>3. <<k - Len(ran) - BufSize, ran[k]>> \in Executed
      BY <2>2, <3>1, <1>11 DEF Executions
    <3> DEFINE y == <<k - Len(ran) - BufSize, ran[k]>>
    <3>4. y[1] = x[1] + 1 /\ y[2] = x[2]
      BY <3>1, <3>2
    <3>5. y \in Executed
      BY <3>3
    <3> HIDE DEF y
    <3>6. x[1] \in Int /\ x[1] < 0 - BufSize /\ x[1] <= 0 - BufSize /\ ~(x[1] = 0 - BufSize)
      BY <1>3, <3>2
    <3>7. QED
      BY <3>4, <3>5, <3>6
  <2>5. QED
    BY <2>3, <2>4
<1> DEFINE to == [k \in Int |-> IF k < 0 - BufSize THEN k + 1 ELSE IF k = 0 - BufSize THEN z ELSE k]
<1>20. ASSUME NEW x \in Claims'
       PROVE  \/ x \in Executed' /\ x[1] \in Int /\ x[1] <= 0 - BufSize
              \/ x \in Arriving' /\ x \in Arriving /\ x[1] \in Int /\ x[1] > z /\ x[1] >= 1
  <2>1. x \in Executed' \/ x \in Arriving'
    BY <1>11, <1>20 DEF Claims
  <2>2. QED
    BY <1>17, <1>19, <2>1
<1>21. ASSUME NEW x \in Claims'
       PROVE  \E y \in Claims : y[1] = to[x[1]] /\ y[2] = x[2]
  <2>1. CASE x \in Executed' /\ x[1] \in Int /\ x[1] <= 0 - BufSize
    <3>1. CASE x[1] < 0 - BufSize
      <4>1. to[x[1]] = x[1] + 1
        BY <2>1, <3>1
      <4>2. PICK y \in Executed : y[1] = x[1] + 1 /\ y[2] = x[2]
        BY <1>19, <2>1, <3>1
      <4>3. QED
        BY <4>1, <4>2 DEF Claims
    <3>2. CASE x[1] = 0 - BufSize
      <4>1. to[x[1]] = z
        BY <1>3, <2>1, <3>2
      <4>2. x[2] = m
        BY <1>19, <2>1, <3>2
      <4>3. QED
        BY <1>16, <4>1, <4>2
    <3>3. x[1] < 0 - BufSize \/ x[1] = 0 - BufSize
      <4>1. 0 - BufSize \in Int
        BY <1>3
      <4>2. x[1] \in Int /\ x[1] <= 0 - BufSize
        BY <2>1
      <4>3. ASSUME NEW a \in Int, NEW c \in Int, a <= c PROVE a < c \/ a = c
        BY <4>3
      <4>4. QED
        BY ONLY <4>1, <4>2, <4>3
    <3>4. QED
      BY <3>1, <3>2, <3>3
  <2>2. CASE x \in Arriving' /\ x \in Arriving /\ x[1] \in Int /\ x[1] > z /\ x[1] >= 1
    <3>1. to[x[1]] = x[1] /\ x \in Claims
      BY <1>3, <2>2 DEF Claims
    <3>2. QED
      BY <3>1
  <2>3. QED
    BY <1>20, <1>21, <2>1, <2>2
<1>22. ASSUME NEW x \in Claims', NEW y \in Claims', x[1] < y[1]
       PROVE  to[x[1]] < to[y[1]]
  <2>1. /\ x[1] \in Int /\ (x[1] <= 0 - BufSize \/ (x[1] > z /\ x[1] >= 1))
        /\ y[1] \in Int /\ (y[1] <= 0 - BufSize \/ (y[1] > z /\ y[1] >= 1))
    BY <1>20
  <2>2. QED
    BY <1>3, <1>18, <1>22, <2>1
<1> HIDE DEF to
<1>23. Owed(Claims', sent')
  <2>1. Owed(Claims', sent)
    BY <1>7, <1>21, <1>22, OwedMoved
  <2>2. QED
    BY <1>1, <2>1
<1>24. QED
  BY <1>8, <1>23 DEF Traced

\* At first nothing is claimed.
LEMMA TracedInit == Init => Traced
<1> SUFFICES ASSUME Init PROVE Traced
  OBVIOUS
<1>1. up = <<>> /\ fill = 0 /\ ~newData /\ ran = <<>> /\ sent = <<>> /\ BelowTypes
  BY BelowTypesInit DEF Init
<1>2. Burst = <<>> /\ Fresh = <<>>
  <2>1. SubSeq(buf, 1, fill) = <<>>
    BY <1>1, SubSeqEmpty
  <2>2. QED
    BY <1>1, <2>1, ConcatEmptySeq, EmptySeq DEF Burst, Fresh
<1>3. Executed = {} /\ Flagged = {}
  BY <1>1 DEF Executed, Flagged
<1>4. Arriving = {}
  <2>1. Len(Burst) = 0
    BY <1>2
  <2>2. QED
    BY <1>1, <2>1 DEF Arriving
<1>5. Owed(Claims, sent)
  <2>1. Claims = {}
    BY <1>3, <1>4 DEF Claims
  <2>2. {x[1] : x \in Claims} = {}
    BY <2>1
  <2>3. [k \in {} |-> 1] \in [{} -> DOMAIN sent]
    OBVIOUS
  <2>4. QED
    BY <2>1, <2>2, <2>3 DEF Owed
<1>6. Sound(Fresh) /\ Settled(Fresh)
  <2>1. Len(Fresh) = 0
    BY <1>2
  <2>2. QED
    BY <2>1 DEF Sound, Settled
<1>7. QED
  BY <1>5, <1>6 DEF Traced

\* Every step keeps the claims in the order of the commands.
LEMMA TracedStep ==
  ASSUME OnlyHeadsFit, SumsApart, MarksApart, HeadsApart, MarksSpared, BodiesTell,
         BelowTypes, Carried, Traced, [Next]_vars
  PROVE  Traced'
<1>0. BelowTypes'
  BY BelowTypesStep
<1>1. CASE Arrive
  BY <1>0, <1>1, TracedArrive
<1>2. CASE Silence
  <2>1. UNCHANGED <<up, buf, ran, sent, open>> /\ fill' = 0 /\ rxlen' = fill
    BY <1>2 DEF Silence, host
  <2>2. QED
    BY <1>0, <2>1, TracedFlush
<1>3. CASE Recv
  <2>1. CASE Accepted(SubSeq(buf, 1, rxlen))
    BY <1>0, <1>3, <2>1, TracedRecv
  <2>2. CASE ~Accepted(SubSeq(buf, 1, rxlen))
    <3>1. newData /\ ~newData' /\ UNCHANGED <<up, buf, fill, rxlen, ran, sent, open>>
      BY <1>3, <2>2 DEF Recv, host
    <3>2. QED
      BY <1>0, <3>1, TracedRefused
  <2>3. QED
    BY <2>1, <2>2
<1>4. CASE Reply \/ ReadReady \/ FakeReply \/ Poll \/ UNCHANGED vars
  <2>1. UNCHANGED <<up, buf, fill, rxlen, newData, ran, sent, open>>
    BY <1>4 DEF Reply, ReadReady, FakeReply, Poll, vars, device, host, history
  <2>2. QED
    BY <2>1, TracedStays
<1>5. CASE Reset
  <2>1. UNCHANGED <<up, buf, ran, sent, open>> /\ fill' = 0 /\ ~newData'
    BY <1>5 DEF Reset, host
  <2>2. QED
    BY <1>0, <2>1, TracedFlush
<1>6. CASE Open
  <2>1. up = <<>> /\ fill = 0 /\ UNCHANGED <<up, buf, fill, rxlen, newData, ran, sent>>
    BY <1>6 DEF Open, device
  <2>2. Fresh = <<>>
    <3>1. SubSeq(buf, 1, fill) = <<>>
      BY <2>1, SubSeqEmpty
    <3>2. QED
      BY <2>1, <3>1, ConcatEmptySeq, EmptySeq DEF Burst, Fresh
  <2>3. Fresh' = Fresh /\ Burst' = Burst
    BY <2>1 DEF Fresh, Burst
  <2>4. Settled(Fresh')
    <3>1. Len(Fresh') = 0
      BY <2>2, <2>3
    <3>2. QED
      BY <3>1 DEF Settled
  <2>5. Claims' = Claims
    BY <2>1, <2>3 DEF Claims, Executed, Flagged, Arriving
  <2>6. QED
    BY <2>1, <2>3, <2>4, <2>5 DEF Traced
<1>7. CASE Ask
  BY <1>0, <1>7, TracedAsk
<1>8. CASE Close
  BY <1>0, <1>8, TracedClose
<1>9. QED
  BY <1>1, <1>2, <1>3, <1>4, <1>5, <1>6, <1>7, <1>8 DEF Next

\* What the device executes, or may yet execute of the bytes it holds, is charged to
\* commands the tool sent, in their order, one each: whatever gaps, damage, bursts
\* in one silence and late reads do to the frames, as long as no mark is hit and
\* no damaged head is that of another command.
THEOREM TracedHolds ==
  ASSUME OnlyHeadsFit, SumsApart, MarksApart, HeadsApart, MarksSpared, BodiesTell
  PROVE  Spec => []Traced
<1> DEFINE IInv == BelowTypes /\ Carried /\ ExecType /\ Traced
<1>1. Init => IInv
  BY BelowTypesInit, CarriedInit, TracedInit
<1>2. IInv /\ [Next]_vars => IInv'
  BY BelowTypesStep, CarriedStep, TracedStep
<1>3. QED
  BY <1>1, <1>2, PTL DEF Spec

\* So what it executes are commands the tool sent, in their order, each at most once.
THEOREM RunsInOrder ==
  ASSUME OnlyHeadsFit, SumsApart, MarksApart, HeadsApart, MarksSpared, BodiesTell
  PROVE  Spec => []RunsWereSent
<1>1. Spec => []BelowTypes
  BY BelowTypesHold
<1>2. Spec => []Traced
  BY TracedHolds
<1>3. BelowTypes /\ Traced => RunsWereSent
  BY OwedWithin DEF Traced, RunsWereSent
<1>4. QED
  BY <1>1, <1>2, <1>3, PTL
=============================================================================
