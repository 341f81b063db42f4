-------------------------- MODULE SerialInvariants --------------------------
(***************************************************************************)
(* The inductive invariants of SerialLine: where the last command is on    *)
(* its way down, to which answer each byte on its way up is charged, what  *)
(* is found in those bytes, and which command sent each one is that was    *)
(* executed or may yet be.                                                 *)
(***************************************************************************)
EXTENDS SerialLine

----------------------------------------------------------------------------
(* Downwards *)

BelowTypes ==
  /\ up \in Seq(Byte) /\ buf \in [1 .. BufSize -> Byte]
  /\ fill \in 0 .. BufSize /\ rxlen \in 0 .. BufSize
  /\ newData \in BOOLEAN /\ clean \in BOOLEAN
  /\ exec = None \/ \E c \in Seq(Byte) : exec = <<c>>
  /\ sent \in Seq(Commands) /\ ran \in Seq(Seq(Byte))

\* As long as the last command is clean, its frame is arriving in front of the
\* buffer, or lies there and is flagged, or was executed last.
Hearing ==
  clean =>
    /\ sent # <<>>
    /\ LET c == Last(sent)
       IN  \/ SubSeq(buf, 1, fill) \o up = Frame(c)
           \/ up = <<>> /\ fill = 0 /\ newData /\ SubSeq(buf, 1, rxlen) = Frame(c)
           \/ up = <<>> /\ fill = 0 /\ ~newData /\ ran # <<>> /\ Last(ran) = c

----------------------------------------------------------------------------
(* Checksums as symbols: what a frame ends with belongs to one message, fits no  *)
(* other bytes, and its first byte occurs in nothing else that is on the line.   *)

SumByte(m) == CRC(HeadOf(m))[1]

OnlyHeadsFit ==
  \A s \in Seq(Byte) : CRC(s) \in Byte \X Byte => \E m \in Messages : s = HeadOf(m)
SumsApart ==
  /\ \A m, n \in Messages : SumByte(m) = SumByte(n) => m = n
  /\ \A m, n \in Messages :
       SumByte(m) \notin Range(HeadOf(n)) \cup Range(n) \cup {CRC(HeadOf(n))[2], 0} \cup Noise

\* What the device holds, or is sent, has the sum byte of no message the tool
\* has not sent; and it executes no such message.
Unsent == {SumByte(m) : m \in Messages \ Range(sent)}
Carried ==
  /\ (Range(buf) \cup Range(up)) \cap Unsent = {}
  /\ Range(exec) \cup Range(ran) \subseteq Range(sent)

\* The message a byte is the sum byte of
Teller ==
  [x \in Byte |-> IF \E m \in Messages : SumByte(m) = x
                    THEN CHOOSE m \in Messages : SumByte(m) = x ELSE <<>>]
Told(s) == [i \in DOMAIN s |-> Teller[s[i]]]

AboveTypes ==
  /\ down \in Seq(Byte) /\ acc \in Seq(Byte)
  /\ queue \in Seq(Seq(Byte)) /\ taken \in Seq(Seq(Byte)) /\ replied \in Seq(Messages)
  /\ open \in BOOLEAN /\ waiting \in BOOLEAN /\ fake \in BOOLEAN /\ deaf \in BOOLEAN

\* What the tool has seen, and what is on the way to it or waits to be
\* parsed: one sum byte is one answer the device gave, in their order.
Chain == Seen \o Told(acc \o down)
Charged == Given(Chain, replied)

----------------------------------------------------------------------------
(* What is found: in the stream as a whole, wherever the reads cut it *)

\* Reading some bytes, and then others behind what is left, is reading them at once.
CutAlike(b, d) ==
  LET p == Parsed(b)
      q == Parsed(p[1] \o d)
      r == Parsed(b \o d)
  IN  p[2] \o q[2] = r[2] /\ FromMark(q[1]) = FromMark(r[1])

\* What the tool has, and what it will have when it has read what was sent
Found == Seen \o Decoded(Parsed(acc \o down)[2])

\* What is left then
Residue(b) == FromMark(Parsed(b)[1])

\* The second byte of a mark occurs in no frame but in its mark.
MarksApart ==
  /\ 85 \notin Noise
  /\ \A m \in Messages : \A i \in DOMAIN Frame(m) : Frame(m)[i] = 85 => i = 2

\* Bytes that the parser gives up when a reply comes behind them: they hold no
\* mark, or they are a frame short of one byte, which the first byte of a mark
\* does not complete.
Quiet(h) == 85 \notin Range(h)
CutShort(h) ==
  /\ Len(h) > 6 /\ MarkAt(h, 1) /\ Len(h) = U16(h, 3) + 5
  /\ \A i \in DOMAIN h : h[i] = 85 => i = 2
  /\ ~CrcFits(Append(h, 170), 1, U16(h, 3))
Harmless(h) == Quiet(h) \/ CutShort(h)

\* m_alreadyReadBuffer holds no packet, and nothing at all between two sessions.
Kept == Parsed(acc)[2] = <<>> /\ (~open => acc = <<>>)

\* What is left is harmless, wherever a session starts to read.
Following ==
  ~deaf => /\ Harmless(Residue(acc \o down))
           /\ \A k \in 1 .. Len(down) : Harmless(Residue(SubSeq(down, k, Len(down))))

Delivered == open /\ ~deaf => Given(due, Found)

StreamInv == Kept /\ Following /\ Delivered

\* During a session nothing that is found is lost again or moves: a reply adds to
\* it at the end, and so does the made-up one.
FoundStays ==
  [][open' = open =>
       \/ Found' = Found
       \/ replied' # replied /\ IsPrefix(Found, Found')
       \/ fake /\ ~fake']_vars

LineInv == Hearing /\ Carried /\ Charged /\ StreamInv

----------------------------------------------------------------------------
(* What was sent is executed once, in the order in which it was sent *)

\* What the line can make of a frame, but for losing it
Garbled(f) ==
  {f} \cup {RemoveAt(f, i) : i \in DOMAIN f \cap Places} \cup
  {[f EXCEPT ![i] = x] : i \in DOMAIN f \cap Places, x \in Noise}

\* No damage turns a command into another one.
HeadsApart ==
  \A c, d \in Commands : \A w \in Garbled(Frame(c)) : IsPrefix(HeadOf(d), w) => d = c
\* Marks are not hit, nor cut off by a gap.
MarksSpared == {1, 2} \cap Places = {}
\* Decoding changes a command where it begins and where it ends; and its opcode
\* is not the high byte of its length.
BodiesTell ==
  \A m \in Commands :
     /\ \A i \in {1, 2, Len(m)} : Key[m[i]] # m[i]
     /\ m[1] # Len(m) \div 256

\* The bytes of the burst that is arriving, and those of them that no read can
\* have decoded
Burst == SubSeq(buf, 1, fill) \o up
Fresh == IF newData THEN Burst ELSE up

\* At p there is the sum byte of m, with room for m in front of it; and the head of
\* m ends in front of p.
SumAt(s, p, m) == Teller[s[p]] = m /\ p > 4 + Len(m)
HeadTo(s, p, m) ==
  /\ p > 4 + Len(m) /\ MarkAt(s, p - 4 - Len(m))
  /\ SubSeq(s, p - 4 - Len(m), p - 1) = HeadOf(m)

\* Claims on what was sent, each with a place: what has been executed; what
\* a read may yet find complete behind the burst that is arriving, in the one that is
\* flagged; and what the burst that is arriving brings, a head or a sum that
\* has not been decoded with its body.
Executed == {<<k - Len(ran) - BufSize, ran[k]>> : k \in DOMAIN ran}
Flagged ==
  {x \in (IF newData THEN fill + 2 - BufSize .. rxlen - 1 - BufSize ELSE {}) \X Commands :
     LET q == x[1] + BufSize
         m == x[2]
     IN  SumAt(buf, q, m) /\ buf[q - 1] = Key[m[Len(m)]]}
Arriving ==
  LET w == Burst
      old == IF newData THEN 0 ELSE fill
  IN  {x \in (1 .. Len(w)) \X Commands :
         SumAt(w, x[1], x[2]) /\ SubSeq(w, x[1] - Len(x[2]), x[1] - 1) # x[2]}
      \cup
      {x \in (old + 7 .. Len(w) + 1) \X Commands :
         HeadTo(w, x[1], x[2]) /\ x[1] > old + 4 + Len(x[2])}
Claims == Executed \cup Flagged \cup Arriving

\* Each claim has a command of t of its own, in the order of their places.
Owed(C, t) ==
  LET keys == {x[1] : x \in C}
  IN  \E at \in [keys -> DOMAIN t] :
        /\ \A j, k \in keys : j < k => at[j] < at[k]
        /\ \A x \in C : t[at[x[1]]] = x[2]

\* Bytes as the line brings them: a sum has a mark in front of it, its body is not
\* decoded, and the head it belongs to is its own.
Sound(s) ==
  \A q \in 1 .. Len(s) : \A m \in Commands :
     SumAt(s, q, m) =>
       /\ \E j \in q - 4 - Len(m) .. q - 2 : MarkAt(s, j)
       /\ SubSeq(s, q - Len(m), q - 1) # m
       /\ \A d \in Commands : HeadTo(s, q, d) => d = m

\* They do not end with a head short of its last byte.
Settled(s) ==
  \A i \in 1 .. Len(s) - 4 : MarkAt(s, i) =>
    \A m \in Commands : SubSeq(s, i, Len(s)) # Front(HeadOf(m))

\* Every command that was executed, or that recv_new_data may yet execute, is one
\* that was sent, in that order and no other's: also those in the bytes behind the
\* burst that is arriving, and those that a burst shows only in part.
Traced ==
  /\ Owed(Claims, sent)
  /\ Sound(Fresh)
  /\ open => Settled(Fresh)
=============================================================================
