----------------------------- MODULE SerialLine -----------------------------
(***************************************************************************)
(* The serial line, byte by byte: what UartUpdate takes for a wire that    *)
(* carries whole frames.  Downwards uart_irq and enc_cmd_data cut commands *)
(* out of one DMA buffer by the silences of the line; upwards on_readReady *)
(* cuts replies out of a stream that arrives in pieces of any size, and a  *)
(* queue hands them to the update thread.  Sessions open and close at any  *)
(* time, also in the middle of a reply.                                    *)
(***************************************************************************)
EXTENDS Integers, Sequences, FiniteSets, SequencesExt

CONSTANTS
  Commands,     \* what the tool asks: plain bodies, sequences of bytes
  Reboot,       \* the command that is not answered
  Answer,       \* the plain body of the reply to a command
  Key,          \* what ^= with the key makes of a byte
  CRC(_),       \* the two bytes of the CRC-16 of a sequence
  Noise,        \* what a byte may turn into
  BufSize,      \* UT_UP_BUF_SIZE
  Places,       \* the positions where a frame may be hit or cut by a gap
  MaxSent, MaxSessions, MaxMishaps   \* bounds of the instance

Byte == 0 .. 255

Messages == Commands \cup Range(Answer)

None == <<>>

----------------------------------------------------------------------------
(* Frames *)

\* enc_dec_data, decodeCommand
Coded(s) == [i \in DOMAIN s |-> Key[s[i]]]

\* makeCommand, set_remain_and_upgrade_rsp: what the checksum is made of
HeadOf(body) == <<170, 85, Len(body) % 256, Len(body) \div 256>> \o Coded(body)
Frame(body) == HeadOf(body) \o CRC(HeadOf(body))

U16(b, i) == b[i] + 256 * b[i + 1]
MarkAt(b, i) == b[i] = 170 /\ b[i + 1] = 85

\* The checksum that follows the n bytes of the frame at i
CrcFits(b, i, n) ==
  CRC(SubSeq(b, i, i + 3 + n)) = <<b[i + 4 + n], b[i + 5 + n]>>

ASSUME KeyAssumption ==
  Key \in [Byte -> Byte] /\ \A b \in Byte : Key[Key[b]] = b
\* Opcode and status begin every body, 16 bits are its length.
ASSUME MessageAssumption ==
  /\ Reboot \in Commands /\ DOMAIN Answer = Commands \ {Reboot}
  /\ \A m \in Messages : m \in Seq(Byte) /\ 2 <= Len(m) /\ Len(m) < 256 * 256
ASSUME SumAssumption ==
  \A m \in Messages : CRC(HeadOf(m)) \in Byte \X Byte
ASSUME LineAssumption ==
  BufSize \in Nat /\ Noise \subseteq Byte

----------------------------------------------------------------------------
(* State *)

VARIABLES
  up,       \* bytes on the way to the device
  buf,      \* ut_up_buf
  fill,     \* bytes the DMA has put there since the last silence
  rxlen,    \* ut_up_rxlen
  newData,  \* new_data
  exec,     \* << >>, or <<the command of g_ops>>
  down,     \* bytes on the way to the tool, and those no readAll has taken
  open,     \* a session has the port
  acc,      \* m_alreadyReadBuffer
  queue,    \* m_rawRemoteCmdQueue, the oldest first
  waiting,  \* the update thread is in poll()
  fake,     \* on_writeBuffer owes the made-up reply
  \* history
  sent, ran,      \* the commands asked, and those executed
  replied, taken, \* the answers given, and those poll() returned in this session
  due,            \* the answers given undamaged during this session
  clean,          \* the last command is whole, in one piece, in a burst of its
                  \* own, and no other was decoded where it arrived
  deaf,           \* a reply that misleads was sent
  sessions, mishaps

device == <<buf, fill, rxlen, newData, exec>>
host == <<open, acc, queue, waiting, fake>>
history == <<sent, ran, replied, taken, due, clean, deaf, sessions, mishaps>>
vars == <<up, device, down, host, history>>

----------------------------------------------------------------------------
(* The line *)

\* What the line makes of a frame: the bytes, whether it is as it was, and
\* whether it misleads: its length was hit, or its last byte lost where the
\* first byte of the next mark stands for it.
Line(f) ==
  {[bytes |-> f, whole |-> TRUE, misleads |-> FALSE]} \cup
  IF mishaps = MaxMishaps THEN {} ELSE
     {[bytes |-> None, whole |-> FALSE, misleads |-> FALSE]} \cup
     {[bytes |-> RemoveAt(f, i), whole |-> FALSE,
       misleads |-> i \in {3, 4} \/ (i = Len(f) /\ f[i] = 170)] : i \in DOMAIN f \cap Places} \cup
     {[bytes |-> [f EXCEPT ![i] = x], whole |-> FALSE, misleads |-> i \in {3, 4}] :
        i \in DOMAIN f \cap Places, x \in Noise}

MishapsBy(m) == mishaps' = IF m.whole THEN mishaps ELSE mishaps + 1

----------------------------------------------------------------------------
(* The device *)

\* The DMA writes upwards from RXSADR.
Arrive ==
  /\ up # <<>> /\ fill < BufSize
  /\ buf' = [buf EXCEPT ![fill + 1] = Head(up)]
  /\ fill' = fill + 1 /\ up' = Tail(up)
  /\ UNCHANGED <<rxlen, newData, exec, down, host, history>>

\* uart0_irq, 1 ms after the last byte: of a frame, or before a gap in it
Silence ==
  /\ fill > 0
  /\ \/ up = <<>> /\ UNCHANGED <<mishaps, clean>>
     \/ /\ up # <<>> /\ fill \in Places /\ mishaps < MaxMishaps
        /\ mishaps' = mishaps + 1 /\ clean' = FALSE
  /\ rxlen' = fill
  /\ newData' = (newData \/ fill >= 4)
  /\ fill' = 0
  /\ UNCHANGED <<up, buf, exec, down, host>>
  /\ UNCHANGED <<sent, ran, replied, taken, due, deaf, sessions>>

\* Mutant: i < len - 8.
Marks_OneShort(b) == {i \in 1 .. Len(b) - 8 : MarkAt(b, i)}

Marks(b) == {i \in 1 .. Len(b) - 7 : MarkAt(b, i)}
FirstMark(b) == CHOOSE i \in Marks(b) : \A j \in Marks(b) : i <= j

\* Mutant: the checksum is not compared.
Accepted_Unchecked(b) ==
  /\ Marks(b) # {}
  /\ LET i == FirstMark(b) IN i + 5 + U16(b, i + 2) <= Len(b)

\* enc_cmd_data: the first mark decides, whatever follows it.
Accepted(b) ==
  /\ Marks(b) # {}
  /\ LET i == FirstMark(b)
         n == U16(b, i + 2)
     IN  i + 5 + n <= Len(b) /\ CrcFits(b, i, n)

\* Where the body lies
Body(b) ==
  LET i == FirstMark(b) IN i + 4 .. i + 3 + U16(b, i + 2)

\* Mutant: the checksum is taken for a part of the body.
Command_WithCrc(b) ==
  LET i == FirstMark(b) IN Coded(SubSeq(b, i + 4, i + 5 + U16(b, i + 2)))

Command(b) ==
  LET i == FirstMark(b) IN Coded(SubSeq(b, i + 4, i + 3 + U16(b, i + 2)))

\* Mutant: a copy is decoded, the buffer keeps the frame.
Left_Copied(b) == buf

\* enc_dec_data(buf + i + 4, cmd_len): what is left in the buffer is no frame.
Left(b) ==
  LET at == Body(b) IN [i \in DOMAIN buf |-> IF i \in at THEN Key[buf[i]] ELSE buf[i]]

\* recv_new_data.  Should a late command be read while the next one is arriving
\* over it, with the same bytes so far, then decoding the one spoils the other.
Recv ==
  /\ exec = None /\ newData
  /\ newData' = FALSE
  /\ LET b == SubSeq(buf, 1, rxlen)
     IN  \/ ~Accepted(b) /\ UNCHANGED <<buf, exec, ran, clean>>
         \/ /\ Accepted(b)
            /\ buf' = Left(b) /\ exec' = <<Command(b)>>
            /\ ran' = ran \o exec'
            /\ clean' = (clean /\ fill = 0)
  /\ UNCHANGED <<up, fill, rxlen, down, host>>
  /\ UNCHANGED <<sent, replied, taken, due, deaf, sessions, mishaps>>

\* The handler ends with upgrade_rsp, which waits until the bytes are out.
Reply ==
  /\ exec \notin {None, <<Reboot>>}
  /\ LET a == Answer[exec[1]]
     IN  \E m \in Line(Frame(a)) :
           /\ down' = down \o m.bytes
           /\ deaf' = (deaf \/ m.misleads)
           /\ due' = IF open /\ m.whole THEN Append(due, a) ELSE due
           /\ replied' = Append(replied, a)
           /\ MishapsBy(m)
  /\ exec' = None
  /\ UNCHANGED <<up, buf, fill, rxlen, newData, host>>
  /\ UNCHANGED <<sent, ran, taken, clean, sessions>>

\* REBOOT, in the build where it resets the chip
Reset ==
  /\ exec = <<Reboot>>
  /\ exec' = None /\ fill' = 0 /\ rxlen' = 0 /\ newData' = FALSE
  /\ clean' = (clean /\ fill = 0 /\ up = <<>> /\ ~newData)
  /\ UNCHANGED <<up, buf, down, host>>
  /\ UNCHANGED <<sent, ran, replied, taken, due, deaf, sessions, mishaps>>

----------------------------------------------------------------------------
(* The serial thread *)

\* removeUntilFindHead: without a mark the last two bytes stay.
FromMark(b) ==
  LET at == {i \in 1 .. Len(b) - 2 : MarkAt(b, i)}
      i  == IF at # {} THEN CHOOSE j \in at : \A k \in at : j <= k
            ELSE IF Len(b) > 2 THEN Len(b) - 1 ELSE 1
  IN  SubSeq(b, i, Len(b))

\* Mutant: a frame with a bad checksum is skipped as long as it claims to be.
AfterBad_WholeFrame(b) == SubSeq(b, U16(b, 3) + 7, Len(b))

\* "we should remove and find next packet": mid(2)
AfterBad(b) == SubSeq(b, 3, Len(b))

\* The condition of the loop of on_readReady, and its first return
Enough(b) == Len(b) > 6 /\ Len(b) >= U16(b, 3) + 6

\* Mutant: the checksum is not compared.
Round_Unchecked(p) ==
  LET b == p[1]
      n == U16(b, 3)
  IN  IF ~Enough(b) THEN p
      ELSE <<FromMark(SubSeq(b, n + 7, Len(b))), Append(p[2], SubSeq(b, 5, n + 4))>>

\* One round of it: p is what is left and the packets found.
Round(p) ==
  LET b == p[1]
      n == U16(b, 3)
  IN  IF ~Enough(b) THEN p
      ELSE IF CrcFits(b, 1, n)
        THEN <<FromMark(SubSeq(b, n + 7, Len(b))), Append(p[2], SubSeq(b, 5, n + 4))>>
        ELSE <<FromMark(AfterBad(b)), p[2]>>

\* The loop: a round takes two bytes or more, or is the last.
Packets(b) ==
  LET after[k \in 0 .. Len(b)] == IF k = 0 THEN <<b, <<>>>> ELSE Round(after[k - 1])
  IN  after[Len(b)]

\* What on_readReady makes of its buffer
Parsed(b) == IF Len(b) < 4 THEN <<b, <<>>>> ELSE Packets(FromMark(b))

\* on_readReady, with the bytes that have arrived by then
ReadReady ==
  /\ open
  /\ \E k \in 1 .. Len(down) :
       LET b == acc \o SubSeq(down, 1, k)
           p == Parsed(b)
       IN  /\ acc' = p[1] /\ queue' = queue \o p[2]
           /\ down' = SubSeq(down, k + 1, Len(down))
  /\ UNCHANGED <<up, device, open, waiting, fake, history>>

\* The end of on_writeBuffer for REBOOT
FakeReply ==
  /\ fake /\ up = <<>>
  /\ fake' = FALSE /\ queue' = Append(queue, <<>>)
  /\ UNCHANGED <<up, device, down, open, acc, waiting, history>>

----------------------------------------------------------------------------
(* The update thread *)

\* on_openRequest: readAll drops the bytes that have arrived; those behind them
\* are still to come.  A user takes longer than a silence.
Open ==
  /\ ~open /\ sessions < MaxSessions
  /\ up = <<>> /\ fill = 0
  /\ open' = TRUE /\ sessions' = sessions + 1
  /\ \E k \in 0 .. Len(down) : down' = SubSeq(down, k + 1, Len(down))
  /\ deaf' = (deaf /\ down' # <<>>)
  /\ due' = <<>> /\ taken' = <<>>
  /\ UNCHANGED <<up, device, acc, queue, waiting, fake>>
  /\ UNCHANGED <<sent, ran, replied, clean, mishaps>>

\* infoWriteBuffer: on_writeBuffer has written the one before.
Ask ==
  /\ open /\ ~waiting /\ ~fake /\ up = <<>>
  /\ Len(sent) < MaxSent
  /\ \E c \in Commands : \E m \in Line(Frame(c)) :
       /\ up' = m.bytes
       /\ sent' = Append(sent, c)
       /\ clean' = (m.whole /\ fill = 0)
       /\ fake' = (c = Reboot)
       /\ MishapsBy(m)
  /\ waiting' = TRUE
  /\ UNCHANGED <<device, down, open, acc, queue>>
  /\ UNCHANGED <<ran, replied, taken, due, deaf, sessions>>

\* Mutant: the queue returns the newest first.
Poll_Newest ==
  /\ waiting /\ queue # <<>>
  /\ waiting' = FALSE
  /\ taken' = Append(taken, Coded(Last(queue)))
  /\ queue' = Front(queue)
  /\ UNCHANGED <<up, device, down, open, acc, fake>>
  /\ UNCHANGED <<sent, ran, replied, due, clean, deaf, sessions, mishaps>>

\* waitCommand: poll (push_front, then back) and decodeCommand
Poll ==
  /\ waiting /\ queue # <<>>
  /\ waiting' = FALSE
  /\ taken' = Append(taken, Coded(Head(queue)))
  /\ queue' = Tail(queue)
  /\ UNCHANGED <<up, device, down, open, acc, fake>>
  /\ UNCHANGED <<sent, ran, replied, due, clean, deaf, sessions, mishaps>>

\* The session ends: an answer it does not like, 8 s, or the tool is killed.
\* Thread, queue and buffer go; the frame being written may be cut off.
Close ==
  /\ open /\ open' = FALSE
  /\ acc' = <<>> /\ queue' = <<>> /\ waiting' = FALSE /\ fake' = FALSE
  /\ up' \in {up, <<>>}
  /\ clean' = (clean /\ up' = up)
  /\ taken' = <<>> /\ due' = <<>>
  /\ UNCHANGED <<device, down, sent, ran, replied, deaf, sessions, mishaps>>

----------------------------------------------------------------------------

Init ==
  /\ up = <<>> /\ down = <<>>
  /\ buf = [i \in 1 .. BufSize |-> 0]
  /\ fill = 0 /\ rxlen = 0 /\ newData = FALSE /\ exec = None
  /\ open = FALSE /\ acc = <<>> /\ queue = <<>> /\ waiting = FALSE /\ fake = FALSE
  /\ sent = <<>> /\ ran = <<>> /\ replied = <<>> /\ taken = <<>> /\ due = <<>>
  /\ clean = FALSE /\ deaf = FALSE
  /\ sessions = 0 /\ mishaps = 0

Next ==
  \/ Arrive \/ Silence \/ Recv \/ Reply \/ Reset
  \/ ReadReady \/ FakeReply
  \/ Open \/ Ask \/ Poll \/ Close

Spec == Init /\ [][Next]_vars

----------------------------------------------------------------------------
(* Properties *)

\* Type invariant; what the loop executes is a command, never a piece of one.
TypeOK ==
  /\ buf \in [1 .. BufSize -> Byte] /\ fill \in 0 .. BufSize
  /\ rxlen \in 0 .. BufSize /\ newData \in BOOLEAN
  /\ exec = None \/ exec[1] \in Commands
  /\ Range(up) \cup Range(down) \cup Range(acc) \subseteq Byte
  /\ {open, waiting, fake, clean, deaf} \subseteq BOOLEAN

\* The elements of s at the places I are in t, in their order.
Embeds(s, I, t) ==
  \E at \in [I -> DOMAIN t] :
     /\ \A i \in I : s[i] = t[at[i]]
     /\ \A i, j \in I : i < j => at[i] < at[j]

\* s results from t by leaving out elements, or does so but for its empty ones.
Within(s, t) == Embeds(s, DOMAIN s, t)
Full(s) == {i \in DOMAIN s : s[i] # <<>>}
Given(s, t) == Embeds(s, Full(s), t)

\* However frames are cut by gaps, run into each other or are overwritten before
\* they are read, and wherever they are damaged behind their mark, short of making
\* the head of one command that of another: what the device executes are commands
\* the tool sent, in their order, each at most once.  A command that was read
\* before its silence came is found once more, and only the decoding in place
\* keeps it from running again.
RunsWereSent == Within(ran, sent)

\* A command that arrives clean is executed in the end, whatever older bytes,
\* fragments or commands lie in the buffer.
AtRest == up = <<>> /\ fill = 0 /\ ~newData /\ exec = None
HeardLast == AtRest /\ clean => ran # <<>> /\ Last(ran) = Last(sent)

\* What poll() returns in a session, but for the made-up reply, are answers the
\* device gave, in their order, each at most once.
Decoded(q) == [i \in DOMAIN q |-> Coded(q[i])]
Seen == taken \o Decoded(queue)
AnswersWereGiven == Given(Seen, replied)

\* A reply that starts during the session and arrives undamaged is found, although
\* the stream may begin in the middle of a late reply and although other
\* replies are damaged: unless one of them misleads the parser.
NothingSwallowed == open /\ down = <<>> /\ ~deaf => Within(due, Seen)
=============================================================================
