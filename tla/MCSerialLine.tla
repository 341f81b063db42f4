---------------------------- MODULE MCSerialLine ----------------------------
(* An instance of SerialLine for TLC. *)
EXTENDS SerialInvariants

\* As on the wire: a ends with the first byte of a mark, the answer to b begins
\* with one, a and b have bytes in common.
CmdA == <<254, 85>>
CmdB == <<254, 253>>
CmdReboot == <<252, 253>>
MCCommands == {CmdA, CmdB, CmdReboot}
MCAnswer == [c \in {CmdA, CmdB} |-> IF c = CmdA THEN <<254, 85>> ELSE <<85, 254, 253>>]

MCKey == [b \in 0 .. 255 |-> 255 - b]

\* The bytes of the sum of each message, one ending like a mark begins.  The sum
\* of anything else is that of no message: the line is taken not to
\* produce one by accident.
Sums ==
  [h \in {HeadOf(m) : m \in Messages} |->
     LET m == Coded(SubSeq(h, 5, Len(h))) IN <<(m[1] + 2 * m[2]) % 199, 170>>]
MCCRC(s) == IF s \in DOMAIN Sums THEN Sums[s] ELSE <<256, 256>>

\* What the theorems take the checksums for is so in this instance.
ASSUME SumsApartHere == SumsApart
ASSUME MarksApartHere == MarksApart
ASSUME HeadsApartHere == HeadsApart
ASSUME MarksSparedHere == MarksSpared
ASSUME BodiesTellHere == BodiesTell
=============================================================================
