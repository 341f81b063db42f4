---------------------------- MODULE MCUartUpdate ----------------------------
(* Instances of UartUpdate for TLC. *)
EXTENDS UartInvariants

CONSTANTS ha, hb, hc, p1, p2, q1, free, torn

MCContent == {ha, hb, hc, p1, p2, q1, free, torn}
MCHeads == {ha, hb, hc}

\* Image A and image B differ in the head and in unit 1, and agree in unit 2.
ImageA == [len |-> 3, unit |-> [b \in 0 .. 2 |-> <<ha, p1, q1>>[b + 1]]]
ImageB == [len |-> 3, unit |-> [b \in 0 .. 2 |-> <<hb, p2, q1>>[b + 1]]]

MCImages == {ImageA, ImageB}

\* A file of one unit, and one that ends before the application zone
ImageShort == [len |-> 1, unit |-> [b \in 0 .. 2 |-> <<hc, free, free>>[b + 1]]]
ImageNone  == [len |-> 0, unit |-> [b \in 0 .. 2 |-> free]]
MCFiles    == {ImageA, ImageB, ImageShort, ImageNone}

\* chip_crc16 tells all these contents apart
MCCrc == [c \in MCContent |-> c]

\* ... and one under which p1 and p2, and q1 and a torn unit, collide
MCCollidingCrc ==
  [c \in MCContent |-> CASE c = p2 -> p1 [] c = torn -> q1 [] OTHER -> c]
=============================================================================
