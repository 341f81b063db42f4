---------------------------- MODULE MCHidUpdate ----------------------------
(* Instances of HidUpdate for TLC: three units of two chunks. *)
EXTENDS HidInvariants

CONSTANTS ha, hb, p1, p2, q1, free, torn

MCContent == {ha, hb, p1, p2, q1, free, torn}
MCHeads == {ha, hb}
MCUnits == [1 .. 2 -> MCContent]
MCCrc   == [u \in MCUnits |-> u]

\* Image A and image B differ in both chunks of the first unit and in unit 1.
ImageA == [len |-> 3, unit |-> [b \in 0 .. 2 |-> <<<<ha, p1>>, <<p1, q1>>, <<q1, p2>>>>[b + 1]]]
ImageB == [len |-> 3, unit |-> [b \in 0 .. 2 |-> <<<<hb, p2>>, <<p2, q1>>, <<q1, p2>>>>[b + 1]]]
\* A file of one unit
ImageShort == [len |-> 1, unit |-> [b \in 0 .. 2 |-> <<<<hb, q1>>, <<free, free>>, <<free, free>>>>[b + 1]]]

MCImages == {ImageA, ImageB, ImageShort}

\* A file whose units 1 and 2 are the same, like two units of padding, and one that
\* differs from it in unit 2
ImagePadded == [len |-> 3, unit |-> [b \in 0 .. 2 |-> <<<<ha, p1>>, <<q1, q1>>, <<q1, q1>>>>[b + 1]]]
ImageFilled == [len |-> 3, unit |-> [b \in 0 .. 2 |-> <<<<ha, p1>>, <<q1, q1>>, <<p2, q1>>>>[b + 1]]]
MCPadded == {ImagePadded, ImageFilled}

\* These, and files with other heads, with units of one chunk
MCSmall == [1 .. 1 -> MCContent]
Shrunk(img) ==
  [len |-> img.len, unit |-> [b \in 0 .. 2 |-> <<img.unit[b][1]>>]]
MCShrunk == {Shrunk(img) : img \in MCPadded \cup {ImageB, ImageShort}}
SmallCrc == [u \in MCSmall |-> u]
OneChunk == <<1>>

\* main.cpp of win-usb_hid: the first 32 bytes last; jl_bootloader.cpp: in order
WindowsOrder == <<2, 1>>
AndroidOrder == <<1, 2>>
=============================================================================
