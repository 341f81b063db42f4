--------------------------- MODULE MCUartRecovery ---------------------------
(* An instance of UartRecovery for TLC: two units, one image. *)
EXTENDS UartRecovery

CONSTANTS ha, p1, free, torn

MCContent == {ha, p1, free, torn}
MCImages  == {[len |-> 2, unit |-> [b \in 0 .. 1 |-> <<ha, p1>>[b + 1]]]}
MCCrc     == [c \in MCContent |-> c]
=============================================================================
