--------------------------- MODULE MCUbootUpdate ---------------------------
(* An instance of UbootUpdate for TLC: 64 KB are three units, a loader takes *)
(* two, and the application runs over all of the backup.                     *)
EXTENDS UbootUpdate, Sequences

CONSTANTS la, lb, m, ha, p, q, free, torn

MCContent == {la, lb, m, ha, p, q, free, torn}
MCHeads == {ha}

File(units) ==
  [len |-> Len(units), unit |-> [u \in Unit |-> IF u < Len(units) THEN units[u + 1] ELSE free]]

\* The files differ in the first unit of the loader and in the body and the length of
\* the application; the third one ends before the application.
MCImages ==
  {File(<<la, m, ha, p>>), File(<<lb, m, ha, q>>), File(<<la>>)}
=============================================================================
