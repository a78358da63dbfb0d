-------------------------- MODULE MCWriteOperation --------------------------
(* Instances of WriteOperation and WriteResult for TLC. *)
EXTENDS WriteResult

CONSTANTS d1, d2, d3, none

\* d1 and d2 are of one model and size; d3 reports no serial number.
MCSerial == [d \in Drives |-> IF d = d1 THEN "s1" ELSE IF d = d2 THEN "s2" ELSE none]
MCSize == [d \in Drives |-> 2]
MCSizeFour == [d \in Drives |-> 4]
=============================================================================
