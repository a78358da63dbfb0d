---------------------------- MODULE MCSafeRemoval ----------------------------
(* SafeRemoval for TLC: d1 and d2 cannot be told apart by serial and size,   *)
(* d3 can.                                                                   *)
EXTENDS SafeRemoval, TLC

CONSTANTS d1, d2, d3, none

MCSerial == (d1 :> "A") @@ (d2 :> "A") @@ (d3 :> "B")
MCSize == [d \in Drives |-> 2]
=============================================================================
