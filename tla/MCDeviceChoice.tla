--------------------------- MODULE MCDeviceChoice ---------------------------
(* DeviceChoice for TLC: two drives of different sizes and one that reports  *)
(* no serial number.                                                         *)
EXTENDS DeviceChoice, TLC

CONSTANTS d1, d2, d3, f1, f2, none

MCSerial == (d1 :> "A") @@ (d2 :> "B") @@ (d3 :> none)
MCCapacity == [d \in Drives |-> IF d = d1 THEN 1 ELSE 2]
=============================================================================
