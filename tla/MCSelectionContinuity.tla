----------------------- MODULE MCSelectionContinuity -----------------------
(* SelectionContinuity for TLC: two drives that serial and size tell apart,  *)
(* and one that reports no serial number.                                    *)
EXTENDS SelectionContinuity, TLC

CONSTANTS d1, d2, d3, none

MCSerial == (d1 :> "A") @@ (d2 :> "B") @@ (d3 :> none)
MCSize == [d \in Drives |-> 1]
=============================================================================
