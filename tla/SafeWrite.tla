------------------------------ MODULE SafeWrite ------------------------------
(***************************************************************************)
(* What a write operation promises, whatever the device, the image file and*)
(* the user do while it runs: nothing reaches the target before the user's *)
(* consent, the report it ends with is the only one, and the report is     *)
(* true of the target.                                                     *)
(***************************************************************************)

VARIABLES consent,   \* the human confirmation was given
          target,    \* "untouched"; "partial"; or "replaced", with nothing left on it of what
                     \* it held before where the image goes
          report     \* "none" until the operation has ended

contractVars == <<consent, target, report>>

ContractInit ==
  /\ consent = FALSE
  /\ target = "untouched"
  /\ report = "none"

\* The user confirms, before anything is written.
GiveConsent ==
  /\ report = "none" /\ target = "untouched"
  /\ consent' = TRUE
  /\ UNCHANGED <<target, report>>

\* What the operation may say of a target in a given condition.  It may always
\* call the target modified; it may call it untouched only when it is, and the
\* operation completed only when nothing is left of what was there before.  What is
\* there instead is for the operation's own properties to say.
MayReport(condition) ==
  CASE condition = "untouched" -> {"unmodified", "modified"}
    [] condition = "partial"   -> {"modified"}
    [] condition = "replaced"  -> {"modified", "completed"}

\* The first byte is written, or the last; the same step may fail and end it.
Progress ==
  /\ report = "none" /\ consent
  /\ \/ target = "untouched" /\ target' = "partial"
     \/ target = "partial" /\ target' = "replaced"
  /\ report' \in {"none"} \cup MayReport(target')
  /\ UNCHANGED consent

Report ==
  /\ report = "none"
  /\ report' \in MayReport(target)
  /\ UNCHANGED <<consent, target>>

ContractNext == GiveConsent \/ Progress \/ Report

ContractSpec == ContractInit /\ [][ContractNext]_contractVars
=============================================================================
