----------------------------- MODULE WriteResult -----------------------------
(***************************************************************************)
(* What the user is told when a write operation has ended: the GUI's result*)
(* view (the marks of the three steps, the message, the action offered     *)
(* next) and the statement the command line prints about the target.       *)
(*                                                                         *)
(* Both are functions of the outcome alone.  Whether they are true is a    *)
(* question about everything that led to it, which is why this module      *)
(* stands on the whole operation.                                          *)
(***************************************************************************)
EXTENDS WriteOperation

Ended(kind, stages) == outcome.kind = kind /\ outcome.stage \in stages

\* Mistaken variant: a sync that panicked is taken for one that returned.
EndingOfPanicAsVerify ==
  CASE Ended("Completed", {"Verified"}) -> "Verified"
    [] Ended("Completed", {"Skipped"}) -> "WrittenWithoutVerify"
    [] Ended("Cancelled", {"Preflight", "BeforeConfirmation"}) -> "CancelledBeforeWrite"
    [] Ended("Cancelled", {"Confirmation"}) -> "ConfirmationDeclined"
    [] Ended("Cancelled", {"Write"}) -> "CancelledDuringWrite"
    [] Ended("Cancelled", {"AfterSync", "BeforeVerify", "Verify"}) -> "CancelledDuringVerify"
    [] Ended("Failed", {"Target", "Image", "Confirmation"}) -> "NotPrepared"
    [] Ended("Failed", {"WriteGate", "WriteDeviceRejected", "ReaderOpen"}) -> "NotStarted"
    [] Ended("Failed", {"Write", "Sync"}) -> "WriteFailed"
    [] OTHER -> "VerifyFailed"

\* ending and failure: where the operation stopped, as the GUI groups it.
\* NotPrepared is the code's NotStarted at Step::Prepare.
Ending ==
  CASE Ended("Completed", {"Verified"}) -> "Verified"
    [] Ended("Completed", {"Skipped"}) -> "WrittenWithoutVerify"
    [] Ended("Cancelled", {"Preflight", "BeforeConfirmation"}) -> "CancelledBeforeWrite"
    [] Ended("Cancelled", {"Confirmation"}) -> "ConfirmationDeclined"
    [] Ended("Cancelled", {"Write"}) -> "CancelledDuringWrite"
    [] Ended("Cancelled", {"AfterSync", "BeforeVerify", "Verify"}) -> "CancelledDuringVerify"
    [] Ended("Failed", {"Target", "Image", "Confirmation"}) -> "NotPrepared"
    [] Ended("Failed", {"WriteGate", "WriteDeviceRejected", "ReaderOpen"}) -> "NotStarted"
    [] Ended("Failed", {"Write", "Sync", "SyncWorkerPanicked"}) -> "WriteFailed"
    [] Ended("Failed", {"TestPauseEnded", "VerifyTarget", "VerifyStart", "Verify"}) -> "VerifyFailed"

\* How the step that was never reached is shown.
VerifyWaiting == IF request.mode = "None" THEN "Skipped" ELSE "Waiting"

\* Ending::marks.
Marked(prepare, write, verify) == [prepare |-> prepare, write |-> write, verify |-> verify]

Marks ==
  CASE Ending = "Verified" -> Marked("Done", "Done", "Done")
    [] Ending = "WrittenWithoutVerify" -> Marked("Done", "Done", "Skipped")
    [] Ending \in {"CancelledBeforeWrite", "ConfirmationDeclined"} ->
         Marked("Cancelled", "Waiting", VerifyWaiting)
    [] Ending = "CancelledDuringWrite" -> Marked("Done", "Cancelled", VerifyWaiting)
    [] Ending = "CancelledDuringVerify" -> Marked("Done", "Done", "Cancelled")
    [] Ending = "NotPrepared" -> Marked("Failed", "Waiting", VerifyWaiting)
    [] Ending \in {"NotStarted", "WriteFailed"} -> Marked("Done", "Failed", VerifyWaiting)
    [] Ending = "VerifyFailed" -> Marked("Done", "Done", "Failed")

\* result_message: what it says of the drive now.  A declined confirmation has
\* no result view; the window goes back as if nothing had been asked.
Message ==
  CASE Ending = "Verified" -> "Ready"
    [] Ending \in {"WrittenWithoutVerify", "CancelledDuringVerify", "VerifyFailed"} -> "Written"
    [] Ending \in {"CancelledDuringWrite", "WriteFailed"} ->
         IF outcome.modified THEN "Incomplete" ELSE "NothingWritten"
    [] Ending \in {"CancelledBeforeWrite", "ConfirmationDeclined", "NotPrepared", "NotStarted"} ->
         "NothingWritten"

\* ResultCase::next: the action besides Safe Removal and "Done".
NextAction ==
  CASE Ending \in {"Verified", "WrittenWithoutVerify"} -> "WriteAnother"
    [] Ending \in {"CancelledDuringVerify", "VerifyFailed"} -> "WriteAgain"
    [] Ending \in {"CancelledDuringWrite", "WriteFailed"} -> "Retry"
    [] Ending \in {"CancelledBeforeWrite", "ConfirmationDeclined", "NotPrepared", "NotStarted"} ->
         "BackToMain"

\* print_write_test_outcome: what the command line says of the drive.  After a
\* refused gate, a failed write or a failed sync it prints the error alone.
Printed ==
  CASE Ended("Completed", Stages) -> "Completed"
    [] \/ Ended("Cancelled", {"Preflight", "BeforeConfirmation", "Confirmation"})
       \/ Ended("Failed", {"Image", "Confirmation", "ReaderOpen"}) -> "NothingWritten"
    [] Ended("Cancelled", {"Write"}) ->
         IF outcome.modified \/ pos > 0 THEN "Incomplete" ELSE "NothingWritten"
    [] \/ Ended("Cancelled", {"AfterSync", "BeforeVerify", "Verify"})
       \/ Ended("Failed", {"TestPauseEnded", "VerifyTarget", "VerifyStart", "Verify"}) -> "Written"
    [] OTHER -> "Error"

-----------------------------------------------------------------------------
(* Properties.                                                             *)

ImageIsStored == \A i \in Chunks : written[i] = "new" /\ media[i] # "old"

WriteShownAsDone ==
  \/ Marks.write = "Done"
  \/ NextAction = "WriteAnother"
  \/ Printed \in {"Written", "Completed"}

\* What the user is told of the drive is true of it.  "Nothing was written" and
\* the way back to the main view are kept for a drive no byte has reached; a
\* write shown as done has stored the whole image, and so has one after which the
\* image is offered for another drive; a Verify shown as done was asked for, and
\* found the image in everything it compared; and the preparation is shown as
\* done exactly when the user confirmed.  (ending, marks, result_message and
\* next, and the command line's messages, over every way run_on can end.)
ResultIsTrue ==
  pc = "done" =>
    /\ "NothingWritten" \in {Message, Printed} \/ NextAction = "BackToMain" => touched = {}
    /\ Marks.write = "Waiting" => touched = {}
    /\ WriteShownAsDone => ImageIsStored
    /\ Message = "Ready" \/ Marks.verify = "Done" =>
         /\ request.mode # "None"
         /\ \A i \in Compared : media[i] = "new" \/ i \in overwritten
    /\ Marks.prepare = "Done" <=> confirmed

\* A Verify that was not requested is shown as "None", whatever the operation
\* came to.  (result_step, which says so of Mark::Skipped.)
UnrequestedIsNone ==
  pc = "done" /\ request.mode = "None" => Marks.verify = "Skipped"
=============================================================================
