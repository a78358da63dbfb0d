--------------------------- MODULE OperationCourse ---------------------------
(***************************************************************************)
(* The course of a write operation, as those who drive it see it: which    *)
(* part of run_on follows which, where a cancellation is looked at, and    *)
(* where and how each part may end (orchestration::operation, outcome).    *)
(* WriteOperation has the steps of each part and what they do to the       *)
(* device, WriteWorker the threads around them; both keep to this course.  *)
(***************************************************************************)

VARIABLES place,   \* the part of run_on, or "over"
          cancel,  \* CancelHandle
          ending   \* OperationOutcome

courseVars == <<place, cancel, ending>>

Following == [prepare |-> "confirm", confirm |-> "authorize", authorize |-> "write",
              write |-> "sync", sync |-> "verify"]
Parts == DOMAIN Following \cup {"verify"}

\* OperationError, CancelledAt: where each part may fail or be cancelled.  A prompt
\* whose input fails is told as one whose input is closed.
Failures ==
  [prepare |-> {"Target", "Image"}, confirm |-> {"Confirmation", "ConfirmationInputClosed"},
   authorize |-> {"WriteGate", "WriteDeviceRejected", "ImageBinding", "ReaderOpen"},
   write |-> {"Write"}, sync |-> {"Sync", "SyncWorkerPanicked"},
   verify |-> {"VerifyNotStarted", "Verify"}]
CancelPoints ==
  [prepare |-> {"Preflight", "BeforeConfirmation"}, confirm |-> {"Confirmation"},
   authorize |-> {}, write |-> {"Write"}, sync |-> {"AfterSync"},
   verify |-> {"BeforeVerify", "Verify"}]

\* The parts that are not left for the next one once a cancellation was requested.
Polling == {"prepare", "confirm", "sync"}

NoEnding == [kind |-> "Running", stage |-> "none"]

CourseInit == place = "prepare" /\ cancel = FALSE /\ ending = NoEnding

Proceed ==
  /\ place \in DOMAIN Following
  /\ place \in Polling => ~cancel
  /\ place' = Following[place]
  /\ UNCHANGED <<cancel, ending>>

EndWith(kind, stage) ==
  /\ place' = "over" /\ ending' = [kind |-> kind, stage |-> stage]
  /\ UNCHANGED cancel

\* Without Verify an operation is complete after the sync, unless it was cancelled.
Complete ==
  \/ place = "sync" /\ ~cancel /\ EndWith("Completed", "Skipped")
  \/ place = "verify" /\ EndWith("Completed", "Verified")

FailAt == place \in Parts /\ \E stage \in Failures[place] : EndWith("Failed", stage)

\* By the handle; or the user declines.
CancelAt ==
  /\ place \in Parts /\ (cancel \/ place = "confirm")
  /\ \E stage \in CancelPoints[place] : EndWith("Cancelled", stage)

\* The thread panics, and leaves no outcome.
BreakOff == place \in Parts /\ place' = "over" /\ UNCHANGED <<cancel, ending>>

AskToCancel == cancel' = TRUE /\ UNCHANGED <<place, ending>>

CourseNext == Proceed \/ Complete \/ FailAt \/ CancelAt \/ BreakOff \/ AskToCancel

CourseSpec == CourseInit /\ [][CourseNext]_courseVars

-----------------------------------------------------------------------------
(* Properties.                                                             *)

\* The parts in which nothing is opened on the target.
Harmless == {"prepare", "confirm"}

\* A cancellation that was requested before the user's answer was taken never comes
\* too late: the operation ends without having opened the target.
EarlyCancelIsInTime ==
  [](cancel /\ place \in Harmless => [](place \in Harmless \cup {"over"}))

\* An operation that is reported as cancelled was cancelled: by the handle, or by the
\* user's answer.
CancelledForAReason == ending.kind = "Cancelled" => cancel \/ ending.stage = "Confirmation"
=============================================================================
