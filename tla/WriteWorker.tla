----------------------------- MODULE WriteWorker -----------------------------
(***************************************************************************)
(* The write operation on its own thread and the GUI that drives it        *)
(* (orchestration::worker, the GUI's operation and window modules).        *)
(*                                                                         *)
(* Two mpsc channels and an atomic flag connect the threads: `messages`    *)
(* carries events, the confirmation request and the outcome to the UI,     *)
(* `decisions` the user's answer to the worker, `cancel` the cancellation. *)
(* Each side only ever knows what it has received; the UI offers Cancel and*)
(* Approve by what it believes the worker is doing.                        *)
(*                                                                         *)
(* run_on is reduced to its phases; WriteOperation has its steps.  A phase *)
(* announces itself with its first event; the progress events that follow  *)
(* change nothing here.                                                    *)
(***************************************************************************)
EXTENDS Naturals, Sequences

CONSTANT MayLeave   \* the UI may drop its WriteWorker at any time

ASSUME WorkerAssumption == MayLeave \in BOOLEAN

VARIABLES
  \* worker thread
  phase,      \* the phase of run_on, or what follows it
  bound,      \* ChannelObserver::bound: the write has started
  outcome,    \* what run_on returned
  \* shared
  messages,   \* mpsc channel to the UI
  decisions,  \* mpsc channel to the worker
  cancel,     \* CancelHandle
  \* UI thread
  connected,  \* the UI still holds its WriteWorker
  state,      \* WorkerState
  removal,    \* WriteWorker::removal: a reference was received
  activity,   \* Tracker::activity, as the step it belongs to
  requested,  \* Tracker::cancel_requested
  prompt,     \* the confirmation dialog is open
  stopDialog, \* the "stop writing?" dialog is open
  \* what the properties remember
  approval,   \* how the approval that was submitted last came about
  unasked     \* the user cancelled without being asked "stop writing?"

worker == <<phase, bound, outcome>>
channels == <<messages, decisions, cancel>>
handle == <<connected, state, removal>>
view == <<activity, requested, prompt, stopDialog>>
memory == <<approval, unasked>>
vars == <<worker, channels, handle, view, memory>>

Before == {"prepare", "asking", "polling", "authorize"}
Writing == {"write", "sync"}
RunOn == Before \cup Writing \cup {"verify"}
Phases == RunOn \cup {"returned", "ended", "gone"}

Terminal == {"Completed", "Failed", "Cancelled", "Lost"}
States == Terminal \cup {"Started", "Running", "WaitingForConfirmation"}

\* Where an operation may end.
Stages == {"none", "Target", "Image", "Preflight", "BeforeConfirmation", "Confirmation",
           "ConfirmationInputClosed", "WriteGate", "WriteDeviceRejected", "ImageBinding",
           "ReaderOpen", "Write", "Sync", "SyncWorkerPanicked", "AfterSync", "Skipped",
           "VerifyNotStarted", "BeforeVerify", "Verify", "Verified"}

Nothing == [kind |-> "Running", stage |-> "none"]

Init ==
  /\ phase = "prepare" /\ bound = FALSE /\ outcome = Nothing
  /\ messages = <<>> /\ decisions = <<>> /\ cancel = FALSE
  /\ connected = TRUE /\ state = "Started" /\ removal = FALSE
  /\ activity = "Prepare" /\ requested = FALSE /\ prompt = FALSE /\ stopDialog = FALSE
  /\ approval = "none" /\ unasked = FALSE

-----------------------------------------------------------------------------
(* The worker thread.                                                      *)

\* A send to a UI that is gone fails; ChannelObserver ignores that.
Send(message) == messages' = IF connected THEN Append(messages, message) ELSE messages

Enter(next, event) ==
  /\ phase' = next
  /\ Send(event)
  /\ UNCHANGED <<outcome, decisions, cancel, handle, view, memory>>

\* run_on returns; every descriptor it opened is closed.
Return(kind, stage) ==
  /\ phase' = "returned"
  /\ outcome' = [kind |-> kind, stage |-> stage]
  /\ UNCHANGED <<bound, channels, handle, view, memory>>

\* Target, image, Preflight.
Prepare ==
  /\ phase = "prepare"
  /\ \/ ~cancel /\ Enter("asking", "Prepare") /\ UNCHANGED bound
     \/ \E stage \in {"Target", "Image"} : Return("Failed", stage)
     \/ cancel /\ \E stage \in {"Preflight", "BeforeConfirmation"} : Return("Cancelled", stage)

\* ChannelObserver::request_confirmation: show the request, if anyone is there
\* to see it.
Ask ==
  /\ phase = "asking"
  /\ \/ connected /\ Enter("polling", "ConfirmationRequested") /\ UNCHANGED bound
     \/ ~connected /\ Return("Failed", "ConfirmationInputClosed")

\* What an answer makes of the wait.
Answered ==
  /\ decisions # <<>> /\ decisions' = Tail(decisions)
  /\ \/ Head(decisions) = "Approved" /\ phase' = "authorize" /\ Send("Write")
        /\ UNCHANGED outcome
     \/ Head(decisions) = "Cancelled" /\ phase' = "returned" /\ UNCHANGED messages
        /\ outcome' = [kind |-> "Cancelled", stage |-> "Confirmation"]
  /\ UNCHANGED <<bound, cancel, handle, view, memory>>

\* Mistaken variants: the wait is for an answer alone; the handle is polled
\* only while there is no answer.
PollForAnswer ==
  /\ phase = "polling"
  /\ \/ Answered
     \/ decisions = <<>> /\ ~connected /\ Return("Failed", "ConfirmationInputClosed")

PollAnswerFirst ==
  /\ phase = "polling"
  /\ \/ decisions = <<>> /\ cancel /\ Return("Cancelled", "Confirmation")
     \/ Answered
     \/ ~cancel /\ decisions = <<>> /\ ~connected /\ Return("Failed", "ConfirmationInputClosed")

\* ... then wait, polling the handle before each wait and after an answer: the
\* cancellation wins.  An approval is the only way on.
Poll ==
  /\ phase = "polling"
  /\ \/ cancel /\ Return("Cancelled", "Confirmation")
     \/ ~cancel /\ Answered
     \/ ~cancel /\ decisions = <<>> /\ ~connected /\ Return("Failed", "ConfirmationInputClosed")

\* The gate, the open and the binding; then write_started_on.
Authorize ==
  /\ phase = "authorize"
  /\ \/ Enter("write", "Write") /\ bound' = TRUE
     \/ \E stage \in {"WriteGate", "WriteDeviceRejected", "ImageBinding", "ReaderOpen"} :
          Return("Failed", stage)

Write ==
  /\ phase = "write"
  /\ \/ Enter("sync", "Write") /\ UNCHANGED bound
     \/ Return("Failed", "Write")
     \/ cancel /\ Return("Cancelled", "Write")

\* begin_verify closes the write descriptor before VerifyPending is sent.
Sync ==
  /\ phase = "sync"
  /\ \/ ~cancel /\ Enter("verify", "Verify") /\ UNCHANGED bound
     \/ ~cancel /\ Return("Completed", "Skipped")
     \/ cancel /\ Return("Cancelled", "AfterSync")
     \/ \E stage \in {"Sync", "SyncWorkerPanicked"} : Return("Failed", stage)

Verify ==
  /\ phase = "verify"
  /\ \/ Return("Completed", "Verified")
     \/ \E stage \in {"VerifyNotStarted", "Verify"} : Return("Failed", stage)
     \/ cancel /\ \E stage \in {"BeforeVerify", "Verify"} : Return("Cancelled", stage)

\* Mistaken variant: also where a panic or a changed target ended it.
RemovalAllowedLate(o) ==
  o.kind = "Completed" \/ o.stage \in {"Write", "Sync", "SyncWorkerPanicked", "AfterSync",
                                       "VerifyNotStarted", "BeforeVerify", "Verify"}

\* Where Safe Removal is offered.
RemovalAllowed(o) ==
  \/ o.kind = "Completed"
  \/ o.kind = "Cancelled" /\ o.stage \in {"Write", "AfterSync", "BeforeVerify", "Verify"}
  \/ o.kind = "Failed" /\ o.stage \in {"Write", "Sync", "Verify"}

\* The closure's end: the reference and the outcome are sent; then both
\* senders and the decisions' receiver are dropped with the thread.
Finish ==
  /\ \/ phase = "returned" /\ phase' = "ended" /\ Send("Finished")
     \/ phase = "ended" /\ phase' = "gone" /\ UNCHANGED messages
  /\ UNCHANGED <<bound, outcome, decisions, cancel, handle, view, memory>>

\* The thread dies without an outcome.
Panic ==
  /\ phase \in RunOn
  /\ phase' = "gone"
  /\ UNCHANGED <<bound, outcome, channels, handle, view, memory>>

-----------------------------------------------------------------------------
(* The UI thread: WriteWorker and the window's pump.                       *)

\* WriteWorker::observe and Tracker::apply.
ReceiveEvent ==
  /\ connected /\ messages # <<>>
  /\ Head(messages) \in {"Prepare", "Write", "Verify"}
  /\ state' = IF state = "Started" THEN "Running" ELSE state
  /\ activity' = Head(messages)
  /\ messages' = Tail(messages)
  /\ UNCHANGED <<worker, decisions, cancel, connected, removal,
                 requested, prompt, stopDialog, memory>>

\* Tracker::confirmation_requested and show_confirmation.
ReceiveRequest ==
  /\ connected /\ messages # <<>>
  /\ Head(messages) = "ConfirmationRequested"
  /\ state' = "WaitingForConfirmation"
  /\ activity' = "Awaiting"
  /\ prompt' = TRUE
  /\ messages' = Tail(messages)
  /\ UNCHANGED <<worker, decisions, cancel, connected, removal, requested, stopDialog, memory>>

\* removal_for: only for a write that started, and only where removal_allowed.
RemovalFor == bound /\ RemovalAllowed(outcome)

\* finish: the reference is read, the dialogs are closed.
ReceiveFinished ==
  /\ connected /\ messages # <<>>
  /\ Head(messages) = "Finished"
  /\ state' = outcome.kind   \* Completed, Failed or Cancelled
  /\ removal' = RemovalFor
  /\ activity' = "Finished"
  /\ prompt' = FALSE /\ stopDialog' = FALSE
  /\ messages' = Tail(messages)
  /\ UNCHANGED <<worker, decisions, cancel, connected, requested, memory>>

\* Mistaken variants: the closed channel always means a lost worker, or only
\* once it was seen running.
ReceiveClosedAlways ==
  /\ connected /\ messages = <<>> /\ phase = "gone"
  /\ state' = "Lost"
  /\ activity' = "Finished"
  /\ prompt' = FALSE /\ stopDialog' = FALSE
  /\ UNCHANGED <<worker, channels, connected, removal, requested, memory>>

ReceiveClosedRunning ==
  /\ state = "Running" /\ ReceiveClosedAlways

\* try_recv on a closed channel: channel_closed, then finish without outcome.
ReceiveClosed ==
  /\ connected /\ messages = <<>> /\ phase = "gone"
  /\ state \notin Terminal
  /\ state' = "Lost"
  /\ activity' = "Finished"
  /\ prompt' = FALSE /\ stopDialog' = FALSE
  /\ UNCHANGED <<worker, channels, connected, removal, requested, memory>>

\* WriteWorker::submit_confirmation and Tracker::answered.  Refused unless a
\* request is pending; lost when the worker is gone.
Submit(decision) ==
  IF state = "WaitingForConfirmation" /\ phase # "gone"
  THEN /\ decisions' = Append(decisions, decision)
       /\ state' = "Running"
       /\ activity' = IF decision = "Approved" THEN "Write" ELSE activity
       /\ requested' = (requested \/ decision # "Approved")
       /\ approval' = IF decision # "Approved" THEN approval
                      ELSE IF cancel THEN "afterCancel" ELSE "given"
       /\ UNCHANGED <<messages, cancel>>
  ELSE UNCHANGED <<channels, state, activity, requested, approval>>

\* The user's response to the dialog; closing it declines.
Respond ==
  /\ connected /\ prompt
  /\ prompt' = FALSE
  /\ \E decision \in {"Approved", "Cancelled"} : Submit(decision)
  /\ UNCHANGED <<worker, connected, removal, stopDialog, unasked>>

\* Mistaken variant: Cancel never asks.
CancelActionByRequest ==
  CASE activity = "Finished" \/ requested -> "Unavailable"
    [] OTHER -> "RequestNow"

\* Tracker::cancel_action, by what the tracker has been told.
CancelAction ==
  CASE activity = "Finished" \/ requested -> "Unavailable"
    [] activity = "Awaiting" /\ ~requested -> "Decline"
    [] activity \in {"Prepare", "Verify"} /\ ~requested -> "RequestNow"
    [] activity = "Write" /\ ~requested -> "AskFirst"

\* window::cancel_pressed.
CancelPressed ==
  /\ connected
  /\ \/ /\ CancelAction = "RequestNow"
        /\ cancel' = TRUE /\ requested' = TRUE /\ unasked' = TRUE
        /\ UNCHANGED <<messages, decisions, state, activity, stopDialog, approval>>
     \/ /\ CancelAction = "Decline"
        /\ Submit("Cancelled")
        /\ UNCHANGED <<stopDialog, unasked>>
     \/ /\ CancelAction = "AskFirst" /\ ~stopDialog
        /\ stopDialog' = TRUE
        /\ UNCHANGED <<channels, state, activity, requested, memory>>
  /\ UNCHANGED <<worker, connected, removal, prompt>>

\* ask_to_stop_writing's response: stop, or carry on.
StopResponse ==
  /\ connected /\ stopDialog
  /\ stopDialog' = FALSE
  /\ \/ ~requested /\ cancel' = TRUE /\ requested' = TRUE
     \/ UNCHANGED <<cancel, requested>>
  /\ UNCHANGED <<worker, messages, decisions, handle, activity, prompt, memory>>

\* The UI drops the WriteWorker: both of its channel ends close.
Leave ==
  /\ MayLeave /\ connected
  /\ connected' = FALSE
  /\ messages' = <<>>
  /\ UNCHANGED <<worker, decisions, cancel, state, removal, view, memory>>

-----------------------------------------------------------------------------
Work == Prepare \/ Ask \/ Poll \/ Authorize \/ Write \/ Sync \/ Verify \/ Finish

Receive == ReceiveEvent \/ ReceiveRequest \/ ReceiveFinished \/ ReceiveClosed

User == Respond \/ CancelPressed \/ StopResponse \/ Leave

Next == Work \/ Panic \/ Receive \/ User

Spec == Init /\ [][Next]_vars

\* Both threads are scheduled: the worker runs, and the window's timer pumps
\* the channel.  The user need not do anything, and nothing need panic.
FairSpec == Spec /\ WF_vars(Work) /\ WF_vars(Receive)

-----------------------------------------------------------------------------
(* Properties.                                                             *)

\* Type correctness; at most one answer is ever in flight, also when Cancel
\* and the dialog are both used while the prompt is open (submit_confirmation).
TypeOK ==
  /\ phase \in Phases
  /\ bound \in BOOLEAN
  /\ outcome \in [kind : {"Running", "Completed", "Failed", "Cancelled"}, stage : Stages]
  /\ messages \in Seq({"Prepare", "ConfirmationRequested", "Write", "Verify", "Finished"})
  /\ decisions \in Seq({"Approved", "Cancelled"}) /\ Len(decisions) <= 1
  /\ cancel \in BOOLEAN /\ connected \in BOOLEAN
  /\ state \in States /\ removal \in BOOLEAN
  /\ activity \in {"Prepare", "Awaiting", "Write", "Verify", "Finished"}
  /\ requested \in BOOLEAN /\ prompt \in BOOLEAN /\ stopDialog \in BOOLEAN
  /\ approval \in {"none", "given", "afterCancel"} /\ unasked \in BOOLEAN

\* The worker goes past the confirmation only on an approval that the user gave
\* to the request, before any cancellation: never on one that raced with it, and
\* never because the UI went away.  (ChannelObserver::request_confirmation.)
\* A request is answered once, so that no second answer is left in the channel for
\* the next one.
WritesOnlyOnApproval ==
  /\ phase \in {"authorize", "verify"} \cup Writing => approval = "given"
  /\ Len(decisions) <= 1

\* A user who was not warned that stopping leaves an incomplete image has not
\* interrupted a write, however far the worker is ahead of what the UI has been
\* told.  (Tracker::cancel_action against the events still in the channel.)
UnaskedCancelSparesTheWrite ==
  unasked => /\ phase \notin {"authorize"} \cup Writing
             /\ outcome.stage \notin {"Write", "AfterSync"}

\* Safe Removal's reference reaches the UI exactly when the operation is over,
\* its descriptors are closed, it had begun to write, and neither a panic nor a
\* changed target ended it.  (spawn_on, removal_for, removal_allowed.)
RemovalAfterTheWrite ==
  /\ removal => phase \in {"ended", "gone"} /\ bound /\ state \in Terminal
  /\ state \in Terminal \ {"Lost"} =>
       removal = (bound /\ outcome.stage \notin {"SyncWorkerPanicked", "VerifyNotStarted"})

\* What the UI has been told of the end is never replaced: a worker that closes
\* its channel after an outcome is not reported as lost.  (channel_closed, pump.)
TheEndIsFinal == [][(state \in Terminal) => state' = state]_vars

\* Once the UI shows that cancellation was requested, by either way of asking
\* for it, the operation ends without further help from the user.
CancelIsHonoured == requested ~> (phase = "gone")

\* An operation whose UI went away ends by itself: nobody can answer it.
AbandonedOperationEnds == ~connected ~> (phase = "gone")

\* Both: whoever stops waiting for the worker, by a request or by going away, is
\* not waited for.
GivenUpOperationEnds == CancelIsHonoured /\ AbandonedOperationEnds

\* The UI learns how the operation ended, or that the worker was lost.
TheUILearnsTheEnd == (phase = "gone") ~> (~connected \/ state \in Terminal)
\* The worker in the terms of OperationCourse: the channel's two steps of the
\* confirmation are one part, and what follows run_on is none.
Place ==
  CASE phase \in {"asking", "polling"} -> "confirm"
    [] phase \in {"returned", "ended", "gone"} -> "over"
    [] OTHER -> phase

Course == INSTANCE OperationCourse WITH place <- Place, ending <- outcome

\* Whatever the UI does, the worker goes through run_on as WriteOperation does: what
\* is shown of the threads is shown of an operation that keeps the same course.
KeepsItsCourse == Course!CourseSpec
=============================================================================
