-------------------------- MODULE WriteWorker_proofs --------------------------
(***************************************************************************)
(* What holds of the worker and its UI, whether or not the UI may leave,   *)
(* for channels of any length.                                             *)
(*                                                                         *)
(* Everything follows from one fact about `messages`: its events are in    *)
(* the order in which run_on goes through its phases, none is behind what  *)
(* the UI was already told, and none is ahead of where the worker is.      *)
(***************************************************************************)
EXTENDS WriteWorker, TLAPS

Message == {"Prepare", "ConfirmationRequested", "Write", "Verify", "Finished"}
AfterAnswer == {"Write", "Verify", "Finished"}
Past == {"authorize", "verify"} \cup Writing

\* What may come behind a message in the channel.
MayFollow(m) ==
  CASE m = "Prepare" -> {"ConfirmationRequested"} \cup AfterAnswer
    [] m \in {"ConfirmationRequested", "Write"} -> AfterAnswer
    [] m = "Verify" -> {"Finished"}
    [] OTHER -> {}

\* What may still be told to a UI that was told this much.
MayLearn(a) ==
  CASE a = "Prepare" -> Message
    [] a \in {"Awaiting", "Write"} -> AfterAnswer
    [] a = "Verify" -> {"Finished"}
    [] OTHER -> {}

\* What a worker has sent at most that has come this far.
Sent(p) ==
  CASE p = "prepare" -> {}
    [] p = "asking" -> {"Prepare"}
    [] p = "polling" -> {"Prepare", "ConfirmationRequested"}
    [] p \in {"authorize", "write", "sync"} -> {"Prepare", "ConfirmationRequested", "Write"}
    [] p \in {"verify", "returned"} -> Message \ {"Finished"}
    [] OTHER -> Message

InFlight == {messages[i] : i \in 1 .. Len(messages)}

InOrder == \A i, j \in 1 .. Len(messages) : i < j => messages[j] \in MayFollow(messages[i])

PastTheWrite ==
  phase \in {"verify", "returned", "ended", "gone"} /\ outcome.stage \notin {"Write", "AfterSync"}

ChannelInv ==
  /\ InOrder
  /\ InFlight \subseteq MayLearn(activity) /\ InFlight \subseteq Sent(phase)
  /\ "Write" \in InFlight \/ "Verify" \in InFlight => approval = "given"
  /\ "Verify" \in InFlight \/ activity = "Verify" => PastTheWrite
  /\ "Finished" \in InFlight => outcome.kind # "Running"

\* The request is there to be answered.
Open == "ConfirmationRequested" \in InFlight \/ state = "WaitingForConfirmation"

\* One request, one answer, one approval.
AnswerInv ==
  /\ Open => decisions = <<>> /\ approval = "none" /\ phase \notin {"prepare", "asking"} \cup Past
  /\ phase \in {"prepare", "asking"} =>
       decisions = <<>> /\ approval = "none" /\ activity = "Prepare"
  /\ state = "WaitingForConfirmation" => activity = "Awaiting"
  /\ decisions # <<>> /\ Head(decisions) = "Approved" => approval # "none"
  /\ approval = "afterCancel" => cancel
  /\ approval # "none" => activity \in {"Write", "Verify", "Finished"}
  /\ phase \in Past => approval = "given"
  /\ outcome.stage \in {"Write", "AfterSync"} => approval = "given"

\* How an operation ends that had begun to write.
WroteEnd(o) ==
  \/ o.kind = "Completed" /\ o.stage \in {"Skipped", "Verified"}
  \/ o.kind = "Cancelled" /\ o.stage \in {"Write", "AfterSync", "BeforeVerify", "Verify"}
  \/ o.kind = "Failed" /\ o.stage \in {"Write", "Sync", "SyncWorkerPanicked", "VerifyNotStarted", "Verify"}

EndInv ==
  /\ phase \in RunOn => outcome = Nothing
  /\ bound => phase \notin Before
  /\ bound /\ outcome.kind # "Running" => WroteEnd(outcome)
  /\ phase \in {"returned", "ended"} => outcome.kind # "Running"
  /\ state \in Terminal => messages = <<>> /\ phase \in {"ended", "gone"}
  /\ activity = "Finished" => state \in Terminal
  /\ RemovalAfterTheWrite
  /\ unasked => cancel
  /\ UnaskedCancelSparesTheWrite

WorkerInv == TypeOK /\ ChannelInv /\ AnswerInv /\ EndInv

-----------------------------------------------------------------------------
(* The channel.                                                            *)

LEMMA Sending ==
  ASSUME NEW e \in Message, messages \in Seq(Message), Send(e), InOrder,
         \A m \in InFlight : e \in MayFollow(m)
  PROVE  /\ messages' \in Seq(Message) /\ InOrder'
         /\ InFlight' \subseteq InFlight \cup {e}
         /\ messages = <<>> /\ ~connected => messages' = <<>>
<1>1. CASE ~connected
  BY <1>1 DEF Send, InOrder, InFlight
<1>2. CASE connected
  <2>1. messages' = Append(messages, e)
    BY <1>2 DEF Send
  <2>2. /\ messages' \in Seq(Message) /\ Len(messages) \in Nat /\ Len(messages') = Len(messages) + 1
        /\ \A i \in 1 .. Len(messages) : messages'[i] = messages[i]
        /\ messages'[Len(messages) + 1] = e
    BY <2>1
  <2>3. InFlight' \subseteq InFlight \cup {e}
    BY <2>2 DEF InFlight
  <2>4. ASSUME NEW i \in 1 .. Len(messages'), NEW j \in 1 .. Len(messages'), i < j
        PROVE  messages'[j] \in MayFollow(messages'[i])
    <3>1. i \in 1 .. Len(messages) /\ messages'[i] = messages[i] /\ messages[i] \in InFlight
      BY <2>2, <2>4 DEF InFlight
    <3>2. CASE j = Len(messages) + 1
      BY <2>2, <3>1, <3>2
    <3>3. CASE j \in 1 .. Len(messages)
      BY <2>2, <2>4, <3>1, <3>3 DEF InOrder
    <3> QED
      BY <2>2, <3>2, <3>3
  <2> QED
    BY <1>2, <2>2, <2>3, <2>4 DEF InOrder
<1> QED
  BY <1>1, <1>2

LEMMA Receiving ==
  ASSUME messages \in Seq(Message), messages # <<>>, messages' = Tail(messages), InOrder
  PROVE  /\ messages' \in Seq(Message) /\ InOrder' /\ Head(messages) \in InFlight
         /\ InFlight' \subseteq InFlight /\ InFlight' \subseteq MayFollow(Head(messages))
         /\ InFlight' = {} => messages' = <<>>
<1>1. /\ messages' \in Seq(Message) /\ Len(messages) \in Nat \ {0}
      /\ Len(messages') = Len(messages) - 1 /\ Head(messages) = messages[1]
      /\ \A i \in 1 .. Len(messages') : messages'[i] = messages[i + 1]
  OBVIOUS
<1>2. Head(messages) \in InFlight
  BY <1>1 DEF InFlight
<1>3. ASSUME NEW i \in 1 .. Len(messages')
      PROVE  i + 1 \in 1 .. Len(messages) /\ messages'[i] = messages[i + 1]
             /\ messages'[i] \in MayFollow(messages[1])
  BY <1>1 DEF InOrder
<1>4. InFlight' \subseteq InFlight /\ InFlight' \subseteq MayFollow(Head(messages))
  BY <1>1, <1>3 DEF InFlight
<1>5. InOrder'
  <2> SUFFICES ASSUME NEW i \in 1 .. Len(messages'), NEW j \in 1 .. Len(messages'), i < j
               PROVE  messages'[j] \in MayFollow(messages'[i])
    BY DEF InOrder
  <2> QED
    BY <1>3 DEF InOrder
<1>6. InFlight' = {} => messages' = <<>>
  <2> SUFFICES ASSUME messages' # <<>> PROVE InFlight' # {}
    OBVIOUS
  <2>1. 1 \in 1 .. Len(messages')
    BY <1>1
  <2> QED
    BY <2>1 DEF InFlight
<1> QED
  BY <1>1, <1>2, <1>4, <1>5, <1>6

LEMMA SameChannel ==
  ASSUME UNCHANGED messages
  PROVE  InFlight' = InFlight /\ InOrder' = InOrder
BY DEF InFlight, InOrder

LEMMA EmptyChannel ==
  ASSUME messages = <<>>
  PROVE  InFlight = {} /\ InOrder
BY DEF InFlight, InOrder

LEMMA InitWorker == Init => WorkerInv
<1> SUFFICES ASSUME Init PROVE WorkerInv
  OBVIOUS
<1>1. messages = <<>> /\ InFlight = {} /\ InOrder /\ decisions = <<>>
  BY EmptyChannel DEF Init
<1>2. messages \in Seq(Message) /\ decisions \in Seq({"Approved", "Cancelled"}) /\ Len(decisions) = 0
  BY <1>1
<1>3. outcome \in [kind : {"Running", "Completed", "Failed", "Cancelled"}, stage : Stages]
  BY DEF Init, Nothing, Stages
<1>4. phase \in Phases /\ state \in States
  BY DEF Init, Phases, RunOn, Before, States
<1>5. TypeOK
  <2>1. /\ bound \in BOOLEAN /\ cancel \in BOOLEAN /\ connected \in BOOLEAN /\ removal \in BOOLEAN
        /\ activity = "Prepare" /\ requested \in BOOLEAN /\ prompt \in BOOLEAN
        /\ stopDialog \in BOOLEAN /\ approval = "none" /\ unasked \in BOOLEAN
    BY DEF Init
  <2> QED
    BY <1>2, <1>3, <1>4, <2>1 DEF TypeOK, Message
<1>6. ChannelInv
  BY <1>1 DEF Init, ChannelInv
<1>7. AnswerInv
  BY <1>1 DEF Init, AnswerInv, Open, Past, Writing, Nothing
<1>8. EndInv
  BY DEF Init, EndInv, Nothing, Terminal, RemovalAfterTheWrite, UnaskedCancelSparesTheWrite,
         RunOn, Before, Writing
<1> QED
  BY <1>5, <1>6, <1>7, <1>8 DEF WorkerInv

-----------------------------------------------------------------------------
(* The worker thread.                                                      *)

\* run_on returns, with an end that fits the phase it was in.
LEMMA Returns ==
  ASSUME WorkerInv, phase \in RunOn, phase' = "returned",
         NEW kind \in {"Completed", "Failed", "Cancelled"}, NEW stage \in Stages,
         outcome' = [kind |-> kind, stage |-> stage],
         UNCHANGED <<bound, messages, cancel, handle, view, memory>>,
         decisions' \in {decisions, <<>>},
         bound => WroteEnd(outcome'),
         stage \in {"Write", "AfterSync"} => phase \in Writing
  PROVE  WorkerInv'
<1>1. InFlight' = InFlight /\ InOrder' = InOrder
  BY SameChannel
<1>2. outcome'.kind = kind /\ outcome'.stage = stage
  OBVIOUS
<1>3. decisions' \in Seq({"Approved", "Cancelled"}) /\ Len(decisions') <= 1
  <2>1. CASE decisions' = <<>>
    BY <2>1
  <2>2. CASE decisions' = decisions
    BY <2>2 DEF WorkerInv, TypeOK
  <2> QED
    BY <2>1, <2>2
<1>4. TypeOK'
  BY <1>3 DEF WorkerInv, TypeOK, handle, view, memory, Phases
<1>5. Sent(phase) \subseteq Sent(phase') /\ (phase = "verify" => stage \notin {"Write", "AfterSync"})
      /\ ("Verify" \in InFlight \/ activity = "Verify" => phase = "verify")
  BY DEF Sent, Message, WorkerInv, ChannelInv, PastTheWrite, RunOn, Before, Writing
<1>6. ChannelInv'
  BY <1>1, <1>2, <1>5 DEF WorkerInv, ChannelInv, PastTheWrite, view, memory
<1>7. stage \in {"Write", "AfterSync"} => approval = "given"
  BY DEF WorkerInv, AnswerInv, Past
<1>8. Open' = Open
  BY <1>1 DEF Open, handle
<1>9. AnswerInv'
  BY <1>2, <1>7, <1>8 DEF WorkerInv, AnswerInv, Past, Writing, handle, view, memory
<1>10. unasked => stage \notin {"Write", "AfterSync"}
  BY DEF WorkerInv, EndInv, UnaskedCancelSparesTheWrite
<1>11. state \notin Terminal /\ ~removal
  BY DEF WorkerInv, EndInv, RemovalAfterTheWrite, RunOn, Before, Writing
<1>12. EndInv'
  BY <1>2, <1>10, <1>11 DEF WorkerInv, EndInv, RemovalAfterTheWrite, UnaskedCancelSparesTheWrite,
     RunOn, Before, Writing, handle, view, memory
<1> QED
  BY <1>4, <1>6, <1>9, <1>12 DEF WorkerInv

\* The next phase begins with its event.
LEMMA Enters ==
  ASSUME WorkerInv, NEW next, NEW event \in Message, phase' = next, Send(event),
         UNCHANGED <<outcome, cancel, handle, view, memory>>,
         \/ phase = "prepare" /\ next = "asking" /\ event = "Prepare"
            /\ ~cancel /\ UNCHANGED <<bound, decisions>>
         \/ phase = "asking" /\ next = "polling" /\ event = "ConfirmationRequested"
            /\ UNCHANGED <<bound, decisions>>
         \/ phase = "polling" /\ next = "authorize" /\ event = "Write"
            /\ ~cancel /\ UNCHANGED bound
            /\ decisions # <<>> /\ Head(decisions) = "Approved" /\ decisions' = Tail(decisions)
         \/ phase = "authorize" /\ next = "write" /\ event = "Write"
            /\ bound' = TRUE /\ UNCHANGED decisions
         \/ phase = "write" /\ next = "sync" /\ event = "Write" /\ UNCHANGED <<bound, decisions>>
         \/ phase = "sync" /\ next = "verify" /\ event = "Verify"
            /\ ~cancel /\ UNCHANGED <<bound, decisions>>
  PROVE  WorkerInv'
<1>1. /\ messages \in Seq(Message) /\ InOrder
      /\ InFlight \subseteq Sent(phase) /\ InFlight \subseteq MayLearn(activity)
      /\ decisions \in Seq({"Approved", "Cancelled"}) /\ Len(decisions) <= 1
      /\ phase \in RunOn /\ outcome = Nothing /\ state \notin Terminal /\ ~removal
  BY DEF WorkerInv, TypeOK, ChannelInv, EndInv, RemovalAfterTheWrite, Message, RunOn, Before, Writing
<1>2. \A m \in InFlight : event \in MayFollow(m)
  BY <1>1 DEF Sent, MayFollow, AfterAnswer
<1>3. /\ messages' \in Seq(Message) /\ InOrder' /\ InFlight' \subseteq InFlight \cup {event}
  BY <1>1, <1>2, Sending
<1>4. decisions' \in Seq({"Approved", "Cancelled"}) /\ Len(decisions') <= 1
      /\ (phase = "polling" /\ next = "authorize" => decisions' = <<>>)
  BY <1>1
<1>5. TypeOK'
  <2>1. phase' \in Phases /\ bound' \in BOOLEAN
    BY DEF Phases, RunOn, Before, Writing, WorkerInv, TypeOK
  <2> QED
    BY <1>3, <1>4, <2>1 DEF WorkerInv, TypeOK, handle, view, memory, Message
<1>6. approval \in {"none", "given", "afterCancel"} /\ activity \in {"Prepare", "Awaiting", "Write", "Verify", "Finished"}
  BY DEF WorkerInv, TypeOK
<1>7. next \in Past => approval = "given" /\ activity \in {"Write", "Verify", "Finished"}
  BY <1>6 DEF WorkerInv, AnswerInv, Past, Writing
<1>8. /\ activity \notin {"Finished"}
      /\ "Verify" \in InFlight \/ activity = "Verify" => phase = "verify"
      /\ phase \in {"prepare", "asking"} => activity = "Prepare"
  BY <1>1 DEF WorkerInv, EndInv, ChannelInv, AnswerInv, PastTheWrite, RunOn, Before, Writing
<1>9. event \in MayLearn(activity)
  BY <1>6, <1>7, <1>8 DEF MayLearn, AfterAnswer, Past, Writing
<1>10. Sent(phase) \cup {event} \subseteq Sent(next)
  BY DEF Sent, Message
<1>11. outcome.stage = "none" /\ outcome.kind = "Running"
  BY <1>1 DEF Nothing
<1>12. ChannelInv'
  <2>1. /\ InFlight' \subseteq MayLearn(activity') /\ InFlight' \subseteq Sent(phase')
        /\ activity' = activity /\ approval' = approval /\ outcome' = outcome
    BY <1>1, <1>3, <1>9, <1>10 DEF view, memory
  <2>2. "Write" \in InFlight' \/ "Verify" \in InFlight' => approval' = "given"
    BY <1>3, <1>7, <2>1 DEF WorkerInv, ChannelInv, Past, Writing
  <2>3. "Verify" \in InFlight' \/ activity' = "Verify" => PastTheWrite'
    BY <1>3, <1>8, <1>11, <2>1 DEF PastTheWrite
  <2>4. "Finished" \notin InFlight'
    BY <2>1 DEF Sent, Message
  <2> QED
    BY <1>3, <2>1, <2>2, <2>3, <2>4 DEF ChannelInv
<1>13. AnswerInv'
  <2>1. event # "ConfirmationRequested" /\ Open' => Open
    BY <1>3 DEF Open, handle
  <2>2. Open' => next = "polling"
    BY <2>1 DEF WorkerInv, AnswerInv, Past, Writing
  <2> QED
    BY <1>1, <1>4, <1>7, <1>8, <1>11, <2>2 DEF WorkerInv, AnswerInv, Past, Writing, handle, view, memory
<1>14. EndInv'
  BY <1>1, <1>11 DEF WorkerInv, EndInv, RemovalAfterTheWrite, UnaskedCancelSparesTheWrite,
     RunOn, Before, Writing, handle, view, memory, Terminal
<1> QED
  BY <1>5, <1>12, <1>13, <1>14 DEF WorkerInv

LEMMA PrepareKeeps == WorkerInv /\ Prepare => WorkerInv'
<1> SUFFICES ASSUME WorkerInv, Prepare PROVE WorkerInv'
  OBVIOUS
<1>1. CASE ~cancel /\ Enter("asking", "Prepare") /\ UNCHANGED bound
  BY <1>1, Enters DEF Prepare, Enter, Message
<1>2. CASE \E stage \in {"Target", "Image"} : Return("Failed", stage)
  BY <1>2, Returns DEF Prepare, Return, channels, Stages, RunOn, Before, WorkerInv, EndInv
<1>3. CASE cancel /\ \E stage \in {"Preflight", "BeforeConfirmation"} : Return("Cancelled", stage)
  BY <1>3, Returns DEF Prepare, Return, channels, Stages, RunOn, Before, WorkerInv, EndInv
<1> QED
  BY <1>1, <1>2, <1>3 DEF Prepare

LEMMA AskKeeps == WorkerInv /\ Ask => WorkerInv'
<1> SUFFICES ASSUME WorkerInv, Ask PROVE WorkerInv'
  OBVIOUS
<1>1. CASE Enter("polling", "ConfirmationRequested") /\ UNCHANGED bound
  BY <1>1, Enters DEF Ask, Enter, Message
<1>2. CASE Return("Failed", "ConfirmationInputClosed")
  BY <1>2, Returns DEF Ask, Return, channels, Stages, RunOn, Before, WorkerInv, EndInv
<1> QED
  BY <1>1, <1>2 DEF Ask

LEMMA PollKeeps == WorkerInv /\ Poll => WorkerInv'
<1> SUFFICES ASSUME WorkerInv, Poll PROVE WorkerInv'
  OBVIOUS
<1>1. CASE Return("Cancelled", "Confirmation") \/ Return("Failed", "ConfirmationInputClosed")
  BY <1>1, Returns DEF Poll, Return, channels, Stages, RunOn, Before, WorkerInv, EndInv
<1>2. CASE ~cancel /\ Answered
  <2>1. CASE Head(decisions) = "Approved" /\ phase' = "authorize" /\ Send("Write") /\ UNCHANGED outcome
    BY <1>2, <2>1, Enters DEF Poll, Answered, Message
  <2>2. CASE /\ phase' = "returned" /\ UNCHANGED messages
             /\ outcome' = [kind |-> "Cancelled", stage |-> "Confirmation"]
    <3>1. decisions' = <<>>
      <4>1. decisions \in Seq({"Approved", "Cancelled"}) /\ Len(decisions) <= 1
            /\ decisions # <<>> /\ decisions' = Tail(decisions)
        BY <1>2 DEF Answered, WorkerInv, TypeOK
      <4> QED
        BY <4>1
    <3> QED
      BY <1>2, <2>2, <3>1, Returns DEF Poll, Answered, Stages, RunOn, Before, WorkerInv, EndInv
  <2> QED
    BY <1>2, <2>1, <2>2 DEF Answered
<1> QED
  BY <1>1, <1>2 DEF Poll

LEMMA AuthorizeKeeps == WorkerInv /\ Authorize => WorkerInv'
<1> SUFFICES ASSUME WorkerInv, Authorize PROVE WorkerInv'
  OBVIOUS
<1>1. CASE Enter("write", "Write") /\ bound' = TRUE
  BY <1>1, Enters DEF Authorize, Enter, Message
<1>2. CASE \E stage \in {"WriteGate", "WriteDeviceRejected", "ImageBinding", "ReaderOpen"} :
             Return("Failed", stage)
  BY <1>2, Returns DEF Authorize, Return, channels, Stages, RunOn, Before, WorkerInv, EndInv
<1> QED
  BY <1>1, <1>2 DEF Authorize

LEMMA WriteKeeps == WorkerInv /\ Write => WorkerInv'
<1> SUFFICES ASSUME WorkerInv, Write PROVE WorkerInv'
  OBVIOUS
<1>1. CASE Enter("sync", "Write") /\ UNCHANGED bound
  BY <1>1, Enters DEF Write, Enter, Message
<1>2. CASE Return("Failed", "Write") \/ Return("Cancelled", "Write")
  BY <1>2, Returns DEF Write, Return, channels, Stages, RunOn, Before, Writing, WroteEnd
<1> QED
  BY <1>1, <1>2 DEF Write

LEMMA SyncKeeps == WorkerInv /\ Sync => WorkerInv'
<1> SUFFICES ASSUME WorkerInv, Sync PROVE WorkerInv'
  OBVIOUS
<1>1. CASE ~cancel /\ Enter("verify", "Verify") /\ UNCHANGED bound
  BY <1>1, Enters DEF Sync, Enter, Message
<1>2. CASE Return("Completed", "Skipped")
  BY <1>2, Returns DEF Sync, Return, channels, Stages, RunOn, Before, Writing, WroteEnd
<1>3. CASE Return("Cancelled", "AfterSync")
  BY <1>3, Returns DEF Sync, Return, channels, Stages, RunOn, Before, Writing, WroteEnd
<1>4. CASE \E stage \in {"Sync", "SyncWorkerPanicked"} : Return("Failed", stage)
  BY <1>4, Returns DEF Sync, Return, channels, Stages, RunOn, Before, Writing, WroteEnd
<1> QED
  BY <1>1, <1>2, <1>3, <1>4 DEF Sync

LEMMA VerifyKeeps == WorkerInv /\ Verify => WorkerInv'
<1> SUFFICES ASSUME WorkerInv, Verify PROVE WorkerInv'
  OBVIOUS
<1>1. CASE Return("Completed", "Verified")
  BY <1>1, Returns DEF Verify, Return, channels, Stages, RunOn, WroteEnd
<1>2. CASE \E stage \in {"VerifyNotStarted", "Verify"} : Return("Failed", stage)
  BY <1>2, Returns DEF Verify, Return, channels, Stages, RunOn, WroteEnd
<1>3. CASE \E stage \in {"BeforeVerify", "Verify"} : Return("Cancelled", stage)
  BY <1>3, Returns DEF Verify, Return, channels, Stages, RunOn, WroteEnd
<1> QED
  BY <1>1, <1>2, <1>3 DEF Verify

LEMMA FinishKeeps == WorkerInv /\ Finish => WorkerInv'
<1> SUFFICES ASSUME WorkerInv, Finish PROVE WorkerInv'
  OBVIOUS
<1>1. UNCHANGED <<bound, outcome, decisions, cancel, handle, view, memory>>
      /\ phase' \in {"ended", "gone"} /\ phase \in {"returned", "ended"} /\ outcome.kind # "Running"
  BY DEF Finish, WorkerInv, EndInv
<1>2. /\ messages' \in Seq(Message) /\ InOrder' /\ InFlight' \subseteq InFlight \cup {"Finished"}
      /\ state \in Terminal => messages' = <<>>
  <2>1. CASE phase = "returned" /\ Send("Finished")
    <3>1. messages \in Seq(Message) /\ InOrder /\ InFlight \subseteq Message \ {"Finished"}
          /\ state \notin Terminal
      BY <2>1 DEF WorkerInv, TypeOK, ChannelInv, EndInv, Message, Sent
    <3>2. \A m \in InFlight : "Finished" \in MayFollow(m)
      BY <3>1 DEF MayFollow, Message, AfterAnswer
    <3> QED
      BY <2>1, <3>1, <3>2, Sending DEF Message
  <2>2. CASE UNCHANGED messages
    BY <2>2, SameChannel DEF WorkerInv, TypeOK, ChannelInv, EndInv, Message
  <2> QED
    BY <2>1, <2>2 DEF Finish
<1>3. phase = "returned" => state \notin Terminal /\ activity # "Finished"
  BY DEF WorkerInv, EndInv
<1>4. TypeOK'
  BY <1>1, <1>2 DEF WorkerInv, TypeOK, handle, view, memory, Message, Phases
<1>5. ChannelInv'
  <2>1. InFlight' \subseteq Message /\ Sent(phase') = Message
    BY <1>1, <1>2 DEF Sent, WorkerInv, ChannelInv, Message
  <2>2. InFlight' \subseteq MayLearn(activity)
    <3>1. CASE activity # "Finished"
      BY <1>2, <3>1 DEF MayLearn, WorkerInv, ChannelInv, TypeOK, Message, AfterAnswer
    <3>2. CASE activity = "Finished"
      <4>1. messages' = <<>>
        BY <1>2, <3>2 DEF WorkerInv, EndInv
      <4> QED
        BY <4>1 DEF InFlight
    <3> QED
      BY <3>1, <3>2
  <2> QED
    BY <1>1, <1>2, <2>1, <2>2 DEF WorkerInv, ChannelInv, PastTheWrite, view, memory
<1>6. AnswerInv'
  BY <1>1, <1>2 DEF WorkerInv, AnswerInv, Open, Past, Writing, handle, view, memory
<1>7. EndInv'
  BY <1>1, <1>2 DEF WorkerInv, EndInv, RemovalAfterTheWrite, UnaskedCancelSparesTheWrite,
     RunOn, Before, Writing, handle, view, memory
<1> QED
  BY <1>4, <1>5, <1>6, <1>7 DEF WorkerInv

LEMMA PanicKeeps == WorkerInv /\ Panic => WorkerInv'
<1> SUFFICES ASSUME WorkerInv, Panic PROVE WorkerInv'
  OBVIOUS
<1>1. /\ UNCHANGED <<bound, outcome, messages, decisions, cancel, handle, view, memory>>
      /\ phase' = "gone" /\ phase \in RunOn /\ outcome = Nothing
  BY DEF Panic, channels, WorkerInv, EndInv
<1>2. InFlight' = InFlight /\ InOrder' = InOrder
  BY <1>1, SameChannel
<1>3. TypeOK'
  BY <1>1 DEF WorkerInv, TypeOK, handle, view, memory, Phases
<1>4. ChannelInv'
  <2>1. InFlight \subseteq Sent("gone")
    BY DEF Sent, WorkerInv, ChannelInv, Message
  <2> QED
    BY <1>1, <1>2, <2>1 DEF WorkerInv, ChannelInv, PastTheWrite, view, memory
<1>5. AnswerInv'
  BY <1>1, <1>2 DEF WorkerInv, AnswerInv, Open, Past, Writing, handle, view, memory
<1>6. EndInv'
  BY <1>1 DEF WorkerInv, EndInv, RemovalAfterTheWrite, UnaskedCancelSparesTheWrite,
     RunOn, Before, Writing, handle, view, memory, Nothing
<1> QED
  BY <1>3, <1>4, <1>5, <1>6 DEF WorkerInv

-----------------------------------------------------------------------------
(* The UI thread.                                                          *)

\* What a message tells about the channel behind it and the worker.
LEMMA Told ==
  ASSUME WorkerInv, messages # <<>>, messages' = Tail(messages), UNCHANGED worker
  PROVE  /\ messages' \in Seq(Message) /\ InOrder'
         /\ Head(messages) \in InFlight /\ Head(messages) \in MayLearn(activity)
         /\ InFlight' \subseteq InFlight /\ InFlight' \subseteq MayFollow(Head(messages))
         /\ InFlight' = {} => messages' = <<>>
         /\ InFlight' \subseteq Sent(phase')
         /\ Head(messages) \in Sent(phase)
         /\ state \notin Terminal
<1>1. messages \in Seq(Message) /\ InOrder
  BY DEF WorkerInv, TypeOK, ChannelInv, Message
<1> QED
  BY <1>1, Receiving DEF WorkerInv, ChannelInv, EndInv, worker

LEMMA ReceiveEventKeeps == WorkerInv /\ ReceiveEvent => WorkerInv'
<1> SUFFICES ASSUME WorkerInv, ReceiveEvent PROVE WorkerInv'
  OBVIOUS
<1> DEFINE m == Head(messages)
<1>1. /\ messages # <<>> /\ m \in {"Prepare", "Write", "Verify"} /\ messages' = Tail(messages)
      /\ UNCHANGED <<phase, bound, outcome, decisions, cancel, connected, removal,
                     requested, prompt, stopDialog, approval, unasked>>
      /\ activity' = m /\ state' = IF state = "Started" THEN "Running" ELSE state
  BY DEF ReceiveEvent, worker, memory
<1>2. /\ messages' \in Seq(Message) /\ InOrder' /\ m \in InFlight /\ m \in MayLearn(activity)
      /\ InFlight' \subseteq InFlight /\ InFlight' \subseteq MayFollow(m)
      /\ InFlight' \subseteq Sent(phase') /\ m \in Sent(phase) /\ state \notin Terminal
  BY <1>1, Told DEF worker
<1> HIDE DEF m
<1>3. TypeOK'
  BY <1>1, <1>2 DEF WorkerInv, TypeOK, Message, States
<1>4. ChannelInv'
  <2>1. InFlight' \subseteq MayLearn(m)
    BY <1>1, <1>2 DEF MayFollow, MayLearn, Message, AfterAnswer
  <2> QED
    BY <1>1, <1>2, <2>1 DEF WorkerInv, ChannelInv, PastTheWrite
<1>5. AnswerInv'
  <2>1. m \in {"Write", "Verify"} => approval = "given" /\ ~Open
    BY <1>2 DEF WorkerInv, ChannelInv, AnswerInv
  <2>2. Open' => Open
    BY <1>1, <1>2 DEF Open
  <2>3. m = "Prepare" => activity = "Prepare"
    BY <1>2 DEF MayLearn, AfterAnswer, WorkerInv, TypeOK
  <2>4. phase \in {"prepare", "asking"} => m = "Prepare"
    BY <1>1, <1>2 DEF Sent
  <2>5. state' = "WaitingForConfirmation" => activity' = "Awaiting"
    BY <1>1, <2>1, <2>3 DEF WorkerInv, AnswerInv, Open
  <2> QED
    BY <1>1, <2>1, <2>2, <2>3, <2>4, <2>5 DEF WorkerInv, AnswerInv, Past, Writing
<1>6. EndInv'
  BY <1>1, <1>2 DEF WorkerInv, EndInv, RemovalAfterTheWrite, UnaskedCancelSparesTheWrite, Terminal
<1> QED
  BY <1>3, <1>4, <1>5, <1>6 DEF WorkerInv

LEMMA ReceiveRequestKeeps == WorkerInv /\ ReceiveRequest => WorkerInv'
<1> SUFFICES ASSUME WorkerInv, ReceiveRequest PROVE WorkerInv'
  OBVIOUS
<1>1. /\ messages # <<>> /\ Head(messages) = "ConfirmationRequested" /\ messages' = Tail(messages)
      /\ UNCHANGED <<phase, bound, outcome, decisions, cancel, connected, removal,
                     requested, stopDialog, approval, unasked>>
      /\ activity' = "Awaiting" /\ state' = "WaitingForConfirmation" /\ prompt' = TRUE
  BY DEF ReceiveRequest, worker, memory
<1>2. /\ messages' \in Seq(Message) /\ InOrder' /\ "ConfirmationRequested" \in InFlight
      /\ InFlight' \subseteq InFlight /\ InFlight' \subseteq MayFollow("ConfirmationRequested")
      /\ InFlight' \subseteq Sent(phase') /\ state \notin Terminal
  BY <1>1, Told DEF worker
<1>3. TypeOK'
  BY <1>1, <1>2 DEF WorkerInv, TypeOK, Message, States
<1>4. Open
  BY <1>2 DEF Open
<1>5. ChannelInv'
  <2>1. InFlight' \subseteq MayLearn("Awaiting")
    BY <1>2 DEF MayFollow, MayLearn
  <2> QED
    BY <1>1, <1>2, <2>1 DEF WorkerInv, ChannelInv, PastTheWrite
<1>6. AnswerInv'
  BY <1>1, <1>4 DEF WorkerInv, AnswerInv, Past, Writing
<1>7. EndInv'
  BY <1>1, <1>2 DEF WorkerInv, EndInv, RemovalAfterTheWrite, UnaskedCancelSparesTheWrite, Terminal
<1> QED
  BY <1>3, <1>5, <1>6, <1>7 DEF WorkerInv

LEMMA ReceiveFinishedKeeps == WorkerInv /\ ReceiveFinished => WorkerInv'
<1> SUFFICES ASSUME WorkerInv, ReceiveFinished PROVE WorkerInv'
  OBVIOUS
<1>1. /\ messages # <<>> /\ Head(messages) = "Finished" /\ messages' = Tail(messages)
      /\ UNCHANGED <<phase, bound, outcome, decisions, cancel, connected,
                     requested, approval, unasked>>
      /\ activity' = "Finished" /\ state' = outcome.kind /\ prompt' = FALSE /\ stopDialog' = FALSE
      /\ removal' = RemovalFor
  BY DEF ReceiveFinished, worker, memory
<1>2. /\ messages' \in Seq(Message) /\ InOrder' /\ "Finished" \in InFlight
      /\ InFlight' \subseteq MayFollow("Finished") /\ (InFlight' = {} => messages' = <<>>)
      /\ "Finished" \in Sent(phase)
  BY <1>1, Told DEF worker
<1>3. InFlight' = {} /\ messages' = <<>>
  BY <1>2 DEF MayFollow
<1>4. phase \in {"ended", "gone"}
  BY <1>2 DEF Sent, WorkerInv, TypeOK, Phases, RunOn, Before, Writing
<1>5. outcome.kind \in {"Completed", "Failed", "Cancelled"}
  BY <1>2 DEF WorkerInv, ChannelInv, TypeOK
<1>6. TypeOK'
  BY <1>1, <1>2, <1>5 DEF WorkerInv, TypeOK, Message, States, Terminal, RemovalFor, RemovalAllowed
<1>7. ChannelInv'
  BY <1>1, <1>2, <1>3 DEF ChannelInv
<1>8. AnswerInv'
  BY <1>1, <1>3, <1>4, <1>5 DEF WorkerInv, AnswerInv, Open, Past, Writing
<1>9. removal' = (bound /\ outcome.stage \notin {"SyncWorkerPanicked", "VerifyNotStarted"})
  BY <1>1, <1>5 DEF RemovalFor, RemovalAllowed, WorkerInv, EndInv, WroteEnd
<1>10. EndInv'
  BY <1>1, <1>3, <1>4, <1>5, <1>9 DEF WorkerInv, EndInv, RemovalAfterTheWrite,
     UnaskedCancelSparesTheWrite, Terminal, RunOn, Before, Writing
<1> QED
  BY <1>6, <1>7, <1>8, <1>10 DEF WorkerInv

LEMMA ReceiveClosedKeeps == WorkerInv /\ ReceiveClosed => WorkerInv'
<1> SUFFICES ASSUME WorkerInv, ReceiveClosed PROVE WorkerInv'
  OBVIOUS
<1>1. /\ messages = <<>> /\ phase = "gone" /\ state \notin Terminal
      /\ UNCHANGED <<phase, bound, outcome, messages, decisions, cancel, connected, removal,
                     requested, approval, unasked>>
      /\ activity' = "Finished" /\ state' = "Lost" /\ prompt' = FALSE /\ stopDialog' = FALSE
  BY DEF ReceiveClosed, worker, channels, memory
<1>2. InFlight' = {} /\ InFlight = {} /\ InOrder'
  BY <1>1, SameChannel, EmptyChannel
<1>3. TypeOK'
  BY <1>1 DEF WorkerInv, TypeOK, States, Terminal
<1>4. ChannelInv'
  BY <1>1, <1>2 DEF ChannelInv
<1>5. AnswerInv'
  BY <1>1, <1>2 DEF WorkerInv, AnswerInv, Open, Past, Writing
<1>6. EndInv'
  BY <1>1 DEF WorkerInv, EndInv, RemovalAfterTheWrite, UnaskedCancelSparesTheWrite,
     Terminal, RunOn, Before, Writing
<1> QED
  BY <1>3, <1>4, <1>5, <1>6 DEF WorkerInv

\* An answer, and what else a press of a button may change.
LEMMA Answers ==
  ASSUME WorkerInv, NEW decision \in {"Approved", "Cancelled"}, Submit(decision),
         UNCHANGED <<phase, bound, outcome, connected, removal, unasked>>,
         prompt' \in BOOLEAN, stopDialog' \in BOOLEAN
  PROVE  WorkerInv'
<1>1. CASE UNCHANGED <<channels, state, activity, requested, approval>>
  <2>1. UNCHANGED <<messages, decisions, cancel, state, activity, requested, approval>>
    BY <1>1 DEF channels
  <2>2. InFlight' = InFlight /\ InOrder' = InOrder
    BY <2>1, SameChannel
  <2>3. TypeOK'
    BY <2>1 DEF WorkerInv, TypeOK
  <2>4. ChannelInv' /\ AnswerInv'
    BY <2>1, <2>2 DEF WorkerInv, ChannelInv, AnswerInv, PastTheWrite, Open
  <2>5. EndInv'
    BY <2>1 DEF WorkerInv, EndInv, RemovalAfterTheWrite, UnaskedCancelSparesTheWrite
  <2> QED
    BY <2>3, <2>4, <2>5 DEF WorkerInv
<1>2. CASE state = "WaitingForConfirmation" /\ phase # "gone"
  <2>1. /\ decisions' = Append(decisions, decision) /\ state' = "Running"
        /\ activity' = IF decision = "Approved" THEN "Write" ELSE activity
        /\ requested' = (requested \/ decision # "Approved")
        /\ approval' = IF decision # "Approved" THEN approval
                       ELSE IF cancel THEN "afterCancel" ELSE "given"
        /\ UNCHANGED <<messages, cancel>>
    BY <1>2 DEF Submit
  <2>2. /\ activity = "Awaiting" /\ decisions = <<>> /\ approval = "none"
        /\ phase \notin {"prepare", "asking"} \cup Past
    BY <1>2 DEF WorkerInv, AnswerInv, Open
  <2>3. decisions' \in Seq({"Approved", "Cancelled"}) /\ Len(decisions') <= 1 /\ Head(decisions') = decision
    BY <2>1, <2>2
  <2>4. InFlight' = InFlight /\ InOrder' = InOrder
    BY <2>1, SameChannel
  <2>5. InFlight \subseteq AfterAnswer
    BY <2>2 DEF WorkerInv, ChannelInv, MayLearn
  <2>6. TypeOK'
    <3>1. activity' \in {"Prepare", "Awaiting", "Write", "Verify", "Finished"} /\ requested' \in BOOLEAN
          /\ approval' \in {"none", "given", "afterCancel"} /\ state' \in States
      BY <2>1, <2>2 DEF WorkerInv, TypeOK, States
    <3> QED
      BY <2>1, <2>3, <3>1 DEF WorkerInv, TypeOK
  <2>7. ChannelInv'
    <3>1. MayLearn(activity') = MayLearn(activity) /\ activity' # "Verify"
      BY <2>1, <2>2 DEF MayLearn
    <3>2. "Write" \notin InFlight /\ "Verify" \notin InFlight
      BY <2>2 DEF WorkerInv, ChannelInv
    <3> QED
      BY <2>1, <2>4, <3>1, <3>2 DEF WorkerInv, ChannelInv, PastTheWrite
  <2>8. AnswerInv'
    <3>1. ~Open'
      BY <2>1, <2>4, <2>5 DEF Open, AfterAnswer
    <3> QED
      BY <2>1, <2>2, <2>3, <3>1 DEF WorkerInv, AnswerInv
  <2>9. EndInv'
    BY <1>2, <2>1, <2>2 DEF WorkerInv, EndInv, RemovalAfterTheWrite, UnaskedCancelSparesTheWrite, Terminal
  <2> QED
    BY <2>6, <2>7, <2>8, <2>9 DEF WorkerInv
<1> QED
  BY <1>1, <1>2 DEF Submit

\* A cancellation; one that was not asked about only before or after the write.
LEMMA Cancels ==
  ASSUME WorkerInv, cancel' \in BOOLEAN, cancel => cancel',
         unasked' \in BOOLEAN, unasked' => cancel',
         unasked' /\ ~unasked => activity \in {"Prepare", "Verify"},
         requested' \in BOOLEAN, prompt' \in BOOLEAN, stopDialog' \in BOOLEAN,
         UNCHANGED <<phase, bound, outcome, messages, decisions, connected, state, removal,
                     activity, approval>>
  PROVE  WorkerInv'
<1>1. InFlight' = InFlight /\ InOrder' = InOrder
  BY SameChannel
<1>2. TypeOK'
  BY DEF WorkerInv, TypeOK
<1>3. ChannelInv' /\ AnswerInv'
  BY <1>1 DEF WorkerInv, ChannelInv, AnswerInv, PastTheWrite, Open
<1>4. UnaskedCancelSparesTheWrite'
  <2>1. activity = "Prepare" => approval # "given"
    BY DEF WorkerInv, AnswerInv
  <2>2. activity = "Prepare" => phase \notin Past /\ outcome.stage \notin {"Write", "AfterSync"}
    BY <2>1 DEF WorkerInv, AnswerInv
  <2>3. activity = "Verify" => PastTheWrite
    BY DEF WorkerInv, ChannelInv
  <2> QED
    BY <2>2, <2>3 DEF WorkerInv, EndInv, UnaskedCancelSparesTheWrite, PastTheWrite, Past, Writing
<1>5. EndInv'
  BY <1>4 DEF WorkerInv, EndInv, RemovalAfterTheWrite
<1> QED
  BY <1>2, <1>3, <1>5 DEF WorkerInv

LEMMA UserKeeps == WorkerInv /\ User => WorkerInv'
<1> SUFFICES ASSUME WorkerInv, User PROVE WorkerInv'
  OBVIOUS
<1>1. CASE Respond
  BY <1>1, Answers DEF Respond, worker, WorkerInv, TypeOK
<1>2. CASE CancelPressed
  <2>1. CASE CancelAction = "RequestNow" /\ cancel' = TRUE /\ requested' = TRUE /\ unasked' = TRUE
             /\ UNCHANGED <<messages, decisions, state, activity, stopDialog, approval>>
    <3>1. activity \in {"Prepare", "Verify"}
      BY <2>1 DEF CancelAction, WorkerInv, TypeOK
    <3> QED
      BY <1>2, <2>1, <3>1, Cancels DEF CancelPressed, worker, WorkerInv, TypeOK
  <2>2. CASE Submit("Cancelled") /\ UNCHANGED <<stopDialog, unasked>>
    BY <1>2, <2>2, Answers DEF CancelPressed, worker, WorkerInv, TypeOK
  <2>3. CASE stopDialog' = TRUE /\ UNCHANGED <<channels, state, activity, requested, memory>>
    BY <1>2, <2>3, Cancels DEF CancelPressed, worker, channels, memory, WorkerInv, TypeOK, EndInv
  <2> QED
    BY <1>2, <2>1, <2>2, <2>3 DEF CancelPressed
<1>3. CASE StopResponse
  <2>1. /\ UNCHANGED <<phase, bound, outcome, messages, decisions, connected, state, removal,
                       activity, prompt, approval, unasked>>
        /\ stopDialog' = FALSE
        /\ (cancel' = TRUE /\ requested' = TRUE) \/ UNCHANGED <<cancel, requested>>
    BY <1>3 DEF StopResponse, worker, handle, memory
  <2>2. /\ cancel \in BOOLEAN /\ requested \in BOOLEAN /\ prompt \in BOOLEAN /\ unasked \in BOOLEAN
        /\ unasked => cancel
    BY DEF WorkerInv, TypeOK, EndInv
  <2> QED
    BY <2>1, <2>2, Cancels
<1>4. CASE Leave
  <2>1. /\ connected' = FALSE /\ messages' = <<>>
        /\ UNCHANGED <<phase, bound, outcome, decisions, cancel, state, removal, activity, requested,
                       prompt, stopDialog, approval, unasked>>
    BY <1>4 DEF Leave, worker, view, memory
  <2>2. InFlight' = {} /\ InOrder'
    BY <2>1 DEF InFlight, InOrder
  <2>3. TypeOK'
    <3>1. messages' \in Seq(Message)
      <4>1. messages' = <<>>
        BY <2>1
      <4> QED
        BY <4>1
    <3>2. connected' \in BOOLEAN
      BY <2>1
    <3>3. UNCHANGED <<phase, bound, outcome, decisions, cancel, state, removal, activity, requested,
                      prompt, stopDialog, approval, unasked>>
      BY <2>1
    <3> QED
      BY <3>1, <3>2, <3>3 DEF WorkerInv, TypeOK, Message
  <2>4. ChannelInv' /\ AnswerInv'
    BY <2>1, <2>2 DEF WorkerInv, ChannelInv, AnswerInv, PastTheWrite, Open
  <2>5. EndInv'
    BY <2>1 DEF WorkerInv, EndInv, RemovalAfterTheWrite, UnaskedCancelSparesTheWrite
  <2> QED
    BY <2>3, <2>4, <2>5 DEF WorkerInv
<1> QED
  BY <1>1, <1>2, <1>3, <1>4 DEF User

LEMMA WorkerStutters == WorkerInv /\ UNCHANGED vars => WorkerInv'
<1> SUFFICES ASSUME WorkerInv, UNCHANGED vars PROVE WorkerInv'
  OBVIOUS
<1> QED
  BY Cancels DEF vars, worker, channels, handle, view, memory, WorkerInv, TypeOK, EndInv

LEMMA WorkerKeeps == WorkerInv /\ [Next]_vars => WorkerInv'
BY PrepareKeeps, AskKeeps, PollKeeps, AuthorizeKeeps, WriteKeeps, SyncKeeps, VerifyKeeps,
   FinishKeeps, PanicKeeps, ReceiveEventKeeps, ReceiveRequestKeeps, ReceiveFinishedKeeps,
   ReceiveClosedKeeps, UserKeeps, WorkerStutters
DEF Next, Work, Receive

-----------------------------------------------------------------------------

\* Every variable keeps its type, and one answer at most is ever in flight
\* (submit_confirmation).
THEOREM WorkerIsTyped == Spec => []TypeOK
<1>1. WorkerInv => TypeOK
  BY DEF WorkerInv
<1> QED
  BY <1>1, InitWorker, WorkerKeeps, PTL DEF Spec

\* Only an approval given before any cancellation leads past the confirmation, whether
\* or not the UI may go away (ChannelObserver::request_confirmation).
THEOREM WritesFollowAnApproval == Spec => []WritesOnlyOnApproval
<1>1. WorkerInv => WritesOnlyOnApproval
  BY DEF WorkerInv, TypeOK, AnswerInv, WritesOnlyOnApproval, Past
<1> QED
  BY <1>1, InitWorker, WorkerKeeps, PTL DEF Spec

\* A cancellation that nobody was warned about never interrupts a write
\* (Tracker::cancel_action).
THEOREM UnaskedCancelsAreSafe == Spec => []UnaskedCancelSparesTheWrite
<1>1. WorkerInv => UnaskedCancelSparesTheWrite
  BY DEF WorkerInv, EndInv
<1> QED
  BY <1>1, InitWorker, WorkerKeeps, PTL DEF Spec

\* Safe Removal is offered after every write that ended in order, and after no other
\* operation (removal_for, removal_allowed).
THEOREM RemovalIsOfferedAfterTheWrite == Spec => []RemovalAfterTheWrite
<1>1. WorkerInv => RemovalAfterTheWrite
  BY DEF WorkerInv, EndInv
<1> QED
  BY <1>1, InitWorker, WorkerKeeps, PTL DEF Spec

\* What the UI was told of the end stays (channel_closed).
THEOREM EndsAreFinal == Spec => TheEndIsFinal
<1>1. WorkerInv /\ [Next]_vars => [(state \in Terminal) => state' = state]_vars
  <2> SUFFICES ASSUME WorkerInv, Next, state \in Terminal PROVE state' = state
    OBVIOUS
  <2>1. messages = <<>> /\ state # "WaitingForConfirmation" /\ state # "Started"
    BY DEF WorkerInv, EndInv, Terminal
  <2>2. ASSUME NEW decision, Submit(decision) PROVE state' = state
    BY <2>1, <2>2 DEF Submit
  <2>3. CASE Work \/ Panic
    BY <2>3 DEF Work, Prepare, Ask, Poll, Answered, Authorize, Write, Sync, Verify, Finish, Panic,
       Enter, Return, handle
  <2>4. CASE Receive
    BY <2>1, <2>4 DEF Receive, ReceiveEvent, ReceiveRequest, ReceiveFinished, ReceiveClosed
  <2>5. CASE User
    BY <2>2, <2>5 DEF User, Respond, CancelPressed, StopResponse, Leave, handle
  <2> QED
    BY <2>3, <2>4, <2>5 DEF Next
<1> QED
  BY <1>1, InitWorker, WorkerKeeps, PTL DEF Spec, TheEndIsFinal

-----------------------------------------------------------------------------
(* The course of the operation.                                            *)

\* run_on ends where its part may end.
LEMMA ReturnEnds ==
  ASSUME NEW kind, NEW stage, Return(kind, stage)
  PROVE  /\ Place' = "over" /\ UNCHANGED cancel
         /\ outcome' = [kind |-> kind, stage |-> stage]
  BY DEF Return, Place, channels

\* A phase of run_on is entered: whatever the channel is told, nothing is asked.
LEMMA EnterGoesOn ==
  ASSUME NEW next, NEW event, Enter(next, event)
  PROVE  phase' = next /\ UNCHANGED <<cancel, outcome>>
  BY DEF Enter

\* What the worker thread does is a step of the course, or none that counts.
LEMMA WorkKeepsCourse ==
  ASSUME Work
  PROVE  [Course!CourseNext]_(Course!courseVars)
<1> USE DEF Course!CourseNext, Course!courseVars, Course!Following, Course!Parts,
            Course!Failures, Course!CancelPoints, Course!Polling
<1>1. CASE Prepare
  <2>1. phase = "prepare" /\ Place = "prepare"
    BY <1>1 DEF Prepare, Place
  <2>2. CASE ~cancel /\ Enter("asking", "Prepare")
    BY <2>1, <2>2, EnterGoesOn DEF Place, Course!Proceed
  <2>3. ASSUME NEW stage \in {"Target", "Image"}, Return("Failed", stage)
        PROVE  Course!FailAt
    BY <2>1, <2>3, ReturnEnds DEF Course!FailAt, Course!EndWith
  <2>4. ASSUME cancel, NEW stage \in {"Preflight", "BeforeConfirmation"}, Return("Cancelled", stage)
        PROVE  Course!CancelAt
    BY <2>1, <2>4, ReturnEnds DEF Course!CancelAt, Course!EndWith
  <2> QED
    BY <1>1, <2>2, <2>3, <2>4 DEF Prepare
<1>2. CASE Ask
  <2>1. phase = "asking" /\ Place = "confirm"
    BY <1>2 DEF Ask, Place
  <2>2. CASE Enter("polling", "ConfirmationRequested")
    BY <2>1, <2>2, EnterGoesOn DEF Place
  <2>3. CASE Return("Failed", "ConfirmationInputClosed")
    BY <2>1, <2>3, ReturnEnds DEF Course!FailAt, Course!EndWith
  <2> QED
    BY <1>2, <2>2, <2>3 DEF Ask
<1>3. CASE Poll
  <2>1. phase = "polling" /\ Place = "confirm"
    BY <1>3 DEF Poll, Place
  <2>2. CASE Return("Cancelled", "Confirmation")
    BY <2>1, <2>2, ReturnEnds DEF Course!CancelAt, Course!EndWith
  <2>3. CASE ~cancel /\ Answered
    <3>1. UNCHANGED cancel
      BY <2>3 DEF Answered
    <3>2. CASE phase' = "authorize" /\ UNCHANGED outcome
      BY <2>1, <2>3, <3>1, <3>2 DEF Place, Course!Proceed
    <3>3. CASE phase' = "returned" /\ outcome' = [kind |-> "Cancelled", stage |-> "Confirmation"]
      BY <2>1, <3>1, <3>3 DEF Place, Course!CancelAt, Course!EndWith
    <3> QED
      BY <2>3, <3>2, <3>3 DEF Answered
  <2>4. CASE Return("Failed", "ConfirmationInputClosed")
    BY <2>1, <2>4, ReturnEnds DEF Course!FailAt, Course!EndWith
  <2> QED
    BY <1>3, <2>2, <2>3, <2>4 DEF Poll
<1>4. CASE Authorize
  <2>1. phase = "authorize" /\ Place = "authorize"
    BY <1>4 DEF Authorize, Place
  <2>2. CASE Enter("write", "Write")
    BY <2>1, <2>2, EnterGoesOn DEF Place, Course!Proceed
  <2>3. ASSUME NEW stage \in {"WriteGate", "WriteDeviceRejected", "ImageBinding", "ReaderOpen"},
               Return("Failed", stage)
        PROVE  Course!FailAt
    BY <2>1, <2>3, ReturnEnds DEF Course!FailAt, Course!EndWith
  <2> QED
    BY <1>4, <2>2, <2>3 DEF Authorize
<1>5. CASE Write
  <2>1. phase = "write" /\ Place = "write"
    BY <1>5 DEF Write, Place
  <2>2. CASE Enter("sync", "Write")
    BY <2>1, <2>2, EnterGoesOn DEF Place, Course!Proceed
  <2>3. CASE Return("Failed", "Write")
    BY <2>1, <2>3, ReturnEnds DEF Course!FailAt, Course!EndWith
  <2>4. CASE cancel /\ Return("Cancelled", "Write")
    BY <2>1, <2>4, ReturnEnds DEF Course!CancelAt, Course!EndWith
  <2> QED
    BY <1>5, <2>2, <2>3, <2>4 DEF Write
<1>6. CASE Sync
  <2>1. phase = "sync" /\ Place = "sync"
    BY <1>6 DEF Sync, Place
  <2>2. CASE ~cancel /\ Enter("verify", "Verify")
    BY <2>1, <2>2, EnterGoesOn DEF Place, Course!Proceed
  <2>3. CASE ~cancel /\ Return("Completed", "Skipped")
    BY <2>1, <2>3, ReturnEnds DEF Course!Complete, Course!EndWith
  <2>4. CASE cancel /\ Return("Cancelled", "AfterSync")
    BY <2>1, <2>4, ReturnEnds DEF Course!CancelAt, Course!EndWith
  <2>5. ASSUME NEW stage \in {"Sync", "SyncWorkerPanicked"}, Return("Failed", stage)
        PROVE  Course!FailAt
    BY <2>1, <2>5, ReturnEnds DEF Course!FailAt, Course!EndWith
  <2> QED
    BY <1>6, <2>2, <2>3, <2>4, <2>5 DEF Sync
<1>7. CASE Verify
  <2>1. phase = "verify" /\ Place = "verify"
    BY <1>7 DEF Verify, Place
  <2>2. CASE Return("Completed", "Verified")
    BY <2>1, <2>2, ReturnEnds DEF Course!Complete, Course!EndWith
  <2>3. ASSUME NEW stage \in {"VerifyNotStarted", "Verify"}, Return("Failed", stage)
        PROVE  Course!FailAt
    BY <2>1, <2>3, ReturnEnds DEF Course!FailAt, Course!EndWith
  <2>4. ASSUME cancel, NEW stage \in {"BeforeVerify", "Verify"}, Return("Cancelled", stage)
        PROVE  Course!CancelAt
    BY <2>1, <2>4, ReturnEnds DEF Course!CancelAt, Course!EndWith
  <2> QED
    BY <1>7, <2>2, <2>3, <2>4 DEF Verify
<1>8. CASE Finish
  BY <1>8 DEF Finish, Place
<1> QED
  BY <1>1, <1>2, <1>3, <1>4, <1>5, <1>6, <1>7, <1>8 DEF Work

\* And so is all the rest: the UI asks to cancel, or changes nothing that counts.
LEMMA StepsKeepCourse ==
  ASSUME TypeOK, [Next]_vars
  PROVE  [Course!CourseNext]_(Course!courseVars)
<1>1. CASE Work
  BY <1>1, WorkKeepsCourse
<1>2. CASE Panic
  <2>1. Place \in Course!Parts
    BY <1>2 DEF Panic, RunOn, Before, Writing, Place, Course!Parts, Course!Following
  <2> QED
    BY <1>2, <2>1 DEF Panic, channels, Place, Course!CourseNext, Course!BreakOff
<1>3. CASE Receive
  <2>1. UNCHANGED <<phase, cancel, outcome>>
    BY <1>3 DEF Receive, ReceiveEvent, ReceiveRequest, ReceiveFinished, ReceiveClosed, worker,
       channels
  <2> QED
    BY <2>1 DEF Place, Course!courseVars
<1>4. CASE User
  <2>1. UNCHANGED <<phase, outcome>> /\ (cancel' = TRUE \/ UNCHANGED cancel)
    <3>1. ASSUME NEW decision, Submit(decision) PROVE UNCHANGED cancel
      BY <3>1 DEF Submit, channels
    <3>2. CASE Respond
      BY <3>1, <3>2 DEF Respond, worker
    <3>3. CASE CancelPressed
      BY <3>1, <3>3 DEF CancelPressed, worker, channels
    <3>4. CASE StopResponse \/ Leave
      BY <3>4 DEF StopResponse, Leave, worker
    <3> QED
      BY <1>4, <3>2, <3>3, <3>4 DEF User
  <2>2. UNCHANGED Place
    BY <2>1 DEF Place
  <2> QED
    BY <2>1, <2>2 DEF Course!CourseNext, Course!AskToCancel, Course!courseVars
<1>5. CASE UNCHANGED vars
  BY <1>5 DEF vars, worker, channels, Place, Course!courseVars
<1> QED
  BY <1>1, <1>2, <1>3, <1>4, <1>5 DEF Next

\* The worker and its UI keep to the course of a write operation, whatever the user
\* does and however long the channel is (spawn_on, run_on).
THEOREM TheWorkerKeepsItsCourse == Spec => KeepsItsCourse
<1>1. Init => Course!CourseInit
  BY DEF Init, Nothing, Place, Course!CourseInit, Course!NoEnding
<1> QED
  BY <1>1, WorkerIsTyped, StepsKeepCourse, PTL
  DEF Spec, KeepsItsCourse, Course!CourseSpec

\* Once cancelled before the user's answer was taken, the course never gets to the
\* target any more.
LEMMA EarlyCancelStays ==
  ASSUME cancel, Place \in Course!Harmless \cup {"over"},
         [Course!CourseNext]_(Course!courseVars)
  PROVE  cancel' /\ Place' \in Course!Harmless \cup {"over"}
  BY DEF Course!CourseNext, Course!courseVars, Course!Proceed, Course!Complete, Course!FailAt,
     Course!CancelAt, Course!BreakOff, Course!AskToCancel, Course!EndWith, Course!Following,
     Course!Parts, Course!Polling, Course!Harmless

\* A cancellation that reaches the handle before the worker takes the answer is in
\* time, whatever is in the channels (ChannelObserver::request_confirmation).
THEOREM EarlyCancelsAreInTime == Spec => Course!EarlyCancelIsInTime
<1> DEFINE Stopped == cancel /\ Place \in Course!Harmless \cup {"over"}
<1>1. Stopped /\ [Course!CourseNext]_(Course!courseVars) => Stopped'
  BY EarlyCancelStays
<1>2. cancel /\ Place \in Course!Harmless => Stopped
  OBVIOUS
<1>3. Stopped => Place \in Course!Harmless \cup {"over"}
  OBVIOUS
<1> HIDE DEF Stopped
<1> QED
  BY <1>1, <1>2, <1>3, TheWorkerKeepsItsCourse, PTL
  DEF KeepsItsCourse, Course!CourseSpec, Course!EarlyCancelIsInTime

\* No operation is reported as cancelled that nobody cancelled, by the handle or by an
\* answer (OperationOutcome::Cancelled).
THEOREM CancellationsAreAskedFor == Spec => []Course!CancelledForAReason
<1>1. Course!CourseInit => Course!CancelledForAReason
  BY DEF Course!CourseInit, Course!NoEnding, Course!CancelledForAReason
<1>2. Course!CancelledForAReason /\ [Course!CourseNext]_(Course!courseVars)
      => Course!CancelledForAReason'
  BY DEF Course!CourseNext, Course!courseVars, Course!Proceed, Course!Complete, Course!FailAt,
     Course!CancelAt, Course!BreakOff, Course!AskToCancel, Course!EndWith, Course!Parts,
     Course!CancelPoints, Course!Following, Course!CancelledForAReason
<1> QED
  BY <1>1, <1>2, TheWorkerKeepsItsCourse, PTL DEF KeepsItsCourse, Course!CourseSpec
=============================================================================
