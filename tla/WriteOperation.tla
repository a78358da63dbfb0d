--------------------------- MODULE WriteOperation ---------------------------
(***************************************************************************)
(* One write operation: the sequence orchestration::operation::run_on runs,*)
(* with every step of core, write_job and writer it drives, against a      *)
(* device and an image file that change while it runs.                     *)
(*                                                                         *)
(* One action is what happens between two moments at which the outside     *)
(* world can be observed to have moved: a read of UDisks2's object tree, a *)
(* read of sysfs, an open, a poll of the cancel handle, the transfer of a  *)
(* chunk, fsync, an fstat of the image.  A call that only computes on      *)
(* values already held belongs to the action that read those values.       *)
(*                                                                         *)
(* The image is 1 .. request.size, a chunk at a time.  "new" is the content*)
(* it had when it was opened, "other" any other content.                   *)
(***************************************************************************)
EXTENDS Device

CONSTANTS ImageSizes,    \* logical sizes of the images that may be chosen
          Modes,         \* Verify modes that may be chosen
          Kinds,         \* kinds of image: "Raw", "Compressed"
          Origins,       \* "Listed" (GUI) or "BlockPathOnly" (CLI)
          Disturbances   \* what may happen while the operation runs

ASSUME OperationAssumption ==
  /\ ImageSizes \subseteq Nat
  /\ Modes \subseteq {"None", "Quick", "Full"}
  /\ Kinds \subseteq {"Raw", "Compressed"}
  /\ Origins \subseteq {"Listed", "BlockPathOnly"}
  /\ Disturbances \subseteq {"plug", "use", "source", "cancel", "foreign"}

VARIABLES
  request,     \* WriteOperationRequest, with what the image turns out to be
  pc,          \* where run_on is
  listed,      \* the snapshot the device list showed (origin Listed)
  base,        \* the selection's baseline
  cur,         \* the snapshot the last device open was based on
  half,        \* a snapshot whose object tree half has been read
  altered,     \* the image file is no longer as it was opened
  cancel,      \* CancelHandle: the user asked to stop
  confirmed,   \* the human confirmation was given
  asked,       \* how long hist was when the confirmation was requested
  settled,     \* UDisks2 had caught up with that moment when it was given
  fd,          \* the one device descriptor the operation holds
  pos,         \* chunks transferred (write) or last chunk compared (verify)
  written,     \* what the kernel accepted for each chunk
  media,       \* what the medium holds in each chunk
  touched,     \* disk sequence numbers of the instances that received bytes
  late,        \* chunks written after the cancellation was requested
  overwritten, \* chunks another process changed after the write
  outcome      \* OperationOutcome

selection == <<listed, base, cur, half>>
consent == <<confirmed, asked, settled>>
data == <<written, media, touched, late, overwritten>>
outside == <<hist, tree, altered, cancel>>
operation == <<request, pc, selection, consent, fd, pos, data, outcome>>
vars == <<outside, operation>>

Requests == [size : ImageSizes, mode : Modes, kind : Kinds, origin : Origins]
Chunks == 1 .. request.size

PCs == { "list", "listSeq", "select", "selectSeq", "reselect", "reselectSeq",
         "image", "preflight", "recheck", "recheckSeq", "ready", "confirm",
         "gate", "gateSeq", "open", "bind", "begin", "writeSource",
         "writeCheck", "writeChunk", "writeRecheck", "sync", "syncHere",
         "afterSync", "verifyPause", "verify", "verifySeq", "openVerify",
         "bindVerify", "verifySource", "verifyCheck", "verifyChunk",
         "verifyRecheck", "done" }

NoSnapshot == [drive |-> CHOOSE d \in Drives : TRUE, use |-> "free", seq |-> Unknown]

Init ==
  /\ DeviceInit
  /\ request \in Requests
  /\ pc = IF request.origin = "Listed" THEN "list" ELSE "select"
  /\ listed = NoSnapshot /\ base = NoSnapshot /\ cur = NoSnapshot /\ half = NoSnapshot
  /\ altered = FALSE /\ cancel = FALSE
  /\ confirmed = FALSE /\ asked = 0 /\ settled = FALSE
  /\ fd = [access |-> "closed", seq |-> Unknown, drive |-> NoSnapshot.drive]
  /\ pos = 0
  /\ written = [i \in Chunks |-> "none"]
  /\ media = [i \in Chunks |-> "old"]
  /\ touched = {} /\ late = 0 /\ overwritten = {}
  /\ outcome = [kind |-> "Running", stage |-> "none", modified |-> FALSE]

-----------------------------------------------------------------------------
(* How a step ends.                                                        *)

Go(next) == pc' = next /\ UNCHANGED outcome

\* run_on returns: whatever it still holds is dropped, the descriptor first.
End(kind, stage, modified) ==
  /\ pc' = "done"
  /\ outcome' = [kind |-> kind, stage |-> stage, modified |-> modified]
  /\ fd' = [fd EXCEPT !.access = "closed"]

Fail(stage, modified) == End("Failed", stage, modified)
Cancelled(stage, modified) == End("Cancelled", stage, modified)

\* `?` and `match .. Err => return Failed`: on to `next`, or out.
Judge(ok, next, stage, modified) ==
  \/ ok /\ Go(next) /\ UNCHANGED fd
  \/ ~ok /\ Fail(stage, modified)

-----------------------------------------------------------------------------
(* Platform::fetch_snapshot.  The tree half is read at `here`; the sysfs   *)
(* half, and the judgement on the whole, come with the next step.          *)

FetchTree(here, there) ==
  /\ pc = here
  /\ hist[tree].present
  /\ half' = TreeHalf(half)
  /\ Go(there)
  /\ UNCHANGED <<outside, request, listed, base, cur, consent, fd, pos, data>>

\* NotFound once the tree no longer shows the path, Error at any time.
FetchFails(here, stage, modified) ==
  /\ pc = here
  /\ Fail(stage, modified)
  /\ UNCHANGED <<outside, request, selection, consent, pos, data>>

Fetched(q) == [half EXCEPT !.seq = q]

-----------------------------------------------------------------------------
(* Target and image: nothing is opened on the target.                      *)

\* candidates::list_candidates and the user's choice of an entry.
List ==
  /\ pc = "listSeq"
  /\ \E q \in DiskseqReads : listed' = Fetched(q)
  /\ Go("select")
  /\ UNCHANGED <<outside, request, base, cur, half, consent, fd, pos, data>>

\* TargetRef::check_against.
TargetUnchanged(s) == request.origin = "Listed" => SameDevice(listed, s)

\* candidates::select_from_outcome with core::select.
Select ==
  /\ pc = "selectSeq"
  /\ \E q \in DiskseqReads :
       /\ base' = Fetched(q)
       /\ Judge(TargetUnchanged(base') /\ SafeToWrite(base'), "reselect", "Target", FALSE)
  /\ UNCHANGED <<outside, request, listed, cur, half, consent, pos, data>>

\* core::check_identity_instance_safety.
StillSelected(s) == SameDevice(base, s) /\ SafeToWrite(s)

\* core::revalidate and is_ready_to_open: just after the selection, and again
\* after the Preflight of a compressed image.
Revalidate(here, next, stage) ==
  /\ pc = here
  /\ \E q \in DiskseqReads : Judge(StillSelected(Fetched(q)), next, stage, FALSE)
  /\ UNCHANGED <<outside, request, selection, consent, pos, data>>

\* image_source::open_image; Quick Verify of a compressed image is refused.
OpenImage ==
  /\ pc = "image"
  /\ \/ request.kind = "Raw" /\ Go("ready") /\ UNCHANGED fd
     \/ request.kind = "Compressed" /\ request.mode # "Quick" /\ Go("preflight") /\ UNCHANGED fd
     \/ Fail("Image", FALSE)
  /\ UNCHANGED <<outside, request, selection, consent, pos, data>>

\* prepare_compressed_image: decode everything, bounded by the target's
\* capacity, polling the cancel handle; then check the file once more.
Preflight ==
  /\ pc = "preflight"
  /\ \/ cancel /\ Cancelled("Preflight", FALSE)
     \/ /\ ~cancel /\ ~altered /\ request.size <= Size[base.drive]
        /\ Go("recheck") /\ UNCHANGED fd
     \/ Fail("Image", FALSE)
  /\ UNCHANGED <<outside, request, selection, consent, pos, data>>

-----------------------------------------------------------------------------
(* The human confirmation.                                                 *)

\* ImagePrepared::request_confirmation, then the observer shows the request.
RequestConfirmation ==
  /\ pc = "ready"
  /\ \/ cancel /\ Cancelled("BeforeConfirmation", FALSE) /\ UNCHANGED asked
     \/ ~cancel /\ asked' = Len(hist) /\ Go("confirm") /\ UNCHANGED fd
  /\ UNCHANGED <<outside, request, selection, confirmed, settled, pos, data>>

\* The user approves, or types the expected text.
Confirm ==
  /\ pc = "confirm"
  /\ ~cancel
  /\ confirmed' = TRUE
  /\ settled' = (tree >= asked)
  /\ Go("gate")
  /\ UNCHANGED <<outside, request, selection, asked, fd, pos, data>>

\* The user types something else, declines, or the input closes or fails.
Refuse ==
  /\ pc = "confirm"
  /\ ~cancel
  /\ \/ Fail("Confirmation", FALSE)
     \/ Cancelled("Confirmation", FALSE)
  /\ UNCHANGED <<outside, request, selection, consent, pos, data>>

\* The observer polls the cancel handle; cancellation wins over an answer.
ConfirmationCancelled ==
  /\ pc = "confirm"
  /\ cancel
  /\ Cancelled("Confirmation", FALSE)
  /\ UNCHANGED <<outside, request, selection, consent, pos, data>>

-----------------------------------------------------------------------------
(* The fresh Write Gate, the exclusive open and the FD binding.            *)

\* WritePlan::new: F, G, H, I.
Plannable(s) == request.size > 0 /\ Size[s.drive] > 0 /\ request.size <= Size[s.drive]

\* core::confirmation_matches: the token was made from the selection's
\* baseline, and within one operation nothing else it froze can differ.
TokenMatches(s) == confirmed /\ s.seq = base.seq /\ Size[s.drive] = Size[base.drive]

\* core::prepare_for_open.
WriteGate ==
  /\ pc = "gateSeq"
  /\ \E q \in DiskseqReads :
       /\ cur' = Fetched(q)
       /\ Judge(StillSelected(cur') /\ Plannable(cur') /\ TokenMatches(cur'),
                "open", "WriteGate", FALSE)
  /\ UNCHANGED <<outside, request, listed, base, half, consent, pos, data>>

\* What OpenDevice opens is whatever the kernel has at the path by now.
Opened(access) == fd' = [access |-> access, seq |-> Now.seq, drive |-> Now.drive]

\* Mistaken variant: the open without O_EXCL.
OpenWriteShared ==
  /\ pc = "open"
  /\ \/ Now.present /\ Opened("write") /\ Go("bind")
     \/ Fail("WriteDeviceRejected", FALSE)
  /\ UNCHANGED <<outside, request, selection, consent, pos, data>>

\* OpenAccess::WriteExclusive: O_EXCL fails on a disk that is in use.
OpenWrite ==
  /\ pc = "open"
  /\ \/ Now.present /\ Now.use = "free" /\ Opened("write") /\ Go("bind")
     \/ Fail("WriteDeviceRejected", FALSE)
  /\ UNCHANGED <<outside, request, selection, consent, pos, data>>

\* finalize_prepared_write / VerifyReadyToOpen::finalize: check_fd_binding.
BindFd(here, next, stage, modified) ==
  /\ pc = here
  /\ \E q \in {Unknown, fd.seq} : Judge(FdMatches(cur, q, fd.drive), next, stage, modified)
  /\ UNCHANGED <<outside, request, selection, consent, pos, data>>

\* AuthorizedExecution::begin_write: the source's reader may fail to open.
BeginWrite ==
  /\ pc = "begin"
  /\ \/ Go("writeSource") /\ UNCHANGED fd
     \/ Fail("ReaderOpen", FALSE)
  /\ UNCHANGED <<outside, request, selection, consent, pos, data>>

-----------------------------------------------------------------------------
(* The write: writer::write between two checks of the source.              *)

\* Mistaken variant: the source is not compared with its snapshot.
SourceCheckSkipped(here, next, stage, modified) ==
  /\ pc = here
  /\ Go(next)
  /\ UNCHANGED <<outside, request, selection, consent, fd, pos, data>>

\* SourceIdentity::revalidate; the fstat itself may fail (Unverifiable).
SourceCheck(here, next, stage, modified) ==
  /\ pc = here
  /\ \/ ~altered /\ Go(next) /\ UNCHANGED fd
     \/ Fail(stage, modified)
  /\ UNCHANGED <<outside, request, selection, consent, pos, data>>

\* Mistaken variant: the loop never polls `cancel`.
WriteCheckWithoutPoll ==
  /\ pc = "writeCheck"
  /\ \/ pos >= request.size /\ Go("writeRecheck") /\ UNCHANGED fd
     \/ pos < request.size /\ Go("writeChunk") /\ UNCHANGED fd
  /\ UNCHANGED <<outside, request, selection, consent, pos, data>>

\* The head of the copy loop: finished, or is_cancelled(), or one more chunk.
WriteCheck ==
  /\ pc = "writeCheck"
  /\ \/ pos >= request.size /\ Go("writeRecheck") /\ UNCHANGED fd
     \/ pos < request.size /\ cancel /\ Cancelled("Write", pos > 0)
     \/ pos < request.size /\ ~cancel /\ Go("writeChunk") /\ UNCHANGED fd
  /\ UNCHANGED <<outside, request, selection, consent, pos, data>>

\* The instance behind the descriptor is still the one plugged in.
Alive == Now.present /\ Now.seq = fd.seq

SourceReads == IF altered THEN {"new", "other"} ELSE {"new"}

WriteChunk ==
  /\ pc = "writeChunk"
  /\ Alive
  /\ \E c \in SourceReads : written' = [written EXCEPT ![pos + 1] = c]
  /\ pos' = pos + 1
  /\ touched' = touched \cup {fd.seq}
  /\ late' = late + (IF cancel THEN 1 ELSE 0)
  /\ Go("writeCheck")
  /\ UNCHANGED <<outside, request, selection, consent, fd, media, overwritten>>

\* Mistaken variants: `bytes_written > 0` decides for every error; a failed
\* chunk is tried again.
WriteFailsByCount ==
  /\ pc = "writeChunk"
  /\ \/ Fail("Write", pos > 0) /\ UNCHANGED touched
     \/ Alive /\ Fail("Write", pos > 0) /\ touched' = touched \cup {fd.seq}
  /\ UNCHANGED <<outside, request, selection, consent, pos, written, media, late, overwritten>>

WriteFailsRetried ==
  /\ pc = "writeChunk"
  /\ Go("writeCheck")
  /\ UNCHANGED <<outside, request, selection, consent, fd, pos, data>>

\* SourceRead, SourceTooShort (a truncated file), or TargetWrite, which may
\* have passed some of the chunk on; target_may_be_modified_for_error.
WriteFails ==
  /\ pc = "writeChunk"
  /\ \/ Fail("Write", TRUE) /\ UNCHANGED touched
     \/ altered /\ Fail("Write", pos > 0) /\ UNCHANGED touched
     \/ Alive /\ Fail("Write", TRUE) /\ touched' = touched \cup {fd.seq}
  /\ UNCHANGED <<outside, request, selection, consent, pos, written, media, late, overwritten>>

-----------------------------------------------------------------------------
(* Sync, on a worker thread when one can be had; never skipped.            *)

\* Mistaken variant: no thread, no sync.
SyncThreadSkips ==
  /\ pc = "sync"
  /\ \/ Go("afterSync") /\ UNCHANGED fd
     \/ Fail("SyncWorkerPanicked", TRUE)
  /\ UNCHANGED <<outside, request, selection, consent, pos, data>>

SyncThread ==
  /\ pc = "sync"
  /\ \/ Go("syncHere") /\ UNCHANGED fd                  \* OffMainThread::NotStarted
     \/ Fail("SyncWorkerPanicked", TRUE)
  /\ UNCHANGED <<outside, request, selection, consent, pos, data>>

\* fsync returned Ok.  A failing drive may have stored something else.
Sync ==
  /\ pc \in {"sync", "syncHere"}
  /\ Alive
  /\ \E lost \in SUBSET {i \in Chunks : written[i] # "none"} :
       media' = [i \in Chunks |-> IF i \in lost THEN "bad"
                                  ELSE IF written[i] # "none" THEN written[i] ELSE media[i]]
  /\ Go("afterSync")
  /\ UNCHANGED <<outside, request, selection, consent, fd, pos,
                 written, touched, late, overwritten>>

SyncFails ==
  /\ pc \in {"sync", "syncHere"}
  /\ Fail("Sync", TRUE)
  /\ UNCHANGED <<outside, request, selection, consent, pos, data>>

\* after_successful_sync, then SyncSucceeded::begin_verify, which closes the
\* write descriptor whatever the mode.
AfterSync ==
  /\ pc = "afterSync"
  /\ \/ cancel /\ Cancelled("AfterSync", TRUE)
     \/ ~cancel /\ request.mode = "None" /\ End("Completed", "Skipped", TRUE)
     \/ /\ ~cancel /\ request.mode # "None"
        /\ fd' = [fd EXCEPT !.access = "closed"]
        /\ Go("verifyPause")
  /\ pos' = 0
  /\ UNCHANGED <<outside, request, selection, consent, data>>

-----------------------------------------------------------------------------
(* Verify: a fresh snapshot, a fresh read-only descriptor, direct reads.   *)

\* pause_before_verify (the CLI's test pause may end without an answer), then
\* a poll of the cancel handle.
BeforeVerify ==
  /\ pc = "verifyPause"
  /\ \/ Fail("TestPauseEnded", TRUE)
     \/ cancel /\ Cancelled("BeforeVerify", TRUE)
     \/ ~cancel /\ Go("verify") /\ UNCHANGED fd
  /\ UNCHANGED <<outside, request, selection, consent, pos, data>>

\* Mistaken variant: the same drive is enough, replugged or not.
CheckTargetByIdentity ==
  /\ pc = "verifySeq"
  /\ \E q \in DiskseqReads :
       /\ cur' = Fetched(q)
       /\ Judge(SameIdentity(cur, cur') /\ ~HardHazard(cur'), "openVerify", "VerifyTarget", TRUE)
  /\ UNCHANGED <<outside, request, listed, base, half, consent, pos, data>>

\* PendingVerify::check_target: a mount is fine, a hard hazard is not.
CheckTarget ==
  /\ pc = "verifySeq"
  /\ \E q \in DiskseqReads :
       /\ cur' = Fetched(q)
       /\ Judge(SameDevice(cur, cur') /\ ~HardHazard(cur'), "openVerify", "VerifyTarget", TRUE)
  /\ UNCHANGED <<outside, request, listed, base, half, consent, pos, data>>

\* OpenAccess::ReadOnlyDirect.
OpenVerify ==
  /\ pc = "openVerify"
  /\ \/ Now.present /\ Opened("read") /\ Go("bindVerify")
     \/ Fail("VerifyStart", TRUE)
  /\ UNCHANGED <<outside, request, selection, consent, pos, data>>

\* The chunks a mode compares: quick_verify_ranges or the whole image.
Compared == IF request.mode = "Full" THEN Chunks
            ELSE {1, request.size \div 2 + 1, request.size}

Remaining == {i \in Compared : i > pos}

VerifyCheck ==
  /\ pc = "verifyCheck"
  /\ \/ Remaining = {} /\ Go("verifyRecheck") /\ UNCHANGED fd
     \/ Remaining # {} /\ cancel /\ Cancelled("Verify", TRUE)
     \/ Remaining # {} /\ ~cancel /\ Go("verifyChunk") /\ UNCHANGED fd
  /\ UNCHANGED <<outside, request, selection, consent, pos, data>>

\* Mistaken variant: a buffered read, answered from the page cache.
CachedReads(i) == written[i]

\* What a direct read of chunk i returns: the medium, never the page cache.
TargetReads(i) == media[i]

VerifyChunk ==
  /\ pc = "verifyChunk"
  /\ Alive
  /\ \E i \in Remaining, c \in SourceReads :
       /\ \A j \in Remaining : i <= j
       /\ TargetReads(i) = c
       /\ pos' = i
  /\ Go("verifyCheck")
  /\ UNCHANGED <<outside, request, selection, consent, fd, data>>

\* A mismatch, a read error on either side or an early end.
VerifyFails ==
  /\ pc = "verifyChunk"
  /\ Fail("Verify", TRUE)
  /\ UNCHANGED <<outside, request, selection, consent, pos, data>>

\* Verifying::run's last source check: only a success is re-checked.
VerifyRecheck ==
  /\ pc = "verifyRecheck"
  /\ \/ ~altered /\ End("Completed", "Verified", TRUE)
     \/ Fail("Verify", TRUE)
  /\ UNCHANGED <<outside, request, selection, consent, pos, data>>

-----------------------------------------------------------------------------
(* Everything else that moves while the operation runs.                    *)

Running == pc # "done"

DeviceChanges ==
  /\ Running
  /\ \/ "plug" \in Disturbances /\ (Unplug \/ \E d \in Drives : Plug(d))
     \/ /\ "use" \in Disturbances
        /\ \E u \in Uses : ChangeUse(u, fd.access = "write" /\ fd.seq = Now.seq)
     \/ TreeCatchesUp
  /\ UNCHANGED <<altered, cancel, operation>>

\* Another program writes, truncates or touches the opened image file.
AlterSource ==
  /\ Running /\ "source" \in Disturbances /\ ~altered
  /\ pc \notin {"list", "listSeq", "select", "selectSeq", "reselect", "reselectSeq", "image"}
  /\ altered' = TRUE
  /\ UNCHANGED <<deviceVars, cancel, operation>>

\* CancelHandle::request_cancel, from another thread.
RequestCancel ==
  /\ Running /\ "cancel" \in Disturbances /\ ~cancel
  /\ pc \notin {"list", "listSeq"}
  /\ cancel' = TRUE
  /\ UNCHANGED <<deviceVars, altered, operation>>

\* Once the write descriptor is closed, a mounted filesystem on the written
\* disk is written to by others (an automounter replaying a journal).
ForeignWrite ==
  /\ Running /\ "foreign" \in Disturbances
  /\ fd.access # "write" /\ Now.use = "mounted" /\ Now.seq \in touched
  /\ \E i \in Chunks \ overwritten :
       /\ media' = [media EXCEPT ![i] = "bad"]
       /\ overwritten' = overwritten \cup {i}
  /\ UNCHANGED <<outside, request, pc, selection, consent, fd, pos,
                 written, touched, late, outcome>>

-----------------------------------------------------------------------------
FetchSnapshot ==
  \/ FetchTree("list", "listSeq")
  \/ FetchTree("select", "selectSeq") \/ FetchFails("select", "Target", FALSE)
  \/ FetchTree("reselect", "reselectSeq") \/ FetchFails("reselect", "Target", FALSE)
  \/ FetchTree("recheck", "recheckSeq") \/ FetchFails("recheck", "Image", FALSE)
  \/ FetchTree("gate", "gateSeq") \/ FetchFails("gate", "WriteGate", FALSE)
  \/ FetchTree("verify", "verifySeq") \/ FetchFails("verify", "VerifyTarget", TRUE)

Prepare ==
  \/ List
  \/ Select
  \/ Revalidate("reselectSeq", "image", "Target")
  \/ OpenImage
  \/ Preflight
  \/ Revalidate("recheckSeq", "ready", "Image")
  \/ RequestConfirmation
  \/ ConfirmationCancelled

Authorize ==
  \/ WriteGate
  \/ OpenWrite
  \/ BindFd("bind", "begin", "WriteDeviceRejected", FALSE)
  \/ BeginWrite

Write ==
  \/ SourceCheck("writeSource", "writeCheck", "Write", FALSE)
  \/ WriteCheck
  \/ WriteChunk
  \/ WriteFails
  \/ SourceCheck("writeRecheck", "sync", "Write", TRUE)
  \/ SyncThread
  \/ Sync
  \/ SyncFails
  \/ AfterSync

Verify ==
  \/ BeforeVerify
  \/ CheckTarget
  \/ OpenVerify
  \/ BindFd("bindVerify", "verifySource", "VerifyStart", TRUE)
  \/ SourceCheck("verifySource", "verifyCheck", "Verify", TRUE)
  \/ VerifyCheck
  \/ VerifyChunk
  \/ VerifyFails
  \/ VerifyRecheck

\* What the worker thread does of itself, the user's answer apart.
Step == FetchSnapshot \/ Prepare \/ Authorize \/ Write \/ Verify

Answer == Confirm \/ Refuse

Environment == DeviceChanges \/ AlterSource \/ RequestCancel \/ ForeignWrite

Next == Step \/ Answer \/ Environment

Spec == Init /\ [][Next]_vars

\* The operating system runs the worker thread; nothing obliges the user to
\* answer, a device to come or go, or UDisks2 to catch up.
FairSpec == Spec /\ WF_vars(Step)

-----------------------------------------------------------------------------
(* Properties.                                                             *)

\* Where an operation may end.
Stages == {"none", "Target", "Image", "Preflight", "BeforeConfirmation", "Confirmation",
           "WriteGate", "WriteDeviceRejected", "ReaderOpen", "Write", "Sync",
           "SyncWorkerPanicked", "AfterSync", "Skipped", "TestPauseEnded", "BeforeVerify",
           "VerifyTarget", "VerifyStart", "Verify", "Verified"}

\* Type correctness of every variable of the operation.
TypeOK ==
  /\ hist \in Seq(Node) /\ Len(hist) \in 1 .. MaxEvents
  /\ tree \in 1 .. Len(hist)
  /\ request \in Requests
  /\ pc \in PCs
  /\ listed \in Snapshot /\ base \in Snapshot /\ cur \in Snapshot /\ half \in Snapshot
  /\ altered \in BOOLEAN /\ cancel \in BOOLEAN
  /\ confirmed \in BOOLEAN /\ asked \in 0 .. Len(hist) /\ settled \in BOOLEAN
  /\ fd \in [access : {"closed", "write", "read"}, seq : Nat, drive : Drives]
  /\ pos \in 0 .. request.size
  /\ written \in [Chunks -> {"none", "new", "other"}]
  /\ media \in [Chunks -> {"old", "new", "other", "bad"}]
  /\ touched \subseteq Nat
  /\ late \in Nat
  /\ overwritten \subseteq Chunks
  /\ outcome \in [kind : {"Running", "Completed", "Failed", "Cancelled"},
                  stage : Stages, modified : BOOLEAN]

\* Bytes only ever reach one instance of the device, the one whose disk
\* sequence number the confirmed selection holds; and if UDisks2 had processed
\* the events that preceded the prompt by the time the user answered it, the
\* drive that received them has the serial and the size the user was shown.
\* (The gate, the confirmation token and the FD binding, core.rs, against a
\* device that is replugged or swapped at any moment, and torn snapshots.)
WritesOnlyWhatWasConfirmed ==
  touched # {} =>
    /\ confirmed
    /\ touched = {base.seq}
    /\ settled => \A i \in 1 .. Len(hist) :
                    hist[i].seq = base.seq => SameIdentity(base, hist[i])

\* No byte is written while a filesystem of the target is mounted or something
\* else claims it, although the last look at it is older than the open.
\* (OpenAccess::WriteExclusive and the Safety Engine in the gate.)
NeverWritesWhileInUse ==
  [][<<written, touched>>' # <<written, touched>> => Now.use = "free"]_vars

\* An outcome that says the target was not modified is true: not a byte was
\* passed on.  (target_may_be_modified_for_error and every early return.)
UnmodifiedMeansUntouched ==
  pc = "done" /\ ~outcome.modified => touched = {}

\* The outcomes that follow a successful sync.
SyncedStages == {"AfterSync", "Skipped", "TestPauseEnded", "BeforeVerify",
                 "VerifyTarget", "VerifyStart", "Verify", "Verified"}

\* Once sync has succeeded, all of the image has been written and all of it is
\* what the file held when it was opened, however the file changed in between.
\* (The two source checks of WritingExecution::write, and begin_sync.)
SyncedImageIsTheSelectedOne ==
  pc = "done" /\ outcome.stage \in SyncedStages =>
    \A i \in Chunks : written[i] = "new" /\ media[i] # "old"

\* A verified target holds the image in every chunk its mode compares, save
\* what another process has overwritten since the write.
\* (run_full_verify, run_quick_verify: O_DIRECT reads and the source checks.)
VerifiedTargetHoldsTheImage ==
  pc = "done" /\ outcome.stage = "Verified" =>
    \A i \in Compared : media[i] = "new" \/ i \in overwritten

\* Verify compares the instance that was written, never a replugged one.
\* (check_target against the bound baseline, then the second FD binding.)
VerifyReadsTheWrittenInstance ==
  pc \in {"verifySource", "verifyCheck", "verifyChunk", "verifyRecheck"} =>
    fd.access = "read" /\ touched = {fd.seq}

\* After a cancellation request at most the chunk in flight is still written.
\* (is_cancelled at the head of writer::write's loop.)
CancelStopsWithinOneChunk == late <= 1

\* A cancelled operation ends, without the user's help, wherever it was.
\* (The cancel points, and the prompt's polling of the cancel handle.)
CancelEndsTheOperation == cancel ~> (pc = "done")

\* A confirmed operation ends whatever happens to the device and the file.
ConfirmedOperationEnds == confirmed ~> (pc = "done")

\* Both: no cancel point and no prompt is missed, and no step waits for good.
OperationEnds == CancelEndsTheOperation /\ ConfirmedOperationEnds

\* How many steps run_on may still take: its steps in their order, and two for each
\* chunk that is still to be written or compared.
Order ==
  [list |-> 33, listSeq |-> 32, select |-> 31, selectSeq |-> 30, reselect |-> 29,
   reselectSeq |-> 28, image |-> 27, preflight |-> 26, recheck |-> 25, recheckSeq |-> 24,
   ready |-> 23, confirm |-> 22, gate |-> 21, gateSeq |-> 20, open |-> 19, bind |-> 18,
   begin |-> 17, writeSource |-> 16, writeCheck |-> 15, writeChunk |-> 14, writeRecheck |-> 13,
   sync |-> 12, syncHere |-> 11, afterSync |-> 10, verifyPause |-> 9, verify |-> 8,
   verifySeq |-> 7, openVerify |-> 6, bindVerify |-> 5, verifySource |-> 4, verifyCheck |-> 3,
   verifyChunk |-> 2, verifyRecheck |-> 1, done |-> 0]

WritesLeft == IF Order[pc] >= Order["writeChunk"] THEN request.size - pos ELSE 0

ComparesLeft ==
  CASE Order[pc] > Order["verifyPause"] -> request.size
    [] Order[pc] \in Order["verifyChunk"] .. Order["verifyPause"] -> request.size - pos
    [] OTHER -> 0

StepsLeft == Order[pc] + 2 * WritesLeft + 2 * ComparesLeft

\* run_on takes a bounded number of steps, whatever happens around it: each of its own,
\* and each answer, brings the end nearer, and nothing else sets it back.  No chunk,
\* sync or check is tried again.
EveryStepCounts ==
  [][StepsLeft' < StepsLeft \/ (Environment /\ UNCHANGED StepsLeft)]_vars

\* The operation as its caller sees it, in the terms of SafeWrite.
Condition ==
  CASE touched = {} -> "untouched"
    [] touched # {} /\ (\E i \in Chunks : media[i] = "old") -> "partial"
    [] OTHER -> "replaced"

Reported ==
  CASE pc # "done" -> "none"
    [] pc = "done" /\ outcome.kind = "Completed" -> "completed"
    [] pc = "done" /\ outcome.kind # "Completed" /\ outcome.modified -> "modified"
    [] OTHER -> "unmodified"

Contract == INSTANCE SafeWrite
              WITH consent <- confirmed, target <- Condition, report <- Reported

\* Every step of run_on is a step of the contract or leaves its terms alone:
\* consent comes before the first byte, there is one report, and it is true.
KeepsTheContract == Contract!ContractSpec
\* The operation as run_on's callers go through it, in the terms of
\* OperationCourse: the parts of run_on, and OperationOutcome, which does not tell
\* apart at the top why Verify was not started.
Place ==
  CASE pc \in {"list", "listSeq", "select", "selectSeq", "reselect", "reselectSeq", "image",
               "preflight", "recheck", "recheckSeq", "ready"} -> "prepare"
    [] pc = "confirm" -> "confirm"
    [] pc \in {"gate", "gateSeq", "open", "bind", "begin"} -> "authorize"
    [] pc \in {"writeSource", "writeCheck", "writeChunk", "writeRecheck"} -> "write"
    [] pc \in {"sync", "syncHere", "afterSync"} -> "sync"
    [] pc = "done" -> "over"
    [] OTHER -> "verify"

AsError(stage) ==
  IF stage \in {"TestPauseEnded", "VerifyTarget", "VerifyStart"} THEN "VerifyNotStarted" ELSE stage

EndedAs == [kind |-> outcome.kind, stage |-> AsError(outcome.stage)]

Course == INSTANCE OperationCourse WITH place <- Place, ending <- EndedAs

\* The steps of run_on, whatever device and file do meanwhile, go through its parts
\* in the order in which its callers are told of them; it leaves a part for the
\* next, or for an ending that part has, and never past a cancellation it polls.
KeepsItsCourse == Course!CourseSpec
\* A cancellation that was requested before the user's answer was taken is in time:
\* the operation ends without a byte having been written, whatever else happens.
EarlyCancelSparesTheTarget ==
  [](cancel /\ Place \in Course!Harmless
     => [](touched = {} /\ Place \in Course!Harmless \cup {"over"}))
=============================================================================
