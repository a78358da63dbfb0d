# Verification of linux-usb-writer

TLA+ models of linux-usb-writer, TLC instances of them, and theorems about them
checked by TLAPS. Paths are relative to the repository.

## The system

linux-usb-writer writes a disk image to a USB drive, verifies it and makes the
drive safe to remove. A library does the work; a GTK program and a command line
drive it. What makes it hard is that everything it judges may change under it:
drives are unplugged, replugged and swapped under one path, filesystems are
mounted by others, the image file is modified, the user cancels, and the UI runs
on another thread than the operation.

| Component | State | Operations | Correct when |
|---|---|---|---|
| Device information (`src/linux_backend.rs`, `src/linux_backend/removal_facts.rs`, `src/identity.rs`) | none; reads UDisks2's tree, then `/proc/swaps`, then sysfs | list, snapshot, removal facts, identity and instance comparison | two snapshots compare as the same only if the device is, and none misses an object of the disk |
| Safety Engine (`src/safety.rs`) | none | `assess_device` | nothing in use or of the system is writable |
| Execution core (`src/execution/core.rs`) | selection, baseline, confirmation token | select, revalidate, gate, FD binding | the device opened is the one confirmed |
| Write job (`src/execution/write_job.rs`) | typestates from authorized to verified | write, sync, Verify | bytes, sync and Verify concern one instance and one image |
| Device access (`src/execution/linux_access.rs`) | descriptors, the direct-read buffer | exclusive and direct opens, O_DIRECT reads, removal calls | reads keep the kernel's rules and land in their place |
| Writer (`src/writer.rs`) | position | chunk loop | exactly the image, cancellable |
| Image source (`src/image_source.rs`, `source_identity.rs`) | open file and its identity | reads, revalidation | a changed file is noticed |
| Compressed images (`src/image_source/compressed.rs`) | decoder, input budget, counters | Preflight, strict replay | only an intact stream is written, with bounded work |
| Write operation (`src/orchestration/operation.rs`) | sequence of the above | `run_on` | one true outcome; nothing before consent |
| Write worker (`src/orchestration/worker.rs`) | thread, two channels, cancel handle, `WorkerState` | spawn, receive, answer, cancel | consent and outcome survive every message order |
| GUI operation view (`src/bin/linux-image-writer/operation.rs`, `window.rs`) | tracker, dialogs | pump, answer, Cancel | what Cancel does fits what the worker is doing |
| Safe Removal (`src/orchestration/removal.rs`, `removal_facts.rs`, GUI `result.rs`) | `RemovalTarget`, presentation | `run_removal`, retry | acts only on the written drive, when free |
| GUI choice (`src/bin/linux-image-writer/model.rs`, `window.rs`) | image, device list, choice | inspect, refresh, pick | stale results never choose |
| Result view (`src/bin/linux-image-writer/result.rs`, `text.rs`, `main.rs`'s messages) | none; a function of the outcome | marks, message, next action | what it says of the drive is true |
| CLI (`src/main.rs`, `src/linux_monitor.rs`) | selection, event stream, watcher threads | `select`, `open-test`, `prepare-test`, `write-test` | a lost selection is noticed, and never revived |

Interactions: the UI thread and the worker thread share two mpsc channels (events,
the confirmation request and the outcome one way, the answer the other) and an
atomic cancel handle. The worker calls UDisks2 over D-Bus, reads sysfs and owns
the device descriptor. Safe Removal runs on GIO's blocking pool after the
operation, with a reference the worker hands out. The kernel, UDisks2, other
programs, the decoders (flate2, liblzma) and the user are the environment.

`PROJECT.json` lists every hazard at its line with the properties that cover it.

## Modules

`Device` -- external state and the judgements on it. `hist` is the kernel's
history of one block path (who is plugged in, its disk sequence number, what
holds it), `tree` how much of it UDisks2 shows. A snapshot's identity and use
come from `hist[tree]`, its `diskseq` from the present, so every snapshot may be
torn. `SameIdentity`, `SameInstance`, `SafeToWrite`, `HardHazard` and `FdMatches`
are the program's comparisons; drives with equal serial and size cannot be told
apart by identity, a drive may report no serial at all, a `diskseq` may be
unreadable.

`DeviceFacts` -- the objects behind those summaries. A tree has block objects with
their interfaces, partitions, mount points and storage signatures, and drives;
`lost` names the properties that are missing or malformed. One reading fetches the
tree, then the swaps, then the sequence number and sysfs, with changes between.
`Complete` and `Snapshot` are `snapshot_from_objects`, `Rules` the eleven rules of
`assess_device` in their order, `JudgeRemoval` the facts and `assess` of Safe
Removal. What only a test's enumeration of cases reached before -- which
combination of mount, swap, signature, hint and bus makes a disk unselectable --
is one equivalence here, `SelectableIsUnused`, stated with no rule in it.

`WriteOperation` -- `run_on`. One action is what happens between two moments at
which the outside can be seen to have moved: each half of each snapshot, each
open, each cancel poll, each chunk, fsync, each fstat of the image. `pc` names the
place in the code, `base`, `listed`, `cur` the snapshots it keeps, `fd` the one
descriptor. Purely computing calls belong to the action that read their input.
`written` and `media` separate what the kernel accepted from what the medium
holds: fsync moves the first to the second, and may store something else, which
Verify has to find. The environment replugs, mounts, claims, alters the file,
cancels and writes to a disk mounted after the write.

`SafeWrite` -- the contract: consent before the first byte, one report, and a true
one. `WriteOperation` implements it (`KeepsTheContract`, by refinement).

`OperationCourse` -- the course of `run_on` as its callers go through it: its parts in
order, the endings each part has (`OperationError`, `CancelledAt`), the parts that poll
the cancel handle before they are left. `WriteOperation` and `WriteWorker` each implement
it (`KeepsItsCourse`), one with the steps of each part and the other with the threads
around them, so that both are models of one sequence.

`WriteResult` -- what the user is told: `Ending`, `Marks`, `Message` and `NextAction`
of the GUI and `Printed` of the command line, all functions of the outcome alone,
and `ResultIsTrue`, which relates them to the bytes the operation left on the drive.

`CompressedImage`, on `InputBudget` -- a file is a sequence of units of compressed
input, each of which brings forth output; an "end" closes a gzip member or xz
stream and verifies what came since the last. Preflight and a replay are passes
over the same `Decode`: refill the buffer (`Refill`), give the decoder a quantum or
the caller's chunk (`Take`, `Continue`), settle the budget, and judge the end. The
file may be altered, cut or extended in place between any two reads; a check does
not verify across versions. A replay may be opened again, as Full Verify does. Only data
bring forth output: an end of a member or stream has none of its own. `mark` remembers where a stretch of decoding began, for
`WorkIsBounded`.

`StrictReplay` -- the contract of a compressed image in terms of what its users hold: the
file as it was opened, a size, and a reader that gives all but the last of it before the
whole is verified again. `CompressedImage` implements it (`KeepsItsPromise`).

`VerifyRead` -- Verify's ranges and the O_DIRECT reads each chunk takes: the
descriptor's geometry, the aligned span, short reads of any length, the comparison.
A byte is its offset; `buffer` holds which byte of the device was read to each
place, so that comparing the wrong bytes shows. `compared` is a history of the pairs
found equal; a mismatch ends it at the first byte of the chunk that differs, as
`first_mismatch` does. `WriteOperation` treats a chunk's
comparison as one step; this is what that step consists of.

`WriteWorker` -- the worker thread reduced to the phases of `run_on`, and the UI
thread: `WriteWorker`, the tracker, the confirmation and the "stop writing?"
dialogs. Messages are queued; the UI acts on what it has received. That the phases are
those of `run_on` is the refinement of `OperationCourse` by both modules.
With `MayLeave` the UI may drop its handle at any time, which the library
allows and the GUI avoids while an operation runs.

`SafeRemoval` -- `run_removal` between two readings of the facts each, and the
result view that requests and retries it. `calls` remembers, for every call
UDisks2 carried out, which instance was in the port when it was decided and the
use the facts showed. Init is the state after an operation: a reference to an
instance that may be gone, mounted or replaced by the time it is used.

`DeviceChoice` -- the main view: GTK's handlers, each of which runs to its end,
and the inspections and listings that GIO's blocking pool performs meanwhile.
`image`, `generation`, `choice`, `selected`, `candidates`, `verify` are the fields
of the window's state; `inspections` are the jobs under way, `listing` the one
listing. A listing reads the ports in one moment. The operation is reduced to
none, running, ended or being removed. `wanted` and `asked` remember what the
user last chose, `lost` that he has not picked a drive since a selection ended;
the code has no such variables, the properties compare its state with them. A
candidate carries its `seq`, so that a replugged drive differs from itself.

`SelectionContinuity` -- the command line outside a write, on `Device`. In `select`,
the main thread reads one channel, folds each event into the selection
(`Applied`) and judges it again against a fresh snapshot; each watcher is a thread
that subscribes, or fails to, and forwards what it receives in its own time. One
watcher stands for those whose events `apply_event` treats alike. `UDisksNotices`
sends the signals of one change of the tree. `open-test` and `prepare-test` select,
judge again, pass the gate (the latter) and open. `loss` remembers whether a watcher
was told that the selected path fell empty: the watchers start after the selection,
so a loss in between is only found at the next event, whatever that is about.

`MC...` -- serial numbers, sizes, files, geometries and trees for TLC.

`..._proofs` -- theorems; `WriteSafety_proofs` holds those of `WriteOperation` and
`WriteResult`.

Each module holds, before the definition it replaces, the mistaken variants of it
(a dropped poll, a comparison of sizes alone, a skipped check) that the properties
are shown to notice.

## Runs

| Run | Question | Bounds, and why they are enough |
|---|---|---|
| `Replug` | Do writes and Verify stay with the confirmed instance, off a used disk? | Three drives, two with serials that differ and one without; a history of five entries: unplug, another drive, unplug, the first again. One chunk: the properties do not count chunks. |
| `Image` | Is what is synced and verified the image, does cancelling stop the loop, is the contract kept, is the user told the truth, do cancelled and confirmed operations end? | Capacity four chunks, images of 0, 1, 4 and 5: empty, all Quick ranges equal, exactly full, one too many. One drive, two history entries: a mount is enough to disturb any step, as `Replug` has the replugs. |
| `Unrequested` | Is a Verify that was not requested shown as "None"? It is not: see Findings. | As `Image`. |
| `Worker` | Do consent, cancellation, removal reference and reported end survive message orders; does every operation end for the UI, an abandoned one too? | None beyond the operation itself: each phase occurs once, so the channels are bounded by the code. |
| `Removal` | Does removal act only on the written drive, when free, and never after giving it up; does every request end? | Three drives, two of which identity cannot tell apart; four history entries: unplug, another drive, mount; two mount points; any number of retries. |
| `Choices` | Is the image shown the chosen one, Verify never weaker, the drive replaced by the user alone, a write started with what is shown; does an inspection end, is a drive that is gone noticed? | Two files of either size or compressed, and two choices, so that an old inspection races a new one; two paths and two drives, one too small and without a serial; two changes, enough to replug or to swap. |
| `Continuity` | Does an invalidated selection stay so, is a loss that was heard noticed, is what `open-test` and `prepare-test` open the selected drive? | Two drives, one without a serial; three history entries: out and in again, another drive, or mounted and out; one signal of another object under way. |
| `Stream` | Is what is written intact, are the last bytes withheld until all is verified, is the work bounded, is the contract of `StrictReplay` kept, does every read return? | A budget of three at rate two, buffers and quanta of two, chunks of four: files of up to ten units overrun each of them. Files are whole, of two members, damaged, cut, and long with little output; alterations in place, truncations and extensions. |
| `BudgetAlike` | Does the budget apply to a replay as to Preflight? It does not: see Findings. | Files of seven units that bring forth 0 to 2 each, unaltered. |
| `Verify` | Do direct reads keep the kernel's rules, is the verdict about the promised bytes? | Windows of 8, chunks and reads of 4; blocks 1, 2, 4, DMA alignments below and above them, descriptors that cannot be used; images at, just below and above one, two and three windows; a device that ends inside a block. |
| `Facts` | Is a disk selectable exactly when unused, does a removal miss no mount? | A stick with its own filesystem, with a partition, with a mounted one, beside an internal disk and a loop device; any two changes, so that any two rules, objects or losses combine. |
| `LeftAlone` | Is a drive the system hides left alone by Safe Removal? Not if it is read-only too: see Findings. | As `Facts`. |

All bounds are constants: `MaxEvents` caps the history in `Becomes` and the changes in
`DeviceChanges`, `MaxMounts` a plan's mount points, `MaxChoices` the image generation
in `Inspect` and `Done`, `MaxPending` the signals of other objects in `OtherSignal`,
`MaxChanges` those of the trees; `Cap`, `Rate`, `Buffer`, `Window`, `Chunk`, `MaxRead` and
the like are the code's own constants, scaled down. `Commands` and `Disturbances` choose
what a run considers. No state constraint is used. Deadlock is checked of
`DeviceChoice`, whose timer polls as long as the window lives. It is not checked of
the others: an operation, a worker, a removal, a command, a pass and a reading end,
and the environment's history is finite.

Type invariants are not among the runs' properties: each `TypeOK` is proved instead,
for every value of the constants.

## Fairness

`WriteOperation!FairSpec`: weak fairness of the worker's own steps, since the
operating system runs the thread and its system calls return. Nothing is assumed of
the user, of devices or of UDisks2's progress; a fetch of a snapshot may fail.
The CLI's test pause before Verify is taken to be answered or closed.
`WriteWorker!FairSpec`: the worker thread and the window's polling timer
(`start_operation`) run; the user need do nothing. `SafeRemoval!FairSpec`: the
request's thread runs and D-Bus calls return, with a reply or an error.
`DeviceChoice!FairSpec`: the two-second timer fires, blocking calls return or panic,
and the main loop handles what they return; neither user nor devices need do
anything. `SelectionContinuity!FairSpec`: the main thread and the watchers that have
received a signal run; a watcher need never get as far as to subscribe.
`CompressedImage!FairSpec`: the thread that decodes runs, and reads of the file return,
with data or an error; that a read then ends is the program's doing. `VerifyRead` and
`DeviceFacts` have no liveness property and no fairness.

## What the checks rest on

- Every modification of the image file changes what fstat reports of it
  (`SourceIdentity` compares device, inode, size, mtime and ctime).
- The kernel gives a new instance a new, larger disk sequence number, and an
  exclusive open excludes mounting, swapon and the like.
- An outcome of Verify concerns the chunks its mode compares, save those another
  process has overwritten since (`ForeignWrite`).
- A decoder takes no more than it is offered, holds back at most `Ahead` of its output,
  and reports a check that fails.
- The last conjunct of `WritesOnlyWhatWasConfirmed` and of `OpenedIsSelected` has a
  premise, `settled`: UDisks2 had processed the events that preceded the prompt when it
  was answered (or the selection, when the device was read again). Without it TLC finds a
  behaviour in which the drive is swapped for one of the same size while UDisks2 lags
  through every reading: each snapshot then combines the old drive's identity with the
  new instance's number, and both comparisons hold. The instance that is written is the
  one whose number was confirmed in every case.

## Findings

- `BudgetAlike`: `StrictReplayReader`'s comments say the Compressed Input Budget applies
  exactly as in Preflight. Preflight always offers the decoder a whole quantum, the
  replay the caller's chunk clipped to what remains and then a probe of its own, so that
  the two check and credit at different points of one stream: an unaltered file near the
  limit passes Preflight and is refused in the write. It can only be refused, never
  accepted wrongly (`FinalBytesAreVerified`), and only for its budget
  (`UnalteredDecodesAlike`).
- `LeftAlone`: `assess_device` returns at its first rule, and ReadOnly comes before
  IgnoredBySystem, which is what `protection` looks for: a drive with both is planned for
  removal, although `Unsupported` is said to cover what the system says to leave alone.
- `Unrequested`: a cancellation during the sync of a write without Verify is shown as a
  cancelled Verify. The drive's content is as told (`ResultIsTrue`).

Noticed in reading, without a run: `image_source.rs:391-394` allows `read_at` to return
fewer bytes than asked for, while `run_quick_verify` takes a short one for the end of
the image. The only source with random access reads a regular file, whose reads are short
at its end alone, so that no run can show a difference.

## Proofs

For all values of the constants that meet the modules' assumptions (any drives, sizes,
images, modes, paths, trees, geometries, budgets, length of history), TLAPS proves that
`Spec` of the property's module implies:

| Module | Theorem | Statement |
|---|---|---|
| `WriteSafety_proofs` | `TypeCorrect` | `TypeOK` |
| | `WritesOnlyTheConfirmedDevice` | `WritesOnlyWhatWasConfirmed` |
| | `UnmodifiedOutcomesAreTrue` | `UnmodifiedMeansUntouched` |
| | `CancellationStopsTheWrite` | `CancelStopsWithinOneChunk` |
| | `VerifyReadsWhatWasWritten` | `VerifyReadsTheWrittenInstance` |
| | `WritesHoldTheDisk` | `NeverWritesWhileInUse` (an action property) |
| | `TheSyncedImageIsTheSelectedOne` | `SyncedImageIsTheSelectedOne` |
| | `VerifiedTargetsHoldTheImage` | `VerifiedTargetHoldsTheImage` |
| | `TheUserIsToldTheTruth` | `ResultIsTrue` |
| | `TheContractIsKept` | `KeepsTheContract` (the refinement of `SafeWrite`) |
| | `TheCourseIsKept` | `KeepsItsCourse` (the refinement of `OperationCourse`) |
| | `EarlyCancelsSpareTheTarget` | `EarlyCancelSparesTheTarget` |
| | `CancellationsHaveAReason` | `Course!CancelledForAReason` |
| | `StepsAreBounded`, `HowManySteps` | `EveryStepCounts`, and 33 + 4 * size steps at most |
| `WriteWorker_proofs` | `WorkerIsTyped` | `TypeOK` |
| | `WritesFollowAnApproval` | `WritesOnlyOnApproval` |
| | `UnaskedCancelsAreSafe` | `UnaskedCancelSparesTheWrite` |
| | `RemovalIsOfferedAfterTheWrite` | `RemovalAfterTheWrite` |
| | `EndsAreFinal` | `TheEndIsFinal` (an action property) |
| | `TheWorkerKeepsItsCourse` | `KeepsItsCourse` (the refinement of `OperationCourse`) |
| | `EarlyCancelsAreInTime` | `Course!EarlyCancelIsInTime` |
| | `CancellationsAreAskedFor` | `Course!CancelledForAReason` |
| `SafeRemoval_proofs` | `RemovalIsTyped` | `TypeOK` |
| | `CallsFollowAJudgement` | `ActsOnlyWhereJudged` |
| | `OnlyTheUnusedIsPoweredOff` | `NothingInUseIsPoweredOff` |
| | `GivenUpStaysGivenUp` | `GivenUpForGood` (an action property) |
| | `RequestsAreBounded`, `HowManySteps` | `EveryStepCounts`, and MaxMounts + 8 steps at most |
| `DeviceChoice_proofs` | `ChoiceIsTyped` | `TypeOK` |
| | `TheChosenImageIsShown` | `ShownImageIsTheChosenOne` |
| | `VerifyIsNotWeakened` | `VerifyNeverWeaker` |
| | `TheHighlightedDriveIsHeld` | `SelectedIsHeld` |
| | `ReplacedByTheUserAlone` | `OnlyTheUserReplaces` (an action property) |
| | `WritesWhatIsShown` | `StartsWithWhatIsShown` (an action property) |
| `SelectionContinuity_proofs` | `ContinuityIsTyped` | `TypeOK` |
| | `HeardLossesArePending` | `LossIsPending` |
| | `InvalidatedSelectionsStayInvalid` | `InvalidatedForGood` (an action property) |
| | `TestsOpenTheSelected` | `OpenedIsSelected` |
| `CompressedImage_proofs` | `PassesAreTyped` | `TypeOK`, and `WithinTheSize`: a replay takes no more from its decoder than was measured |
| | `EndsAreVerified` | `FinalBytesAreVerified` |
| | `FailuresAreFinal` | `FailureIsFinal` (an action property) |
| | `DecodingIsBounded` | `WorkIsBounded` |
| | `PreflightIsStopped` | `CancelStopsPreflight` |
| | `PreparedFilesAreIntact` | `PreparedIsIntact` |
| | `UnalteredFilesDecodeAlike` | `UnalteredDecodesAlike` |
| | `ThePromiseIsKept` | `KeepsItsPromise` (the refinement of `StrictReplay`) |
| | `ReadsAreBounded`, `HowManySteps` | `EveryStepCounts`, and 3 * compressedSize + 2 * Limit + 3 steps at most |
| `VerifyRead_proofs` | `VerifyIsTyped` | `TypeOK` |
| | `DirectReadsKeepTheRules` | `ReadsFollowTheRules` |
| | `VerdictsAreTrue` | `VerdictIsTrue` |
| | `VerifyIsBounded`, `StepsLeftIsANumber` | `EveryStepCounts`, of a number of steps |
| `DeviceFacts_proofs` | `FactsAreTyped` | `TypeOK` |
| | `OnlyTheUnusedIsSelectable` | `SelectableIsUnused` |
| | `TheRemovalIsWhole` | `RemovalMissesNothing` |

`WriteSafety_proofs`. `TypeInv` strengthens `TypeOK` by what each place of `run_on`
knows of its position, e.g. that a chunk is written only while one remains; without it
the bound on `pos` is not inductive.

`SafetyInv` is the inductive invariant behind the first safety theorem. The
argument is a sandwich. An instance's entries are contiguous in the history and
sequence numbers never decrease (`Ordered`). The selection's number was read
from the kernel no later than the prompt (`BaseSeen`). The gate reads the tree
after the prompt, so a settled tree shows a moment not older than it, and reads
the number after the tree (`Settling`): if both readings of the number are
equal, the moment the tree shows lies between two moments of that one instance,
and the identity read is its own. `Authorized`, `Bound` and `OneInstance` carry that
through the open, the binding of the descriptor and the writes.

`ProgressInv` adds the bookkeeping for the other invariants: whether bytes were
passed on and which early returns can follow (`Counted`), that Verify's snapshot is
of the written instance (`SameInstanceThroughout`), and that no chunk starts after a
poll saw the cancellation (`Late`). `Exclusive` says that while the write descriptor is
open on the present instance, the disk is free. `DataInv` says, place by place, which
chunks hold the image: those below `pos` while the identity of the file has not
changed, all of them after the last check of it. `EndInv` says of every outcome what must
have happened for it to be reported, and gives `ResultIsTrue` by cases of the outcome.
`MediaInv` keeps what the medium holds apart from what a report says of it; with it every
step is one of the contract's steps or a stutter (`StepKinds`). The refinement of
`OperationCourse` needs where in `run_on` each outcome arises and what each part has
polled; what follows from the course alone, that a cancellation before the answer is in
time, is proved of it once for each of its two implementations.

`EveryStepCounts` is the safety half of what the liveness properties say: a measure in the
naturals that each step of a program lowers and nothing around it raises, so that none of
`run_on`, a decoder's read, Verify's reading and a removal can go on for ever. That a step is always there
to be taken, and is taken, is the other half, fairness, and stays with TLC. The two
properties are separate: a hidden wait satisfies the measure, a retry without end does not.
`EveryStepCounts`, `KeepsItsCourse` and `EarlyCancelSparesTheTarget` are proved and in no run.

`WriteWorker_proofs`: `ChannelInv` says which messages may follow which in the channel,
`AnswerInv` that there is one request, one answer and one approval, `EndInv` that nothing
follows the end. `SafeRemoval_proofs`: a call is only under way on the instance that was
judged (`CallInv`), and the reference has one owner (`OwnerInv`).

The properties of `DeviceChoice` rest on four invariants. `ImageInv`: every
inspection has a generation of its own, none is from the future, and the one of
the present generation, if any, is of the wanted file. `TargetInv`: lists are
indexed from 1, so that 0 means none, and the index is into the list that is shown.
`LossInv`: a loss is remembered by the choice itself, `cleared`, which is what
keeps reconciliation from choosing again (`ReconcileSound`). `VerifyInv`: a
preference exists exactly once the user has asked.

`ListenInv` is the invariant behind `LossIsPending`: before the loop nobody listens,
so that nothing counts as heard; forwarding moves an event and drops none; and the
main thread takes the event of a loss out of the channel only by invalidating.
`OpenInv` is the sandwich again, for the commands that open without a prompt.

`CompressedImage_proofs`: `MeterInv` bounds the balance; `EarnedInv` bounds `Overdraft`,
what a stretch consumed beyond the cap and its own output, by the extra tokens of that
output and one buffer, for any division into reads: fractions of a token are carried, not
rounded up once a read. `OwingInv` says that a replay owes bytes until it has succeeded.
What a stream decodes to is a sum over its units, a recursive function (`OutputOf`); that it
is defined and adds up from unit to unit (`OutputAddsUp`) is proved with least
counterexamples (`LeastNumber`), because induction with a predicate for a parameter is
beyond the provers. `ContentInv` relates what a pass holds and has produced to that sum,
as long as the file is unaltered; `AcceptedInv` says that a pass
that gets by its last unit has found an intact file and its size, `EndingInv` which ends a
replay can come to. `ReplayInv` is their conjunction.

`VerifyRead_proofs`: `ProgressInv` says what is compared so far, `DoneIsBefore` that this
is all that is promised before the next chunk, so that a mismatch is the first; `SpanInv` that what was
read of a span is in its place and the next read begins on a block and an address the
device can reach. The arithmetic of powers of two enters as `PowersDivide`, which TLC
evaluates.

`DeviceFacts_proofs`: `FoundInv` says that what has been found was found in the very
objects still held, complete; the equivalence then follows from which rule is the first
to apply (`FirstRule`), and the plan's from the layout that adds up (`PlannedIsWhole`).

Only model-checked: the liveness properties `OperationEnds`, `GivenUpOperationEnds`,
`TheUILearnsTheEnd`, `RemovalEnds`, `InspectionsEnd`, `GoneIsNoticed`, `LossIsNoticed` and
`ReadsReturn`. They need fairness and ENABLED, which are beyond the prover.

## Not modelled

Failures of `bind` and `verify_mode_supported` that no source of this platform
produces, `FlushFailed` of a descriptor that buffers nothing, how UDisks2's
properties are decoded (byte strings, device numbers, the text of a SiblingId), the
inside of flate2 and liblzma, format detection, texts other than what they say of the
drive, widgets and progress figures. The list of mount points an outcome names is only
displayed. The read-only commands (`removal-check` and the diagnostics)
format what the modelled readings return. `gzip_behavior.rs` and `xz_behavior.rs` are tests
of the decoders. Packaging, translations and the GTK trial under `poc/` have no behaviour
to check.

About half of the lines are tests within the source files, which no definition
translates; most of the rest that is not mapped is GTK construction, wording, `Display`
and error conversion.

## What could follow

`VerifyRead` as a refinement of `WriteOperation`'s single step of comparison, by a contract
of comparing that both implement.
