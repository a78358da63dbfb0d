------------------------ MODULE SelectionContinuity ------------------------
(***************************************************************************)
(* The command line's selection outside a write: `select`, which watches   *)
(* UDisks2's signals and judges the selection anew at each of them, and    *)
(* `open-test` and `prepare-test`, which select, judge again and open      *)
(* (main.rs, linux_monitor.rs, execution/core.rs).                         *)
(*                                                                         *)
(* The watchers are threads of their own; each forwards the signals it     *)
(* receives to the one channel the main thread reads.  Signals of different*)
(* watchers may therefore arrive in any order, and later than a snapshot   *)
(* that was read after them.  UDisks2 is asked for a snapshot in two       *)
(* moments, as in Device.                                                  *)
(***************************************************************************)
EXTENDS Device, SequencesExt

CONSTANTS Commands,   \* those considered, of "select", "openTest" and "prepareTest"
          MaxPending  \* bound on the signals of other objects that are under way

ASSUME ContinuityAssumption ==
  /\ Commands \subseteq {"select", "openTest", "prepareTest"}
  /\ MaxPending \in Nat

VARIABLES
  mode,       \* the command
  pc,         \* where the main thread is
  half,       \* what a fetch has read so far
  selection,  \* the SelectionState's variant
  baseline,   \* and its snapshot
  current,    \* prepare-test: the gate's snapshot
  fd,         \* the descriptor
  watchers,   \* the threads start_monitoring spawned
  signals,    \* signals each of them has received and not forwarded
  events,     \* the channel
  born, settled, \* what the properties remember: when the selection's number was read,
                 \* whether the tree had come so far at the last judgement, and
  loss           \* whether the selected path was seen empty, and a watcher heard of it

selected == <<selection, baseline, born>>
stream == <<watchers, signals, events>>
reading == <<half, settled>>
vars == <<deviceVars, mode, pc, reading, selected, current, fd, stream, loss>>

\* DeviceEvent, by what apply_event makes of it: the object is removed; the
\* selected drive's medium is gone; or nothing (added, other properties, other
\* objects, WatcherFailed).  One watcher stands for those of its kind.
Kinds == {"removed", "mediaGone", "other"}

NoSnapshot == [drive |-> CHOOSE d \in Drives : TRUE, use |-> "free", seq |-> Unknown]

Init ==
  /\ DeviceInit
  /\ mode \in Commands
  /\ pc = "select"
  /\ half = NoSnapshot /\ current = NoSnapshot
  /\ selection = "NoSelection" /\ baseline = NoSnapshot
  /\ fd = [open |-> FALSE, seq |-> Unknown, drive |-> NoSnapshot.drive]
  /\ watchers = [k \in Kinds |-> "none"]
  /\ signals = [k \in Kinds |-> 0] /\ events = <<>>
  /\ born = 0 /\ settled = FALSE /\ loss = "none"

\* The threads end with the program, and what comes then does not matter.
Running == pc # "done"

-----------------------------------------------------------------------------
(* collect_device_snapshot.                                                *)

FetchTree(here, there) ==
  /\ pc = here
  /\ hist[tree].present
  /\ half' = TreeHalf(half)
  /\ settled' = (tree >= born)
  /\ pc' = there
  /\ UNCHANGED <<deviceVars, mode, selected, current, fd, stream, loss>>

Fetched(q) == [half EXCEPT !.seq = q]

-----------------------------------------------------------------------------
(* Selecting: attempt_select.                                              *)

\* `select` watches whatever came of it; the other commands stop.
AfterSelect ==
  pc' = IF mode = "select" THEN "start"
        ELSE IF selection' = "Selected" THEN "check" ELSE "done"

\* core::select.
Select ==
  /\ pc = "selectSeq"
  /\ \E q \in DiskseqReads :
       IF SafeToWrite(Fetched(q))
       THEN selection' = "Selected" /\ baseline' = Fetched(q) /\ born' = Len(hist)
       ELSE UNCHANGED selected
  /\ AfterSelect
  /\ half' = NoSnapshot
  /\ UNCHANGED <<deviceVars, mode, settled, current, fd, stream, loss>>

\* NotFound, SnapshotUnavailable.
SelectFails ==
  /\ pc = "select"
  /\ UNCHANGED selected
  /\ AfterSelect
  /\ UNCHANGED <<deviceVars, mode, reading, current, fd, stream, loss>>

-----------------------------------------------------------------------------
(* Judging again: core::revalidate.                                        *)

\* check_identity_instance_safety.
StillSelected(s) == SameDevice(baseline, s) /\ SafeToWrite(s)

\* In the loop the next event is read; the tests go on with a valid selection only.
AfterRevalidation ==
  pc' = CASE mode = "select" -> "loop"
          [] mode # "select" /\ selection' # "Selected" -> "done"
          [] mode = "openTest" /\ selection' = "Selected" -> "open"
          [] OTHER -> "gate"

Revalidate ==
  /\ pc = "checkSeq"
  /\ \E q \in DiskseqReads :
       selection' = IF StillSelected(Fetched(q)) THEN selection ELSE "Invalidated"
  /\ AfterRevalidation
  /\ half' = NoSnapshot
  /\ UNCHANGED <<deviceVars, mode, settled, baseline, born, current, fd, stream, loss>>

\* Mistaken variant: it is tried again until the snapshot can be read.
RefetchUntilFound ==
  /\ pc = "check"
  /\ UNCHANGED vars

\* NotFound once the tree no longer shows the path, Error at any time.
RevalidationFails ==
  /\ pc = "check"
  /\ selection' = "Invalidated"
  /\ AfterRevalidation
  /\ UNCHANGED <<deviceVars, mode, reading, baseline, born, current, fd, stream, loss>>

-----------------------------------------------------------------------------
(* Watching: linux_monitor.                                                *)

\* start_monitoring, after the selection; the drive's properties are watched if the
\* tree shows it at this moment.
StartMonitoring ==
  /\ pc = "start"
  /\ watchers' = [k \in Kinds |-> IF k = "mediaGone" /\ ~hist[tree].present
                                   THEN "none" ELSE "starting"]
  /\ pc' = "loop"
  /\ UNCHANGED <<deviceVars, mode, reading, selected, current, fd, signals, events, loss>>

\* No connection, or no snapshots.
StartFails ==
  /\ pc = "start" /\ pc' = "done"
  /\ UNCHANGED <<deviceVars, mode, reading, selected, current, fd, stream, loss>>

Subscribe(k) ==
  /\ Running
  /\ watchers[k] = "starting"
  /\ watchers' = [watchers EXCEPT ![k] = "watching"]
  /\ UNCHANGED <<deviceVars, mode, pc, reading, selected, current, fd, signals, events, loss>>

\* One event says so, and the thread ends.
WatcherFails(k) ==
  /\ Running
  /\ watchers[k] = "starting"
  /\ watchers' = [watchers EXCEPT ![k] = "ended"]
  /\ events' = Append(events, "other")
  /\ UNCHANGED <<deviceVars, mode, pc, reading, selected, current, fd, signals, loss>>

\* The iterators end with the connection: nothing more is received.
ConnectionLost ==
  /\ Running
  /\ \E k \in Kinds : watchers[k] = "watching"
  /\ watchers' = [k \in Kinds |-> IF watchers[k] = "watching" THEN "ended" ELSE watchers[k]]
  /\ UNCHANGED <<deviceVars, mode, pc, reading, selected, current, fd, signals, events, loss>>

\* Mistaken variant: the channel holds one event, and what it cannot take is dropped.
ForwardDropsWhenFull(k) ==
  /\ Running
  /\ signals[k] > 0
  /\ signals' = [signals EXCEPT ![k] = @ - 1]
  /\ events' = IF events = <<>> THEN <<k>> ELSE events
  /\ UNCHANGED <<deviceVars, mode, pc, reading, selected, current, fd, watchers, loss>>

Forward(k) ==
  /\ Running
  /\ signals[k] > 0
  /\ signals' = [signals EXCEPT ![k] = @ - 1]
  /\ events' = Append(events, k)
  /\ UNCHANGED <<deviceVars, mode, pc, reading, selected, current, fd, watchers, loss>>

-----------------------------------------------------------------------------
(* The loop of run_select.                                                 *)

Losses == {"removed", "mediaGone"}

\* Mistaken variant: what comes back is selected again.
AppliedRevives(event) ==
  CASE selection = "NoSelection" -> selection
    [] selection # "NoSelection" /\ event \in Losses -> "Invalidated"
    [] OTHER -> "Selected"

\* core::apply_event.
Applied(event) ==
  IF selection = "Selected" /\ event \in Losses THEN "Invalidated" ELSE selection

Receive ==
  /\ pc = "loop" /\ events # <<>>
  /\ events' = Tail(events)
  /\ selection' = Applied(Head(events))
  /\ pc' = IF selection' = "Selected" THEN "check" ELSE "loop"
  /\ UNCHANGED <<deviceVars, mode, reading, baseline, born, current, fd, watchers, signals, loss>>

\* Every sender is gone, and what was sent is read.
StreamEnds ==
  /\ pc = "loop" /\ events = <<>>
  /\ \A k \in Kinds : watchers[k] \in {"none", "ended"} /\ signals[k] = 0
  /\ pc' = "done"
  /\ UNCHANGED <<deviceVars, mode, reading, selected, current, fd, stream, loss>>

-----------------------------------------------------------------------------
(* open-test and prepare-test.                                             *)

\* prepare_for_open with a token of this selection, which its judgement therefore
\* matches.
Gate ==
  /\ pc = "gateSeq"
  /\ \E q \in DiskseqReads :
       /\ current' = Fetched(q)
       /\ pc' = IF StillSelected(current') THEN "open" ELSE "done"
  /\ UNCHANGED <<deviceVars, mode, reading, selected, fd, stream, loss>>

\* No snapshot, or one the test's image of 4 MiB does not fit.
GateFails ==
  /\ pc = "gate" /\ pc' = "done"
  /\ UNCHANGED <<deviceVars, mode, reading, selected, current, fd, stream, loss>>

\* open_device with O_EXCL, of whatever is at the path by now.
OpenDevice ==
  /\ pc = "open"
  /\ \/ /\ Now.present /\ Now.use = "free"
        /\ fd' = [open |-> TRUE, seq |-> Now.seq, drive |-> Now.drive] /\ pc' = "bind"
     \/ pc' = "done" /\ UNCHANGED fd
  /\ UNCHANGED <<deviceVars, mode, reading, selected, current, stream, loss>>

\* open-test compares with the selection, finalize_prepared_write with the gate's
\* snapshot.
Expected == IF mode = "openTest" THEN baseline ELSE current

BindFd ==
  /\ pc = "bind"
  /\ \E q \in {Unknown, fd.seq} :
       IF FdMatches(Expected, q, fd.drive) THEN pc' = "bound" /\ UNCHANGED fd
       ELSE pc' = "done" /\ fd' = [fd EXCEPT !.open = FALSE]
  /\ UNCHANGED <<deviceVars, mode, reading, selected, current, stream, loss>>

\* Nothing is written.
Close ==
  /\ pc = "bound" /\ pc' = "done"
  /\ fd' = [fd EXCEPT !.open = FALSE]
  /\ UNCHANGED <<deviceVars, mode, reading, selected, current, stream, loss>>

-----------------------------------------------------------------------------
(* UDisks2 and the kernel.                                                 *)

Lost(from, to) == from.present /\ ~to.present

\* What UDisks2 says of one change: a drive or a medium that goes; a filesystem or
\* another interface that comes or goes with a use; a property; or nothing.
SignalsOf(from, to) ==
  CASE Lost(from, to) -> IF from.drive = baseline.drive THEN Losses ELSE {"removed"}
    [] ~from.present -> {"other"}
    [] OTHER -> {"removed", "other", "nothing"}

Hears(k) == k \in Kinds /\ watchers[k] = "watching"

Received(k) == signals' = IF Hears(k) THEN [signals EXCEPT ![k] = @ + 1] ELSE signals

\* A loss that was missed before is not made good by another.
Worse(l) == IF loss = "missed" THEN loss ELSE l

UDisksNotices ==
  /\ Running
  /\ tree < Len(hist) /\ tree' = tree + 1
  /\ \E k \in SignalsOf(hist[tree], hist[tree + 1]) :
       /\ Received(k)
       /\ loss' = IF pc = "select" \/ ~Lost(hist[tree], hist[tree + 1]) THEN loss
                  ELSE IF Hears(k) THEN Worse("heard") ELSE "missed"
  /\ UNCHANGED <<hist, mode, pc, reading, selected, current, fd, watchers, events>>

\* Something happens to another object.
OtherSignal ==
  /\ Running
  /\ signals["other"] + Len(events) < MaxPending
  /\ Hears("other") /\ Received("other")
  /\ UNCHANGED <<deviceVars, mode, pc, reading, selected, current, fd, watchers, events, loss>>

KernelMoves ==
  /\ Running
  /\ Unplug \/ (\E d \in Drives : Plug(d)) \/ (\E u \in Uses : ChangeUse(u, fd.open))
  /\ UNCHANGED <<mode, pc, reading, selected, current, fd, stream, loss>>

-----------------------------------------------------------------------------
MainThread ==
  \/ FetchTree("select", "selectSeq") \/ Select \/ SelectFails
  \/ FetchTree("check", "checkSeq") \/ Revalidate \/ RevalidationFails
  \/ StartMonitoring \/ StartFails \/ Receive \/ StreamEnds
  \/ FetchTree("gate", "gateSeq") \/ Gate \/ GateFails
  \/ OpenDevice \/ BindFd \/ Close

Next ==
  \/ MainThread
  \/ \E k \in Kinds : Subscribe(k) \/ WatcherFails(k) \/ Forward(k)
  \/ ConnectionLost \/ UDisksNotices \/ OtherSignal \/ KernelMoves

Spec == Init /\ [][Next]_vars

\* The threads run, and calls return; UDisks2 and the devices need do nothing.
FairSpec ==
  /\ Spec
  /\ WF_vars(MainThread)
  /\ \A k \in Kinds : WF_vars(Forward(k))

-----------------------------------------------------------------------------
(* Properties.                                                             *)

PCs == {"select", "selectSeq", "start", "loop", "check", "checkSeq", "gate", "gateSeq",
        "open", "bind", "bound", "done"}

\* A selection that was never made has no snapshot (SelectionState).
TypeOK ==
  /\ hist \in Seq(Node) /\ tree \in 1 .. Len(hist)
  /\ mode \in Commands /\ pc \in PCs
  /\ half \in Snapshot /\ baseline \in Snapshot /\ current \in Snapshot
  /\ selection \in {"NoSelection", "Selected", "Invalidated"}
  /\ selection = "NoSelection" => baseline = NoSnapshot /\ born = 0
  /\ fd \in [open : BOOLEAN, seq : Nat, drive : Drives]
  /\ watchers \in [Kinds -> {"none", "starting", "watching", "ended"}]
  /\ signals \in [Kinds -> Nat] /\ events \in Seq(Kinds)
  /\ born \in 0 .. Len(hist) /\ settled \in BOOLEAN /\ loss \in {"none", "heard", "missed"}

\* An invalidated selection never revives: not by the same drive plugged in again
\* under the same path, nor by a snapshot that is valid again.
InvalidatedForGood ==
  [][/\ selection = "Invalidated" => selection' = "Invalidated"
     /\ selection # "NoSelection" => baseline' = baseline]_vars

\* While a selection is shown as valid although a watcher heard that its device was
\* lost, the event that will end this is under way, with a watcher or in the channel:
\* no order of signals, snapshots and events loses it.  Only a signal sent before the
\* watchers listen, or after they ended, is missed.
LossIsPending ==
  selection = "Selected" /\ loss = "heard"
    => \E k \in Losses : signals[k] > 0 \/ k \in Range(events)

\* The descriptor that a test finds to match is of the instance that was selected;
\* and, if UDisks2 had shown the last judgement a moment not older than the
\* selection's number, of a drive with the identity that was selected.
OpenedIsSelected ==
  pc = "bound" => /\ fd.seq = baseline.seq
                  /\ settled => SameIdentity(fd, baseline)

\* A loss that was signalled while the watchers listened invalidates the selection,
\* as long as the program runs.
LossIsNoticed ==
  (selection = "Selected" /\ loss = "heard")
    ~> (selection = "Invalidated" \/ pc = "done")
=============================================================================
