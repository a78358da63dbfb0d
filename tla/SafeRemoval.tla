----------------------------- MODULE SafeRemoval -----------------------------
(***************************************************************************)
(* Safe Removal of the device an operation wrote to                        *)
(* (orchestration::removal and linux_backend::removal_facts), requested    *)
(* and retried from the GUI's result view.                                 *)
(*                                                                         *)
(* The reference (RemovalTarget) holds the snapshot the write was bound to.*)
(* Facts are read in three moments -- UDisks2's tree, the snapshot's disk  *)
(* sequence number, and once more that number together with the USB        *)
(* topology -- and Unmount and PowerOff name their objects by path, so the *)
(* device may be another one by the time a call is carried out.            *)
(***************************************************************************)
EXTENDS Device

CONSTANT MaxMounts   \* bound on the mount points a plan lists

ASSUME RemovalAssumption == MaxMounts \in Nat \ {0}

VARIABLES
  presentation, \* RemovalPresentation, the result view's state
  pc,           \* where run_removal is
  round,        \* which decision it is about to make, the first or the second
  half,         \* the facts' snapshot while it is being read
  anchor,       \* RemovalTarget: the snapshot the write was bound to
  plan,         \* Unmount calls of the plan that are still to be made
  outcome,      \* SafeRemovalOutcome of the last request
  judged,       \* what the properties remember: Len(hist) at the last decision,
  calls         \* and, for every call UDisks2 carried out, the instance in the
                \* port and the use the facts showed when it was decided

request == <<presentation, anchor>>
progress == <<round, half, plan>>
memory == <<judged, calls>>
vars == <<deviceVars, request, pc, progress, outcome, memory>>

Outcomes == {"none", "Removed", "DeviceGone", "DeviceChanged", "Unsupported", "Unavailable",
             "Busy", "NotAuthorized", "Failed", "Panicked"}

\* The write was bound to a drive with a known serial (core's write gate).
Init ==
  /\ DeviceInit
  /\ Serial[Now.drive] # NoSerial
  /\ anchor = [drive |-> Now.drive, use |-> "free", seq |-> Now.seq]
  /\ presentation = "Ready" /\ pc = "idle" /\ round = 1
  /\ half = anchor /\ plan = 0 /\ outcome = "none"
  /\ judged = 1 /\ calls = {}

-----------------------------------------------------------------------------
(* The result view.                                                        *)

\* Mistaken variant: every failure may be tried again.
BeginAny ==
  /\ presentation \in {"Ready", "Retry", "Done"}
  /\ presentation' = "Removing"
  /\ pc' = "facts" /\ round' = 1
  /\ UNCHANGED <<deviceVars, anchor, half, plan, outcome, memory>>

\* start_removal: RemovalPresentation::begin hands the target over.
Begin ==
  /\ presentation \in {"Ready", "Retry"}
  /\ presentation' = "Removing"
  /\ pc' = "facts" /\ round' = 1
  /\ UNCHANGED <<deviceVars, anchor, half, plan, outcome, memory>>

\* RemovalPresentation::end: the target comes back only after Busy.
Return(o) ==
  /\ pc' = "idle"
  /\ outcome' = o
  /\ presentation' = IF o = "Busy" THEN "Retry" ELSE "Done"
  /\ UNCHANGED anchor

\* end_without_outcome: the target went with the request.
Panic ==
  /\ pc # "idle"
  /\ Return("Panicked")
  /\ UNCHANGED <<deviceVars, progress, memory>>

\* result::leave for the main view drops the target.
Leave ==
  /\ presentation \in {"Ready", "Retry", "Done"}
  /\ presentation' = "Left"
  /\ UNCHANGED <<deviceVars, anchor, pc, progress, outcome, memory>>

-----------------------------------------------------------------------------
(* run_removal.                                                            *)

\* collect_removal_facts: one tree, and /proc/swaps.
ReadTree ==
  /\ pc = "facts"
  /\ \/ hist[tree].present /\ half' = TreeHalf(half) /\ pc' = "factsSeq"
        /\ UNCHANGED <<request, outcome>>
     \/ ~hist[tree].present /\ Return("DeviceGone") /\ UNCHANGED half
     \/ Return("Unavailable") /\ UNCHANGED half
  /\ UNCHANGED <<deviceVars, round, plan, memory>>

\* The snapshot's diskseq.
ReadSeq ==
  /\ pc = "factsSeq"
  /\ \E q \in DiskseqReads : half' = [half EXCEPT !.seq = q]
  /\ pc' = "factsUsb"
  /\ UNCHANGED <<deviceVars, request, round, plan, outcome, memory>>

\* Mistaken variant: the identity alone is compared.
CheckAgainstIdentity(s) == SameIdentity(anchor, s)

\* TargetRef::check_against.
CheckAgainst(s) == SameDevice(anchor, s)

\* Mistaken variant: the topology is read without asking whose it is.
UsbUnbound(q) == q # Unknown

\* bind_usb_topology: sysfs still reports the snapshot's instance.
UsbBound(q) == half.seq # Unknown /\ q = half.seq

\* Mistaken variant: the plan is followed without looking again.
GoOnRegardless(n) ==
  \/ round = 1 /\ pc' = "unmount" /\ plan' = n /\ UNCHANGED <<request, outcome>>
  \/ round = 2 /\ pc' = "powerOff" /\ plan' = 0 /\ UNCHANGED <<request, outcome>>

\* With the plan: unmount what it lists, or power off when nothing is mounted;
\* mounted again in the second round is Busy, never a second round of calls.
GoOn(n) ==
  \/ /\ round = 1 /\ pc' = "unmount" /\ plan' = n /\ UNCHANGED <<request, outcome>>
  \/ /\ round = 2 /\ n = 0 /\ pc' = "powerOff" /\ plan' = 0 /\ UNCHANGED <<request, outcome>>
  \/ /\ round = 2 /\ n > 0 /\ Return("Busy") /\ UNCHANGED plan

\* decide: identity and instance, protected states, topology, mount layout.
\* CanPowerOff, siblings, interfaces and an unrecognised or inconsistent layout
\* may each refuse.
Decide ==
  /\ pc = "factsUsb"
  /\ judged' = Len(hist)
  /\ \E q \in DiskseqReads :
       \/ ~CheckAgainst(half) /\ Return("DeviceChanged") /\ UNCHANGED plan
       \/ CheckAgainst(half) /\ Return("Unsupported") /\ UNCHANGED plan
       \/ CheckAgainst(half) /\ ~HardHazard(half) /\ Return("Unavailable") /\ UNCHANGED plan
       \/ /\ CheckAgainst(half) /\ ~HardHazard(half) /\ UsbBound(q)
          /\ \/ half.use = "free" /\ GoOn(0)
             \/ half.use = "mounted" /\ \E n \in 1 .. MaxMounts : GoOn(n)
  /\ UNCHANGED <<deviceVars, round, half, calls>>

\* The loop is over: fresh facts for the second decision.
Unmounted ==
  /\ pc = "unmount" /\ plan = 0
  /\ pc' = "facts" /\ round' = round + 1
  /\ UNCHANGED <<deviceVars, request, half, plan, outcome, memory>>

\* A call UDisks2 carries out.
Carried(call) ==
  calls' = calls \cup {[call |-> call, seq |-> hist[judged].seq, use |-> half.use]}

\* Filesystem.Unmount of the block object path, one mount point: the last one
\* frees the disk.
Unmount ==
  /\ pc = "unmount" /\ plan > 0
  /\ Now.present /\ Now.use = "mounted"
  /\ \/ Becomes([Now EXCEPT !.use = "free"])
     \/ UNCHANGED deviceVars
  /\ Carried("Unmount") /\ plan' = plan - 1
  /\ UNCHANGED <<request, pc, round, half, outcome, judged>>

\* NotMounted counts as done; any other error ends the removal.
UnmountFails ==
  /\ pc = "unmount" /\ plan > 0
  /\ \/ Now.use # "mounted" /\ plan' = plan - 1 /\ UNCHANGED <<request, pc, outcome>>
     \/ \E o \in {"Busy", "NotAuthorized", "Failed"} : Return(o) /\ UNCHANGED plan
  /\ UNCHANGED <<deviceVars, round, half, memory>>

\* Mistaken variant: a busy drive is asked again.
PowerOffFailsRetried ==
  /\ pc = "powerOff"
  /\ pc' = "facts"
  /\ UNCHANGED <<deviceVars, request, progress, outcome, memory>>

PowerOffFails ==
  /\ pc = "powerOff"
  /\ \E o \in {"Busy", "NotAuthorized", "Failed"} : Return(o)
  /\ UNCHANGED <<deviceVars, progress, memory>>

\* Drive.PowerOff of the drive the second facts name.  UDisks2 refuses a drive
\* it does not show, and one that is in use.
PowerOff ==
  /\ pc = "powerOff"
  /\ hist[tree].present /\ hist[tree].drive = half.drive
  /\ Unplug /\ Now.use = "free"
  /\ Carried("PowerOff")
  /\ Return("Removed")
  /\ UNCHANGED <<progress, judged>>

-----------------------------------------------------------------------------
RunRemoval ==
  \/ ReadTree \/ ReadSeq \/ Decide
  \/ Unmount \/ UnmountFails \/ Unmounted
  \/ PowerOff \/ PowerOffFails

DeviceChanges ==
  /\ \/ Unplug
     \/ \E d \in Drives : Plug(d)
     \/ \E u \in Uses : ChangeUse(u, FALSE)
     \/ TreeCatchesUp
  /\ UNCHANGED <<request, pc, progress, outcome, memory>>

Next == RunRemoval \/ Begin \/ Leave \/ Panic \/ DeviceChanges

Spec == Init /\ [][Next]_vars

\* GIO's blocking pool runs the request, and UDisks2 answers its calls.
FairSpec == Spec /\ WF_vars(RunRemoval)

-----------------------------------------------------------------------------
(* Properties.                                                             *)

\* Type correctness of every variable.
TypeOK ==
  /\ hist \in Seq(Node) /\ Len(hist) \in 1 .. MaxEvents
  /\ tree \in 1 .. Len(hist)
  /\ presentation \in {"Ready", "Removing", "Retry", "Done", "Left"}
  /\ pc \in {"idle", "facts", "factsSeq", "factsUsb", "unmount", "powerOff"}
  /\ round \in {1, 2}
  /\ half \in Snapshot /\ anchor \in Snapshot
  /\ plan \in 0 .. MaxMounts
  /\ outcome \in Outcomes
  /\ judged \in 1 .. Len(hist)
  /\ calls \subseteq [call : {"Unmount", "PowerOff"}, seq : Nat \ {0}, use : Uses]

\* Calls name their object by path, so no check can bind them to the device; but
\* every call that is carried out follows a decision taken while the instance
\* that was written was in the port.  (decide: check_against on a snapshot read in
\* two moments, then bind_usb_topology in a third.)
ActsOnlyWhereJudged == \A c \in calls : c.seq = anchor.seq

\* No drive is powered off on facts that showed it in use, also when a filesystem
\* was mounted again after it was unmounted, and nothing is unmounted on facts
\* that showed swap, RAID, LVM or encryption.  (run_removal's second decision.)
NothingInUseIsPoweredOff ==
  \A c \in calls : /\ c.use # "claimed"
                   /\ c.call = "PowerOff" => c.use = "free"

\* A target that was given up is never acted on again: once any request for it
\* ended otherwise than busy (removed, changed, refused, failed, panicked), or the
\* result was left.  (RemovalPresentation: one owner, and a retry only of Busy.)
GivenUpForGood ==
  [][ \/ UNCHANGED calls
      \/ outcome \in {"none", "Busy"} /\ presentation # "Left" ]_vars

\* A request ends, whatever is plugged, mounted or refused meanwhile: no round
\* of unmounting is ever repeated.
RemovalEnds == (presentation = "Removing") ~> (presentation # "Removing")

\* How many steps a request may still take at a place, in a round and with some calls
\* left to make: one round of unmounting, and one look after it.
Ahead(place, r, n) ==
  LET looks == [facts |-> 3, factsSeq |-> 2, factsUsb |-> 1]
  IN  CASE place = "idle" -> 0
        [] place = "powerOff" -> 1
        [] place \in DOMAIN looks /\ r = 2 -> 1 + looks[place]
        [] place = "unmount" -> 5 + n
        [] OTHER -> 5 + MaxMounts + looks[place]

StepsLeft == Ahead(pc, round, plan)

\* A request takes a bounded number of steps, whatever is plugged, mounted or refused
\* meanwhile: each brings its end nearer, and nothing sets it back.
EveryStepCounts ==
  [][pc # "idle" => StepsLeft' < StepsLeft \/ (DeviceChanges /\ UNCHANGED StepsLeft)]_vars
=============================================================================
