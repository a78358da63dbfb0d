---------------------------- MODULE DeviceFacts ----------------------------
(***************************************************************************)
(* What is read of a device -- UDisks2's object tree in one call,          *)
(* /proc/swaps, the disk sequence number and sysfs, one after the other    *)
(* (linux_backend and its removal_facts) -- and how it is judged: by the   *)
(* Safety Engine, for the list and the selection, for Verify, and for Safe *)
(* Removal (safety, execution::core, orchestration::removal).              *)
(*                                                                         *)
(* Device and SafeRemoval know a disk's use and nothing of its partitions; *)
(* here are the objects that they sum up.                                  *)
(***************************************************************************)
EXTENDS Integers, FiniteSets

CONSTANTS
  Paths,      \* block objects: disks, partitions and others
  Target,     \* the one that is asked for
  Drives,
  NoDrive,    \* "/": a block device without a drive
  Points,     \* mount points
  Critical,   \* of them: "/", "/boot", "/boot/efi"
  Siblings,   \* SiblingIds that are a USB interface's path in sysfs
  NoSibling,  \* the empty SiblingId
  FirstTrees, \* the trees at the start
  MaxChanges  \* bound on what the environment changes

-----------------------------------------------------------------------------
(* The objects: of a block device its interfaces, the properties that are  *)
(* missing or malformed, and what the others say.                          *)

Signs == {"IdUsage", "IdType", "MDRaid", "MDRaidMember", "CryptoBackingDevice"}
Hints == {"HintSystem", "HintIgnore", "HintPartitionable"}
DiskProperties == {"Device", "Size", "ReadOnly", "DeviceNumber"} \cup Hints
StorageProperties == {"Device"} \cup Signs
DriveProperties == {"Model", "Vendor", "Serial", "ConnectionBus", "Removable", "MediaAvailable"}

BlockObjects ==
  [interfaces : SUBSET {"Block", "Partition", "PartitionTable", "Filesystem"},
   lost : SUBSET ({"Number", "Drive", "Partitions", "MountPoints"}
                  \cup DiskProperties \cup StorageProperties),
   drive : Drives \cup {NoDrive}, partitions : SUBSET Paths, points : SUBSET (Points \cup {""}),
   signs : SUBSET Signs, hints : SUBSET Hints, readOnly : BOOLEAN, empty : BOOLEAN]

DriveObjects ==
  [lost : SUBSET ({"CanPowerOff", "SiblingId"} \cup DriveProperties),
   usb : BOOLEAN, removable : BOOLEAN, media : BOOLEAN, canPowerOff : BOOLEAN,
   sibling : Siblings \cup {NoSibling}]

\* What UDisks2 exports: block devices and drives, each with its object.
IsTree(t) ==
  /\ \E paths \in SUBSET Paths, drives \in SUBSET Drives :
       t \in [block : [paths -> BlockObjects], drive : [drives -> DriveObjects]]
  /\ \A p \in DOMAIN t.block : "Block" \in t.block[p].interfaces

ASSUME FactsAssumption ==
  /\ Target \in Paths /\ NoDrive \notin Drives /\ NoSibling \notin Siblings
  /\ Critical \subseteq Points
  /\ MaxChanges \in Nat
  /\ \A t \in FirstTrees :
       /\ IsTree(t) /\ Target \in DOMAIN t.block
       /\ t.block[Target].drive \in DOMAIN t.drive

VARIABLES
  tree, swaps, seq, sysfs, \* the system: UDisks2's objects, /proc/swaps, the disk's
                           \* sequence number, and its USB device in sysfs
  changes,                 \* how often it has changed
  purpose,                 \* "list", "select" or "removal"
  pc,
  objects, activeSwaps,    \* what was fetched and read of it
  outcome, snapshots,      \* SnapshotFetchOutcome, and what was found
  plan, refusal            \* RemovalPlan, SafeRemovalOutcome

system == <<tree, swaps, seq, sysfs, changes>>
readings == <<objects, activeSwaps>>
judgement == <<outcome, snapshots, plan, refusal>>
vars == <<system, purpose, pc, readings, judgement>>

-----------------------------------------------------------------------------
(* The readings of the fetched objects.                                    *)

Has(path, interface) == path \in DOMAIN objects.block /\ interface \in objects.block[path].interfaces

\* Object::get and get_if_present of a block object.
Readable(path, properties) == objects.block[path].lost \cap properties = {}
IfPresent(path, interface, property) == Has(path, interface) => Readable(path, {property})

DriveReadable(drive, properties) ==
  drive \in DOMAIN objects.drive /\ objects.drive[drive].lost \cap properties = {}

\* partition_objects.
Partitions(path) == IF Has(path, "PartitionTable") THEN objects.block[path].partitions ELSE {}

\* Mistaken variant: the disk's own filesystem is forgotten.
RelatedAlone(path) == Partitions(path)

\* The objects whose mounts, swaps and signatures are the disk's.
Related(path) == {path} \cup Partitions(path)

\* filesystem_mount_points, without the empty entries.
MountPoints(path) ==
  IF Has(path, "Filesystem") THEN objects.block[path].points \ {""} ELSE {}

\* A whole disk with a drive, or nothing a snapshot is made of.
NotADisk(path) ==
  \/ ~Has(path, "Block")
  \/ Has(path, "Partition") /\ Readable(path, {"Number"})
  \/ ~Has(path, "Partition") /\ Readable(path, {"Drive"}) /\ objects.block[path].drive = NoDrive

\* Everything the snapshot of a disk needs can be read.
Complete(path) ==
  /\ ~Has(path, "Partition")
  /\ Readable(path, {"Drive"} \cup DiskProperties)
  /\ DriveReadable(objects.block[path].drive, DriveProperties)
  /\ IfPresent(path, "PartitionTable", "Partitions")
  /\ \A p \in Related(path) : /\ Has(p, "Block")
                              /\ IfPresent(p, "Filesystem", "MountPoints")
                              /\ Readable(p, StorageProperties)

\* q is the disk sequence number as it was read, 0 for none.
Snapshot(path, q) ==
  LET disk == objects.block[path]
      drive == objects.drive[disk.drive]
  IN  [path |-> path, drive |-> disk.drive, hints |-> disk.hints,
       readOnly |-> disk.readOnly, empty |-> disk.empty,
       usb |-> drive.usb, removable |-> drive.removable, media |-> drive.media,
       mounts |-> UNION {MountPoints(p) : p \in Related(path)},
       swap |-> Related(path) \cap activeSwaps # {},
       complex |-> \E p \in Related(path) : objects.block[p].signs # {},
       seq |-> q]

-----------------------------------------------------------------------------
(* The judgements.                                                         *)

\* assess_device's rules, in its order.
Rule(applies, level, reason) == [applies |-> applies, level |-> level, reason |-> reason]

Rules(s) ==
  << Rule(s.mounts \cap Critical # {}, "Blocked", "CriticalMount"),
     Rule(s.swap, "Blocked", "ActiveSwap"),
     Rule(s.complex, "Blocked", "ComplexStorage"),
     Rule("HintSystem" \in s.hints, "Blocked", "SystemDevice"),
     Rule(s.readOnly, "Blocked", "ReadOnly"),
     Rule("HintIgnore" \in s.hints, "Blocked", "IgnoredBySystem"),
     Rule(~s.media \/ s.empty, "Blocked", "MediaUnavailable"),
     Rule("HintPartitionable" \notin s.hints, "Caution", "NotPartitionable"),
     Rule(s.mounts # {}, "Caution", "MountedFilesystem"),
     Rule(s.usb /\ s.removable, "Normal", "UsbRemovable"),
     Rule(TRUE, "Caution", "UnknownOrNonRemovable") >>

\* The first rule that applies decides; a critical mount names the three after it too.
Assess(s) ==
  LET rules == Rules(s)
      first == CHOOSE i \in DOMAIN rules :
                 rules[i].applies /\ \A j \in 1..(i - 1) : ~rules[j].applies
      named == {first} \cup (IF first = 1 THEN {i \in 2..4 : rules[i].applies} ELSE {})
  IN  [level |-> rules[first].level, writable |-> rules[first].level = "Normal",
       reasons |-> {rules[i].reason : i \in named}]

\* selectability: the list's and select()'s.
Selectable(s) == Assess(s).writable /\ Assess(s).level = "Normal" /\ s.media /\ ~s.empty

\* verify_target_hard_hazards.
HardHazards(s) ==
  {h \in {"SystemDevice", "ActiveSwap", "ComplexStorage", "HintIgnore", "MediaUnavailable"} :
     CASE h = "SystemDevice" -> "HintSystem" \in s.hints
       [] h = "ActiveSwap" -> s.swap
       [] h = "ComplexStorage" -> s.complex
       [] h = "HintIgnore" -> "HintIgnore" \in s.hints
       [] h = "MediaUnavailable" -> ~s.media}

\* protection: what unmounting cannot resolve.
Protected(s) ==
  Assess(s).reasons \cap {"SystemDevice", "IgnoredBySystem", "CriticalMount", "ActiveSwap",
                          "ComplexStorage"} # {}

\* bind_usb_topology: the number of interfaces, once the block device is found under
\* the drive's and is still the snapshot's instance.
Bound(s, sibling) ==
  /\ sibling \in Siblings
  /\ sysfs.under = sibling /\ s.seq # 0 /\ seq = s.seq
  /\ sysfs.interfaces = 1

\* other_drives_sharing.
Sharing(s, sibling) ==
  {d \in DOMAIN objects.drive \ {s.drive} : sibling # NoSibling /\ objects.drive[d].sibling = sibling}

\* topology: what is not one ordinary USB device.
Untouchable(s) ==
  LET drive == objects.drive[s.drive]
  IN  ~s.usb \/ ~drive.canPowerOff \/ Sharing(s, drive.sibling) # {} \/ ~Bound(s, drive.sibling)

\* drive_filesystems: the objects of the drive that carry a filesystem.
Filesystems(s) ==
  {p \in DOMAIN objects.block :
     Has(p, "Block") /\ Has(p, "Filesystem") /\ objects.block[p].drive = s.drive}

\* What facts_from_objects reads beside the snapshot.
FactsComplete(s) ==
  /\ DriveReadable(s.drive, {"CanPowerOff"})
  /\ \A d \in DOMAIN objects.drive : DriveReadable(d, {"SiblingId"})
  /\ \A p \in DOMAIN objects.block :
       Has(p, "Block") /\ Has(p, "Filesystem") =>
         /\ Readable(p, {"Drive"})
         /\ p \in Filesystems(s) => Readable(p, {"MountPoints"})

\* Mistaken variant: enough that some object of the drive accounts for every mount.
LayoutOfMounts(s) == s.mounts \subseteq UNION {MountPoints(p) : p \in Filesystems(s)}

\* unmount_targets: every filesystem is the disk's or a partition's, and together
\* they have the mounts that the snapshot has.
LayoutAddsUp(s) ==
  /\ Filesystems(s) \subseteq Related(s.path)
  /\ UNION {MountPoints(p) : p \in Filesystems(s)} = s.mounts

\* What is unmounted: RemovalPlan's objects with their mount points.
Unmounts(s) ==
  {[path |-> p, points |-> MountPoints(p)] : p \in {f \in Filesystems(s) : MountPoints(f) # {}}}

-----------------------------------------------------------------------------
(* The program.                                                            *)

NoPlan == [drive |-> NoDrive, unmount |-> {}]

Init ==
  /\ tree \in FirstTrees /\ swaps = {} /\ seq = 1
  /\ sysfs = [under |-> tree.drive[tree.block[Target].drive].sibling, interfaces |-> 1]
  /\ changes = 0
  /\ purpose \in {"list", "select", "removal"}
  /\ pc = "fetch" /\ objects = tree /\ activeSwaps = {}
  /\ outcome = "none" /\ snapshots = {} /\ plan = NoPlan /\ refusal = "none"

\* CollectionError: the tree, /proc/swaps, or something missing or malformed in the tree.
Fails(why) ==
  /\ outcome' = why /\ pc' = "done"
  /\ UNCHANGED <<snapshots, plan, refusal>>

\* fetch_managed_objects: one call, one moment.
Fetch ==
  /\ pc = "fetch"
  /\ \/ objects' = tree /\ pc' = "swaps" /\ UNCHANGED judgement
     \/ Fails("DBus") /\ UNCHANGED objects
  /\ UNCHANGED <<system, purpose, activeSwaps>>

\* read_active_swaps: the disks and partitions in /proc/swaps.
ReadSwaps ==
  /\ pc = "swaps"
  /\ \/ activeSwaps' = swaps /\ pc' = "snapshot" /\ UNCHANGED judgement
     \/ Fails("Swaps") /\ UNCHANGED activeSwaps
  /\ UNCHANGED <<system, purpose, objects>>

\* snapshots_from_objects: every disk of the tree, or nothing.
ListSnapshots ==
  /\ pc = "snapshot" /\ purpose = "list"
  /\ LET disks == {p \in DOMAIN objects.block : ~NotADisk(p)}
     IN  IF \A p \in disks : Complete(p)
         THEN /\ outcome' = "Found" /\ pc' = "done"
              /\ \E q \in {0, seq} : snapshots' = {Snapshot(p, q) : p \in disks}
              /\ UNCHANGED <<plan, refusal>>
         ELSE Fails("Missing")
  /\ UNCHANGED <<system, purpose, readings>>

\* snapshot_outcome, snapshot_from_objects.
TakeSnapshot ==
  /\ pc = "snapshot" /\ purpose # "list"
  /\ IF NotADisk(Target)
     THEN /\ outcome' = "NotFound" /\ pc' = "done"
          /\ UNCHANGED <<snapshots, plan, refusal>>
     ELSE IF ~Complete(Target) THEN Fails("Missing")
     ELSE /\ outcome' = "Found" /\ \E q \in {0, seq} : snapshots' = {Snapshot(Target, q)}
          /\ pc' = IF purpose = "removal" THEN "facts" ELSE "done"
          /\ UNCHANGED <<plan, refusal>>
  /\ UNCHANGED <<system, purpose, readings>>

Refuse(why) == refusal' = why /\ UNCHANGED <<outcome, plan>>

\* facts_from_objects and assess; decide's comparison comes before (SafeRemoval).
JudgeRemoval ==
  /\ pc = "facts"
  /\ LET s == CHOOSE s \in snapshots : TRUE
     IN  IF ~FactsComplete(s) THEN outcome' = "Missing" /\ UNCHANGED <<plan, refusal>>
         ELSE IF Protected(s) \/ Untouchable(s) THEN Refuse("Unsupported")
         ELSE IF ~LayoutAddsUp(s)
              THEN Refuse(IF Filesystems(s) \subseteq Related(s.path) THEN "Unavailable"
                                                                     ELSE "Unsupported")
         ELSE /\ plan' = [drive |-> s.drive, unmount |-> Unmounts(s)]
              /\ UNCHANGED <<outcome, refusal>>
  /\ pc' = "done"
  /\ UNCHANGED <<system, purpose, readings, snapshots>>

-----------------------------------------------------------------------------
(* The environment: mkfs, mount, swapon, udev, the kernel, UDisks2.  A     *)
(* change of the tree after it was fetched is not read any more.           *)

Toggled(set, x) == IF x \in set THEN set \ {x} ELSE set \cup {x}

Becomes(t) ==
  /\ pc = "fetch" /\ changes < MaxChanges
  /\ tree' = t /\ changes' = changes + 1
  /\ UNCHANGED <<swaps, seq, sysfs, purpose, pc, readings, judgement>>

Mount == \E p \in DOMAIN tree.block, m \in Points :
  Becomes([tree EXCEPT !.block[p].points = Toggled(@, m), !.block[p].interfaces = @ \cup {"Filesystem"}])

Format == \E p \in DOMAIN tree.block, sign \in Signs :
  Becomes([tree EXCEPT !.block[p].signs = Toggled(@, sign), !.block[p].interfaces = @ \ {"Filesystem"},
                       !.block[p].points = {}])

Partition == Target \in DOMAIN tree.block /\ \E p \in DOMAIN tree.block \ {Target} :
  LET table == [tree.block[Target] EXCEPT !.interfaces = @ \cup {"PartitionTable"},
                                          !.partitions = Toggled(@, p)]
      partition == [tree.block[p] EXCEPT !.interfaces = Toggled(@, "Partition"),
                                         !.drive = table.drive]
  IN  Becomes([tree EXCEPT !.block[Target] = table, !.block[p] = partition])

Udev == \E p \in DOMAIN tree.block :
  \/ \E h \in Hints : Becomes([tree EXCEPT !.block[p].hints = Toggled(@, h)])
  \/ Becomes([tree EXCEPT !.block[p].readOnly = ~@])
  \/ Becomes([tree EXCEPT !.block[p].empty = ~@])
  \/ \E d \in Drives \cup {NoDrive} : Becomes([tree EXCEPT !.block[p].drive = d])

Drive == \E d \in DOMAIN tree.drive :
  \/ Becomes([tree EXCEPT !.drive[d].usb = ~@])
  \/ Becomes([tree EXCEPT !.drive[d].removable = ~@])
  \/ Becomes([tree EXCEPT !.drive[d].media = ~@])
  \/ Becomes([tree EXCEPT !.drive[d].canPowerOff = ~@])
  \/ \E sibling \in Siblings \cup {NoSibling} : Becomes([tree EXCEPT !.drive[d].sibling = sibling])

\* A property is missing or has an unexpected value, or an object is not there.
Lose ==
  \/ \E p \in DOMAIN tree.block, x \in {"Number", "Drive", "Partitions", "MountPoints"}
                                       \cup DiskProperties \cup StorageProperties :
       Becomes([tree EXCEPT !.block[p].lost = @ \cup {x}])
  \/ \E d \in DOMAIN tree.drive, x \in {"CanPowerOff", "SiblingId"} \cup DriveProperties :
       Becomes([tree EXCEPT !.drive[d].lost = @ \cup {x}])
  \/ \E p \in DOMAIN tree.block :
       Becomes([tree EXCEPT !.block = [q \in DOMAIN tree.block \ {p} |-> tree.block[q]]])
  \/ \E d \in DOMAIN tree.drive :
       Becomes([tree EXCEPT !.drive = [e \in DOMAIN tree.drive \ {d} |-> tree.drive[e]]])

SwapOn ==
  /\ pc # "done" /\ changes < MaxChanges
  /\ \E p \in Paths : swaps' = Toggled(swaps, p)
  /\ changes' = changes + 1
  /\ UNCHANGED <<tree, seq, sysfs, purpose, pc, readings, judgement>>

Replug ==
  /\ pc # "done" /\ changes < MaxChanges
  /\ seq' = seq + 1
  /\ \E sibling \in Siblings \cup {NoSibling}, n \in 1..2 :
       sysfs' = [under |-> sibling, interfaces |-> n]
  /\ changes' = changes + 1
  /\ UNCHANGED <<tree, swaps, purpose, pc, readings, judgement>>

Next ==
  \/ Fetch \/ ReadSwaps \/ ListSnapshots \/ TakeSnapshot \/ JudgeRemoval
  \/ Mount \/ Format \/ Partition \/ Udev \/ Drive \/ Lose \/ SwapOn \/ Replug

Spec == Init /\ [][Next]_vars

-----------------------------------------------------------------------------
(* Properties.                                                             *)

Snapshots ==
  [path : Paths, drive : Drives, hints : SUBSET Hints, readOnly : BOOLEAN, empty : BOOLEAN,
   usb : BOOLEAN, removable : BOOLEAN, media : BOOLEAN, mounts : SUBSET Points,
   swap : BOOLEAN, complex : BOOLEAN, seq : Nat]

\* Type correctness: the trees, the readings and what is made of them.
TypeOK ==
  /\ IsTree(tree) /\ IsTree(objects)
  /\ swaps \subseteq Paths /\ activeSwaps \subseteq Paths
  /\ seq \in Nat /\ changes \in Nat
  /\ sysfs \in [under : Siblings \cup {NoSibling}, interfaces : Nat]
  /\ purpose \in {"list", "select", "removal"}
  /\ pc \in {"fetch", "swaps", "snapshot", "facts", "done"}
  /\ outcome \in {"none", "DBus", "Swaps", "Missing", "NotFound", "Found"}
  /\ snapshots \subseteq Snapshots
  /\ plan \in [drive : Drives \cup {NoDrive}, unmount : SUBSET [path : Paths, points : SUBSET Points]]
  /\ refusal \in {"none", "Unsupported", "Unavailable"}

\* The objects on a disk, from the tree.
OnDisk(d) == {p \in DOMAIN objects.block :
                p = d \/ (Has(d, "PartitionTable") /\ p \in objects.block[d].partitions)}

\* Nothing on the disk is in use, and it is a USB stick with a medium that nothing
\* tells to keep off.
Unused(d) ==
  LET disk == objects.block[d]
      drive == objects.drive[disk.drive]
  IN  /\ \A p \in OnDisk(d) : /\ p \notin activeSwaps
                              /\ objects.block[p].signs = {}
                              /\ Has(p, "Filesystem") => objects.block[p].points \subseteq {""}
      /\ disk.hints = {"HintPartitionable"} /\ ~disk.readOnly /\ ~disk.empty
      /\ drive.usb /\ drive.removable /\ drive.media

\* A disk may be selected exactly when nothing of it is in use, whichever of its
\* objects says so and in whatever combination; such a disk is also one that Verify
\* and Safe Removal do not refuse.  Nothing is taken for absent that could not be read,
\* and what is wrong with another device does not disturb this one's snapshot
\* (assess_device, snapshot_from_objects, collect_device_snapshot).
SelectableIsUnused ==
  /\ \A s \in snapshots : /\ Selectable(s) <=> Unused(s.path)
                          /\ Selectable(s) => HardHazards(s) = {} /\ ~Protected(s)
                          /\ \A p \in OnDisk(s.path) : Readable(p, StorageProperties)
                          /\ Partitions(s.path) \subseteq DOMAIN objects.block
  /\ outcome = "Missing" /\ purpose = "select" =>
       LET disk == objects.block[Target]
       IN  \/ disk.lost # {}
           \/ disk.drive \notin DOMAIN objects.drive \/ objects.drive[disk.drive].lost # {}
           \/ \E p \in disk.partitions : p \in DOMAIN objects.block => objects.block[p].lost # {}

\* Safe Removal knows every mount point of the drive it powers off -- none, when its
\* plan has nothing to unmount -- and unmounts objects of that disk only, each from all
\* its mount points, none of them critical; the disk carries no swap and no other layer;
\* no other drive shares its USB device, as UDisks2 tells, and the number of its
\* instance is known (removal_facts, assess).  That the USB device is of this very
\* instance is a guard of the plan (Bound), and no part of this.
RemovalMissesNothing ==
  plan # NoPlan =>
    \A s \in snapshots :
      LET points(p) == IF Has(p, "Filesystem") THEN objects.block[p].points \ {""} ELSE {}
          onDrive == {p \in DOMAIN objects.block : objects.block[p].drive = s.drive}
      IN  /\ plan.drive = s.drive
          /\ UNION {u.points : u \in plan.unmount}
               = UNION {points(p) : p \in OnDisk(s.path) \cup onDrive}
          /\ \A u \in plan.unmount : u.path \in OnDisk(s.path) /\ u.points = points(u.path)
          /\ \A p \in OnDisk(s.path) : p \notin activeSwaps /\ objects.block[p].signs = {}
                                       /\ points(p) \cap Critical = {}
          /\ \A d \in DOMAIN objects.drive \ {s.drive} :
               objects.drive[d].sibling # objects.drive[s.drive].sibling
          /\ s.seq # 0

\* What the outcome Unsupported says of itself, "The Safety Engine protects it (a system
\* device, or one the system says to leave alone)": such a device is not removed.
LeftAlone ==
  plan # NoPlan => \A s \in snapshots : s.hints \cap {"HintSystem", "HintIgnore"} = {}
=============================================================================
