-------------------------- MODULE DeviceFacts_proofs --------------------------
(***************************************************************************)
(* DeviceFacts for every tree that UDisks2 can show and every number of    *)
(* changes to it.                                                          *)
(*                                                                         *)
(* Two things carry the argument.  A snapshot that was made was made of    *)
(* objects that are still the fetched ones, with nothing missing; and the  *)
(* Safety Engine's first rule that applies says which rules before it do   *)
(* not.                                                                    *)
(***************************************************************************)
EXTENDS DeviceFacts, TLAPS

-----------------------------------------------------------------------------
(* Trees.                                                                  *)

LEMMA TreeParts ==
  ASSUME NEW t, IsTree(t)
  PROVE  /\ DOMAIN t.block \subseteq Paths /\ DOMAIN t.drive \subseteq Drives
         /\ \A p \in DOMAIN t.block : t.block[p] \in BlockObjects /\ "Block" \in t.block[p].interfaces
         /\ \A d \in DOMAIN t.drive : t.drive[d] \in DriveObjects
  BY DEF IsTree

LEMMA BlockReplaced ==
  ASSUME NEW t, IsTree(t), NEW p \in DOMAIN t.block,
         NEW object \in BlockObjects, "Block" \in object.interfaces
  PROVE  IsTree([t EXCEPT !.block[p] = object])
  BY DEF IsTree

LEMMA DriveReplaced ==
  ASSUME NEW t, IsTree(t), NEW d \in DOMAIN t.drive, NEW object \in DriveObjects
  PROVE  IsTree([t EXCEPT !.drive[d] = object])
  BY DEF IsTree

LEMMA BlockRemoved ==
  ASSUME NEW t, IsTree(t), NEW p
  PROVE  IsTree([t EXCEPT !.block = [q \in DOMAIN t.block \ {p} |-> t.block[q]]])
  BY DEF IsTree

LEMMA DriveRemoved ==
  ASSUME NEW t, IsTree(t), NEW d
  PROVE  IsTree([t EXCEPT !.drive = [e \in DOMAIN t.drive \ {d} |-> t.drive[e]]])
  BY DEF IsTree

-----------------------------------------------------------------------------
(* The environment's changes keep the tree a tree.                         *)

LEMMA ToggledIn ==
  ASSUME NEW S, NEW set \in SUBSET S, NEW x \in S
  PROVE  Toggled(set, x) \in SUBSET S
  BY DEF Toggled

LEMMA BlockParts ==
  ASSUME NEW o \in BlockObjects
  PROVE  /\ o.interfaces \in SUBSET {"Block", "Partition", "PartitionTable", "Filesystem"}
         /\ o.partitions \in SUBSET Paths /\ o.points \in SUBSET (Points \cup {""})
         /\ o.signs \in SUBSET Signs /\ o.hints \in SUBSET Hints
         /\ o.drive \in Drives \cup {NoDrive}
BY DEF BlockObjects

LEMMA MountTree == ASSUME IsTree(tree), Mount PROVE IsTree(tree')
<1>1. PICK p \in DOMAIN tree.block, m \in Points :
        tree' = [tree EXCEPT !.block[p].points = Toggled(@, m),
                             !.block[p].interfaces = @ \cup {"Filesystem"}]
  BY DEF Mount, Becomes
<1> DEFINE object == [tree.block[p] EXCEPT !.points = Toggled(@, m),
                                           !.interfaces = @ \cup {"Filesystem"}]
<1>0. tree.block[p] \in BlockObjects /\ "Block" \in tree.block[p].interfaces
  BY TreeParts
<1>2. object \in BlockObjects /\ "Block" \in object.interfaces
  <2>0. tree.block[p].points \in SUBSET (Points \cup {""}) /\ m \in Points \cup {""}
    BY <1>0 DEF BlockObjects
  <2>1. Toggled(tree.block[p].points, m) \in SUBSET (Points \cup {""})
    BY <2>0, ToggledIn
  <2>2. tree.block[p].interfaces \cup {"Filesystem"}
          \in SUBSET {"Block", "Partition", "PartitionTable", "Filesystem"}
    BY <1>0 DEF BlockObjects
  <2> QED
    BY <1>0, <2>1, <2>2 DEF BlockObjects
<1>3. tree' = [tree EXCEPT !.block[p] = object]
  BY <1>1 DEF IsTree, BlockObjects
<1> QED
  BY <1>2, <1>3, BlockReplaced

LEMMA FormatTree == ASSUME IsTree(tree), Format PROVE IsTree(tree')
<1>1. PICK p \in DOMAIN tree.block, sign \in Signs :
        tree' = [tree EXCEPT !.block[p].signs = Toggled(@, sign),
                             !.block[p].interfaces = @ \ {"Filesystem"}, !.block[p].points = {}]
  BY DEF Format, Becomes
<1> DEFINE object == [tree.block[p] EXCEPT !.signs = Toggled(@, sign),
                                           !.interfaces = @ \ {"Filesystem"}, !.points = {}]
<1>0. tree.block[p] \in BlockObjects /\ "Block" \in tree.block[p].interfaces
  BY TreeParts
<1>2. object \in BlockObjects /\ "Block" \in object.interfaces
  <2>1. Toggled(tree.block[p].signs, sign) \in SUBSET Signs
    <3>1. tree.block[p].signs \in SUBSET Signs
      BY <1>0, BlockParts
    <3> QED
      BY <3>1, ToggledIn
  <2>2. tree.block[p].interfaces \ {"Filesystem"}
          \in SUBSET {"Block", "Partition", "PartitionTable", "Filesystem"}
    BY <1>0 DEF BlockObjects
  <2>3. "Block" \in tree.block[p].interfaces \ {"Filesystem"}
    BY <1>0
  <2> DEFINE signs == Toggled(tree.block[p].signs, sign)
             interfaces == tree.block[p].interfaces \ {"Filesystem"}
  <2>4. object = [tree.block[p] EXCEPT !.signs = signs, !.interfaces = interfaces, !.points = {}]
    OBVIOUS
  <2>5. signs \in SUBSET Signs /\ "Block" \in interfaces
        /\ interfaces \in SUBSET {"Block", "Partition", "PartitionTable", "Filesystem"}
    BY <2>1, <2>2, <2>3
  <2> HIDE DEF object, signs, interfaces
  <2> QED
    BY <1>0, <2>4, <2>5 DEF BlockObjects
<1>3. tree' = [tree EXCEPT !.block[p] = object]
  BY <1>1 DEF IsTree, BlockObjects
<1> QED
  BY <1>2, <1>3, BlockReplaced

LEMMA PartitionTree == ASSUME IsTree(tree), Partition PROVE IsTree(tree')
<1> DEFINE table(p) == [tree.block[Target] EXCEPT !.interfaces = @ \cup {"PartitionTable"},
                                                  !.partitions = Toggled(@, p)]
           partition(p) == [tree.block[p] EXCEPT !.interfaces = Toggled(@, "Partition"),
                                                 !.drive = table(p).drive]
<1>0. Target \in DOMAIN tree.block
  BY DEF Partition
<1>1. PICK p \in DOMAIN tree.block \ {Target} :
        tree' = [tree EXCEPT !.block[Target] = table(p), !.block[p] = partition(p)]
  BY DEF Partition, Becomes
<1> DEFINE first == [tree EXCEPT !.block[Target] = table(p)]
<1>7. /\ tree.block[Target] \in BlockObjects /\ "Block" \in tree.block[Target].interfaces
      /\ tree.block[p] \in BlockObjects /\ "Block" \in tree.block[p].interfaces
      /\ p \in Paths
  BY <1>0, TreeParts
<1>2. table(p) \in BlockObjects /\ "Block" \in table(p).interfaces
  <2>1. Toggled(tree.block[Target].partitions, p) \in SUBSET Paths
    <3>1. tree.block[Target].partitions \in SUBSET Paths
      BY <1>7, BlockParts
    <3> QED
      BY <1>7, <3>1, ToggledIn
  <2>2. tree.block[Target].interfaces \cup {"PartitionTable"}
          \in SUBSET {"Block", "Partition", "PartitionTable", "Filesystem"}
    BY <1>7 DEF BlockObjects
  <2> DEFINE interfaces == tree.block[Target].interfaces \cup {"PartitionTable"}
             partitions == Toggled(tree.block[Target].partitions, p)
  <2>3. table(p) = [tree.block[Target] EXCEPT !.interfaces = interfaces, !.partitions = partitions]
    OBVIOUS
  <2>4. /\ interfaces \in SUBSET {"Block", "Partition", "PartitionTable", "Filesystem"}
        /\ "Block" \in interfaces /\ partitions \in SUBSET Paths
    BY <1>7, <2>1, <2>2
  <2> HIDE DEF table, interfaces, partitions
  <2> QED
    BY <1>7, <2>3, <2>4 DEF BlockObjects
<1>3. partition(p) \in BlockObjects /\ "Block" \in partition(p).interfaces
  <2>1. Toggled(tree.block[p].interfaces, "Partition")
          \in SUBSET {"Block", "Partition", "PartitionTable", "Filesystem"}
    <3>1. tree.block[p].interfaces \in SUBSET {"Block", "Partition", "PartitionTable", "Filesystem"}
      BY <1>7, BlockParts
    <3> QED
      BY <3>1, ToggledIn
  <2>2. "Block" \in Toggled(tree.block[p].interfaces, "Partition")
    BY <1>7 DEF Toggled
  <2>3. table(p).drive \in Drives \cup {NoDrive}
    BY <1>2, BlockParts
  <2> DEFINE interfaces == Toggled(tree.block[p].interfaces, "Partition")
             drive == table(p).drive
  <2>4. partition(p) = [tree.block[p] EXCEPT !.interfaces = interfaces, !.drive = drive]
    OBVIOUS
  <2>5. /\ interfaces \in SUBSET {"Block", "Partition", "PartitionTable", "Filesystem"}
        /\ "Block" \in interfaces /\ drive \in Drives \cup {NoDrive}
    BY <2>1, <2>2, <2>3
  <2> HIDE DEF table, partition, interfaces, drive
  <2> QED
    BY <1>7, <2>4, <2>5 DEF BlockObjects
<1> HIDE DEF table, partition
<1>4. IsTree(first) /\ DOMAIN first.block = DOMAIN tree.block
  BY <1>0, <1>2, BlockReplaced DEF IsTree
<1>5. IsTree([first EXCEPT !.block[p] = partition(p)])
  BY <1>3, <1>4, BlockReplaced
<1>6. tree' = [first EXCEPT !.block[p] = partition(p)]
  BY <1>1
<1> QED
  BY <1>5, <1>6

LEMMA UdevTree == ASSUME IsTree(tree), Udev PROVE IsTree(tree')
<1>1. PICK p \in DOMAIN tree.block :
        \/ \E h \in Hints : tree' = [tree EXCEPT !.block[p].hints = Toggled(@, h)]
        \/ tree' = [tree EXCEPT !.block[p].readOnly = ~@]
        \/ tree' = [tree EXCEPT !.block[p].empty = ~@]
        \/ \E d \in Drives \cup {NoDrive} : tree' = [tree EXCEPT !.block[p].drive = d]
  BY DEF Udev, Becomes
<1> DEFINE old == tree.block[p]
<1>0. old \in BlockObjects /\ "Block" \in old.interfaces
  BY TreeParts
<1>2. CASE \E h \in Hints : tree' = [tree EXCEPT !.block[p].hints = Toggled(@, h)]
  <2>1. PICK h \in Hints : tree' = [tree EXCEPT !.block[p].hints = Toggled(@, h)]
    BY <1>2
  <2> DEFINE object == [old EXCEPT !.hints = Toggled(@, h)]
  <2>2. object \in BlockObjects /\ "Block" \in object.interfaces
    BY <1>0 DEF BlockObjects, Toggled
  <2>3. tree' = [tree EXCEPT !.block[p] = object]
    BY <2>1 DEF IsTree, BlockObjects
  <2> QED
    BY <2>2, <2>3, BlockReplaced
<1>3. CASE tree' = [tree EXCEPT !.block[p].readOnly = ~@]
  <2> DEFINE object == [old EXCEPT !.readOnly = ~@]
  <2>2. object \in BlockObjects /\ "Block" \in object.interfaces
    BY <1>0 DEF BlockObjects
  <2>3. tree' = [tree EXCEPT !.block[p] = object]
    BY <1>3 DEF IsTree, BlockObjects
  <2> QED
    BY <2>2, <2>3, BlockReplaced
<1>4. CASE tree' = [tree EXCEPT !.block[p].empty = ~@]
  <2> DEFINE object == [old EXCEPT !.empty = ~@]
  <2>2. object \in BlockObjects /\ "Block" \in object.interfaces
    BY <1>0 DEF BlockObjects
  <2>3. tree' = [tree EXCEPT !.block[p] = object]
    BY <1>4 DEF IsTree, BlockObjects
  <2> QED
    BY <2>2, <2>3, BlockReplaced
<1>5. CASE \E d \in Drives \cup {NoDrive} : tree' = [tree EXCEPT !.block[p].drive = d]
  <2>1. PICK d \in Drives \cup {NoDrive} : tree' = [tree EXCEPT !.block[p].drive = d]
    BY <1>5
  <2> DEFINE object == [old EXCEPT !.drive = d]
  <2>2. object \in BlockObjects /\ "Block" \in object.interfaces
    BY <1>0 DEF BlockObjects
  <2>3. tree' = [tree EXCEPT !.block[p] = object]
    BY <2>1 DEF IsTree, BlockObjects
  <2> QED
    BY <2>2, <2>3, BlockReplaced
<1> QED
  BY <1>1, <1>2, <1>3, <1>4, <1>5

LEMMA DriveTree == ASSUME IsTree(tree), Drive PROVE IsTree(tree')
<1>1. PICK d \in DOMAIN tree.drive :
        \/ tree' = [tree EXCEPT !.drive[d].usb = ~@]
        \/ tree' = [tree EXCEPT !.drive[d].removable = ~@]
        \/ tree' = [tree EXCEPT !.drive[d].media = ~@]
        \/ tree' = [tree EXCEPT !.drive[d].canPowerOff = ~@]
        \/ \E sibling \in Siblings \cup {NoSibling} :
             tree' = [tree EXCEPT !.drive[d].sibling = sibling]
  BY DEF Drive, Becomes
<1> DEFINE old == tree.drive[d]
<1>0. old \in DriveObjects
  BY TreeParts
<1>2. PICK object \in DriveObjects : tree' = [tree EXCEPT !.drive[d] = object]
  <2>1. CASE tree' = [tree EXCEPT !.drive[d].usb = ~@]
    <3>1. [old EXCEPT !.usb = ~@] \in DriveObjects
      BY <1>0 DEF DriveObjects
    <3>2. tree' = [tree EXCEPT !.drive[d] = [old EXCEPT !.usb = ~@]]
      BY <2>1 DEF IsTree, DriveObjects
    <3> QED
      BY <3>1, <3>2
  <2>2. CASE tree' = [tree EXCEPT !.drive[d].removable = ~@]
    <3>1. [old EXCEPT !.removable = ~@] \in DriveObjects
      BY <1>0 DEF DriveObjects
    <3>2. tree' = [tree EXCEPT !.drive[d] = [old EXCEPT !.removable = ~@]]
      BY <2>2 DEF IsTree, DriveObjects
    <3> QED
      BY <3>1, <3>2
  <2>3. CASE tree' = [tree EXCEPT !.drive[d].media = ~@]
    <3>1. [old EXCEPT !.media = ~@] \in DriveObjects
      BY <1>0 DEF DriveObjects
    <3>2. tree' = [tree EXCEPT !.drive[d] = [old EXCEPT !.media = ~@]]
      BY <2>3 DEF IsTree, DriveObjects
    <3> QED
      BY <3>1, <3>2
  <2>4. CASE tree' = [tree EXCEPT !.drive[d].canPowerOff = ~@]
    <3>1. [old EXCEPT !.canPowerOff = ~@] \in DriveObjects
      BY <1>0 DEF DriveObjects
    <3>2. tree' = [tree EXCEPT !.drive[d] = [old EXCEPT !.canPowerOff = ~@]]
      BY <2>4 DEF IsTree, DriveObjects
    <3> QED
      BY <3>1, <3>2
  <2>5. CASE \E sibling \in Siblings \cup {NoSibling} :
               tree' = [tree EXCEPT !.drive[d].sibling = sibling]
    <3>0. PICK sibling \in Siblings \cup {NoSibling} :
            tree' = [tree EXCEPT !.drive[d].sibling = sibling]
      BY <2>5
    <3>1. [old EXCEPT !.sibling = sibling] \in DriveObjects
      BY <1>0 DEF DriveObjects
    <3>2. tree' = [tree EXCEPT !.drive[d] = [old EXCEPT !.sibling = sibling]]
      BY <3>0 DEF IsTree, DriveObjects
    <3> QED
      BY <3>1, <3>2
  <2> QED
    BY <1>1, <2>1, <2>2, <2>3, <2>4, <2>5
<1> QED
  BY <1>2, DriveReplaced

LEMMA LoseTree == ASSUME IsTree(tree), Lose PROVE IsTree(tree')
<1>1. CASE \E p \in DOMAIN tree.block, x \in {"Number", "Drive", "Partitions", "MountPoints"}
                                           \cup DiskProperties \cup StorageProperties :
             tree' = [tree EXCEPT !.block[p].lost = @ \cup {x}]
  <2>1. PICK p \in DOMAIN tree.block, x \in {"Number", "Drive", "Partitions", "MountPoints"}
                                          \cup DiskProperties \cup StorageProperties :
          tree' = [tree EXCEPT !.block[p].lost = @ \cup {x}]
    BY <1>1
  <2> DEFINE object == [tree.block[p] EXCEPT !.lost = @ \cup {x}]
  <2>2. object \in BlockObjects /\ "Block" \in object.interfaces
    BY TreeParts DEF BlockObjects
  <2>3. tree' = [tree EXCEPT !.block[p] = object]
    BY <2>1 DEF IsTree, BlockObjects
  <2> QED
    BY <2>2, <2>3, BlockReplaced
<1>2. CASE \E d \in DOMAIN tree.drive, x \in {"CanPowerOff", "SiblingId"} \cup DriveProperties :
             tree' = [tree EXCEPT !.drive[d].lost = @ \cup {x}]
  <2>1. PICK d \in DOMAIN tree.drive, x \in {"CanPowerOff", "SiblingId"} \cup DriveProperties :
          tree' = [tree EXCEPT !.drive[d].lost = @ \cup {x}]
    BY <1>2
  <2> DEFINE object == [tree.drive[d] EXCEPT !.lost = @ \cup {x}]
  <2>2. object \in DriveObjects
    BY TreeParts DEF DriveObjects
  <2>3. tree' = [tree EXCEPT !.drive[d] = object]
    BY <2>1 DEF IsTree, DriveObjects
  <2> QED
    BY <2>2, <2>3, DriveReplaced
<1>3. CASE \E p \in DOMAIN tree.block :
             tree' = [tree EXCEPT !.block = [q \in DOMAIN tree.block \ {p} |-> tree.block[q]]]
  <2>1. PICK p : tree' = [tree EXCEPT !.block = [q \in DOMAIN tree.block \ {p} |-> tree.block[q]]]
    BY <1>3
  <2> QED
    BY <2>1, BlockRemoved
<1>4. CASE \E d \in DOMAIN tree.drive :
             tree' = [tree EXCEPT !.drive = [e \in DOMAIN tree.drive \ {d} |-> tree.drive[e]]]
  <2>1. PICK d : tree' = [tree EXCEPT !.drive = [e \in DOMAIN tree.drive \ {d} |-> tree.drive[e]]]
    BY <1>4
  <2> QED
    BY <2>1, DriveRemoved
<1> QED
  BY <1>1, <1>2, <1>3, <1>4 DEF Lose, Becomes

-----------------------------------------------------------------------------
(* Type correctness.                                                       *)

\* What is known of a disk of which a snapshot is made.
LEMMA CompleteDisk ==
  ASSUME IsTree(objects), NEW path, ~NotADisk(path), Complete(path)
  PROVE  /\ path \in DOMAIN objects.block
         /\ Related(path) \subseteq DOMAIN objects.block
         /\ OnDisk(path) = Related(path)
         /\ objects.block[path].drive \in DOMAIN objects.drive
<1>1. path \in DOMAIN objects.block
  BY DEF NotADisk, Has
<1>2. Related(path) \subseteq DOMAIN objects.block
  BY DEF Complete, Has
<1>3. OnDisk(path) = Related(path)
  BY <1>1, <1>2 DEF OnDisk, Related, Partitions
<1> QED
  BY <1>1, <1>2, <1>3 DEF Complete, DriveReadable

LEMMA MountPointsTyped ==
  ASSUME IsTree(objects), NEW p \in DOMAIN objects.block
  PROVE  MountPoints(p) \subseteq Points
<1>1. objects.block[p].points \subseteq Points \cup {""}
  BY TreeParts DEF BlockObjects
<1> QED
  BY <1>1 DEF MountPoints

LEMMA SnapshotTyped ==
  ASSUME IsTree(objects), NEW path, NEW q \in Nat, ~NotADisk(path), Complete(path)
  PROVE  Snapshot(path, q) \in Snapshots
<1> DEFINE disk == objects.block[path]
           drive == objects.drive[disk.drive]
<1>1. /\ path \in DOMAIN objects.block /\ Related(path) \subseteq DOMAIN objects.block
      /\ disk.drive \in DOMAIN objects.drive
  BY CompleteDisk
<1>2. path \in Paths /\ disk.drive \in Drives
  BY <1>1, TreeParts
<1>3. disk \in BlockObjects /\ drive \in DriveObjects
  BY <1>1, TreeParts
<1>4. /\ disk.hints \in SUBSET Hints /\ disk.readOnly \in BOOLEAN /\ disk.empty \in BOOLEAN
      /\ drive.usb \in BOOLEAN /\ drive.removable \in BOOLEAN /\ drive.media \in BOOLEAN
  BY <1>3 DEF BlockObjects, DriveObjects
<1>5. UNION {MountPoints(p) : p \in Related(path)} \in SUBSET Points
  BY <1>1, MountPointsTyped
<1>6. /\ (Related(path) \cap activeSwaps # {}) \in BOOLEAN
      /\ (\E p \in Related(path) : objects.block[p].signs # {}) \in BOOLEAN
  OBVIOUS
<1> QED
  BY <1>2, <1>4, <1>5, <1>6 DEF Snapshot, Snapshots

LEMMA InitTypeOK == Init => TypeOK
<1> SUFFICES ASSUME Init PROVE TypeOK
  OBVIOUS
<1>1. IsTree(tree) /\ tree.block[Target].drive \in DOMAIN tree.drive
  BY FactsAssumption DEF Init
<1>2. tree.drive[tree.block[Target].drive].sibling \in Siblings \cup {NoSibling}
  BY <1>1, TreeParts DEF DriveObjects
<1> QED
  BY <1>1, <1>2 DEF Init, TypeOK, NoPlan

\* A tree that becomes another one leaves the rest alone.
LEMMA TreeTypeOK ==
  ASSUME TypeOK, IsTree(tree'), changes' = changes + 1,
         UNCHANGED <<swaps, seq, sysfs, purpose, pc, readings, judgement>>
  PROVE  TypeOK'
BY DEF TypeOK, readings, judgement

LEMMA BecomingOnly ==
  ASSUME Mount \/ Format \/ Partition \/ Udev \/ Drive \/ Lose
  PROVE  /\ pc = "fetch" /\ changes' = changes + 1
         /\ UNCHANGED <<swaps, seq, sysfs, purpose, pc, readings, judgement>>
BY DEF Mount, Format, Partition, Udev, Drive, Lose, Becomes

LEMMA EnvironmentTypeOK ==
  ASSUME TypeOK, Mount \/ Format \/ Partition \/ Udev \/ Drive \/ Lose \/ SwapOn \/ Replug
  PROVE  TypeOK'
<1>1. CASE Mount \/ Format \/ Partition \/ Udev \/ Drive \/ Lose
  <2>1. IsTree(tree')
    BY <1>1, MountTree, FormatTree, PartitionTree, UdevTree, DriveTree, LoseTree DEF TypeOK
  <2> QED
    BY <1>1, <2>1, BecomingOnly, TreeTypeOK
<1>2. CASE SwapOn
  <2>1. swaps' \subseteq Paths
    BY <1>2 DEF SwapOn, Toggled, TypeOK
  <2> QED
    BY <1>2, <2>1 DEF SwapOn, TypeOK, readings, judgement
<1>3. CASE Replug
  BY <1>3 DEF Replug, TypeOK, readings, judgement
<1> QED
  BY <1>1, <1>2, <1>3

LEMMA ReadingTypeOK ==
  ASSUME TypeOK, Fetch \/ ReadSwaps \/ ListSnapshots \/ TakeSnapshot
  PROVE  TypeOK'
<1>1. CASE Fetch
  BY <1>1 DEF Fetch, Fails, TypeOK, system, judgement
<1>2. CASE ReadSwaps
  BY <1>2 DEF ReadSwaps, Fails, TypeOK, system, judgement
<1>3. CASE ListSnapshots
  <2>1. snapshots' \subseteq Snapshots
    BY <1>3, SnapshotTyped DEF ListSnapshots, Fails, TypeOK
  <2>2. outcome' \in {"Found", "Missing"} /\ pc' = "done" /\ UNCHANGED <<plan, refusal>>
    BY <1>3 DEF ListSnapshots, Fails
  <2> QED
    BY <1>3, <2>1, <2>2 DEF ListSnapshots, TypeOK, system, readings
<1>4. CASE TakeSnapshot
  <2>1. snapshots' \subseteq Snapshots
    BY <1>4, SnapshotTyped DEF TakeSnapshot, Fails, TypeOK
  <2>2. /\ outcome' \in {"Found", "NotFound", "Missing"} /\ pc' \in {"done", "facts"}
        /\ UNCHANGED <<plan, refusal>>
    BY <1>4 DEF TakeSnapshot, Fails
  <2> QED
    BY <1>4, <2>1, <2>2 DEF TakeSnapshot, TypeOK, system, readings
<1> QED
  BY <1>1, <1>2, <1>3, <1>4

-----------------------------------------------------------------------------
(* What has been found is found in the objects that are still the fetched   *)
(* ones.                                                                    *)

Reading == {"fetch", "swaps", "snapshot"}

FoundInv ==
  /\ pc \in Reading => snapshots = {} /\ outcome = "none"
  /\ pc = "facts" => purpose = "removal" /\ snapshots # {}
  /\ pc # "done" => plan = NoPlan
  /\ purpose # "list" => \A s, t \in snapshots : s = t
  /\ \A s \in snapshots : /\ ~NotADisk(s.path) /\ Complete(s.path)
                          /\ \E q \in Nat : s = Snapshot(s.path, q)
  /\ outcome = "Missing" /\ purpose = "select" => ~NotADisk(Target) /\ ~Complete(Target)

\* The readings are of the objects and the swaps that were read, and of nothing else.
LEMMA SameReadings ==
  ASSUME UNCHANGED <<objects, activeSwaps>>, NEW path
  PROVE  /\ NotADisk(path)' <=> NotADisk(path)
         /\ Complete(path)' <=> Complete(path)
         /\ \A q : Snapshot(path, q)' = Snapshot(path, q)
<1>1. \A p, i : Has(p, i)' <=> Has(p, i)
  BY DEF Has
<1>2. \A p, x : Readable(p, x)' <=> Readable(p, x)
  BY DEF Readable
<1>3. \A p, i, x : IfPresent(p, i, x)' <=> IfPresent(p, i, x)
  BY <1>1, <1>2 DEF IfPresent
<1>4. \A d, x : DriveReadable(d, x)' <=> DriveReadable(d, x)
  BY DEF DriveReadable
<1>5. Related(path)' = Related(path)
  BY <1>1 DEF Related, Partitions
<1>6. \A p : MountPoints(p)' = MountPoints(p)
  BY <1>1 DEF MountPoints
<1>7. NotADisk(path)' <=> NotADisk(path)
  BY <1>1, <1>2 DEF NotADisk
<1>8. Complete(path)' <=> Complete(path)
  BY <1>1, <1>2, <1>3, <1>4, <1>5 DEF Complete
<1>9. ASSUME NEW q PROVE Snapshot(path, q)' = Snapshot(path, q)
  <2>1. UNION {MountPoints(p)' : p \in Related(path)'} = UNION {MountPoints(p) : p \in Related(path)}
    BY <1>5, <1>6
  <2>2. (\E p \in Related(path)' : objects'.block[p].signs # {})
          <=> (\E p \in Related(path) : objects.block[p].signs # {})
    BY <1>5
  <2> QED
    BY <1>5, <2>1, <2>2 DEF Snapshot
<1> QED
  BY <1>7, <1>8, <1>9

LEMMA FoundKept ==
  ASSUME FoundInv, UNCHANGED <<readings, purpose, snapshots, outcome, plan, pc>>
  PROVE  FoundInv'
<1>1. UNCHANGED <<objects, activeSwaps>>
  BY DEF readings
<1>2. \A s \in snapshots' : /\ ~NotADisk(s.path)' /\ Complete(s.path)'
                            /\ \E q \in Nat : s = Snapshot(s.path, q)'
  BY <1>1, SameReadings DEF FoundInv
<1>3. outcome' = "Missing" /\ purpose' = "select" => ~NotADisk(Target)' /\ ~Complete(Target)'
  BY <1>1, SameReadings DEF FoundInv
<1> QED
  BY <1>2, <1>3 DEF FoundInv

LEMMA JudgeTypeOK ==
  ASSUME TypeOK, FoundInv, JudgeRemoval
  PROVE  TypeOK'
<1> DEFINE s == CHOOSE x \in snapshots : TRUE
<1>1. s \in snapshots
  BY DEF JudgeRemoval, FoundInv
<1>2. s.drive \in Drives
  BY <1>1 DEF TypeOK, Snapshots
<1>3. Unmounts(s) \subseteq [path : Paths, points : SUBSET Points]
  <2>1. ASSUME NEW p \in Filesystems(s)
        PROVE  p \in Paths /\ MountPoints(p) \in SUBSET Points
    BY <2>1, MountPointsTyped, TreeParts DEF Filesystems, TypeOK
  <2> QED
    BY <2>1 DEF Unmounts
<1>4. \/ plan' = plan
      \/ plan' = [drive |-> s.drive, unmount |-> Unmounts(s)]
  BY DEF JudgeRemoval, Refuse
<1>5. plan' \in [drive : Drives \cup {NoDrive}, unmount : SUBSET [path : Paths, points : SUBSET Points]]
  BY <1>2, <1>3, <1>4 DEF TypeOK
<1>6. outcome' \in {outcome, "Missing"} /\ refusal' \in {refusal, "Unsupported", "Unavailable"}
  BY DEF JudgeRemoval, Refuse
<1> QED
  BY <1>5, <1>6 DEF JudgeRemoval, TypeOK, system, readings

LEMMA AlwaysInNat == ASSUME TypeOK PROVE \A q \in {0, seq} : q \in Nat
  BY DEF TypeOK

LEMMA ListFoundInv ==
  ASSUME TypeOK, FoundInv, ListSnapshots
  PROVE  FoundInv'
<1> DEFINE disks == {p \in DOMAIN objects.block : ~NotADisk(p)}
<1>1. pc = "snapshot" /\ pc' = "done" /\ purpose = "list" /\ purpose' = "list"
      /\ UNCHANGED <<objects, activeSwaps>> /\ snapshots = {}
  BY DEF ListSnapshots, Fails, readings, FoundInv, Reading
<1>2. ASSUME NEW s \in snapshots'
      PROVE  ~NotADisk(s.path) /\ Complete(s.path) /\ \E q \in Nat : s = Snapshot(s.path, q)
  <2>1. PICK q \in {0, seq}, p \in disks :
          /\ \A d \in disks : Complete(d)
          /\ s = Snapshot(p, q)
    BY <1>1, <1>2 DEF ListSnapshots, Fails
  <2>2. s.path = p
    BY <2>1 DEF Snapshot
  <2> QED
    BY <2>1, <2>2, AlwaysInNat
<1>3. \A s \in snapshots' : /\ ~NotADisk(s.path)' /\ Complete(s.path)'
                            /\ \E q \in Nat : s = Snapshot(s.path, q)'
  BY <1>1, <1>2, SameReadings
<1> QED
  BY <1>1, <1>3 DEF FoundInv, Reading

LEMMA TakeFoundInv ==
  ASSUME TypeOK, FoundInv, TakeSnapshot
  PROVE  FoundInv'
<1>1. /\ pc = "snapshot" /\ pc' \in {"done", "facts"} /\ purpose # "list" /\ purpose' = purpose
      /\ UNCHANGED <<objects, activeSwaps>> /\ snapshots = {} /\ plan' = plan /\ plan = NoPlan
      /\ outcome = "none"
  BY DEF TakeSnapshot, Fails, readings, FoundInv, Reading
<1>2. CASE NotADisk(Target)
  BY <1>1, <1>2 DEF TakeSnapshot, FoundInv, Reading
<1>3. CASE ~NotADisk(Target) /\ ~Complete(Target)
  <2>1. pc' = "done" /\ snapshots' = {} /\ outcome' = "Missing"
    BY <1>1, <1>3 DEF TakeSnapshot, Fails
  <2>2. ~NotADisk(Target)' /\ ~Complete(Target)'
    BY <1>1, <1>3, SameReadings
  <2> QED
    BY <1>1, <2>1, <2>2 DEF FoundInv, Reading
<1>4. CASE ~NotADisk(Target) /\ Complete(Target)
  <2>1. PICK q \in {0, seq} : snapshots' = {Snapshot(Target, q)}
    BY <1>1, <1>4 DEF TakeSnapshot
  <2>2. outcome' = "Found" /\ (pc' = "facts" => purpose = "removal")
    BY <1>1, <1>4 DEF TakeSnapshot
  <2>3. Snapshot(Target, q).path = Target
    BY DEF Snapshot
  <2>4. /\ ~NotADisk(Target)' /\ Complete(Target)'
        /\ Snapshot(Target, q) = Snapshot(Target, q)'
    BY <1>1, <1>4, SameReadings
  <2>5. q \in Nat
    BY AlwaysInNat
  <2>6. \A s \in snapshots' : /\ ~NotADisk(s.path)' /\ Complete(s.path)'
                              /\ \E n \in Nat : s = Snapshot(s.path, n)'
    BY <2>1, <2>3, <2>4, <2>5
  <2> QED
    BY <1>1, <2>1, <2>2, <2>6 DEF FoundInv, Reading
<1> QED
  BY <1>2, <1>3, <1>4

LEMMA NextFound ==
  ASSUME TypeOK, FoundInv, [Next]_vars
  PROVE  TypeOK' /\ FoundInv'
<1>1. CASE UNCHANGED vars
  <2>1. TypeOK'
    BY <1>1 DEF TypeOK, vars, system, readings, judgement
  <2> QED
    BY <1>1, <2>1, FoundKept DEF vars, judgement
<1>2. CASE Fetch \/ ReadSwaps
  <2>1. /\ pc \in Reading /\ UNCHANGED <<purpose, snapshots, plan>>
        /\ \/ pc' \in Reading /\ outcome' = outcome
           \/ pc' = "done" /\ outcome' \in {"DBus", "Swaps"}
    BY <1>2 DEF Fetch, ReadSwaps, Fails, judgement, Reading
  <2> QED
    BY <1>2, <2>1, ReadingTypeOK DEF FoundInv, Reading
<1>3. CASE ListSnapshots
  BY <1>3, ListFoundInv, ReadingTypeOK
<1>4. CASE TakeSnapshot
  BY <1>4, TakeFoundInv, ReadingTypeOK
<1>5. CASE JudgeRemoval
  <2>1. /\ pc = "facts" /\ pc' = "done" /\ purpose' = purpose /\ purpose = "removal"
        /\ snapshots' = snapshots /\ UNCHANGED <<objects, activeSwaps>>
    BY <1>5 DEF JudgeRemoval, FoundInv, readings
  <2>2. \A s \in snapshots' : /\ ~NotADisk(s.path)' /\ Complete(s.path)'
                              /\ \E q \in Nat : s = Snapshot(s.path, q)'
    BY <2>1, SameReadings DEF FoundInv
  <2> QED
    BY <1>5, <2>1, <2>2, JudgeTypeOK DEF FoundInv, Reading
<1>6. CASE Mount \/ Format \/ Partition \/ Udev \/ Drive \/ Lose
  BY <1>6, BecomingOnly, EnvironmentTypeOK, FoundKept DEF judgement
<1>7. CASE SwapOn \/ Replug
  BY <1>7, EnvironmentTypeOK, FoundKept DEF SwapOn, Replug, judgement
<1> QED
  BY <1>1, <1>2, <1>3, <1>4, <1>5, <1>6, <1>7 DEF Next

LEMMA AlwaysFound == Spec => [](TypeOK /\ FoundInv)
<1>1. Init => TypeOK /\ FoundInv
  BY InitTypeOK DEF Init, FoundInv, Reading
<1>2. TypeOK /\ FoundInv /\ [Next]_vars => TypeOK' /\ FoundInv'
  BY NextFound
<1> QED
  BY <1>1, <1>2, PTL DEF Spec

\* Type correctness of the trees, of what is read of them and of what is made of it.
THEOREM FactsAreTyped == Spec => []TypeOK
<1>1. TypeOK /\ FoundInv => TypeOK
  OBVIOUS
<1> QED
  BY <1>1, AlwaysFound, PTL

-----------------------------------------------------------------------------
(* The assessment: the first rule that applies decides.                     *)

LEMMA Least ==
  ASSUME NEW S, S \subseteq 1..11, 11 \in S
  PROVE  \E i \in S : \A j \in 1..(i - 1) : j \notin S
<1>1. CASE \E k \in 1..5 : k \in S
  <2>1. CASE 1 \in S
    BY <2>1
  <2>2. CASE 1 \notin S /\ 2 \in S
    BY <2>2
  <2>3. CASE 1 \notin S /\ 2 \notin S /\ 3 \in S
    BY <2>3
  <2>4. CASE 1 \notin S /\ 2 \notin S /\ 3 \notin S /\ 4 \in S
    BY <2>4
  <2>5. CASE 1 \notin S /\ 2 \notin S /\ 3 \notin S /\ 4 \notin S /\ 5 \in S
    BY <2>5
  <2> QED
    BY <1>1, <2>1, <2>2, <2>3, <2>4, <2>5
<1>2. CASE \A k \in 1..5 : k \notin S
  <2>1. CASE 6 \in S
    BY <1>2, <2>1
  <2>2. CASE 6 \notin S /\ 7 \in S
    BY <1>2, <2>2
  <2>3. CASE 6 \notin S /\ 7 \notin S /\ 8 \in S
    BY <1>2, <2>3
  <2>4. CASE 6 \notin S /\ 7 \notin S /\ 8 \notin S /\ 9 \in S
    BY <1>2, <2>4
  <2>5. CASE 6 \notin S /\ 7 \notin S /\ 8 \notin S /\ 9 \notin S /\ 10 \in S
    BY <1>2, <2>5
  <2>6. CASE 6 \notin S /\ 7 \notin S /\ 8 \notin S /\ 9 \notin S /\ 10 \notin S
    BY <1>2, <2>6
  <2> QED
    BY <2>1, <2>2, <2>3, <2>4, <2>5, <2>6
<1> QED
  BY <1>1, <1>2

Applying(s) == {i \in 1..11 : Rules(s)[i].applies}

\* The first rule that applies, and what is made of it.
LEMMA FirstRule ==
  ASSUME NEW s
  PROVE  \E f \in Applying(s) :
           /\ \A j \in 1..(f - 1) : j \notin Applying(s)
           /\ Assess(s).level = Rules(s)[f].level
           /\ Assess(s).writable = (Rules(s)[f].level = "Normal")
           /\ Assess(s).reasons =
                {Rules(s)[i].reason :
                   i \in {f} \cup (IF f = 1 THEN {k \in 2..4 : Rules(s)[k].applies} ELSE {})}
<1> DEFINE First(i) == Rules(s)[i].applies /\ \A j \in 1..(i - 1) : ~Rules(s)[j].applies
           f == CHOOSE i \in DOMAIN Rules(s) : First(i)
<1>1. DOMAIN Rules(s) = 1..11
  BY DEF Rules
<1>2. 11 \in Applying(s) /\ Applying(s) \subseteq 1..11
  BY DEF Applying, Rules, Rule
<1>3. \E i \in DOMAIN Rules(s) : First(i)
  <2>1. PICK i \in Applying(s) : \A j \in 1..(i - 1) : j \notin Applying(s)
    BY <1>2, Least
  <2> QED
    BY <1>1, <2>1 DEF Applying
<1>4. f \in DOMAIN Rules(s) /\ First(f)
  BY <1>3
<1>5. f \in Applying(s) /\ \A j \in 1..(f - 1) : j \notin Applying(s)
  BY <1>1, <1>4 DEF Applying
<1>6. /\ Assess(s).level = Rules(s)[f].level
      /\ Assess(s).writable = (Rules(s)[f].level = "Normal")
      /\ Assess(s).reasons =
           {Rules(s)[i].reason :
              i \in {f} \cup (IF f = 1 THEN {k \in 2..4 : Rules(s)[k].applies} ELSE {})}
  BY DEF Assess
<1> QED
  BY <1>5, <1>6

\* A device is Normal exactly when the tenth rule is the first to apply; then nothing
\* else is said of it.
LEMMA NormalRule ==
  ASSUME NEW s
  PROVE  /\ Assess(s).level = "Normal" <=>
              10 \in Applying(s) /\ \A j \in 1..9 : j \notin Applying(s)
         /\ Assess(s).writable <=> Assess(s).level = "Normal"
         /\ Assess(s).level = "Normal" => Assess(s).reasons = {"UsbRemovable"}
<1>1. PICK f \in Applying(s) :
           /\ \A j \in 1..(f - 1) : j \notin Applying(s)
           /\ Assess(s).level = Rules(s)[f].level
           /\ Assess(s).writable = (Rules(s)[f].level = "Normal")
           /\ Assess(s).reasons =
                {Rules(s)[i].reason :
                   i \in {f} \cup (IF f = 1 THEN {k \in 2..4 : Rules(s)[k].applies} ELSE {})}
  BY FirstRule
<1>2. f \in 1..11 /\ Applying(s) \subseteq 1..11
  BY DEF Applying
<1>3. Rules(s)[f].level = "Normal" <=> f = 10
  BY <1>2 DEF Rules, Rule
<1>4. f = 10 <=> (10 \in Applying(s) /\ \A j \in 1..9 : j \notin Applying(s))
  BY <1>1, <1>2
<1>5. f = 10 => Assess(s).reasons = {"UsbRemovable"}
  <2>1. f = 10 => Assess(s).reasons = {Rules(s)[i].reason : i \in {10}}
    BY <1>1
  <2>2. Rules(s)[10].reason = "UsbRemovable"
    BY DEF Rules, Rule
  <2> QED
    BY <2>1, <2>2
<1> QED
  BY <1>1, <1>3, <1>4, <1>5

\* What is not protected has no critical mount, no swap and no other layer.
LEMMA UnprotectedRule ==
  ASSUME NEW s, ~Protected(s)
  PROVE  1 \notin Applying(s) /\ 2 \notin Applying(s) /\ 3 \notin Applying(s)
<1>1. PICK f \in Applying(s) :
           /\ \A j \in 1..(f - 1) : j \notin Applying(s)
           /\ Assess(s).reasons =
                {Rules(s)[i].reason :
                   i \in {f} \cup (IF f = 1 THEN {k \in 2..4 : Rules(s)[k].applies} ELSE {})}
  BY FirstRule
<1>2. f \in 1..11 /\ Applying(s) \subseteq 1..11
  BY DEF Applying
<1>3. Rules(s)[f].reason \in Assess(s).reasons
  BY <1>1
<1>4. f \notin {1, 2, 3}
  <2>1. /\ Rules(s)[1].reason = "CriticalMount" /\ Rules(s)[2].reason = "ActiveSwap"
        /\ Rules(s)[3].reason = "ComplexStorage"
    BY DEF Rules, Rule
  <2> QED
    BY <1>3, <2>1 DEF Protected
<1> QED
  BY <1>1, <1>2, <1>4

\* The rules, one by one.
LEMMA RulesApply ==
  ASSUME NEW s
  PROVE  /\ 1 \in Applying(s) <=> s.mounts \cap Critical # {}
         /\ 2 \in Applying(s) <=> s.swap
         /\ 3 \in Applying(s) <=> s.complex
         /\ 4 \in Applying(s) <=> "HintSystem" \in s.hints
         /\ 5 \in Applying(s) <=> s.readOnly
         /\ 6 \in Applying(s) <=> "HintIgnore" \in s.hints
         /\ 7 \in Applying(s) <=> (~s.media \/ s.empty)
         /\ 8 \in Applying(s) <=> "HintPartitionable" \notin s.hints
         /\ 9 \in Applying(s) <=> s.mounts # {}
         /\ 10 \in Applying(s) <=> (s.usb /\ s.removable)
<1>1. \A i \in 1..11 : i \in Applying(s) <=> Rules(s)[i].applies
  BY DEF Applying
<1>2. Rules(s)[1].applies <=> (s.mounts \cap Critical # {})
  BY DEF Rules, Rule
<1>3. Rules(s)[2].applies <=> (s.swap)
  BY DEF Rules, Rule
<1>4. Rules(s)[3].applies <=> (s.complex)
  BY DEF Rules, Rule
<1>5. Rules(s)[4].applies <=> ("HintSystem" \in s.hints)
  BY DEF Rules, Rule
<1>6. Rules(s)[5].applies <=> (s.readOnly)
  BY DEF Rules, Rule
<1>7. Rules(s)[6].applies <=> ("HintIgnore" \in s.hints)
  BY DEF Rules, Rule
<1>8. Rules(s)[7].applies <=> (~s.media \/ s.empty)
  BY DEF Rules, Rule
<1>9. Rules(s)[8].applies <=> ("HintPartitionable" \notin s.hints)
  BY DEF Rules, Rule
<1>10. Rules(s)[9].applies <=> (s.mounts # {})
  BY DEF Rules, Rule
<1>11. Rules(s)[10].applies <=> (s.usb /\ s.removable)
  BY DEF Rules, Rule
<1> QED
  BY <1>1, <1>2, <1>3, <1>4, <1>5, <1>6, <1>7, <1>8, <1>9, <1>10, <1>11

-----------------------------------------------------------------------------
(* A complete snapshot sums up the objects of its disk.                     *)

LEMMA WhatASnapshotSays ==
  ASSUME TypeOK, NEW path, ~NotADisk(path), Complete(path), NEW q
  PROVE  /\ OnDisk(path) = Related(path)
         /\ Snapshot(path, q).path = path
         /\ Snapshot(path, q).drive = objects.block[path].drive
         /\ Snapshot(path, q).hints = objects.block[path].hints
         /\ Snapshot(path, q).readOnly = objects.block[path].readOnly
         /\ Snapshot(path, q).empty = objects.block[path].empty
         /\ Snapshot(path, q).usb = objects.drive[objects.block[path].drive].usb
         /\ Snapshot(path, q).removable = objects.drive[objects.block[path].drive].removable
         /\ Snapshot(path, q).media = objects.drive[objects.block[path].drive].media
         /\ Snapshot(path, q).mounts = UNION {MountPoints(p) : p \in Related(path)}
         /\ Snapshot(path, q).swap <=> \E p \in Related(path) : p \in activeSwaps
         /\ Snapshot(path, q).complex <=> \E p \in Related(path) : objects.block[p].signs # {}
         /\ Snapshot(path, q).seq = q
<1>1. Related(path) \subseteq DOMAIN objects.block
  BY DEF Complete, Has
<1>2. OnDisk(path) = Related(path)
  BY <1>1 DEF OnDisk, Related, Partitions
<1>3. (Related(path) \cap activeSwaps # {}) <=> \E p \in Related(path) : p \in activeSwaps
  OBVIOUS
<1> QED
  BY <1>2, <1>3 DEF Snapshot

LEMMA SelectableMeans ==
  ASSUME NEW s
  PROVE  Selectable(s) <=>
           /\ ~s.swap /\ ~s.complex /\ "HintSystem" \notin s.hints /\ ~s.readOnly
           /\ "HintIgnore" \notin s.hints /\ s.media /\ ~s.empty
           /\ "HintPartitionable" \in s.hints /\ s.mounts = {} /\ s.usb /\ s.removable
<1>1. Selectable(s) <=> (Assess(s).level = "Normal" /\ s.media /\ ~s.empty)
  BY NormalRule DEF Selectable
<1>2. (\A j \in 1..9 : j \notin Applying(s)) <=>
        /\ 1 \notin Applying(s) /\ 2 \notin Applying(s) /\ 3 \notin Applying(s)
        /\ 4 \notin Applying(s) /\ 5 \notin Applying(s) /\ 6 \notin Applying(s)
        /\ 7 \notin Applying(s) /\ 8 \notin Applying(s) /\ 9 \notin Applying(s)
  OBVIOUS
<1>3. s.mounts = {} => s.mounts \cap Critical = {}
  OBVIOUS
<1> QED
  BY <1>1, <1>2, <1>3, NormalRule, RulesApply

LEMMA SnapshotJudged ==
  ASSUME TypeOK, NEW s \in Snapshots, ~NotADisk(s.path), Complete(s.path),
         \E q \in Nat : s = Snapshot(s.path, q)
  PROVE  /\ Selectable(s) <=> Unused(s.path)
         /\ Selectable(s) => HardHazards(s) = {} /\ ~Protected(s)
         /\ \A p \in OnDisk(s.path) : Readable(p, StorageProperties)
         /\ Partitions(s.path) \subseteq DOMAIN objects.block
<1> DEFINE d == s.path
<1>1. PICK q \in Nat : s = Snapshot(d, q)
  OBVIOUS
<1>2. /\ OnDisk(d) = Related(d)
      /\ s.hints = objects.block[d].hints /\ s.readOnly = objects.block[d].readOnly
      /\ s.empty = objects.block[d].empty
      /\ s.usb = objects.drive[objects.block[d].drive].usb
      /\ s.removable = objects.drive[objects.block[d].drive].removable
      /\ s.media = objects.drive[objects.block[d].drive].media
      /\ s.mounts = UNION {MountPoints(p) : p \in Related(d)}
      /\ s.swap <=> \E p \in Related(d) : p \in activeSwaps
      /\ s.complex <=> \E p \in Related(d) : objects.block[p].signs # {}
  BY <1>1, WhatASnapshotSays
<1>3. s.mounts = {} <=> \A p \in OnDisk(d) : Has(p, "Filesystem") => objects.block[p].points \subseteq {""}
  <2>1. s.mounts = {} <=> \A p \in Related(d) : MountPoints(p) = {}
    BY <1>2
  <2>2. \A p : MountPoints(p) = {} <=> (Has(p, "Filesystem") => objects.block[p].points \subseteq {""})
    BY DEF MountPoints
  <2> QED
    BY <1>2, <2>1, <2>2
<1>4. /\ ~s.swap <=> \A p \in OnDisk(d) : p \notin activeSwaps
      /\ ~s.complex <=> \A p \in OnDisk(d) : objects.block[p].signs = {}
  BY <1>2
<1>5. s.hints \subseteq {"HintSystem", "HintIgnore", "HintPartitionable"}
  BY DEF Snapshots, Hints
<1>6. s.hints = {"HintPartitionable"} <=>
        /\ "HintSystem" \notin s.hints /\ "HintIgnore" \notin s.hints
        /\ "HintPartitionable" \in s.hints
  BY <1>5
<1>7. Unused(d) <=>
        /\ ~s.swap /\ ~s.complex /\ s.mounts = {} /\ s.hints = {"HintPartitionable"}
        /\ ~s.readOnly /\ ~s.empty /\ s.usb /\ s.removable /\ s.media
  BY <1>2, <1>3, <1>4 DEF Unused
<1>8. Selectable(s) <=> Unused(d)
  BY <1>6, <1>7, SelectableMeans
<1>9. Selectable(s) => HardHazards(s) = {} /\ ~Protected(s)
  <2> SUFFICES ASSUME Selectable(s) PROVE HardHazards(s) = {} /\ ~Protected(s)
    OBVIOUS
  <2>1. HardHazards(s) = {}
    BY SelectableMeans DEF HardHazards
  <2>2. Assess(s).reasons = {"UsbRemovable"}
    BY NormalRule DEF Selectable
  <2>3. ~Protected(s)
    BY <2>2 DEF Protected
  <2> QED
    BY <2>1, <2>3
<1>10. \A p \in OnDisk(d) : Readable(p, StorageProperties)
  BY <1>2 DEF Complete
<1>11. Partitions(d) \subseteq DOMAIN objects.block
  BY DEF Complete, Has, Related
<1> QED
  BY <1>8, <1>9, <1>10, <1>11

LEMMA MissingIsItsOwn ==
  ASSUME TypeOK, ~NotADisk(Target), ~Complete(Target)
  PROVE  LET disk == objects.block[Target]
         IN  \/ disk.lost # {}
             \/ disk.drive \notin DOMAIN objects.drive \/ objects.drive[disk.drive].lost # {}
             \/ \E p \in disk.partitions : p \in DOMAIN objects.block => objects.block[p].lost # {}
<1> DEFINE disk == objects.block[Target]
<1> SUFFICES ASSUME disk.lost = {}, disk.drive \in DOMAIN objects.drive,
                    objects.drive[disk.drive].lost = {},
                    \A p \in disk.partitions : p \in DOMAIN objects.block /\ objects.block[p].lost = {}
             PROVE  FALSE
  OBVIOUS
<1>1. \A x : Readable(Target, x)
  BY DEF Readable
<1>2. \A x : DriveReadable(disk.drive, x)
  BY DEF DriveReadable
<1>3. Has(Target, "Block") /\ ~Has(Target, "Partition")
  BY <1>1 DEF NotADisk
<1>4. \A p \in Partitions(Target) : Has(p, "Block") /\ \A x : Readable(p, x)
  BY DEF Partitions, Has, Readable, TypeOK, IsTree
<1>5. \A p \in Related(Target) : Has(p, "Block") /\ \A x : Readable(p, x)
  BY <1>1, <1>3, <1>4 DEF Related
<1>6. Complete(Target)
  BY <1>1, <1>2, <1>3, <1>5 DEF Complete, IfPresent
<1> QED
  BY <1>6

\* A disk may be selected exactly when nothing on it is in use.
THEOREM OnlyTheUnusedIsSelectable == Spec => []SelectableIsUnused
<1>1. TypeOK /\ FoundInv => SelectableIsUnused
  <2> SUFFICES ASSUME TypeOK, FoundInv PROVE SelectableIsUnused
    OBVIOUS
  <2>1. ASSUME NEW s \in snapshots
        PROVE  /\ Selectable(s) <=> Unused(s.path)
               /\ Selectable(s) => HardHazards(s) = {} /\ ~Protected(s)
               /\ \A p \in OnDisk(s.path) : Readable(p, StorageProperties)
               /\ Partitions(s.path) \subseteq DOMAIN objects.block
    <3>1. /\ s \in Snapshots /\ ~NotADisk(s.path) /\ Complete(s.path)
          /\ \E q \in Nat : s = Snapshot(s.path, q)
      BY DEF FoundInv, TypeOK
    <3> QED
      BY <3>1, SnapshotJudged
  <2>2. ASSUME outcome = "Missing", purpose = "select"
        PROVE  ~NotADisk(Target) /\ ~Complete(Target)
    BY <2>2 DEF FoundInv
  <2> QED
    BY <2>1, <2>2, MissingIsItsOwn DEF SelectableIsUnused
<1> QED
  BY <1>1, AlwaysFound, PTL

-----------------------------------------------------------------------------
(* What Safe Removal plans.  Nothing changes once it is planned: pc is      *)
(* "done", and neither the program nor the environment takes a step.        *)

MountsOf(p) == IF Has(p, "Filesystem") THEN objects.block[p].points \ {""} ELSE {}

OnDrive(s) == {p \in DOMAIN objects.block : objects.block[p].drive = s.drive}

PlanIsWhole(s, p) ==
  /\ p.drive = s.drive
  /\ UNION {u.points : u \in p.unmount} = UNION {MountsOf(x) : x \in OnDisk(s.path) \cup OnDrive(s)}
  /\ \A u \in p.unmount : u.path \in OnDisk(s.path) /\ u.points = MountsOf(u.path)
  /\ \A x \in OnDisk(s.path) : x \notin activeSwaps /\ objects.block[x].signs = {}
                               /\ MountsOf(x) \cap Critical = {}
  /\ \A d \in DOMAIN objects.drive \ {s.drive} :
       objects.drive[d].sibling # objects.drive[s.drive].sibling
  /\ s.seq # 0

LEMMA PlannedIsWhole ==
  ASSUME TypeOK, NEW s \in Snapshots, ~NotADisk(s.path), Complete(s.path),
         \E q \in Nat : s = Snapshot(s.path, q),
         ~Protected(s), ~Untouchable(s), LayoutAddsUp(s)
  PROVE  PlanIsWhole(s, [drive |-> s.drive, unmount |-> Unmounts(s)])
<1> DEFINE plan1 == [drive |-> s.drive, unmount |-> Unmounts(s)]
<1>1. PICK q \in Nat : s = Snapshot(s.path, q)
  OBVIOUS
<1>2. /\ OnDisk(s.path) = Related(s.path)
      /\ s.mounts = UNION {MountPoints(p) : p \in Related(s.path)}
      /\ s.swap <=> \E p \in Related(s.path) : p \in activeSwaps
      /\ s.complex <=> \E p \in Related(s.path) : objects.block[p].signs # {}
  BY <1>1, WhatASnapshotSays
<1>3. \A p : MountsOf(p) = MountPoints(p)
  BY DEF MountsOf, MountPoints
<1>4. \A p \in OnDrive(s) : p \in Filesystems(s) \/ MountPoints(p) = {}
  BY DEF OnDrive, Filesystems, MountPoints, Has, TypeOK, IsTree
<1>5. UNION {MountPoints(p) : p \in Filesystems(s)} = s.mounts
      /\ Filesystems(s) \subseteq Related(s.path)
  BY DEF LayoutAddsUp
<1>6. UNION {u.points : u \in Unmounts(s)} = UNION {MountPoints(p) : p \in Filesystems(s)}
  <2>1. ASSUME NEW m, NEW u \in Unmounts(s), m \in u.points
        PROVE  \E p \in Filesystems(s) : m \in MountPoints(p)
    BY <2>1 DEF Unmounts
  <2>2. ASSUME NEW m, NEW p \in Filesystems(s), m \in MountPoints(p)
        PROVE  \E u \in Unmounts(s) : m \in u.points
    <3>1. MountPoints(p) # {}
      BY <2>2
    <3>2. [path |-> p, points |-> MountPoints(p)] \in Unmounts(s)
      BY <3>1 DEF Unmounts
    <3>3. [path |-> p, points |-> MountPoints(p)].points = MountPoints(p)
      OBVIOUS
    <3> QED
      BY <2>2, <3>2, <3>3
  <2>3. \A m : m \in UNION {u.points : u \in Unmounts(s)}
                 <=> m \in UNION {MountPoints(p) : p \in Filesystems(s)}
    BY <2>1, <2>2
  <2> QED
    BY <2>3
<1>7. UNION {MountsOf(p) : p \in OnDisk(s.path) \cup OnDrive(s)} = s.mounts
  <2>1. \A m : (\E p \in OnDisk(s.path) \cup OnDrive(s) : m \in MountsOf(p)) <=> m \in s.mounts
    <3>1. ASSUME NEW m, NEW p \in OnDisk(s.path) \cup OnDrive(s), m \in MountsOf(p)
          PROVE  m \in s.mounts
      <4>1. CASE p \in Related(s.path)
        BY <1>2, <1>3, <3>1, <4>1
      <4>2. CASE p \in OnDrive(s)
        BY <1>2, <1>3, <1>4, <1>5, <3>1, <4>2
      <4> QED
        BY <1>2, <4>1, <4>2
    <3>2. ASSUME NEW m, m \in s.mounts
          PROVE  \E p \in OnDisk(s.path) \cup OnDrive(s) : m \in MountsOf(p)
      BY <1>2, <1>3, <3>2
    <3> QED
      BY <3>1, <3>2
  <2> QED
    BY <2>1
<1>8. \A u \in Unmounts(s) : u.path \in OnDisk(s.path) /\ u.points = MountsOf(u.path)
  BY <1>2, <1>3, <1>5 DEF Unmounts
<1>9. \A p \in OnDisk(s.path) : /\ p \notin activeSwaps /\ objects.block[p].signs = {}
                                /\ MountsOf(p) \cap Critical = {}
  <2>1. s.mounts \cap Critical = {} /\ ~s.swap /\ ~s.complex
    BY UnprotectedRule, RulesApply
  <2>2. \A p \in Related(s.path) : MountPoints(p) \subseteq s.mounts
    BY <1>2
  <2> QED
    BY <1>2, <1>3, <2>1, <2>2
<1>10. \A d \in DOMAIN objects.drive \ {s.drive} :
         objects.drive[d].sibling # objects.drive[s.drive].sibling
  <2>1. /\ objects.drive[s.drive].sibling \in Siblings
        /\ Sharing(s, objects.drive[s.drive].sibling) = {}
    BY DEF Untouchable, Bound
  <2> QED
    BY <2>1, FactsAssumption DEF Sharing
<1>11. s.seq # 0
  BY DEF Untouchable, Bound
<1>12. plan1.drive = s.drive /\ plan1.unmount = Unmounts(s)
  OBVIOUS
<1> HIDE DEF plan1
<1> QED
  BY <1>5, <1>6, <1>7, <1>8, <1>9, <1>10, <1>11, <1>12 DEF PlanIsWhole, plan1

LEMMA WholeKept ==
  ASSUME UNCHANGED <<objects, activeSwaps>>, NEW CONSTANT s, NEW CONSTANT p, PlanIsWhole(s, p)
  PROVE  PlanIsWhole(s, p)'
<1>1. \A x, i : Has(x, i)' <=> Has(x, i)
  BY DEF Has
<1>2. \A x : MountsOf(x)' = MountsOf(x)
  BY <1>1 DEF MountsOf
<1>3. OnDrive(s)' = OnDrive(s)
  BY DEF OnDrive
<1>4. OnDisk(s.path)' = OnDisk(s.path)
  BY <1>1 DEF OnDisk
<1>5. UNION {MountsOf(x)' : x \in OnDisk(s.path)' \cup OnDrive(s)'}
        = UNION {MountsOf(x) : x \in OnDisk(s.path) \cup OnDrive(s)}
  BY <1>2, <1>3, <1>4
<1> QED
  BY <1>2, <1>4, <1>5 DEF PlanIsWhole

PlanInv == plan # NoPlan => \A s \in snapshots : PlanIsWhole(s, plan)

\* The readings are those of the plan's step, and so the plan stays whole.
LEMMA PlanKept ==
  ASSUME UNCHANGED <<objects, activeSwaps, snapshots>>,
         plan' # NoPlan => \A s \in snapshots : PlanIsWhole(s, plan')
  PROVE  PlanInv'
<1>1. ASSUME NEW CONSTANT p, NEW CONSTANT s, PlanIsWhole(s, p)
      PROVE  PlanIsWhole(s, p)'
  BY <1>1, WholeKept
<1>2. \A p, s : PlanIsWhole(s, p) => PlanIsWhole(s, p)'
  BY <1>1
<1> QED
  BY <1>2 DEF PlanInv, NoPlan

LEMMA JudgePlanInv ==
  ASSUME TypeOK, FoundInv, JudgeRemoval
  PROVE  PlanInv'
<1>1. /\ UNCHANGED <<objects, activeSwaps, snapshots>>
      /\ plan = NoPlan /\ purpose = "removal"
  BY DEF JudgeRemoval, readings, FoundInv
<1>2. ASSUME plan' # NoPlan, NEW s \in snapshots
      PROVE  PlanIsWhole(s, plan')
  <2>1. s = CHOOSE x \in snapshots : TRUE
    BY <1>1 DEF FoundInv
  <2>2. /\ ~Protected(s) /\ ~Untouchable(s) /\ LayoutAddsUp(s)
        /\ plan' = [drive |-> s.drive, unmount |-> Unmounts(s)]
    BY <1>1, <1>2, <2>1 DEF JudgeRemoval, Refuse
  <2>3. /\ s \in Snapshots /\ ~NotADisk(s.path) /\ Complete(s.path)
        /\ \E q \in Nat : s = Snapshot(s.path, q)
    BY <1>1 DEF FoundInv, TypeOK
  <2> QED
    BY <2>2, <2>3, PlannedIsWhole
<1> QED
  BY <1>1, <1>2, PlanKept

LEMMA NextPlanInv ==
  ASSUME TypeOK, FoundInv, PlanInv, [Next]_vars
  PROVE  PlanInv'
<1>1. CASE UNCHANGED vars
  <2>1. UNCHANGED <<objects, activeSwaps, snapshots, plan>>
    BY <1>1 DEF vars, readings, judgement
  <2> QED
    BY <2>1, PlanKept DEF PlanInv
<1>2. CASE Fetch \/ ReadSwaps \/ ListSnapshots \/ TakeSnapshot
  BY <1>2 DEF Fetch, ReadSwaps, ListSnapshots, TakeSnapshot, Fails, judgement, FoundInv, PlanInv,
              NoPlan
<1>3. CASE JudgeRemoval
  BY <1>3, JudgePlanInv
<1>4. CASE Mount \/ Format \/ Partition \/ Udev \/ Drive \/ Lose
  BY <1>4, BecomingOnly DEF judgement, FoundInv, PlanInv, NoPlan
<1>5. CASE SwapOn \/ Replug
  BY <1>5 DEF SwapOn, Replug, judgement, FoundInv, PlanInv, NoPlan
<1> QED
  BY <1>1, <1>2, <1>3, <1>4, <1>5 DEF Next

\* Safe Removal's plan has every mount of the drive that it powers off.
THEOREM TheRemovalIsWhole == Spec => []RemovalMissesNothing
<1>1. Init => PlanInv
  BY DEF Init, PlanInv
<1>2. TypeOK /\ FoundInv /\ PlanInv /\ [Next]_vars => PlanInv'
  BY NextPlanInv
<1>3. PlanInv => RemovalMissesNothing
  BY DEF PlanInv, PlanIsWhole, MountsOf, OnDrive, RemovalMissesNothing
<1> QED
  BY <1>1, <1>2, <1>3, AlwaysFound, PTL DEF Spec
=============================================================================
