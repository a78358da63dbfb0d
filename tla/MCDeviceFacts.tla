-------------------------- MODULE MCDeviceFacts --------------------------
(* DeviceFacts for TLC: a stick with a filesystem of its own, one with a    *)
(* partition and one whose partition is mounted, beside an internal disk     *)
(* and a loop device.                                                        *)
EXTENDS DeviceFacts

CONSTANTS sda, sda1, sdb1, loop0, stick, internal, port, port2

Block(interfaces, drive, partitions, points) ==
  [interfaces |-> {"Block"} \cup interfaces, lost |-> {}, drive |-> drive, partitions |-> partitions,
   points |-> points, signs |-> {}, hints |-> {"HintPartitionable"}, readOnly |-> FALSE, empty |-> FALSE]

DriveOf(usb, sibling) ==
  [lost |-> {}, usb |-> usb, removable |-> usb, media |-> TRUE, canPowerOff |-> usb, sibling |-> sibling]

MCDrives == [d \in {stick, internal} |-> IF d = stick THEN DriveOf(TRUE, port) ELSE DriveOf(FALSE, NoSibling)]

Tree(table, partition) ==
  [block |-> [p \in {sda, sda1, sdb1, loop0} |->
                CASE p = sda -> table [] p = sda1 -> partition
                  [] p = sdb1 -> Block({"Filesystem"}, internal, {}, {"/"})
                  [] p = loop0 -> Block({}, NoDrive, {}, {})],
   drive |-> MCDrives]

Partitioned(points) ==
  Tree(Block({"PartitionTable"}, stick, {sda1}, {}), Block({"Partition", "Filesystem"}, stick, {}, points))

MCFirstTrees ==
  {Partitioned({}), Partitioned({"/media", ""}),
   Tree(Block({"Filesystem"}, stick, {}, {"/media"}), Block({}, NoDrive, {}, {}))}
=============================================================================
