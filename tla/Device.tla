------------------------------- MODULE Device -------------------------------
(***************************************************************************)
(* The block device behind one UDisks2 block path, as the program can      *)
(* observe it, and the judgements the program makes on what it observed.   *)
(*                                                                         *)
(* The kernel and UDisks2 are outside src/; they are modelled from how     *)
(* src/ uses them.  `hist` is the kernel's history of the path: who is     *)
(* plugged in, under which disk sequence number, and what holds it.  UDisks2*)
(* learns of each change later: `tree` is the last change its object tree  *)
(* shows.  A DeviceSnapshot is therefore read in two moments, the object   *)
(* tree first and sysfs's diskseq after it (linux_backend.rs), and the two *)
(* halves need not describe the same instant.                              *)
(***************************************************************************)
EXTENDS Naturals, Sequences

CONSTANTS Drives,     \* physical drives that may be plugged in
          Serial,     \* Serial[d]: the serial number drive d reports
          NoSerial,   \* ... or NoSerial when it reports none
          Size,       \* Size[d]: capacity of d, in chunks
          MaxEvents   \* bound on the length of the kernel's history

ASSUME DeviceAssumption ==
  /\ Drives # {}
  /\ Size \in [Drives -> Nat]
  /\ MaxEvents \in Nat \ {0}

VARIABLES hist,   \* the kernel's history of the block path, oldest first
          tree    \* how much of it UDisks2's object tree shows

deviceVars == <<hist, tree>>

\* free: an unmounted removable USB disk, what the Safety Engine calls Normal.
\* mounted: one of its filesystems is mounted.  claimed: active swap, LVM,
\* RAID or encryption, the hard hazards that also hold the kernel's claim.
Uses == {"free", "mounted", "claimed"}

Node == [present : BOOLEAN, drive : Drives, seq : Nat \ {0}, use : Uses]

\* diskseq is an Option<u64>: 0 stands for None.
Unknown == 0
Snapshot == [drive : Drives, use : Uses, seq : Nat]

Now == hist[Len(hist)]

DeviceInit ==
  /\ \E d \in Drives, u \in Uses :
       hist = << [present |-> TRUE, drive |-> d, seq |-> 1, use |-> u] >>
  /\ tree = 1

-----------------------------------------------------------------------------
(* What the kernel and UDisks2 do.                                         *)

Becomes(node) ==
  /\ Len(hist) < MaxEvents
  /\ hist' = Append(hist, node)
  /\ UNCHANGED tree

Unplug ==
  /\ Now.present
  /\ Becomes([Now EXCEPT !.present = FALSE, !.use = "free"])

\* A new instance always gets a new, larger disk sequence number.
Plug(d) ==
  /\ ~Now.present
  /\ Becomes([present |-> TRUE, drive |-> d, seq |-> Now.seq + 1, use |-> "free"])

\* A mount, an unmount, swapon, ...  None of them can take a disk that some
\* process holds with O_EXCL.
ChangeUse(u, exclusive) ==
  /\ Now.present
  /\ u # Now.use
  /\ ~exclusive
  /\ Becomes([Now EXCEPT !.use = u])

\* UDisks2 works through the kernel's events at its own pace.
TreeCatchesUp ==
  /\ tree < Len(hist)
  /\ tree' \in (tree + 1) .. Len(hist)
  /\ UNCHANGED hist

-----------------------------------------------------------------------------
(* What a collection reads, and how two snapshots compare.                 *)

\* The half of a snapshot that comes from GetManagedObjects.
TreeHalf(s) == [s EXCEPT !.drive = hist[tree].drive, !.use = hist[tree].use]

\* /sys/block/<name>/diskseq, read after the tree; it may be unreadable.
DiskseqReads == {Unknown} \cup (IF Now.present THEN {Now.seq} ELSE {})

\* IdentityComparison::Same: a known, equal serial and the same size.
SameIdentity(a, b) ==
  /\ Serial[a.drive] # NoSerial
  /\ Serial[a.drive] = Serial[b.drive]
  /\ Size[a.drive] = Size[b.drive]

\* InstanceComparison::SameInstance.
SameInstance(a, b) == a.seq # Unknown /\ a.seq = b.seq

SameDevice(a, b) == SameIdentity(a, b) /\ SameInstance(a, b)

\* The Safety Engine's Normal and writable; core::selectability asks the same.
SafeToWrite(s) == s.use = "free" /\ Size[s.drive] # 0

\* What Verify still refuses; a mount is accepted there.
HardHazard(s) == s.use = "claimed"

\* Mistaken variant: the descriptor's size alone is compared.
FdMatchesBySize(s, fdSeq, fdDrive) == Size[fdDrive] = Size[s.drive]

\* check_fd_binding: what the opened descriptor reports about itself (seq is
\* Unknown when an ioctl failed) against the snapshot the open was based on.
FdMatches(s, fdSeq, fdDrive) ==
  /\ fdSeq # Unknown
  /\ s.seq # Unknown
  /\ fdSeq = s.seq
  /\ Size[fdDrive] = Size[s.drive]
=============================================================================
