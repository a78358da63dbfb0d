------------------------- MODULE WriteSafety_proofs -------------------------
(***************************************************************************)
(* The safety properties of WriteOperation and WriteResult, and the        *)
(* refinement of SafeWrite, for every set of drives, every image and every *)
(* history of the block path.                                              *)
(*                                                                         *)
(* What the operation remembers of the device is a disk sequence number    *)
(* and, read at another moment, a drive.  The argument is a sandwich: the  *)
(* number was the kernel's at a moment n before the prompt and again at    *)
(* the gate; the drive the gate judged was plugged in at a moment t        *)
(* between the two; numbers only grow, and a number names one drive.       *)
(***************************************************************************)
EXTENDS WriteResult, TLAPS

-----------------------------------------------------------------------------
(* Type correctness.                                                       *)

\* Where the operation is once a plan exists.
Planned == {"open", "bind", "begin", "writeSource", "writeCheck", "writeChunk",
            "writeRecheck", "sync", "syncHere", "afterSync", "verifyPause",
            "verify", "verifySeq", "openVerify", "bindVerify", "verifySource",
            "verifyCheck", "verifyChunk", "verifyRecheck"}

\* A planned image is not empty, and a chunk is only transferred while one is
\* left: without both, `written` could be updated outside its domain.
Sized == /\ pc \in Planned => request.size > 0
         /\ pc = "writeChunk" => pos < request.size

TypeInv == TypeOK /\ Sized

LEMMA SnapshotTypes ==
  ASSUME TypeOK
  PROVE  /\ Now \in Node
         /\ DiskseqReads \subseteq Nat
         /\ \A s \in Snapshot : TreeHalf(s) \in Snapshot
         /\ \A q \in DiskseqReads : Fetched(q) \in Snapshot
<1>1. \A n \in 1 .. Len(hist) : hist[n] \in Node
  BY DEF TypeOK
<1>2. Now \in Node
  BY <1>1 DEF TypeOK, Now
<1>3. DiskseqReads \subseteq Nat
  BY <1>2 DEF Node, DiskseqReads, Unknown
<1>4. hist[tree] \in Node
  BY <1>1 DEF TypeOK
<1>5. \A s \in Snapshot : TreeHalf(s) \in Snapshot
  BY <1>4 DEF Node, TreeHalf, Snapshot
<1>6. half \in Snapshot
  BY DEF TypeOK
<1>7. \A q \in DiskseqReads : Fetched(q) \in Snapshot
  BY <1>3, <1>6 DEF Fetched, Snapshot
<1> QED
  BY <1>2, <1>3, <1>5, <1>7

LEMMA InitTypeInv == Init => TypeInv
<1> SUFFICES ASSUME Init PROVE TypeInv
  OBVIOUS
<1> USE DeviceAssumption, OperationAssumption
<1>1. NoSnapshot \in Snapshot
  <2>1. (CHOOSE d \in Drives : TRUE) \in Drives
    OBVIOUS
  <2> QED
    BY <2>1 DEF NoSnapshot, Snapshot, Uses, Unknown
<1>2. /\ hist \in Seq(Node) /\ Len(hist) \in 1 .. MaxEvents
      /\ tree \in 1 .. Len(hist)
  BY DEF Init, DeviceInit, Node, Uses
<1>3. fd \in [access : {"closed", "write", "read"}, seq : Nat, drive : Drives]
  BY <1>1 DEF Init, Snapshot, Unknown
<1>4. request \in Requests /\ request.size \in Nat
  BY DEF Init, Requests
<1>5. /\ written \in [Chunks -> {"none", "new", "other"}]
      /\ media \in [Chunks -> {"old", "new", "other", "bad"}]
  BY DEF Init
<1>6. pc \in {"list", "select"}
  BY DEF Init
<1>7. TypeOK
  <2>1. asked \in 0 .. Len(hist)
    BY <1>2 DEF Init
  <2>2. pos \in 0 .. request.size /\ late \in Nat
    BY <1>4 DEF Init
  <2>3. outcome \in [kind : {"Running", "Completed", "Failed", "Cancelled"},
                    stage : Stages, modified : BOOLEAN]
    BY DEF Init, Stages
  <2>4. /\ listed \in Snapshot /\ base \in Snapshot /\ cur \in Snapshot /\ half \in Snapshot
        /\ touched \subseteq Nat /\ overwritten \subseteq Chunks
        /\ altered \in BOOLEAN /\ cancel \in BOOLEAN
        /\ confirmed \in BOOLEAN /\ settled \in BOOLEAN
    BY <1>1 DEF Init
  <2>5. pc \in PCs
    BY <1>6 DEF PCs
  <2> QED
    BY <1>2, <1>3, <1>4, <1>5, <2>1, <2>2, <2>3, <2>4, <2>5 DEF TypeOK
<1>8. Sized
  BY <1>6 DEF Sized, Planned
<1> QED
  BY <1>7, <1>8 DEF TypeInv
-----------------------------------------------------------------------------
(* Most steps only move pc, close the descriptor and set the outcome.      *)

FdType == [access : {"closed", "write", "read"}, seq : Nat, drive : Drives]

OutcomeType == [kind : {"Running", "Completed", "Failed", "Cancelled"},
                stage : Stages, modified : BOOLEAN]

Control == /\ UNCHANGED <<outside, request, selection, consent, data>>
           /\ pos' \in 0 .. request.size
           /\ pc' \in PCs /\ fd' \in FdType /\ outcome' \in OutcomeType

LEMMA ControlTypeInv ==
  ASSUME TypeInv, Control,
         pc' \in Planned => request.size > 0,
         pc' = "writeChunk" => pos' < request.size
  PROVE  TypeInv'
<1>1. TypeOK'
  BY DEF TypeInv, TypeOK, Control, FdType, OutcomeType, outside, selection, consent, data, Chunks
<1>2. Sized'
  BY DEF Sized, Control
<1> QED
  BY <1>1, <1>2 DEF TypeInv

\* How a step that calls End leaves things.
Ends == pc' = "done" /\ fd' \in FdType /\ outcome' \in OutcomeType

LEMMA EndTypes ==
  ASSUME TypeOK
  PROVE  /\ \A kind \in {"Completed", "Failed", "Cancelled"}, stage \in Stages, m \in BOOLEAN :
               End(kind, stage, m) => Ends
         /\ \A stage \in Stages, m \in BOOLEAN : Fail(stage, m) => Ends
         /\ \A stage \in Stages, m \in BOOLEAN : Cancelled(stage, m) => Ends
<1>1. \A kind \in {"Completed", "Failed", "Cancelled"}, stage \in Stages, m \in BOOLEAN :
        End(kind, stage, m) => Ends
  BY DEF TypeOK, End, Ends, FdType, OutcomeType
<1> QED
  BY <1>1 DEF Fail, Cancelled

\* How a step that goes on leaves things.
LEMMA GoTypes ==
  ASSUME TypeOK
  PROVE  \A next \in PCs : Go(next) => pc' = next /\ pc' \in PCs /\ outcome' \in OutcomeType
  BY DEF TypeOK, Go, OutcomeType

LEMMA PrepareTypeInv ==
  ASSUME TypeInv, Prepare
  PROVE  TypeInv'
<1> USE DEF TypeInv
<1>0. fd \in FdType /\ pos \in 0 .. request.size
  BY DEF TypeOK, FdType
<1>1. CASE List
  <2>1. listed' \in Snapshot
    BY <1>1, SnapshotTypes DEF List
  <2>2. pc' = "select" /\ outcome' \in OutcomeType
    BY <1>1, GoTypes DEF List, PCs
  <2>3. TypeOK'
    BY <1>1, <2>1, <2>2 DEF List, TypeOK, OutcomeType, PCs, outside, deviceVars, consent, data, Chunks
  <2> QED
    BY <2>2, <2>3 DEF Sized, Planned
<1>2. CASE Select
  <2>1. base' \in Snapshot
    BY <1>2, SnapshotTypes DEF Select
  <2>2. /\ pc' \in {"reselect", "done"}
        /\ fd' \in FdType /\ outcome' \in OutcomeType
    BY <1>2, <1>0, EndTypes, GoTypes DEF Select, Judge, PCs, Stages, Ends
  <2>3. TypeOK'
    BY <1>2, <2>1, <2>2 DEF Select, TypeOK, FdType, OutcomeType, PCs, outside, deviceVars, consent, data, Chunks
  <2> QED
    BY <2>2, <2>3 DEF Sized, Planned
<1>3. CASE Revalidate("reselectSeq", "image", "Target")
  <2>1. /\ pc' \in {"image", "done"}
        /\ fd' \in FdType /\ outcome' \in OutcomeType
    BY <1>3, <1>0, EndTypes, GoTypes DEF Revalidate, Judge, PCs, Stages, Ends
  <2>2. Control
    BY <1>3, <1>0, <2>1 DEF Revalidate, Control, PCs
  <2> QED
    BY <1>3, <2>1, <2>2, ControlTypeInv DEF Revalidate, Sized, Planned
<1>4. CASE OpenImage
  <2>1. /\ pc' \in {"ready", "preflight", "done"}
        /\ fd' \in FdType /\ outcome' \in OutcomeType
    BY <1>4, <1>0, EndTypes, GoTypes DEF OpenImage, PCs, Stages, Ends
  <2>2. Control
    BY <1>4, <1>0, <2>1 DEF OpenImage, Control, PCs
  <2> QED
    BY <1>4, <2>1, <2>2, ControlTypeInv DEF OpenImage, Sized, Planned
<1>5. CASE Preflight
  <2>1. /\ pc' \in {"recheck", "done"}
        /\ fd' \in FdType /\ outcome' \in OutcomeType
    BY <1>5, <1>0, EndTypes, GoTypes DEF Preflight, PCs, Stages, Ends
  <2>2. Control
    BY <1>5, <1>0, <2>1 DEF Preflight, Control, PCs
  <2> QED
    BY <1>5, <2>1, <2>2, ControlTypeInv DEF Preflight, Sized, Planned
<1>6. CASE Revalidate("recheckSeq", "ready", "Image")
  <2>1. /\ pc' \in {"ready", "done"}
        /\ fd' \in FdType /\ outcome' \in OutcomeType
    BY <1>6, <1>0, EndTypes, GoTypes DEF Revalidate, Judge, PCs, Stages, Ends
  <2>2. Control
    BY <1>6, <1>0, <2>1 DEF Revalidate, Control, PCs
  <2> QED
    BY <1>6, <2>1, <2>2, ControlTypeInv DEF Revalidate, Sized, Planned
<1>7. CASE RequestConfirmation
  <2>1. /\ pc' \in {"confirm", "done"}
        /\ fd' \in FdType /\ outcome' \in OutcomeType
    BY <1>7, <1>0, EndTypes, GoTypes DEF RequestConfirmation, PCs, Stages, Ends
  <2>2. asked' \in 0 .. Len(hist)
    <3>1. asked' \in {asked, Len(hist)}
      BY <1>7 DEF RequestConfirmation
    <3>2. asked \in 0 .. Len(hist) /\ Len(hist) \in Nat
      BY DEF TypeOK
    <3> QED
      BY <3>1, <3>2
  <2>3. TypeOK'
    BY <1>7, <2>1, <2>2
    DEF RequestConfirmation, TypeOK, FdType, OutcomeType, PCs, outside, deviceVars, selection, data, Chunks
  <2> QED
    BY <2>1, <2>3 DEF Sized, Planned
<1>8. CASE ConfirmationCancelled
  <2>1. /\ pc' \in {"done"}
        /\ fd' \in FdType /\ outcome' \in OutcomeType
    BY <1>8, <1>0, EndTypes, GoTypes DEF ConfirmationCancelled, PCs, Stages, Ends
  <2>2. Control
    BY <1>8, <1>0, <2>1 DEF ConfirmationCancelled, Control, PCs
  <2> QED
    BY <1>8, <2>1, <2>2, ControlTypeInv DEF ConfirmationCancelled, Sized, Planned
<1> QED
  BY <1>1, <1>2, <1>3, <1>4, <1>5, <1>6, <1>7, <1>8 DEF Prepare

LEMMA AuthorizeTypeInv ==
  ASSUME TypeInv, Authorize
  PROVE  TypeInv'
<1> USE DEF TypeInv
<1>0. fd \in FdType /\ pos \in 0 .. request.size
  BY DEF TypeOK, FdType
<1>1. CASE WriteGate
  <2>1. cur' \in Snapshot
    BY <1>1, SnapshotTypes DEF WriteGate
  <2>2. /\ pc' = "done" \/ (pc' = "open" /\ Plannable(cur'))
        /\ fd' \in FdType /\ outcome' \in OutcomeType
    BY <1>1, <1>0, EndTypes, GoTypes DEF WriteGate, Judge, PCs, Stages, Ends
  <2>3. TypeOK'
    BY <1>1, <2>1, <2>2
    DEF WriteGate, TypeOK, FdType, OutcomeType, PCs, outside, deviceVars, consent, data, Chunks
  <2>4. request' = request
    BY <1>1 DEF WriteGate
  <2> QED
    BY <2>2, <2>3, <2>4 DEF Sized, Planned, Plannable
<1>2. CASE OpenWrite
  <2>1. Opened("write") => fd' \in FdType
    BY SnapshotTypes DEF Opened, Node, FdType
  <2>2. /\ pc' \in {"bind", "done"}
        /\ fd' \in FdType /\ outcome' \in OutcomeType
    BY <1>2, <2>1, EndTypes, GoTypes DEF OpenWrite, PCs, Stages, Ends
  <2>3. Control
    BY <1>2, <1>0, <2>2 DEF OpenWrite, Control, PCs
  <2> QED
    BY <1>2, <2>2, <2>3, ControlTypeInv DEF OpenWrite, Sized, Planned
<1>3. CASE BindFd("bind", "begin", "WriteDeviceRejected", FALSE)
  <2>1. /\ pc' \in {"begin", "done"}
        /\ fd' \in FdType /\ outcome' \in OutcomeType
    BY <1>3, <1>0, EndTypes, GoTypes DEF BindFd, Judge, PCs, Stages, Ends
  <2>2. Control
    BY <1>3, <1>0, <2>1 DEF BindFd, Control, PCs
  <2> QED
    BY <1>3, <2>1, <2>2, ControlTypeInv DEF BindFd, Sized, Planned
<1>4. CASE BeginWrite
  <2>1. /\ pc' \in {"writeSource", "done"}
        /\ fd' \in FdType /\ outcome' \in OutcomeType
    BY <1>4, <1>0, EndTypes, GoTypes DEF BeginWrite, PCs, Stages, Ends
  <2>2. Control
    BY <1>4, <1>0, <2>1 DEF BeginWrite, Control, PCs
  <2> QED
    BY <1>4, <2>1, <2>2, ControlTypeInv DEF BeginWrite, Sized, Planned
<1> QED
  BY <1>1, <1>2, <1>3, <1>4 DEF Authorize

\* A read of the object tree, wherever run_on makes one.
LEMMA FetchTypeInv ==
  ASSUME TypeInv, NEW here \in PCs, NEW there \in PCs, FetchTree(here, there),
         there \in Planned => here \in Planned, there # "writeChunk"
  PROVE  TypeInv'
<1> USE DEF TypeInv
<1>1. half' \in Snapshot
  BY SnapshotTypes DEF FetchTree, TypeOK
<1>2. pc' = there /\ outcome' \in OutcomeType
  BY GoTypes DEF FetchTree
<1>3. TypeOK'
  BY <1>1, <1>2 DEF FetchTree, TypeOK, OutcomeType, outside, deviceVars, consent, data, Chunks
<1> QED
  BY <1>2, <1>3 DEF FetchTree, Sized

LEMMA FetchFailsTypeInv ==
  ASSUME TypeInv, NEW here, NEW stage \in Stages, NEW m \in BOOLEAN, FetchFails(here, stage, m)
  PROVE  TypeInv'
<1>1. Ends
  BY EndTypes DEF FetchFails, TypeInv
<1>2. Control
  BY <1>1 DEF FetchFails, Control, Ends, PCs, TypeInv, TypeOK
<1> QED
  BY <1>1, <1>2, ControlTypeInv DEF Ends, Planned

LEMMA FetchSnapshotTypeInv ==
  ASSUME TypeInv, FetchSnapshot
  PROVE  TypeInv'
<1>1. CASE FetchTree("list", "listSeq") \/ FetchTree("select", "selectSeq")
           \/ FetchTree("reselect", "reselectSeq") \/ FetchTree("recheck", "recheckSeq")
  BY <1>1, FetchTypeInv DEF PCs, Planned
<1>2. CASE FetchTree("gate", "gateSeq") \/ FetchTree("verify", "verifySeq")
  BY <1>2, FetchTypeInv DEF PCs, Planned
<1>3. CASE \/ FetchFails("select", "Target", FALSE) \/ FetchFails("reselect", "Target", FALSE)
           \/ FetchFails("recheck", "Image", FALSE) \/ FetchFails("gate", "WriteGate", FALSE)
           \/ FetchFails("verify", "VerifyTarget", TRUE)
  BY <1>3, FetchFailsTypeInv DEF Stages
<1> QED
  BY <1>1, <1>2, <1>3 DEF FetchSnapshot

LEMMA WriteTypeInv ==
  ASSUME TypeInv, Write
  PROVE  TypeInv'
<1> USE DEF TypeInv
<1>0. fd \in FdType /\ pos \in 0 .. request.size
  BY DEF TypeOK, FdType
<1>1. CASE SourceCheck("writeSource", "writeCheck", "Write", FALSE)
  <2>1. /\ pc' \in {"writeCheck", "done"}
        /\ fd' \in FdType /\ outcome' \in OutcomeType
    BY <1>1, <1>0, EndTypes, GoTypes DEF SourceCheck, PCs, Stages, Ends
  <2>2. Control
    BY <1>1, <1>0, <2>1 DEF SourceCheck, Control, PCs
  <2> QED
    BY <1>1, <2>1, <2>2, ControlTypeInv DEF SourceCheck, Sized, Planned
<1>2. CASE WriteCheck
  <2>1. /\ pc' \in {"writeRecheck", "done"} \/ (pc' = "writeChunk" /\ pos < request.size)
        /\ fd' \in FdType /\ outcome' \in OutcomeType
    <3>1. CASE pos >= request.size /\ Go("writeRecheck") /\ UNCHANGED fd
      BY <3>1, <1>0, GoTypes DEF PCs
    <3>2. CASE pos < request.size /\ cancel /\ Cancelled("Write", pos > 0)
      <4> DEFINE some == pos > 0
      <4>1. some \in BOOLEAN
        OBVIOUS
      <4>2. Cancelled("Write", some)
        BY <3>2
      <4> HIDE DEF some
      <4> QED
        BY <4>1, <4>2, EndTypes DEF Stages, Ends
    <3>3. CASE pos < request.size /\ ~cancel /\ Go("writeChunk") /\ UNCHANGED fd
      BY <3>3, <1>0, GoTypes DEF PCs
    <3> QED
      BY <1>2, <3>1, <3>2, <3>3 DEF WriteCheck
  <2>2. Control
    BY <1>2, <1>0, <2>1 DEF WriteCheck, Control, PCs
  <2>3. pos' = pos
    BY <1>2 DEF WriteCheck
  <2> QED
    BY <1>2, <2>1, <2>2, <2>3, ControlTypeInv DEF WriteCheck, Sized, Planned
<1>3. CASE WriteChunk
  <2>0. request.size \in Nat /\ pos \in Nat /\ pos < request.size /\ pos + 1 \in Chunks
    <3>1. request.size \in Nat
      BY OperationAssumption DEF TypeOK, Requests
    <3>2. pos < request.size
      BY <1>3 DEF WriteChunk, Sized
    <3> QED
      BY <1>0, <3>1, <3>2 DEF Chunks
  <2>1. written' \in [Chunks -> {"none", "new", "other"}]
    BY <1>3, <2>0 DEF WriteChunk, TypeOK, SourceReads
  <2>2. pos' \in 0 .. request.size /\ late' \in Nat
    BY <1>3, <2>0 DEF WriteChunk, TypeOK
  <2>3. touched' \subseteq Nat
    BY <1>3, <1>0 DEF WriteChunk, TypeOK, FdType
  <2>4. pc' = "writeCheck" /\ outcome' \in OutcomeType
    BY <1>3, GoTypes DEF WriteChunk, PCs
  <2>5. UNCHANGED <<outside, request, selection, consent, fd, media, overwritten>>
    BY <1>3 DEF WriteChunk
  <2>6. TypeOK'
    BY <2>1, <2>2, <2>3, <2>4, <2>5
    DEF TypeOK, OutcomeType, PCs, outside, deviceVars, selection, consent, Chunks
  <2> QED
    BY <1>3, <2>4, <2>5, <2>6 DEF WriteChunk, Sized, Planned
<1>4. CASE WriteFails
  <2>1. Ends
    <3>1. CASE Fail("Write", TRUE)
      BY <3>1, EndTypes DEF Stages
    <3>2. CASE Fail("Write", pos > 0)
      <4> DEFINE some == pos > 0
      <4>1. some \in BOOLEAN
        OBVIOUS
      <4>2. Fail("Write", some)
        BY <3>2
      <4> HIDE DEF some
      <4> QED
        BY <4>1, <4>2, EndTypes DEF Stages
    <3> QED
      BY <1>4, <3>1, <3>2 DEF WriteFails
  <2>2. touched' \subseteq Nat
    BY <1>4, <1>0 DEF WriteFails, TypeOK, FdType
  <2>3. TypeOK'
    BY <1>4, <2>1, <2>2
    DEF WriteFails, TypeOK, Ends, FdType, OutcomeType, PCs, outside, deviceVars, selection, consent, Chunks
  <2> QED
    BY <2>1, <2>3 DEF Sized, Planned, Ends
<1>5. CASE SourceCheck("writeRecheck", "sync", "Write", TRUE)
  <2>1. /\ pc' \in {"sync", "done"}
        /\ fd' \in FdType /\ outcome' \in OutcomeType
    BY <1>5, <1>0, EndTypes, GoTypes DEF SourceCheck, PCs, Stages, Ends
  <2>2. Control
    BY <1>5, <1>0, <2>1 DEF SourceCheck, Control, PCs
  <2> QED
    BY <1>5, <2>1, <2>2, ControlTypeInv DEF SourceCheck, Sized, Planned
<1>6. CASE SyncThread
  <2>1. /\ pc' \in {"syncHere", "done"}
        /\ fd' \in FdType /\ outcome' \in OutcomeType
    BY <1>6, <1>0, EndTypes, GoTypes DEF SyncThread, PCs, Stages, Ends
  <2>2. Control
    BY <1>6, <1>0, <2>1 DEF SyncThread, Control, PCs
  <2> QED
    BY <1>6, <2>1, <2>2, ControlTypeInv DEF SyncThread, Sized, Planned
<1>7. CASE Sync
  <2>1. media' \in [Chunks -> {"old", "new", "other", "bad"}]
    BY <1>7 DEF Sync, TypeOK
  <2>2. pc' = "afterSync" /\ outcome' \in OutcomeType
    BY <1>7, GoTypes DEF Sync, PCs
  <2>3. UNCHANGED <<outside, request, selection, consent, fd, pos, written, touched, late, overwritten>>
    BY <1>7 DEF Sync
  <2>4. TypeOK'
    BY <2>1, <2>2, <2>3
    DEF TypeOK, OutcomeType, PCs, outside, deviceVars, selection, consent, Chunks
  <2> QED
    BY <1>7, <2>2, <2>3, <2>4 DEF Sync, Sized, Planned
<1>8. CASE SyncFails
  <2>1. /\ pc' \in {"done"}
        /\ fd' \in FdType /\ outcome' \in OutcomeType
    BY <1>8, <1>0, EndTypes, GoTypes DEF SyncFails, PCs, Stages, Ends
  <2>2. Control
    BY <1>8, <1>0, <2>1 DEF SyncFails, Control, PCs
  <2> QED
    BY <1>8, <2>1, <2>2, ControlTypeInv DEF SyncFails, Sized, Planned
<1>9. CASE AfterSync
  <2>1. /\ pc' \in {"verifyPause", "done"}
        /\ fd' \in FdType /\ outcome' \in OutcomeType
    BY <1>9, <1>0, EndTypes, GoTypes DEF AfterSync, FdType, PCs, Stages, Ends
  <2>2. request.size \in Nat
    BY OperationAssumption DEF TypeOK, Requests
  <2>3. Control
    BY <1>9, <2>1, <2>2 DEF AfterSync, Control, PCs
  <2> QED
    BY <1>9, <2>1, <2>3, ControlTypeInv DEF AfterSync, Sized, Planned
<1> QED
  BY <1>1, <1>2, <1>3, <1>4, <1>5, <1>6, <1>7, <1>8, <1>9 DEF Write

LEMMA VerifyTypeInv ==
  ASSUME TypeInv, Verify
  PROVE  TypeInv'
<1> USE DEF TypeInv
<1>0. fd \in FdType /\ pos \in 0 .. request.size
  BY DEF TypeOK, FdType
<1>1. CASE BeforeVerify
  <2>1. /\ pc' \in {"verify", "done"}
        /\ fd' \in FdType /\ outcome' \in OutcomeType
    BY <1>1, <1>0, EndTypes, GoTypes DEF BeforeVerify, PCs, Stages, Ends
  <2>2. Control
    BY <1>1, <1>0, <2>1 DEF BeforeVerify, Control, PCs
  <2> QED
    BY <1>1, <2>1, <2>2, ControlTypeInv DEF BeforeVerify, Sized, Planned
<1>2. CASE CheckTarget
  <2>1. cur' \in Snapshot
    BY <1>2, SnapshotTypes DEF CheckTarget
  <2>2. /\ pc' \in {"openVerify", "done"}
        /\ fd' \in FdType /\ outcome' \in OutcomeType
    BY <1>2, <1>0, EndTypes, GoTypes DEF CheckTarget, Judge, PCs, Stages, Ends
  <2>3. TypeOK'
    BY <1>2, <2>1, <2>2
    DEF CheckTarget, TypeOK, FdType, OutcomeType, PCs, outside, deviceVars, consent, data, Chunks
  <2> QED
    BY <1>2, <2>2, <2>3 DEF CheckTarget, Sized, Planned
<1>3. CASE OpenVerify
  <2>1. Opened("read") => fd' \in FdType
    BY SnapshotTypes DEF Opened, Node, FdType
  <2>2. /\ pc' \in {"bindVerify", "done"}
        /\ fd' \in FdType /\ outcome' \in OutcomeType
    BY <1>3, <2>1, EndTypes, GoTypes DEF OpenVerify, PCs, Stages, Ends
  <2>3. Control
    BY <1>3, <1>0, <2>2 DEF OpenVerify, Control, PCs
  <2> QED
    BY <1>3, <2>2, <2>3, ControlTypeInv DEF OpenVerify, Sized, Planned
<1>4. CASE BindFd("bindVerify", "verifySource", "VerifyStart", TRUE)
  <2>1. /\ pc' \in {"verifySource", "done"}
        /\ fd' \in FdType /\ outcome' \in OutcomeType
    BY <1>4, <1>0, EndTypes, GoTypes DEF BindFd, Judge, PCs, Stages, Ends
  <2>2. Control
    BY <1>4, <1>0, <2>1 DEF BindFd, Control, PCs
  <2> QED
    BY <1>4, <2>1, <2>2, ControlTypeInv DEF BindFd, Sized, Planned
<1>5. CASE SourceCheck("verifySource", "verifyCheck", "Verify", TRUE)
  <2>1. /\ pc' \in {"verifyCheck", "done"}
        /\ fd' \in FdType /\ outcome' \in OutcomeType
    BY <1>5, <1>0, EndTypes, GoTypes DEF SourceCheck, PCs, Stages, Ends
  <2>2. Control
    BY <1>5, <1>0, <2>1 DEF SourceCheck, Control, PCs
  <2> QED
    BY <1>5, <2>1, <2>2, ControlTypeInv DEF SourceCheck, Sized, Planned
<1>6. CASE VerifyCheck
  <2>1. /\ pc' \in {"verifyRecheck", "verifyChunk", "done"}
        /\ fd' \in FdType /\ outcome' \in OutcomeType
    BY <1>6, <1>0, EndTypes, GoTypes DEF VerifyCheck, PCs, Stages, Ends
  <2>2. Control
    BY <1>6, <1>0, <2>1 DEF VerifyCheck, Control, PCs
  <2> QED
    BY <1>6, <2>1, <2>2, ControlTypeInv DEF VerifyCheck, Sized, Planned
<1>7. CASE VerifyChunk
  <2>1. request.size \in Nat \ {0}
    <3>1. request.size > 0
      BY <1>7 DEF VerifyChunk, Sized, Planned
    <3>2. request.size \in Nat
      BY OperationAssumption DEF TypeOK, Requests
    <3> QED
      BY <3>1, <3>2
  <2>2. Compared \subseteq 0 .. request.size
    BY <2>1 DEF Compared, Chunks
  <2>3. pc' = "verifyCheck" /\ outcome' \in OutcomeType
    BY <1>7, GoTypes DEF VerifyChunk, PCs
  <2>4. Control
    BY <1>7, <1>0, <2>2, <2>3 DEF VerifyChunk, Remaining, Control, PCs
  <2> QED
    BY <1>7, <2>1, <2>3, <2>4, ControlTypeInv DEF VerifyChunk
<1>8. CASE VerifyFails
  <2>1. /\ pc' \in {"done"}
        /\ fd' \in FdType /\ outcome' \in OutcomeType
    BY <1>8, <1>0, EndTypes, GoTypes DEF VerifyFails, PCs, Stages, Ends
  <2>2. Control
    BY <1>8, <1>0, <2>1 DEF VerifyFails, Control, PCs
  <2> QED
    BY <1>8, <2>1, <2>2, ControlTypeInv DEF VerifyFails, Sized, Planned
<1>9. CASE VerifyRecheck
  <2>1. /\ pc' \in {"done"}
        /\ fd' \in FdType /\ outcome' \in OutcomeType
    BY <1>9, <1>0, EndTypes, GoTypes DEF VerifyRecheck, PCs, Stages, Ends
  <2>2. Control
    BY <1>9, <1>0, <2>1 DEF VerifyRecheck, Control, PCs
  <2> QED
    BY <1>9, <2>1, <2>2, ControlTypeInv DEF VerifyRecheck, Sized, Planned
<1> QED
  BY <1>1, <1>2, <1>3, <1>4, <1>5, <1>6, <1>7, <1>8, <1>9 DEF Verify

LEMMA AnswerTypeInv ==
  ASSUME TypeInv, Answer
  PROVE  TypeInv'
<1> USE DEF TypeInv
<1>0. fd \in FdType /\ pos \in 0 .. request.size
  BY DEF TypeOK, FdType
<1>1. CASE Confirm
  <2>1. pc' = "gate" /\ outcome' \in OutcomeType
    BY <1>1, GoTypes DEF Confirm, PCs
  <2>2. TypeOK'
    BY <1>1, <2>1
    DEF Confirm, TypeOK, OutcomeType, PCs, outside, deviceVars, selection, data, Chunks
  <2> QED
    BY <2>1, <2>2 DEF Sized, Planned
<1>2. CASE Refuse
  <2>1. /\ pc' \in {"done"}
        /\ fd' \in FdType /\ outcome' \in OutcomeType
    BY <1>2, <1>0, EndTypes, GoTypes DEF Refuse, PCs, Stages, Ends
  <2>2. Control
    BY <1>2, <1>0, <2>1 DEF Refuse, Control, PCs
  <2> QED
    BY <1>2, <2>1, <2>2, ControlTypeInv DEF Refuse, Sized, Planned
<1> QED
  BY <1>1, <1>2 DEF Answer

\* The kernel's history only ever grows by one node.
LEMMA DeviceChangesTypes ==
  ASSUME TypeOK, DeviceChanges
  PROVE  /\ hist' \in Seq(Node) /\ Len(hist') \in 1 .. MaxEvents
         /\ Len(hist) <= Len(hist')
         /\ tree' \in 1 .. Len(hist')
<1>0. /\ hist \in Seq(Node) /\ Len(hist) \in 1 .. MaxEvents /\ Len(hist) \in Nat
      /\ tree \in 1 .. Len(hist) /\ MaxEvents \in Nat
  BY DeviceAssumption DEF TypeOK
<1>1. ASSUME NEW node \in Node, Becomes(node)
      PROVE  /\ hist' \in Seq(Node) /\ Len(hist') \in 1 .. MaxEvents
             /\ Len(hist') = Len(hist) + 1 /\ tree' = tree
  BY <1>0, <1>1 DEF Becomes
<1>2. ASSUME Unplug PROVE \E node \in Node : Becomes(node)
  BY <1>2, SnapshotTypes DEF Unplug, Node, Uses
<1>3. ASSUME NEW d \in Drives, Plug(d) PROVE \E node \in Node : Becomes(node)
  <2>1. Now.seq + 1 \in Nat \ {0}
    BY SnapshotTypes DEF Node
  <2>2. [present |-> TRUE, drive |-> d, seq |-> Now.seq + 1, use |-> "free"] \in Node
    BY <2>1 DEF Node, Uses
  <2> QED
    BY <1>3, <2>2 DEF Plug
<1>4. ASSUME NEW u \in Uses, ChangeUse(u, fd.access = "write" /\ fd.seq = Now.seq)
      PROVE  \E node \in Node : Becomes(node)
  BY <1>4, SnapshotTypes DEF ChangeUse, Node, Uses
<1>5. CASE \E node \in Node : Becomes(node)
  BY <1>0, <1>1, <1>5
<1>6. CASE TreeCatchesUp
  BY <1>0, <1>6 DEF TreeCatchesUp
<1> QED
  BY <1>2, <1>3, <1>4, <1>5, <1>6 DEF DeviceChanges

LEMMA EnvironmentTypeInv ==
  ASSUME TypeInv, Environment
  PROVE  TypeInv'
<1> USE DEF TypeInv
<1>1. CASE DeviceChanges
  <2>1. asked' \in 0 .. Len(hist')
    BY <1>1, DeviceChangesTypes DEF DeviceChanges, TypeOK, operation, consent
  <2>2. UNCHANGED <<altered, cancel, operation>>
    BY <1>1 DEF DeviceChanges
  <2>3. TypeOK'
    BY <1>1, <2>1, <2>2, DeviceChangesTypes DEF TypeOK, operation, selection, consent, data, Chunks
  <2> QED
    BY <2>2, <2>3 DEF Sized, operation
<1>2. CASE AlterSource \/ RequestCancel
  <2>1. UNCHANGED <<deviceVars, operation>> /\ altered' \in BOOLEAN /\ cancel' \in BOOLEAN
    BY <1>2 DEF AlterSource, RequestCancel, TypeOK
  <2>2. TypeOK'
    BY <2>1 DEF TypeOK, operation, deviceVars, selection, consent, data, Chunks
  <2> QED
    BY <2>1, <2>2 DEF Sized, operation
<1>3. CASE ForeignWrite
  <2>1. /\ media' \in [Chunks -> {"old", "new", "other", "bad"}]
        /\ overwritten' \subseteq Chunks
    BY <1>3 DEF ForeignWrite, TypeOK
  <2>2. UNCHANGED <<outside, request, pc, selection, consent, fd, pos, written, touched, late, outcome>>
    BY <1>3 DEF ForeignWrite
  <2>3. TypeOK'
    BY <2>1, <2>2 DEF TypeOK, outside, deviceVars, selection, consent, Chunks
  <2> QED
    BY <2>2, <2>3 DEF Sized
<1> QED
  BY <1>1, <1>2, <1>3 DEF Environment

LEMMA NextTypeInv ==
  ASSUME TypeInv, [Next]_vars
  PROVE  TypeInv'
<1>1. CASE UNCHANGED vars
  BY <1>1 DEF TypeInv, TypeOK, Sized, vars, outside, operation, deviceVars, selection, consent, data, Chunks
<1>2. CASE Next
  BY <1>2, FetchSnapshotTypeInv, PrepareTypeInv, AuthorizeTypeInv, WriteTypeInv, VerifyTypeInv,
     AnswerTypeInv, EnvironmentTypeInv
  DEF Next, Step
<1> QED
  BY <1>1, <1>2

LEMMA AlwaysTypeInv == Spec => []TypeInv
<1>1. Init => TypeInv
  BY InitTypeInv
<1>2. TypeInv /\ [Next]_vars => TypeInv'
  BY NextTypeInv
<1> QED
  BY <1>1, <1>2, PTL DEF Spec

\* Every variable keeps its type; above all no chunk outside the image is
\* ever transferred (writer::write, run_full_verify, run_quick_verify).
THEOREM TypeCorrect == Spec => []TypeOK
<1>1. TypeInv => TypeOK
  BY DEF TypeInv
<1> QED
  BY <1>1, AlwaysTypeInv, PTL

-----------------------------------------------------------------------------
(* Which instance receives bytes: the inductive invariant.                 *)

\* The kernel's history: numbers never shrink, and a number names one drive.
Ordered ==
  \A m, n \in 1 .. Len(hist) :
    /\ m <= n => hist[m].seq <= hist[n].seq
    /\ hist[m].seq = hist[n].seq => hist[m].drive = hist[n].drive

BeforeAnswer == {"list", "listSeq", "select", "selectSeq", "reselect", "reselectSeq",
                 "image", "preflight", "recheck", "recheckSeq", "ready", "confirm"}

BeforeWrite == BeforeAnswer \cup {"gate", "gateSeq", "open", "bind", "begin", "writeSource"}

\* From the gate's consent to the last byte.
Writing == {"open", "bind", "begin", "writeSource", "writeCheck", "writeChunk"}

\* The baseline's number was the kernel's before the prompt was shown.
SeenAt(n) == /\ n \in 1 .. Len(hist)
             /\ hist[n].seq = base.seq
             /\ pc \in {"confirm", "gate", "gateSeq"} => n <= asked

BaseSeen == base.seq # Unknown => \E n \in 1 .. Len(hist) : SeenAt(n)

\* What a settled answer means for the object tree the gate reads.
Settling ==
  /\ pc \in BeforeAnswer => ~settled
  /\ settled => tree >= asked
  /\ pc = "gateSeq" /\ settled =>
       \E t \in 1 .. Len(hist) : t >= asked /\ half.drive = hist[t].drive

Identified == settled => \A i \in 1 .. Len(hist) :
                           hist[i].seq = base.seq => SameIdentity(base, hist[i])

Authorized == (pc \in Writing \/ touched # {}) => confirmed /\ base.seq # Unknown /\ Identified

Bound == /\ pc \in Writing => cur.seq = base.seq
         /\ pc \in Writing \ {"open", "bind"} => fd.seq = base.seq

OneInstance == /\ touched \subseteq {base.seq}
               /\ pc \in BeforeWrite => touched = {}

SafetyInv == Ordered /\ BaseSeen /\ Settling /\ Authorized /\ Bound /\ OneInstance

LEMMA InitSafetyInv == Init => SafetyInv
<1> SUFFICES ASSUME Init PROVE SafetyInv
  OBVIOUS
<1>1. /\ pc \in {"list", "select"} /\ ~settled /\ touched = {} /\ base.seq = Unknown
      /\ Len(hist) = 1
  BY DEF Init, DeviceInit, NoSnapshot
<1>2. Ordered
  <2>1. \E x : hist = <<x>> /\ x.seq = 1
    BY DEF Init, DeviceInit
  <2> QED
    BY <2>1 DEF Ordered
<1> QED
  BY <1>1, <1>2
  DEF SafetyInv, BaseSeen, Settling, Authorized, Bound, OneInstance, Writing, BeforeAnswer

-----------------------------------------------------------------------------
(* Steps that leave alone what the invariant is about.                     *)

Kept == <<hist, tree, base, asked, settled, confirmed, touched>>

Asking == {"confirm", "gate", "gateSeq"}

LEMMA QuietSafetyInv ==
  ASSUME SafetyInv, UNCHANGED Kept,
         pc' \in Asking => pc \in Asking,
         pc' \in BeforeAnswer => pc \in BeforeAnswer,
         pc' \in BeforeWrite => pc \in BeforeWrite,
         pc' \in Writing => pc \in Writing /\ cur' = cur,
         pc' \in Writing \ {"open", "bind"} => fd'.seq = base.seq,
         pc' # "gateSeq"
  PROVE  SafetyInv'
<1> USE DEF SafetyInv, Kept
<1>1. Ordered'
  BY DEF Ordered
<1>2. BaseSeen'
  BY DEF BaseSeen, SeenAt, Asking
<1>3. Settling'
  BY DEF Settling
<1>4. Authorized'
  BY DEF Authorized, Identified
<1>5. Bound'
  BY DEF Bound
<1>6. OneInstance'
  BY DEF OneInstance
<1> QED
  BY <1>1, <1>2, <1>3, <1>4, <1>5, <1>6

\* run_on returns: nothing is claimed of what may still happen.
LEMMA EndSafetyInv ==
  ASSUME SafetyInv, UNCHANGED Kept, pc' = "done"
  PROVE  SafetyInv'
  BY QuietSafetyInv DEF Asking, BeforeAnswer, BeforeWrite, Writing

LEMMA FetchSnapshotSafetyInv ==
  ASSUME TypeOK, SafetyInv, FetchSnapshot
  PROVE  SafetyInv'
<1>1. ASSUME NEW here, NEW stage, NEW m, FetchFails(here, stage, m) PROVE SafetyInv'
  BY <1>1, EndSafetyInv DEF FetchFails, Fail, End, Kept, outside, selection, consent, data
<1>2. CASE FetchTree("list", "listSeq") \/ FetchTree("select", "selectSeq")
           \/ FetchTree("reselect", "reselectSeq") \/ FetchTree("recheck", "recheckSeq")
           \/ FetchTree("verify", "verifySeq")
  BY <1>2, QuietSafetyInv
  DEF FetchTree, Go, Kept, outside, consent, data, Asking, BeforeAnswer, BeforeWrite, Writing
<1>3. CASE FetchTree("gate", "gateSeq")
  <2>1. /\ pc = "gate" /\ pc' = "gateSeq" /\ UNCHANGED Kept
        /\ half'.drive = hist[tree].drive
    BY <1>3 DEF FetchTree, TreeHalf, Go, Kept, outside, consent, data, TypeOK, Snapshot
  <2> USE DEF SafetyInv, Kept
  <2>2. Ordered' /\ Bound' /\ OneInstance'
    BY <2>1 DEF Ordered, Bound, Writing, OneInstance, BeforeWrite, BeforeAnswer
  <2>3. BaseSeen'
    BY <2>1 DEF BaseSeen, SeenAt
  <2>4. Settling'
    BY <2>1 DEF Settling, BeforeAnswer, TypeOK
  <2>5. Authorized'
    BY <2>1 DEF Authorized, Identified, Writing
  <2> QED
    BY <2>2, <2>3, <2>4, <2>5
<1> QED
  BY <1>1, <1>2, <1>3 DEF FetchSnapshot

LEMMA PrepareSafetyInv ==
  ASSUME TypeOK, SafetyInv, Prepare
  PROVE  SafetyInv'
<1>1. CASE List
  BY <1>1, QuietSafetyInv, EndSafetyInv
  DEF List, Go, Fail, Cancelled, End, Kept, outside, selection, consent, data, Asking, BeforeAnswer, BeforeWrite, Writing
<1>2. CASE Select
  <2>1. /\ pc = "selectSeq" /\ pc' \in {"reselect", "done"}
        /\ UNCHANGED <<hist, tree, asked, settled, confirmed, touched>>
        /\ base'.seq \in DiskseqReads
    BY <1>2, SnapshotTypes DEF Select, Judge, Fetched, Go, Fail, End, outside, consent, data, TypeOK, Snapshot
  <2>2. touched = {} /\ ~settled
    BY <2>1 DEF SafetyInv, OneInstance, Settling, BeforeAnswer, BeforeWrite
  <2>3. Len(hist) \in 1 .. Len(hist) /\ Now = hist[Len(hist)]
    BY DEF TypeOK, Now
  <2>4. BaseSeen'
    BY <2>1, <2>3 DEF BaseSeen, SeenAt, DiskseqReads
  <2>5. Ordered' /\ Settling' /\ Authorized' /\ Bound' /\ OneInstance'
    BY <2>1, <2>2
    DEF SafetyInv, Ordered, Settling, Authorized, Bound, OneInstance, BeforeAnswer, BeforeWrite, Writing
  <2> QED
    BY <2>4, <2>5 DEF SafetyInv
<1>3. CASE Revalidate("reselectSeq", "image", "Target")
  BY <1>3, QuietSafetyInv, EndSafetyInv
  DEF Revalidate, Judge, Go, Fail, Cancelled, End, Kept, outside, selection, consent, data, Asking, BeforeAnswer, BeforeWrite, Writing
<1>4. CASE OpenImage
  BY <1>4, QuietSafetyInv, EndSafetyInv
  DEF OpenImage, Go, Fail, Cancelled, End, Kept, outside, selection, consent, data, Asking, BeforeAnswer, BeforeWrite, Writing
<1>5. CASE Preflight
  BY <1>5, QuietSafetyInv, EndSafetyInv
  DEF Preflight, Go, Fail, Cancelled, End, Kept, outside, selection, consent, data, Asking, BeforeAnswer, BeforeWrite, Writing
<1>6. CASE Revalidate("recheckSeq", "ready", "Image")
  BY <1>6, QuietSafetyInv, EndSafetyInv
  DEF Revalidate, Judge, Go, Fail, Cancelled, End, Kept, outside, selection, consent, data, Asking, BeforeAnswer, BeforeWrite, Writing
<1>7. CASE RequestConfirmation
  <2>1. CASE pc' = "done"
    <3>1. UNCHANGED Kept
      BY <1>7, <2>1 DEF RequestConfirmation, Go, Kept, outside, selection, data
    <3> QED
      BY <2>1, <3>1, EndSafetyInv
  <2>2. CASE asked' = Len(hist) /\ pc' = "confirm"
    <3>1. /\ pc = "ready"
          /\ UNCHANGED <<hist, tree, base, half, cur, settled, confirmed, touched>>
      BY <1>7 DEF RequestConfirmation, outside, selection, data
    <3>2. touched = {} /\ ~settled
      BY <3>1 DEF SafetyInv, OneInstance, Settling, BeforeAnswer, BeforeWrite
    <3>3. BaseSeen'
      BY <2>2, <3>1 DEF SafetyInv, BaseSeen, SeenAt, TypeOK
    <3>4. Ordered' /\ Settling' /\ Authorized' /\ Bound' /\ OneInstance'
      BY <2>2, <3>1, <3>2
      DEF SafetyInv, Ordered, Settling, Authorized, Bound, OneInstance, BeforeAnswer, BeforeWrite, Writing
    <3> QED
      BY <3>3, <3>4 DEF SafetyInv
  <2> QED
    BY <1>7, <2>1, <2>2 DEF RequestConfirmation, Cancelled, End, Go
<1>8. CASE ConfirmationCancelled
  BY <1>8, QuietSafetyInv, EndSafetyInv
  DEF ConfirmationCancelled, Go, Fail, Cancelled, End, Kept, outside, selection, consent, data, Asking, BeforeAnswer, BeforeWrite, Writing
<1> QED
  BY <1>1, <1>2, <1>3, <1>4, <1>5, <1>6, <1>7, <1>8 DEF Prepare

LEMMA AnswerSafetyInv ==
  ASSUME TypeOK, SafetyInv, Answer
  PROVE  SafetyInv'
<1>1. CASE Confirm
  <2>1. /\ pc = "confirm" /\ pc' = "gate" /\ settled' = (tree >= asked)
        /\ UNCHANGED <<hist, tree, base, half, cur, asked, touched>>
    BY <1>1 DEF Confirm, Go, outside, selection, data
  <2>2. touched = {}
    BY <2>1 DEF SafetyInv, OneInstance, BeforeAnswer, BeforeWrite
  <2>3. BaseSeen'
    BY <2>1 DEF SafetyInv, BaseSeen, SeenAt
  <2>4. Ordered' /\ Settling' /\ Authorized' /\ Bound' /\ OneInstance'
    BY <2>1, <2>2
    DEF SafetyInv, Ordered, Settling, Authorized, Bound, OneInstance, BeforeAnswer, BeforeWrite, Writing
  <2> QED
    BY <2>3, <2>4 DEF SafetyInv
<1>2. CASE Refuse
  BY <1>2, QuietSafetyInv, EndSafetyInv
  DEF Refuse, Go, Fail, Cancelled, End, Kept, outside, selection, consent, data, Asking, BeforeAnswer, BeforeWrite, Writing
<1> QED
  BY <1>1, <1>2 DEF Answer

\* The gate: what it judged is the device whose number the selection holds.
LEMMA GateIdentifies ==
  ASSUME TypeOK, SafetyInv, WriteGate, pc' = "open"
  PROVE  /\ confirmed /\ base.seq # Unknown /\ cur'.seq = base.seq
         /\ Identified
<1>1. /\ pc = "gateSeq" /\ confirmed
      /\ SameDevice(base, cur')
  BY DEF WriteGate, Judge, Fail, End, StillSelected, TokenMatches
<1>2. /\ base.seq # Unknown /\ base.seq = cur'.seq
      /\ SameIdentity(base, cur')
  BY <1>1 DEF SameDevice, SameInstance
<1>3. /\ cur'.seq = Unknown \/ cur'.seq = hist[Len(hist)].seq
      /\ cur'.drive = half.drive
  BY DEF WriteGate, Fetched, DiskseqReads, Now, TypeOK, Snapshot
<1>4. ASSUME settled, NEW i \in 1 .. Len(hist), hist[i].seq = base.seq
      PROVE  SameIdentity(base, hist[i])
  <2>1. PICK n \in 1 .. Len(hist) : hist[n].seq = base.seq /\ n <= asked
    BY <1>1, <1>2 DEF SafetyInv, BaseSeen, SeenAt
  <2>2. PICK t \in 1 .. Len(hist) : t >= asked /\ half.drive = hist[t].drive
    BY <1>1, <1>4 DEF SafetyInv, Settling
  <2>3. asked \in Nat /\ Len(hist) \in 1 .. Len(hist)
    BY DEF TypeOK
  <2>4. hist[n].seq <= hist[t].seq /\ hist[t].seq <= hist[Len(hist)].seq
    BY <2>1, <2>2, <2>3 DEF SafetyInv, Ordered
  <2>5. hist[t].seq \in Nat /\ base.seq \in Nat
    <3>1. hist[t] \in Node /\ base \in Snapshot
      BY DEF TypeOK
    <3> QED
      BY <3>1 DEF Node, Snapshot
  <2>6. hist[t].seq = base.seq
    BY <1>2, <1>3, <2>1, <2>4, <2>5
  <2>7. hist[i].drive = cur'.drive
    BY <1>3, <1>4, <2>2, <2>6 DEF SafetyInv, Ordered
  <2> QED
    BY <1>2, <2>7 DEF SameIdentity
<1> QED
  BY <1>1, <1>2, <1>4 DEF Identified

LEMMA AuthorizeSafetyInv ==
  ASSUME TypeOK, SafetyInv, Authorize
  PROVE  SafetyInv'
<1>1. CASE WriteGate
  <2>1. /\ pc = "gateSeq" /\ pc' \in {"open", "done"} /\ UNCHANGED Kept
    BY <1>1 DEF WriteGate, Judge, Go, Fail, End, Kept, outside, consent, data
  <2>2. CASE pc' = "done"
    BY <2>1, <2>2, EndSafetyInv
  <2>3. CASE pc' = "open"
    <3> USE DEF SafetyInv, Kept
    <3>1. Ordered' /\ BaseSeen' /\ Settling' /\ OneInstance'
      BY <2>1, <2>3
      DEF Ordered, BaseSeen, SeenAt, Settling, OneInstance, BeforeAnswer, BeforeWrite
    <3>2. Authorized'
      BY <1>1, <2>1, <2>3, GateIdentifies DEF Authorized, Identified
    <3>3. Bound'
      BY <1>1, <2>1, <2>3, GateIdentifies DEF Bound
    <3> QED
      BY <3>1, <3>2, <3>3
  <2> QED
    BY <2>1, <2>2, <2>3
<1>2. CASE OpenWrite
  BY <1>2, QuietSafetyInv, EndSafetyInv
  DEF OpenWrite, Go, Fail, Cancelled, End, Kept, outside, selection, consent, data, Asking, BeforeAnswer, BeforeWrite, Writing
<1>3. CASE BindFd("bind", "begin", "WriteDeviceRejected", FALSE)
  <2>1. /\ pc = "bind" /\ UNCHANGED Kept /\ UNCHANGED cur /\ fd'.seq = fd.seq
        /\ pc' = "done" \/ (pc' = "begin" /\ fd.seq = cur.seq)
    BY <1>3
    DEF BindFd, Judge, FdMatches, Go, Fail, End, Kept, outside, selection, consent, data, TypeOK
  <2>2. cur.seq = base.seq
    BY <2>1 DEF SafetyInv, Bound, Writing
  <2> QED
    BY <2>1, <2>2, QuietSafetyInv DEF Asking, BeforeAnswer, BeforeWrite, Writing
<1>4. CASE BeginWrite
  <2>1. fd.seq = base.seq \/ pc # "begin"
    BY DEF SafetyInv, Bound, Writing
  <2> QED
    BY <1>4, <2>1, QuietSafetyInv, EndSafetyInv
    DEF BeginWrite, Go, Fail, End, Kept, outside, selection, consent, data,
        Asking, BeforeAnswer, BeforeWrite, Writing
<1> QED
  BY <1>1, <1>2, <1>3, <1>4 DEF Authorize

LEMMA WriteSafetyInv ==
  ASSUME TypeOK, SafetyInv, Write
  PROVE  SafetyInv'
<1>0. pc \in {"writeSource", "writeCheck", "writeChunk"} => fd.seq = base.seq
  BY DEF SafetyInv, Bound, Writing
<1>1. CASE SourceCheck("writeSource", "writeCheck", "Write", FALSE)
  BY <1>1, <1>0, QuietSafetyInv, EndSafetyInv
  DEF SourceCheck, Go, Fail, Cancelled, End, Kept, outside, selection, consent, data, Asking, BeforeAnswer, BeforeWrite, Writing
<1>2. CASE WriteCheck
  BY <1>2, <1>0, QuietSafetyInv, EndSafetyInv
  DEF WriteCheck, Go, Fail, Cancelled, End, Kept, outside, selection, consent, data, Asking, BeforeAnswer, BeforeWrite, Writing
<1>3. CASE WriteChunk \/ WriteFails
  <2>1. /\ pc = "writeChunk" /\ pc' \in {"writeCheck", "done"}
        /\ touched' \subseteq touched \cup {fd.seq} /\ fd'.seq = fd.seq
        /\ UNCHANGED <<hist, tree, base, half, cur, asked, settled, confirmed>>
    BY <1>3 DEF WriteChunk, WriteFails, Go, Fail, End, outside, selection, consent, TypeOK
  <2>2. /\ fd.seq = base.seq /\ cur.seq = base.seq
        /\ confirmed /\ base.seq # Unknown /\ Identified
    BY <2>1 DEF SafetyInv, Bound, Authorized, Writing
  <2> USE DEF SafetyInv
  <2>3. Ordered' /\ BaseSeen' /\ Settling'
    BY <2>1 DEF Ordered, BaseSeen, SeenAt, Settling, BeforeAnswer
  <2>4. Authorized' /\ Bound'
    BY <2>1, <2>2 DEF Authorized, Identified, Bound
  <2>5. OneInstance'
    BY <2>1, <2>2 DEF OneInstance, BeforeWrite, BeforeAnswer
  <2> QED
    BY <2>3, <2>4, <2>5
<1>4. CASE SourceCheck("writeRecheck", "sync", "Write", TRUE)
  BY <1>4, QuietSafetyInv, EndSafetyInv
  DEF SourceCheck, Go, Fail, Cancelled, End, Kept, outside, selection, consent, data, Asking, BeforeAnswer, BeforeWrite, Writing
<1>5. CASE SyncThread
  BY <1>5, QuietSafetyInv, EndSafetyInv
  DEF SyncThread, Go, Fail, Cancelled, End, Kept, outside, selection, consent, data, Asking, BeforeAnswer, BeforeWrite, Writing
<1>6. CASE Sync
  BY <1>6, QuietSafetyInv, EndSafetyInv
  DEF Sync, Go, Fail, Cancelled, End, Kept, outside, selection, consent, data, Asking, BeforeAnswer, BeforeWrite, Writing
<1>7. CASE SyncFails
  BY <1>7, QuietSafetyInv, EndSafetyInv
  DEF SyncFails, Go, Fail, Cancelled, End, Kept, outside, selection, consent, data, Asking, BeforeAnswer, BeforeWrite, Writing
<1>8. CASE AfterSync
  BY <1>8, QuietSafetyInv, EndSafetyInv
  DEF AfterSync, Go, Fail, Cancelled, End, Kept, outside, selection, consent, data, Asking, BeforeAnswer, BeforeWrite, Writing
<1> QED
  BY <1>1, <1>2, <1>3, <1>4, <1>5, <1>6, <1>7, <1>8 DEF Write

LEMMA VerifySafetyInv ==
  ASSUME TypeOK, SafetyInv, Verify
  PROVE  SafetyInv'
<1>1. CASE BeforeVerify
  BY <1>1, QuietSafetyInv, EndSafetyInv
  DEF BeforeVerify, Go, Fail, Cancelled, End, Kept, outside, selection, consent, data, Asking, BeforeAnswer, BeforeWrite, Writing
<1>2. CASE CheckTarget
  BY <1>2, QuietSafetyInv, EndSafetyInv
  DEF CheckTarget, Judge, Go, Fail, Cancelled, End, Kept, outside, selection, consent, data, Asking, BeforeAnswer, BeforeWrite, Writing
<1>3. CASE OpenVerify
  BY <1>3, QuietSafetyInv, EndSafetyInv
  DEF OpenVerify, Go, Fail, Cancelled, End, Kept, outside, selection, consent, data, Asking, BeforeAnswer, BeforeWrite, Writing
<1>4. CASE BindFd("bindVerify", "verifySource", "VerifyStart", TRUE)
  BY <1>4, QuietSafetyInv, EndSafetyInv
  DEF BindFd, Judge, Go, Fail, Cancelled, End, Kept, outside, selection, consent, data, Asking, BeforeAnswer, BeforeWrite, Writing
<1>5. CASE SourceCheck("verifySource", "verifyCheck", "Verify", TRUE)
  BY <1>5, QuietSafetyInv, EndSafetyInv
  DEF SourceCheck, Go, Fail, Cancelled, End, Kept, outside, selection, consent, data, Asking, BeforeAnswer, BeforeWrite, Writing
<1>6. CASE VerifyCheck \/ VerifyChunk \/ VerifyFails \/ VerifyRecheck
  BY <1>6, QuietSafetyInv, EndSafetyInv
  DEF VerifyCheck, VerifyChunk, VerifyFails, VerifyRecheck, Go, Fail, Cancelled, End, Kept, outside, selection, consent, data, Asking, BeforeAnswer, BeforeWrite, Writing
<1> QED
  BY <1>1, <1>2, <1>3, <1>4, <1>5, <1>6 DEF Verify

-----------------------------------------------------------------------------
(* The device's own steps.                                                 *)

\* A new node either continues the instance that is plugged in, or has a larger
\* number than every node before it.
LEMMA HistoryGrows ==
  ASSUME TypeOK, DeviceChanges
  PROVE  /\ tree <= tree' /\ Len(hist) <= Len(hist') /\ Len(hist') <= Len(hist) + 1
         /\ \A i \in 1 .. Len(hist) : hist'[i] = hist[i]
         /\ \A i \in 1 .. Len(hist') : i > Len(hist) =>
              /\ hist'[i].seq >= Now.seq
              /\ hist'[i].seq = Now.seq => hist'[i].drive = Now.drive
<1>1. /\ hist \in Seq(Node) /\ Len(hist) \in Nat /\ tree \in Nat
      /\ Now \in Node /\ Now.seq \in Nat
  BY SnapshotTypes DEF TypeOK, Node
<1>2. ASSUME NEW node, Becomes(node), node.seq >= Now.seq,
             node.seq = Now.seq => node.drive = Now.drive
      PROVE  /\ tree <= tree' /\ Len(hist) <= Len(hist') /\ Len(hist') <= Len(hist) + 1
             /\ \A i \in 1 .. Len(hist) : hist'[i] = hist[i]
             /\ \A i \in 1 .. Len(hist') : i > Len(hist) =>
                  /\ hist'[i].seq >= Now.seq
                  /\ hist'[i].seq = Now.seq => hist'[i].drive = Now.drive
  BY <1>1, <1>2 DEF Becomes
<1>3. CASE Unplug
  <2> DEFINE node == [Now EXCEPT !.present = FALSE, !.use = "free"]
  <2>1. Becomes(node) /\ node.seq = Now.seq /\ node.drive = Now.drive
    BY <1>1, <1>3 DEF Unplug, Node
  <2> HIDE DEF node
  <2> QED
    BY <1>1, <1>2, <2>1
<1>4. CASE \E d \in Drives : Plug(d)
  <2>1. PICK d \in Drives : Plug(d)
    BY <1>4
  <2> DEFINE node == [present |-> TRUE, drive |-> d, seq |-> Now.seq + 1, use |-> "free"]
  <2>2. Becomes(node) /\ node.seq > Now.seq
    BY <1>1, <2>1 DEF Plug
  <2>3. node.seq \in Nat
    BY <1>1
  <2> HIDE DEF node
  <2> QED
    BY <1>1, <1>2, <2>2, <2>3
<1>5. CASE \E u \in Uses : ChangeUse(u, fd.access = "write" /\ fd.seq = Now.seq)
  <2>1. PICK u \in Uses : ChangeUse(u, fd.access = "write" /\ fd.seq = Now.seq)
    BY <1>5
  <2> DEFINE node == [Now EXCEPT !.use = u]
  <2>2. Becomes(node) /\ node.seq = Now.seq /\ node.drive = Now.drive
    BY <1>1, <2>1 DEF ChangeUse, Node
  <2> HIDE DEF node
  <2> QED
    BY <1>1, <1>2, <2>2
<1>6. CASE TreeCatchesUp
  BY <1>1, <1>6 DEF TreeCatchesUp
<1> QED
  BY <1>3, <1>4, <1>5, <1>6 DEF DeviceChanges

LEMMA EnvironmentSafetyInv ==
  ASSUME TypeOK, SafetyInv, Environment
  PROVE  SafetyInv'
<1>1. CASE DeviceChanges
  <2>0. /\ UNCHANGED <<pc, base, half, cur, fd, asked, settled, confirmed, touched>>
        /\ Len(hist) \in 1 .. Len(hist) /\ Len(hist) \in Nat /\ Len(hist') \in Nat
        /\ tree \in Nat /\ tree' \in Nat /\ asked \in Nat
    BY <1>1, DeviceChangesTypes DEF DeviceChanges, operation, selection, consent, data, TypeOK
  <2>1. /\ \A i \in 1 .. Len(hist) : hist[i] \in Node /\ hist[i].seq \in Nat
        /\ \A i \in 1 .. Len(hist') : hist'[i] \in Node /\ hist'[i].seq \in Nat
    <3>1. hist \in Seq(Node) /\ hist' \in Seq(Node)
      BY <1>1, DeviceChangesTypes DEF TypeOK
    <3>2. \A s \in Seq(Node) : \A i \in 1 .. Len(s) : s[i] \in Node
      OBVIOUS
    <3>3. \A x \in Node : x.seq \in Nat
      BY DEF Node
    <3> QED
      BY <3>1, <3>2, <3>3
  <2> USE DEF SafetyInv
  <2>2. \A i \in 1 .. Len(hist) :
          /\ hist[i].seq <= Now.seq
          /\ hist[i].seq = Now.seq => hist[i].drive = Now.drive
    BY <2>0 DEF Ordered, Now
  <2>9. Now.seq \in Nat
    BY <2>0, <2>1 DEF Now
  <2>3. Ordered'
    <3> SUFFICES ASSUME NEW m \in 1 .. Len(hist'), NEW n \in 1 .. Len(hist')
                 PROVE  /\ m <= n => hist'[m].seq <= hist'[n].seq
                        /\ hist'[m].seq = hist'[n].seq => hist'[m].drive = hist'[n].drive
      BY DEF Ordered
    <3>1. CASE m \in 1 .. Len(hist) /\ n \in 1 .. Len(hist)
      BY <1>1, <3>1, HistoryGrows DEF Ordered
    <3>2. CASE m \in 1 .. Len(hist) /\ n > Len(hist)
      <4>1. /\ hist'[m] = hist[m] /\ hist[m].seq \in Nat /\ hist'[n].seq \in Nat
            /\ hist'[n].seq >= Now.seq
            /\ hist'[n].seq = Now.seq => hist'[n].drive = Now.drive
        BY <1>1, <2>1, <3>2, HistoryGrows
      <4> QED
        BY <2>2, <2>9, <3>2, <4>1
    <3>3. CASE m > Len(hist) /\ n \in 1 .. Len(hist)
      <4>1. /\ hist'[n] = hist[n] /\ hist[n].seq \in Nat /\ hist'[m].seq \in Nat
            /\ hist'[m].seq >= Now.seq
            /\ hist'[m].seq = Now.seq => hist'[m].drive = Now.drive
        BY <1>1, <2>1, <3>3, HistoryGrows
      <4>2. ~(m <= n)
        BY <2>0, <3>3
      <4> QED
        BY <2>2, <2>9, <3>3, <4>1, <4>2
    <3>4. CASE m > Len(hist) /\ n > Len(hist)
      <4>1. m = n
        BY <1>1, <2>0, <3>4, HistoryGrows
      <4> QED
        BY <2>1, <4>1
    <3> QED
      BY <2>0, <3>1, <3>2, <3>3, <3>4
  <2>4. BaseSeen'
    BY <1>1, <2>0, HistoryGrows DEF BaseSeen, SeenAt
  <2>5. Settling'
    BY <1>1, <2>0, HistoryGrows DEF Settling
  <2>6. Bound' /\ OneInstance'
    BY <2>0 DEF Bound, OneInstance
  <2>7. ASSUME base.seq # Unknown, Identified PROVE Identified'
    <3>1. PICK n \in 1 .. Len(hist) : hist[n].seq = base.seq
      BY <2>7 DEF BaseSeen, SeenAt
    <3> SUFFICES ASSUME settled, NEW i \in 1 .. Len(hist'), hist'[i].seq = base.seq
                 PROVE  SameIdentity(base, hist'[i])
      BY <2>0 DEF Identified
    <3>2. CASE i \in 1 .. Len(hist)
      BY <1>1, <2>7, <3>2, HistoryGrows DEF Identified
    <3>3. CASE i > Len(hist)
      <4>1. hist'[i].seq = Now.seq /\ hist'[i].drive = Now.drive
        <5>1. /\ hist'[i].seq >= Now.seq
              /\ hist'[i].seq = Now.seq => hist'[i].drive = Now.drive
          BY <1>1, <3>3, HistoryGrows
        <5>2. hist[n].seq <= Now.seq /\ hist[n].seq \in Nat
          BY <2>1, <2>2
        <5> QED
          BY <2>9, <3>1, <5>1, <5>2
      <4>2. hist[n].drive = Now.drive
        <5>1. hist[n].seq = Now.seq
          BY <3>1, <4>1
        <5> QED
          BY <2>2, <5>1
      <4>3. SameIdentity(base, hist[n])
        BY <2>7, <3>1 DEF Identified
      <4> QED
        BY <4>1, <4>2, <4>3 DEF SameIdentity
    <3> QED
      BY <2>0, <3>2, <3>3
  <2>8. Authorized'
    BY <2>0, <2>7 DEF Authorized
  <2> QED
    BY <2>3, <2>4, <2>5, <2>6, <2>8
<1>2. CASE AlterSource \/ RequestCancel \/ ForeignWrite
  <2>1. UNCHANGED Kept /\ UNCHANGED <<pc, half, cur, fd>>
    BY <1>2
    DEF AlterSource, RequestCancel, ForeignWrite, Kept, operation, outside, deviceVars,
        selection, consent, data
  <2> QED
    BY <2>1
    DEF Kept, SafetyInv, Ordered, BaseSeen, SeenAt, Settling, Authorized, Identified, Bound,
        OneInstance
<1> QED
  BY <1>1, <1>2 DEF Environment

-----------------------------------------------------------------------------
LEMMA NextSafetyInv ==
  ASSUME TypeOK, SafetyInv, [Next]_vars
  PROVE  SafetyInv'
<1>1. CASE UNCHANGED vars
  BY <1>1
  DEF vars, outside, operation, deviceVars, selection, consent, data, SafetyInv, Ordered, BaseSeen,
      SeenAt, Settling, Authorized, Identified, Bound, OneInstance
<1>2. CASE Next
  BY <1>2, FetchSnapshotSafetyInv, PrepareSafetyInv, AuthorizeSafetyInv, WriteSafetyInv,
     VerifySafetyInv, AnswerSafetyInv, EnvironmentSafetyInv
  DEF Next, Step
<1> QED
  BY <1>1, <1>2

LEMMA AlwaysSafetyInv == Spec => []SafetyInv
<1>1. Init => SafetyInv
  BY InitSafetyInv
<1>2. TypeOK /\ SafetyInv /\ [Next]_vars => SafetyInv'
  BY NextSafetyInv
<1> QED
  BY <1>1, <1>2, TypeCorrect, PTL DEF Spec

\* Bytes only reach the instance the confirmed selection names and, when UDisks2
\* had caught up with the prompt before it was answered, only the drive with the
\* serial and the size that were shown (core::prepare_for_open, check_fd_binding).
THEOREM WritesOnlyTheConfirmedDevice == Spec => []WritesOnlyWhatWasConfirmed
<1>1. SafetyInv => WritesOnlyWhatWasConfirmed
  BY DEF SafetyInv, Authorized, Identified, OneInstance, WritesOnlyWhatWasConfirmed
<1> QED
  BY <1>1, AlwaysSafetyInv, PTL

-----------------------------------------------------------------------------
(* What has been written, and what the outcome says of it.                 *)

Written == {"writeRecheck", "sync", "syncHere", "afterSync", "verifyPause", "verify",
            "verifySeq", "openVerify", "bindVerify", "verifySource", "verifyCheck",
            "verifyChunk", "verifyRecheck"}

Verifying == {"verifySource", "verifyCheck", "verifyChunk", "verifyRecheck"}

\* Chunks and touched instances go together.
Counted ==
  /\ pc \in BeforeWrite => pos = 0
  /\ pc \in {"writeCheck", "writeChunk"} => (touched = {} <=> pos = 0)
  /\ pc \in Written => touched # {}

\* The instance the last open was based on stays the selected one, in Verify too.
SameInstanceThroughout ==
  /\ pc \in Planned => cur.seq = base.seq
  /\ pc \in Verifying \cup {"bindVerify"} => fd.access = "read"
  /\ pc \in Verifying => fd.seq = base.seq

Late == /\ late <= 1
        /\ pc \in BeforeWrite \cup {"writeChunk"} => late = 0
        /\ pc = "writeCheck" /\ late > 0 => cancel

ProgressInv == Counted /\ SameInstanceThroughout /\ Late /\ UnmodifiedMeansUntouched

LEMMA InitProgressInv == Init => ProgressInv
  BY DEF Init, ProgressInv, Counted, SameInstanceThroughout, Late, UnmodifiedMeansUntouched,
         BeforeWrite, BeforeAnswer, Written, Planned, Verifying

LEMMA FetchSnapshotProgressInv ==
  ASSUME TypeInv, SafetyInv, ProgressInv, FetchSnapshot
  PROVE  ProgressInv'
<1> USE DEF ProgressInv, Counted, SameInstanceThroughout, Late, UnmodifiedMeansUntouched,
        BeforeWrite, BeforeAnswer, Written, Planned, Verifying
<1>0. /\ pc \in BeforeWrite => touched = {}
      /\ touched \subseteq {base.seq}
  BY DEF SafetyInv, OneInstance
<1>1. CASE \/ FetchTree("list", "listSeq") \/ FetchTree("select", "selectSeq")
           \/ FetchTree("reselect", "reselectSeq") \/ FetchTree("recheck", "recheckSeq")
  BY <1>1, <1>0
  DEF FetchTree, Go, Fail, Cancelled, End, outside, selection, consent, data, TypeInv, TypeOK
<1>2. CASE FetchTree("gate", "gateSeq") \/ FetchTree("verify", "verifySeq")
  BY <1>2, <1>0
  DEF FetchTree, Go, Fail, Cancelled, End, outside, selection, consent, data, TypeInv, TypeOK
<1>3. CASE \/ FetchFails("select", "Target", FALSE) \/ FetchFails("reselect", "Target", FALSE)
           \/ FetchFails("recheck", "Image", FALSE) \/ FetchFails("gate", "WriteGate", FALSE)
  BY <1>3, <1>0
  DEF FetchFails, Go, Fail, Cancelled, End, outside, selection, consent, data, TypeInv, TypeOK
<1>4. CASE FetchFails("verify", "VerifyTarget", TRUE)
  BY <1>4, <1>0
  DEF FetchFails, Go, Fail, Cancelled, End, outside, selection, consent, data, TypeInv, TypeOK
<1> QED
  BY <1>1, <1>2, <1>3, <1>4 DEF FetchSnapshot

LEMMA PrepareProgressInv ==
  ASSUME TypeInv, SafetyInv, ProgressInv, Prepare
  PROVE  ProgressInv'
<1> USE DEF ProgressInv, Counted, SameInstanceThroughout, Late, UnmodifiedMeansUntouched,
        BeforeWrite, BeforeAnswer, Written, Planned, Verifying
<1>0. /\ pc \in BeforeWrite => touched = {}
      /\ touched \subseteq {base.seq}
  BY DEF SafetyInv, OneInstance
<1>1. CASE List
  BY <1>1, <1>0
  DEF List, Go, Fail, Cancelled, End, outside, selection, consent, data, TypeInv, TypeOK
<1>2. CASE Select
  BY <1>2, <1>0
  DEF Select, Judge, Go, Fail, Cancelled, End, outside, selection, consent, data, TypeInv, TypeOK
<1>3. CASE Revalidate("reselectSeq", "image", "Target")
  BY <1>3, <1>0
  DEF Revalidate, Judge, Go, Fail, Cancelled, End, outside, selection, consent, data, TypeInv, TypeOK
<1>4. CASE OpenImage
  BY <1>4, <1>0
  DEF OpenImage, Go, Fail, Cancelled, End, outside, selection, consent, data, TypeInv, TypeOK
<1>5. CASE Preflight
  BY <1>5, <1>0
  DEF Preflight, Go, Fail, Cancelled, End, outside, selection, consent, data, TypeInv, TypeOK
<1>6. CASE Revalidate("recheckSeq", "ready", "Image")
  BY <1>6, <1>0
  DEF Revalidate, Judge, Go, Fail, Cancelled, End, outside, selection, consent, data, TypeInv, TypeOK
<1>7. CASE RequestConfirmation
  BY <1>7, <1>0
  DEF RequestConfirmation, Go, Fail, Cancelled, End, outside, selection, consent, data, TypeInv, TypeOK
<1>8. CASE ConfirmationCancelled
  BY <1>8, <1>0
  DEF ConfirmationCancelled, Go, Fail, Cancelled, End, outside, selection, consent, data, TypeInv, TypeOK
<1> QED
  BY <1>1, <1>2, <1>3, <1>4, <1>5, <1>6, <1>7, <1>8 DEF Prepare

LEMMA AnswerProgressInv ==
  ASSUME TypeInv, SafetyInv, ProgressInv, Answer
  PROVE  ProgressInv'
<1> USE DEF ProgressInv, Counted, SameInstanceThroughout, Late, UnmodifiedMeansUntouched,
        BeforeWrite, BeforeAnswer, Written, Planned, Verifying
<1>0. /\ pc \in BeforeWrite => touched = {}
      /\ touched \subseteq {base.seq}
  BY DEF SafetyInv, OneInstance
<1>1. CASE Confirm
  BY <1>1, <1>0
  DEF Confirm, Go, Fail, Cancelled, End, outside, selection, consent, data, TypeInv, TypeOK
<1>2. CASE Refuse
  BY <1>2, <1>0
  DEF Refuse, Go, Fail, Cancelled, End, outside, selection, consent, data, TypeInv, TypeOK
<1> QED
  BY <1>1, <1>2 DEF Answer

LEMMA AuthorizeProgressInv ==
  ASSUME TypeInv, SafetyInv, ProgressInv, Authorize
  PROVE  ProgressInv'
<1> USE DEF ProgressInv, Counted, SameInstanceThroughout, Late, UnmodifiedMeansUntouched,
        BeforeWrite, BeforeAnswer, Written, Planned, Verifying
<1>0. /\ pc \in BeforeWrite => touched = {}
      /\ touched \subseteq {base.seq}
  BY DEF SafetyInv, OneInstance
<1>1. CASE WriteGate
  <2>1. /\ pc = "gateSeq" /\ pc' \in {"open", "done"}
        /\ outcome'.modified = FALSE \/ pc' = "open"
        /\ UNCHANGED <<base, touched, pos, late, cancel>>
    BY <1>1 DEF WriteGate, Judge, Go, Fail, End, outside, data
  <2>2. pc' = "open" => cur'.seq = base'.seq
    BY <1>1, <2>1, GateIdentifies DEF TypeInv
  <2> QED
    BY <1>0, <2>1, <2>2
<1>2. CASE OpenWrite
  BY <1>2, <1>0
  DEF OpenWrite, Opened, Go, Fail, Cancelled, End, outside, selection, consent, data, TypeInv, TypeOK
<1>3. CASE BindFd("bind", "begin", "WriteDeviceRejected", FALSE)
  BY <1>3, <1>0
  DEF BindFd, Judge, Go, Fail, Cancelled, End, outside, selection, consent, data, TypeInv, TypeOK
<1>4. CASE BeginWrite
  BY <1>4, <1>0
  DEF BeginWrite, Go, Fail, Cancelled, End, outside, selection, consent, data, TypeInv, TypeOK
<1> QED
  BY <1>1, <1>2, <1>3, <1>4 DEF Authorize

LEMMA WriteProgressInv ==
  ASSUME TypeInv, SafetyInv, ProgressInv, Write
  PROVE  ProgressInv'
<1> USE DEF ProgressInv, Counted, SameInstanceThroughout, Late, UnmodifiedMeansUntouched,
        BeforeWrite, BeforeAnswer, Written, Planned, Verifying
<1>0. /\ pc \in BeforeWrite => touched = {}
      /\ touched \subseteq {base.seq}
  BY DEF SafetyInv, OneInstance
<1>1. CASE SourceCheck("writeSource", "writeCheck", "Write", FALSE)
  BY <1>1, <1>0
  DEF SourceCheck, Go, Fail, Cancelled, End, outside, selection, consent, data, TypeInv, TypeOK
<1>2. CASE WriteCheck
  <2>0. /\ pc = "writeCheck" /\ UNCHANGED <<base, cur, touched, pos, late, cancel>>
        /\ request.size > 0 /\ pos \in Nat /\ late \in Nat /\ fd'.seq = fd.seq
        /\ pos = 0 \/ pos > 0
    BY <1>2 DEF WriteCheck, Go, Cancelled, End, outside, selection, data, TypeInv, TypeOK, Sized
  <2>1. CASE pos >= request.size /\ Go("writeRecheck")
    <3>1. request.size \in Nat
      BY OperationAssumption DEF TypeInv, TypeOK, Requests
    <3>2. touched # {}
      BY <2>0, <2>1, <3>1
    <3> QED
      BY <2>0, <2>1, <3>2 DEF Go
  <2>2. CASE cancel /\ Cancelled("Write", pos > 0)
    <3>1. pc' = "done" /\ outcome'.modified = (pos > 0)
      BY <2>2 DEF Cancelled, End
    <3>2. ~outcome'.modified => touched = {}
      BY <2>0, <3>1
    <3> QED
      BY <2>0, <3>1, <3>2
  <2>3. CASE ~cancel /\ Go("writeChunk")
    BY <2>0, <2>3 DEF Go
  <2> QED
    BY <1>2, <2>1, <2>2, <2>3 DEF WriteCheck
<1>3. CASE WriteChunk
  BY <1>3, <1>0
  DEF WriteChunk, Sized, Go, Fail, Cancelled, End, outside, selection, consent, data, TypeInv, TypeOK
<1>4. CASE WriteFails
  BY <1>4, <1>0
  DEF WriteFails, Sized, Go, Fail, Cancelled, End, outside, selection, consent, data, TypeInv, TypeOK
<1>5. CASE SourceCheck("writeRecheck", "sync", "Write", TRUE)
  BY <1>5, <1>0
  DEF SourceCheck, Go, Fail, Cancelled, End, outside, selection, consent, data, TypeInv, TypeOK
<1>6. CASE SyncThread
  BY <1>6, <1>0
  DEF SyncThread, Go, Fail, Cancelled, End, outside, selection, consent, data, TypeInv, TypeOK
<1>7. CASE Sync
  BY <1>7, <1>0
  DEF Sync, Go, Fail, Cancelled, End, outside, selection, consent, data, TypeInv, TypeOK
<1>8. CASE SyncFails
  BY <1>8, <1>0
  DEF SyncFails, Go, Fail, Cancelled, End, outside, selection, consent, data, TypeInv, TypeOK
<1>9. CASE AfterSync
  BY <1>9, <1>0
  DEF AfterSync, Go, Fail, Cancelled, End, outside, selection, consent, data, TypeInv, TypeOK
<1> QED
  BY <1>1, <1>2, <1>3, <1>4, <1>5, <1>6, <1>7, <1>8, <1>9 DEF Write

LEMMA VerifyProgressInv ==
  ASSUME TypeInv, SafetyInv, ProgressInv, Verify
  PROVE  ProgressInv'
<1> USE DEF ProgressInv, Counted, SameInstanceThroughout, Late, UnmodifiedMeansUntouched,
        BeforeWrite, BeforeAnswer, Written, Planned, Verifying
<1>0. /\ pc \in BeforeWrite => touched = {}
      /\ touched \subseteq {base.seq}
  BY DEF SafetyInv, OneInstance
<1>1. CASE BeforeVerify
  BY <1>1, <1>0
  DEF BeforeVerify, Go, Fail, Cancelled, End, outside, selection, consent, data, TypeInv, TypeOK
<1>2. CASE CheckTarget
  BY <1>2, <1>0
  DEF CheckTarget, Judge, SameDevice, SameInstance, Go, Fail, Cancelled, End, outside, selection, consent, data, TypeInv, TypeOK
<1>3. CASE OpenVerify
  BY <1>3, <1>0
  DEF OpenVerify, Opened, Go, Fail, Cancelled, End, outside, selection, consent, data, TypeInv, TypeOK
<1>4. CASE BindFd("bindVerify", "verifySource", "VerifyStart", TRUE)
  BY <1>4, <1>0
  DEF BindFd, Judge, FdMatches, Go, Fail, Cancelled, End, outside, selection, consent, data, TypeInv, TypeOK
<1>5. CASE SourceCheck("verifySource", "verifyCheck", "Verify", TRUE)
  BY <1>5, <1>0
  DEF SourceCheck, Go, Fail, Cancelled, End, outside, selection, consent, data, TypeInv, TypeOK
<1>6. CASE VerifyCheck
  BY <1>6, <1>0
  DEF VerifyCheck, Go, Fail, Cancelled, End, outside, selection, consent, data, TypeInv, TypeOK
<1>7. CASE VerifyChunk
  BY <1>7, <1>0
  DEF VerifyChunk, Go, Fail, Cancelled, End, outside, selection, consent, data, TypeInv, TypeOK
<1>8. CASE VerifyFails
  BY <1>8, <1>0
  DEF VerifyFails, Go, Fail, Cancelled, End, outside, selection, consent, data, TypeInv, TypeOK
<1>9. CASE VerifyRecheck
  BY <1>9, <1>0
  DEF VerifyRecheck, Go, Fail, Cancelled, End, outside, selection, consent, data, TypeInv, TypeOK
<1> QED
  BY <1>1, <1>2, <1>3, <1>4, <1>5, <1>6, <1>7, <1>8, <1>9 DEF Verify

LEMMA EnvironmentProgressInv ==
  ASSUME TypeInv, SafetyInv, ProgressInv, Environment
  PROVE  ProgressInv'
<1> USE DEF ProgressInv, Counted, SameInstanceThroughout, Late, UnmodifiedMeansUntouched,
        BeforeWrite, BeforeAnswer, Written, Planned, Verifying
<1>0. /\ pc \in BeforeWrite => touched = {}
      /\ touched \subseteq {base.seq}
  BY DEF SafetyInv, OneInstance
<1>1. CASE DeviceChanges
  BY <1>1, <1>0
  DEF DeviceChanges, operation, Go, Fail, Cancelled, End, outside, selection, consent, data, TypeInv, TypeOK
<1>2. CASE AlterSource
  BY <1>2, <1>0
  DEF AlterSource, operation, Go, Fail, Cancelled, End, outside, selection, consent, data, TypeInv, TypeOK
<1>3. CASE RequestCancel
  BY <1>3, <1>0
  DEF RequestCancel, operation, Go, Fail, Cancelled, End, outside, selection, consent, data, TypeInv, TypeOK
<1>4. CASE ForeignWrite
  BY <1>4, <1>0
  DEF ForeignWrite, Go, Fail, Cancelled, End, outside, selection, consent, data, TypeInv, TypeOK
<1> QED
  BY <1>1, <1>2, <1>3, <1>4 DEF Environment

LEMMA NextProgressInv ==
  ASSUME TypeInv, SafetyInv, ProgressInv, [Next]_vars
  PROVE  ProgressInv'
<1>1. CASE UNCHANGED vars
  BY <1>1
  DEF vars, outside, operation, selection, consent, data, ProgressInv, Counted,
      SameInstanceThroughout, Late, UnmodifiedMeansUntouched
<1>2. CASE Next
  BY <1>2, FetchSnapshotProgressInv, PrepareProgressInv, AuthorizeProgressInv, WriteProgressInv,
     VerifyProgressInv, AnswerProgressInv, EnvironmentProgressInv
  DEF Next, Step
<1> QED
  BY <1>1, <1>2

LEMMA AlwaysProgressInv == Spec => []ProgressInv
<1>1. Init => ProgressInv
  BY InitProgressInv
<1>2. TypeInv /\ SafetyInv /\ ProgressInv /\ [Next]_vars => ProgressInv'
  BY NextProgressInv
<1> QED
  BY <1>1, <1>2, AlwaysTypeInv, AlwaysSafetyInv, PTL DEF Spec

\* An outcome that says the target was not modified is true, at every one of the
\* operation's ends (target_may_be_modified_for_error, OperationOutcome).
THEOREM UnmodifiedOutcomesAreTrue == Spec => []UnmodifiedMeansUntouched
<1>1. ProgressInv => UnmodifiedMeansUntouched
  BY DEF ProgressInv
<1> QED
  BY <1>1, AlwaysProgressInv, PTL

\* At most the chunk in flight follows a cancellation, for images of every size
\* (the poll at the head of writer::write's loop).
THEOREM CancellationStopsTheWrite == Spec => []CancelStopsWithinOneChunk
<1>1. ProgressInv => CancelStopsWithinOneChunk
  BY DEF ProgressInv, Late, CancelStopsWithinOneChunk
<1> QED
  BY <1>1, AlwaysProgressInv, PTL

\* What Verify reads is the instance that was written, however often the device
\* was replugged since (PendingVerify::check_target, VerifyReadyToOpen::finalize).
THEOREM VerifyReadsWhatWasWritten == Spec => []VerifyReadsTheWrittenInstance
<1>1. SafetyInv /\ ProgressInv => VerifyReadsTheWrittenInstance
  BY DEF SafetyInv, OneInstance, ProgressInv, Counted, SameInstanceThroughout,
         VerifyReadsTheWrittenInstance, Verifying, Written
<1> QED
  BY <1>1, AlwaysSafetyInv, AlwaysProgressInv, PTL

-----------------------------------------------------------------------------
(* Exclusion.                                                              *)

Holding == {"bind", "begin", "writeSource", "writeCheck", "writeChunk", "writeRecheck",
            "sync", "syncHere", "afterSync"}

\* While the O_EXCL descriptor is open, nothing else uses the disk behind it.
Exclusive ==
  /\ pc \in Holding => fd.access = "write"
  /\ fd.access = "write" => /\ fd.seq <= Now.seq
                            /\ fd.seq = Now.seq => Now.use = "free"

LEMMA InitExclusive == Init => Exclusive
  BY DEF Init, Exclusive, Holding

LEMMA FetchSnapshotExclusive ==
  ASSUME TypeOK, Exclusive, FetchSnapshot
  PROVE  Exclusive'
<1> USE DEF Exclusive, Holding
<1>1. ASSUME NEW here, NEW there \in PCs \ Holding, FetchTree(here, there) PROVE Exclusive'
  BY <1>1 DEF FetchTree, Go, outside, Now
<1>2. ASSUME NEW here, NEW stage, NEW m, FetchFails(here, stage, m) PROVE Exclusive'
  BY <1>2 DEF FetchFails, Fail, End, outside, Now, TypeOK
<1> QED
  BY <1>1, <1>2 DEF FetchSnapshot, PCs

LEMMA DeviceChangesExclusive ==
  ASSUME TypeOK, Exclusive, DeviceChanges
  PROVE  Exclusive'
<1>1. /\ hist \in Seq(Node) /\ Len(hist) \in Nat \ {0}
      /\ Now \in Node /\ Now.seq \in Nat /\ fd.seq \in Nat
  BY SnapshotTypes DEF TypeOK, Node
<1>2. UNCHANGED <<pc, fd>>
  BY DEF DeviceChanges, operation
<1>3. ASSUME NEW node, Becomes(node) PROVE Now' = node
  BY <1>1, <1>3 DEF Becomes, Now
<1>4. CASE Unplug
  <2>1. Now'.seq = Now.seq /\ Now'.use = "free"
    BY <1>1, <1>3, <1>4 DEF Unplug, Node
  <2> QED
    BY <1>2, <2>1 DEF Exclusive
<1>5. CASE \E d \in Drives : Plug(d)
  <2>1. Now'.seq = Now.seq + 1
    BY <1>3, <1>5 DEF Plug
  <2> QED
    BY <1>1, <1>2, <2>1 DEF Exclusive
<1>6. CASE \E u \in Uses : ChangeUse(u, fd.access = "write" /\ fd.seq = Now.seq)
  <2>1. Now'.seq = Now.seq /\ ~(fd.access = "write" /\ fd.seq = Now.seq)
    BY <1>1, <1>3, <1>6 DEF ChangeUse, Node
  <2> QED
    BY <1>2, <2>1 DEF Exclusive
<1>7. CASE TreeCatchesUp
  BY <1>2, <1>7 DEF TreeCatchesUp, Exclusive, Now
<1> QED
  BY <1>4, <1>5, <1>6, <1>7 DEF DeviceChanges

LEMMA StepExclusive ==
  ASSUME TypeOK, Exclusive, Prepare \/ Authorize \/ Write \/ Verify \/ Answer
  PROVE  Exclusive'
<1> USE DEF Exclusive, Holding, Now, Go, Fail, Cancelled, End, outside, deviceVars, TypeOK
<1>1. CASE Prepare
  BY <1>1
  DEF Prepare, List, Select, Judge, Revalidate, OpenImage, Preflight, RequestConfirmation,
      ConfirmationCancelled
<1>2. CASE Answer
  BY <1>2 DEF Answer, Confirm, Refuse
<1>3. CASE WriteGate \/ BindFd("bind", "begin", "WriteDeviceRejected", FALSE) \/ BeginWrite
  BY <1>3 DEF WriteGate, Judge, BindFd, BeginWrite
<1>4. CASE OpenWrite
  BY <1>4, SnapshotTypes DEF OpenWrite, Opened, Node
<1>5. CASE Write
  BY <1>5
  DEF Write, SourceCheck, WriteCheck, WriteChunk, WriteFails, SyncThread, Sync, SyncFails, AfterSync
<1>6. CASE OpenVerify
  BY <1>6 DEF OpenVerify, Opened
<1>7. CASE Verify /\ ~OpenVerify
  BY <1>7
  DEF Verify, BeforeVerify, CheckTarget, Judge, BindFd, SourceCheck, VerifyCheck, VerifyChunk,
      VerifyFails, VerifyRecheck
<1> QED
  BY <1>1, <1>2, <1>3, <1>4, <1>5, <1>6, <1>7 DEF Authorize

LEMMA AlwaysExclusive == Spec => []Exclusive
<1>1. TypeOK /\ Exclusive /\ [Next]_vars => Exclusive'
  <2> SUFFICES ASSUME TypeOK, Exclusive, [Next]_vars PROVE Exclusive'
    OBVIOUS
  <2>1. CASE UNCHANGED vars
    BY <2>1 DEF vars, outside, operation, deviceVars, Exclusive, Now
  <2>2. CASE AlterSource \/ RequestCancel \/ ForeignWrite
    BY <2>2
    DEF AlterSource, RequestCancel, ForeignWrite, operation, outside, deviceVars, Exclusive, Now
  <2> QED
    BY <2>1, <2>2, StepExclusive, FetchSnapshotExclusive, DeviceChangesExclusive
    DEF Next, Step, Environment
<1> QED
  BY <1>1, InitExclusive, TypeCorrect, PTL DEF Spec

\* No step writes while a filesystem of the disk is mounted or something else
\* claims it (OpenAccess::WriteExclusive, held from the gate until after sync).
THEOREM WritesHoldTheDisk == Spec => NeverWritesWhileInUse
<1>1. TypeOK /\ Exclusive /\ [Next]_vars =>
        [<<written, touched>>' # <<written, touched>> => Now.use = "free"]_vars
  <2> SUFFICES ASSUME TypeOK, Exclusive, Next, <<written, touched>>' # <<written, touched>>
               PROVE  Now.use = "free"
    OBVIOUS
  <2>1. CASE Alive /\ pc = "writeChunk"
    BY <2>1 DEF Exclusive, Holding, Alive
  <2>2. WriteChunk \/ WriteFails => Alive /\ pc = "writeChunk"
    BY DEF WriteChunk, WriteFails, data
  <2>3. ~FetchSnapshot
    BY DEF FetchSnapshot, FetchTree, FetchFails, data
  <2>4. ~Prepare
    BY DEF Prepare, List, Select, Revalidate, OpenImage, Preflight, RequestConfirmation,
           ConfirmationCancelled, data
  <2>5. ~Authorize /\ ~Answer
    BY DEF Authorize, WriteGate, OpenWrite, BindFd, BeginWrite, Answer, Confirm, Refuse, data
  <2>6. Write => WriteChunk \/ WriteFails
    BY DEF Write, SourceCheck, WriteCheck, SyncThread, Sync, SyncFails, AfterSync, data
  <2>7. ~Verify
    BY DEF Verify, BeforeVerify, CheckTarget, OpenVerify, BindFd, SourceCheck, VerifyCheck,
           VerifyChunk, VerifyFails, VerifyRecheck, data
  <2>8. ~Environment
    BY DEF Environment, DeviceChanges, AlterSource, RequestCancel, ForeignWrite, operation, data
  <2> QED
    BY <2>1, <2>2, <2>3, <2>4, <2>5, <2>6, <2>7, <2>8 DEF Next, Step
<1> QED
  BY <1>1, AlwaysExclusive, TypeCorrect, PTL DEF Spec, NeverWritesWhileInUse

-----------------------------------------------------------------------------
(* The data.  The check of the source before sync makes of "some chunk was *)
(* written" that it is the image's; the one after Verify makes of "the two *)
(* agree" that the medium holds the image.                                 *)

\* Sync has succeeded.
AfterTheSync == {"afterSync", "verifyPause", "verify", "verifySeq", "openVerify", "bindVerify",
                 "verifySource", "verifyCheck", "verifyChunk", "verifyRecheck"}

\* A file nobody altered gives the image's bytes.
Faithful == ~altered => \A i \in Chunks : written[i] \in {"none", "new"}

Filled ==
  /\ pc \in {"writeCheck", "writeChunk"} =>
       \A i \in Chunks : i <= pos => written[i] # "none"
  /\ pc = "writeRecheck" => \A i \in Chunks : written[i] # "none"
  /\ pc \in {"sync", "syncHere"} => \A i \in Chunks : written[i] = "new"

Stored == \A i \in Chunks : written[i] = "new" /\ media[i] # "old"

Synced ==
  pc \in AfterTheSync \/ (pc = "done" /\ outcome.stage \in SyncedStages) => Stored

Holds(i) == media[i] = "new" \/ i \in overwritten

Agreed ==
  /\ pc \in AfterTheSync \ ({"afterSync"} \cup {"verifyCheck", "verifyChunk", "verifyRecheck"})
       => pos = 0
  /\ pc \in {"verifyCheck", "verifyChunk"} /\ ~altered =>
       \A i \in Compared : i <= pos => Holds(i)
  /\ pc = "verifyRecheck" /\ ~altered => \A i \in Compared : Holds(i)
  /\ VerifiedTargetHoldsTheImage

DataInv == Faithful /\ Filled /\ Synced /\ Agreed

LEMMA InitDataInv == Init => DataInv
  BY DEF Init, DataInv, Faithful, Filled, Synced, Agreed, AfterTheSync, SyncedStages,
         VerifiedTargetHoldsTheImage

ImageData == <<request, altered, written, media, overwritten>>

\* Nothing is claimed before the first chunk, nor of what ends before sync has.
LEMMA EarlyDataInv ==
  ASSUME DataInv, UNCHANGED ImageData,
         pc' \in BeforeWrite \/ (pc' = "done" /\ outcome'.stage \notin SyncedStages)
  PROVE  DataInv'
<1>1. Faithful'
  BY DEF DataInv, Faithful, ImageData, Chunks
<1>2. Filled' /\ Synced' /\ Agreed'
  BY DEF Filled, Synced, Agreed, VerifiedTargetHoldsTheImage, BeforeWrite, BeforeAnswer,
         AfterTheSync, SyncedStages
<1> QED
  BY <1>1, <1>2 DEF DataInv

\* From sync on, what has been written stays; without a verdict nothing more is claimed.
LEMMA LateDataInv ==
  ASSUME DataInv, UNCHANGED ImageData, pc \in AfterTheSync,
         \/ /\ pc' \in {"verifyPause", "verify", "verifySeq", "openVerify", "bindVerify",
                        "verifySource"}
            /\ pos' = 0
         \/ pc' = "done" /\ outcome'.stage # "Verified"
  PROVE  DataInv'
<1>1. Faithful'
  BY DEF DataInv, Faithful, ImageData, Chunks
<1>2. Synced'
  BY DEF DataInv, Synced, Stored, ImageData, Chunks
<1>3. Filled' /\ Agreed'
  BY DEF Filled, Agreed, VerifiedTargetHoldsTheImage, AfterTheSync
<1> QED
  BY <1>1, <1>2, <1>3 DEF DataInv

LEMMA PreparationDataInv ==
  ASSUME DataInv, FetchSnapshot \/ Prepare \/ Authorize \/ Answer
  PROVE  DataInv'
<1> USE DEF ImageData, BeforeWrite, BeforeAnswer, SyncedStages
<1>1. CASE \/ FetchTree("list", "listSeq") \/ FetchTree("select", "selectSeq")
           \/ FetchTree("reselect", "reselectSeq") \/ FetchTree("recheck", "recheckSeq")
           \/ FetchTree("gate", "gateSeq")
  BY <1>1, EarlyDataInv DEF FetchTree, Go, outside, data
<1>2. CASE \/ FetchFails("select", "Target", FALSE) \/ FetchFails("reselect", "Target", FALSE)
           \/ FetchFails("recheck", "Image", FALSE) \/ FetchFails("gate", "WriteGate", FALSE)
  BY <1>2, EarlyDataInv DEF FetchFails, Fail, End, outside, data
<1>3. CASE FetchTree("verify", "verifySeq")
  <2>1. pos' = 0
    BY <1>3 DEF DataInv, Agreed, AfterTheSync, FetchTree
  <2> QED
    BY <1>3, <2>1, LateDataInv DEF FetchTree, Go, outside, data, AfterTheSync
<1>4. CASE FetchFails("verify", "VerifyTarget", TRUE)
  BY <1>4, LateDataInv DEF FetchFails, Fail, End, outside, data, AfterTheSync
<1>5. CASE Prepare
  BY <1>5, EarlyDataInv
  DEF Prepare, List, Select, Revalidate, OpenImage, Preflight, RequestConfirmation,
      ConfirmationCancelled, Judge, Go, Fail, Cancelled, End, outside, data
<1>6. CASE Authorize
  BY <1>6, EarlyDataInv
  DEF Authorize, WriteGate, OpenWrite, BindFd, BeginWrite, Judge, Go, Fail, End, outside, data
<1>7. CASE Answer
  BY <1>7, EarlyDataInv DEF Answer, Confirm, Refuse, Go, Fail, Cancelled, End, outside, data
<1> QED
  BY <1>1, <1>2, <1>3, <1>4, <1>5, <1>6, <1>7 DEF FetchSnapshot

LEMMA WriteDataInv ==
  ASSUME TypeInv, ProgressInv, DataInv, Write
  PROVE  DataInv'
<1> USE DEF ImageData
<1>0. Chunks \subseteq Nat \ {0} /\ pos \in Nat /\ request.size \in Nat
  <2>1. request.size \in Nat
    BY OperationAssumption DEF TypeInv, TypeOK, Requests
  <2>2. pos \in 0 .. request.size
    BY DEF TypeInv, TypeOK
  <2> QED
    BY <2>1, <2>2 DEF Chunks
<1>1. CASE SourceCheck("writeSource", "writeCheck", "Write", FALSE)
  <2>1. CASE pc' = "done"
    BY <1>1, <2>1, EarlyDataInv DEF SourceCheck, Go, Fail, End, outside, data, SyncedStages
  <2>2. CASE pc' = "writeCheck"
    <3>1. /\ pc = "writeSource" /\ pos' = pos /\ UNCHANGED ImageData
      BY <1>1, <2>2 DEF SourceCheck, Go, Fail, End, outside, data
    <3>2. pos = 0
      BY <3>1 DEF ProgressInv, Counted, BeforeWrite
    <3>3. Faithful'
      BY <3>1 DEF DataInv, Faithful, Chunks
    <3>4. Chunks' = Chunks
      BY <3>1 DEF Chunks
    <3>5. Filled'
      BY <1>0, <2>2, <3>1, <3>2, <3>4 DEF Filled
    <3>6. Synced' /\ Agreed'
      BY <2>2 DEF Synced, Agreed, AfterTheSync, VerifiedTargetHoldsTheImage
    <3> QED
      BY <3>3, <3>5, <3>6 DEF DataInv
  <2> QED
    BY <1>1, <2>1, <2>2 DEF SourceCheck, Go, Fail, End
<1>2. CASE WriteCheck
  <2>1. CASE pc' = "done"
    BY <1>2, <2>1, EarlyDataInv DEF WriteCheck, Go, Cancelled, End, outside, data, SyncedStages
  <2>2. CASE pc' \in {"writeRecheck", "writeChunk"}
    <3>1. /\ pc = "writeCheck" /\ pos' = pos /\ UNCHANGED ImageData
          /\ pc' = "writeRecheck" => pos >= request.size
      BY <1>2, <2>2 DEF WriteCheck, Go, Cancelled, End, outside, data
    <3>2. Chunks' = Chunks /\ Faithful'
      BY <3>1 DEF DataInv, Faithful, Chunks
    <3>3. \A i \in Chunks : i <= pos => written[i] # "none"
      BY <3>1 DEF DataInv, Filled
    <3>4. Filled'
      BY <1>0, <2>2, <3>1, <3>2, <3>3 DEF Filled, Chunks
    <3>5. Synced' /\ Agreed'
      BY <2>2 DEF Synced, Agreed, AfterTheSync, VerifiedTargetHoldsTheImage
    <3> QED
      BY <3>2, <3>4, <3>5 DEF DataInv
  <2> QED
    BY <1>2, <2>1, <2>2 DEF WriteCheck, Go, Cancelled, End
<1>3. CASE WriteChunk
  <2>1. /\ pc = "writeChunk" /\ pc' = "writeCheck" /\ pos' = pos + 1
        /\ UNCHANGED <<request, altered>>
    BY <1>3 DEF WriteChunk, Go, outside
  <2>2. PICK c \in SourceReads : written' = [written EXCEPT ![pos + 1] = c]
    BY <1>3 DEF WriteChunk
  <2>3. c # "none" /\ (~altered => c = "new")
    BY DEF SourceReads
  <2>4. written \in [Chunks -> {"none", "new", "other"}] /\ Chunks' = Chunks
    BY <2>1 DEF TypeInv, TypeOK, Chunks
  <2>5. \A i \in Chunks : written'[i] = IF i = pos + 1 THEN c ELSE written[i]
    BY <2>2, <2>4
  <2>6. Faithful'
    BY <2>1, <2>3, <2>4, <2>5 DEF DataInv, Faithful
  <2>7. \A i \in Chunks : i <= pos => written[i] # "none"
    BY <2>1 DEF DataInv, Filled
  <2>8. Filled'
    BY <1>0, <2>1, <2>3, <2>4, <2>5, <2>7 DEF Filled
  <2>9. Synced' /\ Agreed'
    BY <2>1 DEF Synced, Agreed, AfterTheSync, VerifiedTargetHoldsTheImage
  <2> QED
    BY <2>6, <2>8, <2>9 DEF DataInv
<1>4. CASE WriteFails
  BY <1>4, EarlyDataInv DEF WriteFails, Fail, End, outside, SyncedStages
<1>5. CASE SourceCheck("writeRecheck", "sync", "Write", TRUE)
  <2>1. CASE pc' = "done"
    BY <1>5, <2>1, EarlyDataInv DEF SourceCheck, Go, Fail, End, outside, data, SyncedStages
  <2>2. CASE pc' = "sync"
    <3>1. pc = "writeRecheck" /\ ~altered /\ UNCHANGED ImageData
      BY <1>5, <2>2 DEF SourceCheck, Go, Fail, End, outside, data
    <3>2. \A i \in Chunks : written[i] = "new"
      BY <3>1 DEF DataInv, Faithful, Filled
    <3>3. Faithful' /\ Filled'
      BY <2>2, <3>1, <3>2 DEF Faithful, Filled, Chunks
    <3>4. Synced' /\ Agreed'
      BY <2>2 DEF Synced, Agreed, AfterTheSync, VerifiedTargetHoldsTheImage
    <3> QED
      BY <3>3, <3>4 DEF DataInv
  <2> QED
    BY <1>5, <2>1, <2>2 DEF SourceCheck, Go, Fail, End
<1>6. CASE SyncThread
  <2>1. CASE pc' = "done"
    BY <1>6, <2>1, EarlyDataInv DEF SyncThread, Go, Fail, End, outside, data, SyncedStages
  <2>2. CASE pc' = "syncHere"
    <3>1. pc = "sync" /\ UNCHANGED ImageData
      BY <1>6, <2>2 DEF SyncThread, Go, Fail, End, outside, data
    <3>2. Faithful' /\ Filled'
      BY <2>2, <3>1 DEF DataInv, Faithful, Filled, Chunks
    <3>3. Synced' /\ Agreed'
      BY <2>2 DEF Synced, Agreed, AfterTheSync, VerifiedTargetHoldsTheImage
    <3> QED
      BY <3>2, <3>3 DEF DataInv
  <2> QED
    BY <1>6, <2>1, <2>2 DEF SyncThread, Go, Fail, End
<1>7. CASE Sync
  <2>1. /\ pc \in {"sync", "syncHere"} /\ pc' = "afterSync"
        /\ UNCHANGED <<request, altered, written>>
    BY <1>7 DEF Sync, Go, outside
  <2>2. PICK lost \in SUBSET {i \in Chunks : written[i] # "none"} :
          media' = [i \in Chunks |-> IF i \in lost THEN "bad"
                                     ELSE IF written[i] # "none" THEN written[i] ELSE media[i]]
    BY <1>7 DEF Sync
  <2>3. \A i \in Chunks : written[i] = "new"
    BY <2>1 DEF DataInv, Filled
  <2>4. \A i \in Chunks : media'[i] \in {"bad", "new"}
    BY <2>2, <2>3
  <2>5. Chunks' = Chunks
    BY <2>1 DEF Chunks
  <2>6. Faithful' /\ Synced'
    BY <2>1, <2>3, <2>4, <2>5 DEF Faithful, Synced, Stored
  <2>7. Filled' /\ Agreed'
    BY <2>1 DEF Filled, Agreed, AfterTheSync, VerifiedTargetHoldsTheImage
  <2> QED
    BY <2>6, <2>7 DEF DataInv
<1>8. CASE SyncFails
  BY <1>8, EarlyDataInv DEF SyncFails, Fail, End, outside, data, SyncedStages
<1>9. CASE AfterSync
  BY <1>9, LateDataInv DEF AfterSync, Go, Cancelled, End, outside, data, AfterTheSync
<1> QED
  BY <1>1, <1>2, <1>3, <1>4, <1>5, <1>6, <1>7, <1>8, <1>9 DEF Write

LEMMA ComparedAreChunks ==
  ASSUME TypeOK, request.size > 0
  PROVE  Compared \subseteq Nat \ {0}
<1>1. request.size \in Nat
  BY OperationAssumption DEF TypeOK, Requests
<1>2. request.size \div 2 \in Nat
  BY <1>1
<1> QED
  BY <1>1, <1>2 DEF Compared, Chunks

LEMMA VerifyDataInv ==
  ASSUME TypeInv, ProgressInv, DataInv, Verify
  PROVE  DataInv'
<1> USE DEF ImageData
<1>0. pc \in AfterTheSync => Compared \subseteq Nat \ {0} /\ pos \in Nat
  BY ComparedAreChunks, OperationAssumption
  DEF TypeInv, TypeOK, Sized, Planned, AfterTheSync, Requests
<1>1. CASE BeforeVerify \/ CheckTarget \/ OpenVerify
           \/ BindFd("bindVerify", "verifySource", "VerifyStart", TRUE)
  <2>1. /\ pc \in {"verifyPause", "verifySeq", "openVerify", "bindVerify"}
        /\ pos' = pos /\ UNCHANGED ImageData
        /\ \/ pc' \in {"verify", "openVerify", "bindVerify", "verifySource"}
           \/ pc' = "done" /\ outcome'.stage # "Verified"
    BY <1>1 DEF BeforeVerify, CheckTarget, OpenVerify, BindFd, Judge, Go, Fail, Cancelled, End,
                outside, data
  <2>2. pos = 0
    BY <2>1 DEF DataInv, Agreed, AfterTheSync
  <2> QED
    BY <2>1, <2>2, LateDataInv DEF AfterTheSync
<1>2. ASSUME pc \in AfterTheSync, pc' = "done", outcome'.stage = "Verify", UNCHANGED ImageData
      PROVE  DataInv'
  BY <1>2, LateDataInv
\* A step within Verify, before the last check of the source.
<1>3. ASSUME pc \in {"verifySource", "verifyCheck", "verifyChunk"},
             pc' \in {"verifyCheck", "verifyChunk", "verifyRecheck"}, UNCHANGED ImageData,
             pc' \in {"verifyCheck", "verifyChunk"} /\ ~altered =>
               \A i \in Compared : i <= pos' => Holds(i),
             pc' = "verifyRecheck" /\ ~altered => \A i \in Compared : Holds(i)
      PROVE  DataInv'
  <2>1. Chunks' = Chunks /\ Compared' = Compared /\ \A i : Holds(i)' <=> Holds(i)
    BY <1>3 DEF Chunks, Compared, Holds
  <2>2. Faithful' /\ Synced'
    BY <1>3, <2>1 DEF DataInv, Faithful, Synced, Stored, AfterTheSync
  <2>3. Filled' /\ Agreed'
    BY <1>3, <2>1 DEF Filled, Agreed, AfterTheSync, VerifiedTargetHoldsTheImage
  <2> QED
    BY <2>2, <2>3 DEF DataInv
<1>4. CASE SourceCheck("verifySource", "verifyCheck", "Verify", TRUE)
  <2>1. /\ pc = "verifySource" /\ pc' \in {"verifyCheck", "done"} /\ pos' = pos
        /\ pc' = "done" => outcome'.stage = "Verify"
        /\ UNCHANGED ImageData
    BY <1>4 DEF SourceCheck, Go, Fail, End, outside, data
  <2>2. pos = 0 /\ Compared \subseteq Nat \ {0}
    BY <1>0, <2>1 DEF DataInv, Agreed, AfterTheSync
  <2>3. \A i \in Compared : ~(i <= pos')
    BY <2>1, <2>2
  <2> QED
    BY <1>2, <1>3, <2>1, <2>3 DEF AfterTheSync
<1>5. CASE VerifyCheck
  <2>1. /\ pc = "verifyCheck" /\ pc' \in {"verifyRecheck", "verifyChunk", "done"} /\ pos' = pos
        /\ pc' = "done" => outcome'.stage = "Verify"
        /\ pc' = "verifyRecheck" => Remaining = {}
        /\ UNCHANGED ImageData
    BY <1>5 DEF VerifyCheck, Go, Cancelled, End, outside, data
  <2>2. ~altered => \A i \in Compared : i <= pos => Holds(i)
    BY <2>1 DEF DataInv, Agreed
  <2>3. pc' = "verifyRecheck" => \A i \in Compared : i <= pos
    BY <1>0, <2>1 DEF Remaining, AfterTheSync
  <2> QED
    BY <1>2, <1>3, <2>1, <2>2, <2>3 DEF AfterTheSync
<1>6. CASE VerifyChunk
  <2>1. /\ pc = "verifyChunk" /\ pc' = "verifyCheck" /\ UNCHANGED ImageData
    BY <1>6 DEF VerifyChunk, Go, outside, data
  <2>2. PICK i \in Remaining, c \in SourceReads :
          /\ \A j \in Remaining : i <= j
          /\ TargetReads(i) = c
          /\ pos' = i
    BY <1>6 DEF VerifyChunk
  <2>3. ~altered => Holds(i)
    BY <2>2 DEF SourceReads, TargetReads, Holds
  <2>4. ~altered => \A j \in Compared : j <= pos => Holds(j)
    BY <2>1 DEF DataInv, Agreed
  <2>5. \A j \in Compared : j <= pos' => j <= pos \/ j = i
    BY <1>0, <2>1, <2>2 DEF Remaining, AfterTheSync
  <2> QED
    BY <1>3, <2>1, <2>3, <2>4, <2>5
<1>7. CASE VerifyFails
  BY <1>2, <1>7 DEF VerifyFails, Fail, End, outside, data, AfterTheSync
<1>8. CASE VerifyRecheck
  <2>1. /\ pc = "verifyRecheck" /\ pc' = "done" /\ UNCHANGED ImageData
        /\ \/ ~altered /\ outcome'.stage = "Verified"
           \/ outcome'.stage = "Verify"
    BY <1>8 DEF VerifyRecheck, Fail, End, outside, data
  <2>2. CASE outcome'.stage = "Verify"
    BY <1>2, <2>1, <2>2 DEF AfterTheSync
  <2>3. CASE ~altered
    <3>1. \A i \in Compared : Holds(i)
      BY <2>1, <2>3 DEF DataInv, Agreed
    <3>2. Chunks' = Chunks /\ Compared' = Compared /\ \A i : Holds(i)' <=> Holds(i)
      BY <2>1 DEF Chunks, Compared, Holds
    <3>3. Agreed'
      BY <2>1, <3>1, <3>2 DEF Agreed, AfterTheSync, VerifiedTargetHoldsTheImage, Holds
    <3>4. Faithful' /\ Filled' /\ Synced'
      BY <2>1, <3>2 DEF DataInv, Faithful, Filled, Synced, Stored, AfterTheSync
    <3> QED
      BY <3>3, <3>4 DEF DataInv
  <2> QED
    BY <2>1, <2>2, <2>3
<1> QED
  BY <1>1, <1>4, <1>5, <1>6, <1>7, <1>8 DEF Verify

LEMMA EnvironmentDataInv ==
  ASSUME TypeInv, DataInv, Environment \/ UNCHANGED vars
  PROVE  DataInv'
<1>1. CASE DeviceChanges \/ AlterSource \/ RequestCancel \/ UNCHANGED vars
  <2>1. /\ UNCHANGED <<request, pc, pos, written, media, overwritten, outcome>>
        /\ altered' = altered \/ altered' = TRUE
    BY <1>1 DEF DeviceChanges, AlterSource, RequestCancel, vars, outside, operation, data
  <2>2. Chunks' = Chunks /\ Compared' = Compared /\ \A i : Holds(i)' <=> Holds(i)
    BY <2>1 DEF Chunks, Compared, Holds
  <2>3. Faithful' /\ Filled' /\ Synced'
    BY <2>1, <2>2 DEF DataInv, Faithful, Filled, Synced, Stored
  <2>4. Agreed'
    BY <2>1, <2>2 DEF DataInv, Agreed, VerifiedTargetHoldsTheImage
  <2> QED
    BY <2>3, <2>4 DEF DataInv
<1>2. CASE ForeignWrite
  <2>1. pc # "done" /\ UNCHANGED <<request, pc, pos, altered, written, outcome>>
    BY <1>2 DEF ForeignWrite, Running, outside
  <2>2. PICK i \in Chunks \ overwritten :
          /\ media' = [media EXCEPT ![i] = "bad"]
          /\ overwritten' = overwritten \cup {i}
    BY <1>2 DEF ForeignWrite
  <2>3. Chunks' = Chunks /\ Compared' = Compared
    BY <2>1 DEF Chunks, Compared
  <2>4. /\ media \in [Chunks -> {"old", "new", "other", "bad"}]
        /\ \A j : media'[j] = media[j] \/ j = i
        /\ media'[i] = "bad"
    BY <2>2 DEF TypeInv, TypeOK
  <2>5. \A j : Holds(j) => Holds(j)'
    BY <2>2, <2>4 DEF Holds
  <2>6. Faithful' /\ Filled' /\ Synced'
    BY <2>1, <2>3, <2>4 DEF DataInv, Faithful, Filled, Synced, Stored
  <2>7. Agreed'
    BY <2>1, <2>3, <2>5 DEF DataInv, Agreed, VerifiedTargetHoldsTheImage
  <2> QED
    BY <2>6, <2>7 DEF DataInv
<1> QED
  BY <1>1, <1>2 DEF Environment

LEMMA AlwaysDataInv == Spec => []DataInv
<1>1. Init => DataInv
  BY InitDataInv
<1>2. TypeInv /\ ProgressInv /\ DataInv /\ [Next]_vars => DataInv'
  BY PreparationDataInv, WriteDataInv, VerifyDataInv, EnvironmentDataInv DEF Next, Step
<1> QED
  BY <1>1, <1>2, AlwaysTypeInv, AlwaysProgressInv, PTL DEF Spec

\* Whatever becomes of the file while it is read, an operation that got past sync has
\* written all of the image that was opened (WritingExecution::write's two checks).
THEOREM TheSyncedImageIsTheSelectedOne == Spec => []SyncedImageIsTheSelectedOne
<1>1. DataInv => SyncedImageIsTheSelectedOne
  BY DEF DataInv, Synced, Stored, SyncedImageIsTheSelectedOne
<1> QED
  BY <1>1, AlwaysDataInv, PTL

\* A success of Verify is true of the medium, for images of any size
\* (run_full_verify, run_quick_verify, Verifying::run's last check).
THEOREM VerifiedTargetsHoldTheImage == Spec => []VerifiedTargetHoldsTheImage
<1>1. DataInv => VerifiedTargetHoldsTheImage
  BY DEF DataInv, Agreed
<1> QED
  BY <1>1, AlwaysDataInv, PTL

-----------------------------------------------------------------------------
(* What the user is told at the end.  Where an operation ended says how far *)
(* it had come, so the four groups of ends carry the facts that the marks,  *)
(* the message and the next action are about.                               *)

Verifies == {"verifyPause", "verify", "verifySeq", "openVerify", "bindVerify", "verifySource",
             "verifyCheck", "verifyChunk", "verifyRecheck"}

EndedAtPrepare ==
  /\ \/ Ended("Cancelled", {"Preflight", "BeforeConfirmation", "Confirmation"})
     \/ Ended("Failed", {"Target", "Image", "Confirmation"})
  /\ ~confirmed /\ ~outcome.modified

EndedAtGate ==
  /\ Ended("Failed", {"WriteGate", "WriteDeviceRejected", "ReaderOpen"})
  /\ confirmed /\ ~outcome.modified

EndedAtWrite ==
  /\ \/ Ended("Cancelled", {"Write"})
     \/ Ended("Failed", {"Write", "Sync", "SyncWorkerPanicked"})
  /\ confirmed

EndedAtVerify ==
  /\ \/ Ended("Completed", {"Verified"}) /\ request.mode # "None"
     \/ Ended("Completed", {"Skipped"})
     \/ Ended("Cancelled", {"AfterSync", "BeforeVerify", "Verify"})
     \/ Ended("Failed", {"TestPauseEnded", "VerifyTarget", "VerifyStart", "Verify"})
  /\ confirmed

EndInv ==
  /\ pc \in BeforeAnswer => ~confirmed
  /\ pc \notin BeforeAnswer \cup {"done"} => confirmed
  /\ pc \in Verifies => request.mode # "None"
  /\ pc = "done" => EndedAtPrepare \/ EndedAtGate \/ EndedAtWrite \/ EndedAtVerify

LEMMA FetchSnapshotEndInv ==
  ASSUME TypeInv, EndInv, FetchSnapshot
  PROVE  EndInv'
<1> USE DEF EndInv, EndedAtPrepare, EndedAtGate, EndedAtWrite, EndedAtVerify, Ended, BeforeAnswer,
        Verifies
<1>1. CASE \E here \in {"list", "select", "reselect", "recheck"}, there \in {"listSeq", "selectSeq", "reselectSeq", "recheckSeq"} : FetchTree(here, there)
  BY <1>1
  DEF FetchTree, Go, Fail, Cancelled, End, outside, selection, consent, data, TypeInv, TypeOK
<1>2. CASE FetchTree("gate", "gateSeq") \/ FetchTree("verify", "verifySeq")
  BY <1>2
  DEF FetchTree, Go, Fail, Cancelled, End, outside, selection, consent, data, TypeInv, TypeOK
<1>3. CASE FetchFails("select", "Target", FALSE) \/ FetchFails("reselect", "Target", FALSE)
  BY <1>3
  DEF FetchFails, Go, Fail, Cancelled, End, outside, selection, consent, data, TypeInv, TypeOK
<1>4. CASE FetchFails("recheck", "Image", FALSE) \/ FetchFails("gate", "WriteGate", FALSE)
  BY <1>4
  DEF FetchFails, Go, Fail, Cancelled, End, outside, selection, consent, data, TypeInv, TypeOK
<1>5. CASE FetchFails("verify", "VerifyTarget", TRUE)
  BY <1>5
  DEF FetchFails, Go, Fail, Cancelled, End, outside, selection, consent, data, TypeInv, TypeOK
<1> QED
  BY <1>1, <1>2, <1>3, <1>4, <1>5 DEF FetchSnapshot

LEMMA PrepareEndInv ==
  ASSUME TypeInv, EndInv, Prepare
  PROVE  EndInv'
<1> USE DEF EndInv, EndedAtPrepare, EndedAtGate, EndedAtWrite, EndedAtVerify, Ended, BeforeAnswer,
        Verifies
<1>1. CASE List
  BY <1>1
  DEF List, Go, Fail, Cancelled, End, outside, selection, consent, data, TypeInv, TypeOK
<1>2. CASE Select
  BY <1>2
  DEF Select, Judge, Go, Fail, Cancelled, End, outside, selection, consent, data, TypeInv, TypeOK
<1>3. CASE Revalidate("reselectSeq", "image", "Target")
  BY <1>3
  DEF Revalidate, Judge, Go, Fail, Cancelled, End, outside, selection, consent, data, TypeInv, TypeOK
<1>4. CASE OpenImage
  BY <1>4
  DEF OpenImage, Go, Fail, Cancelled, End, outside, selection, consent, data, TypeInv, TypeOK
<1>5. CASE Preflight
  BY <1>5
  DEF Preflight, Go, Fail, Cancelled, End, outside, selection, consent, data, TypeInv, TypeOK
<1>6. CASE Revalidate("recheckSeq", "ready", "Image")
  BY <1>6
  DEF Revalidate, Judge, Go, Fail, Cancelled, End, outside, selection, consent, data, TypeInv, TypeOK
<1>7. CASE RequestConfirmation
  BY <1>7
  DEF RequestConfirmation, Go, Fail, Cancelled, End, outside, selection, consent, data, TypeInv, TypeOK
<1>8. CASE ConfirmationCancelled
  BY <1>8
  DEF ConfirmationCancelled, Go, Fail, Cancelled, End, outside, selection, consent, data, TypeInv, TypeOK
<1> QED
  BY <1>1, <1>2, <1>3, <1>4, <1>5, <1>6, <1>7, <1>8 DEF Prepare

LEMMA AnswerEndInv ==
  ASSUME TypeInv, EndInv, Answer
  PROVE  EndInv'
<1> USE DEF EndInv, EndedAtPrepare, EndedAtGate, EndedAtWrite, EndedAtVerify, Ended, BeforeAnswer,
        Verifies
<1>1. CASE Confirm
  BY <1>1
  DEF Confirm, Go, Fail, Cancelled, End, outside, selection, consent, data, TypeInv, TypeOK
<1>2. CASE Refuse
  BY <1>2
  DEF Refuse, Go, Fail, Cancelled, End, outside, selection, consent, data, TypeInv, TypeOK
<1> QED
  BY <1>1, <1>2 DEF Answer

LEMMA AuthorizeEndInv ==
  ASSUME TypeInv, EndInv, Authorize
  PROVE  EndInv'
<1> USE DEF EndInv, EndedAtPrepare, EndedAtGate, EndedAtWrite, EndedAtVerify, Ended, BeforeAnswer,
        Verifies
<1>1. CASE WriteGate
  BY <1>1
  DEF WriteGate, Judge, Go, Fail, Cancelled, End, outside, selection, consent, data, TypeInv, TypeOK
<1>2. CASE OpenWrite
  BY <1>2
  DEF OpenWrite, Go, Fail, Cancelled, End, outside, selection, consent, data, TypeInv, TypeOK
<1>3. CASE BindFd("bind", "begin", "WriteDeviceRejected", FALSE)
  BY <1>3
  DEF BindFd, Judge, Go, Fail, Cancelled, End, outside, selection, consent, data, TypeInv, TypeOK
<1>4. CASE BeginWrite
  BY <1>4
  DEF BeginWrite, Go, Fail, Cancelled, End, outside, selection, consent, data, TypeInv, TypeOK
<1> QED
  BY <1>1, <1>2, <1>3, <1>4 DEF Authorize

LEMMA WriteEndInv ==
  ASSUME TypeInv, EndInv, Write
  PROVE  EndInv'
<1> USE DEF EndInv, EndedAtPrepare, EndedAtGate, EndedAtWrite, EndedAtVerify, Ended, BeforeAnswer,
        Verifies
<1>1. CASE SourceCheck("writeSource", "writeCheck", "Write", FALSE)
  BY <1>1
  DEF SourceCheck, Go, Fail, Cancelled, End, outside, selection, consent, data, TypeInv, TypeOK
<1>2. CASE WriteCheck
  BY <1>2
  DEF WriteCheck, Go, Fail, Cancelled, End, outside, selection, consent, data, TypeInv, TypeOK
<1>3. CASE WriteChunk
  BY <1>3
  DEF WriteChunk, Go, Fail, Cancelled, End, outside, selection, consent, data, TypeInv, TypeOK
<1>4. CASE WriteFails
  BY <1>4
  DEF WriteFails, Go, Fail, Cancelled, End, outside, selection, consent, data, TypeInv, TypeOK
<1>5. CASE SourceCheck("writeRecheck", "sync", "Write", TRUE)
  BY <1>5
  DEF SourceCheck, Go, Fail, Cancelled, End, outside, selection, consent, data, TypeInv, TypeOK
<1>6. CASE SyncThread
  BY <1>6
  DEF SyncThread, Go, Fail, Cancelled, End, outside, selection, consent, data, TypeInv, TypeOK
<1>7. CASE Sync
  BY <1>7
  DEF Sync, Go, Fail, Cancelled, End, outside, selection, consent, data, TypeInv, TypeOK
<1>8. CASE SyncFails
  BY <1>8
  DEF SyncFails, Go, Fail, Cancelled, End, outside, selection, consent, data, TypeInv, TypeOK
<1>9. CASE AfterSync
  BY <1>9
  DEF AfterSync, Go, Fail, Cancelled, End, outside, selection, consent, data, TypeInv, TypeOK
<1> QED
  BY <1>1, <1>2, <1>3, <1>4, <1>5, <1>6, <1>7, <1>8, <1>9 DEF Write

LEMMA VerifyEndInv ==
  ASSUME TypeInv, EndInv, Verify
  PROVE  EndInv'
<1> USE DEF EndInv, EndedAtPrepare, EndedAtGate, EndedAtWrite, EndedAtVerify, Ended, BeforeAnswer,
        Verifies
<1>1. CASE BeforeVerify
  BY <1>1
  DEF BeforeVerify, Go, Fail, Cancelled, End, outside, selection, consent, data, TypeInv, TypeOK
<1>2. CASE CheckTarget
  BY <1>2
  DEF CheckTarget, Judge, Go, Fail, Cancelled, End, outside, selection, consent, data, TypeInv, TypeOK
<1>3. CASE OpenVerify
  BY <1>3
  DEF OpenVerify, Go, Fail, Cancelled, End, outside, selection, consent, data, TypeInv, TypeOK
<1>4. CASE BindFd("bindVerify", "verifySource", "VerifyStart", TRUE)
  BY <1>4
  DEF BindFd, Judge, Go, Fail, Cancelled, End, outside, selection, consent, data, TypeInv, TypeOK
<1>5. CASE SourceCheck("verifySource", "verifyCheck", "Verify", TRUE)
  BY <1>5
  DEF SourceCheck, Go, Fail, Cancelled, End, outside, selection, consent, data, TypeInv, TypeOK
<1>6. CASE VerifyCheck
  BY <1>6
  DEF VerifyCheck, Go, Fail, Cancelled, End, outside, selection, consent, data, TypeInv, TypeOK
<1>7. CASE VerifyChunk
  BY <1>7
  DEF VerifyChunk, Go, Fail, Cancelled, End, outside, selection, consent, data, TypeInv, TypeOK
<1>8. CASE VerifyFails
  BY <1>8
  DEF VerifyFails, Go, Fail, Cancelled, End, outside, selection, consent, data, TypeInv, TypeOK
<1>9. CASE VerifyRecheck
  BY <1>9
  DEF VerifyRecheck, Go, Fail, Cancelled, End, outside, selection, consent, data, TypeInv, TypeOK
<1> QED
  BY <1>1, <1>2, <1>3, <1>4, <1>5, <1>6, <1>7, <1>8, <1>9 DEF Verify

LEMMA EnvironmentEndInv ==
  ASSUME TypeInv, EndInv, Environment
  PROVE  EndInv'
<1> USE DEF EndInv, EndedAtPrepare, EndedAtGate, EndedAtWrite, EndedAtVerify, Ended, BeforeAnswer,
        Verifies
<1>1. CASE DeviceChanges
  BY <1>1
  DEF DeviceChanges, operation, Go, Fail, Cancelled, End, outside, selection, consent, data, TypeInv, TypeOK
<1>2. CASE AlterSource
  BY <1>2
  DEF AlterSource, operation, Go, Fail, Cancelled, End, outside, selection, consent, data, TypeInv, TypeOK
<1>3. CASE RequestCancel
  BY <1>3
  DEF RequestCancel, operation, Go, Fail, Cancelled, End, outside, selection, consent, data, TypeInv, TypeOK
<1>4. CASE ForeignWrite
  BY <1>4
  DEF ForeignWrite, Go, Fail, Cancelled, End, outside, selection, consent, data, TypeInv, TypeOK
<1> QED
  BY <1>1, <1>2, <1>3, <1>4 DEF Environment

LEMMA AlwaysEndInv == Spec => []EndInv
<1>1. Init => EndInv
  BY DEF Init, EndInv, BeforeAnswer, Verifies
<1>2. TypeInv /\ EndInv /\ [Next]_vars => EndInv'
  <2> SUFFICES ASSUME TypeInv, EndInv, [Next]_vars PROVE EndInv'
    OBVIOUS
  <2>1. CASE UNCHANGED vars
    BY <2>1
    DEF vars, outside, operation, selection, consent, data, EndInv, EndedAtPrepare, EndedAtGate,
        EndedAtWrite, EndedAtVerify, Ended
  <2>2. CASE Next
    BY <2>2, FetchSnapshotEndInv, PrepareEndInv, AnswerEndInv, AuthorizeEndInv, WriteEndInv,
       VerifyEndInv, EnvironmentEndInv
    DEF Next, Step
  <2> QED
    BY <2>1, <2>2
<1> QED
  BY <1>1, <1>2, AlwaysTypeInv, PTL DEF Spec

LEMMA EndedTruthfully ==
  ASSUME EndInv, UnmodifiedMeansUntouched, SyncedImageIsTheSelectedOne,
         VerifiedTargetHoldsTheImage
  PROVE  ResultIsTrue
<1> SUFFICES ASSUME pc = "done" PROVE ResultIsTrue
  BY DEF ResultIsTrue
<1>0. EndedAtPrepare \/ EndedAtGate \/ EndedAtWrite \/ EndedAtVerify
  BY DEF EndInv
<1>1. CASE EndedAtPrepare
  <2>1. Ending \in {"CancelledBeforeWrite", "ConfirmationDeclined", "NotPrepared"}
    BY <1>1 DEF EndedAtPrepare, Ended, Ending
  <2>2. Printed \in {"NothingWritten", "Error"}
    BY <1>1 DEF EndedAtPrepare, Ended, Printed
  <2>3. /\ Marks.prepare # "Done" /\ Marks.write = "Waiting" /\ Marks.verify # "Done"
        /\ Message = "NothingWritten" /\ NextAction = "BackToMain"
    BY <2>1 DEF Marks, Marked, Message, NextAction, VerifyWaiting
  <2>4. ~confirmed /\ touched = {}
    BY <1>1 DEF EndedAtPrepare, UnmodifiedMeansUntouched
  <2> QED
    BY <2>2, <2>3, <2>4 DEF ResultIsTrue, WriteShownAsDone
<1>2. CASE EndedAtGate
  <2>1. Ending = "NotStarted"
    BY <1>2 DEF EndedAtGate, Ended, Ending
  <2>2. Printed \in {"NothingWritten", "Error"}
    BY <1>2 DEF EndedAtGate, Ended, Printed
  <2>3. /\ Marks.prepare = "Done" /\ Marks.write = "Failed" /\ Marks.verify # "Done"
        /\ Message = "NothingWritten" /\ NextAction = "BackToMain"
    BY <2>1 DEF Marks, Marked, Message, NextAction, VerifyWaiting
  <2>4. confirmed /\ touched = {}
    BY <1>2 DEF EndedAtGate, UnmodifiedMeansUntouched
  <2> QED
    BY <2>2, <2>3, <2>4 DEF ResultIsTrue, WriteShownAsDone
<1>3. CASE EndedAtWrite
  <2>1. Ending \in {"CancelledDuringWrite", "WriteFailed"}
    BY <1>3 DEF EndedAtWrite, Ended, Ending
  <2>2. Printed \in {"Incomplete", "NothingWritten", "Error"}
    BY <1>3 DEF EndedAtWrite, Ended, Printed
  <2>3. Printed = "NothingWritten" => ~outcome.modified
    BY <1>3 DEF EndedAtWrite, Ended, Printed
  <2>4. /\ Marks.prepare = "Done" /\ Marks.write \in {"Cancelled", "Failed"}
        /\ Marks.verify # "Done"
    <3>1. CASE Ending = "CancelledDuringWrite"
      BY <3>1 DEF Marks, Marked, VerifyWaiting
    <3>2. CASE Ending = "WriteFailed"
      BY <3>2 DEF Marks, Marked, VerifyWaiting
    <3> QED
      BY <2>1, <3>1, <3>2
  <2>5. /\ Message \in {"Incomplete", "NothingWritten"} /\ NextAction = "Retry"
        /\ Message = "NothingWritten" => ~outcome.modified
    BY <2>1 DEF Message, NextAction
  <2>6. confirmed /\ (~outcome.modified => touched = {})
    BY <1>3 DEF EndedAtWrite, UnmodifiedMeansUntouched
  <2> QED
    BY <2>2, <2>3, <2>4, <2>5, <2>6 DEF ResultIsTrue, WriteShownAsDone
<1>4. CASE EndedAtVerify
  <2>1. Ending \in {"Verified", "WrittenWithoutVerify", "CancelledDuringVerify", "VerifyFailed"}
    BY <1>4 DEF EndedAtVerify, Ended, Ending
  <2>2. Printed # "NothingWritten"
    BY <1>4 DEF EndedAtVerify, Ended, Printed
  <2>3. /\ Marks.prepare = "Done" /\ Marks.write = "Done"
        /\ Message \in {"Ready", "Written"}
        /\ NextAction # "BackToMain"
        /\ Message = "Ready" \/ Marks.verify = "Done" => Ending = "Verified"
    BY <2>1 DEF Marks, Marked, Message, NextAction
  <2>4. confirmed /\ ImageIsStored
    BY <1>4 DEF EndedAtVerify, Ended, SyncedImageIsTheSelectedOne, SyncedStages, ImageIsStored
  <2>5. Ending = "Verified" => Ended("Completed", {"Verified"}) /\ request.mode # "None"
    BY <1>4 DEF EndedAtVerify, Ended, Ending
  <2>6. Ending = "Verified" => \A i \in Compared : media[i] = "new" \/ i \in overwritten
    BY <2>5 DEF Ended, VerifiedTargetHoldsTheImage
  <2> QED
    BY <2>2, <2>3, <2>4, <2>5, <2>6 DEF ResultIsTrue
<1> QED
  BY <1>0, <1>1, <1>2, <1>3, <1>4

\* Whatever way the operation ends, what the result view and the command line say of
\* the drive is true of it (ending, marks, result_message, print_write_test_outcome).
THEOREM TheUserIsToldTheTruth == Spec => []ResultIsTrue
<1>1. /\ EndInv /\ UnmodifiedMeansUntouched /\ SyncedImageIsTheSelectedOne
         /\ VerifiedTargetHoldsTheImage
      => ResultIsTrue
  BY EndedTruthfully
<1> QED
  BY <1>1, AlwaysEndInv, UnmodifiedOutcomesAreTrue, TheSyncedImageIsTheSelectedOne,
     VerifiedTargetsHoldTheImage, PTL

-----------------------------------------------------------------------------
(* The operation keeps the contract of SafeWrite.  Until sync succeeds the  *)
(* medium is as it was, so the first byte makes the target partial and sync *)
(* replaces it; every other step leaves the target's condition and the      *)
(* consent alone, and what it reports, if it ends, is among what the        *)
(* contract allows.                                                         *)

NotSynced == BeforeWrite \cup {"writeCheck", "writeChunk", "writeRecheck", "sync", "syncHere"}

MediaInv == pc \in NotSynced => \A i \in Chunks : media[i] = "old"

\* A step the contract sees at most as a report.
Quiet ==
  /\ pc # "done"
  /\ UNCHANGED <<request, touched, media, confirmed>>
  /\ pc' \in NotSynced => pc \in NotSynced
  /\ pc' = "done" /\ outcome'.kind = "Completed" => pc \in Written

LEMMA FetchSnapshotIsQuiet ==
  ASSUME FetchSnapshot
  PROVE  Quiet
<1> USE DEF Quiet, NotSynced, BeforeWrite, BeforeAnswer, Written
<1>1. CASE FetchTree("list", "listSeq") \/ FetchTree("select", "selectSeq")
  BY <1>1
  DEF FetchTree, Go, Fail, Cancelled, End, outside, operation, selection, consent, data
<1>2. CASE FetchTree("reselect", "reselectSeq") \/ FetchTree("recheck", "recheckSeq")
  BY <1>2
  DEF FetchTree, Go, Fail, Cancelled, End, outside, operation, selection, consent, data
<1>3. CASE FetchTree("gate", "gateSeq") \/ FetchTree("verify", "verifySeq")
  BY <1>3
  DEF FetchTree, Go, Fail, Cancelled, End, outside, operation, selection, consent, data
<1>4. CASE FetchFails("select", "Target", FALSE) \/ FetchFails("reselect", "Target", FALSE)
  BY <1>4
  DEF FetchFails, Go, Fail, Cancelled, End, outside, operation, selection, consent, data
<1>5. CASE FetchFails("recheck", "Image", FALSE) \/ FetchFails("gate", "WriteGate", FALSE)
  BY <1>5
  DEF FetchFails, Go, Fail, Cancelled, End, outside, operation, selection, consent, data
<1>6. CASE FetchFails("verify", "VerifyTarget", TRUE)
  BY <1>6
  DEF FetchFails, Go, Fail, Cancelled, End, outside, operation, selection, consent, data
<1> QED
  BY <1>1, <1>2, <1>3, <1>4, <1>5, <1>6 DEF FetchSnapshot

LEMMA PrepareIsQuiet ==
  ASSUME Prepare
  PROVE  Quiet
<1> USE DEF Quiet, NotSynced, BeforeWrite, BeforeAnswer, Written
<1>1. CASE List
  BY <1>1
  DEF List, Go, Fail, Cancelled, End, outside, operation, selection, consent, data
<1>2. CASE Select
  BY <1>2
  DEF Select, Judge, Go, Fail, Cancelled, End, outside, operation, selection, consent, data
<1>3. CASE Revalidate("reselectSeq", "image", "Target")
  BY <1>3
  DEF Revalidate, Judge, Go, Fail, Cancelled, End, outside, operation, selection, consent, data
<1>4. CASE OpenImage
  BY <1>4
  DEF OpenImage, Go, Fail, Cancelled, End, outside, operation, selection, consent, data
<1>5. CASE Preflight
  BY <1>5
  DEF Preflight, Go, Fail, Cancelled, End, outside, operation, selection, consent, data
<1>6. CASE Revalidate("recheckSeq", "ready", "Image")
  BY <1>6
  DEF Revalidate, Judge, Go, Fail, Cancelled, End, outside, operation, selection, consent, data
<1>7. CASE RequestConfirmation
  BY <1>7
  DEF RequestConfirmation, Go, Fail, Cancelled, End, outside, operation, selection, consent, data
<1>8. CASE ConfirmationCancelled
  BY <1>8
  DEF ConfirmationCancelled, Go, Fail, Cancelled, End, outside, operation, selection, consent, data
<1> QED
  BY <1>1, <1>2, <1>3, <1>4, <1>5, <1>6, <1>7, <1>8 DEF Prepare

LEMMA AuthorizeIsQuiet ==
  ASSUME Authorize
  PROVE  Quiet
<1> USE DEF Quiet, NotSynced, BeforeWrite, BeforeAnswer, Written
<1>1. CASE WriteGate
  BY <1>1
  DEF WriteGate, Judge, Go, Fail, Cancelled, End, outside, operation, selection, consent, data
<1>2. CASE OpenWrite
  BY <1>2
  DEF OpenWrite, Go, Fail, Cancelled, End, outside, operation, selection, consent, data
<1>3. CASE BindFd("bind", "begin", "WriteDeviceRejected", FALSE)
  BY <1>3
  DEF BindFd, Judge, Go, Fail, Cancelled, End, outside, operation, selection, consent, data
<1>4. CASE BeginWrite
  BY <1>4
  DEF BeginWrite, Go, Fail, Cancelled, End, outside, operation, selection, consent, data
<1> QED
  BY <1>1, <1>2, <1>3, <1>4 DEF Authorize

LEMMA VerifyIsQuiet ==
  ASSUME Verify
  PROVE  Quiet
<1> USE DEF Quiet, NotSynced, BeforeWrite, BeforeAnswer, Written
<1>1. CASE BeforeVerify
  BY <1>1
  DEF BeforeVerify, Go, Fail, Cancelled, End, outside, operation, selection, consent, data
<1>2. CASE CheckTarget
  BY <1>2
  DEF CheckTarget, Judge, Go, Fail, Cancelled, End, outside, operation, selection, consent, data
<1>3. CASE OpenVerify
  BY <1>3
  DEF OpenVerify, Go, Fail, Cancelled, End, outside, operation, selection, consent, data
<1>4. CASE BindFd("bindVerify", "verifySource", "VerifyStart", TRUE)
  BY <1>4
  DEF BindFd, Judge, Go, Fail, Cancelled, End, outside, operation, selection, consent, data
<1>5. CASE SourceCheck("verifySource", "verifyCheck", "Verify", TRUE)
  BY <1>5
  DEF SourceCheck, Go, Fail, Cancelled, End, outside, operation, selection, consent, data
<1>6. CASE VerifyCheck
  BY <1>6
  DEF VerifyCheck, Go, Fail, Cancelled, End, outside, operation, selection, consent, data
<1>7. CASE VerifyChunk
  BY <1>7
  DEF VerifyChunk, Go, Fail, Cancelled, End, outside, operation, selection, consent, data
<1>8. CASE VerifyFails
  BY <1>8
  DEF VerifyFails, Go, Fail, Cancelled, End, outside, operation, selection, consent, data
<1>9. CASE VerifyRecheck
  BY <1>9
  DEF VerifyRecheck, Go, Fail, Cancelled, End, outside, operation, selection, consent, data
<1> QED
  BY <1>1, <1>2, <1>3, <1>4, <1>5, <1>6, <1>7, <1>8, <1>9 DEF Verify

LEMMA WriteIsQuiet ==
  ASSUME Write, ~WriteChunk, ~WriteFails, ~Sync
  PROVE  Quiet
<1> USE DEF Quiet, NotSynced, BeforeWrite, BeforeAnswer, Written
<1>1. CASE SourceCheck("writeSource", "writeCheck", "Write", FALSE)
  BY <1>1
  DEF SourceCheck, Go, Fail, Cancelled, End, outside, operation, selection, consent, data
<1>2. CASE WriteCheck
  BY <1>2
  DEF WriteCheck, Go, Fail, Cancelled, End, outside, operation, selection, consent, data
<1>3. CASE SourceCheck("writeRecheck", "sync", "Write", TRUE)
  BY <1>3
  DEF SourceCheck, Go, Fail, Cancelled, End, outside, operation, selection, consent, data
<1>4. CASE SyncThread
  BY <1>4
  DEF SyncThread, Go, Fail, Cancelled, End, outside, operation, selection, consent, data
<1>5. CASE SyncFails
  BY <1>5
  DEF SyncFails, Go, Fail, Cancelled, End, outside, operation, selection, consent, data
<1>6. CASE AfterSync
  BY <1>6
  DEF AfterSync, Go, Fail, Cancelled, End, outside, operation, selection, consent, data
<1> QED
  BY <1>1, <1>2, <1>3, <1>4, <1>5, <1>6 DEF Write

LEMMA OthersAreQuiet ==
  ASSUME Refuse \/ DeviceChanges \/ AlterSource \/ RequestCancel
  PROVE  Quiet
<1> USE DEF Quiet, NotSynced, BeforeWrite, BeforeAnswer, Written
<1>1. CASE Refuse
  BY <1>1
  DEF Refuse, Go, Fail, Cancelled, End, outside, operation, selection, consent, data
<1>2. CASE DeviceChanges
  BY <1>2
  DEF DeviceChanges, Running, Go, Fail, Cancelled, End, outside, operation, selection, consent, data
<1>3. CASE AlterSource
  BY <1>3
  DEF AlterSource, Running, Go, Fail, Cancelled, End, outside, operation, selection, consent, data
<1>4. CASE RequestCancel
  BY <1>4
  DEF RequestCancel, Running, Go, Fail, Cancelled, End, outside, operation, selection, consent, data
<1> QED
  BY <1>1, <1>2, <1>3, <1>4

LEMMA StepKinds ==
  ASSUME Next
  PROVE  Quiet \/ Confirm \/ WriteChunk \/ WriteFails \/ Sync \/ ForeignWrite
BY FetchSnapshotIsQuiet, PrepareIsQuiet, AuthorizeIsQuiet, VerifyIsQuiet, WriteIsQuiet,
   OthersAreQuiet
DEF Next, Step, Answer, Environment

\* Another program can write only when the operation's own descriptor is closed.
LEMMA ForeignComesLate ==
  ASSUME TypeInv, SafetyInv, Exclusive, ForeignWrite
  PROVE  pc \in AfterTheSync
<1>1. pc \in PCs \ {"done"} /\ fd.access # "write" /\ touched # {}
  BY DEF ForeignWrite, Running, TypeInv, TypeOK
<1>2. pc \notin BeforeWrite
  BY <1>1 DEF SafetyInv, OneInstance
<1>3. pc \notin Holding
  BY <1>1 DEF Exclusive
<1> QED
  BY <1>1, <1>2, <1>3 DEF PCs, BeforeWrite, BeforeAnswer, Holding, AfterTheSync

LEMMA NextMediaInv ==
  ASSUME TypeInv, SafetyInv, Exclusive, MediaInv, [Next]_vars
  PROVE  MediaInv'
<1> USE DEF MediaInv
<1>1. CASE UNCHANGED vars
  BY <1>1 DEF vars, operation, data, Chunks
<1>2. CASE Quiet
  BY <1>2 DEF Quiet, Chunks
<1>3. CASE Confirm
  BY <1>3 DEF Confirm, Go, data, NotSynced, BeforeWrite, BeforeAnswer, Chunks
<1>4. CASE WriteChunk \/ WriteFails
  BY <1>4 DEF WriteChunk, WriteFails, Go, Fail, End, NotSynced, BeforeWrite, BeforeAnswer, Chunks
<1>5. CASE Sync
  BY <1>5 DEF Sync, Go, NotSynced, BeforeWrite, BeforeAnswer
<1>6. CASE ForeignWrite
  BY <1>6, ForeignComesLate
  DEF ForeignWrite, NotSynced, BeforeWrite, BeforeAnswer, AfterTheSync
<1> QED
  BY <1>1, <1>2, <1>3, <1>4, <1>5, <1>6, StepKinds

LEMMA AlwaysMediaInv == Spec => []MediaInv
<1>1. Init => MediaInv
  BY DEF Init, MediaInv
<1>2. TypeInv /\ SafetyInv /\ Exclusive /\ MediaInv /\ [Next]_vars => MediaInv'
  BY NextMediaInv
<1> QED
  BY <1>1, <1>2, AlwaysTypeInv, AlwaysSafetyInv, AlwaysExclusive, PTL DEF Spec

Allowed == Contract!ContractNext \/ UNCHANGED Contract!contractVars

LEMMA ConditionKept ==
  ASSUME UNCHANGED <<request, touched, media>>
  PROVE  Condition' = Condition
BY DEF Condition, Chunks

\* What an operation that ends says of a target it leaves alone.
LEMMA ReportIsAllowed ==
  ASSUME TypeInv', ProgressInv, ProgressInv', DataInv', EndInv', Quiet, pc' = "done"
  PROVE  Allowed
<1>1. Reported = "none" /\ confirmed' = confirmed /\ Condition' = Condition
  BY ConditionKept DEF Quiet, Reported
<1>2. Reported' \in Contract!MayReport(Condition)
  <2>1. CASE outcome'.kind = "Completed"
    <3>1. touched # {}
      BY <2>1 DEF Quiet, ProgressInv, Counted
    <3>2. outcome'.stage \in SyncedStages
      BY <2>1 DEF EndInv, EndedAtPrepare, EndedAtGate, EndedAtWrite, EndedAtVerify, Ended,
                  SyncedStages
    <3>3. \A i \in Chunks : media[i] # "old"
      BY <3>2 DEF DataInv, Synced, Stored, Quiet, Chunks
    <3> QED
      BY <2>1, <3>1, <3>3 DEF Reported, Condition, Contract!MayReport
  <2>2. CASE outcome'.kind # "Completed" /\ outcome'.modified
    <3>1. Reported' = "modified"
      BY <2>2 DEF Reported
    <3> QED
      BY <3>1 DEF Condition, Contract!MayReport
  <2>3. CASE outcome'.kind # "Completed" /\ ~outcome'.modified
    <3>1. Reported' = "unmodified"
      BY <2>3 DEF Reported
    <3>2. touched = {}
      BY <2>3 DEF ProgressInv, UnmodifiedMeansUntouched, Quiet
    <3> QED
      BY <3>1, <3>2 DEF Condition, Contract!MayReport
  <2> QED
    BY <2>1, <2>2, <2>3
<1> QED
  BY <1>1, <1>2 DEF Allowed, Contract!ContractNext, Contract!Report

LEMMA StepIsAllowed ==
  ASSUME TypeInv, SafetyInv, ProgressInv, DataInv, EndInv, MediaInv, Exclusive,
         TypeInv', ProgressInv', DataInv', EndInv', [Next]_vars
  PROVE  Allowed
<1>1. CASE UNCHANGED vars
  BY <1>1
  DEF vars, outside, operation, selection, consent, data, Allowed, Contract!contractVars,
      Condition, Reported, Chunks
<1>2. CASE Quiet
  <2>1. CASE pc' = "done"
    BY <1>2, <2>1, ReportIsAllowed
  <2>2. CASE pc' # "done"
    BY <1>2, <2>2, ConditionKept DEF Quiet, Reported, Allowed, Contract!contractVars
  <2> QED
    BY <2>1, <2>2
<1>3. CASE Confirm
  <2>1. /\ pc = "confirm" /\ pc' = "gate" /\ confirmed' = TRUE
        /\ UNCHANGED <<request, touched, media>>
    BY <1>3 DEF Confirm, Go, data
  <2>2. touched = {}
    BY <2>1 DEF SafetyInv, OneInstance, BeforeWrite, BeforeAnswer
  <2>3. Condition = "untouched" /\ Condition' = "untouched"
    BY <2>1, <2>2 DEF Condition
  <2>4. Reported = "none" /\ Reported' = "none"
    BY <2>1 DEF Reported
  <2> QED
    BY <2>1, <2>3, <2>4 DEF Allowed, Contract!ContractNext, Contract!GiveConsent
<1>4. ASSUME pc = "writeChunk" PROVE /\ confirmed /\ Reported = "none"
                                     /\ \E i \in Chunks : media[i] = "old"
  <2>1. confirmed /\ Reported = "none"
    BY <1>4 DEF EndInv, BeforeAnswer, Reported
  <2>2. request.size \in Nat /\ request.size > 0
    BY <1>4, OperationAssumption DEF TypeInv, TypeOK, Requests, Sized, Planned
  <2>3. 1 \in Chunks
    BY <2>2 DEF Chunks
  <2> QED
    BY <1>4, <2>1, <2>3 DEF MediaInv, NotSynced
<1>5. CASE WriteChunk
  <2>1. /\ pc = "writeChunk" /\ pc' = "writeCheck" /\ touched' # {}
        /\ UNCHANGED <<request, media, confirmed>>
    BY <1>5 DEF WriteChunk, Go, consent
  <2>2. Condition' = "partial" /\ Reported' = "none"
    BY <1>4, <2>1 DEF Condition, Reported, Chunks
  <2>3. Condition = IF touched = {} THEN "untouched" ELSE "partial"
    BY <1>4, <2>1 DEF Condition
  <2> QED
    BY <1>4, <2>1, <2>2, <2>3
    DEF Allowed, Contract!ContractNext, Contract!Progress, Contract!contractVars
<1>6. CASE WriteFails
  <2>1. /\ pc = "writeChunk" /\ pc' = "done" /\ touched \subseteq touched'
        /\ UNCHANGED <<request, media, confirmed>>
        /\ outcome'.kind = "Failed"
    BY <1>6 DEF WriteFails, Fail, End, consent
  <2>2. Reported' = IF outcome'.modified THEN "modified" ELSE "unmodified"
    BY <2>1 DEF Reported
  <2>3. ~outcome'.modified => touched' = {}
    BY <2>1 DEF ProgressInv, UnmodifiedMeansUntouched
  <2>4. Condition = IF touched = {} THEN "untouched" ELSE "partial"
    BY <1>4, <2>1 DEF Condition
  <2>5. Condition' = IF touched' = {} THEN "untouched" ELSE "partial"
    BY <1>4, <2>1 DEF Condition, Chunks
  <2>6. Reported' \in Contract!MayReport(Condition')
    BY <2>2, <2>3, <2>5 DEF Contract!MayReport
  <2>7. CASE touched = touched'
    BY <1>4, <2>1, <2>4, <2>5, <2>6, <2>7
    DEF Allowed, Contract!ContractNext, Contract!Report
  <2>8. CASE touched = {} /\ touched' # {}
    BY <1>4, <2>1, <2>4, <2>5, <2>6, <2>8
    DEF Allowed, Contract!ContractNext, Contract!Progress
  <2>9. CASE touched # {} /\ touched' # {}
    BY <1>4, <2>1, <2>4, <2>5, <2>6, <2>9
    DEF Allowed, Contract!ContractNext, Contract!Report
  <2> QED
    BY <2>1, <2>7, <2>8, <2>9
<1>7. CASE Sync
  <2>1. /\ pc \in {"sync", "syncHere"} /\ pc' = "afterSync"
        /\ UNCHANGED <<request, touched, confirmed>>
    BY <1>7 DEF Sync, Go, consent
  <2>2. confirmed /\ Reported = "none" /\ Reported' = "none"
    BY <2>1 DEF EndInv, BeforeAnswer, Reported
  <2>3. touched # {} /\ (\A i \in Chunks : media[i] = "old")
    BY <2>1 DEF ProgressInv, Counted, Written, MediaInv, NotSynced
  <2>4. \A i \in Chunks' : media'[i] # "old"
    BY <2>1 DEF DataInv, Synced, Stored, AfterTheSync
  <2>5. Condition' = "replaced"
    BY <2>1, <2>3, <2>4 DEF Condition
  <2>6. Condition \in {"partial", "replaced"}
    BY <2>3 DEF Condition
  <2> QED
    BY <2>1, <2>2, <2>5, <2>6
    DEF Allowed, Contract!ContractNext, Contract!Progress, Contract!contractVars
<1>8. CASE ForeignWrite
  <2>1. /\ touched # {} /\ pc # "done" /\ UNCHANGED <<pc, request, touched, confirmed>>
        /\ pc \in AfterTheSync
    BY <1>8, ForeignComesLate DEF ForeignWrite, Running, consent
  <2>2. /\ \A i \in Chunks : media[i] # "old"
        /\ \A i \in Chunks' : media'[i] # "old"
    BY <2>1 DEF DataInv, Synced, Stored
  <2>3. Condition = "replaced" /\ Condition' = "replaced"
    BY <2>1, <2>2 DEF Condition
  <2> QED
    BY <2>1, <2>3 DEF Reported, Allowed, Contract!contractVars
<1> QED
  BY <1>1, <1>2, <1>3, <1>5, <1>6, <1>7, <1>8, StepKinds

\* The operation implements its contract for every image and every history of the
\* device: no byte before the consent, one report, and a true one (run_on).
THEOREM TheContractIsKept == Spec => KeepsTheContract
<1>1. Init => Contract!ContractInit
  BY DEF Init, Contract!ContractInit, Condition, Reported
<1>2. /\ TypeInv /\ SafetyInv /\ ProgressInv /\ DataInv /\ EndInv /\ MediaInv /\ Exclusive
      /\ TypeInv' /\ ProgressInv' /\ DataInv' /\ EndInv' /\ [Next]_vars
      => [Contract!ContractNext]_(Contract!contractVars)
  BY StepIsAllowed DEF Allowed
<1> QED
  BY <1>1, <1>2, AlwaysTypeInv, AlwaysSafetyInv, AlwaysProgressInv, AlwaysDataInv, AlwaysEndInv,
     AlwaysMediaInv, AlwaysExclusive, PTL
  DEF Spec, KeepsTheContract, Contract!ContractSpec

-----------------------------------------------------------------------------
(* The course of the operation.                                            *)

OnCourse == [Course!CourseNext]_(Course!courseVars)

\* run_on goes on: to the next step of its part, or to the next part.
LEMMA GoesOn ==
  ASSUME NEW next, Go(next), UNCHANGED cancel
  PROVE  pc' = next /\ UNCHANGED <<cancel, EndedAs>>
  BY DEF Go, EndedAs

\* It ends, and the outcome is one that its part has.
LEMMA FailsInPart ==
  ASSUME NEW stage, NEW modified, Fail(stage, modified), UNCHANGED cancel,
         Place \in Course!Parts, AsError(stage) \in Course!Failures[Place]
  PROVE  OnCourse
<1>1. /\ Place' = "over"
      /\ EndedAs' = [kind |-> "Failed", stage |-> AsError(stage)]
  BY DEF Fail, End, Place, EndedAs
<1> QED
  BY <1>1 DEF OnCourse, Course!CourseNext, Course!FailAt, Course!EndWith

LEMMA CancelledInPart ==
  ASSUME NEW stage, NEW modified, Cancelled(stage, modified), UNCHANGED cancel,
         cancel \/ Place = "confirm",
         Place \in Course!Parts, AsError(stage) = stage, stage \in Course!CancelPoints[Place]
  PROVE  OnCourse
<1>1. /\ Place' = "over"
      /\ EndedAs' = [kind |-> "Cancelled", stage |-> stage]
  BY DEF Cancelled, End, Place, EndedAs
<1> QED
  BY <1>1 DEF OnCourse, Course!CourseNext, Course!CancelAt, Course!EndWith

LEMMA CompletedInPart ==
  ASSUME NEW stage, NEW modified, End("Completed", stage, modified), UNCHANGED cancel,
         \/ Place = "sync" /\ ~cancel /\ stage = "Skipped"
         \/ Place = "verify" /\ stage = "Verified"
  PROVE  OnCourse
<1>1. /\ Place' = "over"
      /\ EndedAs' = [kind |-> "Completed", stage |-> stage]
  BY DEF End, Place, EndedAs, AsError
<1> QED
  BY <1>1 DEF OnCourse, Course!CourseNext, Course!Complete, Course!EndWith

\* Within a part nothing of the course changes.
LEMMA StaysInPart ==
  ASSUME UNCHANGED <<cancel, EndedAs>>, Place' = Place
  PROVE  OnCourse
  BY DEF OnCourse, Course!courseVars

LEMMA NextPart ==
  ASSUME UNCHANGED <<cancel, EndedAs>>, Place \in DOMAIN Course!Following,
         Place \in Course!Polling => ~cancel, Place' = Course!Following[Place]
  PROVE  OnCourse
  BY DEF OnCourse, Course!CourseNext, Course!Proceed

LEMMA JudgedInPart ==
  ASSUME NEW ok, NEW next, NEW stage, NEW modified, Judge(ok, next, stage, modified),
         UNCHANGED cancel, Place \in Course!Parts, AsError(stage) \in Course!Failures[Place],
         pc' = next => Place' = Place
  PROVE  OnCourse
<1>1. CASE Go(next)
  BY <1>1, GoesOn, StaysInPart
<1>2. CASE Fail(stage, modified)
  BY <1>2, FailsInPart
<1> QED
  BY <1>1, <1>2 DEF Judge

\* What belongs to which part.
LEMMA Endings ==
  /\ Course!Parts = {"prepare", "confirm", "authorize", "write", "sync", "verify"}
  /\ DOMAIN Course!Following = Course!Parts \ {"verify"}
  /\ Course!Following["prepare"] = "confirm" /\ Course!Following["confirm"] = "authorize"
  /\ Course!Following["authorize"] = "write" /\ Course!Following["write"] = "sync"
  /\ Course!Following["sync"] = "verify"
  /\ Course!Failures["prepare"] = {"Target", "Image"}
  /\ "Confirmation" \in Course!Failures["confirm"]
  /\ {"WriteGate", "WriteDeviceRejected", "ReaderOpen"} \subseteq Course!Failures["authorize"]
  /\ Course!Failures["write"] = {"Write"}
  /\ Course!Failures["sync"] = {"Sync", "SyncWorkerPanicked"}
  /\ Course!Failures["verify"] = {"VerifyNotStarted", "Verify"}
  /\ Course!CancelPoints["prepare"] = {"Preflight", "BeforeConfirmation"}
  /\ Course!CancelPoints["confirm"] = {"Confirmation"}
  /\ Course!CancelPoints["write"] = {"Write"}
  /\ Course!CancelPoints["sync"] = {"AfterSync"}
  /\ Course!CancelPoints["verify"] = {"BeforeVerify", "Verify"}
  BY DEF Course!Parts, Course!Following, Course!Failures, Course!CancelPoints

LEMMA FetchSnapshotKeepsCourse ==
  ASSUME FetchSnapshot
  PROVE  OnCourse
<1>1. UNCHANGED cancel
  BY DEF FetchSnapshot, FetchTree, FetchFails, outside
<1>2. CASE \/ FetchTree("list", "listSeq") \/ FetchTree("select", "selectSeq")
           \/ FetchTree("reselect", "reselectSeq") \/ FetchTree("recheck", "recheckSeq")
           \/ FetchTree("gate", "gateSeq") \/ FetchTree("verify", "verifySeq")
  BY <1>1, <1>2, StaysInPart DEF FetchTree, Go, Place, EndedAs
<1>3. CASE FetchFails("select", "Target", FALSE) \/ FetchFails("reselect", "Target", FALSE)
  BY <1>1, <1>3, FailsInPart, Endings DEF FetchFails, Place, AsError
<1>4. CASE FetchFails("recheck", "Image", FALSE)
  BY <1>1, <1>4, FailsInPart, Endings DEF FetchFails, Place, AsError
<1>5. CASE FetchFails("gate", "WriteGate", FALSE)
  BY <1>1, <1>5, FailsInPart, Endings DEF FetchFails, Place, AsError
<1>6. CASE FetchFails("verify", "VerifyTarget", TRUE)
  BY <1>1, <1>6, FailsInPart, Endings DEF FetchFails, Place, AsError
<1> QED
  BY <1>2, <1>3, <1>4, <1>5, <1>6 DEF FetchSnapshot

LEMMA PrepareKeepsCourse ==
  ASSUME Prepare
  PROVE  OnCourse
<1>1. UNCHANGED cancel
  BY DEF Prepare, List, Select, Revalidate, OpenImage, Preflight, RequestConfirmation,
     ConfirmationCancelled, outside
<1>2. CASE List
  BY <1>1, <1>2, StaysInPart DEF List, Go, Place, EndedAs
<1>3. CASE Select
  <2>1. pc = "selectSeq" /\ Place = "prepare"
    BY <1>3 DEF Select, Place
  <2>2. PICK ok : Judge(ok, "reselect", "Target", FALSE)
    BY <1>3 DEF Select
  <2>3. pc' = "reselect" => Place' = Place
    BY <2>1 DEF Place
  <2>4. AsError("Target") \in Course!Failures[Place] /\ Place \in Course!Parts
    BY <2>1, Endings DEF AsError
  <2> QED
    BY <1>1, <2>2, <2>3, <2>4, JudgedInPart
<1>4. CASE Revalidate("reselectSeq", "image", "Target")
  <2>1. pc = "reselectSeq" /\ Place = "prepare"
    BY <1>4 DEF Revalidate, Place
  <2>2. PICK ok : Judge(ok, "image", "Target", FALSE)
    BY <1>4 DEF Revalidate
  <2>3. pc' = "image" => Place' = Place
    BY <2>1 DEF Place
  <2>4. AsError("Target") \in Course!Failures[Place] /\ Place \in Course!Parts
    BY <2>1, Endings DEF AsError
  <2> QED
    BY <1>1, <2>2, <2>3, <2>4, JudgedInPart
<1>5. CASE OpenImage
  <2>1. pc = "image" /\ Place = "prepare"
    BY <1>5 DEF OpenImage, Place
  <2>2. CASE Go("ready") \/ Go("preflight")
    BY <1>1, <2>1, <2>2, GoesOn, StaysInPart DEF Place
  <2>3. CASE Fail("Image", FALSE)
    BY <1>1, <2>1, <2>3, FailsInPart, Endings DEF AsError
  <2> QED
    BY <1>5, <2>2, <2>3 DEF OpenImage
<1>6. CASE Preflight
  <2>1. pc = "preflight" /\ Place = "prepare"
    BY <1>6 DEF Preflight, Place
  <2>2. CASE Go("recheck")
    BY <1>1, <2>1, <2>2, GoesOn, StaysInPart DEF Place
  <2>3. CASE Fail("Image", FALSE)
    BY <1>1, <2>1, <2>3, FailsInPart, Endings DEF AsError
  <2>4. CASE cancel /\ Cancelled("Preflight", FALSE)
    BY <1>1, <2>1, <2>4, CancelledInPart, Endings DEF AsError
  <2> QED
    BY <1>6, <2>2, <2>3, <2>4 DEF Preflight
<1>7. CASE Revalidate("recheckSeq", "ready", "Image")
  <2>1. pc = "recheckSeq" /\ Place = "prepare"
    BY <1>7 DEF Revalidate, Place
  <2>2. PICK ok : Judge(ok, "ready", "Image", FALSE)
    BY <1>7 DEF Revalidate
  <2>3. pc' = "ready" => Place' = Place
    BY <2>1 DEF Place
  <2>4. AsError("Image") \in Course!Failures[Place] /\ Place \in Course!Parts
    BY <2>1, Endings DEF AsError
  <2> QED
    BY <1>1, <2>2, <2>3, <2>4, JudgedInPart
<1>8. CASE RequestConfirmation
  <2>1. pc = "ready" /\ Place = "prepare"
    BY <1>8 DEF RequestConfirmation, Place
  <2>2. CASE ~cancel /\ Go("confirm")
    BY <1>1, <2>1, <2>2, GoesOn, NextPart, Endings DEF Place
  <2>3. CASE cancel /\ Cancelled("BeforeConfirmation", FALSE)
    BY <1>1, <2>1, <2>3, CancelledInPart, Endings DEF AsError
  <2> QED
    BY <1>8, <2>2, <2>3 DEF RequestConfirmation
<1>9. CASE ConfirmationCancelled
  BY <1>1, <1>9, CancelledInPart, Endings DEF ConfirmationCancelled, Place, AsError
<1> QED
  BY <1>2, <1>3, <1>4, <1>5, <1>6, <1>7, <1>8, <1>9 DEF Prepare

LEMMA AnswerKeepsCourse ==
  ASSUME Answer
  PROVE  OnCourse
<1>1. UNCHANGED cancel /\ pc = "confirm" /\ Place = "confirm"
  BY DEF Answer, Confirm, Refuse, outside, Place
<1>2. CASE Confirm
  BY <1>1, <1>2, GoesOn, NextPart, Endings DEF Confirm, Place
<1>3. CASE Refuse
  BY <1>1, <1>3, FailsInPart, CancelledInPart, Endings DEF Refuse, AsError
<1> QED
  BY <1>2, <1>3 DEF Answer

LEMMA AuthorizeKeepsCourse ==
  ASSUME Authorize
  PROVE  OnCourse
<1>1. UNCHANGED cancel
  BY DEF Authorize, WriteGate, OpenWrite, BindFd, BeginWrite, outside
<1>2. CASE WriteGate
  <2>1. pc = "gateSeq" /\ Place = "authorize"
    BY <1>2 DEF WriteGate, Place
  <2>2. PICK ok : Judge(ok, "open", "WriteGate", FALSE)
    BY <1>2 DEF WriteGate
  <2>3. pc' = "open" => Place' = Place
    BY <2>1 DEF Place
  <2>4. AsError("WriteGate") \in Course!Failures[Place] /\ Place \in Course!Parts
    BY <2>1, Endings DEF AsError
  <2> QED
    BY <1>1, <2>2, <2>3, <2>4, JudgedInPart
<1>3. CASE OpenWrite
  <2>1. pc = "open" /\ Place = "authorize"
    BY <1>3 DEF OpenWrite, Place
  <2>2. CASE Go("bind")
    BY <1>1, <2>1, <2>2, GoesOn, StaysInPart DEF Place
  <2>3. CASE Fail("WriteDeviceRejected", FALSE)
    BY <1>1, <2>1, <2>3, FailsInPart, Endings DEF AsError
  <2> QED
    BY <1>3, <2>2, <2>3 DEF OpenWrite
<1>4. CASE BindFd("bind", "begin", "WriteDeviceRejected", FALSE)
  <2>1. pc = "bind" /\ Place = "authorize"
    BY <1>4 DEF BindFd, Place
  <2>2. PICK ok : Judge(ok, "begin", "WriteDeviceRejected", FALSE)
    BY <1>4 DEF BindFd
  <2>3. pc' = "begin" => Place' = Place
    BY <2>1 DEF Place
  <2>4. AsError("WriteDeviceRejected") \in Course!Failures[Place] /\ Place \in Course!Parts
    BY <2>1, Endings DEF AsError
  <2> QED
    BY <1>1, <2>2, <2>3, <2>4, JudgedInPart
<1>5. CASE BeginWrite
  <2>1. pc = "begin" /\ Place = "authorize"
    BY <1>5 DEF BeginWrite, Place
  <2>2. CASE Go("writeSource")
    BY <1>1, <2>1, <2>2, GoesOn, NextPart, Endings DEF Place, Course!Polling
  <2>3. CASE Fail("ReaderOpen", FALSE)
    BY <1>1, <2>1, <2>3, FailsInPart, Endings DEF AsError
  <2> QED
    BY <1>5, <2>2, <2>3 DEF BeginWrite
<1> QED
  BY <1>2, <1>3, <1>4, <1>5 DEF Authorize

LEMMA WriteKeepsCourse ==
  ASSUME Write
  PROVE  OnCourse
<1>1. UNCHANGED cancel
  BY DEF Write, SourceCheck, WriteCheck, WriteChunk, WriteFails, SyncThread, Sync, SyncFails,
     AfterSync, outside
<1>2. CASE SourceCheck("writeSource", "writeCheck", "Write", FALSE)
  <2>1. pc = "writeSource" /\ Place = "write"
    BY <1>2 DEF SourceCheck, Place
  <2>2. CASE Go("writeCheck")
    BY <1>1, <2>1, <2>2, GoesOn, StaysInPart DEF Place
  <2>3. CASE Fail("Write", FALSE)
    BY <1>1, <2>1, <2>3, FailsInPart, Endings DEF AsError
  <2> QED
    BY <1>2, <2>2, <2>3 DEF SourceCheck
<1>3. CASE WriteCheck
  <2>1. pc = "writeCheck" /\ Place = "write"
    BY <1>3 DEF WriteCheck, Place
  <2>2. CASE Go("writeRecheck") \/ Go("writeChunk")
    BY <1>1, <2>1, <2>2, GoesOn, StaysInPart DEF Place
  <2>3. CASE cancel /\ Cancelled("Write", pos > 0)
    BY <1>1, <2>1, <2>3, CancelledInPart, Endings DEF AsError
  <2> QED
    BY <1>3, <2>2, <2>3 DEF WriteCheck
<1>4. CASE WriteChunk
  BY <1>1, <1>4, GoesOn, StaysInPart DEF WriteChunk, Go, Place
<1>5. CASE WriteFails
  <2>1. pc = "writeChunk" /\ Place = "write"
    BY <1>5 DEF WriteFails, Place
  <2>2. Fail("Write", TRUE) \/ Fail("Write", pos > 0)
    BY <1>5 DEF WriteFails
  <2> QED
    BY <1>1, <2>1, <2>2, FailsInPart, Endings DEF AsError
<1>6. CASE SourceCheck("writeRecheck", "sync", "Write", TRUE)
  <2>1. pc = "writeRecheck" /\ Place = "write"
    BY <1>6 DEF SourceCheck, Place
  <2>2. CASE Go("sync")
    BY <1>1, <2>1, <2>2, GoesOn, NextPart, Endings DEF Place, Course!Polling
  <2>3. CASE Fail("Write", TRUE)
    BY <1>1, <2>1, <2>3, FailsInPart, Endings DEF AsError
  <2> QED
    BY <1>6, <2>2, <2>3 DEF SourceCheck
<1>7. CASE SyncThread \/ Sync \/ SyncFails
  <2>1. pc \in {"sync", "syncHere"} /\ Place = "sync"
    BY <1>7 DEF SyncThread, Sync, SyncFails, Place
  <2>2. CASE Go("syncHere") \/ Go("afterSync")
    BY <1>1, <2>1, <2>2, GoesOn, StaysInPart DEF Place
  <2>3. CASE Fail("SyncWorkerPanicked", TRUE) \/ Fail("Sync", TRUE)
    BY <1>1, <2>1, <2>3, FailsInPart, Endings DEF AsError
  <2> QED
    BY <1>7, <2>2, <2>3 DEF SyncThread, Sync, SyncFails
<1>8. CASE AfterSync
  <2>1. pc = "afterSync" /\ Place = "sync"
    BY <1>8 DEF AfterSync, Place
  <2>2. CASE ~cancel /\ Go("verifyPause")
    BY <1>1, <2>1, <2>2, GoesOn, NextPart, Endings DEF Place
  <2>3. CASE cancel /\ Cancelled("AfterSync", TRUE)
    BY <1>1, <2>1, <2>3, CancelledInPart, Endings DEF AsError
  <2>4. CASE ~cancel /\ End("Completed", "Skipped", TRUE)
    BY <1>1, <2>1, <2>4, CompletedInPart
  <2> QED
    BY <1>8, <2>2, <2>3, <2>4 DEF AfterSync
<1> QED
  BY <1>2, <1>3, <1>4, <1>5, <1>6, <1>7, <1>8 DEF Write

LEMMA VerifyKeepsCourse ==
  ASSUME Verify
  PROVE  OnCourse
<1>1. UNCHANGED cancel
  BY DEF Verify, BeforeVerify, CheckTarget, OpenVerify, BindFd, SourceCheck, VerifyCheck,
     VerifyChunk, VerifyFails, VerifyRecheck, outside
<1>2. CASE BeforeVerify
  <2>1. pc = "verifyPause" /\ Place = "verify"
    BY <1>2 DEF BeforeVerify, Place
  <2>2. CASE Go("verify")
    BY <1>1, <2>1, <2>2, GoesOn, StaysInPart DEF Place
  <2>3. CASE Fail("TestPauseEnded", TRUE)
    BY <1>1, <2>1, <2>3, FailsInPart, Endings DEF AsError
  <2>4. CASE cancel /\ Cancelled("BeforeVerify", TRUE)
    BY <1>1, <2>1, <2>4, CancelledInPart, Endings DEF AsError
  <2> QED
    BY <1>2, <2>2, <2>3, <2>4 DEF BeforeVerify
<1>3. CASE CheckTarget
  <2>1. pc = "verifySeq" /\ Place = "verify"
    BY <1>3 DEF CheckTarget, Place
  <2>2. PICK ok : Judge(ok, "openVerify", "VerifyTarget", TRUE)
    BY <1>3 DEF CheckTarget
  <2>3. pc' = "openVerify" => Place' = Place
    BY <2>1 DEF Place
  <2>4. AsError("VerifyTarget") \in Course!Failures[Place] /\ Place \in Course!Parts
    BY <2>1, Endings DEF AsError
  <2> QED
    BY <1>1, <2>2, <2>3, <2>4, JudgedInPart
<1>4. CASE OpenVerify
  <2>1. pc = "openVerify" /\ Place = "verify"
    BY <1>4 DEF OpenVerify, Place
  <2>2. CASE Go("bindVerify")
    BY <1>1, <2>1, <2>2, GoesOn, StaysInPart DEF Place
  <2>3. CASE Fail("VerifyStart", TRUE)
    BY <1>1, <2>1, <2>3, FailsInPart, Endings DEF AsError
  <2> QED
    BY <1>4, <2>2, <2>3 DEF OpenVerify
<1>5. CASE BindFd("bindVerify", "verifySource", "VerifyStart", TRUE)
  <2>1. pc = "bindVerify" /\ Place = "verify"
    BY <1>5 DEF BindFd, Place
  <2>2. PICK ok : Judge(ok, "verifySource", "VerifyStart", TRUE)
    BY <1>5 DEF BindFd
  <2>3. pc' = "verifySource" => Place' = Place
    BY <2>1 DEF Place
  <2>4. AsError("VerifyStart") \in Course!Failures[Place] /\ Place \in Course!Parts
    BY <2>1, Endings DEF AsError
  <2> QED
    BY <1>1, <2>2, <2>3, <2>4, JudgedInPart
<1>6. CASE SourceCheck("verifySource", "verifyCheck", "Verify", TRUE)
  <2>1. pc = "verifySource" /\ Place = "verify"
    BY <1>6 DEF SourceCheck, Place
  <2>2. CASE Go("verifyCheck")
    BY <1>1, <2>1, <2>2, GoesOn, StaysInPart DEF Place
  <2>3. CASE Fail("Verify", TRUE)
    BY <1>1, <2>1, <2>3, FailsInPart, Endings DEF AsError
  <2> QED
    BY <1>6, <2>2, <2>3 DEF SourceCheck
<1>7. CASE VerifyCheck
  <2>1. pc = "verifyCheck" /\ Place = "verify"
    BY <1>7 DEF VerifyCheck, Place
  <2>2. CASE Go("verifyRecheck") \/ Go("verifyChunk")
    BY <1>1, <2>1, <2>2, GoesOn, StaysInPart DEF Place
  <2>3. CASE cancel /\ Cancelled("Verify", TRUE)
    BY <1>1, <2>1, <2>3, CancelledInPart, Endings DEF AsError
  <2> QED
    BY <1>7, <2>2, <2>3 DEF VerifyCheck
<1>8. CASE VerifyChunk
  BY <1>1, <1>8, GoesOn, StaysInPart DEF VerifyChunk, Go, Place
<1>9. CASE VerifyFails \/ VerifyRecheck
  <2>1. Place = "verify"
    BY <1>9 DEF VerifyFails, VerifyRecheck, Place
  <2>2. CASE Fail("Verify", TRUE)
    BY <1>1, <2>1, <2>2, FailsInPart, Endings DEF AsError
  <2>3. CASE End("Completed", "Verified", TRUE)
    BY <1>1, <2>1, <2>3, CompletedInPart
  <2> QED
    BY <1>9, <2>2, <2>3 DEF VerifyFails, VerifyRecheck
<1> QED
  BY <1>2, <1>3, <1>4, <1>5, <1>6, <1>7, <1>8, <1>9 DEF Verify

LEMMA EnvironmentKeepsCourse ==
  ASSUME Environment
  PROVE  OnCourse
<1>1. UNCHANGED <<pc, outcome>> /\ (cancel' = TRUE \/ UNCHANGED cancel)
  BY DEF Environment, DeviceChanges, AlterSource, RequestCancel, ForeignWrite, operation, outside
<1>2. UNCHANGED <<Place, EndedAs>>
  BY <1>1 DEF Place, EndedAs
<1> QED
  BY <1>1, <1>2 DEF OnCourse, Course!CourseNext, Course!AskToCancel, Course!courseVars

LEMMA StepKeepsCourse ==
  ASSUME [Next]_vars
  PROVE  OnCourse
<1>1. CASE UNCHANGED vars
  BY <1>1 DEF vars, operation, outside, Place, EndedAs, OnCourse, Course!courseVars
<1> QED
  BY <1>1, FetchSnapshotKeepsCourse, PrepareKeepsCourse, AuthorizeKeepsCourse, WriteKeepsCourse,
     VerifyKeepsCourse, AnswerKeepsCourse, EnvironmentKeepsCourse
  DEF Next, Step

\* The steps of run_on go through its parts in their order, and end where a part may
\* end, whatever device, file and user do meanwhile (run_on, OperationOutcome).
THEOREM TheCourseIsKept == Spec => KeepsItsCourse
<1>1. Init => Course!CourseInit
  BY OperationAssumption DEF Init, Requests, Place, EndedAs, AsError, Course!CourseInit, Course!NoEnding
<1>2. [Next]_vars => [Course!CourseNext]_(Course!courseVars)
  BY StepKeepsCourse DEF OnCourse
<1> QED
  BY <1>1, <1>2, PTL DEF Spec, KeepsItsCourse, Course!CourseSpec

\* Cancelled before the answer was taken, with the target as it was.
Spared == cancel /\ touched = {} /\ Place \in Course!Harmless \cup {"over"}

\* No step writes then, nor opens the target, nor brings the write nearer.
LEMMA SparedStays ==
  ASSUME TypeInv, SafetyInv, Exclusive, Spared, [Next]_vars
  PROVE  Spared'
<1>1. cancel' /\ Place' \in Course!Harmless \cup {"over"}
  BY StepKeepsCourse
  DEF Spared, OnCourse, Course!CourseNext, Course!courseVars, Course!Proceed, Course!Complete,
      Course!FailAt, Course!CancelAt, Course!BreakOff, Course!AskToCancel, Course!EndWith,
      Course!Following, Course!Parts, Course!Polling, Course!Harmless
<1>2. pc \in BeforeAnswer \cup {"done"}
  BY DEF TypeInv, TypeOK, Spared, Place, PCs, Course!Harmless, BeforeAnswer
<1>3. UNCHANGED touched
  <2>1. CASE UNCHANGED vars
    BY <2>1 DEF vars, operation, data
  <2>2. CASE Quiet \/ Confirm
    BY <2>2 DEF Quiet, Confirm, data
  <2>3. ~WriteChunk /\ ~WriteFails /\ ~Sync
    BY <1>2 DEF WriteChunk, WriteFails, Sync, BeforeAnswer
  <2>4. CASE ForeignWrite
    BY <2>4 DEF ForeignWrite
  <2> QED
    BY <2>1, <2>2, <2>3, <2>4, StepKinds
<1> QED
  BY <1>1, <1>3 DEF Spared

\* A cancellation that was requested before the answer was taken is in time: not a byte
\* is ever written, whatever else happens (run_on, request_confirmation).
THEOREM EarlyCancelsSpareTheTarget == Spec => EarlyCancelSparesTheTarget
<1>1. TypeInv /\ SafetyInv /\ cancel /\ Place \in Course!Harmless => Spared
  <2> SUFFICES ASSUME TypeInv, SafetyInv, cancel, Place \in Course!Harmless PROVE Spared
    OBVIOUS
  <2>1. pc \in BeforeWrite
    BY DEF TypeInv, TypeOK, Place, PCs, Course!Harmless, BeforeWrite, BeforeAnswer
  <2> QED
    BY <2>1 DEF Spared, SafetyInv, OneInstance
<1>2. TypeInv /\ SafetyInv /\ Exclusive /\ Spared /\ [Next]_vars => Spared'
  BY SparedStays
<1>3. Spared => touched = {} /\ Place \in Course!Harmless \cup {"over"}
  BY DEF Spared
<1> QED
  BY <1>1, <1>2, <1>3, AlwaysTypeInv, AlwaysSafetyInv, AlwaysExclusive, PTL
  DEF Spec, EarlyCancelSparesTheTarget

\* Neither the device, the file nor an operation that ended by itself is reported as a
\* cancellation (OperationOutcome::Cancelled).
THEOREM CancellationsHaveAReason == Spec => []Course!CancelledForAReason
<1>1. Course!CourseInit => Course!CancelledForAReason
  BY DEF Course!CourseInit, Course!NoEnding, Course!CancelledForAReason
<1>2. Course!CancelledForAReason /\ [Course!CourseNext]_(Course!courseVars)
      => Course!CancelledForAReason'
  BY DEF Course!CourseNext, Course!courseVars, Course!Proceed, Course!Complete, Course!FailAt,
     Course!CancelAt, Course!BreakOff, Course!AskToCancel, Course!EndWith, Course!Parts,
     Course!CancelPoints, Course!Following, Course!CancelledForAReason
<1> QED
  BY <1>1, <1>2, TheCourseIsKept, PTL DEF KeepsItsCourse, Course!CourseSpec

-----------------------------------------------------------------------------
(* Every step of the operation counts.                                     *)

LEMMA Numbers ==
  /\ Order \in [PCs -> 0 .. 33]
  /\ Order["list"] = 33 /\ Order["listSeq"] = 32 /\ Order["select"] = 31
  /\ Order["selectSeq"] = 30 /\ Order["reselect"] = 29 /\ Order["reselectSeq"] = 28
  /\ Order["image"] = 27 /\ Order["preflight"] = 26 /\ Order["recheck"] = 25
  /\ Order["recheckSeq"] = 24 /\ Order["ready"] = 23 /\ Order["confirm"] = 22
  /\ Order["gate"] = 21 /\ Order["gateSeq"] = 20 /\ Order["open"] = 19
  /\ Order["bind"] = 18 /\ Order["begin"] = 17 /\ Order["writeSource"] = 16
  /\ Order["writeCheck"] = 15 /\ Order["writeChunk"] = 14 /\ Order["writeRecheck"] = 13
  /\ Order["sync"] = 12 /\ Order["syncHere"] = 11 /\ Order["afterSync"] = 10
  /\ Order["verifyPause"] = 9 /\ Order["verify"] = 8 /\ Order["verifySeq"] = 7
  /\ Order["openVerify"] = 6 /\ Order["bindVerify"] = 5 /\ Order["verifySource"] = 4
  /\ Order["verifyCheck"] = 3 /\ Order["verifyChunk"] = 2 /\ Order["verifyRecheck"] = 1
  /\ Order["done"] = 0
  BY DEF Order, PCs

\* Without a chunk, a step only goes on in the order.
Ahead(here) == UNCHANGED <<request, pos>> /\ pc = here /\ pc' \in PCs /\ Order[pc'] < Order[here]

LEMMA AheadIsNearer ==
  ASSUME TypeInv, Ahead(pc)
  PROVE  StepsLeft' < StepsLeft
<1>1. /\ request.size \in Nat /\ pos \in 0 .. request.size /\ pc \in PCs
      /\ Order[pc] \in 0 .. 33 /\ Order[pc'] \in 0 .. 33 /\ Order[pc'] < Order[pc]
      /\ UNCHANGED <<request, pos>>
  BY OperationAssumption, Numbers DEF TypeInv, TypeOK, Requests, Ahead
<1>2. WritesLeft \in Nat /\ WritesLeft' \in Nat /\ WritesLeft' <= WritesLeft
  BY <1>1, Numbers DEF WritesLeft
<1>3. ComparesLeft \in Nat /\ ComparesLeft' \in Nat /\ ComparesLeft' <= ComparesLeft
  BY <1>1, Numbers DEF ComparesLeft
<1> QED
  BY <1>1, <1>2, <1>3 DEF StepsLeft

LEMMA EndIsAhead ==
  ASSUME NEW kind, NEW stage, NEW modified, End(kind, stage, modified),
         pc \in PCs, pc # "done", UNCHANGED <<request, pos>>
  PROVE  Ahead(pc)
<1>1. pc' = "done" /\ pc' \in PCs
  BY DEF End, PCs
<1>2. Order[pc] > 0
  BY Numbers DEF PCs
<1> QED
  BY <1>1, <1>2, Numbers DEF Ahead

LEMMA GoIsAhead ==
  ASSUME NEW next \in PCs, Go(next), Order[next] < Order[pc], UNCHANGED <<request, pos>>
  PROVE  Ahead(pc)
  BY DEF Go, Ahead

LEMMA JudgeIsAhead ==
  ASSUME NEW ok, NEW next \in PCs, NEW stage, NEW modified, Judge(ok, next, stage, modified),
         Order[next] < Order[pc], pc \in PCs, pc # "done", UNCHANGED <<request, pos>>
  PROVE  Ahead(pc)
  BY GoIsAhead, EndIsAhead DEF Judge, Fail

LEMMA FetchSnapshotIsAhead ==
  ASSUME FetchSnapshot
  PROVE  Ahead(pc)
<1>1. UNCHANGED <<request, pos>> /\ pc \in PCs \ {"done"}
  BY DEF FetchSnapshot, FetchTree, FetchFails, PCs
<1>2. ASSUME NEW here, NEW there \in PCs, FetchTree(here, there), Order[there] < Order[here]
      PROVE  Ahead(pc)
  BY <1>1, <1>2, GoIsAhead DEF FetchTree
<1>3. ASSUME NEW here, NEW stage, NEW modified, FetchFails(here, stage, modified)
      PROVE  Ahead(pc)
  BY <1>1, <1>3, EndIsAhead DEF FetchFails, Fail
<1>4. /\ {"listSeq", "selectSeq", "reselectSeq", "recheckSeq", "gateSeq", "verifySeq"} \subseteq PCs
      /\ Order["listSeq"] < Order["list"] /\ Order["selectSeq"] < Order["select"]
      /\ Order["reselectSeq"] < Order["reselect"] /\ Order["recheckSeq"] < Order["recheck"]
      /\ Order["gateSeq"] < Order["gate"] /\ Order["verifySeq"] < Order["verify"]
  BY Numbers DEF PCs
<1> QED
  BY <1>2, <1>3, <1>4 DEF FetchSnapshot

LEMMA PrepareIsAhead ==
  ASSUME Prepare \/ Answer
  PROVE  Ahead(pc)
<1>1. UNCHANGED <<request, pos>> /\ pc \in PCs /\ pc # "done"
  BY DEF Prepare, Answer, List, Select, Revalidate, OpenImage, Preflight, RequestConfirmation,
     Confirm, Refuse, ConfirmationCancelled, PCs
<1>2. /\ {"select", "reselect", "image", "ready", "preflight", "recheck", "confirm", "gate"}
           \subseteq PCs
      /\ Order["select"] < Order["listSeq"] /\ Order["reselect"] < Order["selectSeq"]
      /\ Order["image"] < Order["reselectSeq"] /\ Order["ready"] < Order["recheckSeq"]
      /\ Order["ready"] < Order["image"] /\ Order["preflight"] < Order["image"]
      /\ Order["recheck"] < Order["preflight"] /\ Order["confirm"] < Order["ready"]
      /\ Order["gate"] < Order["confirm"]
  BY Numbers DEF PCs
<1>3. CASE List
  BY <1>1, <1>2, <1>3, GoIsAhead DEF List
<1>4. CASE Select
  <2>1. PICK ok : Judge(ok, "reselect", "Target", FALSE)
    BY <1>4 DEF Select
  <2> QED
    BY <1>1, <1>2, <1>4, <2>1, JudgeIsAhead DEF Select
<1>5. CASE Revalidate("reselectSeq", "image", "Target")
  <2>1. PICK ok : Judge(ok, "image", "Target", FALSE)
    BY <1>5 DEF Revalidate
  <2> QED
    BY <1>1, <1>2, <1>5, <2>1, JudgeIsAhead DEF Revalidate
<1>6. CASE Revalidate("recheckSeq", "ready", "Image")
  <2>1. PICK ok : Judge(ok, "ready", "Image", FALSE)
    BY <1>6 DEF Revalidate
  <2> QED
    BY <1>1, <1>2, <1>6, <2>1, JudgeIsAhead DEF Revalidate
<1>7. CASE OpenImage \/ Preflight
  BY <1>1, <1>2, <1>7, GoIsAhead, EndIsAhead DEF OpenImage, Preflight, Fail, Cancelled
<1>8. CASE RequestConfirmation \/ ConfirmationCancelled \/ Answer
  BY <1>1, <1>2, <1>8, GoIsAhead, EndIsAhead
  DEF RequestConfirmation, ConfirmationCancelled, Answer, Confirm, Refuse, Fail, Cancelled
<1> QED
  BY <1>3, <1>4, <1>5, <1>6, <1>7, <1>8 DEF Prepare

LEMMA AuthorizeIsAhead ==
  ASSUME Authorize
  PROVE  Ahead(pc)
<1>1. UNCHANGED <<request, pos>> /\ pc \in PCs /\ pc # "done"
  BY DEF Authorize, WriteGate, OpenWrite, BindFd, BeginWrite, PCs
<1>2. /\ {"open", "bind", "begin", "writeSource"} \subseteq PCs
      /\ Order["open"] < Order["gateSeq"] /\ Order["bind"] < Order["open"]
      /\ Order["begin"] < Order["bind"] /\ Order["writeSource"] < Order["begin"]
  BY Numbers DEF PCs
<1>3. CASE WriteGate
  <2>1. PICK ok : Judge(ok, "open", "WriteGate", FALSE)
    BY <1>3 DEF WriteGate
  <2> QED
    BY <1>1, <1>2, <1>3, <2>1, JudgeIsAhead DEF WriteGate
<1>4. CASE OpenWrite \/ BeginWrite
  BY <1>1, <1>2, <1>4, GoIsAhead, EndIsAhead DEF OpenWrite, BeginWrite, Fail
<1>5. CASE BindFd("bind", "begin", "WriteDeviceRejected", FALSE)
  <2>1. PICK ok : Judge(ok, "begin", "WriteDeviceRejected", FALSE)
    BY <1>5 DEF BindFd
  <2> QED
    BY <1>1, <1>2, <1>5, <2>1, JudgeIsAhead DEF BindFd
<1> QED
  BY <1>3, <1>4, <1>5 DEF Authorize

\* A chunk is written: one fewer is left, which outweighs the way back to the check.
LEMMA AChunkCounts ==
  ASSUME TypeInv, WriteChunk
  PROVE  StepsLeft' < StepsLeft
<1>1. /\ pc = "writeChunk" /\ pc' = "writeCheck" /\ pos' = pos + 1 /\ UNCHANGED request
      /\ request.size \in Nat /\ pos \in 0 .. request.size /\ pos < request.size
  BY OperationAssumption DEF WriteChunk, Go, TypeInv, TypeOK, Sized, Requests
<1>2. /\ WritesLeft = request.size - pos /\ WritesLeft' = request.size - pos - 1
      /\ ComparesLeft = request.size /\ ComparesLeft' = request.size
  BY <1>1, Numbers DEF WritesLeft, ComparesLeft
<1> QED
  BY <1>1, <1>2, Numbers DEF StepsLeft

LEMMA WriteIsAhead ==
  ASSUME Write, ~WriteChunk, ~AfterSync
  PROVE  Ahead(pc)
<1>1. UNCHANGED <<request, pos>> /\ pc \in PCs /\ pc # "done"
  BY DEF Write, SourceCheck, WriteCheck, WriteFails, SyncThread, Sync, SyncFails, PCs
<1>2. /\ {"writeCheck", "writeRecheck", "writeChunk", "sync", "syncHere", "afterSync"} \subseteq PCs
      /\ Order["writeCheck"] < Order["writeSource"] /\ Order["sync"] < Order["writeRecheck"]
      /\ Order["writeRecheck"] < Order["writeCheck"] /\ Order["writeChunk"] < Order["writeCheck"]
      /\ Order["syncHere"] < Order["sync"] /\ Order["afterSync"] < Order["sync"]
      /\ Order["afterSync"] < Order["syncHere"]
  BY Numbers DEF PCs
<1>3. CASE \/ SourceCheck("writeSource", "writeCheck", "Write", FALSE)
           \/ SourceCheck("writeRecheck", "sync", "Write", TRUE)
  BY <1>1, <1>2, <1>3, GoIsAhead, EndIsAhead DEF SourceCheck, Fail
<1>4. CASE WriteCheck
  BY <1>1, <1>2, <1>4, GoIsAhead, EndIsAhead DEF WriteCheck, Cancelled
<1>5. CASE WriteFails \/ SyncFails
  BY <1>1, <1>5, EndIsAhead DEF WriteFails, SyncFails, Fail
<1>6. CASE SyncThread
  BY <1>1, <1>2, <1>6, GoIsAhead, EndIsAhead DEF SyncThread, Fail
<1>7. CASE Sync
  BY <1>1, <1>2, <1>7, GoIsAhead DEF Sync
<1> QED
  BY <1>3, <1>4, <1>5, <1>6, <1>7 DEF Write

\* After the sync all chunks are still to be compared, which they were before.
LEMMA TheSyncCounts ==
  ASSUME TypeInv, AfterSync
  PROVE  StepsLeft' < StepsLeft
<1>1. /\ pc = "afterSync" /\ pc' \in {"verifyPause", "done"} /\ pos' = 0 /\ UNCHANGED request
      /\ request.size \in Nat
  BY OperationAssumption DEF AfterSync, Go, Cancelled, End, TypeInv, TypeOK, Requests
<1>2. /\ WritesLeft = 0 /\ WritesLeft' = 0 /\ ComparesLeft = request.size
      /\ ComparesLeft' \in {0, request.size}
  BY <1>1, Numbers DEF WritesLeft, ComparesLeft
<1> QED
  BY <1>1, <1>2, Numbers DEF StepsLeft

LEMMA VerifyIsAhead ==
  ASSUME Verify, ~VerifyChunk
  PROVE  Ahead(pc)
<1>1. UNCHANGED <<request, pos>> /\ pc \in PCs /\ pc # "done"
  BY DEF Verify, BeforeVerify, CheckTarget, OpenVerify, BindFd, SourceCheck, VerifyCheck,
     VerifyFails, VerifyRecheck, PCs
<1>2. /\ {"verify", "openVerify", "bindVerify", "verifySource", "verifyCheck", "verifyChunk",
          "verifyRecheck"} \subseteq PCs
      /\ Order["verify"] < Order["verifyPause"] /\ Order["openVerify"] < Order["verifySeq"]
      /\ Order["bindVerify"] < Order["openVerify"] /\ Order["verifySource"] < Order["bindVerify"]
      /\ Order["verifyCheck"] < Order["verifySource"] /\ Order["verifyChunk"] < Order["verifyCheck"]
      /\ Order["verifyRecheck"] < Order["verifyCheck"]
  BY Numbers DEF PCs
<1>3. CASE BeforeVerify \/ OpenVerify
  BY <1>1, <1>2, <1>3, GoIsAhead, EndIsAhead DEF BeforeVerify, OpenVerify, Fail, Cancelled
<1>4. CASE CheckTarget
  <2>1. PICK ok : Judge(ok, "openVerify", "VerifyTarget", TRUE)
    BY <1>4 DEF CheckTarget
  <2> QED
    BY <1>1, <1>2, <1>4, <2>1, JudgeIsAhead DEF CheckTarget
<1>5. CASE BindFd("bindVerify", "verifySource", "VerifyStart", TRUE)
  <2>1. PICK ok : Judge(ok, "verifySource", "VerifyStart", TRUE)
    BY <1>5 DEF BindFd
  <2> QED
    BY <1>1, <1>2, <1>5, <2>1, JudgeIsAhead DEF BindFd
<1>6. CASE SourceCheck("verifySource", "verifyCheck", "Verify", TRUE)
  BY <1>1, <1>2, <1>6, GoIsAhead, EndIsAhead DEF SourceCheck, Fail
<1>7. CASE VerifyCheck
  BY <1>1, <1>2, <1>7, GoIsAhead, EndIsAhead DEF VerifyCheck, Cancelled
<1>8. CASE VerifyFails \/ VerifyRecheck
  BY <1>1, <1>8, EndIsAhead DEF VerifyFails, VerifyRecheck, Fail
<1> QED
  BY <1>3, <1>4, <1>5, <1>6, <1>7, <1>8 DEF Verify

\* The next chunk to be compared is behind the last one.
LEMMA AComparisonCounts ==
  ASSUME TypeInv, VerifyChunk
  PROVE  StepsLeft' < StepsLeft
<1>1. /\ pc = "verifyChunk" /\ pc' = "verifyCheck" /\ UNCHANGED request
      /\ request.size \in Nat /\ pos \in 0 .. request.size /\ pos' \in Remaining
  BY OperationAssumption DEF VerifyChunk, Go, TypeInv, TypeOK, Requests
<1>2. pos' \in Nat /\ pos' > pos /\ pos' <= request.size
  <2>1. request.size > 0
    BY <1>1 DEF TypeInv, Sized, Planned
  <2>2. request.size \div 2 + 1 \in 1 .. request.size
    BY <1>1, <2>1
  <2>3. Compared \subseteq 1 .. request.size
    BY <1>1, <2>1, <2>2 DEF Compared, Chunks
  <2> QED
    BY <1>1, <2>3 DEF Remaining
<1>3. /\ WritesLeft = 0 /\ WritesLeft' = 0
      /\ ComparesLeft = request.size - pos /\ ComparesLeft' = request.size - pos'
  BY <1>1, Numbers DEF WritesLeft, ComparesLeft
<1> QED
  BY <1>1, <1>2, <1>3, Numbers DEF StepsLeft

\* run_on takes a bounded number of steps, for an image of any size and whatever happens
\* around it: nothing is ever tried again (run_on, writer::write, verify).
THEOREM StepsAreBounded == Spec => EveryStepCounts
<1>1. TypeInv /\ [Next]_vars
      => [StepsLeft' < StepsLeft \/ (Environment /\ UNCHANGED StepsLeft)]_vars
  <2> SUFFICES ASSUME TypeInv, Next
               PROVE  StepsLeft' < StepsLeft \/ (Environment /\ UNCHANGED StepsLeft)
    OBVIOUS
  <2>1. CASE FetchSnapshot \/ Prepare \/ Answer \/ Authorize
    BY <2>1, FetchSnapshotIsAhead, PrepareIsAhead, AuthorizeIsAhead, AheadIsNearer
  <2>2. CASE Write
    BY <2>2, WriteIsAhead, AheadIsNearer, AChunkCounts, TheSyncCounts
  <2>3. CASE Verify
    BY <2>3, VerifyIsAhead, AheadIsNearer, AComparisonCounts
  <2>4. CASE Environment
    <3>1. UNCHANGED <<pc, request, pos>>
      BY <2>4 DEF Environment, DeviceChanges, AlterSource, RequestCancel, ForeignWrite, operation
    <3> QED
      BY <2>4, <3>1 DEF StepsLeft, WritesLeft, ComparesLeft
  <2> QED
    BY <2>1, <2>2, <2>3, <2>4 DEF Next, Step
<1> QED
  BY <1>1, AlwaysTypeInv, PTL DEF Spec, EveryStepCounts

\* How many steps that is: at most two for each chunk that is written and each that is
\* compared, and thirty-three besides.
THEOREM HowManySteps == Spec => [](StepsLeft \in 0 .. 33 + 4 * request.size)
<1>1. TypeInv => StepsLeft \in 0 .. 33 + 4 * request.size
  <2> SUFFICES ASSUME TypeInv PROVE StepsLeft \in 0 .. 33 + 4 * request.size
    OBVIOUS
  <2>1. request.size \in Nat /\ pos \in 0 .. request.size /\ Order[pc] \in 0 .. 33
    BY OperationAssumption, Numbers DEF TypeInv, TypeOK, Requests
  <2>2. WritesLeft \in 0 .. request.size /\ ComparesLeft \in 0 .. request.size
    BY <2>1, Numbers DEF WritesLeft, ComparesLeft
  <2> QED
    BY <2>1, <2>2 DEF StepsLeft
<1> QED
  BY <1>1, AlwaysTypeInv, PTL
=============================================================================
