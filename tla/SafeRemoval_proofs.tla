-------------------------- MODULE SafeRemoval_proofs --------------------------
(***************************************************************************)
(* What holds of Safe Removal for any drives, any number of mount points   *)
(* and any history of the port.                                            *)
(***************************************************************************)
EXTENDS SafeRemoval, TLAPS

DeviceTyped == hist \in Seq(Node) /\ Len(hist) \in 1 .. MaxEvents /\ tree \in 1 .. Len(hist)

\* A call may only be under way on the instance that was in the port when it was
\* decided, and only on facts that allow it.
CallInv ==
  /\ pc \in {"unmount", "powerOff"} => hist[judged].seq = anchor.seq /\ half.use # "claimed"
  /\ pc = "unmount" => round = 1
  /\ pc = "powerOff" => half.use = "free"
  /\ ActsOnlyWhereJudged /\ NothingInUseIsPoweredOff

\* The target is with one owner: the result view or the request.
OwnerInv ==
  /\ presentation = "Removing" <=> pc # "idle"
  /\ presentation = "Ready" => outcome = "none"
  /\ presentation = "Retry" => outcome = "Busy"
  /\ pc # "idle" => outcome \in {"none", "Busy"}

RemovalInv == TypeOK /\ CallInv /\ OwnerInv

-----------------------------------------------------------------------------
(* The device.                                                             *)

LEMMA NodeTypes ==
  ASSUME DeviceTyped
  PROVE  /\ Now \in Node /\ hist[tree] \in Node /\ DiskseqReads \subseteq Nat
         /\ \A i \in 1 .. Len(hist) : hist[i] \in Node
         /\ \A s \in Snapshot : TreeHalf(s) \in Snapshot
<1>1. /\ Len(hist) \in 1 .. Len(hist) /\ tree \in 1 .. Len(hist)
      /\ \A i \in 1 .. Len(hist) : hist[i] \in Node
  BY DEF DeviceTyped
<1>2. Now \in Node /\ hist[tree] \in Node
  BY <1>1 DEF Now
<1>3. \A s \in Snapshot : TreeHalf(s) \in Snapshot
  BY <1>2 DEF TreeHalf, Snapshot, Node
<1>4. DiskseqReads \subseteq Nat
  BY <1>2 DEF DiskseqReads, Unknown, Node
<1> QED
  BY <1>1, <1>2, <1>3, <1>4

LEMMA HistoryGrows ==
  ASSUME DeviceTyped, NEW node \in Node, Becomes(node)
  PROVE  DeviceTyped' /\ \A i \in 1 .. Len(hist) : i \in 1 .. Len(hist') /\ hist'[i] = hist[i]
<1>1. Len(hist) < MaxEvents /\ hist' = Append(hist, node) /\ tree' = tree /\ hist \in Seq(Node)
      /\ Len(hist) \in Nat /\ MaxEvents \in Nat
  BY DeviceAssumption DEF Becomes, DeviceTyped
<1>2. /\ hist' \in Seq(Node) /\ Len(hist') = Len(hist) + 1
      /\ \A i \in 1 .. Len(hist) : hist'[i] = hist[i]
  BY <1>1
<1> QED
  BY <1>1, <1>2 DEF DeviceTyped

\* Whatever happens to the port leaves what has happened there as it was.
LEMMA DeviceMoves ==
  ASSUME DeviceTyped,
         \/ Unplug
         \/ \E d \in Drives : Plug(d)
         \/ \E u \in Uses : ChangeUse(u, FALSE)
         \/ TreeCatchesUp
         \/ Becomes([Now EXCEPT !.use = "free"])
         \/ UNCHANGED deviceVars
  PROVE  DeviceTyped' /\ \A i \in 1 .. Len(hist) : i \in 1 .. Len(hist') /\ hist'[i] = hist[i]
<1>1. Now \in Node
  BY NodeTypes
<1>2. CASE Unplug
  <2>1. [Now EXCEPT !.present = FALSE, !.use = "free"] \in Node
    BY <1>1 DEF Node, Uses
  <2> QED
    BY <1>2, <2>1, HistoryGrows DEF Unplug
<1>3. ASSUME NEW d \in Drives, Plug(d)
      PROVE  DeviceTyped' /\ \A i \in 1 .. Len(hist) : i \in 1 .. Len(hist') /\ hist'[i] = hist[i]
  <2>1. [present |-> TRUE, drive |-> d, seq |-> Now.seq + 1, use |-> "free"] \in Node
    BY <1>1 DEF Node, Uses
  <2> QED
    BY <1>3, <2>1, HistoryGrows DEF Plug
<1>4. ASSUME NEW u \in Uses, Becomes([Now EXCEPT !.use = u])
      PROVE  DeviceTyped' /\ \A i \in 1 .. Len(hist) : i \in 1 .. Len(hist') /\ hist'[i] = hist[i]
  <2>1. [Now EXCEPT !.use = u] \in Node
    BY <1>1 DEF Node
  <2> QED
    BY <1>4, <2>1, HistoryGrows
<1>5. CASE TreeCatchesUp
  BY <1>5 DEF TreeCatchesUp, DeviceTyped
<1>6. CASE UNCHANGED deviceVars
  BY <1>6 DEF deviceVars, DeviceTyped
<1>7. "free" \in Uses
  BY DEF Uses
<1> QED
  BY <1>2, <1>3, <1>4, <1>5, <1>6, <1>7 DEF ChangeUse

LEMMA InitRemoval == Init => RemovalInv
<1> SUFFICES ASSUME Init PROVE RemovalInv
  OBVIOUS
<1>1. PICK d \in Drives, u \in Uses : hist = <<[present |-> TRUE, drive |-> d, seq |-> 1, use |-> u]>>
  BY DEF Init, DeviceInit
<1> DEFINE node == [present |-> TRUE, drive |-> d, seq |-> 1, use |-> u]
<1>2. node \in Node
  BY DEF Node
<1>3. hist \in Seq(Node) /\ Len(hist) = 1 /\ tree = 1 /\ Now = node
  <2>1. hist = <<node>> /\ tree = 1
    BY <1>1 DEF Init, DeviceInit
  <2> HIDE DEF node
  <2>2. Len(hist) = 1 /\ hist[1] = node
    BY <2>1
  <2>3. hist \in Seq(Node)
    BY <1>2, <2>1
  <2> QED
    BY <2>1, <2>2, <2>3 DEF Now
<1>4. DeviceTyped
  BY <1>3, DeviceAssumption DEF DeviceTyped
<1>5. anchor \in Snapshot
  BY <1>2, <1>3 DEF Init, Snapshot, Uses, Node
<1>6. TypeOK
  BY <1>3, <1>4, <1>5, RemovalAssumption DEF Init, TypeOK, DeviceTyped, Outcomes
<1> QED
  BY <1>6 DEF Init, RemovalInv, CallInv, OwnerInv, ActsOnlyWhereJudged, NothingInUseIsPoweredOff

-----------------------------------------------------------------------------
(* Steps.                                                                  *)

\* A step that makes no call and comes no nearer to one.
LEMMA NoCall ==
  ASSUME RemovalInv, DeviceTyped',
         \A i \in 1 .. Len(hist) : i \in 1 .. Len(hist') /\ hist'[i] = hist[i],
         UNCHANGED <<anchor, calls>>,
         half' \in Snapshot, round' \in {1, 2}, plan' \in 0 .. MaxMounts,
         \/ pc' \in {"idle", "facts", "factsSeq", "factsUsb"}
            /\ (judged' = judged \/ judged' = Len(hist))
         \/ pc' = pc /\ UNCHANGED <<half, round, judged>>,
         presentation' \in {"Ready", "Removing", "Retry", "Done", "Left"}, outcome' \in Outcomes,
         OwnerInv'
  PROVE  RemovalInv'
<1>1. judged \in 1 .. Len(hist) /\ Len(hist) \in 1 .. Len(hist)
  BY DEF RemovalInv, TypeOK
<1>2. TypeOK'
  BY <1>1 DEF RemovalInv, TypeOK, DeviceTyped
<1>3. CallInv'
  BY <1>1 DEF RemovalInv, CallInv, ActsOnlyWhereJudged, NothingInUseIsPoweredOff
<1> QED
  BY <1>2, <1>3 DEF RemovalInv

\* A request ends; the target comes back only when the drive was busy.
LEMMA Ends ==
  ASSUME RemovalInv, NEW o \in Outcomes \ {"none"}, pc # "idle", Return(o), DeviceTyped',
         \A i \in 1 .. Len(hist) : i \in 1 .. Len(hist') /\ hist'[i] = hist[i],
         UNCHANGED <<calls, half, round>>, plan' \in 0 .. MaxMounts,
         judged' = judged \/ judged' = Len(hist)
  PROVE  RemovalInv'
<1>1. OwnerInv' /\ outcome' \in Outcomes /\ pc' = "idle" /\ UNCHANGED anchor
      /\ presentation' \in {"Ready", "Removing", "Retry", "Done", "Left"}
  BY DEF Return, OwnerInv
<1>2. half' \in Snapshot /\ round' \in {1, 2}
  BY DEF RemovalInv, TypeOK
<1> QED
  BY <1>1, <1>2, NoCall

LEMMA ViewKeeps == RemovalInv /\ (Begin \/ Leave \/ Panic \/ DeviceChanges) => RemovalInv'
<1> SUFFICES ASSUME RemovalInv, Begin \/ Leave \/ Panic \/ DeviceChanges PROVE RemovalInv'
  OBVIOUS
<1>1. /\ DeviceTyped /\ half \in Snapshot /\ round \in {1, 2} /\ plan \in 0 .. MaxMounts
      /\ outcome \in Outcomes /\ presentation \in {"Ready", "Removing", "Retry", "Done", "Left"}
  BY DEF RemovalInv, TypeOK, DeviceTyped
<1>2. UNCHANGED deviceVars =>
        DeviceTyped' /\ \A i \in 1 .. Len(hist) : i \in 1 .. Len(hist') /\ hist'[i] = hist[i]
  BY <1>1, DeviceMoves
<1>3. CASE Begin
  <2>1. OwnerInv'
    BY <1>3 DEF Begin, RemovalInv, OwnerInv
  <2> QED
    BY <1>1, <1>2, <1>3, <2>1, NoCall DEF Begin, memory
<1>4. CASE Leave
  <2>1. OwnerInv'
    BY <1>4 DEF Leave, RemovalInv, OwnerInv
  <2> QED
    BY <1>1, <1>2, <1>4, <2>1, NoCall DEF Leave, progress, memory
<1>5. CASE Panic
  BY <1>1, <1>2, <1>5, Ends DEF Panic, progress, memory, Outcomes
<1>6. CASE DeviceChanges
  <2>1. /\ DeviceTyped' /\ \A i \in 1 .. Len(hist) : i \in 1 .. Len(hist') /\ hist'[i] = hist[i]
    BY <1>1, <1>6, DeviceMoves DEF DeviceChanges
  <2>2. UNCHANGED <<presentation, anchor, pc, round, half, plan, outcome, judged, calls>>
    BY <1>6 DEF DeviceChanges, request, progress, memory
  <2>3. OwnerInv'
    BY <2>2 DEF RemovalInv, OwnerInv
  <2> QED
    BY <1>1, <2>1, <2>2, <2>3, NoCall
<1> QED
  BY <1>3, <1>4, <1>5, <1>6

LEMMA FactsKeep == RemovalInv /\ (ReadTree \/ ReadSeq) => RemovalInv'
<1> SUFFICES ASSUME RemovalInv, ReadTree \/ ReadSeq PROVE RemovalInv'
  OBVIOUS
<1>1. /\ DeviceTyped /\ half \in Snapshot /\ round \in {1, 2} /\ plan \in 0 .. MaxMounts
      /\ outcome \in Outcomes /\ presentation \in {"Ready", "Removing", "Retry", "Done", "Left"}
  BY DEF RemovalInv, TypeOK, DeviceTyped
<1>2. UNCHANGED <<deviceVars, round, plan, judged, calls>>
  BY DEF ReadTree, ReadSeq, memory
<1>3. DeviceTyped' /\ \A i \in 1 .. Len(hist) : i \in 1 .. Len(hist') /\ hist'[i] = hist[i]
  BY <1>1, <1>2, DeviceMoves
<1>4. CASE /\ UNCHANGED <<presentation, anchor, outcome>> /\ half' \in Snapshot
           /\ pc \in {"facts", "factsSeq"} /\ pc' \in {"factsSeq", "factsUsb"}
  <2>1. OwnerInv'
    BY <1>4 DEF RemovalInv, OwnerInv
  <2> QED
    BY <1>1, <1>2, <1>3, <1>4, <2>1, NoCall
<1>5. CASE UNCHANGED half /\ pc = "facts" /\ \E o \in {"DeviceGone", "Unavailable"} : Return(o)
  BY <1>1, <1>2, <1>3, <1>5, Ends DEF Outcomes
<1>6. CASE ReadSeq
  <2>1. PICK q \in DiskseqReads : half' = [half EXCEPT !.seq = q]
    BY <1>6 DEF ReadSeq
  <2>2. half' \in Snapshot
    BY <1>1, <2>1, NodeTypes DEF Snapshot
  <2> QED
    BY <1>4, <1>6, <2>2 DEF ReadSeq, request
<1>7. CASE ReadTree
  BY <1>1, <1>4, <1>5, <1>7, NodeTypes DEF ReadTree, request
<1> QED
  BY <1>6, <1>7

\* What a decision to go on rests on.
LEMMA Judged ==
  ASSUME RemovalInv, NEW q \in DiskseqReads, CheckAgainst(half), UsbBound(q)
  PROVE  hist[Len(hist)].seq = anchor.seq
BY DEF CheckAgainst, SameDevice, SameInstance, UsbBound, DiskseqReads, Now, Unknown

LEMMA DecideKeeps == RemovalInv /\ Decide => RemovalInv'
<1> SUFFICES ASSUME RemovalInv, Decide PROVE RemovalInv'
  OBVIOUS
<1>1. /\ DeviceTyped /\ half \in Snapshot /\ round \in {1, 2} /\ plan \in 0 .. MaxMounts
      /\ outcome \in Outcomes /\ presentation \in {"Ready", "Removing", "Retry", "Done", "Left"}
      /\ MaxMounts \in Nat \ {0}
  BY RemovalAssumption DEF RemovalInv, TypeOK, DeviceTyped
<1>2. pc = "factsUsb" /\ judged' = Len(hist) /\ UNCHANGED <<deviceVars, round, half, calls>>
  BY DEF Decide
<1>3. DeviceTyped' /\ \A i \in 1 .. Len(hist) : i \in 1 .. Len(hist') /\ hist'[i] = hist[i]
  BY <1>1, <1>2, DeviceMoves
<1>4. CASE plan' \in 0 .. MaxMounts
           /\ \E o \in {"DeviceChanged", "Unsupported", "Unavailable", "Busy"} : Return(o)
  BY <1>1, <1>2, <1>3, <1>4, Ends DEF Outcomes
<1>5. CASE /\ UNCHANGED <<presentation, anchor, outcome>> /\ plan' \in 0 .. MaxMounts
           /\ hist[Len(hist)].seq = anchor.seq /\ half.use # "claimed"
           /\ \/ round = 1 /\ pc' = "unmount"
              \/ half.use = "free" /\ pc' = "powerOff"
  <2>1. TypeOK'
    BY <1>1, <1>2, <1>3, <1>5 DEF RemovalInv, TypeOK, DeviceTyped
  <2>2. CallInv'
    <3>1. hist'[judged'].seq = anchor'.seq
      BY <1>1, <1>2, <1>3, <1>5 DEF DeviceTyped
    <3> QED
      BY <1>2, <1>5, <3>1 DEF RemovalInv, CallInv, ActsOnlyWhereJudged, NothingInUseIsPoweredOff
  <2>3. OwnerInv'
    BY <1>2, <1>5 DEF RemovalInv, OwnerInv
  <2> QED
    BY <2>1, <2>2, <2>3 DEF RemovalInv
<1>6. PICK q \in DiskseqReads :
        \/ ~CheckAgainst(half) /\ Return("DeviceChanged") /\ UNCHANGED plan
        \/ CheckAgainst(half) /\ Return("Unsupported") /\ UNCHANGED plan
        \/ CheckAgainst(half) /\ ~HardHazard(half) /\ Return("Unavailable") /\ UNCHANGED plan
        \/ /\ CheckAgainst(half) /\ ~HardHazard(half) /\ UsbBound(q)
           /\ \/ half.use = "free" /\ GoOn(0)
              \/ half.use = "mounted" /\ \E n \in 1 .. MaxMounts : GoOn(n)
  BY DEF Decide
<1>7. CASE /\ CheckAgainst(half) /\ ~HardHazard(half) /\ UsbBound(q)
           /\ \/ half.use = "free" /\ GoOn(0)
              \/ half.use = "mounted" /\ \E n \in 1 .. MaxMounts : GoOn(n)
  <2>1. hist[Len(hist)].seq = anchor.seq /\ half.use # "claimed"
    BY <1>7, Judged DEF HardHazard
  <2>2. PICK n \in 0 .. MaxMounts : GoOn(n) /\ (n = 0 => half.use = "free")
    BY <1>1, <1>7
  <2> QED
    BY <1>1, <1>4, <1>5, <2>1, <2>2 DEF GoOn, request
<1> QED
  BY <1>1, <1>4, <1>6, <1>7

\* A call that is carried out while it may be.
LEMMA CallKeeps ==
  ASSUME RemovalInv, NEW call \in {"Unmount", "PowerOff"}, Carried(call),
         pc \in {"unmount", "powerOff"}, call = "PowerOff" => pc = "powerOff"
  PROVE  /\ calls' \subseteq [call : {"Unmount", "PowerOff"}, seq : Nat \ {0}, use : Uses]
         /\ \A c \in calls' : /\ c.seq = anchor.seq /\ c.use # "claimed"
                              /\ c.call = "PowerOff" => c.use = "free"
<1> DEFINE c == [call |-> call, seq |-> hist[judged].seq, use |-> half.use]
<1>1. calls' = calls \cup {c}
  BY DEF Carried
<1>2. hist[judged] \in Node /\ half \in Snapshot
  BY NodeTypes DEF RemovalInv, TypeOK, DeviceTyped
<1>3. c \in [call : {"Unmount", "PowerOff"}, seq : Nat \ {0}, use : Uses]
  BY <1>2 DEF Node, Snapshot
<1>4. c.seq = anchor.seq /\ c.use # "claimed" /\ (c.call = "PowerOff" => c.use = "free")
  BY DEF RemovalInv, CallInv
<1> HIDE DEF c
<1> QED
  BY <1>1, <1>3, <1>4 DEF RemovalInv, TypeOK, CallInv, ActsOnlyWhereJudged, NothingInUseIsPoweredOff

LEMMA CallsKeep ==
  RemovalInv /\ (Unmount \/ UnmountFails \/ Unmounted \/ PowerOff \/ PowerOffFails) => RemovalInv'
<1> SUFFICES ASSUME RemovalInv, Unmount \/ UnmountFails \/ Unmounted \/ PowerOff \/ PowerOffFails
             PROVE  RemovalInv'
  OBVIOUS
<1>1. /\ DeviceTyped /\ half \in Snapshot /\ round \in {1, 2} /\ plan \in 0 .. MaxMounts
      /\ outcome \in Outcomes /\ presentation \in {"Ready", "Removing", "Retry", "Done", "Left"}
      /\ MaxMounts \in Nat \ {0}
  BY RemovalAssumption DEF RemovalInv, TypeOK, DeviceTyped
<1>2. UNCHANGED deviceVars =>
        DeviceTyped' /\ \A i \in 1 .. Len(hist) : i \in 1 .. Len(hist') /\ hist'[i] = hist[i]
  BY <1>1, DeviceMoves
<1>3. CASE Unmount
  <2>1. /\ pc = "unmount" /\ plan' = plan - 1 /\ plan' \in 0 .. MaxMounts /\ Carried("Unmount")
        /\ UNCHANGED <<presentation, anchor, pc, round, half, outcome, judged>>
    BY <1>1, <1>3 DEF Unmount, request
  <2>2. DeviceTyped' /\ \A i \in 1 .. Len(hist) : i \in 1 .. Len(hist') /\ hist'[i] = hist[i]
    BY <1>1, <1>3, DeviceMoves DEF Unmount
  <2>3. /\ calls' \subseteq [call : {"Unmount", "PowerOff"}, seq : Nat \ {0}, use : Uses]
        /\ \A c \in calls' : /\ c.seq = anchor.seq /\ c.use # "claimed"
                             /\ c.call = "PowerOff" => c.use = "free"
    BY <2>1, CallKeeps
  <2>4. judged \in 1 .. Len(hist)
    BY DEF RemovalInv, TypeOK
  <2>5. TypeOK'
    BY <1>1, <2>1, <2>2, <2>3, <2>4 DEF RemovalInv, TypeOK, DeviceTyped
  <2>6. CallInv'
    BY <2>1, <2>2, <2>3, <2>4 DEF RemovalInv, CallInv, ActsOnlyWhereJudged, NothingInUseIsPoweredOff
  <2>7. OwnerInv'
    BY <2>1 DEF RemovalInv, OwnerInv
  <2> QED
    BY <2>5, <2>6, <2>7 DEF RemovalInv
<1>4. CASE UnmountFails
  <2>1. CASE Now.use # "mounted" /\ plan' = plan - 1 /\ UNCHANGED <<request, pc, outcome>>
    <3>1. plan' \in 0 .. MaxMounts
      BY <1>1, <1>4, <2>1 DEF UnmountFails
    <3>2. OwnerInv'
      BY <2>1 DEF RemovalInv, OwnerInv, request
    <3> QED
      BY <1>1, <1>2, <1>4, <2>1, <3>1, <3>2, NoCall DEF UnmountFails, request, memory
  <2>2. CASE UNCHANGED plan /\ \E o \in {"Busy", "NotAuthorized", "Failed"} : Return(o)
    BY <1>1, <1>2, <1>4, <2>2, Ends DEF UnmountFails, memory, Outcomes
  <2> QED
    BY <1>4, <2>1, <2>2 DEF UnmountFails
<1>5. CASE Unmounted
  <2>1. round' = 2 /\ pc' = "facts" /\ UNCHANGED <<presentation, anchor, half, plan, outcome, judged, calls>>
    BY <1>5 DEF Unmounted, request, memory, RemovalInv, CallInv
  <2>2. OwnerInv'
    BY <1>5, <2>1 DEF RemovalInv, OwnerInv, Unmounted
  <2> QED
    BY <1>1, <1>2, <1>5, <2>1, <2>2, NoCall DEF Unmounted
<1>6. CASE PowerOff
  <2>1. /\ pc = "powerOff" /\ Carried("PowerOff") /\ Return("Removed")
        /\ UNCHANGED <<round, half, plan, judged>>
    BY <1>6 DEF PowerOff, progress
  <2>2. DeviceTyped' /\ \A i \in 1 .. Len(hist) : i \in 1 .. Len(hist') /\ hist'[i] = hist[i]
    BY <1>1, <1>6, DeviceMoves DEF PowerOff
  <2>3. /\ calls' \subseteq [call : {"Unmount", "PowerOff"}, seq : Nat \ {0}, use : Uses]
        /\ \A c \in calls' : /\ c.seq = anchor.seq /\ c.use # "claimed"
                             /\ c.call = "PowerOff" => c.use = "free"
    BY <2>1, CallKeeps
  <2>4. judged \in 1 .. Len(hist)
    BY DEF RemovalInv, TypeOK
  <2>5. TypeOK'
    BY <1>1, <2>1, <2>2, <2>3, <2>4 DEF RemovalInv, TypeOK, DeviceTyped, Return, Outcomes
  <2>6. CallInv'
    BY <2>1, <2>3 DEF RemovalInv, CallInv, ActsOnlyWhereJudged, NothingInUseIsPoweredOff, Return
  <2>7. OwnerInv'
    BY <2>1 DEF RemovalInv, OwnerInv, Return
  <2> QED
    BY <2>5, <2>6, <2>7 DEF RemovalInv
<1>7. CASE PowerOffFails
  BY <1>1, <1>2, <1>7, Ends DEF PowerOffFails, progress, memory, Outcomes
<1> QED
  BY <1>3, <1>4, <1>5, <1>6, <1>7

LEMMA RemovalStutters == RemovalInv /\ UNCHANGED vars => RemovalInv'
<1> SUFFICES ASSUME RemovalInv, UNCHANGED vars PROVE RemovalInv'
  OBVIOUS
<1> QED
  BY DEF vars, deviceVars, request, progress, memory, RemovalInv, TypeOK, CallInv, OwnerInv,
         ActsOnlyWhereJudged, NothingInUseIsPoweredOff

LEMMA RemovalKeeps == RemovalInv /\ [Next]_vars => RemovalInv'
BY ViewKeeps, FactsKeep, DecideKeeps, CallsKeep, RemovalStutters DEF Next, RunRemoval

-----------------------------------------------------------------------------

\* Every variable keeps its type, and there is no third round (run_removal).
THEOREM RemovalIsTyped == Spec => []TypeOK
<1>1. RemovalInv => TypeOK
  BY DEF RemovalInv
<1> QED
  BY <1>1, InitRemoval, RemovalKeeps, PTL DEF Spec

\* Every call that is carried out was decided while the instance that was written was
\* in the port (decide).
THEOREM CallsFollowAJudgement == Spec => []ActsOnlyWhereJudged
<1>1. RemovalInv => ActsOnlyWhereJudged
  BY DEF RemovalInv, CallInv
<1> QED
  BY <1>1, InitRemoval, RemovalKeeps, PTL DEF Spec

\* No power-off is decided on facts that show the drive in use (run_removal).
THEOREM OnlyTheUnusedIsPoweredOff == Spec => []NothingInUseIsPoweredOff
<1>1. RemovalInv => NothingInUseIsPoweredOff
  BY DEF RemovalInv, CallInv
<1> QED
  BY <1>1, InitRemoval, RemovalKeeps, PTL DEF Spec

\* Nothing is called for a target that was given up (RemovalPresentation).
THEOREM GivenUpStaysGivenUp == Spec => GivenUpForGood
<1>1. RemovalInv /\ [Next]_vars
        => [UNCHANGED calls \/ (outcome \in {"none", "Busy"} /\ presentation # "Left")]_vars
  <2> SUFFICES ASSUME RemovalInv, Next, calls' # calls
               PROVE  outcome \in {"none", "Busy"} /\ presentation # "Left"
    OBVIOUS
  <2>1. Unmount \/ PowerOff
    BY DEF Next, RunRemoval, ReadTree, ReadSeq, Decide, UnmountFails, Unmounted, PowerOffFails,
           Begin, Leave, Panic, DeviceChanges, memory
  <2>2. pc # "idle"
    BY <2>1 DEF Unmount, PowerOff
  <2> QED
    BY <2>2 DEF RemovalInv, OwnerInv
<1> QED
  BY <1>1, InitRemoval, RemovalKeeps, PTL DEF Spec, GivenUpForGood

-----------------------------------------------------------------------------
(* How long a request may take.                                            *)

\* The measure, place by place.
LEMMA Numbers ==
  ASSUME NEW r, NEW n
  PROVE  /\ Ahead("idle", r, n) = 0 /\ Ahead("powerOff", r, n) = 1
         /\ Ahead("unmount", r, n) = 5 + n
         /\ Ahead("facts", r, n) = IF r = 2 THEN 4 ELSE 8 + MaxMounts
         /\ Ahead("factsSeq", r, n) = IF r = 2 THEN 3 ELSE 7 + MaxMounts
         /\ Ahead("factsUsb", r, n) = IF r = 2 THEN 2 ELSE 6 + MaxMounts
<1>1. MaxMounts \in Nat
  BY RemovalAssumption
<1> QED
  BY <1>1 DEF Ahead

\* Where a step of the request leads to, and what is left to do from there.
LEMMA ARequestStepCounts ==
  ASSUME RemovalInv, RunRemoval \/ Panic
  PROVE  StepsLeft' < StepsLeft
<1>1. /\ round \in {1, 2} /\ plan \in 0 .. MaxMounts /\ MaxMounts \in Nat \ {0}
      /\ pc \in {"idle", "facts", "factsSeq", "factsUsb", "unmount", "powerOff"}
      /\ pc = "unmount" => round = 1
  BY RemovalAssumption DEF RemovalInv, TypeOK, CallInv
<1>2. pc # "idle"
  BY DEF RunRemoval, ReadTree, ReadSeq, Decide, Unmount, UnmountFails, Unmounted, PowerOff,
         PowerOffFails, Panic
<1>3. CASE pc' = "idle"
  BY <1>1, <1>2, <1>3, Numbers DEF StepsLeft
<1>4. CASE UNCHANGED round /\ (\/ pc = "facts" /\ pc' = "factsSeq"
                               \/ pc = "factsSeq" /\ pc' = "factsUsb")
  BY <1>1, <1>4, Numbers DEF StepsLeft
<1>5. CASE /\ pc = "factsUsb" /\ UNCHANGED round
           /\ \/ round = 1 /\ pc' = "unmount" /\ plan' \in 0 .. MaxMounts
              \/ round = 2 /\ pc' = "powerOff"
  BY <1>1, <1>5, Numbers DEF StepsLeft
<1>6. CASE pc = "unmount" /\ pc' = "unmount" /\ plan > 0 /\ plan' = plan - 1
  BY <1>1, <1>6, Numbers DEF StepsLeft
<1>7. CASE pc = "unmount" /\ plan = 0 /\ pc' = "facts" /\ round' = round + 1
  BY <1>1, <1>7, Numbers DEF StepsLeft
<1>8. CASE Decide
  BY <1>1, <1>3, <1>5, <1>8 DEF Decide, GoOn, Return
<1>9. CASE ReadTree \/ ReadSeq
  BY <1>3, <1>4, <1>9 DEF ReadTree, ReadSeq, Return
<1>10. CASE Unmount \/ UnmountFails \/ Unmounted
  BY <1>3, <1>6, <1>7, <1>10 DEF Unmount, UnmountFails, Unmounted, Return
<1>11. CASE PowerOff \/ PowerOffFails \/ Panic
  BY <1>3, <1>11 DEF PowerOff, PowerOffFails, Panic, Return
<1> QED
  BY <1>8, <1>9, <1>10, <1>11 DEF RunRemoval

\* A request takes a bounded number of steps, for any number of mount points and
\* whatever is plugged, mounted or refused meanwhile: there is one round of unmounting
\* and one look after it (run_removal).
THEOREM RequestsAreBounded == Spec => EveryStepCounts
<1>1. RemovalInv /\ [Next]_vars
      => [pc # "idle" => StepsLeft' < StepsLeft \/ (DeviceChanges /\ UNCHANGED StepsLeft)]_vars
  <2> SUFFICES ASSUME RemovalInv, Next, pc # "idle"
               PROVE  StepsLeft' < StepsLeft \/ (DeviceChanges /\ UNCHANGED StepsLeft)
    OBVIOUS
  <2>1. presentation = "Removing"
    BY DEF RemovalInv, OwnerInv
  <2>2. ~Begin /\ ~Leave
    BY <2>1 DEF Begin, Leave
  <2>3. CASE DeviceChanges
    BY <2>3 DEF DeviceChanges, progress, StepsLeft
  <2> QED
    BY <2>2, <2>3, ARequestStepCounts DEF Next
<1> QED
  BY <1>1, InitRemoval, RemovalKeeps, PTL DEF Spec, EveryStepCounts

\* At most MaxMounts + 8 of them.
THEOREM HowManySteps == Spec => [](StepsLeft \in 0 .. MaxMounts + 8)
<1>1. RemovalInv => StepsLeft \in 0 .. MaxMounts + 8
  BY Numbers, RemovalAssumption DEF StepsLeft, RemovalInv, TypeOK
<1> QED
  BY <1>1, InitRemoval, RemovalKeeps, PTL DEF Spec
=============================================================================
