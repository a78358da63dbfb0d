--------------------- MODULE SelectionContinuity_proofs ---------------------
(***************************************************************************)
(* What holds of the command line's selection for any drives, any number   *)
(* of signals and any length of the device's history: which events are     *)
(* under way, what becomes of a selection, and what the tests open.        *)
(***************************************************************************)
EXTENDS SelectionContinuity, SequenceTheorems, TLAPS

\* Before the loop nobody listens, so that nothing is heard; then a loss that is heard
\* leaves its event with a watcher or in the channel.
ListenInv ==
  /\ signals \in [Kinds -> Nat]
  /\ events \in Seq(Kinds)
  /\ watchers \in [Kinds -> {"none", "starting", "watching", "ended"}]
  /\ pc \in {"select", "selectSeq", "start"} =>
       loss # "heard" /\ \A k \in Kinds : watchers[k] = "none"
  /\ LossIsPending

\* Reading the channel takes one event out of it, and appending loses none.
LEMMA ChannelKeepsTheRest ==
  ASSUME NEW S, NEW q \in Seq(S), NEW e \in S
  PROVE  /\ Append(q, e) \in Seq(S)
         /\ Range(q) \cup {e} \subseteq Range(Append(q, e))
         /\ q # <<>> => /\ Tail(q) \in Seq(S)
                        /\ Head(q) \in S
                        /\ Range(q) \subseteq Range(Tail(q)) \cup {Head(q)}
<1>1. Append(q, e) \in Seq(S) /\ Len(Append(q, e)) = Len(q) + 1 /\ Len(q) \in Nat
  OBVIOUS
<1>2. \A i \in 1 .. Len(q) : Append(q, e)[i] = q[i]
  OBVIOUS
<1>3. Append(q, e)[Len(q) + 1] = e
  OBVIOUS
<1>4. Range(q) \cup {e} \subseteq Range(Append(q, e))
  BY <1>1, <1>2, <1>3 DEF Range
<1>5. ASSUME q # <<>>
      PROVE  /\ Tail(q) \in Seq(S) /\ Head(q) \in S
             /\ Range(q) \subseteq Range(Tail(q)) \cup {Head(q)}
  <2>1. Tail(q) \in Seq(S) /\ Head(q) \in S /\ Len(Tail(q)) = Len(q) - 1 /\ Head(q) = q[1]
    BY <1>5
  <2>2. \A i \in 1 .. Len(Tail(q)) : Tail(q)[i] = q[i + 1]
    BY <1>5
  <2>3. ASSUME NEW i \in 1 .. Len(q) PROVE q[i] \in Range(Tail(q)) \cup {Head(q)}
    <3>1. CASE i = 1
      BY <2>1, <3>1
    <3>2. CASE i # 1
      <4>1. i - 1 \in 1 .. Len(Tail(q)) /\ Tail(q)[i - 1] = q[i]
        BY <2>1, <2>2, <3>2
      <4>2. DOMAIN Tail(q) = 1 .. Len(Tail(q))
        BY <2>1
      <4>3. \E n \in DOMAIN Tail(q) : Tail(q)[n] = q[i]
        BY <4>1, <4>2
      <4>4. q[i] \in Range(Tail(q))
        BY <4>3 DEF Range
      <4> QED
        BY <4>4
    <3> QED
      BY <3>1, <3>2
  <2> QED
    BY <2>1, <2>3 DEF Range
<1> QED
  BY <1>1, <1>4, <1>5

\* A loss that a watcher heard of always has its event under way while the selection
\* is shown as valid (apply_event, linux_monitor's channel).
THEOREM HeardLossesArePending == Spec => []LossIsPending
<1> USE DEF Kinds, Losses
<1>1. Init => ListenInv
  BY DEF Init, ListenInv, LossIsPending
<1>2. ListenInv /\ [Next]_vars => ListenInv'
  <2> SUFFICES ASSUME ListenInv, [Next]_vars PROVE ListenInv'
    OBVIOUS
  <2> USE DEF ListenInv
  <2>1. CASE UNCHANGED <<pc, selection, stream, loss>>
    BY <2>1 DEF LossIsPending, stream
  <2>2. ASSUME UNCHANGED <<stream, loss>>,
               selection' = "Selected" => selection = "Selected",
               pc' \in {"select", "selectSeq", "start"}
                 => pc \in {"select", "selectSeq", "start"}
        PROVE  ListenInv'
    BY <2>2 DEF LossIsPending, stream
  <2>3. CASE Select
    BY <2>3 DEF Select, LossIsPending, stream
  <2>4. CASE StartMonitoring
    <3>1. /\ loss' # "heard" /\ pc' = "loop" /\ UNCHANGED <<signals, events>>
          /\ watchers' \in [Kinds -> {"none", "starting", "watching", "ended"}]
      BY <2>4 DEF StartMonitoring
    <3> QED
      BY <3>1 DEF LossIsPending
  <2>5. CASE Receive
    <3>1. /\ events' = Tail(events) /\ events # <<>> /\ pc' \in {"check", "loop"}
          /\ UNCHANGED <<watchers, signals, loss>>
          /\ selection' = Applied(Head(events))
      BY <2>5 DEF Receive
    <3>2. events' \in Seq(Kinds) /\ Range(events) \subseteq Range(events') \cup {Head(events)}
      BY <3>1, ChannelKeepsTheRest
    <3>3. selection' = "Selected" => selection = "Selected" /\ Head(events) \notin Losses
      BY <3>1 DEF Applied
    <3> QED
      BY <3>1, <3>2, <3>3 DEF LossIsPending
  <2>6. ASSUME NEW k \in Kinds, Subscribe(k) PROVE ListenInv'
    BY <2>6 DEF Subscribe, selected, LossIsPending
  <2>7. ASSUME NEW k \in Kinds, WatcherFails(k) PROVE ListenInv'
    <3>1. events' \in Seq(Kinds) /\ Range(events) \subseteq Range(events')
      BY <2>7, ChannelKeepsTheRest DEF WatcherFails
    <3> QED
      BY <2>7, <3>1 DEF WatcherFails, selected, LossIsPending
  <2>8. ASSUME NEW k \in Kinds, Forward(k) PROVE ListenInv'
    <3>1. /\ events' \in Seq(Kinds) /\ Range(events) \cup {k} \subseteq Range(events')
      BY <2>8, ChannelKeepsTheRest DEF Forward
    <3>2. /\ signals' \in [Kinds -> Nat]
          /\ \A other \in Kinds \ {k} : signals'[other] = signals[other]
      BY <2>8 DEF Forward
    <3> QED
      BY <2>8, <3>1, <3>2 DEF Forward, selected, LossIsPending
  <2>9. CASE ConnectionLost
    <3>1. watchers' \in [Kinds -> {"none", "starting", "watching", "ended"}]
      BY <2>9 DEF ConnectionLost
    <3> QED
      BY <2>9, <3>1 DEF ConnectionLost, selected, LossIsPending
  <2>10. ASSUME NEW k, Received(k)
         PROVE  /\ signals' \in [Kinds -> Nat]
                /\ \A other \in Kinds : signals'[other] >= signals[other]
                /\ Hears(k) => signals'[k] > 0
    BY <2>10 DEF Received, Hears
  <2>11. CASE UDisksNotices
    <3>1. PICK k \in SignalsOf(hist[tree], hist[tree + 1]) :
            /\ Received(k)
            /\ loss' = IF pc = "select" \/ ~Lost(hist[tree], hist[tree + 1]) THEN loss
                       ELSE IF Hears(k) THEN Worse("heard") ELSE "missed"
      BY <2>11 DEF UDisksNotices
    <3>2. UNCHANGED <<pc, selection, watchers, events>>
      BY <2>11 DEF UDisksNotices, selected
    <3>3. Lost(hist[tree], hist[tree + 1]) => k \in Losses
      BY <3>1 DEF SignalsOf, Lost
    <3>4. loss' = "heard" => loss = "heard" \/ (k \in Losses /\ Hears(k))
      BY <3>1, <3>3 DEF Worse
    <3>5. pc \in {"select", "selectSeq", "start"} => ~Hears(k)
      BY DEF Hears
    <3> QED
      BY <2>10, <3>1, <3>2, <3>4, <3>5 DEF LossIsPending
  <2>12. CASE OtherSignal
    BY <2>10, <2>12 DEF OtherSignal, selected, LossIsPending
  <2> QED
    BY <2>1, <2>2, <2>3, <2>4, <2>5, <2>6, <2>7, <2>8, <2>9, <2>11, <2>12
    DEF Next, vars, MainThread, FetchTree, SelectFails, AfterSelect, Revalidate,
        RevalidationFails, AfterRevalidation, StartFails, StreamEnds, Gate, GateFails,
        OpenDevice, BindFd, Close, KernelMoves, selected, stream
<1>3. ListenInv => LossIsPending
  BY DEF ListenInv
<1> QED
  BY <1>1, <1>2, <1>3, PTL DEF Spec

\* No step revives an invalidated selection or replaces the snapshot of one that was
\* made: only `Select` makes one, and it comes once (apply_event, revalidate).
THEOREM InvalidatedSelectionsStayInvalid == Spec => InvalidatedForGood
<1> DEFINE Fresh == pc \in {"select", "selectSeq"} => selection = "NoSelection"
<1>1. Init => Fresh
  BY DEF Init
<1>2. Fresh /\ [Next]_vars
        => Fresh' /\ (selection = "Invalidated" => selection' = "Invalidated")
                 /\ (selection # "NoSelection" => baseline' = baseline)
  <2> SUFFICES ASSUME Fresh, [Next]_vars
               PROVE  /\ Fresh'
                      /\ selection = "Invalidated" => selection' = "Invalidated"
                      /\ selection # "NoSelection" => baseline' = baseline
    OBVIOUS
  <2>1. CASE UNCHANGED <<pc, selection, baseline>>
    BY <2>1
  <2>2. CASE Select
    BY <2>2 DEF Select, AfterSelect, selected
  <2>3. CASE SelectFails
    BY <2>3 DEF SelectFails, AfterSelect, selected
  <2>4. CASE Revalidate \/ RevalidationFails
    BY <2>4 DEF Revalidate, RevalidationFails, AfterRevalidation
  <2>5. CASE Receive
    BY <2>5 DEF Receive, Applied, Losses
  <2> QED
    BY <2>1, <2>2, <2>3, <2>4, <2>5
    DEF Next, vars, MainThread, FetchTree, StartMonitoring, StartFails, StreamEnds, Gate,
        GateFails, OpenDevice, BindFd, Close, Subscribe, WatcherFails, Forward,
        ConnectionLost, UDisksNotices, OtherSignal, KernelMoves, selected
<1>3. Fresh /\ [Next]_vars
        => [/\ selection = "Invalidated" => selection' = "Invalidated"
            /\ selection # "NoSelection" => baseline' = baseline]_vars
  BY <1>2
<1> QED
  BY <1>1, <1>2, <1>3, PTL DEF Spec, InvalidatedForGood
-----------------------------------------------------------------------------
(* The device, and the types.                                              *)

DeviceTyped == hist \in Seq(Node) /\ tree \in 1 .. Len(hist)

\* The kernel's numbers never shrink, and a number names one drive.
Ordered ==
  \A m, n \in 1 .. Len(hist) :
    /\ m <= n => hist[m].seq <= hist[n].seq
    /\ hist[m].seq = hist[n].seq => hist[m].drive = hist[n].drive

LEMMA NodeTypes ==
  ASSUME DeviceTyped
  PROVE  /\ Now \in Node /\ hist[tree] \in Node /\ DiskseqReads \subseteq Nat
         /\ Len(hist) \in 1 .. Len(hist)
         /\ \A i \in 1 .. Len(hist) : hist[i] \in Node
<1>1. /\ Len(hist) \in 1 .. Len(hist) /\ tree \in 1 .. Len(hist)
      /\ \A i \in 1 .. Len(hist) : hist[i] \in Node
  BY DEF DeviceTyped
<1>2. Now \in Node /\ hist[tree] \in Node
  BY <1>1 DEF Now
<1>3. DiskseqReads \subseteq Nat
  BY <1>2 DEF DiskseqReads, Unknown, Node
<1> QED
  BY <1>1, <1>2, <1>3

LEMMA NoSnapshotIsTyped == NoSnapshot \in Snapshot
<1>1. (CHOOSE d \in Drives : TRUE) \in Drives
  BY DeviceAssumption
<1> QED
  BY <1>1 DEF NoSnapshot, Snapshot, Uses, Unknown

\* What happens to the device is put at the end of its history.
LEMMA HistoryGrows ==
  ASSUME DeviceTyped, UDisksNotices \/ KernelMoves
  PROVE  /\ DeviceTyped'
         /\ Len(hist) <= Len(hist') /\ Len(hist') <= Len(hist) + 1
         /\ \A i \in 1 .. Len(hist) : hist'[i] = hist[i]
         /\ \A i \in 1 .. Len(hist') : i > Len(hist) =>
              /\ hist'[i].seq >= Now.seq
              /\ hist'[i].seq = Now.seq => hist'[i].drive = Now.drive
<1>1. /\ hist \in Seq(Node) /\ Len(hist) \in Nat /\ tree \in 1 .. Len(hist)
      /\ Now \in Node /\ Now.seq \in Nat
  BY NodeTypes DEF DeviceTyped, Node
<1>2. ASSUME NEW node \in Node, Becomes(node), node.seq >= Now.seq,
             node.seq = Now.seq => node.drive = Now.drive
      PROVE  /\ DeviceTyped'
             /\ Len(hist) <= Len(hist') /\ Len(hist') <= Len(hist) + 1
             /\ \A i \in 1 .. Len(hist) : hist'[i] = hist[i]
             /\ \A i \in 1 .. Len(hist') : i > Len(hist) =>
                  /\ hist'[i].seq >= Now.seq
                  /\ hist'[i].seq = Now.seq => hist'[i].drive = Now.drive
  <2>1. hist' = Append(hist, node) /\ tree' = tree
    BY <1>2 DEF Becomes
  <2>2. /\ hist' \in Seq(Node) /\ Len(hist') = Len(hist) + 1
        /\ \A i \in 1 .. Len(hist) : hist'[i] = hist[i]
        /\ hist'[Len(hist) + 1] = node
    BY <1>1, <2>1
  <2> QED
    BY <1>1, <1>2, <2>1, <2>2 DEF DeviceTyped
<1>3. CASE Unplug
  <2> DEFINE node == [Now EXCEPT !.present = FALSE, !.use = "free"]
  <2>1. Becomes(node) /\ node \in Node /\ node.seq = Now.seq /\ node.drive = Now.drive
    BY <1>1, <1>3 DEF Unplug, Node, Uses
  <2> HIDE DEF node
  <2> QED
    BY <1>1, <1>2, <2>1
<1>4. ASSUME NEW d \in Drives, Plug(d)
      PROVE  \E node \in Node : Becomes(node) /\ node.seq > Now.seq /\ node.seq \in Nat
  <2> DEFINE node == [present |-> TRUE, drive |-> d, seq |-> Now.seq + 1, use |-> "free"]
  <2>1. Becomes(node) /\ node \in Node /\ node.seq > Now.seq /\ node.seq \in Nat
    BY <1>1, <1>4 DEF Plug, Node, Uses
  <2> QED
    BY <2>1
<1>5. ASSUME \E d \in Drives : Plug(d)
      PROVE  \E node \in Node : /\ Becomes(node) /\ node.seq >= Now.seq
                                /\ node.seq = Now.seq => node.drive = Now.drive
  BY <1>1, <1>4, <1>5
<1>6. ASSUME NEW u \in Uses, ChangeUse(u, fd.open)
      PROVE  \E node \in Node : /\ Becomes(node) /\ node.seq >= Now.seq
                                /\ node.seq = Now.seq => node.drive = Now.drive
  <2> DEFINE node == [Now EXCEPT !.use = u]
  <2>1. Becomes(node) /\ node \in Node /\ node.seq = Now.seq /\ node.drive = Now.drive
    BY <1>1, <1>6 DEF ChangeUse, Node
  <2> HIDE DEF node
  <2> QED
    BY <1>1, <2>1
<1>7. CASE UDisksNotices
  <2>1. tree' = tree + 1 /\ tree < Len(hist) /\ hist' = hist
    BY <1>7 DEF UDisksNotices
  <2>2. DeviceTyped'
    BY <1>1, <2>1 DEF DeviceTyped
  <2> QED
    BY <1>1, <2>1, <2>2
<1> QED
  BY <1>2, <1>3, <1>5, <1>6, <1>7 DEF KernelMoves

LEMMA InitTypes == Init => TypeOK /\ Ordered
<1> SUFFICES ASSUME Init PROVE TypeOK /\ Ordered
  OBVIOUS
<1>1. PICK d \in Drives, u \in Uses : hist = <<[present |-> TRUE, drive |-> d, seq |-> 1, use |-> u]>>
  BY DEF Init, DeviceInit
<1> DEFINE node == [present |-> TRUE, drive |-> d, seq |-> 1, use |-> u]
<1>2. node \in Node /\ node.seq = 1
  BY DEF Node
<1>3. hist = <<node>> /\ tree = 1
  BY <1>1 DEF Init, DeviceInit
<1> HIDE DEF node
<1>4. Len(hist) = 1 /\ hist[1] = node /\ hist \in Seq(Node)
  BY <1>2, <1>3
<1>5. Ordered
  BY <1>2, <1>4 DEF Ordered
<1>6. NoSnapshot \in Snapshot /\ NoSnapshot.drive \in Drives
  BY NoSnapshotIsTyped DEF Snapshot
<1>7. /\ half \in Snapshot /\ baseline \in Snapshot /\ current \in Snapshot
      /\ selection = "NoSelection" /\ baseline = NoSnapshot /\ born = 0
  BY <1>6 DEF Init
<1>8. fd \in [open : BOOLEAN, seq : Nat, drive : Drives]
  BY <1>6 DEF Init, Unknown
<1>9. /\ watchers \in [Kinds -> {"none", "starting", "watching", "ended"}]
      /\ signals \in [Kinds -> Nat] /\ events \in Seq(Kinds)
  BY DEF Init
<1>10. hist \in Seq(Node) /\ tree \in 1 .. Len(hist) /\ born \in 0 .. Len(hist)
  BY <1>3, <1>4, <1>7
<1>11. /\ mode \in Commands /\ pc \in PCs /\ settled \in BOOLEAN
       /\ loss \in {"none", "heard", "missed"}
  BY DEF Init, PCs
<1> QED
  BY <1>5, <1>7, <1>8, <1>9, <1>10, <1>11 DEF TypeOK

LEMMA ReadsAreTyped ==
  ASSUME TypeOK
  PROVE  /\ TreeHalf(half) \in Snapshot /\ TreeHalf(half).drive = hist[tree].drive
         /\ \A q \in DiskseqReads : /\ Fetched(q) \in Snapshot
                                    /\ Fetched(q).seq = q /\ Fetched(q).drive = half.drive
<1>1. /\ DiskseqReads \subseteq Nat /\ hist[tree].drive \in Drives /\ hist[tree].use \in Uses
  BY NodeTypes DEF TypeOK, DeviceTyped, Node
<1>2. half \in Snapshot
  BY DEF TypeOK
<1> QED
  BY <1>1, <1>2 DEF TreeHalf, Fetched, Snapshot

LEMMA MainThreadTypes ==
  ASSUME TypeOK, MainThread
  PROVE  TypeOK'
<1> USE DEF TypeOK
<1>1. ASSUME NEW here, NEW there \in PCs, FetchTree(here, there)
      PROVE  TypeOK'
  BY <1>1, ReadsAreTyped DEF FetchTree, deviceVars, selected, stream
<1>2. CASE Select
  <2>1. PICK q \in DiskseqReads :
          IF SafeToWrite(Fetched(q))
          THEN selection' = "Selected" /\ baseline' = Fetched(q) /\ born' = Len(hist)
          ELSE UNCHANGED selected
    BY <1>2 DEF Select
  <2>2. Fetched(q) \in Snapshot /\ Len(hist) \in 0 .. Len(hist)
    BY ReadsAreTyped, NodeTypes DEF DeviceTyped
  <2>3. /\ selection' \in {"NoSelection", "Selected", "Invalidated"} /\ baseline' \in Snapshot
        /\ selection' = "NoSelection" => baseline' = NoSnapshot /\ born' = 0
        /\ born' \in 0 .. Len(hist)
    BY <2>1, <2>2 DEF selected
  <2> QED
    BY <1>2, <2>3, NoSnapshotIsTyped DEF Select, AfterSelect, deviceVars, stream, PCs
<1>3. CASE SelectFails
  BY <1>3 DEF SelectFails, AfterSelect, deviceVars, reading, selected, stream, PCs
<1>4. CASE Revalidate
  BY <1>4, NoSnapshotIsTyped DEF Revalidate, AfterRevalidation, deviceVars, stream, PCs
<1>5. CASE RevalidationFails
  BY <1>5 DEF RevalidationFails, AfterRevalidation, deviceVars, reading, stream, PCs
<1>6. CASE StartMonitoring
  BY <1>6 DEF StartMonitoring, deviceVars, reading, selected, PCs
<1>7. CASE StartFails \/ StreamEnds
  BY <1>7 DEF StartFails, StreamEnds, deviceVars, reading, selected, stream, PCs
<1>8. CASE Receive
  <2>1. events' \in Seq(Kinds)
    <3>1. "other" \in Kinds
      BY DEF Kinds
    <3> QED
      BY <1>8, <3>1, ChannelKeepsTheRest DEF Receive
  <2> QED
    BY <1>8, <2>1 DEF Receive, Applied, deviceVars, reading, PCs
<1>9. CASE Gate
  BY <1>9, ReadsAreTyped DEF Gate, deviceVars, reading, selected, stream, PCs
<1>10. CASE GateFails
  BY <1>10 DEF GateFails, deviceVars, reading, selected, stream, PCs
<1>11. CASE OpenDevice
  <2>1. Now.seq \in Nat /\ Now.drive \in Drives
    BY NodeTypes DEF DeviceTyped, Node
  <2>2. [open |-> TRUE, seq |-> Now.seq, drive |-> Now.drive]
          \in [open : BOOLEAN, seq : Nat, drive : Drives]
    BY <2>1
  <2>3. fd' \in [open : BOOLEAN, seq : Nat, drive : Drives] /\ pc' \in {"bind", "done"}
    BY <1>11, <2>2 DEF OpenDevice
  <2>4. UNCHANGED <<deviceVars, mode, reading, selected, current, stream, loss>>
    BY <1>11 DEF OpenDevice
  <2> QED
    BY <2>3, <2>4 DEF deviceVars, reading, selected, stream, PCs
<1>12. CASE BindFd \/ Close
  BY <1>12 DEF BindFd, Close, deviceVars, reading, selected, stream, PCs
<1> QED
  BY <1>1, <1>2, <1>3, <1>4, <1>5, <1>6, <1>7, <1>8, <1>9, <1>10, <1>11, <1>12
  DEF MainThread, PCs

LEMMA OthersTypes ==
  ASSUME TypeOK,
         \/ \E k \in Kinds : Subscribe(k) \/ WatcherFails(k) \/ Forward(k)
         \/ ConnectionLost \/ UDisksNotices \/ OtherSignal \/ KernelMoves
  PROVE  TypeOK'
<1> USE DEF TypeOK
<1>1. ASSUME NEW k \in Kinds, Subscribe(k) PROVE TypeOK'
  BY <1>1 DEF Subscribe, deviceVars, reading, selected
<1>2. ASSUME NEW k \in Kinds, WatcherFails(k) PROVE TypeOK'
  <2>1. "other" \in Kinds
    BY DEF Kinds
  <2> QED
    BY <1>2, <2>1 DEF WatcherFails, deviceVars, reading, selected
<1>3. ASSUME NEW k \in Kinds, Forward(k) PROVE TypeOK'
  BY <1>3 DEF Forward, deviceVars, reading, selected
<1>4. CASE ConnectionLost
  BY <1>4 DEF ConnectionLost, deviceVars, reading, selected
<1>5. ASSUME NEW k, Received(k) PROVE signals' \in [Kinds -> Nat]
  BY <1>5 DEF Received, Hears
<1>6. CASE OtherSignal
  BY <1>5, <1>6 DEF OtherSignal, deviceVars, reading, selected
<1>7. CASE UDisksNotices
  <2>1. /\ signals' \in [Kinds -> Nat] /\ loss' \in {"none", "heard", "missed"}
    BY <1>5, <1>7 DEF UDisksNotices, Worse
  <2>2. DeviceTyped' /\ hist' = hist
    BY <1>7, HistoryGrows DEF DeviceTyped, UDisksNotices
  <2> QED
    BY <1>7, <2>1, <2>2 DEF UDisksNotices, DeviceTyped, reading, selected
<1>8. CASE KernelMoves
  <2>1. DeviceTyped' /\ Len(hist) <= Len(hist')
    BY <1>8, HistoryGrows DEF DeviceTyped
  <2>2. born' \in 0 .. Len(hist')
    BY <1>8, <2>1 DEF KernelMoves, selected, DeviceTyped
  <2> QED
    BY <1>8, <2>1, <2>2 DEF KernelMoves, DeviceTyped, reading, selected, stream
<1> QED
  BY <1>1, <1>2, <1>3, <1>4, <1>6, <1>7, <1>8

\* The selection, the snapshots, the descriptor, the watchers and the channel keep
\* their types (SelectionState, DeviceEvent).
THEOREM ContinuityIsTyped == Spec => []TypeOK
<1>1. Init => TypeOK
  BY InitTypes
<1>2. TypeOK /\ [Next]_vars => TypeOK'
  <2>1. TypeOK /\ UNCHANGED vars => TypeOK'
    BY DEF TypeOK, vars, deviceVars, reading, selected, stream
  <2> QED
    BY <2>1, MainThreadTypes, OthersTypes DEF Next
<1> QED
  BY <1>1, <1>2, PTL DEF Spec

-----------------------------------------------------------------------------
(* The tests open what was selected.  The selection's number was the       *)
(* kernel's at the moment born and again at the judgement; if the tree the *)
(* judgement read had come as far as born, the drive it showed was plugged *)
(* in between the two, so under that number; and a number names one drive. *)

\* The selection's number was the kernel's when it was read.
Recorded ==
  baseline.seq # Unknown => born \in 1 .. Len(hist) /\ hist[born].seq = baseline.seq

\* What a settled fetch has read is from after that.
FetchedLate ==
  pc \in {"checkSeq", "gateSeq"} /\ settled =>
    \E t \in 1 .. Len(hist) : t >= born /\ half.drive = hist[t].drive

\* The drive that ever had this number is the one selected.
Identified ==
  settled => \A i \in 1 .. Len(hist) :
               hist[i].seq = baseline.seq => SameIdentity(baseline, hist[i])

Opening == {"open", "bind", "bound"}

Judged ==
  pc \in Opening => /\ baseline.seq # Unknown
                    /\ mode # "openTest" => current.seq = baseline.seq
                    /\ Identified

\* The descriptor is of one instance in the history.
Opened ==
  /\ pc \in {"bind", "bound"} =>
       \E i \in 1 .. Len(hist) : hist[i].seq = fd.seq /\ hist[i].drive = fd.drive
  /\ pc = "bound" => fd.seq = baseline.seq

OpenInv == Ordered /\ Recorded /\ FetchedLate /\ Judged /\ Opened

Selection == <<hist, baseline, born>>

LEMMA QuietOpenInv ==
  ASSUME OpenInv, UNCHANGED Selection, pc' \notin Opening \cup {"checkSeq", "gateSeq"}
  PROVE  OpenInv'
  BY DEF OpenInv, Ordered, Recorded, FetchedLate, Judged, Opened, Opening, Selection

LEMMA StillOpenInv ==
  ASSUME OpenInv, UNCHANGED Selection, UNCHANGED <<pc, mode, reading, current, fd>>
  PROVE  OpenInv'
  BY DEF OpenInv, Ordered, Recorded, FetchedLate, Judged, Identified, Opened, Opening,
         Selection, reading

LEMMA FetchOpenInv ==
  ASSUME TypeOK, OpenInv, NEW here, NEW there, FetchTree(here, there), there \notin Opening
  PROVE  OpenInv'
<1>1. /\ half'.drive = hist[tree].drive /\ settled' = (tree >= born) /\ pc' = there
      /\ UNCHANGED Selection
  BY ReadsAreTyped DEF FetchTree, deviceVars, selected, Selection
<1>2. tree \in 1 .. Len(hist)
  BY DEF TypeOK
<1>3. FetchedLate'
  BY <1>1, <1>2 DEF FetchedLate, Selection
<1>4. Ordered' /\ Recorded' /\ Judged' /\ Opened'
  BY <1>1 DEF OpenInv, Ordered, Recorded, Judged, Opened, Opening, Selection
<1> QED
  BY <1>3, <1>4 DEF OpenInv

\* The judgement that lets a test go on.
LEMMA JudgementIdentifies ==
  ASSUME TypeOK, OpenInv, pc \in {"checkSeq", "gateSeq"},
         NEW q \in DiskseqReads, StillSelected(Fetched(q))
  PROVE  baseline.seq # Unknown /\ Fetched(q).seq = baseline.seq /\ Identified
<1>1. /\ baseline.seq # Unknown /\ Fetched(q).seq = baseline.seq /\ q = baseline.seq
      /\ SameIdentity(baseline, Fetched(q)) /\ Fetched(q).drive = half.drive
  BY ReadsAreTyped DEF StillSelected, SameDevice, SameInstance
<1>2. hist[Len(hist)].seq = baseline.seq /\ Len(hist) \in 1 .. Len(hist)
  BY <1>1, NodeTypes DEF DiskseqReads, Now, TypeOK, DeviceTyped
<1>3. ASSUME settled, NEW i \in 1 .. Len(hist), hist[i].seq = baseline.seq
      PROVE  SameIdentity(baseline, hist[i])
  <2>1. born \in 1 .. Len(hist) /\ hist[born].seq = baseline.seq
    BY <1>1 DEF OpenInv, Recorded
  <2>2. PICK t \in 1 .. Len(hist) : t >= born /\ half.drive = hist[t].drive
    BY <1>3 DEF OpenInv, FetchedLate
  <2>3. hist[born].seq <= hist[t].seq /\ hist[t].seq <= hist[Len(hist)].seq
    BY <1>2, <2>1, <2>2 DEF OpenInv, Ordered
  <2>4. hist[t].seq \in Nat /\ baseline.seq \in Nat
    BY NodeTypes DEF TypeOK, DeviceTyped, Node, Snapshot
  <2>5. hist[t].seq = hist[i].seq
    BY <1>2, <1>3, <2>1, <2>3, <2>4
  <2>6. hist[i].drive = half.drive
    BY <2>2, <2>5 DEF OpenInv, Ordered
  <2> QED
    BY <1>1, <2>6 DEF SameIdentity
<1> QED
  BY <1>1, <1>3 DEF Identified

LEMMA MainThreadOpenInv ==
  ASSUME TypeOK, OpenInv, MainThread
  PROVE  OpenInv'
<1> USE DEF Selection
<1>1. CASE \/ FetchTree("select", "selectSeq") \/ FetchTree("check", "checkSeq")
           \/ FetchTree("gate", "gateSeq")
  BY <1>1, FetchOpenInv DEF Opening
<1>2. CASE Select
  <2>1. PICK q \in DiskseqReads :
          IF SafeToWrite(Fetched(q))
          THEN selection' = "Selected" /\ baseline' = Fetched(q) /\ born' = Len(hist)
          ELSE UNCHANGED selected
    BY <1>2 DEF Select
  <2>2. pc' \in {"start", "check", "done"} /\ hist' = hist
    BY <1>2 DEF Select, AfterSelect, deviceVars
  <2>3. Fetched(q).seq = q /\ Len(hist) \in 1 .. Len(hist)
    BY ReadsAreTyped, NodeTypes DEF TypeOK, DeviceTyped
  <2>4. Recorded'
    BY <2>1, <2>2, <2>3 DEF OpenInv, Recorded, DiskseqReads, Now, selected
  <2>5. Ordered' /\ FetchedLate' /\ Judged' /\ Opened'
    BY <2>2 DEF OpenInv, Ordered, FetchedLate, Judged, Opened, Opening
  <2> QED
    BY <2>4, <2>5 DEF OpenInv
<1>3. CASE SelectFails \/ StartMonitoring \/ StartFails \/ Receive \/ StreamEnds
  <2>1. pc' \in {"start", "check", "loop", "done"} /\ UNCHANGED Selection
    BY <1>3 DEF SelectFails, AfterSelect, StartMonitoring, StartFails, Receive, StreamEnds,
                deviceVars, selected
  <2> QED
    BY <2>1, QuietOpenInv DEF Opening
<1>4. CASE Revalidate
  <2>1. PICK q \in DiskseqReads :
          selection' = IF StillSelected(Fetched(q)) THEN selection ELSE "Invalidated"
    BY <1>4 DEF Revalidate
  <2>2. /\ pc = "checkSeq" /\ pc' \in {"loop", "done", "open", "gate"}
        /\ pc' = "open" => mode = "openTest" /\ selection' = "Selected"
        /\ UNCHANGED <<hist, mode, settled, baseline, born>>
    BY <1>4 DEF Revalidate, AfterRevalidation, deviceVars
  <2>3. CASE pc' = "open"
    <3>1. StillSelected(Fetched(q))
      BY <2>1, <2>2, <2>3
    <3>2. baseline.seq # Unknown /\ Identified
      BY <2>2, <3>1, JudgementIdentifies
    <3>3. Judged'
      BY <2>2, <2>3, <3>2 DEF Judged, Identified
    <3>4. Ordered' /\ Recorded' /\ FetchedLate' /\ Opened'
      BY <2>2, <2>3 DEF OpenInv, Ordered, Recorded, FetchedLate, Opened
    <3> QED
      BY <3>3, <3>4 DEF OpenInv
  <2>4. CASE pc' # "open"
    BY <2>2, <2>4, QuietOpenInv DEF Opening
  <2> QED
    BY <2>3, <2>4
<1>5. CASE RevalidationFails
  <2>1. pc' \in {"loop", "done"} /\ UNCHANGED Selection
    BY <1>5 DEF RevalidationFails, AfterRevalidation, deviceVars
  <2> QED
    BY <2>1, QuietOpenInv DEF Opening
<1>6. CASE Gate
  <2>1. PICK q \in DiskseqReads :
          /\ current' = Fetched(q)
          /\ pc' = IF StillSelected(current') THEN "open" ELSE "done"
    BY <1>6 DEF Gate
  <2>2. pc = "gateSeq" /\ UNCHANGED <<hist, mode, half, settled, baseline, born>>
    BY <1>6 DEF Gate, deviceVars, reading, selected
  <2>3. CASE StillSelected(Fetched(q))
    <3>1. baseline.seq # Unknown /\ Fetched(q).seq = baseline.seq /\ Identified
      BY <2>2, <2>3, JudgementIdentifies
    <3>2. pc' = "open" /\ current'.seq = baseline.seq
      BY <2>1, <2>3, <3>1
    <3>3. Judged'
      BY <2>2, <3>1, <3>2 DEF Judged, Identified
    <3>4. Ordered' /\ Recorded' /\ FetchedLate' /\ Opened'
      BY <2>2, <3>2 DEF OpenInv, Ordered, Recorded, FetchedLate, Opened
    <3> QED
      BY <3>3, <3>4 DEF OpenInv
  <2>4. CASE ~StillSelected(Fetched(q))
    <3>1. pc' = "done"
      BY <2>1, <2>4
    <3> QED
      BY <2>2, <3>1, QuietOpenInv DEF Opening
  <2> QED
    BY <2>3, <2>4
<1>7. CASE GateFails \/ Close
  BY <1>7, QuietOpenInv DEF GateFails, Close, deviceVars, selected, Opening
<1>8. CASE OpenDevice
  <2>1. /\ pc = "open" /\ UNCHANGED <<hist, mode, settled, baseline, born, current>>
        /\ \/ pc' = "bind" /\ fd'.seq = Now.seq /\ fd'.drive = Now.drive
           \/ pc' = "done"
    BY <1>8 DEF OpenDevice, deviceVars, reading, selected
  <2>2. Len(hist) \in 1 .. Len(hist) /\ Now = hist[Len(hist)]
    BY NodeTypes DEF TypeOK, DeviceTyped, Now
  <2>3. Opened'
    BY <2>1, <2>2 DEF Opened
  <2>4. baseline.seq # Unknown /\ (mode # "openTest" => current.seq = baseline.seq) /\ Identified
    BY <2>1 DEF OpenInv, Judged, Opening
  <2>5. Identified'
    BY <2>1, <2>4 DEF Identified
  <2>6. mode' = mode /\ baseline' = baseline /\ current' = current
    BY <2>1
  <2>8. Judged'
    BY <2>4, <2>5, <2>6 DEF Judged
  <2>7. Ordered' /\ Recorded' /\ FetchedLate'
    BY <2>1 DEF OpenInv, Ordered, Recorded, FetchedLate
  <2> QED
    BY <2>3, <2>7, <2>8 DEF OpenInv
<1>9. CASE BindFd
  <2>1. pc = "bind" /\ UNCHANGED <<hist, mode, settled, baseline, born, current>>
    BY <1>9 DEF BindFd, deviceVars, reading, selected
  <2>2. PICK q \in {Unknown, fd.seq} :
          IF FdMatches(Expected, q, fd.drive) THEN pc' = "bound" /\ UNCHANGED fd
          ELSE pc' = "done" /\ fd' = [fd EXCEPT !.open = FALSE]
    BY <1>9 DEF BindFd
  <2>3. Expected.seq = baseline.seq
    BY <2>1 DEF OpenInv, Judged, Opening, Expected
  <2>4. CASE FdMatches(Expected, q, fd.drive)
    <3>1. pc' = "bound" /\ fd' = fd /\ fd.seq = baseline.seq
      BY <2>2, <2>3, <2>4 DEF FdMatches
    <3>2. Opened'
      BY <2>1, <3>1 DEF OpenInv, Opened
    <3>3. Judged'
      BY <2>1 DEF OpenInv, Judged, Identified, Opening
    <3>4. Ordered' /\ Recorded' /\ FetchedLate'
      BY <2>1, <3>1 DEF OpenInv, Ordered, Recorded, FetchedLate
    <3> QED
      BY <3>2, <3>3, <3>4 DEF OpenInv
  <2>5. CASE ~FdMatches(Expected, q, fd.drive)
    <3>1. pc' = "done"
      BY <2>2, <2>5
    <3> QED
      BY <2>1, <3>1, QuietOpenInv DEF Opening
  <2> QED
    BY <2>4, <2>5
<1> QED
  BY <1>1, <1>2, <1>3, <1>4, <1>5, <1>6, <1>7, <1>8, <1>9 DEF MainThread

\* A longer history makes no number the number of another drive.
LEMMA DeviceOpenInv ==
  ASSUME TypeOK, OpenInv, UDisksNotices \/ KernelMoves
  PROVE  OpenInv'
<1>1. UNCHANGED <<mode, pc, half, settled, baseline, born, current, fd>>
  BY DEF UDisksNotices, KernelMoves, reading, selected
<1>2. /\ DeviceTyped /\ DeviceTyped'
      /\ Len(hist) \in 1 .. Len(hist) /\ Len(hist) \in Nat /\ Len(hist') \in Nat
      /\ Len(hist) <= Len(hist') /\ Len(hist') <= Len(hist) + 1
      /\ \A i \in 1 .. Len(hist) : i \in 1 .. Len(hist') /\ hist'[i] = hist[i]
      /\ \A i \in 1 .. Len(hist') : i > Len(hist) =>
           /\ hist'[i].seq >= Now.seq
           /\ hist'[i].seq = Now.seq => hist'[i].drive = Now.drive
  <2>1. DeviceTyped
    BY DEF TypeOK, DeviceTyped
  <2> QED
    BY <2>1, HistoryGrows, NodeTypes DEF DeviceTyped
<1>3. /\ \A i \in 1 .. Len(hist) : hist[i].seq \in Nat
      /\ \A i \in 1 .. Len(hist') : hist'[i].seq \in Nat
      /\ Now.seq \in Nat
  <2>1. \A s \in Seq(Node) : \A i \in 1 .. Len(s) : s[i] \in Node
    OBVIOUS
  <2>2. \A x \in Node : x.seq \in Nat
    BY DEF Node
  <2> QED
    BY <1>2, <2>1, <2>2 DEF DeviceTyped, Now
<1>4. \A i \in 1 .. Len(hist) :
        /\ hist[i].seq <= Now.seq
        /\ hist[i].seq = Now.seq => hist[i].drive = Now.drive
  BY <1>2 DEF OpenInv, Ordered, Now
<1>5. Ordered'
  <2> SUFFICES ASSUME NEW m \in 1 .. Len(hist'), NEW n \in 1 .. Len(hist')
               PROVE  /\ m <= n => hist'[m].seq <= hist'[n].seq
                      /\ hist'[m].seq = hist'[n].seq => hist'[m].drive = hist'[n].drive
    BY DEF Ordered
  <2>1. CASE m \in 1 .. Len(hist) /\ n \in 1 .. Len(hist)
    BY <1>2, <2>1 DEF OpenInv, Ordered
  <2>2. CASE m \in 1 .. Len(hist) /\ n > Len(hist)
    BY <1>2, <1>3, <1>4, <2>2
  <2>3. CASE m > Len(hist) /\ n \in 1 .. Len(hist)
    <3>1. ~(m <= n)
      BY <1>2, <2>3
    <3> QED
      BY <1>2, <1>3, <1>4, <2>3, <3>1
  <2>4. CASE m > Len(hist) /\ n > Len(hist)
    <3>1. m = n
      BY <1>2, <2>4
    <3> QED
      BY <1>3, <3>1
  <2> QED
    BY <1>2, <2>1, <2>2, <2>3, <2>4
<1>6. Recorded' /\ FetchedLate' /\ Opened'
  BY <1>1, <1>2 DEF OpenInv, Recorded, FetchedLate, Opened
<1>7. ASSUME baseline.seq # Unknown, Identified PROVE Identified'
  <2>1. born \in 1 .. Len(hist) /\ hist[born].seq = baseline.seq
    BY <1>7 DEF OpenInv, Recorded
  <2> SUFFICES ASSUME settled, NEW i \in 1 .. Len(hist'), hist'[i].seq = baseline.seq
               PROVE  SameIdentity(baseline, hist'[i])
    BY <1>1 DEF Identified
  <2>2. CASE i \in 1 .. Len(hist)
    BY <1>2, <1>7, <2>2 DEF Identified
  <2>3. CASE i > Len(hist)
    <3>1. hist'[i].seq = Now.seq /\ hist'[i].drive = Now.drive /\ hist[born].drive = Now.drive
      BY <1>2, <1>3, <1>4, <2>1, <2>3
    <3>2. SameIdentity(baseline, hist[born])
      BY <1>7, <2>1 DEF Identified
    <3> QED
      BY <3>1, <3>2 DEF SameIdentity
  <2> QED
    BY <1>2, <2>2, <2>3
<1>8. Judged'
  BY <1>1, <1>7 DEF OpenInv, Judged
<1> QED
  BY <1>5, <1>6, <1>8 DEF OpenInv

\* The descriptor that open-test or prepare-test finds to match is of the selected
\* instance, and of the selected identity where the last judgement's tree was not older
\* than the selection's number (check_fd_binding, finalize_prepared_write).
THEOREM TestsOpenTheSelected == Spec => []OpenedIsSelected
<1>1. Init => OpenInv
  <2> SUFFICES ASSUME Init PROVE OpenInv
    OBVIOUS
  <2>1. pc = "select" /\ baseline.seq = Unknown /\ Ordered
    BY InitTypes DEF Init, NoSnapshot
  <2> QED
    BY <2>1 DEF OpenInv, Recorded, FetchedLate, Judged, Opened, Opening
<1>2. TypeOK /\ OpenInv /\ [Next]_vars => OpenInv'
  <2> SUFFICES ASSUME TypeOK, OpenInv, [Next]_vars PROVE OpenInv'
    OBVIOUS
  <2>1. ASSUME NEW k \in Kinds, Subscribe(k) \/ WatcherFails(k) \/ Forward(k) PROVE OpenInv'
    BY <2>1, StillOpenInv
    DEF Subscribe, WatcherFails, Forward, Selection, deviceVars, selected
  <2>2. CASE ConnectionLost \/ OtherSignal \/ UNCHANGED vars
    BY <2>2, StillOpenInv
    DEF ConnectionLost, OtherSignal, vars, Selection, deviceVars, selected
  <2> QED
    BY <2>1, <2>2, MainThreadOpenInv, DeviceOpenInv DEF Next
<1>3. TypeOK /\ OpenInv => OpenedIsSelected
  <2> SUFFICES ASSUME OpenInv, pc = "bound"
               PROVE  fd.seq = baseline.seq /\ (settled => SameIdentity(fd, baseline))
    BY DEF OpenedIsSelected
  <2>1. PICK i \in 1 .. Len(hist) : hist[i].seq = fd.seq /\ hist[i].drive = fd.drive
    BY DEF OpenInv, Opened
  <2>2. fd.seq = baseline.seq /\ Identified
    BY DEF OpenInv, Opened, Judged, Opening
  <2> QED
    BY <2>1, <2>2 DEF Identified, SameIdentity
<1> QED
  BY <1>1, <1>2, <1>3, ContinuityIsTyped, PTL DEF Spec
=============================================================================
