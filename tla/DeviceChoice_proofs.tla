------------------------- MODULE DeviceChoice_proofs -------------------------
(***************************************************************************)
(* What holds of the main view for any number of files, drives, paths,     *)
(* choices and events.                                                     *)
(***************************************************************************)
EXTENDS DeviceChoice, FiniteSetTheorems, TLAPS

\* The kernel of the invariant.  Image: the answer that is awaited is the only one
\* of its generation, and no answer is from the future.
ImageInv ==
  /\ generation \in Nat
  /\ inspections \subseteq [file : Files, generation : Nat]
  /\ \A job \in inspections :
       /\ job.generation <= generation
       /\ job.generation = generation => job.file = wanted /\ image.phase = "Inspecting"
       /\ \A other \in inspections : other.generation = job.generation => other = job
  /\ image.phase = "Inspecting" => \E job \in inspections : job.generation = generation
  /\ image.file = wanted

\* Lists are indexed from 1, and an index is into the list that is shown.
TargetInv ==
  /\ DOMAIN candidates \subseteq Nat \ {0}
  /\ DOMAIN listing.found \subseteq Nat \ {0}
  /\ selected \in DOMAIN candidates \cup {0}
  /\ SelectedIsHeld
  /\ discovery = "Loading" => DOMAIN candidates = {}
  /\ discovery \in {"Loading", "Listed", "Failed"}

\* A loss is remembered by the choice itself.
LossInv ==
  /\ lost \in BOOLEAN
  /\ lost => selected = 0 /\ choice.cleared # None

\* A preference exists once the user has asked, and only a weaker one gives way.
VerifyInv ==
  /\ VerifyNeverWeaker
  /\ verify.preferred = None <=> asked = None
  /\ asked \in Modes \cup {None}
  /\ verify = [mode |-> verify.mode, preferred |-> verify.preferred, notice |-> verify.notice]

-----------------------------------------------------------------------------
(* The image.                                                              *)

\* The image shown is the one chosen last, however many inspections are under way
\* and in whatever order they end (inspect's generation check).
THEOREM TheChosenImageIsShown == Spec => []ShownImageIsTheChosenOne
<1>1. Init => ImageInv
  BY DEF Init, ImageInv, NoImage
<1>2. ImageInv /\ [Next]_vars => ImageInv'
  <2> SUFFICES ASSUME ImageInv, [Next]_vars PROVE ImageInv'
    OBVIOUS
  <2>1. CASE UNCHANGED imageSide
    BY <2>1 DEF ImageInv, imageSide
  <2>2. ASSUME NEW f \in Files, Inspect(f) PROVE ImageInv'
    <3> DEFINE new == [file |-> f, generation |-> generation + 1]
    <3>1. /\ generation' = generation + 1 /\ generation' \in Nat
          /\ image'.phase = "Inspecting" /\ image'.file = f /\ wanted' = f
          /\ inspections' = inspections \cup {new}
      BY <2>2 DEF Inspect, ImageInv
    <3>2. /\ new \in inspections' /\ new.generation = generation' /\ new.file = f
          /\ new \in [file : Files, generation : Nat]
      BY <3>1
    <3>3. \A job \in inspections : job.generation \in Nat /\ job.generation < generation'
      BY <3>1 DEF ImageInv
    <3> HIDE DEF new
    <3>4. ASSUME NEW job \in inspections'
          PROVE  /\ job.generation <= generation'
                 /\ job.generation = generation' => job.file = wanted'
                 /\ \A other \in inspections' : other.generation = job.generation => other = job
      BY <3>1, <3>2, <3>3, <3>4 DEF ImageInv
    <3> QED
      BY <3>1, <3>2, <3>4 DEF ImageInv
  <2>3. ASSUME NEW job \in inspections, InspectionEnds(job) PROVE ImageInv'
    <3>1. CASE Awaited(job)
      <4>1. image'.phase # "Inspecting" /\ image'.file = job.file
        BY <2>3, <3>1 DEF InspectionEnds, InspectionReady, InspectionFails
      <4>2. \A other \in inspections' : other.generation # generation
        BY <2>3, <3>1 DEF InspectionEnds, ImageInv, Awaited
      <4> QED
        BY <2>3, <3>1, <4>1, <4>2 DEF InspectionEnds, ImageInv, Awaited
    <3>2. CASE ~Awaited(job)
      BY <2>3, <3>2 DEF InspectionEnds, ImageInv, Awaited
    <3> QED
      BY <3>1, <3>2
  <2>4. CASE Done
    BY <2>4 DEF Done, ImageInv, NoImage
  <2> QED
    BY <2>1, <2>2, <2>3, <2>4
    DEF Next, vars, Environment, Plug, Unplug, ChangeUse, DeviceChanges, Poll, ListCandidates,
        TakeList, ListingFailed, SelectTarget, ChooseVerify, StartOperation, OperationEnds,
        OperationDeclined, RemovalStarts, RemovalEnds, WriteAgain, WriteAnother
<1>3. ImageInv => ShownImageIsTheChosenOne
  BY DEF ImageInv, ShownImageIsTheChosenOne
<1> QED
  BY <1>1, <1>2, <1>3, PTL DEF Spec

-----------------------------------------------------------------------------
(* The Verify mode.                                                        *)

\* The Verify mode in effect is never weaker than the one the user last asked for,
\* and never one the image cannot do (VerifyState).
THEOREM VerifyIsNotWeakened == Spec => []VerifyNeverWeaker
<1> USE ChoiceAssumption DEF Modes
<1>1. Init => VerifyInv
  BY DEF Init, VerifyInv, VerifyNeverWeaker, NoImage, Ready
<1>2. VerifyInv /\ [Next]_vars => VerifyInv'
  <2> SUFFICES ASSUME VerifyInv, [Next]_vars PROVE VerifyInv'
    OBVIOUS
  <2>1. CASE UNCHANGED <<image, mode>>
    BY <2>1 DEF VerifyInv, VerifyNeverWeaker, mode, Ready, Supports
  <2>2. ASSUME NEW f \in Files, Inspect(f) PROVE VerifyInv'
    BY <2>2 DEF Inspect, VerifyInv, VerifyNeverWeaker, mode, Ready
  <2>3. ASSUME NEW job \in inspections, InspectionEnds(job) PROVE VerifyInv'
    <3>1. CASE Awaited(job) /\ InspectionReady(job)
      <4>1. PICK info \in Infos :
              /\ image' = [phase |-> "Ready", file |-> job.file, info |-> info]
              /\ verify' = ForImage(info)
        BY <3>1 DEF InspectionReady
      <4>2. asked' = asked
        BY <2>3 DEF InspectionEnds
      <4>3. CASE verify.preferred = None
        BY <4>1, <4>2, <4>3 DEF ForImage, Supports, VerifyInv, VerifyNeverWeaker, Ready
      <4>4. CASE verify.preferred # None /\ Supports(info, verify.preferred)
        BY <4>1, <4>2, <4>4 DEF ForImage, Supports, VerifyInv, VerifyNeverWeaker, Ready
      <4>5. CASE verify.preferred # None /\ ~Supports(info, verify.preferred)
        BY <4>1, <4>2, <4>5 DEF ForImage, Supports, VerifyInv, VerifyNeverWeaker, Ready
      <4> QED
        BY <4>3, <4>4, <4>5
    <3>2. CASE Awaited(job) /\ InspectionFails(job)
      BY <2>3, <3>2 DEF InspectionEnds, InspectionFails, VerifyInv, VerifyNeverWeaker, Ready
    <3>3. CASE ~Awaited(job)
      BY <2>1, <2>3, <3>3 DEF InspectionEnds, mode
    <3> QED
      BY <2>3, <3>1, <3>2, <3>3 DEF InspectionEnds
  <2>4. ASSUME NEW m \in Modes, ChooseVerify(m) PROVE VerifyInv'
    BY <2>4 DEF ChooseVerify, VerifyInv, VerifyNeverWeaker, imageSide, Ready, Supports
  <2>5. CASE Done
    BY <2>5 DEF Done, VerifyInv, VerifyNeverWeaker, NoImage, Ready
  <2> QED
    BY <2>1, <2>2, <2>3, <2>4, <2>5
    DEF Next, vars, imageSide, Environment, Plug, Unplug, ChangeUse, DeviceChanges, Poll,
        ListCandidates, TakeList, ListingFailed, SelectTarget, StartOperation, OperationEnds,
        OperationDeclined, RemovalStarts, RemovalEnds, WriteAgain, WriteAnother
<1>3. VerifyInv => VerifyNeverWeaker
  BY DEF VerifyInv
<1> QED
  BY <1>1, <1>2, <1>3, PTL DEF Spec

-----------------------------------------------------------------------------
(* The target.                                                             *)

\* Whatever list and image it is given, reconcile leaves an index into that list
\* and the entry under it, or nothing; a loss it reports has a reason, and an
\* instance it keeps is the one that was held.
LEMMA ReconcileSound ==
  ASSUME NEW list, NEW img, DOMAIN list \subseteq Nat \ {0},
         ReconcileTargets(list, img), selected = 0 => choice.held = None, LossInv
  PROVE  /\ selected' \in DOMAIN list \cup {0}
         /\ selected' = 0 => choice'.held = None
         /\ selected' # 0 => choice'.held = list[selected'] /\ Available(img, list[selected'])
         /\ LossInv'
         /\ choice'.held # None /\ (choice.held # None \/ lost)
              => choice.held # None /\ choice'.held.seq = choice.held.seq
<1> DEFINE found == {i \in DOMAIN list : IsSameDeviceAs(list[i], choice.held)}
           available == {i \in DOMAIN list : Available(img, list[i])}
           why == choice'.cleared
<1> USE ChoiceAssumption DEF Reasons
<1>1. /\ choice' = Reconcile(list, img).choice
      /\ selected' = Reconcile(list, img).selected
      /\ lost' \in BOOLEAN /\ lost \in BOOLEAN
      /\ lost' <=> lost \/ (choice.held # None /\ selected' = 0)
  BY DEF ReconcileTargets, LossInv
<1>2. CASE choice.held # None /\ found = {}
  BY <1>1, <1>2 DEF Reconcile, Lost, NoChoice, LossInv
<1>3. CASE choice.held # None /\ found # {}
  <2> DEFINE i == CHOOSE i \in found : TRUE
  <2>1. i \in DOMAIN list /\ IsSameDeviceAs(list[i], choice.held)
    BY <1>3
  <2>2. Reconcile(list, img) = Kept(list, i, img)
    BY <1>3 DEF Reconcile
  <2> HIDE DEF i, found, available
  <2>3. ~lost /\ i \in Nat \ {0}
    BY <1>3, <2>1 DEF LossInv
  <2>4. CASE Available(img, list[i])
    <3>1. Kept(list, i, img) = Selection(list, i, choice.origin)
      BY <2>4 DEF Kept, Available
    <3>2. choice'.held = list[i] /\ selected' = i
      BY <1>1, <2>2, <3>1 DEF Selection
    <3>3. ~lost'
      BY <1>1, <2>3, <3>2
    <3> QED
      BY <1>1, <1>3, <2>1, <2>3, <2>4, <3>2, <3>3 DEF IsSameDeviceAs, LossInv
  <2>5. CASE ~Available(img, list[i])
    <3>1. PICK r \in Reasons : Kept(list, i, img) = Lost(r)
      BY <2>5 DEF Kept, Available
    <3>2. choice'.held = None /\ choice'.cleared = r /\ selected' = 0
      BY <1>1, <2>2, <3>1 DEF Lost, NoChoice
    <3> QED
      BY <1>1, <3>2 DEF LossInv
  <2> QED
    BY <2>4, <2>5
<1>4. CASE choice.held = None /\ choice.cleared = None /\ Ready(img) /\ Cardinality(available) = 1
  <2> DEFINE i == CHOOSE i \in available : TRUE
  <2>1. Reconcile(list, img) = Selection(list, i, "Auto")
    BY <1>4 DEF Reconcile
  <2>2. available # {}
    BY <1>4, FS_EmptySet
  <2>3. i \in DOMAIN list /\ Available(img, list[i])
    BY <2>2
  <2> HIDE DEF i, found, available
  <2>4. choice'.held = list[i] /\ selected' = i
    BY <1>1, <2>1 DEF Selection
  <2>5. ~lost /\ ~lost' /\ i # 0
    BY <1>1, <1>4, <2>3, <2>4 DEF LossInv
  <2> QED
    BY <1>1, <1>4, <2>3, <2>4, <2>5 DEF LossInv
<1>5. CASE /\ choice.held = None
           /\ ~(choice.cleared = None /\ Ready(img) /\ Cardinality(available) = 1)
  <2>1. Reconcile(list, img) = [choice |-> choice, selected |-> 0]
    BY <1>5 DEF Reconcile
  <2> HIDE DEF found, available
  <2>2. choice' = choice /\ selected' = 0 /\ lost' = lost
    BY <1>1, <1>5, <2>1
  <2> QED
    BY <1>5, <2>2 DEF LossInv
<1> QED
  BY <1>2, <1>3, <1>4, <1>5

\* Every list is indexed from 1, whatever is plugged in.
LEMMA ListedIndices == \A list \in Listed : DOMAIN list \subseteq Nat \ {0}
BY DEF Listed

\* What the target's side of the view keeps to, and what it makes of a loss.
LEMMA TargetStep ==
  ASSUME TargetInv, LossInv, [Next]_vars
  PROVE  TargetInv' /\ LossInv'
<1> USE ChoiceAssumption DEF Reasons
<1>1. selected = 0 => choice.held = None
  BY DEF TargetInv, SelectedIsHeld
<1>2. CASE UNCHANGED <<image, listed, target>> /\ DOMAIN listing'.found \subseteq Nat \ {0}
  BY <1>2 DEF TargetInv, LossInv, SelectedIsHeld, Available, Fits, Ready, listed, target
<1>3. CASE UNCHANGED <<image, reading, listed, target>>
  BY <1>2, <1>3 DEF reading, TargetInv
<1>4. ASSUME UNCHANGED reading \/ RefreshTargets
      PROVE  DOMAIN listing'.found \subseteq Nat \ {0}
  BY <1>4 DEF reading, RefreshTargets, Unread, TargetInv
<1>5. ASSUME NEW f \in Files, Inspect(f) PROVE TargetInv' /\ LossInv'
  BY <1>5 DEF Inspect, TargetInv, LossInv, SelectedIsHeld, Available, Fits, Ready, reading,
              listed, target
<1>6. ASSUME NEW job \in inspections, InspectionEnds(job) PROVE TargetInv' /\ LossInv'
  <2>1. CASE Awaited(job)
    <3>1. ReconcileTargets(candidates, image') /\ UNCHANGED <<reading, listed>>
      BY <1>6, <2>1 DEF InspectionEnds
    <3>2. DOMAIN candidates \subseteq Nat \ {0}
      BY DEF TargetInv
    <3> QED
      BY <1>1, <3>1, <3>2, ReconcileSound DEF TargetInv, SelectedIsHeld, reading, listed
  <2>2. CASE ~Awaited(job)
    BY <1>3, <1>6, <2>2 DEF InspectionEnds
  <2> QED
    BY <2>1, <2>2
<1>7. CASE ListCandidates
  <2>1. DOMAIN listing'.found \subseteq Nat \ {0}
    BY <1>7, ListedIndices DEF ListCandidates, Unread
  <2> QED
    BY <1>2, <1>7, <2>1 DEF ListCandidates, imageSide
<1>8. CASE TakeList
  <2>1. /\ ReconcileTargets(listing.found, image) /\ UNCHANGED image
        /\ candidates' = listing.found /\ discovery' = "Listed" /\ listing' = Unread
    BY <1>8 DEF TakeList, imageSide
  <2>2. DOMAIN listing.found \subseteq Nat \ {0} /\ DOMAIN Unread.found = {}
    BY DEF TargetInv, Unread
  <2> QED
    BY <1>1, <2>1, <2>2, ReconcileSound
    DEF TargetInv, SelectedIsHeld, Available, Fits, Ready
<1>9. CASE ListingFailed
  BY <1>9 DEF ListingFailed, TargetInv, LossInv, SelectedIsHeld, Available, Fits, Ready,
              imageSide, target, Unread
<1>10. ASSUME NEW i \in DOMAIN candidates, SelectTarget(i) PROVE TargetInv' /\ LossInv'
  BY <1>10 DEF SelectTarget, Selection, TargetInv, LossInv, SelectedIsHeld, Available, Fits,
               Ready, imageSide, reading, listed
<1>11. CASE WriteAnother \/ Done
  <2>1. /\ selected' = 0 /\ choice'.held = None /\ lost' \in BOOLEAN
        /\ lost' => choice'.cleared # None
        /\ UNCHANGED listed
    <3>1. CASE WriteAnother
      BY <3>1 DEF WriteAnother, NoChoice
    <3>2. CASE Done
      BY <3>2 DEF Done, NoChoice
    <3> QED
      BY <1>11, <3>1, <3>2
  <2>2. DOMAIN listing'.found \subseteq Nat \ {0}
    BY <1>4, <1>11 DEF WriteAnother, Done, BackToMain
  <2> QED
    BY <2>1, <2>2 DEF TargetInv, LossInv, SelectedIsHeld, listed
<1>12. CASE Poll \/ OperationDeclined \/ WriteAgain
  BY <1>2, <1>4, <1>12 DEF Poll, OperationDeclined, WriteAgain, BackToMain, imageSide
<1> QED
  BY <1>3, <1>5, <1>6, <1>7, <1>8, <1>9, <1>10, <1>11, <1>12
  DEF Next, vars, imageSide, Environment, Plug, Unplug, ChangeUse, DeviceChanges, ChooseVerify,
      StartOperation, OperationEnds, RemovalStarts, RemovalEnds

LEMMA TargetInvariant == Spec => [](TargetInv /\ LossInv)
<1>1. Init => TargetInv /\ LossInv
  <2> SUFFICES ASSUME Init PROVE TargetInv /\ LossInv
    OBVIOUS
  <2>1. candidates = <<>> /\ listing.found = <<>> /\ discovery = "Loading"
    BY DEF Init, Unread
  <2>2. selected = 0 /\ choice.held = None /\ lost = FALSE
    BY DEF Init, NoChoice
  <2>3. TargetInv
    BY <2>1, <2>2 DEF TargetInv, SelectedIsHeld
  <2>4. LossInv
    BY <2>2 DEF LossInv
  <2> QED
    BY <2>3, <2>4
<1> QED
  BY <1>1, TargetStep, PTL DEF Spec

\* The drive that is highlighted is the one the write will name, as listed, free and
\* large enough, through every list and image that replaces another (reconcile).
THEOREM TheHighlightedDriveIsHeld == Spec => []SelectedIsHeld
<1>1. TargetInv => SelectedIsHeld
  BY DEF TargetInv
<1> QED
  BY <1>1, TargetInvariant, PTL

\* A drive the user holds, or has lost, gives way to another instance by his own
\* pick alone, whatever is plugged in and however lists and images follow each other.
THEOREM ReplacedByTheUserAlone == Spec => OnlyTheUserReplaces
<1> DEFINE Step ==
      choice'.held # None /\ (choice.held # None \/ lost)
        => \/ choice.held # None /\ choice'.held.seq = choice.held.seq
           \/ choice'.origin = "Manual" /\ UNCHANGED <<listed, image>>
<1>1. TargetInv /\ LossInv /\ [Next]_vars => Step
  <2> SUFFICES ASSUME TargetInv, LossInv, [Next]_vars PROVE Step
    OBVIOUS
  <2>1. selected = 0 => choice.held = None
    BY DEF TargetInv, SelectedIsHeld
  <2>2. CASE UNCHANGED target
    BY <2>1, <2>2 DEF target, LossInv
  <2>3. ASSUME NEW list, NEW img, DOMAIN list \subseteq Nat \ {0}, ReconcileTargets(list, img)
        PROVE  Step
    BY <2>1, <2>3, ReconcileSound
  <2>4. ASSUME NEW job \in inspections, InspectionEnds(job) PROVE Step
    <3>1. DOMAIN candidates \subseteq Nat \ {0}
      BY DEF TargetInv
    <3>2. ReconcileTargets(candidates, image') \/ UNCHANGED target
      BY <2>4 DEF InspectionEnds
    <3> QED
      BY <2>2, <2>3, <3>1, <3>2
  <2>5. CASE TakeList
    <3>1. DOMAIN listing.found \subseteq Nat \ {0}
      BY DEF TargetInv
    <3>2. ReconcileTargets(listing.found, image)
      BY <2>5 DEF TakeList
    <3> QED
      BY <2>3, <3>1, <3>2
  <2>6. ASSUME NEW i \in DOMAIN candidates, SelectTarget(i) PROVE Step
    BY <2>6 DEF SelectTarget, Selection, imageSide
  <2>7. CASE WriteAnother
    BY <2>7 DEF WriteAnother, NoChoice
  <2>8. CASE Done
    BY <2>8 DEF Done, NoChoice
  <2> QED
    BY <2>2, <2>4, <2>5, <2>6, <2>7, <2>8
    DEF Next, vars, Environment, Plug, Unplug, ChangeUse, DeviceChanges, Inspect, Poll,
        ListCandidates, ListingFailed, ChooseVerify, StartOperation, OperationEnds,
        OperationDeclined, RemovalStarts, RemovalEnds, WriteAgain
<1>2. Spec => [][Step]_vars
  BY <1>1, TargetInvariant, PTL DEF Spec
<1> QED
  BY <1>2 DEF OnlyTheUserReplaces

\* What a write is asked for is what the view shows: the chosen image, a listed drive,
\* a list that could be read, no skipped Verify the user did not ask for.
THEOREM WritesWhatIsShown == Spec => StartsWithWhatIsShown
<1> DEFINE Shown ==
      /\ request'.file = wanted
      /\ \E i \in DOMAIN candidates : candidates[i] = request'.target
      /\ discovery = "Listed"
      /\ asked = "Skip" \/ request'.mode # "Skip"
           Step == request' # None /\ request = None => Shown
<1>1. ShownImageIsTheChosenOne /\ VerifyNeverWeaker /\ TargetInv /\ [Next]_vars => Step
  <2> SUFFICES ASSUME ShownImageIsTheChosenOne, VerifyNeverWeaker, TargetInv, [Next]_vars
               PROVE  Step
    OBVIOUS
  <2>1. CASE StartOperation
    <3>1. request' = [target |-> choice.held, file |-> image.file, mode |-> verify.mode]
      BY <2>1 DEF StartOperation
    <3>2. image.file = wanted
      BY DEF ShownImageIsTheChosenOne
    <3>3. selected \in DOMAIN candidates /\ candidates[selected] = choice.held
      BY <2>1 DEF StartOperation, WriteReady, TargetInv, SelectedIsHeld
    <3>4. discovery = "Listed"
      BY <2>1, <3>3 DEF StartOperation, WriteReady, TargetInv
    <3>5. asked = "Skip" \/ verify.mode # "Skip"
      BY <2>1 DEF StartOperation, WriteReady, VerifyNeverWeaker
    <3> QED
      BY <3>1, <3>2, <3>3, <3>4, <3>5
  <2>2. CASE UNCHANGED request \/ request' = None
    BY <2>2
  <2> QED
    BY <2>1, <2>2
    DEF Next, vars, writing, Environment, Plug, Unplug, ChangeUse, DeviceChanges, Inspect,
        InspectionEnds, Poll, ListCandidates, TakeList, ListingFailed, SelectTarget,
        ChooseVerify, OperationEnds, OperationDeclined, RemovalStarts, RemovalEnds,
        WriteAgain, WriteAnother, Done
<1>2. Spec => [][Step]_vars
  BY <1>1, TheChosenImageIsShown, VerifyIsNotWeakened, TargetInvariant, PTL DEF Spec
<1> QED
  BY <1>2 DEF StartsWithWhatIsShown

-----------------------------------------------------------------------------
(* Types.                                                                  *)

\* An image that is ready has a file, and so has the request that names it.
TypeInv == TypeOK /\ (Ready(image) => image.file \in Files)

\* The parts of it.
ImageTyped ==
  /\ image \in [phase : {"Missing", "Inspecting", "Ready", "Failed"},
                file : Files \cup {None}, info : Infos]
  /\ generation \in 0 .. MaxChoices
  /\ inspections \subseteq [file : Files, generation : 1 .. MaxChoices]
  /\ wanted \in Files \cup {None}
  /\ Ready(image) => image.file \in Files

ListTyped ==
  /\ candidates \in Seq(Candidate) /\ discovery \in {"Loading", "Listed", "Failed"}
  /\ refreshing \in BOOLEAN
  /\ listing.state \in {"none", "running", "read", "failed"}
  /\ listing.found \in Seq(Candidate)

TargetTyped ==
  /\ choice.held \in Candidate \cup {None}
  /\ choice.origin \in {"Auto", "Manual", None}
  /\ choice.cleared \in Reasons \cup {None}
  /\ selected \in 0 .. Len(candidates)
  /\ lost \in BOOLEAN

RestTyped ==
  /\ ports \in [Ports -> Disk \cup {None}] /\ events \in 0 .. MaxEvents
  /\ verify \in [mode : Modes, preferred : Modes \cup {None}, notice : Modes \cup {None}]
  /\ asked \in Modes \cup {None}
  /\ operation \in {"none", "running", "ended", "removing"}
  /\ request \in [target : Candidate, file : Files, mode : Modes] \cup {None}

LEMMA TypeParts == TypeInv <=> ImageTyped /\ ListTyped /\ TargetTyped /\ RestTyped
BY DEF TypeInv, TypeOK, ImageTyped, ListTyped, TargetTyped, RestTyped

\* A listing is a sequence: a finite number of paths, each with its device.
LEMMA ListedType ==
  ASSUME TypeOK
  PROVE  Listed \subseteq Seq(Candidate)
<1> DEFINE plugged == {p \in Ports : ports[p] # None}
           entry(p) == [port |-> p, drive |-> ports[p].drive,
                        seq |-> ports[p].seq, free |-> ports[p].free]
<1>1. Cardinality(plugged) \in Nat
  BY ChoiceAssumption, FS_Subset, FS_CardinalityType
<1>2. {entry(p) : p \in plugged} \subseteq Candidate
  BY DEF TypeOK, Disk, Candidate
<1>3. Listed \subseteq [1 .. Cardinality(plugged) -> {entry(p) : p \in plugged}]
  BY DEF Listed
<1> HIDE DEF plugged, entry
<1> QED
  BY <1>1, <1>2, <1>3

LEMMA ReconcileType ==
  ASSUME TypeOK, NEW list \in Seq(Candidate), NEW img, ReconcileTargets(list, img)
  PROVE  /\ choice'.held \in Candidate \cup {None}
         /\ choice'.origin \in {"Auto", "Manual", None}
         /\ choice'.cleared \in Reasons \cup {None}
         /\ selected' \in 0 .. Len(list)
         /\ lost' \in BOOLEAN
<1> DEFINE Typed(r) == /\ r.choice.held \in Candidate \cup {None}
                       /\ r.choice.origin \in {"Auto", "Manual", None}
                       /\ r.choice.cleared \in Reasons \cup {None}
                       /\ r.selected \in 0 .. Len(list)
<1>1. \A why \in Reasons : Typed(Lost(why))
  BY DEF Lost, NoChoice
<1>2. \A i \in DOMAIN list, how \in {"Auto", "Manual", None} : Typed(Selection(list, i, how))
  BY DEF Selection
<1>3. \A i \in DOMAIN list : Typed(Kept(list, i, img))
  <2> TAKE i \in DOMAIN list
  <2>1. choice.origin \in {"Auto", "Manual", None}
    BY DEF TypeOK
  <2>2. Kept(list, i, img) \in {Lost("NoLongerSelectable"), Lost("TooSmall"),
                                Selection(list, i, choice.origin)}
    BY DEF Kept
  <2> HIDE DEF Typed
  <2> QED
    BY <1>1, <1>2, <2>1, <2>2 DEF Reasons
<1>4. Typed(Reconcile(list, img))
  <2> DEFINE found == {i \in DOMAIN list : IsSameDeviceAs(list[i], choice.held)}
             available == {i \in DOMAIN list : Available(img, list[i])}
  <2>1. CASE choice.held # None /\ found = {}
    BY <1>1, <2>1 DEF Reconcile, Reasons
  <2>2. CASE choice.held # None /\ found # {}
    <3>1. (CHOOSE i \in found : TRUE) \in DOMAIN list
      BY <2>2
    <3>2. Reconcile(list, img) = Kept(list, CHOOSE i \in found : TRUE, img)
      BY <2>2 DEF Reconcile
    <3> HIDE DEF Typed, found
    <3> QED
      BY <1>3, <3>1, <3>2
  <2>3. CASE choice.held = None /\ choice.cleared = None /\ Ready(img) /\ Cardinality(available) = 1
    <3>1. available # {}
      <4>1. Cardinality(available) # 0
        BY <2>3
      <4> HIDE DEF available
      <4> QED
        BY <4>1, FS_EmptySet
    <3>2. (CHOOSE i \in available : TRUE) \in DOMAIN list
      BY <3>1
    <3>3. Reconcile(list, img) = Selection(list, CHOOSE i \in available : TRUE, "Auto")
      BY <2>3 DEF Reconcile
    <3> HIDE DEF Typed, available
    <3> QED
      BY <1>2, <3>2, <3>3
  <2>4. CASE /\ choice.held = None
             /\ ~(choice.cleared = None /\ Ready(img) /\ Cardinality(available) = 1)
    <3>1. Reconcile(list, img) = [choice |-> choice, selected |-> 0]
      BY <2>4 DEF Reconcile
    <3> HIDE DEF available
    <3> QED
      BY <3>1 DEF TypeOK
  <2> HIDE DEF Typed, found, available
  <2> QED
    BY <2>1, <2>2, <2>3, <2>4
<1> QED
  BY <1>4 DEF ReconcileTargets

LEMMA UnreadType ==
  /\ Unread.state = "none" /\ Unread.found \in Seq(Candidate)
  /\ \A x : [Unread EXCEPT !.state = x].state = x
           /\ [Unread EXCEPT !.state = x].found \in Seq(Candidate)
<1>1. <<>> \in Seq(Candidate)
  OBVIOUS
<1> QED
  BY <1>1 DEF Unread

LEMMA RefreshType ==
  ASSUME TypeOK, RefreshTargets
  PROVE  /\ refreshing' \in BOOLEAN
         /\ listing'.state \in {"none", "running", "read", "failed"}
         /\ listing'.found \in Seq(Candidate)
BY UnreadType DEF RefreshTargets, TypeOK, reading

\* A device is plugged in, goes, or changes its use.
LEMMA DeviceType ==
  ASSUME TypeInv, Environment
  PROVE  TypeInv'
<1>1. ASSUME NEW p \in Ports, NEW disk \in Disk \cup {None}, DeviceChanges(p, disk)
      PROVE  TypeInv'
  <2>1. /\ ports' \in [Ports -> Disk \cup {None}] /\ events' \in 0 .. MaxEvents
        /\ UNCHANGED <<imageSide, reading, listed, target, mode, writing>>
    BY <1>1, ChoiceAssumption DEF DeviceChanges, TypeInv, TypeOK
  <2> QED
    BY <1>1, <2>1
  DEF DeviceChanges, TypeInv, TypeOK, Ready, imageSide, reading, listed, target, mode, writing
<1>2. ASSUME NEW p \in Ports, NEW d \in Drives, Plug(p, d) PROVE TypeInv'
  <2>1. [drive |-> d, seq |-> events + 2, free |-> TRUE] \in Disk
    BY <1>2, ChoiceAssumption DEF Disk, TypeInv, TypeOK
  <2> QED
    BY <1>1, <1>2, <2>1 DEF Plug
<1>3. ASSUME NEW p \in Ports, Unplug(p) PROVE TypeInv'
  BY <1>1, <1>3 DEF Unplug
<1>4. ASSUME NEW p \in Ports, ChangeUse(p) PROVE TypeInv'
  <2>1. ports[p] \in Disk
    BY <1>4 DEF ChangeUse, TypeInv, TypeOK
  <2>2. [ports[p] EXCEPT !.free = ~@] \in Disk
    BY <2>1 DEF Disk
  <2> QED
    BY <1>1, <1>4, <2>2 DEF ChangeUse
<1> QED
  BY <1>2, <1>3, <1>4 DEF Environment

LEMMA ForImageType ==
  ASSUME TypeOK, NEW info
  PROVE  ForImage(info) \in [mode : Modes, preferred : Modes \cup {None},
                             notice : Modes \cup {None}]
BY DEF ForImage, TypeOK, Modes

LEMMA ListingFailedType ==
  ASSUME TypeInv, ListingFailed
  PROVE  TypeInv'
<1>1. ImageTyped /\ ListTyped /\ TargetTyped /\ RestTyped
  BY TypeParts
<1>2. ImageTyped'
  BY <1>1 DEF ListingFailed, ImageTyped, imageSide, Ready
<1>3. ListTyped'
  BY <1>1, UnreadType DEF ListingFailed, ListTyped
<1>4. TargetTyped'
  BY <1>1 DEF ListingFailed, TargetTyped, target
<1>5. RestTyped'
  BY <1>1 DEF ListingFailed, RestTyped, devices, mode, writing
<1>6. (ImageTyped /\ ListTyped /\ TargetTyped /\ RestTyped)' => TypeInv'
  BY DEF TypeInv, TypeOK, ImageTyped, ListTyped, TargetTyped, RestTyped
<1> QED
  BY <1>2, <1>3, <1>4, <1>5, <1>6

LEMMA SelectTargetType ==
  ASSUME TypeInv, NEW i \in DOMAIN candidates, SelectTarget(i)
  PROVE  TypeInv'
<1>1. ImageTyped /\ ListTyped /\ TargetTyped /\ RestTyped
  BY TypeParts
<1>2. ImageTyped'
  BY <1>1 DEF SelectTarget, ImageTyped, imageSide, Ready
<1>3. ListTyped'
  BY <1>1 DEF SelectTarget, ListTyped, reading, listed
<1>4. TargetTyped'
  <2>1. i \in 1 .. Len(candidates) /\ candidates[i] \in Candidate /\ i \in 0 .. Len(candidates)
    BY <1>1 DEF ListTyped
  <2> QED
    BY <2>1 DEF SelectTarget, Selection, TargetTyped, listed
<1>5. RestTyped'
  BY <1>1 DEF SelectTarget, RestTyped, devices, mode, writing
<1>6. (ImageTyped /\ ListTyped /\ TargetTyped /\ RestTyped)' => TypeInv'
  BY DEF TypeInv, TypeOK, ImageTyped, ListTyped, TargetTyped, RestTyped
<1> QED
  BY <1>2, <1>3, <1>4, <1>5, <1>6

LEMMA DoneType ==
  ASSUME TypeInv, Done
  PROVE  TypeInv'
<1>1. ImageTyped /\ ListTyped /\ TargetTyped /\ RestTyped
  BY TypeParts
<1>2. ImageTyped'
  BY <1>1, ChoiceAssumption DEF Done, ImageTyped, NoImage, Infos, Ready
<1>3. ListTyped'
  <2>1. RefreshTargets /\ UNCHANGED listed
    BY DEF Done, BackToMain
  <2>2. /\ refreshing' \in BOOLEAN
        /\ listing'.state \in {"none", "running", "read", "failed"}
        /\ listing'.found \in Seq(Candidate)
    BY <2>1, RefreshType DEF TypeInv
  <2> QED
    BY <1>1, <2>1, <2>2 DEF ListTyped, listed
<1>4. TargetTyped'
  <2>1. 0 \in 0 .. Len(candidates)
    BY <1>1 DEF ListTyped
  <2> QED
    BY <2>1 DEF Done, NoChoice, TargetTyped, listed
<1>5. RestTyped'
  <2>1. verify.preferred \in Modes \cup {None} /\ "Quick" \in Modes
    BY <1>1 DEF RestTyped, Modes
  <2> QED
    BY <1>1, <2>1 DEF Done, BackToMain, RestTyped, devices
<1>6. (ImageTyped /\ ListTyped /\ TargetTyped /\ RestTyped)' => TypeInv'
  BY DEF TypeInv, TypeOK, ImageTyped, ListTyped, TargetTyped, RestTyped
<1> QED
  BY <1>2, <1>3, <1>4, <1>5, <1>6

LEMMA TypeStep ==
  ASSUME TypeInv, [Next]_vars
  PROVE  TypeInv'
<1> USE ChoiceAssumption DEF TypeInv, TypeOK, Ready
<1>1. CASE UNCHANGED vars
  BY <1>1 DEF vars, devices, imageSide, reading, listed, target, mode, writing
<1>2. ASSUME NEW f \in Files, Inspect(f) PROVE TypeInv'
  BY <1>2 DEF Inspect, Infos, devices, reading, listed, target, mode, writing
<1>3. ASSUME NEW job \in inspections, InspectionEnds(job) PROVE TypeInv'
  <2>1. CASE Awaited(job)
    <3>1. ReconcileTargets(candidates, image')
      BY <1>3, <2>1 DEF InspectionEnds
    <3>2. /\ choice'.held \in Candidate \cup {None}
          /\ choice'.origin \in {"Auto", "Manual", None}
          /\ choice'.cleared \in Reasons \cup {None}
          /\ selected' \in 0 .. Len(candidates)
          /\ lost' \in BOOLEAN
      BY <3>1, ReconcileType
    <3>3. /\ image' \in [phase : {"Missing", "Inspecting", "Ready", "Failed"},
                         file : Files \cup {None}, info : Infos]
          /\ image'.file \in Files
      BY <1>3, <2>1 DEF InspectionEnds, InspectionReady, InspectionFails, Infos
    <3>4. verify' \in [mode : Modes, preferred : Modes \cup {None}, notice : Modes \cup {None}]
      BY <1>3, <2>1, ForImageType DEF InspectionEnds, InspectionReady, InspectionFails
    <3> QED
      BY <1>3, <3>2, <3>3, <3>4 DEF InspectionEnds, devices, reading, listed, writing
  <2>2. CASE ~Awaited(job)
    BY <1>3, <2>2 DEF InspectionEnds, devices, reading, listed, writing, target
  <2> QED
    BY <2>1, <2>2
<1>4. CASE Poll
  BY <1>4, RefreshType DEF Poll, devices, imageSide, listed, target, mode, writing
<1>5. CASE ListCandidates
  <2>1. listing'.state \in {"none", "running", "read", "failed"} /\ listing'.found \in Seq(Candidate)
    <3>1. Listed \subseteq Seq(Candidate)
      BY ListedType
    <3>2. CASE \E list \in Listed : listing' = [state |-> "read", found |-> list]
      BY <3>1, <3>2
    <3>3. CASE listing' = [Unread EXCEPT !.state = "failed"]
      BY <3>3, UnreadType
    <3> QED
      BY <1>5, <3>2, <3>3 DEF ListCandidates
  <2> QED
    BY <1>5, <2>1 DEF ListCandidates, devices, imageSide, listed, target, mode, writing
<1>6. CASE TakeList
  <2>1. /\ choice'.held \in Candidate \cup {None}
        /\ choice'.origin \in {"Auto", "Manual", None}
        /\ choice'.cleared \in Reasons \cup {None}
        /\ selected' \in 0 .. Len(listing.found)
        /\ lost' \in BOOLEAN
    BY <1>6, ReconcileType DEF TakeList
  <2> QED
    BY <1>6, <2>1, UnreadType DEF TakeList, devices, imageSide, mode, writing
<1>9. ASSUME NEW m \in Modes, ChooseVerify(m) PROVE TypeInv'
  BY <1>9 DEF ChooseVerify, devices, imageSide, reading, listed, target, writing
<1>10. CASE StartOperation
  BY <1>10 DEF StartOperation, WriteReady, devices, imageSide, reading, listed, target, mode
<1>11. CASE OperationEnds \/ RemovalStarts \/ RemovalEnds
  BY <1>11 DEF OperationEnds, RemovalStarts, RemovalEnds, devices, imageSide, reading, listed,
               target, mode
<1>12. CASE OperationDeclined \/ WriteAgain
  BY <1>12, RefreshType
  DEF OperationDeclined, WriteAgain, BackToMain, devices, imageSide, listed, target, mode
<1>13. CASE WriteAnother
  BY <1>13, RefreshType
  DEF WriteAnother, NoChoice, BackToMain, devices, imageSide, listed, mode, Reasons
<1>15. CASE Environment
  BY <1>15, DeviceType
<1> QED
  BY <1>1, <1>2, <1>3, <1>4, <1>5, <1>6, <1>9, <1>10, <1>11, <1>12, <1>13, <1>15,
     ListingFailedType, SelectTargetType, DoneType DEF Next

\* Type correctness of the view, whatever is chosen, listed and plugged in.
THEOREM ChoiceIsTyped == Spec => []TypeOK
<1>1. Init => TypeInv
  <2> SUFFICES ASSUME Init PROVE TypeInv
    OBVIOUS
  <2>1. ports \in [Ports -> Disk \cup {None}]
    BY DEF Init, Disk
  <2>2. candidates \in Seq(Candidate)
    BY UnreadType DEF Init, Unread
  <2>3. 0 \in 0 .. MaxEvents /\ 0 \in 0 .. MaxChoices /\ 0 \in 0 .. Len(candidates)
    BY <2>2, ChoiceAssumption
  <2> QED
    BY <2>1, <2>2, <2>3, UnreadType
    DEF Init, TypeInv, TypeOK, Ready, NoImage, NoChoice, Infos, Modes
<1>2. TypeInv => TypeOK
  BY DEF TypeInv
<1> QED
  BY <1>1, <1>2, TypeStep, PTL DEF Spec
=============================================================================
