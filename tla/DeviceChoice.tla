---------------------------- MODULE DeviceChoice ----------------------------
(***************************************************************************)
(* The GUI's main view: which image, which drive and which Verify mode the *)
(* next write will name (bin/linux-image-writer: model.rs, window.rs).     *)
(*                                                                         *)
(* GTK's thread runs every handler to its end.  Inspections of images and  *)
(* listings of devices run on GIO's blocking pool meanwhile; any number of *)
(* inspections may be under way, and they end in any order.  Drives come   *)
(* and go on their own.  The operation is reduced to what the main view    *)
(* knows of it: it runs, it has ended, its drive is being removed.         *)
(***************************************************************************)
EXTENDS Naturals, Sequences, FiniteSets

CONSTANTS Files,     \* image files
          Sizes,     \* the sizes an uncompressed image may have
          Ports,     \* block paths, as the numbers they are sorted by
          Drives,    \* drives that may be plugged in
          Serial,    \* Serial[d]: the serial number drive d reports, or None
          Capacity,  \* Capacity[d]: its size
          None,      \* Option::None
          MaxChoices,\* bound on the image generation
          MaxEvents  \* bound on the devices' changes

\* VERIFY_MODES, and ClearReason.
Modes == {"Quick", "Full", "Skip"}
Reasons == {"Disappeared", "NoLongerSelectable", "TooSmall", "ChooseAnother"}

ASSUME ChoiceAssumption ==
  /\ Ports \subseteq Nat /\ IsFiniteSet(Ports) /\ Sizes \subseteq Nat
  /\ Capacity \in [Drives -> Nat \ {0}]
  /\ MaxChoices \in Nat /\ MaxEvents \in Nat
  /\ None \notin Modes \cup Reasons

VARIABLES
  ports, events,  \* what is plugged in where, and how often that has changed
  image, generation, inspections,
  candidates, discovery, refreshing, listing,
  choice, selected,
  verify,
  operation, request,
  wanted, asked,  \* what the properties remember: the image the user last chose
                  \* and has not let go, the Verify mode he last chose, and
  lost            \* that he has not picked a drive since a selection ended

devices == <<ports, events>>
imageSide == <<image, generation, inspections, wanted>>
reading == <<refreshing, listing>>
listed == <<candidates, discovery>>
target == <<choice, selected, lost>>
mode == <<verify, asked>>
writing == <<operation, request>>
vars == <<devices, imageSide, reading, listed, target, mode, writing>>

\* What an inspection finds: the logical size, None for a compressed image.
Infos == Sizes \cup {None}

\* A whole disk; `free` is the Safety Engine's verdict, Selectability.
Disk == [drive : Drives, seq : Nat \ {0}, free : BOOLEAN]
Candidate == [port : Ports, drive : Drives, seq : Nat \ {0}, free : BOOLEAN]

NoImage == [phase |-> "Missing", file |-> None, info |-> None]
NoChoice == [held |-> None, origin |-> None, cleared |-> None]
Unread == [state |-> "none", found |-> <<>>]

Init ==
  /\ events = 0
  /\ \E d \in Drives \cup {None} :
       ports = [p \in Ports |-> IF d = None \/ \E q \in Ports : q < p THEN None
                                ELSE [drive |-> d, seq |-> 1, free |-> TRUE]]
  /\ image = NoImage /\ generation = 0 /\ inspections = {} /\ wanted = None
  /\ candidates = <<>> /\ discovery = "Loading"
  /\ refreshing = TRUE /\ listing = [Unread EXCEPT !.state = "running"]
  /\ choice = NoChoice /\ selected = 0 /\ lost = FALSE
  /\ verify = [mode |-> "Quick", preferred |-> None, notice |-> None] /\ asked = None
  /\ operation = "none" /\ request = None

-----------------------------------------------------------------------------
(* Drives.                                                                 *)

DeviceChanges(p, disk) ==
  /\ events < MaxEvents
  /\ events' = events + 1
  /\ ports' = [ports EXCEPT ![p] = disk]
  /\ UNCHANGED <<imageSide, reading, listed, target, mode, writing>>

\* Every instance gets a sequence number of its own.
Plug(p, d) ==
  /\ ports[p] = None
  /\ \A q \in Ports : ports[q] # None => ports[q].drive # d
  /\ DeviceChanges(p, [drive |-> d, seq |-> events + 2, free |-> TRUE])

Unplug(p) == ports[p] # None /\ DeviceChanges(p, None)

\* Mounted, or unmounted again.
ChangeUse(p) ==
  /\ ports[p] # None
  /\ DeviceChanges(p, [ports[p] EXCEPT !.free = ~@])

-----------------------------------------------------------------------------
(* The rules of model.rs.                                                  *)

\* DeviceCandidate::is_same_device_as: TargetRef::check_against.
IsSameDeviceAs(c, held) ==
  /\ c.port = held.port
  /\ Serial[c.drive] # None /\ Serial[c.drive] = Serial[held.drive]
  /\ Capacity[c.drive] = Capacity[held.drive]
  /\ c.seq = held.seq

Ready(img) == img.phase = "Ready"

\* capacity_fit, where a compressed image's size is not known yet.
Fits(img, c) == Ready(img) /\ img.info # None => img.info <= Capacity[c.drive]

Available(img, c) == c.free /\ Fits(img, c)

\* verify_mode_supported: Quick needs random access.
Supports(info, m) == m = "Quick" => info # None

\* Mistaken variant: none is selected, but the choice stays open.
LostAndOpen(why) == [choice |-> NoChoice, selected |-> 0]

Lost(why) == [choice |-> [NoChoice EXCEPT !.cleared = why], selected |-> 0]

Selection(list, i, how) ==
  [choice |-> [held |-> list[i], origin |-> how, cleared |-> None], selected |-> i]

Kept(list, i, img) ==
  CASE ~list[i].free -> Lost("NoLongerSelectable")
    [] list[i].free /\ ~Fits(img, list[i]) -> Lost("TooSmall")
    [] OTHER -> Selection(list, i, choice.origin)

Reconcile(list, img) ==
  IF choice.held # None
  THEN LET found == {i \in DOMAIN list : IsSameDeviceAs(list[i], choice.held)}
       IN IF found = {} THEN Lost("Disappeared")
          ELSE Kept(list, CHOOSE i \in found : TRUE, img)   \* paths differ: one at most
  ELSE LET available == {i \in DOMAIN list : Available(img, list[i])}
       IN IF choice.cleared = None /\ Ready(img) /\ Cardinality(available) = 1
          THEN Selection(list, CHOOSE i \in available : TRUE, "Auto")
          ELSE [choice |-> choice, selected |-> 0]

\* reconcile_targets.
ReconcileTargets(list, img) ==
  LET r == Reconcile(list, img)
  IN /\ choice' = r.choice /\ selected' = r.selected
     /\ lost' = (lost \/ (choice.held # None /\ r.selected = 0))

\* Mistaken variant: what Quick cannot do is left undone.
ForImageSkips(info) ==
  IF Supports(info, verify.mode) THEN verify
  ELSE [verify EXCEPT !.mode = "Skip", !.notice = verify.mode]

\* VerifyState::for_image; the mode used in place of a choice becomes the choice.
ForImage(info) ==
  CASE verify.preferred = None ->
         [mode |-> IF Supports(info, "Quick") THEN "Quick" ELSE "Full",
          preferred |-> None, notice |-> None]
    [] verify.preferred # None /\ Supports(info, verify.preferred) ->
         [mode |-> verify.preferred, preferred |-> verify.preferred, notice |-> None]
    [] OTHER -> [mode |-> "Full", preferred |-> "Full", notice |-> verify.preferred]

-----------------------------------------------------------------------------
(* The image.                                                              *)

\* inspect, from the file dialog or from outside (present); the dialog is modal
\* and present takes no image while an operation or its result is shown.
Inspect(f) ==
  /\ operation = "none" /\ generation < MaxChoices
  /\ generation' = generation + 1
  /\ image' = [phase |-> "Inspecting", file |-> f, info |-> None]
  /\ inspections' = inspections \cup {[file |-> f, generation |-> generation + 1]}
  /\ wanted' = f
  /\ UNCHANGED <<devices, reading, listed, target, mode, writing>>

\* Mistaken variant: an answer is taken while one is waited for.
AwaitedByPhase(job) == image.phase = "Inspecting"

\* The answer of an older choice is dropped.
Awaited(job) == job.generation = generation

InspectionReady(job) ==
  \E info \in Infos :
    /\ image' = [phase |-> "Ready", file |-> job.file, info |-> info]
    /\ verify' = ForImage(info)

\* Mistaken variant: a panic is nobody's answer.
InspectionFailsSilently(job) == UNCHANGED <<image, verify>>

\* inspect_image refuses the file, or panics.
InspectionFails(job) ==
  /\ image' = [phase |-> "Failed", file |-> job.file, info |-> None]
  /\ UNCHANGED verify

InspectionEnds(job) ==
  /\ inspections' = inspections \ {job}
  /\ IF Awaited(job)
     THEN /\ InspectionReady(job) \/ InspectionFails(job)
          /\ ReconcileTargets(candidates, image')
     ELSE UNCHANGED <<image, verify, target>>
  /\ UNCHANGED <<devices, generation, wanted, asked, reading, listed, writing>>

-----------------------------------------------------------------------------
(* The device list.                                                        *)

\* refresh_targets does nothing while a listing is under way.
RefreshTargets ==
  IF refreshing THEN UNCHANGED reading
  ELSE refreshing' = TRUE /\ listing' = [Unread EXCEPT !.state = "running"]

\* Every two seconds, and whenever the window becomes active.
Poll ==
  /\ ~refreshing
  /\ RefreshTargets
  /\ UNCHANGED <<devices, imageSide, listed, target, mode, writing>>

\* What list_candidates reports of a moment, sorted by path; never a part of it.
Listed ==
  LET plugged == {p \in Ports : ports[p] # None}
      entry(p) == [port |-> p, drive |-> ports[p].drive,
                   seq |-> ports[p].seq, free |-> ports[p].free]
  IN {list \in [1 .. Cardinality(plugged) -> {entry(p) : p \in plugged}] :
        \A i, j \in DOMAIN list : i < j => list[i].port < list[j].port}

ListCandidates ==
  /\ listing.state = "running"
  /\ \/ \E list \in Listed : listing' = [state |-> "read", found |-> list]
     \/ listing' = [Unread EXCEPT !.state = "failed"]   \* an error, or a panic
  /\ UNCHANGED <<devices, imageSide, refreshing, listed, target, mode, writing>>

TakeList ==
  /\ listing.state = "read"
  /\ candidates' = listing.found /\ discovery' = "Listed"
  /\ ReconcileTargets(listing.found, image)
  /\ refreshing' = FALSE /\ listing' = Unread
  /\ UNCHANGED <<devices, imageSide, mode, writing>>

\* Mistaken variant: a failed listing is never over.
ListingFailedForGood ==
  /\ listing.state = "failed"
  /\ discovery' = "Failed"
  /\ UNCHANGED <<devices, imageSide, candidates, reading, target, mode, writing>>

\* The previous list, and the selection in it, stay.
ListingFailed ==
  /\ listing.state = "failed"
  /\ discovery' = "Failed"
  /\ refreshing' = FALSE /\ listing' = Unread
  /\ UNCHANGED <<devices, imageSide, candidates, target, mode, writing>>

-----------------------------------------------------------------------------
(* The user's choices.                                                     *)

\* select_target: the list is not shown while an operation is.
SelectTarget(i) ==
  /\ operation = "none"
  /\ Ready(image) /\ i \in DOMAIN candidates /\ Available(image, candidates[i])
  /\ LET s == Selection(candidates, i, "Manual")
     IN choice' = s.choice /\ selected' = s.selected /\ lost' = FALSE
  /\ UNCHANGED <<devices, imageSide, reading, listed, mode, writing>>

ChooseVerify(m) ==
  /\ operation = "none"
  /\ Ready(image) /\ Supports(image.info, m)
  /\ verify.mode # m \/ verify.notice # None
  /\ verify' = [mode |-> m, preferred |-> m, notice |-> None]
  /\ asked' = m
  /\ UNCHANGED <<devices, imageSide, reading, listed, target, writing>>

-----------------------------------------------------------------------------
(* The operation.                                                          *)

\* Mistaken variant: the list's failure is not asked for.
WriteReadyOnAnyList ==
  Ready(image) /\ selected # 0 /\ Supports(image.info, verify.mode)

\* readiness, write_readiness.
WriteReady ==
  /\ Ready(image)
  /\ discovery # "Failed"
  /\ selected # 0
  /\ Supports(image.info, verify.mode)
  /\ Fits(image, candidates[selected])

\* start_operation; with a path that is not UTF-8, or when no thread can be had, it
\* leaves everything as it was.
StartOperation ==
  /\ operation = "none" /\ WriteReady /\ choice.held # None
  /\ operation' = "running"
  /\ request' = [target |-> choice.held, file |-> image.file, mode |-> verify.mode]
  /\ UNCHANGED <<devices, imageSide, reading, listed, target, mode>>

\* finish: the result is shown.
OperationEnds ==
  /\ operation = "running"
  /\ operation' = "ended" /\ request' = None
  /\ UNCHANGED <<devices, imageSide, reading, listed, target, mode>>

\* back_to_main.
BackToMain == operation' = "none" /\ RefreshTargets

\* finish, for a confirmation the user declined.
OperationDeclined ==
  /\ operation = "running"
  /\ BackToMain /\ request' = None
  /\ UNCHANGED <<devices, imageSide, listed, target, mode>>

\* start_removal and its end; SafeRemoval is about what happens in between.
RemovalStarts ==
  /\ operation = "ended" /\ operation' = "removing"
  /\ UNCHANGED <<devices, imageSide, reading, listed, target, mode, request>>

RemovalEnds ==
  /\ operation = "removing" /\ operation' = "ended"
  /\ UNCHANGED <<devices, imageSide, reading, listed, target, mode, request>>

\* result_action for WriteAgain, Retry and BackToMain.
WriteAgain ==
  /\ operation = "ended"
  /\ BackToMain
  /\ UNCHANGED <<devices, imageSide, listed, target, mode, request>>

\* WriteAnother: the drive just written is let go.
WriteAnother ==
  /\ operation = "ended"
  /\ choice' = [NoChoice EXCEPT !.cleared = "ChooseAnother"] /\ selected' = 0 /\ lost' = TRUE
  /\ BackToMain
  /\ UNCHANGED <<devices, imageSide, listed, mode, request>>

\* Done: neither an image nor a drive; the Verify preference stays.
Done ==
  /\ operation = "ended" /\ generation < MaxChoices
  /\ choice' = NoChoice /\ selected' = 0 /\ lost' = FALSE
  /\ verify' = [mode |-> "Quick", preferred |-> verify.preferred, notice |-> None]
  /\ image' = NoImage /\ generation' = generation + 1 /\ wanted' = None
  /\ BackToMain
  /\ UNCHANGED <<devices, inspections, listed, asked, request>>

-----------------------------------------------------------------------------
Environment ==
  \E p \in Ports : Unplug(p) \/ ChangeUse(p) \/ \E d \in Drives : Plug(p, d)

Next ==
  \/ Environment
  \/ \E f \in Files : Inspect(f)
  \/ \E job \in inspections : InspectionEnds(job)
  \/ Poll \/ ListCandidates \/ TakeList \/ ListingFailed
  \/ \E i \in DOMAIN candidates : SelectTarget(i)
  \/ \E m \in Modes : ChooseVerify(m)
  \/ StartOperation \/ OperationEnds \/ OperationDeclined
  \/ RemovalStarts \/ RemovalEnds
  \/ WriteAgain \/ WriteAnother \/ Done

Spec == Init /\ [][Next]_vars

\* The timer fires, blocking calls return or panic, and what they return is
\* handled; the user and the devices need do nothing.
FairSpec ==
  /\ Spec
  /\ WF_vars(Poll) /\ WF_vars(ListCandidates)
  /\ WF_vars(TakeList) /\ WF_vars(ListingFailed)
  /\ \A n \in 1 .. MaxChoices :
       WF_vars(\E job \in inspections : job.generation = n /\ InspectionEnds(job))

-----------------------------------------------------------------------------
(* Properties.                                                             *)

TypeOK ==
  /\ ports \in [Ports -> Disk \cup {None}] /\ events \in 0 .. MaxEvents
  /\ image \in [phase : {"Missing", "Inspecting", "Ready", "Failed"},
                file : Files \cup {None}, info : Infos]
  /\ generation \in 0 .. MaxChoices
  /\ inspections \subseteq [file : Files, generation : 1 .. MaxChoices]
  /\ candidates \in Seq(Candidate) /\ discovery \in {"Loading", "Listed", "Failed"}
  /\ refreshing \in BOOLEAN
  /\ listing.state \in {"none", "running", "read", "failed"}
  /\ listing.found \in Seq(Candidate)
  /\ choice.held \in Candidate \cup {None}
  /\ choice.origin \in {"Auto", "Manual", None}
  /\ choice.cleared \in Reasons \cup {None}
  /\ selected \in 0 .. Len(candidates)
  /\ verify \in [mode : Modes, preferred : Modes \cup {None}, notice : Modes \cup {None}]
  /\ operation \in {"none", "running", "ended", "removing"}
  /\ request \in [target : Candidate, file : Files, mode : Modes] \cup {None}
  /\ wanted \in Files \cup {None} /\ asked \in Modes \cup {None} /\ lost \in BOOLEAN

\* The image shown, and with it the one the write names, is the one the user
\* chose last: inspections that end late, in any order, or after he left with
\* "Done" change nothing.
ShownImageIsTheChosenOne ==
  /\ image.file = wanted
  /\ image.phase = "Inspecting" <=>
       \E job \in inspections : job.generation = generation

\* The device highlighted in the list is the device the write will name, as the
\* list now shows it, and one the user could have picked: the two are kept in
\* separate variables, and the list and the image are replaced independently.
SelectedIsHeld ==
  IF selected = 0 THEN choice.held = None
  ELSE /\ choice.held = candidates[selected]
       /\ Available(image, choice.held)

\* The mode in effect is the user's, or Full when the image could not do it, and
\* without a choice of his it is never to skip Verify; what the image cannot do is
\* never in effect, and a notice names what the user had wanted.
VerifyNeverWeaker ==
  /\ Ready(image) => Supports(image.info, verify.mode)
  /\ Ready(image) => verify.mode \in (IF asked = None THEN {"Quick", "Full"} ELSE {asked, "Full"})
  /\ verify.preferred # None => verify.preferred \in {asked, "Full"}
  /\ verify.notice # None => verify.notice = asked /\ verify.mode # asked

\* A device that is held is replaced by another instance, or a device chosen after
\* a selection was lost, by the user's own pick alone; only "Done" forgets a loss.
OnlyTheUserReplaces ==
  [][choice'.held # None /\ (choice.held # None \/ lost)
       => \/ choice.held # None /\ choice'.held.seq = choice.held.seq
          \/ choice'.origin = "Manual" /\ UNCHANGED <<listed, image>>]_vars

\* A write starts with what the user sees: the image he chose, a mode he can be
\* shown, and a device that a list read since the last failure contains.
StartsWithWhatIsShown ==
  [][request' # None /\ request = None
       => /\ request'.file = wanted
          /\ \E i \in DOMAIN candidates : candidates[i] = request'.target
          /\ discovery = "Listed"
          /\ asked = "Skip" \/ request'.mode # "Skip"]_vars

\* An inspection ends, whatever else is chosen or listed meanwhile.
InspectionsEnd == image.phase = "Inspecting" ~> image.phase # "Inspecting"

Plugged(c) == ports[c.port] = [drive |-> c.drive, seq |-> c.seq, free |-> TRUE]

\* A selected device that is gone, or in use, is let go by a later listing; when the
\* list cannot be read the user is told so, and it is going to be read again.
GoneIsNoticed ==
  (choice.held # None /\ ~Plugged(choice.held))
    ~> (choice.held = None \/ Plugged(choice.held) \/ (discovery = "Failed" /\ ~refreshing))
=============================================================================
