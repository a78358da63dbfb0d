-------------------------- MODULE CompressedImage --------------------------
(***************************************************************************)
(* A compressed image: Preflight decodes the whole stream once to measure  *)
(* it, and the write and Full Verify each decode it again, strictly        *)
(* (image_source/compressed.rs, prepare_compressed_image of                *)
(* orchestration/image.rs).                                                *)
(*                                                                         *)
(* A file is a sequence of units of compressed input.  A unit brings forth *)
(* `out` units of output; "end" is the end of a gzip member or xz stream,  *)
(* where checks of what came since the last one are verified; any other    *)
(* kind but "data" is what the decoder refuses the file for.  `of` is the  *)
(* version of the file that the unit belongs to: the file may be altered,  *)
(* cut or extended in place at any moment, and a check does not verify     *)
(* across versions.                                                        *)
(***************************************************************************)
EXTENDS InputBudget, Sequences

CONSTANTS Files,    \* the files that may be opened
          Altered,  \* what they may be altered to
          Buffer,   \* INPUT_BUFFER_LEN
          Quantum,  \* DECODE_QUANTUM
          Probe,    \* the probe of verify_end_of_stream
          Chunk,    \* the chunk of the write and of Full Verify
          Ahead,    \* how much output a decoder may hold back
          Limit     \* max_logical_size

\* What a decoder reports of the stream itself (ReplayFailure, PreflightError).
Reports == {"Corrupt", "Incomplete", "IntegrityCheckMissing", "UnsupportedIntegrityCheck",
            "DecoderMemoryLimitExceeded", "DecoderFailure"}
Versions == {"a", "b"}
\* Only data bring forth output.
Units == {u \in [out : Nat, kind : {"data", "end"} \cup Reports, of : Versions] :
            u.kind # "data" => u.out = 0}

ASSUME DecodeAssumption ==
  /\ Files \cup Altered \subseteq Seq(Units)
  /\ \A f \in Files, g \in Altered : f # g
  /\ {Buffer, Quantum, Probe, Chunk} \subseteq Nat \ {0}
  /\ Ahead \in Nat /\ Limit \in Nat

VARIABLES
  opened, disk,     \* the file when it was opened, and now
  stage,            \* of the image: "opened", "preflight", "measured", "prepared",
                    \* "replay", "refused"
  status,           \* of the pass: "active", "succeeded", or why it failed
  logicalSize,      \* what Preflight measured
  cancelled,
  cursor, buffer,   \* the source cursor, and the BufReader above it
  consumed,         \* what CountingBufRead has counted
  held, member,     \* in the decoder: output it has not returned, and the version
                    \* that the current member's units are of
  call, room,       \* the decoder's read: "none", "fill", "run" or "eof", and its dst
  produced,         \* what it has returned, in all
  probing,          \* verify_end_of_stream runs
  delivered,        \* what the caller of the replay has been given
  asked,            \* (history) what was consumed when the cancellation was requested
  mark              \* (history) where a stretch of decoding was begun to be watched

file == <<opened, disk>>
source == <<cursor, buffer>>
decoder == <<held, member>>
reader == <<status, call, room, produced, probing, delivered>>
history == <<asked, mark>>
vars == <<file, stage, logicalSize, cancelled, source, consumed, decoder, reader, budget, history>>

compressedSize == Len(opened)

\* The failures that are found around the decoder.
OwnFailures == {"EndedEarly", "LogicalSizeExceeded", "InputNotFullyConsumed",
                "InputBudgetExceeded", "SourceIo", "DecoderFailure",
                "Cancelled", "LogicalSizeLimitExceeded", "SourceChanged"}
Failed == status \notin {"active", "succeeded"}

\* A fresh reader and decoder, from byte 0.
Fresh ==
  /\ cursor' = 0 /\ buffer' = <<>> /\ consumed' = 0
  /\ held' = 0 /\ member' = "unstarted"
  /\ produced' = 0 /\ probing' = FALSE /\ delivered' = 0
  /\ mark' = [input |-> 0, output |-> 0]
  /\ ResetBudget

Init ==
  /\ opened \in Files /\ disk = opened
  /\ stage = "opened" /\ status = "active" /\ logicalSize = 0 /\ cancelled = FALSE
  /\ cursor = 0 /\ buffer = <<>> /\ consumed = 0
  /\ held = 0 /\ member = "unstarted"
  /\ call = "none" /\ room = 0 /\ produced = 0 /\ probing = FALSE /\ delivered = 0
  /\ NewBudget
  /\ asked = 0 /\ mark = [input |-> 0, output |-> 0]

-----------------------------------------------------------------------------
(* Around the passes: the user, other programs, the operation.             *)

\* Another program writes to the file, truncates or extends it.
Alter ==
  /\ disk = opened
  /\ disk' \in Altered
  /\ UNCHANGED <<opened, stage, logicalSize, cancelled, source, consumed, decoder, reader,
                 budget, history>>

\* The operation's cancel handle is set; Preflight polls it.
RequestCancel ==
  /\ ~cancelled
  /\ cancelled' = TRUE /\ asked' = consumed
  /\ UNCHANGED <<file, stage, logicalSize, source, consumed, decoder, reader, budget, mark>>

\* Where a stretch of decoding begins is any point of a pass.
BeginStretch ==
  /\ call # "none"
  /\ mark' = [input |-> consumed, output |-> produced]
  /\ UNCHANGED <<file, stage, logicalSize, cancelled, source, consumed, decoder, reader,
                 budget, asked>>

\* A pass ends; Preflight's failure refuses the image.
Fail(why) ==
  /\ status' = why /\ call' = "none"
  /\ stage' = IF stage = "preflight" THEN "refused" ELSE stage

BeginPreflight ==
  /\ stage = "opened"
  /\ \/ cancelled /\ stage' = "refused" /\ status' = "Cancelled" /\ UNCHANGED <<call, room>>
     \/ ~cancelled /\ stage' = "refused" /\ status' = "DecoderFailure" /\ UNCHANGED <<call, room>>
     \/ ~cancelled /\ stage' = "preflight" /\ call' = "fill" /\ room' = Quantum
        /\ UNCHANGED status
  /\ UNCHANGED <<file, logicalSize, cancelled, source, consumed, decoder, produced, probing,
                 delivered, budget, history>>

\* prepare_compressed_image: the snapshot is the one of open_image.
Revalidate ==
  /\ stage = "measured"
  /\ IF disk = opened THEN stage' = "prepared" /\ UNCHANGED status
                      ELSE stage' = "refused" /\ status' = "SourceChanged"
  /\ UNCHANGED <<file, logicalSize, cancelled, source, consumed, decoder, call, room, produced,
                 probing, delivered, budget, history>>

\* CompressedImageSource::open_reader, for the write and for Full Verify; liblzma
\* may fail to be set up.
OpenReader ==
  /\ stage \in {"prepared", "replay"} /\ call = "none"
  /\ stage' = "replay"
  /\ status' \in {"active", "DecoderFailure"}
  /\ Fresh
  /\ UNCHANGED <<file, logicalSize, cancelled, call, room, asked>>

-----------------------------------------------------------------------------
(* One read of the decoder: it may fill its input several times before it  *)
(* returns output, reports the end, or fails.                              *)

\* FileImageReader, clamped to the size the file had when it was opened.
End == Smaller(compressedSize, Len(disk))
Upcoming == SubSeq(disk, cursor + 1, Smaller(cursor + Buffer, End))

\* Mistaken variant: no input is not yet the end.
RefillRetries ==
  IF buffer # <<>>
  THEN call' = "run" /\ UNCHANGED source
  ELSE /\ buffer' = Upcoming /\ cursor' = cursor + Len(Upcoming)
       /\ call' = IF Upcoming = <<>> THEN "fill" ELSE "run"

Refill ==
  IF buffer # <<>>
  THEN call' = "run" /\ UNCHANGED source
  ELSE /\ buffer' = Upcoming /\ cursor' = cursor + Len(Upcoming)
       /\ call' = IF Upcoming = <<>> THEN "eof" ELSE "run"

\* Mistaken variant: the hook checks the budget alone.
FillUnpolled ==
  /\ call = "fill"
  /\ \/ Refuse(consumed, produced) /\ Fail("InputBudgetExceeded") /\ UNCHANGED source
     \/ Charge(consumed, produced) /\ Refill /\ UNCHANGED <<stage, status>>
  /\ UNCHANGED <<file, logicalSize, cancelled, consumed, decoder, room, produced, probing,
                 delivered, history>>

\* fill_buf of CountingBufRead: Preflight's hook polls the cancellation first.
Fill ==
  /\ call = "fill"
  /\ \/ stage = "preflight" /\ cancelled
        /\ Fail("Cancelled") /\ UNCHANGED <<source, budget>>
     \/ ~(stage = "preflight" /\ cancelled)
        /\ Refuse(consumed, produced) /\ Fail("InputBudgetExceeded") /\ UNCHANGED source
     \/ ~(stage = "preflight" /\ cancelled)
        /\ Charge(consumed, produced) /\ Refill /\ UNCHANGED <<stage, status>>
  /\ UNCHANGED <<file, logicalSize, cancelled, consumed, decoder, room, produced, probing,
                 delivered, history>>

\* The check passes, and pread fails.
SourceFails ==
  /\ call = "fill" /\ buffer = <<>>
  /\ ~(stage = "preflight" /\ cancelled)
  /\ Charge(consumed, produced)
  /\ Fail("SourceIo")
  /\ UNCHANGED <<file, logicalSize, cancelled, source, consumed, decoder, room, produced, probing,
                 delivered, history>>

\* The decoder takes the next unit of what is buffered: while its dst has room, or
\* beyond if it holds output back.
Takes(u) == held < room \/ (Ahead > 0 /\ held + u.out <= room + Ahead)

Take ==
  /\ call = "run" /\ buffer # <<>>
  /\ LET u == Head(buffer) IN
     /\ Takes(u)
     /\ buffer' = Tail(buffer) /\ consumed' = consumed + 1
     /\ CASE u.kind = "data" ->
               /\ held' = held + u.out
               /\ member' = IF member \in {"unstarted", "ended", u.of} THEN u.of ELSE "mixed"
               /\ UNCHANGED <<stage, status, call>>
          [] u.kind = "end" /\ member \in {"unstarted", "ended", u.of} ->
               /\ member' = "ended"
               /\ call' \in {"run", "fill"}  \* gzip fills again for the next header
               /\ UNCHANGED <<held, stage, status>>
          [] u.kind = "end" /\ member \notin {"unstarted", "ended", u.of} ->
               Fail("Corrupt") /\ UNCHANGED decoder
          [] OTHER -> Fail(u.kind) /\ UNCHANGED decoder
  /\ UNCHANGED <<file, logicalSize, cancelled, cursor, room, produced, probing, delivered,
                 budget, history>>

\* Nothing came of the input so far: the decoder fills it again.
Continue ==
  /\ call = "run" /\ buffer = <<>> /\ held = 0
  /\ call' = "fill"
  /\ UNCHANGED <<file, stage, logicalSize, cancelled, source, consumed, decoder, status, room,
                 produced, probing, delivered, budget, history>>

\* What the decoder's read returns, n > 0 units of output or the clean end.
Returned ==
  /\ held > 0
  /\ \/ call = "eof"
     \/ call = "run" /\ (buffer = <<>> \/ held >= room)
     \/ call = "run" /\ buffer # <<>> /\ Ahead > 0 /\ Head(buffer).kind # "data"
AtEnd == call = "eof" /\ held = 0

-----------------------------------------------------------------------------
(* Preflight: decode_to_end.                                               *)

\* add_logical_bytes: a size equal to the limit is allowed.
Counted ==
  /\ stage = "preflight" /\ Returned
  /\ LET n == Smaller(held, room) IN
     /\ held' = held - n
     /\ IF produced + n > Limit
        THEN Fail("LogicalSizeLimitExceeded") /\ UNCHANGED produced
        ELSE produced' = produced + n /\ call' = "fill" /\ UNCHANGED <<stage, status>>
  /\ UNCHANGED <<file, logicalSize, cancelled, source, consumed, member, room, probing,
                 delivered, budget, history>>

\* Mistaken variant: the end of the output is taken for success.
MeasuredAtOutputEnd ==
  /\ stage = "preflight" /\ AtEnd
  /\ stage' = "measured" /\ logicalSize' = produced /\ call' = "none"
  /\ UNCHANGED <<file, cancelled, source, consumed, decoder, status, room, produced, probing,
                 delivered, budget, history>>

Measured ==
  /\ stage = "preflight" /\ AtEnd
  /\ IF member # "ended" THEN Fail("Incomplete") /\ UNCHANGED logicalSize
     ELSE IF consumed # compressedSize
     THEN Fail("InputNotFullyConsumed") /\ UNCHANGED logicalSize
     ELSE stage' = "measured" /\ logicalSize' = produced /\ call' = "none" /\ UNCHANGED status
  /\ UNCHANGED <<file, cancelled, source, consumed, decoder, room, produced, probing,
                 delivered, budget, history>>

-----------------------------------------------------------------------------
(* StrictReplayReader.  Its callers fill chunks of a fixed size.           *)

Remaining == logicalSize - produced
Wanted == Smaller(Smaller(Chunk - (produced % Chunk), Remaining), Quantum)

\* Mistaken variant: a failure is forgotten by the next read.
ReadAfterFailure ==
  /\ stage = "replay" /\ call = "none" /\ status # "succeeded"
  /\ status' = "active"
  /\ call' = "fill"
  /\ probing' = (Remaining = 0)
  /\ room' = IF Remaining = 0 THEN Probe ELSE Wanted
  /\ UNCHANGED <<file, stage, logicalSize, cancelled, source, consumed, decoder, produced,
                 delivered, budget, history>>

\* A reader that has ended answers with its end, however often it is read.
Read ==
  /\ stage = "replay" /\ call = "none" /\ status = "active"
  /\ call' = "fill"
  /\ probing' = (Remaining = 0)
  /\ room' = IF Remaining = 0 THEN Probe ELSE Wanted
  /\ UNCHANGED <<file, stage, logicalSize, cancelled, source, consumed, decoder, status,
                 produced, delivered, budget, history>>

\* Mistaken variant: the last byte is the end.
DecodedUnverified ==
  /\ stage = "replay" /\ Returned /\ ~probing
  /\ LET n == Smaller(held, room) IN
     /\ held' = held - n /\ produced' = produced + n /\ delivered' = produced + n
     /\ call' = "none"
     /\ status' = IF produced + n = logicalSize THEN "succeeded" ELSE status
  /\ UNCHANGED <<file, stage, logicalSize, cancelled, source, consumed, member, room, probing,
                 budget, history>>

\* The final bytes are withheld until the end is verified.
Decoded ==
  /\ stage = "replay" /\ Returned /\ ~probing
  /\ LET n == Smaller(held, room) IN
     /\ held' = held - n /\ produced' = produced + n
     /\ IF produced + n = logicalSize
        THEN probing' = TRUE /\ room' = Probe /\ call' = "fill" /\ UNCHANGED delivered
        ELSE delivered' = produced + n /\ call' = "none" /\ UNCHANGED <<probing, room>>
  /\ UNCHANGED <<file, stage, logicalSize, cancelled, source, consumed, member, status, budget,
                 history>>

\* Mistaken variant: the decoder's clean end is the image's end.
EndedAsSuccess ==
  /\ stage = "replay" /\ AtEnd /\ ~probing
  /\ Fail(IF member = "ended" THEN "succeeded" ELSE "Incomplete")
  /\ UNCHANGED <<file, logicalSize, cancelled, source, consumed, decoder, room, produced,
                 probing, delivered, budget, history>>

\* The decoder's end before all is produced: its own verdict, or a clean early end.
Ended ==
  /\ stage = "replay" /\ AtEnd /\ ~probing
  /\ Fail(IF member = "ended" THEN "EndedEarly" ELSE "Incomplete")
  /\ UNCHANGED <<file, logicalSize, cancelled, source, consumed, decoder, room, produced,
                 probing, delivered, budget, history>>

\* verify_end_of_stream.
ProbeFinds ==
  /\ stage = "replay" /\ Returned /\ probing
  /\ held' = held - Smaller(held, room)
  /\ Fail("LogicalSizeExceeded")
  /\ UNCHANGED <<file, logicalSize, cancelled, source, consumed, member, room, produced,
                 probing, delivered, budget, history>>

ProbeEnds ==
  /\ stage = "replay" /\ AtEnd /\ probing
  /\ IF member # "ended" THEN Fail("Incomplete") /\ UNCHANGED delivered
     ELSE IF consumed # compressedSize THEN Fail("InputNotFullyConsumed") /\ UNCHANGED delivered
     ELSE Fail("succeeded") /\ delivered' = produced
  /\ UNCHANGED <<file, logicalSize, cancelled, source, consumed, decoder, room, produced,
                 probing, budget, history>>

-----------------------------------------------------------------------------
Decode == Fill \/ Take \/ Continue \/ Counted \/ Measured \/ Decoded \/ Ended \/ ProbeFinds
          \/ ProbeEnds
Operation == BeginPreflight \/ Revalidate \/ OpenReader \/ Read
Environment == SourceFails \/ Alter \/ RequestCancel \/ BeginStretch
Next == Decode \/ Operation \/ Environment

Spec == Init /\ [][Next]_vars

\* The thread that called Preflight or read() runs until it returns.
FairSpec == Spec /\ WF_vars(Decode)

-----------------------------------------------------------------------------
(* Properties.                                                             *)

Verdicts == {"active", "succeeded"} \cup OwnFailures \cup Reports

TypeOK ==
  /\ opened \in Files /\ disk \in {opened} \cup Altered
  /\ stage \in {"opened", "preflight", "measured", "prepared", "replay", "refused"}
  /\ status \in Verdicts
  /\ logicalSize \in 0..Limit /\ cancelled \in BOOLEAN
  /\ cursor \in 0..compressedSize /\ buffer \in Seq(Units)
  /\ consumed \in Nat /\ consumed + Len(buffer) = cursor
  /\ held \in Nat /\ member \in Versions \cup {"unstarted", "ended", "mixed"}
  /\ call \in {"none", "fill", "run", "eof"} /\ room \in 0..Quantum \cup {Probe}
  /\ produced \in 0..Limit /\ probing \in BOOLEAN /\ delivered \in 0..produced
  /\ BudgetTypeOK
  /\ asked \in 0..compressedSize /\ mark \in [input : Nat, output : Nat]

\* What the file decodes to, and whether it is intact from its first unit to its last.
OutputOf(f) ==
  LET total[i \in 0..Len(f)] == IF i = 0 THEN 0 ELSE total[i - 1] + f[i].out
  IN  total
TotalOut(f) == OutputOf(f)[Len(f)]
Intact(f) ==
  /\ \A i \in DOMAIN f : f[i].kind \in {"data", "end"}
  /\ f # <<>> /\ f[Len(f)].kind = "end"

\* An image is handed to the write only if it is intact to its last byte, with the
\* size it really decodes to, within the target's capacity (preflight_stream,
\* prepare_compressed_image): reaching some size is never taken for success, and a
\* file that was altered meanwhile is found out.
PreparedIsIntact ==
  stage \in {"prepared", "replay"} =>
    Intact(opened) /\ logicalSize = TotalOut(opened) /\ logicalSize <= Limit

\* StrictReplayReader never hands out the last byte before the whole stream, each
\* checksum and every compressed byte included, is verified: a write that has all
\* its bytes has bytes that were verified again.
FinalBytesAreVerified ==
  stage = "replay" /\ delivered = logicalSize /\ (logicalSize > 0 \/ status = "succeeded") =>
    status = "succeeded" /\ consumed = compressedSize /\ member = "ended" /\ held = 0

\* A replay that ends well has delivered all of it, and one of an unaltered file does
\* not fail for its content: what Preflight accepted decodes the same again.
UnalteredDecodesAlike ==
  stage = "replay" =>
    /\ status = "succeeded" => delivered = logicalSize
    /\ Failed /\ disk = opened => status \in {"InputBudgetExceeded", "SourceIo", "DecoderFailure"}

\* After a failure a reader delivers nothing and keeps the failure's category,
\* whatever its caller does (StrictReplayReader's doc comment).
FailureIsFinal ==
  [][stage = "replay" /\ Failed => OpenReader \/ UNCHANGED <<status, call, delivered>>]_vars

\* The Compressed Input Budget's promise: any stretch of decoding, in Preflight or a
\* replay, consumes at most the cap, what its own output earns, and one buffer.
WorkIsBounded ==
  LET input == consumed - mark.input
      output == produced - mark.output
  IN  input <= Cap + output + ((output + Rate - 1) \div Rate) + Buffer

\* Preflight stops within one buffer of a cancellation, with or without output.
CancelStopsPreflight == stage = "preflight" /\ cancelled => consumed - asked <= Buffer

\* Every read of a decoder returns, and so Preflight ends: input runs out or the
\* budget does.
ReadsReturn == call # "none" ~> call = "none"

\* How many steps a read of a decoder may still take: three for each unit that can be
\* consumed, two for each unit of output that can be produced, and those of the fill.
Pace ==
  CASE call = "none" -> 0
    [] call = "fill" -> 2
    [] call = "run" /\ buffer = <<>> -> 3
    [] OTHER -> 1

StepsLeft == 3 * (compressedSize - consumed) + 2 * (Limit - produced) + Pace

\* A read takes a bounded number of steps, whatever the file becomes: each brings its
\* end nearer, also one that brings forth nothing, and nothing sets it back.
EveryStepCounts ==
  [][call # "none" => StepsLeft' < StepsLeft \/ (Environment /\ UNCHANGED StepsLeft)]_vars

\* What the comments of StrictReplayReader promise of an unaltered file: "the
\* Compressed Input Budget applies exactly as in Preflight", so that a replay does not
\* refuse for it what Preflight accepted.
BudgetAppliesAlike ==
  stage = "replay" /\ disk = opened => status # "InputBudgetExceeded"
\* The image as the write sees it, in the terms of StrictReplay.
Opened == [intact |-> Intact(opened), size |-> TotalOut(opened)]
Prepared == stage \in {"prepared", "replay"}
Size == IF Prepared THEN logicalSize ELSE 0
Given == IF stage = "replay" THEN delivered ELSE 0

ReaderEnd ==
  CASE ~Prepared -> "none"
    [] stage = "prepared" -> "closed"
    [] stage = "replay" /\ status = "active" -> "open"
    [] stage = "replay" /\ status = "succeeded" -> "whole"
    [] OTHER -> "failed"

Replay == INSTANCE StrictReplay
            WITH image <- Opened, size <- Size, given <- Given, end <- ReaderEnd

\* Every step of Preflight and of a reader, on whatever file is there by then, is one
\* that the image's promise allows, or none that its users notice: only an intact
\* image is handed out, only verified readers give its last byte, and none revives.
KeepsItsPromise == Replay!ReplaySpec
=============================================================================
