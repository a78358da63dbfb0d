---------------------------- MODULE VerifyRead ----------------------------
(***************************************************************************)
(* Verify's reading: the ranges that Full and Quick Verify compare         *)
(* (run_full_verify, run_quick_verify of execution/write_job.rs), and the  *)
(* O_DIRECT reads of the target that each piece of them takes              *)
(* (DirectReadGeometry, direct_read of execution/linux_access.rs).         *)
(*                                                                         *)
(* A byte of the image or of the device is known by its offset.  What the  *)
(* buffer holds is which byte of the device was read to each place of it,  *)
(* so that a comparison of the wrong bytes can be seen.                    *)
(***************************************************************************)
EXTENDS Integers, Sequences, FiniteSets

CONSTANTS
  Geometries, \* what the kernel may report of a descriptor
  Capacities, \* of the device, BLKGETSIZE64
  ImageSizes,
  Modes,      \* "Full", "Quick"
  Accesses,   \* of the image: "RandomAccess", "SequentialReplay"
  Window,     \* QUICK_VERIFY_WINDOW_SIZE
  Chunk,      \* writer::DEFAULT_CHUNK_SIZE
  MaxRead     \* MAX_DIRECT_READ

Reported == [direct : BOOLEAN, block : Nat, offset : Nat, memory : Nat, page : Nat]

\* u64::is_power_of_two, as far as MAX_DIRECT_READ.
Powers == {2 ^ k : k \in 0..20}

ASSUME VerifyAssumption ==
  /\ Geometries \subseteq Reported
  /\ Capacities \subseteq Nat /\ ImageSizes \subseteq Nat
  /\ Modes \subseteq {"Full", "Quick"}
  /\ Accesses \subseteq {"RandomAccess", "SequentialReplay"}
  /\ Window \in Nat \ {0} /\ Window % 2 = 0
  /\ Chunk \in Nat \ {0} /\ MaxRead \in Powers

\* Of two powers of two the lesser divides the greater.
ASSUME PowersDivide ==
  /\ Powers \subseteq Nat \ {0}
  /\ \A a, b \in Powers : a <= b => b % a = 0

\* VerifyOutcome, with the reasons of a failure that reading can have.
Outcomes ==
  {"none", "NotStarted", "Succeeded", "Mismatch", "Cancelled", "UnsupportedAccess",
   "SourceReadError", "SourceUnexpectedEof", "TargetReadError", "TargetUnexpectedEof",
   "OutsideDevice", "TooLarge", "UnalignedShortRead"}

VARIABLES
  geometry, capacity, \* of the descriptor
  size, mode, access, \* of the image and the request
  cancel,             \* CancelHandle
  pc, outcome,
  index, inner,       \* the range, and how far it is compared
  verified,           \* verified_bytes
  buffer, start, len, \* direct_read: its buffer, and the span to be read,
  filled,             \* and how far it has come
  mismatch,           \* the place of a mismatch, and the byte that was read there
  compared            \* (history) <<byte of the image, byte of the device>> found equal

request == <<geometry, capacity, size, mode, access>>
progress == <<index, inner, verified, compared>>
span == <<buffer, start, len, filled>>
vars == <<request, cancel, pc, outcome, progress, span, mismatch>>

Lesser(a, b) == IF a <= b THEN a ELSE b
Greater(a, b) == IF a <= b THEN b ELSE a
RoundedUp(n, block) == ((n + block - 1) \div block) * block

-----------------------------------------------------------------------------
(* DirectReadGeometry.                                                     *)

Fits(n) == n \in Powers /\ n <= MaxRead

\* from_reported: what cannot be respected is refused.
Usable(g) ==
  /\ g.direct
  /\ g.offset = g.block
  /\ Fits(g.block) /\ Fits(g.memory) /\ Fits(g.page)

\* The buffer's address is a multiple of it; its places count from there.
Alignment == Greater(geometry.memory, geometry.page)

BufferLen == RoundedUp(Chunk, geometry.block) + geometry.block

\* aligned_span of `want` bytes at `offset`.
SpanStart(offset) == offset - (offset % geometry.block)
SpanEnd(offset, want) == RoundedUp(offset + want, geometry.block)

-----------------------------------------------------------------------------
(* The ranges.                                                             *)

\* quick_verify_ranges takes the windows in the order of their offsets.
Merge(ranges, range) ==
  IF ranges # <<>> /\ range[1] <= ranges[Len(ranges)][1] + ranges[Len(ranges)][2]
  THEN LET last == ranges[Len(ranges)]
       IN  [ranges EXCEPT ![Len(ranges)] =
              <<last[1], Greater(range[1] + range[2], last[1] + last[2]) - last[1]>>]
  ELSE Append(ranges, range)

QuickRanges(n) ==
  LET w == Lesser(Window, n)
      first == <<0, w>>
      middle == <<Lesser(Greater((n \div 2) - (w \div 2), 0), n - w), w>>
      last == <<n - w, w>>
  IN  IF n = 0 THEN <<>> ELSE Merge(Merge(<<first>>, middle), last)

\* Full Verify is a loop over the whole image.
Ranges == IF mode = "Quick" THEN QuickRanges(size) ELSE <<<<0, size>>>>

-----------------------------------------------------------------------------
Init ==
  /\ geometry \in Geometries /\ capacity \in Capacities
  /\ size \in ImageSizes /\ size <= capacity
  /\ mode \in Modes /\ access \in Accesses
  /\ cancel = FALSE
  /\ pc = "query" /\ outcome = "none"
  /\ index = 1 /\ inner = 0 /\ verified = 0
  /\ buffer = <<>> /\ start = 0 /\ len = 0 /\ filled = 0
  /\ mismatch = <<>>
  /\ compared = {}

Finish(result) ==
  /\ pc' = "done" /\ outcome' = result

\* direct_read_geometry of begin_verify: Verify does not start without it, and the
\* kernel may refuse to answer.
Query ==
  /\ pc = "query"
  /\ \/ Usable(geometry) /\ pc' = "begin" /\ UNCHANGED outcome
     \/ Finish("NotStarted")
  /\ UNCHANGED <<request, cancel, progress, span, mismatch>>

\* Quick's access is checked first, then the cancellation; Full opens its reader, and
\* both allocate the buffer.
Begin ==
  /\ pc = "begin"
  /\ IF mode = "Quick" /\ access # "RandomAccess" THEN Finish("UnsupportedAccess") /\ UNCHANGED buffer
     ELSE IF cancel THEN Finish("Cancelled") /\ UNCHANGED buffer
     ELSE \/ mode = "Full" /\ Finish("SourceReadError") /\ UNCHANGED buffer
          \/ Finish("TargetReadError") /\ UNCHANGED buffer
          \/ /\ pc' = "loop" /\ UNCHANGED outcome
             /\ buffer' = [i \in 1..BufferLen |-> -1]
  /\ UNCHANGED <<request, cancel, progress, start, len, filled, mismatch>>

\* The heads of the loops.
At == Ranges[index][1] + inner
Want == Lesser(Ranges[index][2] - inner, Chunk)

NextChunk ==
  /\ pc = "loop"
  /\ \/ index > Len(Ranges) /\ Finish("Succeeded") /\ UNCHANGED <<index, inner>>
     \/ /\ index <= Len(Ranges) /\ inner >= Ranges[index][2]
        /\ index' = index + 1 /\ inner' = 0
        /\ UNCHANGED <<pc, outcome>>
     \/ /\ index <= Len(Ranges) /\ inner < Ranges[index][2]
        /\ IF cancel THEN Finish("Cancelled") ELSE pc' = "source" /\ UNCHANGED outcome
        /\ UNCHANGED <<index, inner>>
  /\ UNCHANGED <<request, cancel, verified, compared, span, mismatch>>

\* The chunk of the image: Full reads until the chunk is full or the stream ends,
\* Quick asks once; the file may have lost its end, or answer in part.
ReadSource ==
  /\ pc = "source"
  /\ \/ pc' = "span" /\ UNCHANGED outcome
     \/ Finish("SourceUnexpectedEof")
     \/ Finish("SourceReadError")
  /\ UNCHANGED <<request, cancel, progress, span, mismatch>>

\* direct_read begins: the span must lie in the device, and fit the buffer.
BeginSpan ==
  /\ pc = "span"
  /\ LET from == SpanStart(At)
         to == SpanEnd(At, Want)
     IN  IF to > capacity THEN Finish("OutsideDevice") /\ UNCHANGED <<start, len, filled>>
         ELSE IF to - from > BufferLen THEN Finish("TooLarge") /\ UNCHANGED <<start, len, filled>>
         ELSE /\ start' = from /\ len' = to - from /\ filled' = 0
              /\ pc' = "read" /\ UNCHANGED outcome
  /\ UNCHANGED <<request, cancel, progress, buffer, mismatch>>

Piece == Lesser(len - filled, MaxRead)

\* Mistaken variant: only the offset's rule is looked at.
OffBlock(n) == n % geometry.block # 0

\* Where a short read of n bytes cannot be continued.
Unaligned(n) == n % geometry.block # 0 \/ (filled + n) % geometry.memory # 0

\* What the kernel delivers of a read: none of it, part of it or all of it.
ReadDevice ==
  /\ pc = "read" /\ filled < len
  /\ \E n \in 0..Piece :
       IF n = 0 THEN Finish("TargetUnexpectedEof") /\ UNCHANGED <<buffer, filled>>
       ELSE /\ buffer' = [i \in DOMAIN buffer |->
                            IF i \in (filled + 1)..(filled + n) THEN start + i - 1 ELSE buffer[i]]
            /\ filled' = filled + n
            /\ IF filled + n < len /\ Unaligned(n) THEN Finish("UnalignedShortRead")
                                                  ELSE UNCHANGED <<pc, outcome>>
  /\ UNCHANGED <<request, cancel, progress, start, len, mismatch>>

DeviceFails ==
  /\ pc = "read" /\ filled < len
  /\ Finish("TargetReadError")
  /\ UNCHANGED <<request, cancel, progress, span, mismatch>>

\* Mistaken variant: what the rounding put before the wanted bytes is not skipped.
FirstBytes(i) == buffer[i]

\* What direct_read returns: the wanted bytes of the span.
Returned(i) == buffer[At - start + i]

\* The first n bytes of the chunk, each with the byte it is found equal to.
FoundEqual(n) == {<<At + i - 1, Returned(i)>> : i \in 1..n}

\* first_mismatch: the chunk is equal up to the i-th byte, or to its end.
Compare ==
  /\ pc = "read" /\ filled >= len
  /\ \/ \E i \in 1..Want :
          /\ mismatch' = <<At + i - 1, Returned(i)>> /\ Finish("Mismatch")
          /\ compared' = compared \cup FoundEqual(i - 1)
          /\ UNCHANGED <<index, inner, verified>>
     \/ /\ compared' = compared \cup FoundEqual(Want)
        /\ inner' = inner + Want /\ verified' = verified + Want /\ pc' = "loop"
        /\ UNCHANGED <<outcome, index, mismatch>>
  /\ UNCHANGED <<request, cancel, span>>

RequestCancel ==
  /\ ~cancel /\ cancel' = TRUE
  /\ UNCHANGED <<request, pc, outcome, progress, span, mismatch>>

Next ==
  \/ Query \/ Begin \/ NextChunk \/ ReadSource \/ BeginSpan
  \/ ReadDevice \/ DeviceFails \/ Compare
  \/ RequestCancel

Spec == Init /\ [][Next]_vars

-----------------------------------------------------------------------------
(* Properties.                                                             *)

TypeOK ==
  /\ geometry \in Geometries /\ capacity \in Capacities
  /\ size \in ImageSizes /\ size <= capacity /\ mode \in Modes /\ access \in Accesses
  /\ cancel \in BOOLEAN
  /\ pc \in {"query", "begin", "loop", "source", "span", "read", "done"}
  /\ outcome \in Outcomes
  /\ index \in Nat \ {0} /\ inner \in Nat /\ verified \in Nat
  /\ buffer \in Seq(Int) /\ start \in Nat /\ len \in Nat /\ filled \in 0..len
  /\ mismatch \in {<<>>} \cup (Nat \X Int) /\ compared \subseteq (Nat \X Int)

\* Every direct read starts on a block, asks for whole blocks, at most MaxRead, goes to
\* a place of the buffer whose address the device's DMA can reach, and stays within
\* the device and the buffer: also after a short read (direct_read's promise).
ReadsFollowTheRules ==
  pc = "read" /\ filled < len =>
    /\ (start + filled) % geometry.block = 0
    /\ Piece % geometry.block = 0 /\ Piece \in 1..MaxRead
    /\ (Alignment + filled) % geometry.memory = 0 /\ Alignment % geometry.memory = 0
    /\ start + filled + Piece <= capacity
    /\ filled + Piece <= BufferLen

\* What each mode promises to compare: Full everything, Quick the first, the middle
\* and the last window, which is everything for an image of up to three windows.
Promised ==
  IF mode = "Full" \/ size <= 3 * Window THEN 0..(size - 1)
  ELSE {o \in 0..(size - 1) :
          \/ o < Window \/ o >= size - Window
          \/ o \in ((size \div 2) - (Window \div 2))..((size \div 2) + (Window \div 2) - 1)}

\* Success means that every promised byte of the image was found equal to the byte of
\* the device at the same offset, and to no other; a mismatch names the first promised
\* byte that differs, all promised bytes before it having been found equal; and where
\* the device is a whole number of blocks no range of an image that fits it is refused
\* (run_full_verify, run_quick_verify, first_mismatch, quick_verify_ranges).
VerdictIsTrue ==
  /\ outcome = "Succeeded" =>
       compared = {<<o, o>> : o \in Promised} /\ verified = Cardinality(Promised)
  /\ outcome = "Mismatch" =>
       /\ mismatch[1] = mismatch[2] /\ mismatch[1] \in Promised
       /\ compared = {<<o, o>> : o \in {p \in Promised : p < mismatch[1]}}
  /\ outcome # "TooLarge"
  /\ outcome = "OutsideDevice" => capacity % geometry.block # 0

\* How much is left to compare, a range counted as the whole image and one more, and how
\* far a chunk has come; a read of the device brings at least a byte of its span.
Left ==
  IF index <= Len(Ranges) THEN (Len(Ranges) + 1 - index) * (size + 1) - inner ELSE 0

Pace ==
  CASE pc = "query" -> BufferLen + 6
    [] pc = "begin" -> BufferLen + 5
    [] pc = "loop" -> BufferLen + 4
    [] pc = "source" -> BufferLen + 3
    [] pc = "span" -> BufferLen + 2
    [] OTHER -> 1 + len - filled

StepsLeft ==
  CASE pc = "done" -> 0
    [] pc # "done" /\ ~Usable(geometry) -> 1
    [] OTHER -> (BufferLen + 4) * Left + Pace

\* Verify takes a bounded number of steps, whatever the kernel delivers: each brings its
\* end nearer, also when every read is short, and no read, chunk or range is begun again.
EveryStepCounts ==
  [][StepsLeft' < StepsLeft \/ (RequestCancel /\ UNCHANGED StepsLeft)]_vars
=============================================================================
